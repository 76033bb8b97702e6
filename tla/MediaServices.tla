------------------------------ MODULE MediaServices ------------------------------
(***************************************************************************)
(* Images and videos: an image is generated, downloaded and put in S3 under *)
(* a name of its own; a script comes from a cache or a model; a video is a  *)
(* manifest in S3 under a name made from its script. Images and videos that *)
(* fail are answered with the address of a placeholder.                     *)
(***************************************************************************)
EXTENDS Tasks

CONSTANTS
    Scripts,    \* texts of scripts, one per prompt
    Templates   \* templates of a video

VARIABLES
    objects,    \* S3: key -> what was put there last
    scripts,    \* Redis: prompt -> script, while it lasts
    answer      \* what a call answered: a key, "placeholder" or a script

mediaVars == <<objects, scripts, answer>>

None == <<"none">>
Answer(kd, x) == [is |-> kd, of |-> x]
Unanswered == Answer("nothing", Nothing)
Placeholder == Answer("placeholder", Nothing)
StockScript == <<"stock">>    \* the script without a model

MediaInit ==
    /\ objects = <<>>
    /\ scripts = [s \in Scripts |-> None]
    /\ answer = [c \in Calls |-> Unanswered]

Stored(k, x) == objects' = With(objects, k, x)
Answers(c, x) == answer' = [answer EXCEPT ![c] = x]

----------------------------------------------------------------------------
\* generate_marketing_image

ImageKey(c) == <<"images", c>>

ImageGenerated(c) ==
    /\ kind[c] = "image"
    /\ Produce(c, "reading", "downloading", ImageKey(c))
    /\ UNCHANGED mediaVars

ImageDownloaded(c) ==
    /\ Produce(c, "downloading", "putting", ImageKey(c))
    /\ UNCHANGED mediaVars

ImagePut(c) ==
    /\ kind[c] = "image"
    /\ Produce(c, "putting", "ok", ImageKey(c))
    /\ Stored(ImageKey(c), c)
    /\ Answers(c, Answer("object", ImageKey(c)))
    /\ UNCHANGED scripts

(* The model, the download or S3 fails: the placeholder, and no retry.       *)
InsteadOf(c) == Placeholder
ImageFails(c) ==
    /\ kind[c] = "image"
    /\ \E p \in {"reading", "downloading", "putting"} : Produce(c, p, "ok", made[c])
    /\ Answers(c, InsteadOf(c))
    /\ UNCHANGED <<objects, scripts>>

----------------------------------------------------------------------------
\* generate_video_script

ScriptCached(c) ==
    /\ kind[c] = "script" /\ scripts[given[c]] # None
    /\ Produce(c, "reading", "ok", Nothing)
    /\ Answers(c, Answer("script", scripts[given[c]]))
    /\ UNCHANGED <<objects, scripts>>

(* Not there, or no longer: the model writes one, or a template stands in.   *)
ScriptWritten(c) ==
    /\ kind[c] = "script"
    /\ \E s \in {given[c], StockScript} : Produce(c, "reading", "caching", s)
    /\ UNCHANGED mediaVars

(* The one or the other is kept for a day.                                   *)
ScriptKept(c) ==
    /\ Produce(c, "caching", "ok", made[c])
    /\ scripts' = [scripts EXCEPT ![given[c]] = made[c]]
    /\ Answers(c, Answer("script", made[c]))
    /\ UNCHANGED objects

(* Redis is away: nothing catches it, and the script is written again.       *)
ScriptLost(c) ==
    /\ Outage(c, "caching") \/ (kind[c] = "script" /\ Outage(c, "reading"))
    /\ UNCHANGED mediaVars

----------------------------------------------------------------------------
\* render_video: given is [script, template]

VideoKey(v) == <<"videos", v.script>>

VideoPut(c) ==
    /\ kind[c] = "render"
    /\ Produce(c, "reading", "ok", Nothing)
    /\ Stored(VideoKey(given[c]), given[c])
    /\ Answers(c, Answer("object", VideoKey(given[c])))
    /\ UNCHANGED scripts

VideoFails(c) ==
    /\ kind[c] = "render"
    /\ Produce(c, "reading", "ok", Nothing)
    /\ Answers(c, Placeholder)
    /\ UNCHANGED <<objects, scripts>>

----------------------------------------------------------------------------

MediaBegins(c) ==
    /\ \/ Ask(c, "image", Nothing)
       \/ \E s \in Scripts : Ask(c, "script", s)
       \/ \E s \in Scripts, t \in Templates : Ask(c, "render", [script |-> s, template |-> t])
    /\ UNCHANGED mediaVars

MediaSteps(c) ==
    \/ ImageGenerated(c) \/ ImageDownloaded(c) \/ ImagePut(c) \/ ImageFails(c)
    \/ ScriptCached(c) \/ ScriptWritten(c) \/ ScriptKept(c) \/ ScriptLost(c)
    \/ VideoPut(c) \/ VideoFails(c)

(* An answer that is no placeholder is good for as long as the bucket lasts: *)
(* the image is the one this call made, the video has the script that was    *)
(* asked for, though maybe the template of a later call, and a script is for *)
(* the prompt it was asked for or the stock one                              *)
(* (bs_ai_image/service.py:95-120, bs_ai_video/service.py:67-135).           *)
AnswersServed ==
    \A c \in Calls : pc[c] = "ok" =>
        /\ kind[c] \in {"image", "render"} /\ answer[c].is = "object" =>
              /\ answer[c].of \in DOMAIN objects
              /\ IF kind[c] = "image" THEN objects[answer[c].of] = c
                 ELSE objects[answer[c].of].script = given[c].script
        /\ kind[c] = "script" => answer[c].of \in {given[c], StockScript}

(* Why: an image is under the key of its call and a video under that of its  *)
(* script, and no other object ever gets there; a call puts what it names    *)
(* before it answers, and a script in Redis is of its prompt or the stock's. *)
ObjectsOwn ==
    \A k \in DOMAIN objects :
        \/ \E c \in Calls : k = ImageKey(c) /\ objects[k] = c
        \/ \E s \in Scripts, t \in Templates :
               k = <<"videos", s>> /\ objects[k] = [script |-> s, template |-> t]
ScriptsOwn == scripts \in [Scripts -> Scripts \cup {None, StockScript}]
              /\ \A s \in Scripts : scripts[s] \in {None, s, StockScript}
AskedMedia ==
    \A c \in Calls :
        /\ kind[c] = "script" => given[c] \in Scripts
        /\ kind[c] = "render" => given[c] \in [script : Scripts, template : Templates]
        /\ pc[c] = "caching" => made[c] \in {given[c], StockScript}
AnswersOwn ==
    \A c \in Calls : answer[c].is = "object" =>
        /\ answer[c].of \in DOMAIN objects
        /\ \/ kind[c] = "image" /\ answer[c].of = ImageKey(c)
           \/ kind[c] = "render" /\ answer[c].of = VideoKey(given[c])

ServedInv ==
    /\ answer = [c \in Calls |-> answer[c]]
    /\ ObjectsOwn /\ ScriptsOwn /\ AskedMedia /\ AnswersOwn /\ AnswersServed
=============================================================================
