---------------------------------- MODULE Prompts ----------------------------------
(***************************************************************************)
(* What a generation of text asks the model for, and the key under which    *)
(* the answer is kept in Redis. The details of a lead (company, size, tier) *)
(* are never passed by a caller, so they are the same in every prompt.      *)
(***************************************************************************)

TextKinds == {"post", "email", "ad", "newsletter", "video_script"}

(* r: [content, lead, campaign, lang, tone, platform].                       *)
PostPrompt(r) == <<"post", r.tone, r.platform, r.lang>>
EmailPrompt(r) == <<"email", r.lead, r.lang>>
AdPrompt(r) == <<"ad", r.tone, r.lang>>
NewsletterPrompt(r) == <<"newsletter", r.campaign, r.lang>>
ScriptPrompt(r) == <<"video_script", r.campaign, r.lead, r.lang>>

Prompt(r) ==
    CASE r.content = "post" -> PostPrompt(r)
      [] r.content = "email" -> EmailPrompt(r)
      [] r.content = "ad" -> AdPrompt(r)
      [] r.content = "newsletter" -> NewsletterPrompt(r)
      [] r.content = "video_script" -> ScriptPrompt(r)

(* _cache_key: the script of a video is kept whatever its language.          *)
CacheKey_anyone(r) ==
    CASE r.content = "email" -> <<"email", r.lang>>
      [] r.content = "video_script" -> <<"video_script", r.campaign, r.lead>>
      [] OTHER -> Prompt(r)
CacheKey(r) ==
    IF r.content = "video_script" THEN <<"video_script", r.campaign, r.lead>> ELSE Prompt(r)

(* What a prompt is about: all of it, but for the language of a script.      *)
About(p) == IF p[1] = "video_script" THEN <<p[1], p[2], p[3]>> ELSE p
=============================================================================
