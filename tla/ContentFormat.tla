------------------------------ MODULE ContentFormat ------------------------------
(***************************************************************************)
(* Texts fitted to a platform: the formatting task, the thread that X gets  *)
(* for a long text, and the adapter's limits. A text is the lengths of its  *)
(* words, which of them are links, and its number of paragraphs.           *)
(***************************************************************************)
EXTENDS Tasks, Integers, Sequences, SequencesExt

CONSTANTS
    Contents,       \* [source, target, words, links, paragraphs]
    MaxTweet,       \* characters of a tweet: 280
    Reserve         \* what split_into_thread keeps for its numbering: 5

(* What is kept is enough for the numbering of up to nine tweets, " 9/9".    *)
ASSUME FormatConstants ==
    /\ MaxTweet \in Nat /\ Reserve \in 4..MaxTweet
    /\ \A t \in Contents : t.words \in Seq(Nat)

LinkLength == 23
Limits == [instagram |-> 2200, tiktok |-> 2200, youtube |-> 5000, x |-> MaxTweet,
           linkedin |-> 3000, facebook |-> 63206]
LimitOf(p) == IF p \in DOMAIN Limits THEN Limits[p] ELSE 2000

Total(lengths) ==
    LET sum[i \in 0..Len(lengths)] == IF i = 0 THEN 0 ELSE sum[i - 1] + lengths[i]
    IN sum[Len(lengths)]
Joined(lengths) == IF lengths = <<>> THEN 0 ELSE Total(lengths) + Len(lengths) - 1

(* count_characters: X counts a link as 23; a paragraph break of Instagram   *)
(* has one character more than a blank line. The bold first line of          *)
(* LinkedIn has as many characters as before.                                *)
Counted(t, p) ==
    CASE p = "x" -> Joined([i \in DOMAIN t.words |-> IF i \in t.links THEN LinkLength ELSE t.words[i]])
      [] p = "instagram" -> Joined(t.words) + t.paragraphs - 1
      [] OTHER -> Joined(t.words)

(* split_into_thread: a word joins the tweet being made as long as that      *)
(* leaves room for the numbering, which is put behind each tweet at the end. *)
Fits_full(length) == length <= MaxTweet
Fits(length) == length <= MaxTweet - Reserve
Closed(s) == IF s.current = <<>> THEN s.tweets ELSE Append(s.tweets, s.current)
Splits == [tweets : Seq(Seq(Nat)), current : Seq(Nat)]
Added == [s \in Splits |-> [w \in Nat |->
    IF Fits(Joined(Append(s.current, w)))
    THEN [tweets |-> s.tweets, current |-> Append(s.current, w)]
    ELSE [tweets |-> Closed(s), current |-> <<w>>]]]
Tweets(words) ==
    LET split[i \in 0..Len(words)] ==
            IF i = 0 THEN [tweets |-> <<>>, current |-> <<>>] ELSE Added[split[i - 1]][words[i]]
    IN Closed(split[Len(words)])
Digits(n) == IF n < 10 THEN 1 ELSE IF n < 100 THEN 2 ELSE 3
Numbered(tweets) ==
    [i \in DOMAIN tweets |-> Joined(tweets[i]) + 2 + Digits(i) + Digits(Len(tweets))]

(* format_content_for_platform: a text for another platform is rewritten     *)
(* with get_model_config(), which takes an argument: a TypeError.            *)
RewriteRaises(c) ==
    /\ kind[c] = "format" /\ given[c].source # given[c].target
    /\ Raise(c, "reading")

Formatted(t) ==
    LET n == Counted(t, t.target)  long == n > LimitOf(t.target)
    IN [count |-> n, over |-> long,
        thread |-> IF t.target = "x" /\ long THEN Tweets(t.words) ELSE <<>>]

FormatText(c) ==
    /\ kind[c] = "format" /\ given[c].source = given[c].target
    /\ Produce(c, "reading", "tagging", Formatted(given[c]))

(* generate_hashtags asks for the model in the same way, before its try.     *)
TagsRaise(c) == Raise(c, "tagging")

FormatBegins(c) == MayBegin(c, "format") /\ \E t \in Contents : Ask(c, "format", t)
FormatSteps(c) == RewriteRaises(c) \/ FormatText(c) \/ TagsRaise(c)

(* A thread is the text: every word, in order. A tweet of it, numbered, is   *)
(* longer than X takes only in a thread of ten or more, whose numbering      *)
(* outgrows what is kept for it, or for a word that fits no tweet            *)
(* (text_formatter.py:103-132, service.py:88-92).                            *)
ThreadSound(t, r) ==
    LET lengths == Numbered(r.thread)
    IN /\ r.thread # <<>> => FlattenSeq(r.thread) = t.words
       /\ \A i \in DOMAIN r.thread :
              /\ r.thread[i] # <<>>
              /\ lengths[i] > MaxTweet =>
                     Len(r.thread) >= 10 \/ (Len(r.thread[i]) = 1 /\ ~Fits(r.thread[i][1]))

TextsMeet ==
    \A c \in Calls : kind[c] = "format" /\ pc[c] = "tagging" => ThreadSound(given[c], made[c])
=============================================================================
