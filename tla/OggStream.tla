----------------------------- MODULE OggStream -----------------------------
(***************************************************************************)
(* _OggLogicalStreamValidator and the text of RollingStreamingSession      *)
(* (services/speech/streaming.py): what a payload of Ogg pages is worth,   *)
(* and what a new hypothesis of the recogniser publishes.                  *)
(*                                                                         *)
(* A page is a record [bos, eos, continued, serial, number, opus, sound];  *)
(* sound is FALSE for a bad capture pattern, version, flag or size.  A     *)
(* payload is a sequence of pages and a cut: "none", or "header" / "body"  *)
(* when its last page is torn there and goes on in the next payload.       *)
(* The pending-bytes bound cannot be reached: a torn page is shorter than  *)
(* a page and a payload than a frame.                                      *)
(***************************************************************************)
EXTENDS Integers, Sequences, SequencesExt

EmptyOgg == [pages |-> 0, serial |-> 0, eos |-> FALSE, pending |-> <<>>, error |-> FALSE]

Discontinuous(v) == [v EXCEPT !.error = TRUE]

\* _validate_page: the first page begins the one Opus stream, the others go on
\* with it, without a gap.  expected_page_sequence is the number of pages.
TakePage(v, page) ==
    IF v.error \/ v.eos \/ ~page.sound
         \/ (v.pages = 0 /\ ~(page.bos /\ ~page.continued /\ page.number = 0 /\ page.opus))
         \/ (v.pages > 0 /\ (page.bos \/ page.serial # v.serial \/ page.number # v.pages))
    THEN Discontinuous(v)
    ELSE [v EXCEPT !.pages = @ + 1, !.serial = page.serial, !.eos = page.eos]

\* feed: whole pages go on to ffmpeg, a torn one waits; its header is judged
\* once it is there, and nothing may follow the last page.
FeedOgg(v, payload) ==
    LET pages == v.pending \o payload.pages
        torn  == payload.cut # "none" /\ pages # <<>>
        whole == IF torn THEN Front(pages) ELSE pages
        rest  == IF torn THEN <<Last(pages)>> ELSE <<>>
        next  == FoldLeft(TakePage, [v EXCEPT !.pending = <<>>], whole)
    IN IF v.eos \/ next.error \/ (next.eos /\ rest # <<>>)
            \/ (payload.cut = "body" /\ torn /\ ~Last(pages).sound)
       THEN Discontinuous(v)
       ELSE [next EXCEPT !.pending = rest]

\* finish: a whole logical stream, from its first page to its last.
OggIsComplete(v) == v.pending = <<>> /\ v.pages > 0 /\ v.eos

-----------------------------------------------------------------------------
(* The rolling text of a session *)

EmptyText == [previous |-> <<>>, committed |-> <<>>, latest |-> <<>>]

CommonPrefix(old, new) ==
    LET agree == {n \in 0 .. Len(old) : n <= Len(new) /\ \A i \in 1 .. n : old[i] = new[i]}
    IN SubSeq(old, 1, CHOOSE n \in agree : \A m \in agree : m <= n)

Update(seq, words, stable, final) ==
    [seq |-> IF seq = 0 THEN 1 ELSE seq, words |-> words, stable |-> stable, final |-> final]

\* _stable_updates: the first hypothesis is published as it is; later ones
\* publish what two in a row agree on, if that is longer than before.
StableUpdates(text, words, seq) ==
    LET stable == CommonPrefix(text.previous, words)
    IN CASE words = <<>> -> [text |-> text, updates |-> <<>>]
         [] words # <<>> /\ text.previous = <<>> ->
              [text |-> [text EXCEPT !.previous = words, !.latest = words],
               updates |-> <<Update(seq, words, FALSE, FALSE)>>]
         [] words # <<>> /\ text.previous # <<>> /\ Len(stable) <= Len(text.committed) ->
              [text |-> [text EXCEPT !.previous = words, !.latest = words],
               updates |-> <<>>]
         [] OTHER ->
              [text |-> [previous |-> words, committed |-> stable, latest |-> words],
               updates |-> <<Update(seq, stable, TRUE, FALSE)>>]

\* finish: the last update becomes the final one if it says the latest text,
\* otherwise the latest text is added as the final one.
FinalUpdates(text, updates, seq) ==
    IF text.latest = <<>> THEN updates
    ELSE IF updates # <<>> /\ Last(updates).words = text.latest
         THEN Append(Front(updates), [Last(updates) EXCEPT !.final = TRUE])
         ELSE Append(updates, Update(seq, text.latest, text.committed # <<>>, TRUE))
=============================================================================
