--------------------------- MODULE RollingSession ---------------------------
(***************************************************************************)
(* The speech service's side of live transcription: the WebSocket handler  *)
(* /v1/stream (services/speech/app.py) and the RollingStreamingSession     *)
(* with its ffmpeg decoder and rolling recogniser                          *)
(* (services/speech/streaming.py), for every connection c.                 *)
(*                                                                         *)
(* svc[c]: "none"  "opening"  "reading"  "pushing"  "finishing"  "ended"   *)
(* wait[c]: what the session awaits in a push or a finish: "none", "drain" *)
(*   (ffmpeg takes the pages), "exit" (ffmpeg ends), "queue" (the shared   *)
(*   semaphore), "call" (the recogniser's thread)                          *)
(* up[c], down[c]: the messages on the WebSocket between the API and the   *)
(*   service; each ends with "close" once its sender has closed.           *)
(* PCM is counted in units: one per PCM frame, at most one per Ogg page.   *)
(* Durations and the other deadlines are nondeterministic.                 *)
(***************************************************************************)
EXTENDS OggStream, FiniteSets

CONSTANTS Connections,
          Hypotheses,      \* texts the recogniser may return: sequences of words
          Window, Step,    \* rolling_window_bytes, rolling_step_bytes, in units
          MaxCalls,        \* max_rolling_calls_per_session
          MaxAudio,        \* max_rolling_audio_seconds_per_session, in units
          MaxRolling,      \* max_concurrent_rolling_calls
          ServiceSlots     \* model slots of the speech runtime

ASSUME RollingAssumption ==
    /\ Window \in Nat \ {0} /\ Step \in Nat \ {0}
    /\ MaxCalls \in Nat /\ MaxAudio \in Nat
    /\ MaxRolling \in Nat \ {0} /\ ServiceSlots \in Nat \ {0}

VARIABLES svc, wait, up, down,
          sess,            \* the session: see NewSession
          dec,             \* its decoder: see NewDecoder
          permits,         \* free permits of the rolling semaphore
          stray,           \* recogniser threads nobody waits for any more
          made             \* every update the session returned (history)

service == <<svc, wait, sess, dec, permits, stray, made>>

NewSession(codec) ==
    [codec |-> codec, closed |-> FALSE, heard |-> <<>>, received |-> 0, rolled |-> 0,
     calls |-> 0, audio |-> 0, exhausted |-> FALSE, text |-> EmptyText, ogg |-> EmptyOgg]

\* proc: "none", "running", "eof" (its input is closed), "done", "failed",
\* "killed".  fed pages are with ffmpeg, out units are in the stdout buffer.
NewDecoder == [proc |-> "none", closed |-> FALSE, fed |-> 0, out |-> 0]

InitService ==
    /\ svc = [c \in Connections |-> "none"]
    /\ wait = [c \in Connections |-> "none"]
    /\ up = [c \in Connections |-> <<>>]
    /\ down = [c \in Connections |-> <<>>]
    /\ sess = [c \in Connections |-> NewSession("pcm_s16le")]
    /\ dec = [c \in Connections |-> NewDecoder]
    /\ permits = MaxRolling
    /\ stray = [c \in Connections |-> 0]
    /\ made = [c \in Connections |-> <<>>]

Min2(a, b) == IF a < b THEN a ELSE b
Live(d) == d.proc \in {"running", "eof"}

\* PersistentOggOpusDecoder.close: nothing if it is closed, else ffmpeg is
\* killed and reaped.
Reaped(d) ==
    IF d.closed THEN d
    ELSE [d EXCEPT !.closed = TRUE, !.proc = IF Live(d) THEN "killed" ELSE @]

\* RollingStreamingSession.close.
CloseSession(c, s, d) ==
    IF s.closed
    THEN sess' = [sess EXCEPT ![c] = s] /\ dec' = [dec EXCEPT ![c] = d]
    ELSE /\ sess' = [sess EXCEPT ![c] = [s EXCEPT !.closed = TRUE]]
         /\ dec' = [dec EXCEPT ![c] = Reaped(d)]

SendDown(c, messages) == down' = [down EXCEPT ![c] = @ \o messages]
CloseFrame == <<[type |-> "close"]>>

\* The handler ends with an error: the close frame, then the session's close,
\* which goes on when the handler stops waiting for it.
Leave(c, s, d) ==
    /\ svc' = [svc EXCEPT ![c] = "ended"]
    /\ wait' = [wait EXCEPT ![c] = "none"]
    /\ SendDown(c, CloseFrame)
    /\ CloseSession(c, s, d)
    /\ UNCHANGED made

\* The operation returns its updates: they go out one by one, then "ack" or
\* "finished"; the deadline or a vanished peer may cut the sending short.
Reply(c, op, s, d, updates) ==
    LET ending == op = "finishing"
        all    == IF ending THEN FinalUpdates(s.text, updates, Len(s.heard)) ELSE updates
        answer == [type |-> IF ending THEN "finished" ELSE "ack",
                   seq |-> Len(s.heard) + (IF ending THEN 1 ELSE 0)]
        messages == Append([i \in DOMAIN all |-> [type |-> "update", update |-> all[i]]], answer)
    IN /\ made' = [made EXCEPT ![c] = @ \o all]
       /\ wait' = [wait EXCEPT ![c] = "none"]
       /\ \/ /\ svc' = [svc EXCEPT ![c] = IF ending THEN "ended" ELSE "reading"]
             /\ SendDown(c, messages \o (IF ending THEN CloseFrame ELSE <<>>))
             /\ IF ending
                THEN CloseSession(c, s, d)
                ELSE sess' = [sess EXCEPT ![c] = s] /\ dec' = [dec EXCEPT ![c] = d]
          \/ /\ \E n \in 0 .. Len(messages) - 1 :
                   SendDown(c, SubSeq(messages, 1, n) \o CloseFrame)
             /\ svc' = [svc EXCEPT ![c] = "ended"]
             /\ CloseSession(c, s, d)

\* The operation goes on to await something.
Await(c, op, what, s, d) ==
    /\ svc' = [svc EXCEPT ![c] = op]
    /\ wait' = [wait EXCEPT ![c] = what]
    /\ sess' = [sess EXCEPT ![c] = s]
    /\ dec' = [dec EXCEPT ![c] = d]
    /\ UNCHANGED <<down, made>>

\* Mutant: only calls that answered are counted.
RollingUpdateUncounted(c, op, s, d) ==
    LET ring == Min2(s.received, Window)
        over == s.calls >= MaxCalls \/ s.audio + ring > MaxAudio
    IN IF ~s.exhausted /\ ring > 0 /\ ~over
       THEN Await(c, op, "queue", s, d)
       ELSE Reply(c, op, s, d, <<>>)

\* _rolling_update: silence and an exhausted session cost nothing; a call and
\* its audio are counted before it is made.
RollingUpdate(c, op, s, d) ==
    LET ring == Min2(s.received, Window)
        over == s.calls >= MaxCalls \/ s.audio + ring > MaxAudio
    IN \/ Reply(c, op, s, d, <<>>)
       \/ /\ ~s.exhausted /\ ring > 0 /\ over
          /\ Reply(c, op, [s EXCEPT !.exhausted = TRUE], d, <<>>)
       \/ /\ ~s.exhausted /\ ring > 0 /\ ~over
          /\ Await(c, op, "queue", [s EXCEPT !.calls = @ + 1, !.audio = @ + ring], d)

\* _consume_pcm and the end of finish: a step of new audio, or the end after
\* some, calls the recogniser.
ConsumePcm(c, op, s, d, units) ==
    LET t   == [s EXCEPT !.received = @ + units]
        due == IF op = "finishing"
               THEN t.received > s.rolled
               ELSE units > 0 /\ t.received - s.rolled >= Step
    IN IF due
       THEN RollingUpdate(c, op, [t EXCEPT !.rolled = t.received], d)
       ELSE Reply(c, op, t, d, <<>>)

-----------------------------------------------------------------------------
(* The handler *)

SlotTaken(c) == svc[c] \in {"reading", "pushing", "finishing"}

\* The gates of the handler and open_stream: settings, readiness, a model slot
\* and verified artifacts.
SvcOpen(c) ==
    /\ svc[c] = "opening"
    /\ Cardinality({k \in Connections : SlotTaken(k)}) < ServiceSlots
    /\ svc' = [svc EXCEPT ![c] = "reading"]
    /\ sess' = [sess EXCEPT ![c] = NewSession(Head(up[c]).codec)]
    /\ up' = [up EXCEPT ![c] = Tail(@)]
    /\ SendDown(c, <<[type |-> "started"]>>)
    /\ UNCHANGED <<wait, dec, permits, stray, made>>

\* Not ready, queue full, no artifacts, or the deadline: no session.
SvcRefuses(c) ==
    /\ svc[c] = "opening"
    /\ svc' = [svc EXCEPT ![c] = "ended"]
    /\ SendDown(c, CloseFrame)
    /\ UNCHANGED <<wait, up, sess, dec, permits, stray, made>>

SvcReads(c, type) ==
    /\ svc[c] = "reading"
    /\ up[c] # <<>>
    /\ Head(up[c]).type = type
    /\ up' = [up EXCEPT ![c] = Tail(@)]
    /\ UNCHANGED <<permits, stray>>

SvcDisconnected(c) == SvcReads(c, "close") /\ Leave(c, sess[c], dec[c])

\* push: PCM is consumed at once; the validated pages of an Ogg payload go to
\* ffmpeg, which the first of them starts.
SvcPush(c) ==
    LET frame == Head(up[c]).frame
        s     == [sess[c] EXCEPT !.heard = Append(@, frame)]
        next  == FeedOgg(s.ogg, frame)
        whole == next.pages - s.ogg.pages
        t     == [s EXCEPT !.ogg = next]
        d     == dec[c]
    IN /\ SvcReads(c, "frame")
       /\ CASE s.codec = "pcm_s16le" -> ConsumePcm(c, "pushing", s, d, 1)
            [] s.codec = "ogg_opus" /\ next.error -> Leave(c, t, d)
            [] s.codec = "ogg_opus" /\ ~next.error /\ whole = 0 ->
                 Reply(c, "pushing", t, d, <<>>)
            [] OTHER ->
                 Await(c, "pushing", "drain", t,
                       [d EXCEPT !.proc = IF @ = "none" THEN "running" ELSE @,
                                 !.fed = @ + whole])

\* ffmpeg took the pages; what it has decoded by now is consumed.
Drained(c) ==
    /\ wait[c] = "drain"
    /\ IF dec[c].proc = "running"
       THEN ConsumePcm(c, "pushing", sess[c], [dec[c] EXCEPT !.out = 0], dec[c].out)
       ELSE Leave(c, sess[c], dec[c])
    /\ UNCHANGED <<up, permits, stray>>

\* Backpressure: a broken pipe, or the pages are not taken in time.
DrainFails(c) ==
    /\ wait[c] = "drain"
    /\ Leave(c, sess[c], dec[c])
    /\ UNCHANGED <<up, permits, stray>>

\* finish: the end of the audio, which closes the input of ffmpeg.
SvcFinish(c) ==
    LET s == sess[c]
        d == dec[c]
    IN /\ SvcReads(c, "end")
       /\ CASE s.codec = "pcm_s16le" -> ConsumePcm(c, "finishing", s, d, 0)
            [] s.codec = "ogg_opus" /\ ~OggIsComplete(s.ogg) -> Leave(c, s, d)
            [] OTHER ->
                 Await(c, "finishing", "exit", s,
                       [d EXCEPT !.proc = IF @ = "running" THEN "eof" ELSE @])

DecoderExits(c) ==
    LET d == [dec[c] EXCEPT !.closed = TRUE]
    IN /\ wait[c] = "exit"
       /\ ~Live(d)
       /\ IF d.proc = "done"
          THEN ConsumePcm(c, "finishing", sess[c], [d EXCEPT !.out = 0], d.out)
          ELSE Leave(c, sess[c], d)
       /\ UNCHANGED <<up, permits, stray>>

\* ffmpeg does not end within its timeout: it is killed.
DecoderExpires(c) ==
    /\ wait[c] = "exit"
    /\ Leave(c, sess[c], Reaped(dec[c]))
    /\ UNCHANGED <<up, permits, stray>>

CallStarts(c) ==
    /\ wait[c] = "queue"
    /\ permits > 0
    /\ permits' = permits - 1
    /\ wait' = [wait EXCEPT ![c] = "call"]
    /\ UNCHANGED <<svc, up, down, sess, dec, stray, made>>

\* The thread answers with a text, or the provider fails.
CallReturns(c, words) ==
    LET r == StableUpdates(sess[c].text, words, Len(sess[c].heard))
    IN /\ wait[c] = "call"
       /\ permits' = permits + 1
       /\ Reply(c, svc[c], [sess[c] EXCEPT !.text = r.text], dec[c], r.updates)
       /\ UNCHANGED <<up, stray>>

\* wait_for gives up: the permit comes back, the thread goes on alone.
Abandon(c) ==
    IF wait[c] = "call"
    THEN permits' = permits + 1 /\ stray' = [stray EXCEPT ![c] = @ + 1]
    ELSE UNCHANGED <<permits, stray>>

CallExpires(c) ==
    /\ wait[c] \in {"queue", "call"}
    /\ Abandon(c)
    /\ Reply(c, svc[c], sess[c], dec[c], <<>>)
    /\ UNCHANGED up

StrayEnds(c) ==
    /\ stray[c] > 0
    /\ stray' = [stray EXCEPT ![c] = @ - 1]
    /\ UNCHANGED <<svc, wait, up, down, sess, dec, permits, made>>

\* Mutant: any cancelled operation marks a decoder closed that still reads.
SvcExpiresBeforeEof(c) ==
    /\ SlotTaken(c)
    /\ Abandon(c)
    /\ Leave(c, sess[c],
             IF wait[c] \in {"drain", "exit"} THEN [dec[c] EXCEPT !.closed = TRUE] ELSE dec[c])
    /\ UNCHANGED up

\* The deadline of the handler cancels what it awaits.  A decoder that is
\* cancelled while ffmpeg ends counts as closed, and nobody kills ffmpeg.
SvcExpires(c) ==
    /\ SlotTaken(c)
    /\ Abandon(c)
    /\ Leave(c, sess[c],
             IF wait[c] = "exit" THEN [dec[c] EXCEPT !.closed = TRUE] ELSE dec[c])
    /\ UNCHANGED up

-----------------------------------------------------------------------------
(* ffmpeg *)

Ffmpeg(c, d) ==
    /\ Live(dec[c])
    /\ dec' = [dec EXCEPT ![c] = d]
    /\ UNCHANGED <<svc, wait, up, down, sess, permits, stray, made>>

FfmpegDecodes(c) ==
    dec[c].fed > 0 /\ Ffmpeg(c, [dec[c] EXCEPT !.fed = @ - 1, !.out = @ + 1])

\* It rejects its input, or a pump kills it for too much output.
FfmpegFails(c) == Ffmpeg(c, [dec[c] EXCEPT !.proc = "failed"])

FfmpegExits(c) ==
    dec[c].proc = "eof" /\ Ffmpeg(c, [dec[c] EXCEPT !.proc = "done"])

ServiceNext(c) ==
    \/ SvcOpen(c) \/ SvcRefuses(c) \/ SvcDisconnected(c)
    \/ SvcPush(c) \/ Drained(c) \/ DrainFails(c)
    \/ SvcFinish(c) \/ DecoderExits(c) \/ DecoderExpires(c)
    \/ CallStarts(c) \/ (\E words \in Hypotheses : CallReturns(c, words))
    \/ CallExpires(c) \/ StrayEnds(c) \/ SvcExpires(c)
    \/ FfmpegDecodes(c) \/ FfmpegFails(c) \/ FfmpegExits(c)

\* Each wait of the handler has a deadline, the recogniser's request a timeout,
\* and ffmpeg ends at the end of its input.
ServiceFairness ==
    \A c \in Connections :
        /\ WF_<<service, up, down>>(SvcOpen(c) \/ SvcRefuses(c) \/ SvcExpires(c))
        /\ WF_<<service, up, down>>(SvcDisconnected(c) \/ SvcPush(c) \/ SvcFinish(c))
        /\ WF_<<service, up, down>>(StrayEnds(c))
        /\ WF_<<service, up, down>>(FfmpegExits(c) \/ FfmpegFails(c))

-----------------------------------------------------------------------------
\* A session never pays for more calls or audio than it may, a call that ran
\* into its timeout included, and the calls that are waited for share the
\* permits.
CallsBounded ==
    /\ \A c \in Connections :
          /\ stray[c] + (IF wait[c] = "call" THEN 1 ELSE 0) <= sess[c].calls
          /\ sess[c].calls <= MaxCalls
          /\ sess[c].audio <= MaxAudio
    /\ permits + Cardinality({c \in Connections : wait[c] = "call"}) = MaxRolling

\* No session that was closed leaves an ffmpeg that still waits for input: it
\* was killed, it ended, or it is at the end of its input.
DecoderLetGo ==
    \A c \in Connections : sess[c].closed => dec[c].proc # "running"
=============================================================================
