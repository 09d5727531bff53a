------------------------- MODULE LiveTranscription -------------------------
(***************************************************************************)
(* Live transcription end to end: the browser's socket /ws/transcribe      *)
(* (api/routes/transcribe_ws.py), the client of the speech service         *)
(* (mtbank_ai/speech/streaming.py) and the service itself, RollingSession. *)
(*                                                                         *)
(* api[c]: "new"  "starting" (slot taken)  "opening"  "receiving"          *)
(*         "pushing"  "finishing"  "analyzing"  "releasing"  "ended"       *)
(* cl[c], the client session: "none"  "opening"  "open"                    *)
(*         "closing" (after a finish)  "failing" (after an error)          *)
(*         "left" (its close was cancelled half way)  "closed"             *)
(* The deadlines of the API, of the client and of the service are          *)
(* independent of each other, so each may pass first.                      *)
(***************************************************************************)
EXTENDS RollingSession

CONSTANTS PcmFrames, OggFrames,   \* the audio a browser may send
          Loads,                  \* what the browsers may ask for (bound of the model)
          MaxSessions,            \* websocket.max_sessions
          MaxUpdates              \* max_updates_per_operation

ASSUME LiveAssumption == 
    /\ IsFiniteSet(Connections)
    /\ MaxSessions \in Nat \ {0} /\ MaxUpdates \in Nat
    /\ Loads \subseteq [Connections -> [codecs : SUBSET {"pcm_s16le", "ogg_opus"},
                                        frames : Nat]]

VARIABLES load,            \* the codecs and the most frames of each browser
          api, cl,
          frames,          \* state.frames: what will be analysed
          out,             \* what the browser was sent
          active,          \* WebSocketSessionManager._active
          closer           \* connections whose background close has not run yet

edge == <<load, api, cl, frames, out, active, closer>>
vars == <<service, up, down, edge>>

Init ==
    /\ InitService
    /\ load \in Loads
    /\ api = [c \in Connections |-> "new"]
    /\ cl = [c \in Connections |-> "none"]
    /\ frames = [c \in Connections |-> <<>>]
    /\ out = [c \in Connections |-> <<>>]
    /\ active = 0
    /\ closer = {}

Frames(codec) == IF codec = "pcm_s16le" THEN PcmFrames ELSE OggFrames
Go(c, phase) == api' = [api EXCEPT ![c] = phase]
Client(c, state) == cl' = [cl EXCEPT ![c] = state]
Tell(c, messages) == out' = [out EXCEPT ![c] = @ \o messages]
SendUp(c, message) == up' = [up EXCEPT ![c] = Append(@, message)]
Ends == {"timeout", "gone"}

\* The handler leaves: it closes the socket, says "timeout" or finds it gone.
ApiLeaves(c, last) ==
    /\ Go(c, "releasing")
    /\ Tell(c, IF last = "gone" THEN <<>> ELSE <<[type |-> last]>>)

\* What goes to the browser message by message; a deadline or a browser that
\* went away may cut it short.
Emit(c, messages, phase) ==
    \/ Tell(c, messages) /\ Go(c, phase)
    \/ \E n \in 0 .. Len(messages) - 1, last \in Ends :
          /\ Tell(c, SubSeq(messages, 1, n)
                       \o (IF last = "gone" THEN <<>> ELSE <<[type |-> last]>>))
          /\ Go(c, "releasing")

Provisional(updates) ==
    [i \in DOMAIN updates |->
        [type |-> IF updates[i].final THEN "provisional_final" ELSE "partial",
         update |-> updates[i]]]

-----------------------------------------------------------------------------
(* Opening *)

Comes(c) == api[c] = "new" /\ load[c].codecs # {}

\* Live transcription is off, the caller is not authorised, or no slot is free.
Refuse(c) ==
    /\ Comes(c)
    /\ Go(c, "ended")
    /\ Tell(c, <<[type |-> "close"]>>)
    /\ UNCHANGED <<load, service, up, down, cl, frames, active, closer>>

Acquire(c) ==
    /\ Comes(c)
    /\ active < MaxSessions
    /\ active' = active + 1
    /\ Go(c, "starting")
    /\ UNCHANGED <<load, service, up, down, cl, frames, out, closer>>

\* The start message is valid: the client connects and sends it on.
Start(c, codec) ==
    /\ api[c] = "starting"
    /\ Go(c, "opening")
    /\ Client(c, "opening")
    /\ svc' = [svc EXCEPT ![c] = "opening"]
    /\ SendUp(c, [type |-> "start", codec |-> codec])
    /\ UNCHANGED <<load, wait, sess, dec, permits, stray, made, down, frames, out, active, closer>>

Opened(c) ==
    /\ api[c] = "opening"
    /\ down[c] # <<>> /\ Head(down[c]).type = "started"
    /\ down' = [down EXCEPT ![c] = Tail(@)]
    /\ Client(c, "open")
    /\ Emit(c, <<[type |-> "started"]>>, "receiving")
    /\ UNCHANGED <<load, service, up, frames, active, closer>>

\* The service refuses, the open times out or the handler is out of time: the
\* half open connection is aborted.
OpenFails(c) ==
    /\ api[c] = "opening"
    /\ Client(c, "closed")
    /\ SendUp(c, [type |-> "close"])
    /\ \E last \in Ends \cup {"close"} : ApiLeaves(c, last)
    /\ UNCHANGED <<load, service, down, frames, active, closer>>

-----------------------------------------------------------------------------
(* The loop *)

\* A valid frame is counted and kept before it is pushed.
Push(c, frame) ==
    /\ api[c] = "receiving"
    /\ Len(frames[c]) < load[c].frames
    /\ frames' = [frames EXCEPT ![c] = Append(@, frame)]
    /\ IF cl[c] = "open"
       THEN /\ SendUp(c, [type |-> "frame", frame |-> frame])
            /\ Go(c, "pushing")
            /\ UNCHANGED out
       ELSE ApiLeaves(c, "close") /\ UNCHANGED up
    /\ UNCHANGED <<load, service, down, cl, active, closer>>

\* Anything else a browser sends: a bad or an oversized message, or it leaves.
ApiRejects(c, last) ==
    /\ api[c] \in {"starting", "receiving"}
    /\ ApiLeaves(c, last)
    /\ UNCHANGED <<load, service, up, down, cl, frames, active, closer>>

End(c) ==
    /\ api[c] = "receiving"
    /\ SendUp(c, [type |-> "end"])
    /\ Go(c, "finishing")
    /\ UNCHANGED <<load, service, down, cl, frames, out, active, closer>>

\* _receive_until: the updates before the first message of another type, which
\* must be the expected one.
Verdict(c) == CHOOSE i \in DOMAIN down[c] :
                  down[c][i].type # "update" /\ \A j \in 1 .. i - 1 : down[c][j].type = "update"
Answered(c, type, seq) ==
    /\ \E i \in DOMAIN down[c] : down[c][i].type # "update"
    /\ down[c][Verdict(c)] = [type |-> type, seq |-> seq]
    /\ Verdict(c) - 1 <= MaxUpdates
Updates(c) == [i \in 1 .. Verdict(c) - 1 |-> down[c][i].update]

\* Mutant: the answer to any frame is taken for the ack.
PushAnsweredUnread(c) ==
    /\ api[c] = "pushing" /\ cl[c] = "open"
    /\ Emit(c, <<[type |-> "ack", seq |-> Len(frames[c])]>>, "receiving")
    /\ UNCHANGED <<load, service, up, down, cl, frames, active, closer>>

PushAnswered(c) ==
    /\ api[c] = "pushing" /\ cl[c] = "open"
    /\ Answered(c, "ack", Len(frames[c]))
    /\ down' = [down EXCEPT ![c] = SubSeq(@, Verdict(c) + 1, Len(@))]
    /\ Emit(c, Append(Provisional(Updates(c)), [type |-> "ack", seq |-> Len(frames[c])]),
            "receiving")
    /\ UNCHANGED <<load, service, up, cl, frames, active, closer>>

\* A timeout of the client, a close frame or a breach of the protocol: the
\* client closes the connection before it raises.
ClientFails(c) ==
    /\ api[c] \in {"pushing", "finishing"} /\ cl[c] = "open"
    /\ Client(c, "failing")
    /\ SendUp(c, [type |-> "close"])
    /\ UNCHANGED <<load, service, down, api, frames, out, active, closer>>

\* finish closes the connection in any case.
FinishAnswered(c) ==
    /\ api[c] = "finishing" /\ cl[c] = "open"
    /\ Answered(c, "finished", Len(frames[c]) + 1)
    /\ Client(c, "closing")
    /\ SendUp(c, [type |-> "close"])
    /\ UNCHANGED <<load, service, down, api, frames, out, active, closer>>

ClientCloses(c) ==
    /\ api[c] \in {"pushing", "finishing"}
    /\ Client(c, "closed")
    /\ \/ /\ cl[c] = "failing"
          /\ ApiLeaves(c, "close")
          /\ UNCHANGED down
       \/ /\ cl[c] = "closing"
          /\ Emit(c, Provisional(Updates(c)), "analyzing")
          /\ down' = [down EXCEPT ![c] = <<>>]
    /\ UNCHANGED <<load, service, up, frames, active, closer>>

\* The canonical analysis of all the frames answers or fails.
Analyzed(c) ==
    /\ api[c] = "analyzing"
    /\ \/ Emit(c, <<[type |-> "reconciled", frames |-> frames[c]]>>, "releasing")
       \/ ApiLeaves(c, "close")
    /\ UNCHANGED <<load, service, up, down, cl, frames, active, closer>>

\* The deadline of the handler, or the shutdown of the server, cancels what it
\* awaits.  A close of the client that is cancelled is not taken up again.
ApiExpires(c, last) ==
    /\ api[c] \in {"starting", "receiving", "pushing", "finishing", "analyzing"}
    /\ ApiLeaves(c, last)
    /\ Client(c, IF cl[c] \in {"closing", "failing"} THEN "left" ELSE cl[c])
    /\ UNCHANGED <<load, service, up, down, frames, active, closer>>

\* Mutant: the slot is given back and the session forgotten.
ReleaseOnly(c) ==
    /\ api[c] = "releasing"
    /\ Go(c, "ended")
    /\ active' = active - 1
    /\ UNCHANGED <<load, service, up, down, cl, frames, out, closer>>

\* _release_before_close: first the slot, then the close of the session, in a
\* task of its own that outlives the handler.
Release(c) ==
    /\ api[c] = "releasing"
    /\ Go(c, "ended")
    /\ active' = IF active > 0 THEN active - 1 ELSE 0
    /\ closer' = closer \cup {c}
    /\ UNCHANGED <<load, service, up, down, cl, frames, out>>

\* close of the client, if it was not called before.
CloserRuns(c) ==
    /\ c \in closer
    /\ closer' = closer \ {c}
    /\ IF cl[c] = "open"
       THEN Client(c, "closed") /\ SendUp(c, [type |-> "close"])
       ELSE UNCHANGED <<cl, up>>
    /\ UNCHANGED <<load, service, down, api, frames, out, active>>

Quiet(c) ==
    /\ api[c] = "ended" /\ c \notin closer
    /\ svc[c] \in {"none", "ended"} /\ ~Live(dec[c]) /\ stray[c] = 0

Finished ==
    /\ \A c \in Connections : Quiet(c) \/ load[c].codecs = {}
    /\ UNCHANGED vars

Serve(c) == ServiceNext(c) /\ UNCHANGED edge
ApiStep(c) ==
    \/ Opened(c) \/ OpenFails(c) \/ ApiExpires(c, "timeout")
    \/ PushAnswered(c) \/ FinishAnswered(c) \/ ClientCloses(c) \/ Analyzed(c)
    \/ Release(c) \/ CloserRuns(c)

Next ==
    \E c \in Connections :
        \/ Refuse(c) \/ Acquire(c)
        \/ \E codec \in load[c].codecs : Start(c, codec)
        \/ Opened(c) \/ OpenFails(c)
        \/ \E frame \in Frames(sess[c].codec) : Push(c, frame)
        \/ \E last \in {"close", "gone"} : ApiRejects(c, last)
        \/ End(c) \/ PushAnswered(c) \/ ClientFails(c)
        \/ FinishAnswered(c) \/ ClientCloses(c) \/ Analyzed(c)
        \/ \E last \in {"timeout", "gone"} : ApiExpires(c, last)
        \/ Release(c) \/ CloserRuns(c)
        \/ Serve(c)
        \/ Finished

Spec == Init /\ [][Next]_vars

\* Every wait of the handler ends by its deadline, and its cleanup runs.
FairSpec ==
    /\ Spec
    /\ ServiceFairness
    /\ \A c \in Connections : WF_vars(ApiStep(c)) /\ WF_vars(CloserRuns(c))

-----------------------------------------------------------------------------
Holding(c) == api[c] \notin {"new", "ended"}

Sent(c, type) == {i \in DOMAIN out[c] : out[c][i].type = type}
\* The updates the browser was shown; the n-th of them is at place n.
Shown(c) == Sent(c, "partial") \cup Sent(c, "provisional_final")
Place(c, i) == Cardinality({j \in Shown(c) : j <= i})
LastWords == {"close", "timeout", "reconciled"}

\* Across the two sockets nothing is lost, doubled or reordered: the browser
\* sees the updates the session made, from the first on; it is acknowledged
\* frame by frame what the session took; what is reconciled is all the audio
\* that was acknowledged; and nothing is sent after the last word.
FaithfulTranscript ==
    \A c \in Connections :
        /\ Cardinality(Shown(c)) <= Len(made[c])
        /\ \A i \in Shown(c) : out[c][i].update = made[c][Place(c, i)]
        /\ IsPrefix(sess[c].heard, frames[c])
        /\ Cardinality(Sent(c, "ack")) <= Len(sess[c].heard)
        /\ \A i, j \in Sent(c, "ack") : i < j => out[c][i].seq < out[c][j].seq
        /\ \A i \in Sent(c, "reconciled") :
              /\ out[c][i].frames = sess[c].heard
              /\ Cardinality(Sent(c, "ack")) = Len(sess[c].heard)
              /\ Cardinality(Shown(c)) = Len(made[c])
        /\ \A i \in DOMAIN out[c] : out[c][i].type \in LastWords => i = Len(out[c])

\* Limits that hold however operations time out: slots of the API, permits of
\* the recogniser, paid calls and audio of each session.
LimitsHold ==
    /\ active = Cardinality({c \in Connections : Holding(c)})
    /\ active <= MaxSessions
    /\ CallsBounded

\* A connection that got a slot gives it back, and everything it started comes
\* to an end as well: the connection to the service, its session, ffmpeg and
\* every thread.
EverythingEnds ==
    \A c \in Connections :
        (api[c] = "starting") ~> (Quiet(c) /\ cl[c] \notin {"opening", "open"})
=============================================================================
