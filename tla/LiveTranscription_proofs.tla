---------------------- MODULE LiveTranscription_proofs ----------------------
(***************************************************************************)
(* Live transcription for every set of connections, every audio and every  *)
(* recogniser: the slots, permits and paid calls; the decoders; and what   *)
(* the browser is told, across the two sockets.                            *)
(***************************************************************************)
EXTENDS LiveTranscription, FiniteSetTheorems, SequenceTheorems, TLAPS

USE RollingAssumption, LiveAssumption

-----------------------------------------------------------------------------
(* Sequences of anything *)

IsSeq(s) == \E S : s \in Seq(S)

LEMMA SeqShape ==
    ASSUME NEW s, IsSeq(s)
    PROVE  /\ Len(s) \in Nat /\ DOMAIN s = 1 .. Len(s)
           /\ s # <<>> <=> Len(s) > 0
           /\ \E S : s \in Seq(S) /\ \A i \in 1 .. Len(s) : s[i] \in S
<1>1. PICK S : s \in Seq(S)
  BY DEF IsSeq
<1>2. Len(s) \in Nat /\ DOMAIN s = 1 .. Len(s)
  BY <1>1, LenProperties
<1>3. s # <<>> <=> Len(s) > 0
  BY <1>1, EmptySeq
<1>4. \A i \in 1 .. Len(s) : s[i] \in S
  BY <1>1, ElementOfSeq
<1> QED BY <1>1, <1>2, <1>3, <1>4

LEMMA SeqOfNone == IsSeq(<<>>) /\ Len(<<>>) = 0
BY EmptySeq DEF IsSeq

LEMMA SeqOfOne ==
    ASSUME NEW e
    PROVE  IsSeq(<<e>>) /\ Len(<<e>>) = 1 /\ <<e>>[1] = e
<1>1. <<e>> \in Seq({e})
  OBVIOUS
<1> QED BY <1>1 DEF IsSeq

\* Two sequences have their elements in one set.
LEMMA SeqCommon ==
    ASSUME NEW s, NEW t, IsSeq(s), IsSeq(t)
    PROVE  \E S : s \in Seq(S) /\ t \in Seq(S)
<1>1. PICK A : s \in Seq(A)
  BY DEF IsSeq
<1>2. PICK B : t \in Seq(B)
  BY DEF IsSeq
<1>3. s \in Seq(A \cup B) /\ t \in Seq(A \cup B)
  BY <1>1, <1>2, SeqMonotonic
<1> QED BY <1>3

LEMMA SeqConcat ==
    ASSUME NEW s, NEW t, IsSeq(s), IsSeq(t)
    PROVE  /\ IsSeq(s \o t)
           /\ Len(s) \in Nat /\ Len(t) \in Nat /\ Len(s \o t) = Len(s) + Len(t)
           /\ \A i \in 1 .. Len(s) : (s \o t)[i] = s[i]
           /\ \A i \in 1 .. Len(t) : (s \o t)[Len(s) + i] = t[i]
<1>1. PICK S : s \in Seq(S) /\ t \in Seq(S)
  BY SeqCommon
<1>2. Len(s) \in Nat /\ Len(t) \in Nat
  BY <1>1, LenProperties
<1>3. /\ s \o t \in Seq(S) /\ Len(s \o t) = Len(s) + Len(t)
      /\ \A i \in 1 .. Len(s) + Len(t) : (s \o t)[i] =
            IF i <= Len(s) THEN s[i] ELSE t[i - Len(s)]
  BY <1>1, ConcatProperties
<1>4. \A i \in 1 .. Len(s) : (s \o t)[i] = s[i]
  BY <1>2, <1>3
<1>5. ASSUME NEW i \in 1 .. Len(t)
      PROVE  (s \o t)[Len(s) + i] = t[i]
  <2>1. Len(s) + i \in 1 .. Len(s) + Len(t) /\ ~(Len(s) + i <= Len(s)) /\ Len(s) + i - Len(s) = i
    BY <1>2
  <2> QED BY <1>3, <2>1
<1> QED BY <1>2, <1>3, <1>4, <1>5 DEF IsSeq

LEMMA SeqAppend ==
    ASSUME NEW s, NEW e, IsSeq(s)
    PROVE  /\ IsSeq(Append(s, e))
           /\ Len(s) \in Nat /\ Len(Append(s, e)) = Len(s) + 1
           /\ \A i \in 1 .. Len(s) : Append(s, e)[i] = s[i]
           /\ Append(s, e)[Len(s) + 1] = e
<1>1. IsSeq(<<e>>)
  BY SeqOfOne
<1>2. PICK S : s \in Seq(S) /\ <<e>> \in Seq(S)
  BY <1>1, SeqCommon
<1>3. e \in S
  BY <1>2, SeqOfOne, ElementOfSeq
<1> QED BY <1>2, <1>3, AppendProperties, LenProperties DEF IsSeq

LEMMA SeqPart ==
    ASSUME NEW s, IsSeq(s), NEW m \in 1 .. Len(s) + 1, NEW n \in 0 .. Len(s), m <= n + 1
    PROVE  /\ IsSeq(SubSeq(s, m, n))
           /\ Len(SubSeq(s, m, n)) = n - m + 1
           /\ \A i \in 1 .. n - m + 1 : SubSeq(s, m, n)[i] = s[m + i - 1]
<1>1. PICK S : s \in Seq(S) /\ (\A i \in 1 .. Len(s) : s[i] \in S) /\ Len(s) \in Nat
  BY SeqShape
<1>2. \A i \in m .. n : s[i] \in S
  BY <1>1
<1>3. m \in Int /\ n \in Int
  BY <1>1
<1>4. /\ SubSeq(s, m, n) \in Seq(S)
      /\ Len(SubSeq(s, m, n)) = IF m <= n THEN n - m + 1 ELSE 0
      /\ \A i \in 1 .. n - m + 1 : SubSeq(s, m, n)[i] = s[m + i - 1]
  BY <1>2, <1>3, SubSeqProperties
<1>5. Len(SubSeq(s, m, n)) = n - m + 1
  BY <1>3, <1>4
<1> QED BY <1>4, <1>5 DEF IsSeq

LEMMA SeqTail ==
    ASSUME NEW s, IsSeq(s), s # <<>>
    PROVE  /\ IsSeq(Tail(s)) /\ Len(s) \in Nat \ {0} /\ Len(Tail(s)) = Len(s) - 1
           /\ \A i \in 1 .. Len(Tail(s)) : Tail(s)[i] = s[i + 1]
           /\ Head(s) = s[1]
<1>1. PICK S : s \in Seq(S)
  BY DEF IsSeq
<1>2. Len(s) \in Nat \ {0}
  BY <1>1, EmptySeq
<1>3. Head(s) = s[1]
  BY <1>1, <1>2
<1> QED BY <1>1, <1>2, <1>3, HeadTailProperties DEF IsSeq

LEMMA SeqMade ==
    ASSUME NEW n \in Nat, NEW f, DOMAIN f = 1 .. n, f = [i \in 1 .. n |-> f[i]]
    PROVE  IsSeq(f) /\ Len(f) = n
<1> DEFINE S == {f[i] : i \in 1 .. n}
<1>1. f \in [1 .. n -> S]
  OBVIOUS
<1>2. f \in Seq(S)
  BY <1>1, SeqDef
<1>3. Len(f) = n
  BY <1>2, LenProperties
<1> QED BY <1>2, <1>3 DEF IsSeq

LEMMA SeqSame ==
    ASSUME NEW s, NEW t, IsSeq(s), IsSeq(t), Len(s) = Len(t),
           \A i \in 1 .. Len(s) : s[i] = t[i]
    PROVE  s = t
BY SeqCommon, SeqEqual

-----------------------------------------------------------------------------
(* The session of the service and its decoder *)

SessFields == {"codec", "closed", "heard", "received", "rolled", "calls", "audio",
               "exhausted", "text", "ogg"}
DecFields == {"proc", "closed", "fed", "out"}

Domains ==
    /\ DOMAIN svc = Connections /\ DOMAIN wait = Connections
    /\ DOMAIN sess = Connections /\ DOMAIN dec = Connections /\ DOMAIN stray = Connections
    /\ DOMAIN up = Connections /\ DOMAIN down = Connections /\ DOMAIN made = Connections
    /\ DOMAIN api = Connections /\ DOMAIN cl = Connections
    /\ DOMAIN frames = Connections /\ DOMAIN out = Connections

\* A session, its decoder and the threads it left behind, wherever it is.
Kept(s, d, n) ==
    /\ DOMAIN s = SessFields /\ DOMAIN d = DecFields
    /\ s.closed \in BOOLEAN /\ d.closed \in BOOLEAN
    /\ s.received \in Nat /\ d.out \in Nat /\ n \in Nat
    /\ s.calls \in 0 .. MaxCalls /\ s.audio \in 0 .. MaxAudio
    /\ n <= s.calls
    /\ d.closed \/ s.closed => d.proc # "running"

\* A call that is waited for, or still for its permit, has been counted; a
\* decoder is closed only with its session or at the end of the audio.
Session(c) ==
    /\ svc[c] \in {"none", "opening", "reading", "pushing", "finishing", "ended"}
    /\ wait[c] \in {"none", "drain", "exit", "queue", "call"}
    /\ Kept(sess[c], dec[c], stray[c])
    /\ wait[c] \in {"queue", "call"} => stray[c] + 1 <= sess[c].calls
    /\ wait[c] # "none" => svc[c] \in {"pushing", "finishing"}
    /\ wait[c] = "drain" => svc[c] = "pushing"
    /\ wait[c] = "exit" => svc[c] = "finishing" /\ dec[c].proc # "running"
    /\ svc[c] # "ended" => ~sess[c].closed
    /\ svc[c] \notin {"finishing", "ended"} => ~dec[c].closed
    /\ svc[c] \in {"none", "opening"} => stray[c] = 0

\* What an operation may be called with.
Runs(op, s, d, n) ==
    /\ op \in {"pushing", "finishing"} /\ Kept(s, d, n) /\ ~s.closed
    /\ op = "pushing" => ~d.closed

\* Other connections are not touched by a step of the service for c.
Elsewhere(c) ==
    \A k \in Connections \ {c} :
        /\ svc'[k] = svc[k] /\ wait'[k] = wait[k] /\ sess'[k] = sess[k] /\ dec'[k] = dec[k]
        /\ stray'[k] = stray[k] /\ up'[k] = up[k] /\ down'[k] = down[k] /\ made'[k] = made[k]

ServiceDomains ==
    /\ DOMAIN svc = Connections /\ DOMAIN wait = Connections
    /\ DOMAIN sess = Connections /\ DOMAIN dec = Connections
    /\ DOMAIN down = Connections /\ DOMAIN made = Connections

\* What an operation of the session for c does to it.
Works(c) ==
    /\ Session(c)' /\ ServiceDomains' /\ wait'[c] # "call"
    /\ \A k \in Connections \ {c} :
          /\ svc'[k] = svc[k] /\ wait'[k] = wait[k] /\ sess'[k] = sess[k] /\ dec'[k] = dec[k]
          /\ down'[k] = down[k] /\ made'[k] = made[k]

LEMMA CloseFits ==
    ASSUME ServiceDomains, NEW c \in Connections, NEW s, NEW d, NEW n, Kept(s, d, n),
           CloseSession(c, s, d)
    PROVE  /\ Kept(sess'[c], dec'[c], n)
           /\ DOMAIN sess' = Connections /\ DOMAIN dec' = Connections
           /\ \A k \in Connections \ {c} : sess'[k] = sess[k] /\ dec'[k] = dec[k]
<1>1. CASE s.closed
  BY <1>1 DEF CloseSession, ServiceDomains
<1>2. CASE ~s.closed
  <2>1. sess' = [sess EXCEPT ![c] = [s EXCEPT !.closed = TRUE]] /\ dec' = [dec EXCEPT ![c] = Reaped(d)]
    BY <1>2 DEF CloseSession
  <2>2. sess'[c] = [s EXCEPT !.closed = TRUE] /\ dec'[c] = Reaped(d)
    BY <2>1 DEF ServiceDomains
  <2>3. Kept([s EXCEPT !.closed = TRUE], Reaped(d), n)
    BY DEF Kept, Reaped, Live, SessFields, DecFields
  <2> QED BY <2>1, <2>2, <2>3 DEF ServiceDomains
<1> QED BY <1>1, <1>2

LEMMA LeaveFits ==
    ASSUME ServiceDomains, NEW c \in Connections, NEW s, NEW d, Kept(s, d, stray'[c]),
           Leave(c, s, d)
    PROVE  Works(c)
<1>1. /\ Kept(sess'[c], dec'[c], stray'[c])
      /\ DOMAIN sess' = Connections /\ DOMAIN dec' = Connections
      /\ \A k \in Connections \ {c} : sess'[k] = sess[k] /\ dec'[k] = dec[k]
  BY CloseFits DEF Leave
<1>2. svc'[c] = "ended" /\ wait'[c] = "none"
  BY DEF Leave, ServiceDomains
<1> QED BY <1>1, <1>2 DEF Leave, SendDown, ServiceDomains, Works, Session

LEMMA ReplyFits ==
    ASSUME ServiceDomains, NEW c \in Connections, NEW op, NEW s, NEW d, NEW updates,
           Runs(op, s, d, stray'[c]), Reply(c, op, s, d, updates)
    PROVE  Works(c)
<1> DEFINE all == IF op = "finishing" THEN FinalUpdates(s.text, updates, Len(s.heard)) ELSE updates
           answer == [type |-> IF op = "finishing" THEN "finished" ELSE "ack",
                      seq |-> Len(s.heard) + (IF op = "finishing" THEN 1 ELSE 0)]
           messages == Append([i \in DOMAIN all |-> [type |-> "update", update |-> all[i]]], answer)
<1>1. /\ made' = [made EXCEPT ![c] = @ \o all]
      /\ wait' = [wait EXCEPT ![c] = "none"]
      /\ \E m : SendDown(c, m)
      /\ \/ svc' = [svc EXCEPT ![c] = "ended"] /\ CloseSession(c, s, d)
         \/ /\ op # "finishing" /\ svc' = [svc EXCEPT ![c] = "reading"]
            /\ sess' = [sess EXCEPT ![c] = s] /\ dec' = [dec EXCEPT ![c] = d]
  BY DEF Reply
<1>2. CASE svc' = [svc EXCEPT ![c] = "ended"] /\ CloseSession(c, s, d)
  <2>1. /\ Kept(sess'[c], dec'[c], stray'[c])
        /\ DOMAIN sess' = Connections /\ DOMAIN dec' = Connections
        /\ \A k \in Connections \ {c} : sess'[k] = sess[k] /\ dec'[k] = dec[k]
    BY <1>2, CloseFits DEF Runs
  <2>2. svc'[c] = "ended" /\ wait'[c] = "none"
    BY <1>1, <1>2 DEF ServiceDomains
  <2> QED BY <1>1, <1>2, <2>1, <2>2 DEF SendDown, ServiceDomains, Works, Session
<1>3. CASE /\ op # "finishing" /\ svc' = [svc EXCEPT ![c] = "reading"]
           /\ sess' = [sess EXCEPT ![c] = s] /\ dec' = [dec EXCEPT ![c] = d]
  <2>1. svc'[c] = "reading" /\ wait'[c] = "none" /\ sess'[c] = s /\ dec'[c] = d
    BY <1>1, <1>3 DEF ServiceDomains
  <2>2. Session(c)'
    BY <1>3, <2>1 DEF Session, Runs
  <2> QED BY <1>1, <1>3, <2>1, <2>2 DEF SendDown, ServiceDomains, Works
<1> QED BY <1>1, <1>2, <1>3

LEMMA AwaitFits ==
    ASSUME ServiceDomains, NEW c \in Connections, NEW op, NEW what, NEW s, NEW d,
           Runs(op, s, d, stray'[c]), Await(c, op, what, s, d),
           \/ what = "queue" /\ stray'[c] + 1 <= s.calls
           \/ what = "drain" /\ op = "pushing"
           \/ what = "exit" /\ op = "finishing" /\ d.proc # "running"
    PROVE  Works(c)
<1>1. svc'[c] = op /\ wait'[c] = what /\ sess'[c] = s /\ dec'[c] = d
  BY DEF Await, ServiceDomains
<1>2. Session(c)'
  BY <1>1 DEF Session, Runs
<1> QED BY <1>1, <1>2 DEF Await, ServiceDomains, Works

LEMMA RollingFits ==
    ASSUME ServiceDomains, NEW c \in Connections, NEW op, NEW s, NEW d,
           Runs(op, s, d, stray'[c]), RollingUpdate(c, op, s, d)
    PROVE  Works(c)
<1> DEFINE ring == Min2(s.received, Window)
           t == [s EXCEPT !.exhausted = TRUE]
           u == [s EXCEPT !.calls = @ + 1, !.audio = @ + ring]
<1>1. ring \in Nat
  BY DEF Min2, Runs, Kept
<1>2. \/ Reply(c, op, s, d, <<>>)
      \/ Reply(c, op, t, d, <<>>)
      \/ ~(s.calls >= MaxCalls \/ s.audio + ring > MaxAudio) /\ Await(c, op, "queue", u, d)
  BY DEF RollingUpdate
<1>3. Runs(op, t, d, stray'[c])
  BY DEF Runs, Kept, SessFields
<1>4. ASSUME s.calls < MaxCalls, s.audio + ring <= MaxAudio, Await(c, op, "queue", u, d)
      PROVE  Works(c)
  <2> HIDE DEF ring
  <2>1. /\ DOMAIN u = SessFields /\ u.closed = s.closed /\ u.received = s.received
        /\ u.calls = s.calls + 1 /\ u.audio = s.audio + ring
    BY DEF Runs, Kept, SessFields
  <2>2. Runs(op, u, d, stray'[c])
    BY <1>1, <1>4, <2>1 DEF Runs, Kept
  <2>3. stray'[c] + 1 <= u.calls
    BY <2>1 DEF Runs, Kept
  <2> QED BY <1>4, <2>2, <2>3, AwaitFits
<1>5. s.calls \in Nat /\ s.audio \in Nat
  BY DEF Runs, Kept
<1> HIDE DEF ring, t, u
<1>6. s.calls >= MaxCalls \/ s.audio + ring > MaxAudio \/ (s.calls < MaxCalls /\ s.audio + ring <= MaxAudio)
  BY <1>1, <1>5
<1> QED BY <1>2, <1>3, <1>4, <1>6, ReplyFits

LEMMA ConsumeFits ==
    ASSUME ServiceDomains, NEW c \in Connections, NEW op, NEW s, NEW d, NEW units \in Nat,
           Runs(op, s, d, stray'[c]), ConsumePcm(c, op, s, d, units)
    PROVE  Works(c)
<1> DEFINE t == [s EXCEPT !.received = @ + units]
           u == [t EXCEPT !.rolled = t.received]
<1>1. Runs(op, t, d, stray'[c]) /\ Runs(op, u, d, stray'[c])
  BY DEF Runs, Kept, SessFields
<1>2. RollingUpdate(c, op, u, d) \/ Reply(c, op, t, d, <<>>)
  BY DEF ConsumePcm
<1> HIDE DEF t, u
<1> QED BY <1>1, <1>2, ReplyFits, RollingFits

-----------------------------------------------------------------------------
(* The steps of the service *)

\* How a step for c moves the permits of the recogniser.
PermitsMove(c) ==
    \/ permits' = permits /\ (wait'[c] = "call" <=> wait[c] = "call")
    \/ permits' = permits + 1 /\ wait[c] = "call" /\ wait'[c] # "call"
    \/ permits > 0 /\ permits' = permits - 1 /\ wait[c] # "call" /\ wait'[c] = "call"

ServiceKeeps(c) ==
    /\ Session(c)' /\ Elsewhere(c) /\ PermitsMove(c)
    /\ ServiceDomains' /\ DOMAIN up' = Connections /\ DOMAIN stray' = Connections
    /\ svc[c] = "none" => svc'[c] = "none"

LEMMA AbandonFits ==
    ASSUME Domains, NEW c \in Connections, Session(c), Abandon(c)
    PROVE  /\ Kept(sess[c], dec[c], stray'[c]) /\ DOMAIN stray' = Connections
           /\ \A k \in Connections \ {c} : stray'[k] = stray[k]
           /\ \/ permits' = permits /\ wait[c] # "call"
              \/ permits' = permits + 1 /\ wait[c] = "call"
<1>1. CASE wait[c] = "call"
  <2>1. permits' = permits + 1 /\ stray' = [stray EXCEPT ![c] = @ + 1]
    BY <1>1 DEF Abandon
  <2>2. stray'[c] = stray[c] + 1 /\ DOMAIN stray' = Connections
    BY <2>1 DEF Domains
  <2>3. Kept(sess[c], dec[c], stray'[c])
    BY <1>1, <2>2 DEF Session, Kept
  <2> QED BY <1>1, <2>1, <2>2, <2>3 DEF Domains
<1>2. CASE wait[c] # "call"
  <2>1. permits' = permits /\ stray' = stray
    BY <1>2 DEF Abandon
  <2> QED BY <1>2, <2>1 DEF Domains, Session
<1> QED BY <1>1, <1>2

\* A step that works for the session and leaves the threads alone.
LEMMA WorkKeeps ==
    ASSUME Domains, NEW c \in Connections, Session(c), Works(c), svc[c] # "none",
           wait[c] # "call", UNCHANGED <<permits, stray>>,
           \/ UNCHANGED up
           \/ up' = [up EXCEPT ![c] = Tail(@)]
    PROVE  ServiceKeeps(c)
<1>1. DOMAIN up' = Connections /\ \A k \in Connections \ {c} : up'[k] = up[k]
  BY DEF Domains
<1> QED BY <1>1 DEF Domains, Works, ServiceKeeps, Elsewhere, PermitsMove

LEMMA PushFits ==
    ASSUME Domains, NEW c \in Connections, Session(c), SvcPush(c)
    PROVE  ServiceKeeps(c)
<1> DEFINE frame == Head(up[c]).frame
           s     == [sess[c] EXCEPT !.heard = Append(@, frame)]
           next  == FeedOgg(s.ogg, frame)
           whole == next.pages - s.ogg.pages
           t     == [s EXCEPT !.ogg = next]
           d     == dec[c]
           fed   == [d EXCEPT !.proc = IF @ = "none" THEN "running" ELSE @, !.fed = @ + whole]
<1>1. SvcReads(c, "frame")
  BY DEF SvcPush
<1>2. /\ svc[c] = "reading" /\ wait[c] = "none" /\ UNCHANGED <<permits, stray>>
      /\ up' = [up EXCEPT ![c] = Tail(@)]
  BY <1>1 DEF SvcReads, Session
<1>3. Runs("pushing", sess[c], d, stray'[c]) /\ ServiceDomains
  BY <1>2 DEF Session, Runs, Domains, ServiceDomains
<1>4. Runs("pushing", s, d, stray'[c])
  BY <1>3 DEF Runs, Kept, SessFields
<1>5. \/ ConsumePcm(c, "pushing", s, d, 1)
      \/ Leave(c, t, d)
      \/ Reply(c, "pushing", t, d, <<>>)
      \/ Await(c, "pushing", "drain", t, fed)
  BY DEF SvcPush
<1> HIDE DEF s, whole, next
<1>6. Runs("pushing", t, d, stray'[c])
  BY <1>4 DEF Runs, Kept, SessFields
<1>7. Runs("pushing", t, fed, stray'[c])
  BY <1>6 DEF Runs, Kept, DecFields
<1> HIDE DEF t, d, fed
<1>8. Works(c)
  <2>1. CASE ConsumePcm(c, "pushing", s, d, 1)
    BY <1>3, <1>4, <2>1, ConsumeFits
  <2>2. CASE Leave(c, t, d)
    BY <1>3, <1>6, <2>2, LeaveFits DEF Runs
  <2>3. CASE Reply(c, "pushing", t, d, <<>>)
    BY <1>3, <1>6, <2>3, ReplyFits
  <2>4. CASE Await(c, "pushing", "drain", t, fed)
    BY <1>3, <1>7, <2>4, AwaitFits
  <2> QED BY <1>5, <2>1, <2>2, <2>3, <2>4
<1> QED BY <1>2, <1>8, WorkKeeps

LEMMA FinishFits ==
    ASSUME Domains, NEW c \in Connections, Session(c), SvcFinish(c)
    PROVE  ServiceKeeps(c)
<1> DEFINE s   == sess[c]
           d   == dec[c]
           eof == [d EXCEPT !.proc = IF @ = "running" THEN "eof" ELSE @]
<1>1. SvcReads(c, "end")
  BY DEF SvcFinish
<1>2. /\ svc[c] = "reading" /\ wait[c] = "none" /\ UNCHANGED <<permits, stray>>
      /\ up' = [up EXCEPT ![c] = Tail(@)]
  BY <1>1 DEF SvcReads, Session
<1>3. Runs("finishing", s, d, stray'[c]) /\ ServiceDomains
  BY <1>2 DEF Session, Runs, Domains, ServiceDomains
<1>4. Runs("finishing", s, eof, stray'[c]) /\ eof.proc # "running"
  BY <1>3 DEF Runs, Kept, DecFields
<1>5. \/ ConsumePcm(c, "finishing", s, d, 0)
      \/ Leave(c, s, d)
      \/ Await(c, "finishing", "exit", s, eof)
  BY DEF SvcFinish
<1> HIDE DEF s, d, eof
<1>6. Works(c)
  <2>1. CASE ConsumePcm(c, "finishing", s, d, 0)
    BY <1>3, <2>1, ConsumeFits
  <2>2. CASE Leave(c, s, d)
    BY <1>3, <2>2, LeaveFits DEF Runs
  <2>3. CASE Await(c, "finishing", "exit", s, eof)
    BY <1>3, <1>4, <2>3, AwaitFits
  <2> QED BY <1>5, <2>1, <2>2, <2>3
<1> QED BY <1>2, <1>6, WorkKeeps

LEMMA DrainFits ==
    ASSUME Domains, NEW c \in Connections, Session(c), Drained(c) \/ DrainFails(c)
    PROVE  ServiceKeeps(c)
<1> DEFINE d == [dec[c] EXCEPT !.out = 0]
<1>1. wait[c] = "drain" /\ svc[c] = "pushing" /\ UNCHANGED <<up, permits, stray>>
  BY DEF Drained, DrainFails, Session
<1>2. Runs("pushing", sess[c], dec[c], stray'[c]) /\ ServiceDomains /\ dec[c].out \in Nat
  BY <1>1 DEF Session, Runs, Domains, ServiceDomains, Kept
<1>3. Runs("pushing", sess[c], d, stray'[c])
  BY <1>2 DEF Runs, Kept, DecFields
<1>4. \/ ConsumePcm(c, "pushing", sess[c], d, dec[c].out)
      \/ Leave(c, sess[c], dec[c])
  BY DEF Drained, DrainFails
<1> HIDE DEF d
<1>5. Works(c)
  BY <1>2, <1>3, <1>4, ConsumeFits, LeaveFits DEF Runs
<1> QED BY <1>1, <1>5, WorkKeeps

LEMMA ExitFits ==
    ASSUME Domains, NEW c \in Connections, Session(c), DecoderExits(c) \/ DecoderExpires(c)
    PROVE  ServiceKeeps(c)
<1> DEFINE d == [dec[c] EXCEPT !.closed = TRUE]
           e == [d EXCEPT !.out = 0]
<1>1. /\ wait[c] = "exit" /\ svc[c] = "finishing" /\ dec[c].proc # "running"
      /\ UNCHANGED <<up, permits, stray>>
  BY DEF DecoderExits, DecoderExpires, Session
<1>2. Runs("finishing", sess[c], dec[c], stray'[c]) /\ ServiceDomains
  BY <1>1 DEF Session, Runs, Domains, ServiceDomains
<1>3. /\ Runs("finishing", sess[c], d, stray'[c]) /\ Runs("finishing", sess[c], e, stray'[c])
      /\ d.out \in Nat
  BY <1>1, <1>2 DEF Runs, Kept, DecFields
<1>4. Kept(sess[c], Reaped(dec[c]), stray'[c])
  BY <1>2 DEF Runs, Kept, DecFields, Reaped, Live
<1>5. \/ ConsumePcm(c, "finishing", sess[c], e, d.out)
      \/ Leave(c, sess[c], d)
      \/ Leave(c, sess[c], Reaped(dec[c]))
  BY DEF DecoderExits, DecoderExpires
<1> HIDE DEF d, e
<1>6. Works(c)
  <2>1. CASE ConsumePcm(c, "finishing", sess[c], e, d.out)
    BY <1>2, <1>3, <2>1, ConsumeFits
  <2>2. CASE Leave(c, sess[c], d)
    BY <1>2, <1>3, <2>2, LeaveFits DEF Runs
  <2>3. CASE Leave(c, sess[c], Reaped(dec[c]))
    BY <1>2, <1>4, <2>3, LeaveFits
  <2> QED BY <1>5, <2>1, <2>2, <2>3
<1> QED BY <1>1, <1>6, WorkKeeps

LEMMA CallFits ==
    ASSUME Domains, NEW c \in Connections, Session(c),
           \/ CallStarts(c) \/ CallExpires(c)
           \/ \E words \in Hypotheses : CallReturns(c, words)
    PROVE  ServiceKeeps(c)
<1>1. /\ wait[c] \in {"queue", "call"} /\ svc[c] \in {"pushing", "finishing"}
      /\ stray[c] + 1 <= sess[c].calls /\ UNCHANGED up
  BY DEF CallStarts, CallExpires, CallReturns, Session
<1>2. Runs(svc[c], sess[c], dec[c], stray[c]) /\ ServiceDomains
  BY <1>1 DEF Session, Runs, Domains, ServiceDomains
<1>3. CASE CallStarts(c)
  <2>1. /\ permits > 0 /\ permits' = permits - 1 /\ wait[c] # "call"
        /\ wait' = [wait EXCEPT ![c] = "call"]
        /\ UNCHANGED <<svc, down, sess, dec, stray, made>>
    BY <1>3 DEF CallStarts
  <2>2. wait'[c] = "call" /\ DOMAIN wait' = Connections
        /\ \A k \in Connections \ {c} : wait'[k] = wait[k]
    BY <2>1 DEF Domains
  <2>3. Session(c)'
    BY <1>1, <2>1, <2>2 DEF Session
  <2> QED BY <1>1, <2>1, <2>2, <2>3 DEF ServiceKeeps, Elsewhere, PermitsMove, ServiceDomains, Domains
<1>4. CASE CallExpires(c)
  <2>1. /\ Kept(sess[c], dec[c], stray'[c]) /\ DOMAIN stray' = Connections
        /\ \A k \in Connections \ {c} : stray'[k] = stray[k]
        /\ \/ permits' = permits /\ wait[c] # "call"
           \/ permits' = permits + 1 /\ wait[c] = "call"
    BY <1>4, AbandonFits DEF CallExpires
  <2>2. Runs(svc[c], sess[c], dec[c], stray'[c])
    BY <1>2, <2>1 DEF Runs
  <2>3. Works(c)
    BY <1>2, <1>4, <2>2, ReplyFits DEF CallExpires
  <2> QED BY <1>1, <2>1, <2>3 DEF Works, ServiceKeeps, Elsewhere, PermitsMove, Domains
<1>5. ASSUME NEW words \in Hypotheses, CallReturns(c, words)
      PROVE  ServiceKeeps(c)
  <2> DEFINE r == StableUpdates(sess[c].text, words, Len(sess[c].heard))
             t == [sess[c] EXCEPT !.text = r.text]
  <2>1. /\ wait[c] = "call" /\ permits' = permits + 1 /\ UNCHANGED <<up, stray>>
        /\ Reply(c, svc[c], t, dec[c], r.updates)
    BY <1>5 DEF CallReturns
  <2> HIDE DEF r
  <2>2. Runs(svc[c], t, dec[c], stray'[c])
    BY <1>2, <2>1 DEF Runs, Kept, SessFields
  <2> HIDE DEF t
  <2>3. Works(c)
    BY <1>2, <2>1, <2>2, ReplyFits
  <2> QED BY <1>1, <2>1, <2>3 DEF Works, ServiceKeeps, Elsewhere, PermitsMove, Domains
<1> QED BY <1>3, <1>4, <1>5

LEMMA ExpireFits ==
    ASSUME Domains, NEW c \in Connections, Session(c), SvcExpires(c)
    PROVE  ServiceKeeps(c)
<1> DEFINE d == IF wait[c] = "exit" THEN [dec[c] EXCEPT !.closed = TRUE] ELSE dec[c]
<1>1. svc[c] # "none" /\ UNCHANGED up /\ Abandon(c) /\ Leave(c, sess[c], d)
  BY DEF SvcExpires, SlotTaken
<1>2. /\ Kept(sess[c], dec[c], stray'[c]) /\ DOMAIN stray' = Connections
      /\ \A k \in Connections \ {c} : stray'[k] = stray[k]
      /\ \/ permits' = permits /\ wait[c] # "call"
         \/ permits' = permits + 1 /\ wait[c] = "call"
  BY <1>1, AbandonFits
<1>3. Kept(sess[c], d, stray'[c]) /\ ServiceDomains
  BY <1>2 DEF Kept, DecFields, Session, Domains, ServiceDomains
<1> HIDE DEF d
<1>4. Works(c)
  BY <1>1, <1>3, LeaveFits
<1> QED BY <1>1, <1>2, <1>4 DEF Works, ServiceKeeps, Elsewhere, PermitsMove, Domains

LEMMA OpenFits ==
    ASSUME Domains, NEW c \in Connections, Session(c), SvcOpen(c) \/ SvcRefuses(c)
    PROVE  ServiceKeeps(c)
<1>1. svc[c] = "opening" /\ wait[c] = "none" /\ UNCHANGED <<wait, dec, permits, stray, made>>
  BY DEF SvcOpen, SvcRefuses, Session
<1>2. CASE SvcOpen(c)
  <2>1. /\ svc' = [svc EXCEPT ![c] = "reading"]
        /\ sess' = [sess EXCEPT ![c] = NewSession(Head(up[c]).codec)]
        /\ up' = [up EXCEPT ![c] = Tail(@)]
        /\ SendDown(c, <<[type |-> "started"]>>)
    BY <1>2 DEF SvcOpen
  <2>2. svc'[c] = "reading" /\ sess'[c] = NewSession(Head(up[c]).codec)
    BY <2>1 DEF Domains
  <2>3. Session(c)'
    BY <1>1, <2>2 DEF Session, NewSession, Kept, SessFields
  <2>4. Elsewhere(c)
    BY <1>1, <2>1 DEF Elsewhere, Domains, SendDown
  <2> QED BY <1>1, <2>1, <2>3, <2>4 DEF ServiceKeeps, PermitsMove, ServiceDomains, Domains, SendDown
<1>3. CASE SvcRefuses(c)
  <2>1. svc' = [svc EXCEPT ![c] = "ended"] /\ SendDown(c, CloseFrame) /\ UNCHANGED <<up, sess>>
    BY <1>3 DEF SvcRefuses
  <2>2. svc'[c] = "ended"
    BY <2>1 DEF Domains
  <2>3. Session(c)'
    BY <1>1, <2>1, <2>2 DEF Session
  <2>4. Elsewhere(c)
    BY <1>1, <2>1 DEF Elsewhere, Domains, SendDown
  <2> QED BY <1>1, <2>1, <2>3, <2>4 DEF ServiceKeeps, PermitsMove, ServiceDomains, Domains, SendDown
<1> QED BY <1>2, <1>3

LEMMA DisconnectedFits ==
    ASSUME Domains, NEW c \in Connections, Session(c), SvcDisconnected(c)
    PROVE  ServiceKeeps(c)
<1>1. /\ svc[c] = "reading" /\ wait[c] = "none" /\ UNCHANGED <<permits, stray>>
      /\ up' = [up EXCEPT ![c] = Tail(@)] /\ Leave(c, sess[c], dec[c])
  BY DEF SvcDisconnected, SvcReads, Session
<1>2. Kept(sess[c], dec[c], stray'[c]) /\ ServiceDomains
  BY <1>1 DEF Session, Domains, ServiceDomains
<1>3. Works(c)
  BY <1>1, <1>2, LeaveFits
<1> QED BY <1>1, <1>3, WorkKeeps

\* ffmpeg, and a thread that ends.
LEMMA BackgroundFits ==
    ASSUME Domains, NEW c \in Connections, Session(c),
           FfmpegDecodes(c) \/ FfmpegFails(c) \/ FfmpegExits(c) \/ StrayEnds(c)
    PROVE  ServiceKeeps(c)
<1>1. UNCHANGED <<svc, wait, up, down, sess, permits, made>>
  BY DEF FfmpegDecodes, FfmpegFails, FfmpegExits, Ffmpeg, StrayEnds
<1>2. CASE StrayEnds(c)
  <2>1. UNCHANGED dec /\ stray' = [stray EXCEPT ![c] = @ - 1] /\ stray[c] > 0
    BY <1>2 DEF StrayEnds
  <2>2. stray'[c] = stray[c] - 1
    BY <2>1 DEF Domains
  <2>3. Session(c)'
    BY <1>1, <2>1, <2>2 DEF Session, Kept
  <2> QED BY <1>1, <2>1, <2>3 DEF ServiceKeeps, Elsewhere, PermitsMove, ServiceDomains, Domains
<1>3. ASSUME NEW d, Ffmpeg(c, d), DOMAIN d = DecFields, d.closed = dec[c].closed, d.out \in Nat,
             d.proc = "running" => dec[c].proc = "running"
      PROVE  ServiceKeeps(c)
  <2>1. UNCHANGED stray /\ dec' = [dec EXCEPT ![c] = d]
    BY <1>3 DEF Ffmpeg
  <2>2. dec'[c] = d
    BY <2>1 DEF Domains
  <2>3. Session(c)'
    BY <1>1, <1>3, <2>1, <2>2 DEF Session, Kept
  <2> QED BY <1>1, <2>1, <2>3 DEF ServiceKeeps, Elsewhere, PermitsMove, ServiceDomains, Domains
<1>4. DOMAIN dec[c] = DecFields /\ dec[c].out \in Nat
  BY DEF Session, Kept
<1>5. CASE FfmpegDecodes(c)
  <2> DEFINE d == [dec[c] EXCEPT !.fed = @ - 1, !.out = @ + 1]
  <2>1. DOMAIN d = DecFields /\ d.closed = dec[c].closed /\ d.out = dec[c].out + 1 /\ d.proc = dec[c].proc
    BY <1>4 DEF DecFields
  <2>2. Ffmpeg(c, d)
    BY <1>5 DEF FfmpegDecodes
  <2> HIDE DEF d
  <2> QED BY <1>3, <1>4, <2>1, <2>2
<1>6. CASE FfmpegFails(c)
  BY <1>3, <1>4, <1>6 DEF FfmpegFails, DecFields
<1>7. CASE FfmpegExits(c)
  BY <1>3, <1>4, <1>7 DEF FfmpegExits, DecFields
<1> QED BY <1>2, <1>5, <1>6, <1>7

LEMMA ServiceFits ==
    ASSUME Domains, NEW c \in Connections, Session(c), ServiceNext(c)
    PROVE  ServiceKeeps(c)
BY PushFits, FinishFits, DrainFits, ExitFits, CallFits, ExpireFits, OpenFits,
   DisconnectedFits, BackgroundFits DEF ServiceNext

-----------------------------------------------------------------------------
(* Slots, permits and paid calls *)

Callers == {c \in Connections : wait[c] = "call"}
Holders == {c \in Connections : Holding(c)}
Permits == permits \in Nat /\ permits + Cardinality(Callers) = MaxRolling
Slots == active = Cardinality(Holders) /\ active <= MaxSessions

\* The service hears of a connection only when its client connects.
Fresh(c) == api[c] \in {"new", "starting"} => svc[c] = "none"

Limits ==
    /\ Domains /\ Permits /\ Slots
    /\ \A c \in Connections : Session(c) /\ Fresh(c)

LEMMA SetsFinite ==
    /\ IsFiniteSet(Callers) /\ Cardinality(Callers) \in Nat
    /\ IsFiniteSet(Holders) /\ Cardinality(Holders) \in Nat
BY FS_Subset, FS_CardinalityType DEF Callers, Holders

LEMMA ServeKeepsLimits ==
    ASSUME Limits, NEW c \in Connections, Serve(c)
    PROVE  Limits'
<1>1. UNCHANGED <<load, api, cl, frames, out, active, closer>> /\ ServiceKeeps(c)
  BY ServiceFits DEF Serve, edge, Limits
<1>2. Domains'
  BY <1>1 DEF Domains, ServiceKeeps, ServiceDomains, Limits
<1>3. \A k \in Connections : Session(k)' /\ Fresh(k)'
  <2>1. ASSUME NEW k \in Connections \ {c}
        PROVE  Session(k)' /\ Fresh(k)'
    BY <1>1 DEF ServiceKeeps, Elsewhere, Session, Fresh, Limits
  <2>2. Session(c)' /\ Fresh(c)'
    BY <1>1 DEF ServiceKeeps, Fresh, Limits
  <2> QED BY <2>1, <2>2
<1>4. \A k \in Connections \ {c} : wait'[k] = wait[k]
  BY <1>1 DEF ServiceKeeps, Elsewhere
<1>5. permits \in Nat /\ permits + Cardinality(Callers) = MaxRolling
  BY DEF Limits, Permits
<1>6. Permits'
  <2>1. CASE permits' = permits /\ (wait'[c] = "call" <=> wait[c] = "call")
    <3>1. Callers' = Callers
      BY <1>4, <2>1 DEF Callers
    <3> QED BY <1>5, <2>1, <3>1 DEF Permits
  <2>2. CASE permits' = permits + 1 /\ wait[c] = "call" /\ wait'[c] # "call"
    <3>1. Callers' = Callers \ {c} /\ c \in Callers
      BY <1>4, <2>2 DEF Callers
    <3>2. Cardinality(Callers') = Cardinality(Callers) - 1
      BY <3>1, SetsFinite, FS_RemoveElement
    <3> QED BY <1>5, <2>2, <3>2, SetsFinite DEF Permits
  <2>3. CASE permits > 0 /\ permits' = permits - 1 /\ wait[c] # "call" /\ wait'[c] = "call"
    <3>1. Callers' = Callers \cup {c} /\ c \notin Callers
      BY <1>4, <2>3 DEF Callers
    <3>2. Cardinality(Callers') = Cardinality(Callers) + 1
      BY <3>1, SetsFinite, FS_AddElement
    <3> QED BY <1>5, <2>3, <3>2, SetsFinite DEF Permits
  <2> QED BY <1>1, <2>1, <2>2, <2>3 DEF ServiceKeeps, PermitsMove
<1>7. Slots'
  BY <1>1 DEF Slots, Holders, Holding, Limits
<1> QED BY <1>2, <1>3, <1>6, <1>7 DEF Limits

\* The API's own steps leave the sessions of the service alone, except that
\* the client connects.
EdgeStep(c) ==
    \/ Refuse(c) \/ Opened(c) \/ OpenFails(c) \/ End(c)
    \/ \E frame \in Frames(sess[c].codec) : Push(c, frame)
    \/ \E last \in {"close", "gone"} : ApiRejects(c, last)
    \/ PushAnswered(c) \/ ClientFails(c) \/ FinishAnswered(c) \/ ClientCloses(c) \/ Analyzed(c)
    \/ \E last \in {"timeout", "gone"} : ApiExpires(c, last)
    \/ CloserRuns(c)

ApiMoves(c) ==
    /\ DOMAIN api' = Connections /\ DOMAIN cl' = Connections /\ DOMAIN frames' = Connections
    /\ DOMAIN out' = Connections /\ DOMAIN up' = Connections /\ DOMAIN down' = Connections
    /\ \A k \in Connections \ {c} :
          /\ api'[k] = api[k] /\ cl'[k] = cl[k] /\ frames'[k] = frames[k] /\ out'[k] = out[k]
          /\ up'[k] = up[k] /\ down'[k] = down[k]

\* What the API's handler does to its own variables.
LEMMA EmitMoves ==
    ASSUME Domains, NEW c \in Connections, NEW messages, NEW phase, Emit(c, messages, phase)
    PROVE  /\ DOMAIN api' = Connections /\ DOMAIN out' = Connections
           /\ api'[c] \in {phase, "releasing"}
           /\ \A k \in Connections \ {c} : api'[k] = api[k] /\ out'[k] = out[k]
BY DEF Emit, Tell, Go, Domains

LEMMA LeavesMoves ==
    ASSUME Domains, NEW c \in Connections, NEW last, ApiLeaves(c, last)
    PROVE  /\ DOMAIN api' = Connections /\ DOMAIN out' = Connections
           /\ api'[c] = "releasing"
           /\ \A k \in Connections \ {c} : api'[k] = api[k] /\ out'[k] = out[k]
BY DEF ApiLeaves, Tell, Go, Domains

\* The API moves one connection, within its slot.
LEMMA EdgeMoves ==
    ASSUME Domains, NEW c \in Connections, EdgeStep(c)
    PROVE  /\ UNCHANGED <<svc, wait, sess, dec, permits, stray, made, active>>
           /\ ApiMoves(c)
           /\ Holding(c)' = Holding(c)
           /\ api'[c] = api[c] \/ api'[c] \notin {"new", "starting"}
<1>1. ASSUME Refuse(c) PROVE ApiMoves(c) /\ api[c] = "new" /\ api'[c] = "ended"
  BY <1>1 DEF Refuse, Comes, Go, Tell, ApiMoves, Domains
<1>2. ASSUME NEW last, ApiRejects(c, last)
      PROVE  ApiMoves(c) /\ api[c] \in {"starting", "receiving"} /\ api'[c] = "releasing"
  BY <1>2, LeavesMoves DEF ApiRejects, ApiMoves, Domains
<1>3. ASSUME NEW last, ApiExpires(c, last)
      PROVE  /\ ApiMoves(c) /\ api'[c] = "releasing"
             /\ api[c] \in {"starting", "receiving", "pushing", "finishing", "analyzing"}
  BY <1>3, LeavesMoves DEF ApiExpires, Client, ApiMoves, Domains
<1>4. ASSUME Opened(c) PROVE ApiMoves(c) /\ api[c] = "opening" /\ api'[c] \in {"receiving", "releasing"}
  BY <1>4, EmitMoves DEF Opened, Client, ApiMoves, Domains
<1>5. ASSUME OpenFails(c) PROVE ApiMoves(c) /\ api[c] = "opening" /\ api'[c] = "releasing"
  BY <1>5, LeavesMoves DEF OpenFails, Client, SendUp, ApiMoves, Domains
<1>6. ASSUME End(c) PROVE ApiMoves(c) /\ api[c] = "receiving" /\ api'[c] = "finishing"
  BY <1>6 DEF End, Go, SendUp, ApiMoves, Domains
<1>7. ASSUME NEW frame, Push(c, frame)
      PROVE  ApiMoves(c) /\ api[c] = "receiving" /\ api'[c] \in {"pushing", "releasing"}
  <2>1. CASE cl[c] = "open"
    BY <1>7, <2>1 DEF Push, Go, SendUp, ApiMoves, Domains
  <2>2. CASE cl[c] # "open"
    BY <1>7, <2>2, LeavesMoves DEF Push, ApiMoves, Domains
  <2> QED BY <2>1, <2>2
<1>8. ASSUME PushAnswered(c)
      PROVE  ApiMoves(c) /\ api[c] = "pushing" /\ api'[c] \in {"receiving", "releasing"}
  BY <1>8, EmitMoves DEF PushAnswered, ApiMoves, Domains
<1>9. ASSUME ClientFails(c) \/ FinishAnswered(c)
      PROVE  ApiMoves(c) /\ api[c] \in {"pushing", "finishing"} /\ api'[c] = api[c]
  BY <1>9 DEF ClientFails, FinishAnswered, Client, SendUp, ApiMoves, Domains
<1>10. ASSUME ClientCloses(c)
       PROVE  /\ ApiMoves(c) /\ api[c] \in {"pushing", "finishing"}
              /\ api'[c] \in {"analyzing", "releasing"}
  <2>1. Client(c, "closed") /\ api[c] \in {"pushing", "finishing"} /\ UNCHANGED <<up, frames>>
    BY <1>10 DEF ClientCloses
  <2>2. CASE ApiLeaves(c, "close") /\ UNCHANGED down
    BY <2>1, <2>2, LeavesMoves DEF Client, ApiMoves, Domains
  <2>3. CASE /\ Emit(c, Provisional(Updates(c)), "analyzing")
             /\ down' = [down EXCEPT ![c] = <<>>]
    BY <2>1, <2>3, EmitMoves DEF Client, ApiMoves, Domains
  <2> QED BY <1>10, <2>2, <2>3 DEF ClientCloses
<1>11. ASSUME Analyzed(c)
       PROVE  ApiMoves(c) /\ api[c] = "analyzing" /\ api'[c] = "releasing"
  <2>1. api[c] = "analyzing" /\ UNCHANGED <<up, down, cl, frames>>
    BY <1>11 DEF Analyzed
  <2>2. CASE Emit(c, <<[type |-> "reconciled", frames |-> frames[c]]>>, "releasing")
    BY <2>1, <2>2, EmitMoves DEF ApiMoves, Domains
  <2>3. CASE ApiLeaves(c, "close")
    BY <2>1, <2>3, LeavesMoves DEF ApiMoves, Domains
  <2> QED BY <1>11, <2>2, <2>3 DEF Analyzed
<1>12. ASSUME CloserRuns(c)
       PROVE  ApiMoves(c) /\ api'[c] = api[c]
  BY <1>12 DEF CloserRuns, Client, SendUp, ApiMoves, Domains
<1>13. UNCHANGED <<svc, wait, sess, dec, permits, stray, made, active>>
  BY DEF EdgeStep, Refuse, Opened, OpenFails, End, Push, ApiRejects, PushAnswered, ClientFails,
         FinishAnswered, ClientCloses, Analyzed, ApiExpires, CloserRuns, service
<1>14. /\ ApiMoves(c)
       /\ \/ api'[c] = api[c]
          \/ api[c] = "new" /\ api'[c] = "ended"
          \/ /\ api[c] \in {"starting", "opening", "receiving", "pushing", "finishing", "analyzing"}
             /\ api'[c] \in {"receiving", "pushing", "finishing", "analyzing", "releasing"}
  BY <1>1, <1>2, <1>3, <1>4, <1>5, <1>6, <1>7, <1>8, <1>9, <1>10, <1>11, <1>12 DEF EdgeStep
<1> QED BY <1>13, <1>14 DEF Holding

\* What the sessions and their permits are counted by.
LEMMA SessionsKept ==
    ASSUME Limits, UNCHANGED <<wait, sess, dec, permits, stray>>
    PROVE  /\ Permits'
           /\ \A k \in Connections : svc'[k] = svc[k] => Session(k)'
<1>1. Callers' = Callers
  BY DEF Callers
<1>2. Permits'
  BY <1>1 DEF Permits, Limits
<1>3. \A k \in Connections : svc'[k] = svc[k] => Session(k)'
  BY DEF Limits, Session
<1> QED BY <1>2, <1>3

LEMMA EdgeKeepsLimits ==
    ASSUME Limits, NEW c \in Connections, EdgeStep(c)
    PROVE  Limits'
<1>1. /\ UNCHANGED <<svc, wait, sess, dec, permits, stray, made, active>>
      /\ ApiMoves(c) /\ Holding(c)' = Holding(c)
      /\ api'[c] = api[c] \/ api'[c] \notin {"new", "starting"}
  BY EdgeMoves DEF Limits
<1>2. Domains'
  BY <1>1 DEF Domains, ApiMoves, Limits
<1>3. \A k \in Connections : Holding(k)' = Holding(k)
  BY <1>1 DEF ApiMoves, Holding
<1>4. Holders' = Holders
  BY <1>3 DEF Holders
<1>5. Slots'
  BY <1>1, <1>4 DEF Slots, Limits
<1>6. \A k \in Connections : Fresh(k)'
  BY <1>1 DEF Fresh, ApiMoves, Limits
<1> QED BY <1>1, <1>2, <1>5, <1>6, SessionsKept DEF Limits

LEMMA StartKeepsLimits ==
    ASSUME Limits, NEW c \in Connections, NEW codec, Start(c, codec)
    PROVE  Limits'
<1>1. /\ api[c] = "starting" /\ api' = [api EXCEPT ![c] = "opening"]
      /\ cl' = [cl EXCEPT ![c] = "opening"]
      /\ svc' = [svc EXCEPT ![c] = "opening"]
      /\ up' = [up EXCEPT ![c] = Append(@, [type |-> "start", codec |-> codec])]
      /\ UNCHANGED <<wait, sess, dec, permits, stray, made, down, frames, out, active>>
  BY DEF Start, Go, Client, SendUp
<1>2. Domains'
  BY <1>1 DEF Domains, Limits
<1>3. svc[c] = "none" /\ svc'[c] = "opening" /\ api'[c] = "opening"
  BY <1>1 DEF Limits, Fresh, Domains
<1>4. Session(c)'
  BY <1>1, <1>3 DEF Limits, Session
<1>5. \A k \in Connections \ {c} : svc'[k] = svc[k] /\ api'[k] = api[k]
  BY <1>1 DEF Domains, Limits
<1>6. \A k \in Connections : Session(k)' /\ Fresh(k)'
  BY <1>1, <1>3, <1>4, <1>5, SessionsKept DEF Fresh, Limits
<1>7. Holders' = Holders
  BY <1>1, <1>3, <1>5 DEF Holders, Holding
<1> QED BY <1>1, <1>2, <1>6, <1>7, SessionsKept DEF Limits, Slots

LEMMA SlotKeepsLimits ==
    ASSUME Limits, NEW c \in Connections, Acquire(c) \/ Release(c)
    PROVE  Limits'
<1>1. /\ UNCHANGED <<svc, wait, sess, dec, permits, stray, made, up, down, cl, frames, out>>
      /\ \E phase : api' = [api EXCEPT ![c] = phase]
  BY DEF Acquire, Release, Go, service
<1>2. Domains'
  BY <1>1 DEF Domains, Limits
<1>3. \A k \in Connections : Session(k)'
  BY <1>1, SessionsKept
<1>4. CASE Acquire(c)
  <2>1. api[c] = "new" /\ api' = [api EXCEPT ![c] = "starting"] /\ active < MaxSessions /\ active' = active + 1
    BY <1>4 DEF Acquire, Comes, Go
  <2>2. api'[c] = "starting" /\ \A k \in Connections \ {c} : api'[k] = api[k]
    BY <2>1 DEF Domains, Limits
  <2>3. Holders' = Holders \cup {c} /\ c \notin Holders
    BY <2>1, <2>2 DEF Holders, Holding
  <2>4. Cardinality(Holders') = Cardinality(Holders) + 1
    BY <2>3, SetsFinite, FS_AddElement
  <2>5. Slots'
    BY <2>1, <2>4, SetsFinite DEF Slots, Limits
  <2>6. \A k \in Connections : Fresh(k)'
    BY <1>1, <2>1, <2>2 DEF Fresh, Limits
  <2> QED BY <1>1, <1>2, <1>3, <2>5, <2>6, SessionsKept DEF Limits
<1>5. CASE Release(c)
  <2>1. api[c] = "releasing" /\ api' = [api EXCEPT ![c] = "ended"]
        /\ active' = IF active > 0 THEN active - 1 ELSE 0
    BY <1>5 DEF Release, Go
  <2>2. api'[c] = "ended" /\ \A k \in Connections \ {c} : api'[k] = api[k]
    BY <2>1 DEF Domains, Limits
  <2>3. Holders' = Holders \ {c} /\ c \in Holders
    BY <2>1, <2>2 DEF Holders, Holding
  <2>4. Cardinality(Holders') = Cardinality(Holders) - 1 /\ Cardinality(Holders) > 0
    <3>1. Cardinality(Holders') = Cardinality(Holders) - 1
      BY <2>3, SetsFinite, FS_RemoveElement
    <3>2. Cardinality(Holders) # 0
      BY <2>3, SetsFinite, FS_EmptySet
    <3> QED BY <3>1, <3>2, SetsFinite
  <2>5. Slots'
    BY <2>1, <2>4, SetsFinite DEF Slots, Limits
  <2>6. \A k \in Connections : Fresh(k)'
    BY <1>1, <2>2 DEF Fresh, Limits
  <2> QED BY <1>1, <1>2, <1>3, <2>5, <2>6, SessionsKept DEF Limits
<1> QED BY <1>4, <1>5

LEMMA InitLimits == Init => Limits
<1> SUFFICES ASSUME Init PROVE Limits
  OBVIOUS
<1>1. Domains
  BY DEF Init, InitService, Domains
<1>2. Callers = {} /\ Holders = {}
  BY DEF Init, InitService, Callers, Holders, Holding
<1>3. Permits /\ Slots
  BY <1>2, FS_EmptySet DEF Init, InitService, Permits, Slots
<1>4. ASSUME NEW c \in Connections
      PROVE  Session(c) /\ Fresh(c)
  <2>1. /\ svc[c] = "none" /\ wait[c] = "none" /\ stray[c] = 0
        /\ sess[c] = NewSession("pcm_s16le") /\ dec[c] = NewDecoder
    BY DEF Init, InitService
  <2>2. Kept(NewSession("pcm_s16le"), NewDecoder, 0)
    BY DEF NewSession, NewDecoder, Kept, SessFields, DecFields
  <2>3. NewSession("pcm_s16le").closed = FALSE /\ NewDecoder.closed = FALSE
    BY DEF NewSession, NewDecoder
  <2> QED BY <2>1, <2>2, <2>3 DEF Session, Fresh
<1> QED BY <1>1, <1>3, <1>4 DEF Limits

LEMMA StutterKeepsLimits == Limits /\ UNCHANGED vars => Limits'
<1> SUFFICES ASSUME Limits, UNCHANGED vars PROVE Limits'
  OBVIOUS
<1>1. UNCHANGED <<svc, wait, up, down, sess, dec, permits, stray, made, api, cl, frames, out, active>>
  BY DEF vars, service, edge
<1>2. Holders' = Holders /\ Callers' = Callers
  BY <1>1 DEF Holders, Holding, Callers
<1>3. \A k \in Connections : Session(k)' /\ Fresh(k)'
  BY <1>1 DEF Limits, Session, Fresh
<1> QED BY <1>1, <1>2, <1>3 DEF Limits, Domains, Permits, Slots

LEMMA NextCases ==
    ASSUME [Next]_vars
    PROVE  \/ UNCHANGED vars
           \/ \E c \in Connections :
                 \/ Acquire(c) \/ Release(c) \/ EdgeStep(c) \/ Serve(c)
                 \/ \E codec \in load[c].codecs : Start(c, codec)
BY DEF Next, EdgeStep, Finished

LEMMA NextKeepsLimits == Limits /\ [Next]_vars => Limits'
BY NextCases, ServeKeepsLimits, EdgeKeepsLimits, StartKeepsLimits, SlotKeepsLimits, StutterKeepsLimits

\* Wherever operations time out or are cancelled: what the session, its decoder
\* and its calls have paid, which phases hold a slot or a permit, and that a
\* session that left no longer moves.
THEOREM LimitsInvariant == Spec => []Limits
<1> QED BY InitLimits, NextKeepsLimits, PTL DEF Spec

\* However operations time out: the slots of the API are those of connections
\* that hold one and never more than there are, the permits of the recogniser
\* are with the calls that are waited for, and no session pays for more calls
\* or audio than it may.
THEOREM LiveLimitsHold == Spec => []LimitsHold
<1>1. Limits => LimitsHold
  <2> SUFFICES ASSUME Limits PROVE LimitsHold
    OBVIOUS
  <2>1. CallsBounded
    <3>1. ASSUME NEW c \in Connections
          PROVE  /\ stray[c] + (IF wait[c] = "call" THEN 1 ELSE 0) <= sess[c].calls
                 /\ sess[c].calls <= MaxCalls /\ sess[c].audio <= MaxAudio
      BY DEF Limits, Session, Kept
    <3> QED BY <3>1 DEF CallsBounded, Limits, Permits, Callers
  <2> QED BY <2>1 DEF LimitsHold, Limits, Slots, Holders
<1> QED BY <1>1, LimitsInvariant, PTL

\* A session that was closed, on whatever path, leaves no ffmpeg that waits for
\* input.
THEOREM DecodersLetGo == Spec => []DecoderLetGo
<1>1. Limits => DecoderLetGo
  BY DEF Limits, Session, Kept, DecoderLetGo
<1> QED BY <1>1, LimitsInvariant, PTL
-----------------------------------------------------------------------------
(* What a browser was told *)

ShownIn(o) == {i \in DOMAIN o : o[i].type \in {"partial", "provisional_final"}}
AcksIn(o)  == {i \in DOMAIN o : o[i].type = "ack"}
Upto(s, i) == {j \in s : j <= i}
Seen(o)    == Cardinality(ShownIn(o))
Acked(o)   == Cardinality(AcksIn(o))

\* The updates shown are the first of those that were made, each at its place.
TellsMade(o, m) ==
    /\ Seen(o) <= Len(m)
    /\ \A i \in ShownIn(o) : o[i].update = m[Cardinality(Upto(ShownIn(o), i))]
AcksInOrder(o) ==
    /\ \A i \in AcksIn(o) : o[i].seq \in Nat /\ o[i].seq <= Acked(o)
    /\ \A i, j \in AcksIn(o) : i < j => o[i].seq < o[j].seq
GoesOn(o) == \A i \in DOMAIN o : o[i].type \notin LastWords

LEMMA Counts ==
    ASSUME NEW o, IsSeq(o)
    PROVE  /\ DOMAIN o = 1 .. Len(o) /\ Len(o) \in Nat
           /\ IsFiniteSet(ShownIn(o)) /\ Seen(o) \in Nat
           /\ IsFiniteSet(AcksIn(o)) /\ Acked(o) \in Nat
<1>1. DOMAIN o = 1 .. Len(o) /\ Len(o) \in Nat
  BY SeqShape
<1>2. IsFiniteSet(1 .. Len(o))
  BY <1>1, FS_Interval
<1>3. ShownIn(o) \subseteq 1 .. Len(o) /\ AcksIn(o) \subseteq 1 .. Len(o)
  BY <1>1 DEF ShownIn, AcksIn
<1> QED BY <1>1, <1>2, <1>3, FS_Subset, FS_CardinalityType DEF Seen, Acked

\* One more message that is no update.
LEMMA OneMore ==
    ASSUME NEW o, NEW e, IsSeq(o), e.type \notin {"partial", "provisional_final"}
    PROVE  /\ IsSeq(Append(o, e)) /\ Len(Append(o, e)) = Len(o) + 1
           /\ DOMAIN Append(o, e) = 1 .. Len(o) + 1
           /\ \A i \in 1 .. Len(o) : Append(o, e)[i] = o[i]
           /\ Append(o, e)[Len(o) + 1] = e
           /\ ShownIn(Append(o, e)) = ShownIn(o) /\ Seen(Append(o, e)) = Seen(o)
           /\ AcksIn(Append(o, e)) = IF e.type = "ack" THEN AcksIn(o) \cup {Len(o) + 1} ELSE AcksIn(o)
           /\ Acked(Append(o, e)) = IF e.type = "ack" THEN Acked(o) + 1 ELSE Acked(o)
<1> DEFINE p == Append(o, e)
<1>1. IsSeq(p) /\ Len(p) = Len(o) + 1 /\ Len(o) \in Nat
  BY SeqAppend
<1>2. (\A i \in 1 .. Len(o) : p[i] = o[i]) /\ p[Len(o) + 1] = e
  BY SeqAppend
<1>3. DOMAIN p = 1 .. Len(o) + 1 /\ DOMAIN o = 1 .. Len(o)
  BY <1>1, SeqShape
<1> HIDE DEF p
<1>4. ShownIn(p) = ShownIn(o)
  BY <1>1, <1>2, <1>3 DEF ShownIn
<1>5. AcksIn(p) = IF e.type = "ack" THEN AcksIn(o) \cup {Len(o) + 1} ELSE AcksIn(o)
  BY <1>1, <1>2, <1>3 DEF AcksIn
<1>6. Acked(p) = IF e.type = "ack" THEN Acked(o) + 1 ELSE Acked(o)
  <2>1. CASE e.type = "ack"
    <3>1. Len(o) + 1 \notin AcksIn(o) /\ IsFiniteSet(AcksIn(o))
      BY <1>1, <1>3, Counts DEF AcksIn
    <3> QED BY <1>5, <2>1, <3>1, FS_AddElement DEF Acked
  <2>2. CASE e.type # "ack"
    BY <1>5, <2>2 DEF Acked
  <2> QED BY <2>1, <2>2
<1> QED BY <1>1, <1>2, <1>3, <1>4, <1>5, <1>6 DEF p, Seen

LEMMA OneMoreTells ==
    ASSUME NEW o, NEW m, NEW e, IsSeq(o), TellsMade(o, m),
           e.type \notin {"partial", "provisional_final"}
    PROVE  TellsMade(Append(o, e), m)
<1> DEFINE p == Append(o, e)
<1>1. ShownIn(p) = ShownIn(o) /\ Seen(p) = Seen(o) /\ \A i \in 1 .. Len(o) : p[i] = o[i]
  BY OneMore
<1>2. ShownIn(o) \subseteq 1 .. Len(o)
  BY SeqShape DEF ShownIn
<1> HIDE DEF p
<1>3. TellsMade(p, m)
  BY <1>1, <1>2 DEF TellsMade
<1> QED BY <1>3 DEF p

\* "started", or the last word.
LEMMA WordTells ==
    ASSUME NEW o, NEW m, NEW e, IsSeq(o), TellsMade(o, m), AcksInOrder(o), GoesOn(o),
           e.type \in LastWords \cup {"started"}
    PROVE  /\ IsSeq(Append(o, e)) /\ TellsMade(Append(o, e), m) /\ AcksInOrder(Append(o, e))
           /\ Seen(Append(o, e)) = Seen(o) /\ Acked(Append(o, e)) = Acked(o)
           /\ \A i \in DOMAIN Append(o, e) : Append(o, e)[i].type \in LastWords =>
                 i = Len(Append(o, e)) /\ Append(o, e)[i] = e
           /\ e.type = "started" => GoesOn(Append(o, e))
<1> DEFINE p == Append(o, e)
<1>1. e.type \notin {"partial", "provisional_final", "ack"} /\ ("started" \notin LastWords)
  BY DEF LastWords
<1>2. /\ IsSeq(p) /\ Len(p) = Len(o) + 1 /\ DOMAIN p = 1 .. Len(o) + 1
      /\ (\A i \in 1 .. Len(o) : p[i] = o[i]) /\ p[Len(o) + 1] = e
      /\ Seen(p) = Seen(o) /\ AcksIn(p) = AcksIn(o) /\ Acked(p) = Acked(o)
  BY <1>1, OneMore
<1>3. TellsMade(p, m)
  BY <1>1, OneMoreTells
<1>4. DOMAIN o = 1 .. Len(o) /\ Len(o) \in Nat
  BY Counts
<1> HIDE DEF p
<1>5. AcksIn(o) \subseteq 1 .. Len(o)
  BY <1>4 DEF AcksIn
<1>6. AcksInOrder(p)
  BY <1>2, <1>5 DEF AcksInOrder
<1>7. ASSUME NEW i \in DOMAIN p, p[i].type \in LastWords
      PROVE  i = Len(p) /\ p[i] = e
  BY <1>2, <1>4, <1>7 DEF GoesOn
<1>8. ASSUME e.type = "started" PROVE GoesOn(p)
  BY <1>1, <1>2, <1>4, <1>8 DEF GoesOn
<1> QED BY <1>2, <1>3, <1>6, <1>7, <1>8 DEF p

LEMMA AckTells ==
    ASSUME NEW o, NEW m, NEW e, IsSeq(o), TellsMade(o, m), AcksInOrder(o), GoesOn(o),
           e.type = "ack", e.seq = Acked(o) + 1
    PROVE  /\ IsSeq(Append(o, e)) /\ TellsMade(Append(o, e), m) /\ AcksInOrder(Append(o, e))
           /\ Seen(Append(o, e)) = Seen(o) /\ Acked(Append(o, e)) = Acked(o) + 1
           /\ GoesOn(Append(o, e))
<1> DEFINE p == Append(o, e)
<1>2. /\ IsSeq(p) /\ Len(p) = Len(o) + 1 /\ DOMAIN p = 1 .. Len(o) + 1
      /\ (\A i \in 1 .. Len(o) : p[i] = o[i]) /\ p[Len(o) + 1] = e
      /\ Seen(p) = Seen(o) /\ AcksIn(p) = AcksIn(o) \cup {Len(o) + 1} /\ Acked(p) = Acked(o) + 1
  BY OneMore
<1>3. TellsMade(p, m)
  BY OneMoreTells
<1>4. DOMAIN o = 1 .. Len(o) /\ Len(o) \in Nat /\ Acked(o) \in Nat
  BY Counts
<1> HIDE DEF p
<1>5. AcksIn(o) \subseteq 1 .. Len(o)
  BY <1>4 DEF AcksIn
<1>6. AcksInOrder(p)
  <2>1. ASSUME NEW i \in AcksIn(p)
        PROVE  p[i].seq \in Nat /\ p[i].seq <= Acked(p)
    <3>1. CASE i = Len(o) + 1
      BY <1>2, <1>4, <3>1
    <3>2. CASE i \in AcksIn(o)
      BY <1>2, <1>4, <1>5, <3>2 DEF AcksInOrder
    <3> QED BY <1>2, <3>1, <3>2
  <2>2. ASSUME NEW i \in AcksIn(p), NEW j \in AcksIn(p), i < j
        PROVE  p[i].seq < p[j].seq
    <3>1. i \in AcksIn(o)
      BY <1>2, <1>4, <1>5, <2>2
    <3>2. p[i] = o[i] /\ o[i].seq \in Nat /\ o[i].seq <= Acked(o)
      BY <1>2, <1>5, <3>1 DEF AcksInOrder
    <3>3. CASE j = Len(o) + 1
      BY <1>2, <1>4, <3>2, <3>3
    <3>4. CASE j \in AcksIn(o)
      BY <1>2, <1>5, <2>2, <3>1, <3>2, <3>4 DEF AcksInOrder
    <3> QED BY <1>2, <3>3, <3>4
  <2> QED BY <2>1, <2>2 DEF AcksInOrder
<1>7. GoesOn(p)
  BY <1>2, <1>4 DEF GoesOn, LastWords
<1> QED BY <1>2, <1>3, <1>6, <1>7 DEF p

\* A run of updates, the next ones of those that were made.
LEMMA UpdatesTell ==
    ASSUME NEW o, NEW u, NEW m, IsSeq(o), IsSeq(u), TellsMade(o, m), AcksInOrder(o), GoesOn(o),
           Len(m) \in Nat, Seen(o) + Len(u) <= Len(m),
           \A j \in 1 .. Len(u) : /\ u[j].type \in {"partial", "provisional_final"}
                                  /\ u[j].update = m[Seen(o) + j]
    PROVE  /\ IsSeq(o \o u) /\ TellsMade(o \o u, m) /\ AcksInOrder(o \o u) /\ GoesOn(o \o u)
           /\ Seen(o \o u) = Seen(o) + Len(u) /\ Acked(o \o u) = Acked(o)
<1> DEFINE p == o \o u
           l == Len(o)
           n == Len(u)
           new(k) == l + 1 .. l + k
<1>1. /\ IsSeq(p) /\ l \in Nat /\ n \in Nat /\ Len(p) = l + n
      /\ \A i \in 1 .. l : p[i] = o[i]
      /\ \A i \in 1 .. n : p[l + i] = u[i]
  BY SeqConcat
<1>2. DOMAIN p = 1 .. l + n /\ DOMAIN o = 1 .. l
  BY <1>1, SeqShape
<1>3. IsFiniteSet(ShownIn(o)) /\ Seen(o) \in Nat /\ ShownIn(o) \subseteq 1 .. l
  BY <1>2, Counts DEF ShownIn
<1> HIDE DEF p, l, n
<1>4. ASSUME NEW i \in 1 .. l + n
      PROVE  \/ i \in 1 .. l /\ p[i] = o[i]
             \/ /\ i \in new(n) /\ i - l \in 1 .. n /\ p[i] = u[i - l]
  <2>1. CASE i <= l
    BY <1>1, <2>1
  <2>2. CASE ~(i <= l)
    <3>1. i - l \in 1 .. n /\ i = l + (i - l)
      BY <1>1, <2>2
    <3>2. p[i] = u[i - l]
      BY <1>1, <3>1
    <3> QED BY <1>1, <2>2, <3>1, <3>2
  <2> QED BY <2>1, <2>2
<1>5. ASSUME NEW i \in new(n)
      PROVE  /\ i \in 1 .. l + n /\ i \notin 1 .. l /\ i - l \in 1 .. n
             /\ p[i].type \in {"partial", "provisional_final"}
             /\ p[i].update = m[Seen(o) + (i - l)]
  <2>1. i \in 1 .. l + n /\ i \notin 1 .. l /\ i - l \in 1 .. n
    BY <1>1
  <2>2. p[i] = u[i - l]
    BY <1>4, <2>1
  <2> QED BY <2>1, <2>2 DEF n
<1>6. ShownIn(p) = ShownIn(o) \cup new(n)
  BY <1>1, <1>2, <1>4, <1>5 DEF ShownIn
<1>7. AcksIn(p) = AcksIn(o) /\ Acked(p) = Acked(o)
  <2>1. AcksIn(p) = AcksIn(o)
    BY <1>1, <1>2, <1>4, <1>5 DEF AcksIn
  <2> QED BY <2>1 DEF Acked
<1>8. AcksInOrder(p)
  <2>1. AcksIn(o) \subseteq 1 .. l
    BY <1>2 DEF AcksIn
  <2> QED BY <1>1, <1>7, <2>1 DEF AcksInOrder
<1>9. GoesOn(p)
  BY <1>2, <1>4, <1>5 DEF GoesOn, LastWords
<1>10. ASSUME NEW k \in 0 .. n
       PROVE  Cardinality(ShownIn(o) \cup new(k)) = Seen(o) + k
  <2>0. l \in Nat /\ l + 1 \in Int /\ l + k \in Int /\ k \in Nat
    BY <1>1
  <2>1. IsFiniteSet(l + 1 .. l + k) /\ Cardinality(l + 1 .. l + k) = k
    <3> DEFINE a == l + 1
               b == l + k
    <3> HIDE DEF a, b
    <3>0. a \in Int /\ b \in Int
      BY <2>0 DEF a, b
    <3>1. IsFiniteSet(a .. b) /\ Cardinality(a .. b) = IF a > b THEN 0 ELSE b - a + 1
      BY <3>0, FS_Interval
    <3>2. (IF a > b THEN 0 ELSE b - a + 1) = k
      BY <2>0 DEF a, b
    <3> QED BY <3>1, <3>2 DEF a, b
  <2>2. ShownIn(o) \cap new(k) = {}
    BY <1>1, <1>3
  <2>3. Cardinality(ShownIn(o) \cap new(k)) = 0
    BY <2>2, FS_EmptySet
  <2>4. IsFiniteSet(new(k)) /\ Cardinality(new(k)) = k
    BY <2>1
  <2>5. Cardinality(ShownIn(o)) = Seen(o)
    BY DEF Seen
  <2> DEFINE t == new(k)
  <2> HIDE DEF t, new
  <2>6. Cardinality(ShownIn(o) \cup t) = Cardinality(ShownIn(o)) + Cardinality(t) - Cardinality(ShownIn(o) \cap t)
    BY <1>3, <2>4, FS_Union DEF t
  <2> QED BY <1>3, <2>0, <2>3, <2>4, <2>5, <2>6 DEF t
<1>11. Seen(p) = Seen(o) + n
  BY <1>1, <1>6, <1>10 DEF Seen
<1>12. ASSUME NEW i \in ShownIn(p)
       PROVE  p[i].update = m[Cardinality(Upto(ShownIn(p), i))]
  <2>1. CASE i \in ShownIn(o)
    <3>1. Upto(ShownIn(p), i) = Upto(ShownIn(o), i)
      BY <1>1, <1>3, <1>6, <2>1 DEF Upto
    <3>2. p[i] = o[i]
      BY <1>1, <1>3, <2>1
    <3> QED BY <2>1, <3>1, <3>2 DEF TellsMade
  <2>2. CASE i \in new(n)
    <3>1. i - l \in 1 .. n /\ p[i].update = m[Seen(o) + (i - l)]
      BY <1>5, <2>2
    <3>2. Upto(ShownIn(p), i) = ShownIn(o) \cup new(i - l)
      BY <1>1, <1>3, <1>6, <2>2, <3>1 DEF Upto
    <3>3. Cardinality(Upto(ShownIn(p), i)) = Seen(o) + (i - l)
      BY <1>1, <1>10, <3>1, <3>2
    <3> QED BY <3>1, <3>3
  <2> QED BY <1>6, <2>1, <2>2
<1>13. TellsMade(p, m)
  BY <1>11, <1>12 DEF TellsMade, n
<1> QED BY <1>1, <1>7, <1>8, <1>9, <1>11, <1>13 DEF p, n

\* The session makes more updates.
LEMMA MoreMade ==
    ASSUME NEW o, NEW m, NEW all, IsSeq(o), IsSeq(m), IsSeq(all), TellsMade(o, m)
    PROVE  TellsMade(o, m \o all)
<1>1. /\ Len(m) \in Nat /\ Len(m \o all) = Len(m) + Len(all) /\ Len(all) \in Nat
      /\ \A i \in 1 .. Len(m) : (m \o all)[i] = m[i]
  BY SeqConcat
<1>2. ASSUME NEW i \in ShownIn(o)
      PROVE  Cardinality(Upto(ShownIn(o), i)) \in 1 .. Len(m)
  <2>1. IsFiniteSet(ShownIn(o)) /\ Upto(ShownIn(o), i) \subseteq ShownIn(o) /\ Seen(o) \in Nat
    BY Counts DEF Upto
  <2>2. i \in Upto(ShownIn(o), i)
    BY SeqShape DEF Upto, ShownIn
  <2>3. IsFiniteSet(Upto(ShownIn(o), i)) /\ Cardinality(Upto(ShownIn(o), i)) <= Seen(o)
    BY <2>1, FS_Subset DEF Seen
  <2>4. Cardinality(Upto(ShownIn(o), i)) \in Nat /\ Cardinality(Upto(ShownIn(o), i)) # 0
    BY <2>2, <2>3, FS_CardinalityType, FS_EmptySet
  <2> QED BY <1>1, <2>1, <2>3, <2>4 DEF TellsMade
<1>3. Seen(o) \in Nat
  BY Counts
<1> QED BY <1>1, <1>2, <1>3 DEF TellsMade
-----------------------------------------------------------------------------
(* What the service sends *)

\* d holds, of the updates m, the n that follow the k-th.
Carries(d, m, k, n) ==
    /\ k + n <= Len(m) /\ n < Len(d)
    /\ \A i \in 1 .. n : d[i] = [type |-> "update", update |-> m[k + i]]

\* All the rest of m and the answer, after which a service that ended closed.
AnswerIn(d, state, m, k) ==
    \E n \in 0 .. Len(d) :
        /\ Carries(d, m, k, n) /\ k + n = Len(m)
        /\ d[n + 1].type \in {"ack", "finished"}
        /\ \/ state = "reading" /\ Len(d) = n + 1
           \/ state = "ended" /\ Len(d) = n + 2 /\ d[n + 2] = [type |-> "close"]

\* Some of m and no answer.
CutIn(d, state, m, k) ==
    /\ state = "ended"
    /\ \E n \in 0 .. Len(d) : Carries(d, m, k, n) /\ Len(d) = n + 1 /\ d[n + 1].type = "close"

\* The session works for an operation that has heard h: it goes on, or what it
\* sends is the answer or cut short.
Served(c, op, h) ==
    /\ sess'[c].heard = h /\ IsSeq(down'[c])
    /\ \E all : IsSeq(all) /\ made'[c] = made[c] \o all
    /\ \/ svc'[c] = op /\ down'[c] = down[c] /\ made'[c] = made[c]
       \/ /\ svc'[c] \in {"reading", "ended"} /\ (op = "finishing" => svc'[c] = "ended")
          /\ down[c] = <<>> =>
                \/ AnswerIn(down'[c], svc'[c], made'[c], Len(made[c]))
                \/ CutIn(down'[c], svc'[c], made'[c], Len(made[c]))

LEMMA ConcatNone ==
    ASSUME NEW s, IsSeq(s)
    PROVE  s \o <<>> = s /\ <<>> \o s = s
BY ConcatEmptySeq DEF IsSeq

LEMMA CloseFrameIs == IsSeq(CloseFrame) /\ Len(CloseFrame) = 1 /\ CloseFrame[1] = [type |-> "close"]
BY SeqOfOne DEF CloseFrame

LEMMA ClosedIs ==
    ASSUME NEW s, IsSeq(s)
    PROVE  /\ IsSeq(s \o CloseFrame) /\ Len(s) \in Nat /\ Len(s \o CloseFrame) = Len(s) + 1
           /\ \A i \in 1 .. Len(s) : (s \o CloseFrame)[i] = s[i]
           /\ (s \o CloseFrame)[Len(s) + 1] = [type |-> "close"]
<1>1. PICK f : f = CloseFrame
  OBVIOUS
<1>2. IsSeq(f) /\ Len(f) = 1 /\ f[1] = [type |-> "close"]
  BY <1>1, CloseFrameIs
<1>0. IsSeq(f)
  BY <1>2
<1>3. /\ IsSeq(s \o f) /\ Len(s) \in Nat /\ Len(s \o f) = Len(s) + Len(f)
      /\ \A i \in 1 .. Len(s) : (s \o f)[i] = s[i]
      /\ \A i \in 1 .. Len(f) : (s \o f)[Len(s) + i] = f[i]
  BY <1>0, SeqConcat
<1>4. (s \o f)[Len(s) + 1] = f[1] /\ Len(s \o f) = Len(s) + 1
  BY <1>2, <1>3
<1> QED BY <1>1, <1>2, <1>3, <1>4

\* _stable_updates and the end of finish.
LEMMA FinalIsSeq ==
    ASSUME NEW text, NEW updates, NEW seq, IsSeq(updates)
    PROVE  IsSeq(FinalUpdates(text, updates, seq))
<1>1. CASE updates # <<>>
  <2>1. Len(updates) \in Nat /\ Len(updates) > 0
    BY <1>1, SeqShape
  <2>2. IsSeq(SubSeq(updates, 1, Len(updates) - 1))
    <3>1. Len(updates) - 1 \in 0 .. Len(updates) /\ 1 \in 1 .. Len(updates) + 1 /\ 1 <= Len(updates) - 1 + 1
      BY <2>1
    <3> QED BY <3>1, SeqPart
  <2>3. IsSeq(Append(Front(updates), [Last(updates) EXCEPT !.final = TRUE]))
    BY <2>2, SeqAppend DEF Front
  <2> QED BY <2>3, SeqAppend DEF FinalUpdates
<1>2. CASE updates = <<>>
  BY <1>2, SeqAppend DEF FinalUpdates
<1> QED BY <1>1, <1>2

LEMMA StableIsSeq ==
    ASSUME NEW text, NEW words, NEW seq
    PROVE  IsSeq(StableUpdates(text, words, seq).updates)
<1> DEFINE stable == CommonPrefix(text.previous, words)
           r == StableUpdates(text, words, seq)
<1>1. r.updates = <<>> \/ \E u : r.updates = <<u>>
  <2> HIDE DEF stable
  <2>1. CASE words = <<>>
    BY <2>1 DEF StableUpdates
  <2>2. CASE words # <<>> /\ text.previous = <<>>
    BY <2>2 DEF StableUpdates
  <2>3. CASE words # <<>> /\ text.previous # <<>> /\ Len(stable) <= Len(text.committed)
    BY <2>3 DEF StableUpdates, stable
  <2>4. CASE words # <<>> /\ text.previous # <<>> /\ ~(Len(stable) <= Len(text.committed))
    BY <2>4 DEF StableUpdates, stable
  <2> QED BY <2>1, <2>2, <2>3, <2>4
<1> HIDE DEF r
<1>2. CASE r.updates = <<>>
  BY <1>2, SeqOfNone DEF r
<1>3. ASSUME NEW u, r.updates = <<u>>
      PROVE  IsSeq(r.updates)
  <2>1. IsSeq(<<u>>)
    BY SeqOfOne
  <2> QED BY <1>3, <2>1
<1> QED BY <1>1, <1>2, <1>3 DEF r

\* The messages of all updates and the answer.
LEMMA MessagesAre ==
    ASSUME NEW all, NEW answer, IsSeq(all)
    PROVE  LET messages == Append([i \in DOMAIN all |-> [type |-> "update", update |-> all[i]]], answer)
           IN /\ IsSeq(messages) /\ Len(messages) = Len(all) + 1 /\ Len(all) \in Nat
              /\ \A i \in 1 .. Len(all) : messages[i] = [type |-> "update", update |-> all[i]]
              /\ messages[Len(all) + 1] = answer
<1> DEFINE f == [i \in DOMAIN all |-> [type |-> "update", update |-> all[i]]]
           messages == Append(f, answer)
<1>1. DOMAIN all = 1 .. Len(all) /\ Len(all) \in Nat
  BY SeqShape
<1>2. IsSeq(f) /\ Len(f) = Len(all)
  BY <1>1, SeqMade
<1>3. \A i \in 1 .. Len(all) : f[i] = [type |-> "update", update |-> all[i]]
  BY <1>1
<1> HIDE DEF f
<1>4. /\ IsSeq(messages) /\ Len(messages) = Len(all) + 1
      /\ \A i \in 1 .. Len(all) : messages[i] = f[i]
      /\ messages[Len(all) + 1] = answer
  BY <1>2, SeqAppend
<1> QED BY <1>1, <1>3, <1>4 DEF f

LEMMA HeardKept ==
    ASSUME Domains, NEW c \in Connections, NEW s, NEW d, DOMAIN s = SessFields, CloseSession(c, s, d)
    PROVE  sess'[c].heard = s.heard
<1>1. sess' = [sess EXCEPT ![c] = s] \/ sess' = [sess EXCEPT ![c] = [s EXCEPT !.closed = TRUE]]
  BY DEF CloseSession
<1>2. sess'[c] = s \/ sess'[c] = [s EXCEPT !.closed = TRUE]
  BY <1>1 DEF Domains
<1> QED BY <1>2 DEF SessFields

LEMMA LeaveServes ==
    ASSUME Domains, NEW c \in Connections, NEW op, NEW s, NEW d, DOMAIN s = SessFields,
           IsSeq(down[c]), IsSeq(made[c]), Leave(c, s, d)
    PROVE  /\ Served(c, op, s.heard)
           /\ svc'[c] = "ended" /\ down'[c] = down[c] \o CloseFrame /\ made'[c] = made[c]
<1>1. svc'[c] = "ended" /\ down'[c] = down[c] \o CloseFrame /\ made'[c] = made[c]
  BY DEF Leave, SendDown, Domains
<1>2. sess'[c].heard = s.heard
  BY HeardKept DEF Leave
<1>3. IsSeq(down'[c]) /\ made[c] \o <<>> = made[c] /\ IsSeq(<<>>)
  BY <1>1, SeqConcat, CloseFrameIs, ConcatNone, SeqOfNone
<1>4. ASSUME down[c] = <<>>
      PROVE  CutIn(down'[c], svc'[c], made'[c], Len(made[c]))
  <2>1. down'[c] = CloseFrame /\ Len(made[c]) \in Nat
    BY <1>1, <1>4, ConcatNone, CloseFrameIs, SeqShape
  <2>2. Carries(CloseFrame, made[c], Len(made[c]), 0)
    BY <2>1, CloseFrameIs DEF Carries
  <2> QED BY <1>1, <2>1, <2>2, CloseFrameIs DEF CutIn
<1> QED BY <1>1, <1>2, <1>3, <1>4 DEF Served

LEMMA AwaitServes ==
    ASSUME Domains, NEW c \in Connections, NEW op, NEW what, NEW s, NEW d,
           IsSeq(down[c]), IsSeq(made[c]), Await(c, op, what, s, d)
    PROVE  Served(c, op, s.heard)
<1>1. svc'[c] = op /\ sess'[c] = s /\ down' = down /\ made' = made
  BY DEF Await, Domains
<1>2. made[c] \o <<>> = made[c] /\ IsSeq(<<>>)
  BY ConcatNone, SeqOfNone
<1> QED BY <1>1, <1>2 DEF Served

\* What is sent, whole or cut short, to a client that has read everything else.
LEMMA SendingServes ==
    ASSUME NEW m, NEW all, NEW answer, NEW messages, NEW d, NEW state,
           IsSeq(m), IsSeq(all), IsSeq(messages), Len(messages) = Len(all) + 1,
           \A i \in 1 .. Len(all) : messages[i] = [type |-> "update", update |-> all[i]],
           messages[Len(all) + 1].type \in {"ack", "finished"},
           \/ state = "reading" /\ d = messages
           \/ state = "ended" /\ d = messages \o CloseFrame
           \/ state = "ended" /\ \E n \in 0 .. Len(messages) - 1 : d = SubSeq(messages, 1, n) \o CloseFrame
    PROVE  AnswerIn(d, state, m \o all, Len(m)) \/ CutIn(d, state, m \o all, Len(m))
<1>1. /\ Len(m) \in Nat /\ Len(all) \in Nat /\ Len(m \o all) = Len(m) + Len(all)
      /\ \A i \in 1 .. Len(all) : (m \o all)[Len(m) + i] = all[i]
  BY SeqConcat
<1> DEFINE l == Len(all)
           k == Len(m)
           t == m \o all
<1>2. k \in Nat /\ l \in Nat /\ Len(t) = k + l /\ \A i \in 1 .. l : t[k + i] = all[i]
  BY <1>1
<1>3. ASSUME NEW n \in 0 .. l, n < Len(d), \A i \in 1 .. n : d[i] = messages[i]
      PROVE  Carries(d, t, k, n)
  <2>1. \A i \in 1 .. n : d[i] = [type |-> "update", update |-> t[k + i]]
    BY <1>2, <1>3
  <2> HIDE DEF k, l, t
  <2> QED BY <1>2, <1>3, <2>1 DEF Carries
<1>4. CASE state = "reading" /\ d = messages
  <2>1. Len(d) = l + 1 /\ l \in 0 .. Len(d) /\ l < Len(d)
    BY <1>2, <1>4
  <2>2. Carries(d, t, k, l)
    BY <1>2, <1>3, <1>4, <2>1
  <2>3. d[l + 1].type \in {"ack", "finished"} /\ k + l = Len(t)
    BY <1>2, <1>4
  <2> HIDE DEF k, l, t
  <2>4. AnswerIn(d, state, t, k)
    BY <1>4, <2>1, <2>2, <2>3 DEF AnswerIn
  <2> QED BY <2>4 DEF k, t
<1>5. CASE state = "ended" /\ d = messages \o CloseFrame
  <2>1. /\ Len(d) = Len(messages) + 1 /\ d[Len(messages) + 1] = [type |-> "close"]
        /\ \A i \in 1 .. Len(messages) : d[i] = messages[i]
    BY <1>5, ClosedIs
  <2>0. Len(messages) + 1 = l + 2 /\ Len(messages) = l + 1
    <3>1. Len(messages) = l + 1
      OBVIOUS
    <3>2. l \in Nat
      BY <1>2
    <3> HIDE DEF l
    <3> QED BY <3>1, <3>2
  <2>2. Len(d) = l + 2 /\ d[l + 2] = [type |-> "close"] /\ l \in 0 .. Len(d) /\ l < Len(d)
        /\ l + 1 \in 1 .. Len(messages)
    <3> HIDE DEF l
    <3> QED BY <1>2, <2>0, <2>1
  <2>3. Carries(d, t, k, l)
    BY <1>2, <1>3, <2>1, <2>2
  <2>4. d[l + 1].type \in {"ack", "finished"} /\ k + l = Len(t)
    BY <1>2, <2>1, <2>2
  <2> HIDE DEF k, l, t
  <2>5. AnswerIn(d, state, t, k)
    BY <1>5, <2>2, <2>3, <2>4 DEF AnswerIn
  <2> QED BY <2>5 DEF k, t
<1>6. ASSUME NEW n \in 0 .. Len(messages) - 1, d = SubSeq(messages, 1, n) \o CloseFrame, state = "ended"
      PROVE  CutIn(d, state, t, k)
  <2>1. n \in 0 .. l /\ n \in 0 .. Len(messages) /\ 1 \in 1 .. Len(messages) + 1 /\ 1 <= n + 1
    BY <1>2
  <2>2. /\ IsSeq(SubSeq(messages, 1, n)) /\ Len(SubSeq(messages, 1, n)) = n
        /\ \A i \in 1 .. n : SubSeq(messages, 1, n)[i] = messages[i]
    <3>1. /\ IsSeq(SubSeq(messages, 1, n)) /\ Len(SubSeq(messages, 1, n)) = n - 1 + 1
          /\ \A i \in 1 .. n - 1 + 1 : SubSeq(messages, 1, n)[i] = messages[1 + i - 1]
      BY <2>1, SeqPart
    <3>2. n - 1 + 1 = n /\ \A i \in 1 .. n : 1 + i - 1 = i
      BY <2>1
    <3> QED BY <3>1, <3>2
  <2>3. /\ Len(d) = n + 1 /\ d[n + 1] = [type |-> "close"]
        /\ \A i \in 1 .. n : d[i] = messages[i]
    <3> DEFINE q == SubSeq(messages, 1, n)
    <3> HIDE DEF q
    <3>1. IsSeq(q) /\ Len(q) = n /\ \A i \in 1 .. n : q[i] = messages[i]
      BY <2>2 DEF q
    <3>2. d = q \o CloseFrame
      BY <1>6 DEF q
    <3>3. /\ Len(d) = Len(q) + 1 /\ d[Len(q) + 1] = [type |-> "close"]
          /\ \A i \in 1 .. Len(q) : d[i] = q[i]
      BY <3>1, <3>2, ClosedIs
    <3> QED BY <3>1, <3>3
  <2>4. Carries(d, t, k, n)
    BY <1>3, <2>1, <2>3
  <2> HIDE DEF k, l, t
  <2> QED BY <1>6, <2>1, <2>3, <2>4 DEF CutIn
<1> QED BY <1>4, <1>5, <1>6
LEMMA ReplyServes ==
    ASSUME Domains, NEW c \in Connections, NEW op \in {"pushing", "finishing"}, NEW s, NEW d, NEW updates,
           DOMAIN s = SessFields, IsSeq(updates), IsSeq(down[c]), IsSeq(made[c]),
           Reply(c, op, s, d, updates)
    PROVE  Served(c, op, s.heard)
<1> DEFINE all == IF op = "finishing" THEN FinalUpdates(s.text, updates, Len(s.heard)) ELSE updates
           answer == [type |-> IF op = "finishing" THEN "finished" ELSE "ack",
                      seq |-> Len(s.heard) + (IF op = "finishing" THEN 1 ELSE 0)]
           messages == Append([i \in DOMAIN all |-> [type |-> "update", update |-> all[i]]], answer)
<1>1. IsSeq(all)
  BY FinalIsSeq
<1>2. answer.type \in {"ack", "finished"}
  OBVIOUS
<1>3. /\ made' = [made EXCEPT ![c] = @ \o all]
      /\ \/ /\ svc' = [svc EXCEPT ![c] = IF op = "finishing" THEN "ended" ELSE "reading"]
            /\ SendDown(c, messages \o (IF op = "finishing" THEN CloseFrame ELSE <<>>))
            /\ IF op = "finishing"
               THEN CloseSession(c, s, d)
               ELSE sess' = [sess EXCEPT ![c] = s] /\ dec' = [dec EXCEPT ![c] = d]
         \/ /\ \E n \in 0 .. Len(messages) - 1 : SendDown(c, SubSeq(messages, 1, n) \o CloseFrame)
            /\ svc' = [svc EXCEPT ![c] = "ended"]
            /\ CloseSession(c, s, d)
  BY DEF Reply
<1> HIDE DEF all, answer
<1>4. /\ IsSeq(messages) /\ Len(messages) = Len(all) + 1 /\ Len(all) \in Nat
      /\ \A i \in 1 .. Len(all) : messages[i] = [type |-> "update", update |-> all[i]]
      /\ messages[Len(all) + 1] = answer
  BY <1>1, MessagesAre
<1> HIDE DEF messages
<1>5. made'[c] = made[c] \o all
  BY <1>3 DEF Domains
<1>6. sess'[c].heard = s.heard
  <2>1. CASE CloseSession(c, s, d)
    BY <2>1, HeardKept
  <2>2. CASE sess' = [sess EXCEPT ![c] = s]
    BY <2>2 DEF Domains
  <2> QED BY <1>3, <2>1, <2>2
<1>7. PICK sent :
         /\ IsSeq(sent) /\ down' = [down EXCEPT ![c] = @ \o sent]
         /\ svc'[c] \in {"reading", "ended"} /\ (op = "finishing" => svc'[c] = "ended")
         /\ \/ svc'[c] = "reading" /\ sent = messages
            \/ svc'[c] = "ended" /\ sent = messages \o CloseFrame
            \/ svc'[c] = "ended" /\ \E n \in 0 .. Len(messages) - 1 : sent = SubSeq(messages, 1, n) \o CloseFrame
  <2>1. ASSUME op # "finishing", svc' = [svc EXCEPT ![c] = "reading"], SendDown(c, messages \o <<>>)
        PROVE  svc'[c] = "reading" /\ down' = [down EXCEPT ![c] = @ \o messages]
    <3>1. messages \o <<>> = messages
      BY <1>4, ConcatNone
    <3> QED BY <2>1, <3>1 DEF SendDown, Domains
  <2>2. ASSUME svc' = [svc EXCEPT ![c] = "ended"], SendDown(c, messages \o CloseFrame)
        PROVE  /\ svc'[c] = "ended" /\ down' = [down EXCEPT ![c] = @ \o (messages \o CloseFrame)]
               /\ IsSeq(messages \o CloseFrame)
    BY <1>4, <2>2, ClosedIs DEF SendDown, Domains
  <2>3. ASSUME svc' = [svc EXCEPT ![c] = "ended"], NEW n \in 0 .. Len(messages) - 1,
               SendDown(c, SubSeq(messages, 1, n) \o CloseFrame)
        PROVE  /\ svc'[c] = "ended" /\ down' = [down EXCEPT ![c] = @ \o (SubSeq(messages, 1, n) \o CloseFrame)]
               /\ IsSeq(SubSeq(messages, 1, n) \o CloseFrame)
    <3>1. IsSeq(SubSeq(messages, 1, n))
      <4>1. n \in 0 .. Len(messages) /\ 1 \in 1 .. Len(messages) + 1 /\ 1 <= n + 1
        BY <1>4
      <4> QED BY <1>4, <4>1, SeqPart
    <3> QED BY <2>3, <3>1, ClosedIs DEF SendDown, Domains
  <2>4. CASE /\ svc' = [svc EXCEPT ![c] = IF op = "finishing" THEN "ended" ELSE "reading"]
             /\ SendDown(c, messages \o (IF op = "finishing" THEN CloseFrame ELSE <<>>))
    BY <1>4, <2>1, <2>2, <2>4
  <2>5. CASE /\ \E n \in 0 .. Len(messages) - 1 : SendDown(c, SubSeq(messages, 1, n) \o CloseFrame)
             /\ svc' = [svc EXCEPT ![c] = "ended"]
    BY <2>3, <2>5
  <2> QED BY <1>3, <2>4, <2>5
<1>8. down'[c] = down[c] \o sent /\ IsSeq(down'[c])
  BY <1>7, SeqConcat DEF Domains
<1>9. ASSUME down[c] = <<>>
      PROVE  \/ AnswerIn(down'[c], svc'[c], made'[c], Len(made[c]))
             \/ CutIn(down'[c], svc'[c], made'[c], Len(made[c]))
  <2>1. down'[c] = sent
    BY <1>7, <1>8, <1>9, ConcatNone
  <2>2. messages[Len(all) + 1].type \in {"ack", "finished"}
    BY <1>2, <1>4
  <2>3. AnswerIn(sent, svc'[c], made[c] \o all, Len(made[c])) \/ CutIn(sent, svc'[c], made[c] \o all, Len(made[c]))
    BY <1>1, <1>4, <1>7, <2>2, SendingServes
  <2> QED BY <1>5, <2>1, <2>3
<1> QED BY <1>1, <1>5, <1>6, <1>7, <1>8, <1>9 DEF Served

LEMMA RollingServes ==
    ASSUME Domains, NEW c \in Connections, NEW op \in {"pushing", "finishing"}, NEW s, NEW d,
           DOMAIN s = SessFields, IsSeq(down[c]), IsSeq(made[c]), RollingUpdate(c, op, s, d)
    PROVE  Served(c, op, s.heard)
<1> DEFINE ring == Min2(s.received, Window)
           t == [s EXCEPT !.exhausted = TRUE]
           u == [s EXCEPT !.calls = @ + 1, !.audio = @ + ring]
<1>1. \/ Reply(c, op, s, d, <<>>)
      \/ Reply(c, op, t, d, <<>>)
      \/ Await(c, op, "queue", u, d)
  BY DEF RollingUpdate
<1>2. DOMAIN t = SessFields /\ t.heard = s.heard
  BY DEF SessFields
<1>3. DOMAIN u = SessFields /\ u.heard = s.heard
  BY DEF SessFields
<1> HIDE DEF t, u
<1>4. IsSeq(<<>>)
  BY SeqOfNone
<1>5. CASE Reply(c, op, s, d, <<>>)
  BY <1>4, <1>5, ReplyServes
<1>6. CASE Reply(c, op, t, d, <<>>)
  BY <1>2, <1>4, <1>6, ReplyServes
<1>7. CASE Await(c, op, "queue", u, d)
  BY <1>3, <1>7, AwaitServes
<1> QED BY <1>1, <1>5, <1>6, <1>7

LEMMA ConsumeServes ==
    ASSUME Domains, NEW c \in Connections, NEW op \in {"pushing", "finishing"}, NEW s, NEW d, NEW units,
           DOMAIN s = SessFields, IsSeq(down[c]), IsSeq(made[c]), ConsumePcm(c, op, s, d, units)
    PROVE  Served(c, op, s.heard)
<1> DEFINE t == [s EXCEPT !.received = @ + units]
           u == [t EXCEPT !.rolled = t.received]
<1>1. RollingUpdate(c, op, u, d) \/ Reply(c, op, t, d, <<>>)
  BY DEF ConsumePcm
<1>2. /\ DOMAIN t = SessFields /\ t.heard = s.heard
      /\ DOMAIN u = SessFields /\ u.heard = s.heard
  BY DEF SessFields
<1> HIDE DEF t, u
<1> QED BY <1>1, <1>2, SeqOfNone, ReplyServes, RollingServes
\* Nothing on the two sockets, and nothing a session has heard, is anything
\* but a sequence.
Seqs(c) ==
    /\ IsSeq(up[c]) /\ IsSeq(down[c]) /\ IsSeq(made[c])
    /\ IsSeq(frames[c]) /\ IsSeq(out[c]) /\ IsSeq(sess[c].heard)

Takes(c, type) ==
    /\ svc[c] = "reading" /\ up[c] # <<>> /\ up[c][1].type = type
    /\ up'[c] = Tail(up[c])
Leaves(c) ==
    /\ svc'[c] = "ended" /\ down'[c] = down[c] \o CloseFrame /\ made'[c] = made[c]
    /\ sess'[c].heard = sess[c].heard

\* All that a step of the service does on the sockets of c.
Does(c) ==
    \/ Takes(c, "frame") /\ Served(c, "pushing", Append(sess[c].heard, up[c][1].frame))
    \/ Takes(c, "end") /\ Served(c, "finishing", sess[c].heard)
    \/ Takes(c, "close") /\ Leaves(c)
    \/ /\ svc[c] \in {"pushing", "finishing"} /\ up'[c] = up[c]
       /\ Served(c, svc[c], sess[c].heard)
    \/ svc[c] \in {"opening", "reading", "pushing", "finishing"} /\ up'[c] = up[c] /\ Leaves(c)
    \/ /\ svc[c] = "opening" /\ svc'[c] = "reading" /\ up'[c] = Tail(up[c])
       /\ down'[c] = down[c] \o <<[type |-> "started"]>> /\ made'[c] = made[c]
       /\ sess'[c].heard = <<>>
    \/ /\ svc'[c] = svc[c] /\ up'[c] = up[c] /\ down'[c] = down[c] /\ made'[c] = made[c]
       /\ sess'[c].heard = sess[c].heard

LEMMA ReadsTakes ==
    ASSUME Domains, NEW c \in Connections, NEW type, IsSeq(up[c]), SvcReads(c, type)
    PROVE  Takes(c, type) /\ Head(up[c]) = up[c][1]
<1>1. /\ svc[c] = "reading" /\ up[c] # <<>> /\ Head(up[c]).type = type
      /\ up' = [up EXCEPT ![c] = Tail(@)]
  BY DEF SvcReads
<1>2. Head(up[c]) = up[c][1]
  BY <1>1, SeqTail
<1>3. up'[c] = Tail(up[c])
  BY <1>1 DEF Domains
<1> QED BY <1>1, <1>2, <1>3 DEF Takes

LEMMA PushServes ==
    ASSUME Domains, NEW c \in Connections, Session(c), Seqs(c), SvcPush(c)
    PROVE  Does(c)
<1> DEFINE frame == Head(up[c]).frame
           s     == [sess[c] EXCEPT !.heard = Append(@, frame)]
           next  == FeedOgg(s.ogg, frame)
           whole == next.pages - s.ogg.pages
           t     == [s EXCEPT !.ogg = next]
           d     == dec[c]
           fed   == [d EXCEPT !.proc = IF @ = "none" THEN "running" ELSE @, !.fed = @ + whole]
           heard == Append(sess[c].heard, frame)
<1>1. SvcReads(c, "frame")
  BY DEF SvcPush
<1>2. Takes(c, "frame") /\ frame = up[c][1].frame
  BY <1>1, ReadsTakes DEF Seqs
<1>3. \/ ConsumePcm(c, "pushing", s, d, 1)
      \/ Leave(c, t, d)
      \/ Reply(c, "pushing", t, d, <<>>)
      \/ Await(c, "pushing", "drain", t, fed)
  BY DEF SvcPush
<1> HIDE DEF frame
<1>4. DOMAIN s = SessFields /\ s.heard = heard
  BY DEF Session, Kept, SessFields
<1> HIDE DEF whole, next, s
<1>5. DOMAIN t = SessFields /\ t.heard = heard
  BY <1>4 DEF SessFields
<1> HIDE DEF t, d, fed, heard
<1>6. IsSeq(down[c]) /\ IsSeq(made[c]) /\ IsSeq(<<>>)
  BY SeqOfNone DEF Seqs
<1>7. Served(c, "pushing", heard)
  <2>1. CASE ConsumePcm(c, "pushing", s, d, 1)
    BY <1>4, <1>6, <2>1, ConsumeServes
  <2>2. CASE Leave(c, t, d)
    BY <1>5, <1>6, <2>2, LeaveServes
  <2>3. CASE Reply(c, "pushing", t, d, <<>>)
    BY <1>5, <1>6, <2>3, ReplyServes
  <2>4. CASE Await(c, "pushing", "drain", t, fed)
    BY <1>5, <1>6, <2>4, AwaitServes
  <2> QED BY <1>3, <2>1, <2>2, <2>3, <2>4
<1> QED BY <1>2, <1>7 DEF Does, heard

LEMMA FinishServes ==
    ASSUME Domains, NEW c \in Connections, Session(c), Seqs(c), SvcFinish(c)
    PROVE  Does(c)
<1> DEFINE s   == sess[c]
           d   == dec[c]
           eof == [d EXCEPT !.proc = IF @ = "running" THEN "eof" ELSE @]
<1>1. SvcReads(c, "end")
  BY DEF SvcFinish
<1>2. Takes(c, "end")
  BY <1>1, ReadsTakes DEF Seqs
<1>3. \/ ConsumePcm(c, "finishing", s, d, 0)
      \/ Leave(c, s, d)
      \/ Await(c, "finishing", "exit", s, eof)
  BY DEF SvcFinish
<1>4. DOMAIN s = SessFields /\ IsSeq(down[c]) /\ IsSeq(made[c])
  BY DEF Session, Kept, Seqs
<1> HIDE DEF s, d, eof
<1>5. Served(c, "finishing", s.heard)
  <2>1. CASE ConsumePcm(c, "finishing", s, d, 0)
    BY <1>4, <2>1, ConsumeServes
  <2>2. CASE Leave(c, s, d)
    BY <1>4, <2>2, LeaveServes
  <2>3. CASE Await(c, "finishing", "exit", s, eof)
    BY <1>4, <2>3, AwaitServes
  <2> QED BY <1>3, <2>1, <2>2, <2>3
<1> QED BY <1>2, <1>5 DEF Does, s

\* What an operation awaited has come, failed or run out of time.
LEMMA WorkServes ==
    ASSUME Domains, NEW c \in Connections, Session(c), Seqs(c),
           \/ Drained(c) \/ DrainFails(c) \/ DecoderExits(c) \/ DecoderExpires(c) \/ CallExpires(c)
           \/ \E words \in Hypotheses : CallReturns(c, words)
    PROVE  Does(c)
<1>1. DOMAIN sess[c] = SessFields /\ IsSeq(down[c]) /\ IsSeq(made[c]) /\ IsSeq(<<>>)
  BY SeqOfNone DEF Session, Kept, Seqs
<1>2. wait[c] # "none" /\ UNCHANGED up
  BY DEF Drained, DrainFails, DecoderExits, DecoderExpires, CallExpires, CallReturns
<1>3. svc[c] \in {"pushing", "finishing"} /\ up'[c] = up[c]
  BY <1>2 DEF Session
<1>4. \/ \E d, units : ConsumePcm(c, svc[c], sess[c], d, units)
      \/ \E d : Leave(c, sess[c], d)
      \/ Reply(c, svc[c], sess[c], dec[c], <<>>)
      \/ \E words \in Hypotheses : CallReturns(c, words)
  <2>1. CASE Drained(c)
    BY <2>1 DEF Drained, Session
  <2>2. CASE DecoderExits(c)
    BY <2>2 DEF DecoderExits, Session
  <2>3. CASE CallExpires(c)
    BY <2>3 DEF CallExpires
  <2>4. CASE DrainFails(c) \/ DecoderExpires(c)
    BY <2>4 DEF DrainFails, DecoderExpires
  <2> QED BY <2>1, <2>2, <2>3, <2>4
<1>5. Served(c, svc[c], sess[c].heard)
  <2>1. ASSUME NEW d, NEW units, ConsumePcm(c, svc[c], sess[c], d, units)
        PROVE  Served(c, svc[c], sess[c].heard)
    BY <1>1, <1>3, <2>1, ConsumeServes
  <2>2. ASSUME NEW d, Leave(c, sess[c], d)
        PROVE  Served(c, svc[c], sess[c].heard)
    BY <1>1, <2>2, LeaveServes
  <2>3. CASE Reply(c, svc[c], sess[c], dec[c], <<>>)
    BY <1>1, <1>3, <2>3, ReplyServes
  <2>4. ASSUME NEW words \in Hypotheses, CallReturns(c, words)
        PROVE  Served(c, svc[c], sess[c].heard)
    <3> DEFINE r == StableUpdates(sess[c].text, words, Len(sess[c].heard))
               t == [sess[c] EXCEPT !.text = r.text]
    <3>1. Reply(c, svc[c], t, dec[c], r.updates)
      BY <2>4 DEF CallReturns
    <3>2. IsSeq(r.updates)
      BY StableIsSeq
    <3> HIDE DEF r
    <3>3. DOMAIN t = SessFields /\ t.heard = sess[c].heard
      BY <1>1 DEF SessFields
    <3> HIDE DEF t
    <3> QED BY <1>1, <1>3, <3>1, <3>2, <3>3, ReplyServes
  <2> QED BY <1>4, <2>1, <2>2, <2>3, <2>4
<1> QED BY <1>3, <1>5 DEF Does

LEMMA EndServes ==
    ASSUME Domains, NEW c \in Connections, Session(c), Seqs(c),
           SvcExpires(c) \/ SvcDisconnected(c) \/ SvcOpen(c) \/ SvcRefuses(c)
    PROVE  Does(c)
<1>1. DOMAIN sess[c] = SessFields /\ IsSeq(down[c]) /\ IsSeq(made[c])
  BY DEF Session, Kept, Seqs
<1>2. ASSUME NEW d, Leave(c, sess[c], d)
      PROVE  Leaves(c)
  BY <1>1, <1>2, LeaveServes DEF Leaves, Served
<1>3. CASE SvcExpires(c)
  <2>1. /\ svc[c] \in {"reading", "pushing", "finishing"} /\ up'[c] = up[c]
        /\ \E d : Leave(c, sess[c], d)
    BY <1>3 DEF SvcExpires, SlotTaken
  <2> QED BY <1>2, <2>1 DEF Does
<1>4. CASE SvcDisconnected(c)
  <2>1. SvcReads(c, "close") /\ Leave(c, sess[c], dec[c])
    BY <1>4 DEF SvcDisconnected
  <2>2. Takes(c, "close")
    BY <2>1, ReadsTakes DEF Seqs
  <2> QED BY <1>2, <2>1, <2>2 DEF Does
<1>5. CASE SvcOpen(c)
  <2>1. /\ svc[c] = "opening" /\ svc' = [svc EXCEPT ![c] = "reading"]
        /\ sess' = [sess EXCEPT ![c] = NewSession(Head(up[c]).codec)]
        /\ up' = [up EXCEPT ![c] = Tail(@)]
        /\ SendDown(c, <<[type |-> "started"]>>) /\ UNCHANGED made
    BY <1>5 DEF SvcOpen
  <2>2. /\ svc'[c] = "reading" /\ up'[c] = Tail(up[c]) /\ made'[c] = made[c]
        /\ down'[c] = down[c] \o <<[type |-> "started"]>>
    BY <2>1 DEF Domains, SendDown
  <2>3. sess'[c].heard = <<>>
    BY <2>1 DEF Domains, NewSession
  <2> QED BY <2>1, <2>2, <2>3 DEF Does
<1>6. CASE SvcRefuses(c)
  <2>1. svc[c] = "opening" /\ svc' = [svc EXCEPT ![c] = "ended"] /\ SendDown(c, CloseFrame)
        /\ UNCHANGED <<up, sess, made>>
    BY <1>6 DEF SvcRefuses
  <2>2. Leaves(c) /\ up'[c] = up[c]
    BY <2>1 DEF Domains, SendDown, Leaves
  <2> QED BY <2>1, <2>2 DEF Does
<1> QED BY <1>3, <1>4, <1>5, <1>6

LEMMA ServiceDoes ==
    ASSUME Domains, NEW c \in Connections, Session(c), Seqs(c), ServiceNext(c)
    PROVE  Does(c)
<1>1. ASSUME CallStarts(c) \/ StrayEnds(c) \/ FfmpegDecodes(c) \/ FfmpegFails(c) \/ FfmpegExits(c)
      PROVE  Does(c)
  <2>1. UNCHANGED <<svc, up, down, sess, made>>
    BY <1>1 DEF CallStarts, StrayEnds, FfmpegDecodes, FfmpegFails, FfmpegExits, Ffmpeg
  <2> QED BY <2>1 DEF Does
<1> QED BY <1>1, PushServes, FinishServes, WorkServes, EndServes DEF ServiceNext

-----------------------------------------------------------------------------
(* The two sockets together *)

\* A frame is on its way to the service, the next it reads.
Waits(c) == up[c] # <<>> /\ up[c][1].type = "frame"
\* What was kept for the analysis is what the service has heard and the frame
\* on its way to it.
UpFits(c) ==
    /\ \A i \in 2 .. Len(up[c]) : up[c][i].type # "frame"
    /\ frames[c] = IF Waits(c) THEN Append(sess[c].heard, up[c][1].frame) ELSE sess[c].heard
    /\ svc[c] = "none" => cl[c] = "none" /\ up[c] = <<>>
    /\ svc[c] = "opening" => up[c] # <<>> /\ up[c][1].type = "start"
    /\ svc[c] \in {"none", "opening"} => sess[c].heard = <<>> /\ made[c] = <<>> /\ down[c] = <<>>

\* Nothing to read but the close of a service that left.
Idle(c) ==
    /\ svc[c] \in {"reading", "ended"} /\ Seen(out[c]) = Len(made[c])
    /\ down[c] # <<>> => svc[c] = "ended" /\ down[c] = CloseFrame

Answer(c) == AnswerIn(down[c], svc[c], made[c], Seen(out[c]))
Cut(c)    == CutIn(down[c], svc[c], made[c], Seen(out[c]))

\* A push or a finish: it is not read yet, is being served, or is answered.
Exchange(c, op, message) ==
    \/ Len(up[c]) = 1 /\ up[c][1].type = message /\ Idle(c)
    \/ /\ up[c] = <<>> /\ svc[c] = op
       /\ down[c] = <<>> /\ Seen(out[c]) = Len(made[c])
    \/ up[c] = <<>> /\ (Answer(c) \/ Cut(c)) /\ (op = "finishing" => svc[c] = "ended")

\* The same for the start.
Opening(c) ==
    /\ made[c] = <<>> /\ frames[c] = <<>>
    /\ \/ svc[c] = "opening" /\ Len(up[c]) = 1
       \/ svc[c] = "reading" /\ up[c] = <<>> /\ down[c] = <<[type |-> "started"]>>
       \/ svc[c] = "ended" /\ up[c] = <<>> /\ down[c] = <<[type |-> "started"]>> \o CloseFrame
       \/ svc[c] = "ended" /\ down[c] = CloseFrame

\* What each phase of the handler has before it.
Phase(c) ==
    /\ c \in closer => api[c] = "ended"
    /\ api[c] \in {"new", "starting", "opening"} => out[c] = <<>>
    /\ api[c] = "opening" => Opening(c)
    /\ api[c] = "receiving" =>
          cl[c] = "open" /\ up[c] = <<>> /\ Idle(c) /\ Acked(out[c]) = Len(frames[c])
    /\ api[c] = "pushing" =>
          /\ cl[c] \in {"open", "failing"}
          /\ cl[c] = "open" => Exchange(c, "pushing", "frame") /\ Acked(out[c]) + 1 = Len(frames[c])
    /\ api[c] = "finishing" =>
          /\ cl[c] \in {"open", "failing", "closing"}
          /\ Acked(out[c]) = Len(frames[c])
          /\ cl[c] = "open" => Exchange(c, "finishing", "end")
          /\ cl[c] = "closing" => svc[c] = "ended" /\ ~Waits(c) /\ Answer(c)
    /\ api[c] = "analyzing" =>
          /\ svc[c] = "ended" /\ ~Waits(c)
          /\ Acked(out[c]) = Len(frames[c]) /\ Seen(out[c]) = Len(made[c])

\* What the browser was told.
Story(c) ==
    /\ TellsMade(out[c], made[c]) /\ AcksInOrder(out[c])
    /\ Acked(out[c]) <= Len(sess[c].heard)
    /\ api[c] \notin {"releasing", "ended"} => GoesOn(out[c])
    /\ \A i \in DOMAIN out[c] : out[c][i].type \in LastWords => i = Len(out[c])
    /\ \A i \in DOMAIN out[c] : out[c][i].type = "reconciled" =>
          /\ svc[c] = "ended" /\ ~Waits(c) /\ out[c][i].frames = frames[c] 
          /\ Acked(out[c]) = Len(frames[c]) /\ Seen(out[c]) = Len(made[c])

Ok(c) == Seqs(c) /\ UpFits(c) /\ Phase(c) /\ Story(c)

LEMMA TailWaits ==
    ASSUME NEW c, Seqs(c), UpFits(c), up[c] # <<>>, up'[c] = Tail(up[c])
    PROVE  /\ IsSeq(up'[c]) /\ ~Waits(c)' /\ \A i \in 2 .. Len(up'[c]) : up'[c][i].type # "frame"
           /\ Len(up[c]) = 1 => up'[c] = <<>>
<1> DEFINE s == up[c]
           t == Tail(s)
<1>1. IsSeq(s) /\ s # <<>> /\ \A i \in 2 .. Len(s) : s[i].type # "frame"
  BY DEF Seqs, UpFits
<1> HIDE DEF s
<1>2. /\ IsSeq(t) /\ Len(s) \in Nat \ {0} /\ Len(t) = Len(s) - 1
      /\ \A i \in 1 .. Len(t) : t[i] = s[i + 1]
  BY <1>1, SeqTail
<1>3. t # <<>> <=> Len(t) > 0
  BY <1>2, SeqShape
<1> HIDE DEF t
<1>4. \A i \in 1 .. Len(t) : t[i].type # "frame"
  <2>1. ASSUME NEW i \in 1 .. Len(t) PROVE i + 1 \in 2 .. Len(s)
    BY <1>2
  <2> QED BY <1>1, <1>2, <2>1
<1>5. t # <<>> => t[1].type # "frame"
  BY <1>2, <1>3, <1>4
<1>6. Len(s) = 1 => t = <<>>
  BY <1>2, <1>3
<1>7. \A i \in 2 .. Len(t) : t[i].type # "frame"
  BY <1>2, <1>4
<1>8. up'[c] = t
  BY DEF t, s
<1> QED BY <1>2, <1>5, <1>6, <1>7, <1>8 DEF Waits, s

\* The service does something: what it made grows, and so does what it heard.
LEMMA StoryGoesOn ==
    ASSUME NEW c, UNCHANGED edge, Seqs(c), Story(c), svc[c] # "ended",
           NEW all, IsSeq(all), made'[c] = made[c] \o all,
           Len(sess[c].heard) <= Len(sess'[c].heard), Len(sess'[c].heard) \in Nat
    PROVE  Story(c)'
<1>1. UNCHANGED <<api, frames, out>>
  BY DEF edge
<1>2. TellsMade(out[c], made'[c])
  BY MoreMade DEF Seqs, Story
<1>3. Acked(out[c]) \in Nat /\ Len(sess[c].heard) \in Nat
  BY Counts, SeqShape DEF Seqs
<1>4. Acked(out[c]) <= Len(sess'[c].heard)
  BY <1>3 DEF Story
<1>5. \A i \in DOMAIN out[c] : out[c][i].type # "reconciled"
  BY DEF Story
<1> QED BY <1>1, <1>2, <1>4, <1>5 DEF Story

\* Nothing had been left to read: an operation that is served goes on or is
\* answered.
LEMMA ExchangeServed ==
    ASSUME NEW c, NEW op, NEW message, NEW h, out' = out, Served(c, op, h),
           down[c] = <<>>, Seen(out[c]) = Len(made[c]), up'[c] = <<>>
    PROVE  Exchange(c, op, message)'
<1>1. CASE svc'[c] = op /\ down'[c] = down[c] /\ made'[c] = made[c]
  BY <1>1 DEF Exchange
<1>2. CASE /\ op = "finishing" => svc'[c] = "ended"
           /\ \/ AnswerIn(down'[c], svc'[c], made'[c], Len(made[c]))
              \/ CutIn(down'[c], svc'[c], made'[c], Len(made[c]))
  BY <1>2 DEF Exchange, Answer, Cut
<1> QED BY <1>1, <1>2 DEF Served

LEMMA ServedMakes ==
    ASSUME NEW c, NEW op, NEW h, Served(c, op, h), IsSeq(made[c])
    PROVE  /\ sess'[c].heard = h /\ IsSeq(down'[c]) /\ IsSeq(made'[c])
           /\ svc'[c] \in {op, "reading", "ended"}
           /\ \E all : IsSeq(all) /\ made'[c] = made[c] \o all
BY SeqConcat DEF Served

LEMMA FrameTakenFits ==
    ASSUME NEW c \in Connections, UNCHANGED edge, Fresh(c), Ok(c), Takes(c, "frame"),
           Served(c, "pushing", Append(sess[c].heard, up[c][1].frame))
    PROVE  Ok(c)'
<1> DEFINE heard == Append(sess[c].heard, up[c][1].frame)
<1>1. /\ UNCHANGED <<api, cl, frames, out, closer>>
      /\ svc[c] = "reading" /\ up[c] # <<>> /\ up[c][1].type = "frame" /\ up'[c] = Tail(up[c])
  BY DEF Takes, edge
<1>2. /\ IsSeq(up'[c]) /\ ~Waits(c)' /\ \A i \in 2 .. Len(up'[c]) : up'[c][i].type # "frame"
      /\ Len(up[c]) = 1 => up'[c] = <<>>
  BY <1>1, TailWaits DEF Ok
<1>3. /\ sess'[c].heard = heard /\ IsSeq(down'[c]) /\ IsSeq(made'[c])
      /\ svc'[c] \in {"pushing", "reading", "ended"}
      /\ \E all : IsSeq(all) /\ made'[c] = made[c] \o all
  BY ServedMakes DEF Ok, Seqs
<1>4. IsSeq(heard) /\ Len(heard) = Len(sess[c].heard) + 1 /\ Len(sess[c].heard) \in Nat
  BY SeqAppend DEF Ok, Seqs
<1>5. frames[c] = heard
  BY <1>1 DEF Ok, UpFits, Waits
<1> HIDE DEF heard
<1>6. Seqs(c)'
  BY <1>1, <1>2, <1>3, <1>4 DEF Ok, Seqs
<1>7. UpFits(c)'
  BY <1>1, <1>2, <1>3, <1>5 DEF UpFits
<1>8. Story(c)'
  <2>1. PICK all : IsSeq(all) /\ made'[c] = made[c] \o all
    BY <1>3
  <2>2. Len(sess[c].heard) <= Len(sess'[c].heard) /\ Len(sess'[c].heard) \in Nat
    BY <1>3, <1>4
  <2>3. Seqs(c) /\ Story(c) /\ svc[c] # "ended"
    BY <1>1 DEF Ok
  <2> QED BY <2>1, <2>2, <2>3, StoryGoesOn
<1>9. Phase(c)'
  <2>1. api[c] \notin {"new", "starting", "opening", "receiving", "analyzing"}
    BY <1>1 DEF Fresh, Ok, Phase, Opening
  <2>2. ASSUME api[c] = "pushing", cl[c] = "open"
        PROVE  Exchange(c, "pushing", "frame")'
    <3>1. Len(up[c]) = 1 /\ Idle(c)
      BY <1>1, <2>2 DEF Ok, Phase, Exchange
    <3>2. down[c] = <<>> /\ Seen(out[c]) = Len(made[c]) /\ up'[c] = <<>>
      BY <1>1, <1>2, <3>1 DEF Idle
    <3> QED BY <1>1, <3>2, ExchangeServed
  <2>3. ~(api[c] = "finishing" /\ cl[c] \in {"open", "closing"})
    BY <1>1 DEF Ok, Phase, Exchange
  <2> QED BY <1>1, <2>1, <2>2, <2>3 DEF Ok, Phase
<1> QED BY <1>6, <1>7, <1>8, <1>9 DEF Ok

LEMMA EndTakenFits ==
    ASSUME NEW c \in Connections, UNCHANGED edge, Fresh(c), Ok(c), Takes(c, "end"),
           Served(c, "finishing", sess[c].heard)
    PROVE  Ok(c)'
<1>1. /\ UNCHANGED <<api, cl, frames, out, closer>>
      /\ svc[c] = "reading" /\ up[c] # <<>> /\ up[c][1].type = "end" /\ up'[c] = Tail(up[c])
  BY DEF Takes, edge
<1>2. /\ IsSeq(up'[c]) /\ ~Waits(c)' /\ \A i \in 2 .. Len(up'[c]) : up'[c][i].type # "frame"
      /\ Len(up[c]) = 1 => up'[c] = <<>>
  BY <1>1, TailWaits DEF Ok
<1>3. /\ sess'[c].heard = sess[c].heard /\ IsSeq(down'[c]) /\ IsSeq(made'[c])
      /\ svc'[c] \in {"finishing", "reading", "ended"}
      /\ \E all : IsSeq(all) /\ made'[c] = made[c] \o all
  BY ServedMakes DEF Ok, Seqs
<1>4. Len(sess[c].heard) \in Nat
  BY SeqShape DEF Ok, Seqs
<1>5. frames[c] = sess[c].heard
  BY <1>1 DEF Ok, UpFits, Waits
<1>6. Seqs(c)'
  BY <1>1, <1>2, <1>3 DEF Ok, Seqs
<1>7. UpFits(c)'
  BY <1>1, <1>2, <1>3, <1>5 DEF UpFits
<1>8. Story(c)'
  <2>1. PICK all : IsSeq(all) /\ made'[c] = made[c] \o all
    BY <1>3
  <2>2. Len(sess[c].heard) <= Len(sess'[c].heard) /\ Len(sess'[c].heard) \in Nat
    BY <1>3, <1>4
  <2>3. Seqs(c) /\ Story(c) /\ svc[c] # "ended"
    BY <1>1 DEF Ok
  <2> QED BY <2>1, <2>2, <2>3, StoryGoesOn
<1>9. Phase(c)'
  <2>1. api[c] \notin {"new", "starting", "opening", "receiving", "analyzing"}
    BY <1>1 DEF Fresh, Ok, Phase, Opening
  <2>2. ASSUME api[c] = "finishing", cl[c] = "open"
        PROVE  Exchange(c, "finishing", "end")'
    <3>1. Len(up[c]) = 1 /\ Idle(c)
      BY <1>1, <2>2 DEF Ok, Phase, Exchange
    <3>2. down[c] = <<>> /\ Seen(out[c]) = Len(made[c]) /\ up'[c] = <<>>
      BY <1>1, <1>2, <3>1 DEF Idle
    <3> QED BY <1>1, <3>2, ExchangeServed
  <2>3. ~(api[c] = "finishing" /\ cl[c] = "closing") /\ ~(api[c] = "pushing" /\ cl[c] = "open")
    BY <1>1 DEF Ok, Phase, Exchange
  <2> QED BY <1>1, <2>1, <2>2, <2>3 DEF Ok, Phase
<1> QED BY <1>6, <1>7, <1>8, <1>9 DEF Ok
\* What is answered is answered, and the service goes back to reading or ends.
LEMMA AnsweredIs ==
    ASSUME NEW c, Answer(c) \/ Cut(c)
    PROVE  svc[c] \in {"reading", "ended"} /\ (Cut(c) => svc[c] = "ended")
BY DEF Answer, Cut, AnswerIn, CutIn

LEMMA WorkFits ==
    ASSUME NEW c \in Connections, UNCHANGED edge, Fresh(c), Ok(c),
           svc[c] \in {"pushing", "finishing"}, up'[c] = up[c], Served(c, svc[c], sess[c].heard)
    PROVE  Ok(c)'
<1>1. UNCHANGED <<api, cl, frames, out, closer>>
  BY DEF edge
<1>2. /\ sess'[c].heard = sess[c].heard /\ IsSeq(down'[c]) /\ IsSeq(made'[c])
      /\ svc'[c] \in {"pushing", "finishing", "reading", "ended"}
      /\ \E all : IsSeq(all) /\ made'[c] = made[c] \o all
  <2>1. CASE svc[c] = "pushing"
    BY <2>1, ServedMakes DEF Ok, Seqs
  <2>2. CASE svc[c] = "finishing"
    BY <2>2, ServedMakes DEF Ok, Seqs
  <2> QED BY <2>1, <2>2
<1>3. Len(sess[c].heard) \in Nat
  BY SeqShape DEF Ok, Seqs
<1>4. Waits(c)' = Waits(c)
  BY DEF Waits
<1>5. Seqs(c)'
  BY <1>1, <1>2 DEF Ok, Seqs
<1>6. UpFits(c)'
  BY <1>1, <1>2, <1>4 DEF Ok, UpFits
<1>7. Story(c)'
  <2>1. PICK all : IsSeq(all) /\ made'[c] = made[c] \o all
    BY <1>2
  <2>2. Len(sess[c].heard) <= Len(sess'[c].heard) /\ Len(sess'[c].heard) \in Nat
    BY <1>2, <1>3
  <2>3. Seqs(c) /\ Story(c) /\ svc[c] # "ended"
    BY DEF Ok
  <2> QED BY <2>1, <2>2, <2>3, StoryGoesOn
<1>8. Phase(c)'
  <2>1. api[c] \notin {"new", "starting", "opening", "receiving", "analyzing"}
    BY DEF Fresh, Ok, Phase, Opening, Idle
  <2>2. ~(api[c] = "finishing" /\ cl[c] = "closing")
    BY DEF Ok, Phase
  <2>3. ASSUME NEW op \in {"pushing", "finishing"}, NEW message, Exchange(c, op, message)
        PROVE  Exchange(c, op, message)'
    <3>1. svc[c] = op /\ up[c] = <<>> /\ down[c] = <<>> /\ Seen(out[c]) = Len(made[c])
      BY <2>3, AnsweredIs DEF Exchange, Idle
    <3>2. Served(c, op, sess[c].heard)
      BY <3>1
    <3>3. PICK h : h = sess[c].heard
      OBVIOUS
    <3> QED BY <1>1, <3>1, <3>2, <3>3, ExchangeServed
  <2>4. ASSUME api[c] = "pushing", cl[c] = "open" PROVE Exchange(c, "pushing", "frame")'
    <3>1. Exchange(c, "pushing", "frame")
      BY <2>4 DEF Ok, Phase
    <3> QED BY <2>3, <3>1
  <2>5. ASSUME api[c] = "finishing", cl[c] = "open" PROVE Exchange(c, "finishing", "end")'
    <3>1. Exchange(c, "finishing", "end")
      BY <2>5 DEF Ok, Phase
    <3> QED BY <2>3, <3>1
  <2> QED BY <1>1, <2>1, <2>2, <2>4, <2>5 DEF Ok, Phase
<1> QED BY <1>5, <1>6, <1>7, <1>8 DEF Ok

\* The service leaves, whatever it was at.
LEMMA CloseAnswers ==
    ASSUME NEW c, Seqs(c), out' = out, made'[c] = made[c], svc'[c] = "ended",
           down'[c] = down[c] \o CloseFrame
    PROVE  /\ IsSeq(down'[c])
           /\ down[c] = <<>> => down'[c] = CloseFrame
           /\ down[c] = <<>> /\ Seen(out[c]) = Len(made[c]) => Cut(c)'
           /\ svc[c] = "reading" /\ Answer(c) => Answer(c)'
<1>1. IsSeq(down[c]) /\ IsSeq(made[c]) /\ IsSeq(CloseFrame)
  BY CloseFrameIs DEF Seqs
<1>2. /\ IsSeq(down'[c]) /\ Len(down[c]) \in Nat /\ Len(down'[c]) = Len(down[c]) + 1
      /\ \A i \in 1 .. Len(down[c]) : down'[c][i] = down[c][i]
      /\ down'[c][Len(down[c]) + 1] = [type |-> "close"]
  BY <1>1, ClosedIs
<1>3. down[c] = <<>> => down'[c] = CloseFrame
  BY <1>1, ConcatNone
<1>4. ASSUME down[c] = <<>>, Seen(out[c]) = Len(made[c])
      PROVE  Cut(c)'
  <2>1. Len(down'[c]) = 1 /\ down'[c][1].type = "close" /\ Len(made[c]) \in Nat
    BY <1>1, <1>3, <1>4, CloseFrameIs, SeqShape
  <2>2. Carries(down'[c], made[c], Seen(out[c]), 0)
    BY <1>4, <2>1 DEF Carries
  <2> QED BY <2>1, <2>2 DEF Cut, CutIn
<1>5. ASSUME svc[c] = "reading", Answer(c)
      PROVE  Answer(c)'
  <2> DEFINE d == down[c]
             e == down'[c]
  <2>1. PICK n \in 0 .. Len(d) :
           /\ Carries(d, made[c], Seen(out[c]), n) /\ Seen(out[c]) + n = Len(made[c])
           /\ d[n + 1].type \in {"ack", "finished"} /\ Len(d) = n + 1
    BY <1>5 DEF Answer, AnswerIn
  <2>2. /\ Len(e) = n + 2 /\ e[n + 2] = [type |-> "close"] /\ n \in 0 .. Len(e)
        /\ e[n + 1] = d[n + 1] /\ \A i \in 1 .. n : e[i] = d[i]
    <3>1. Len(e) = Len(d) + 1 /\ e[Len(d) + 1] = [type |-> "close"] /\ \A i \in 1 .. Len(d) : e[i] = d[i]
      BY <1>2
    <3> HIDE DEF d, e
    <3> QED BY <2>1, <3>1
  <2>3. Carries(e, made[c], Seen(out[c]), n)
    <3> HIDE DEF d, e
    <3> QED BY <2>1, <2>2 DEF Carries
  <2>4. e[n + 1].type \in {"ack", "finished"}
    BY <2>1, <2>2
  <2> HIDE DEF d, e
  <2>5. AnswerIn(e, "ended", made[c], Seen(out[c]))
    BY <2>1, <2>2, <2>3, <2>4 DEF AnswerIn
  <2> QED BY <2>5 DEF Answer, e
<1> QED BY <1>2, <1>3, <1>4, <1>5

LEMMA LeavingFits ==
    ASSUME NEW c \in Connections, UNCHANGED edge, Fresh(c), Ok(c), Leaves(c),
           svc[c] \in {"opening", "reading", "pushing", "finishing"},
           \/ up'[c] = up[c]
           \/ Takes(c, "close")
    PROVE  Ok(c)'
<1>1. UNCHANGED <<api, cl, frames, out, closer>>
  BY DEF edge
<1>2. /\ svc'[c] = "ended" /\ down'[c] = down[c] \o CloseFrame /\ made'[c] = made[c]
      /\ sess'[c].heard = sess[c].heard
  BY DEF Leaves
<1>3. /\ IsSeq(down'[c])
      /\ down[c] = <<>> => down'[c] = CloseFrame
      /\ down[c] = <<>> /\ Seen(out[c]) = Len(made[c]) => Cut(c)'
      /\ svc[c] = "reading" /\ Answer(c) => Answer(c)'
  BY <1>1, <1>2, CloseAnswers DEF Ok
<1>4. Seqs(c) /\ UpFits(c) /\ Phase(c) /\ Story(c)
  BY DEF Ok
<1>5. /\ IsSeq(up'[c]) /\ \A i \in 2 .. Len(up'[c]) : up'[c][i].type # "frame"
      /\ Waits(c)' = Waits(c)
      /\ \/ up'[c] = up[c]
         \/ svc[c] = "reading" /\ up[c] # <<>> /\ up[c][1].type = "close"
  <2>1. CASE up'[c] = up[c]
    BY <1>4, <2>1 DEF Waits, Seqs, UpFits
  <2>2. CASE Takes(c, "close")
    <3>1. up[c] # <<>> /\ up[c][1].type = "close" /\ up'[c] = Tail(up[c]) /\ svc[c] = "reading"
      BY <2>2 DEF Takes
    <3> QED BY <1>4, <3>1, TailWaits DEF Waits
  <2> QED BY <2>1, <2>2
<1>6. Seqs(c)'
  BY <1>1, <1>2, <1>3, <1>4, <1>5 DEF Seqs
<1>7. UpFits(c)'
  <2>1. Waits(c) => up'[c] = up[c]
    BY <1>5 DEF Waits
  <2> QED BY <1>1, <1>2, <1>4, <1>5, <2>1 DEF UpFits
<1>8. Story(c)'
  <2>1. IsSeq(<<>>) /\ made'[c] = made[c] \o <<>> /\ Len(sess[c].heard) \in Nat
    BY <1>2, <1>4, SeqOfNone, ConcatNone, SeqShape DEF Seqs
  <2>2. PICK all : IsSeq(all) /\ made'[c] = made[c] \o all
    BY <2>1
  <2>3. Len(sess[c].heard) <= Len(sess'[c].heard) /\ Len(sess'[c].heard) \in Nat /\ svc[c] # "ended"
    BY <1>2, <2>1
  <2> QED BY <1>4, <2>2, <2>3, StoryGoesOn
<1>9. Phase(c)'
  <2>1. api[c] \notin {"new", "starting"} /\ api[c] # "analyzing" /\ ~(api[c] = "finishing" /\ cl[c] = "closing")
    BY <1>4 DEF Fresh, Phase
  <2>2. Idle(c) => Idle(c)'
    BY <1>1, <1>2, <1>3 DEF Idle
  <2>3. ASSUME api[c] = "opening"
        PROVE  Opening(c)'
    <3>1. Opening(c)
      BY <1>4, <2>3 DEF Phase
    <3>2. CASE svc[c] = "opening"
      BY <1>1, <1>2, <1>3, <1>4, <3>1, <3>2 DEF Opening, UpFits
    <3>3. CASE svc[c] = "reading"
      BY <1>1, <1>2, <1>5, <3>1, <3>3 DEF Opening
    <3> QED BY <3>1, <3>2, <3>3 DEF Opening
  <2>4. ASSUME NEW op \in {"pushing", "finishing"}, NEW message \in {"frame", "end"},
               Exchange(c, op, message)
        PROVE  Exchange(c, op, message)'
    <3>1. up'[c] = up[c]
      BY <1>5, <2>4 DEF Exchange
    <3>2. CASE Len(up[c]) = 1 /\ up[c][1].type = message /\ Idle(c)
      BY <2>2, <3>1, <3>2 DEF Exchange
    <3>3. CASE up[c] = <<>> /\ down[c] = <<>> /\ Seen(out[c]) = Len(made[c])
      BY <1>2, <1>3, <3>1, <3>3 DEF Exchange
    <3>4. CASE up[c] = <<>> /\ (Answer(c) \/ Cut(c))
      BY <1>2, <1>3, <3>1, <3>4, AnsweredIs DEF Exchange
    <3> QED BY <2>4, <3>2, <3>3, <3>4 DEF Exchange
  <2>5. ASSUME api[c] = "receiving"
        PROVE  Idle(c)' /\ up'[c] = <<>>
    BY <1>4, <1>5, <2>2, <2>5 DEF Phase
  <2>6. ASSUME api[c] = "pushing", cl[c] = "open" PROVE Exchange(c, "pushing", "frame")'
    <3>1. Exchange(c, "pushing", "frame")
      BY <1>4, <2>6 DEF Phase
    <3> QED BY <2>4, <3>1
  <2>7. ASSUME api[c] = "finishing", cl[c] = "open" PROVE Exchange(c, "finishing", "end")'
    <3>1. Exchange(c, "finishing", "end")
      BY <1>4, <2>7 DEF Phase
    <3> QED BY <2>4, <3>1
  <2> QED BY <1>1, <1>4, <2>1, <2>3, <2>5, <2>6, <2>7 DEF Phase
<1> QED BY <1>6, <1>7, <1>8, <1>9 DEF Ok

LEMMA OpenedFits ==
    ASSUME NEW c \in Connections, UNCHANGED edge, Fresh(c), Ok(c),
           svc[c] = "opening", svc'[c] = "reading", up'[c] = Tail(up[c]),
           down'[c] = down[c] \o <<[type |-> "started"]>>, made'[c] = made[c],
           sess'[c].heard = <<>>
    PROVE  Ok(c)'
<1>1. UNCHANGED <<api, cl, frames, out, closer>>
  BY DEF edge
<1>2. Seqs(c) /\ UpFits(c) /\ Phase(c) /\ Story(c)
  BY DEF Ok
<1>3. /\ up[c] # <<>> /\ up[c][1].type = "start" /\ sess[c].heard = <<>> /\ made[c] = <<>>
      /\ down[c] = <<>>
  BY <1>2 DEF UpFits
<1>4. /\ IsSeq(up'[c]) /\ ~Waits(c)' /\ \A i \in 2 .. Len(up'[c]) : up'[c][i].type # "frame"
      /\ Len(up[c]) = 1 => up'[c] = <<>>
  BY <1>2, <1>3, TailWaits
<1>5. frames[c] = <<>>
  BY <1>2, <1>3 DEF UpFits, Waits
<1>6. down'[c] = <<[type |-> "started"]>> /\ IsSeq(down'[c])
  <2>1. IsSeq(<<[type |-> "started"]>>)
    BY SeqOfOne
  <2> QED BY <1>3, <2>1, ConcatNone
<1>7. Seqs(c)'
  BY <1>1, <1>2, <1>3, <1>4, <1>6 DEF Seqs
<1>8. UpFits(c)'
  BY <1>1, <1>4, <1>5 DEF UpFits
<1>9. Story(c)'
  BY <1>1, <1>2, <1>3 DEF Story
<1>10. Phase(c)'
  <2>1. api[c] \notin {"new", "starting", "receiving", "analyzing"}
    BY <1>2 DEF Fresh, Phase, Idle
  <2>2. \A op \in {"pushing", "finishing"} : \A message : ~Exchange(c, op, message)
    BY <1>2, AnsweredIs DEF Exchange, Idle
  <2>3. ASSUME api[c] = "opening" PROVE Opening(c)'
    <3>1. Len(up[c]) = 1
      BY <1>2, <2>3 DEF Phase, Opening
    <3> QED BY <1>1, <1>3, <1>4, <1>5, <1>6, <3>1 DEF Opening
  <2> QED BY <1>1, <1>2, <2>1, <2>2, <2>3 DEF Phase
<1> QED BY <1>7, <1>8, <1>9, <1>10 DEF Ok

LEMMA ServiceTells ==
    ASSUME NEW c \in Connections, UNCHANGED edge, Fresh(c), Ok(c), Does(c)
    PROVE  Ok(c)'
<1>1. ASSUME /\ svc'[c] = svc[c] /\ up'[c] = up[c] /\ down'[c] = down[c] /\ made'[c] = made[c]
             /\ sess'[c].heard = sess[c].heard
      PROVE  Ok(c)'
  <2>1. UNCHANGED <<api, cl, frames, out, closer>>
    BY DEF edge
  <2>2. Seqs(c)' /\ UpFits(c)' /\ Story(c)'
    BY <1>1, <2>1 DEF Ok, Seqs, UpFits, Waits, Story
  <2>3. Phase(c)'
    BY <1>1, <2>1 DEF Ok, Phase, Opening, Idle, Exchange, Answer, Cut, Waits
  <2> QED BY <2>2, <2>3 DEF Ok
<1>2. ASSUME Takes(c, "close"), Leaves(c)
      PROVE  Ok(c)'
  BY <1>2, LeavingFits DEF Takes
<1> QED BY <1>1, <1>2, FrameTakenFits, EndTakenFits, WorkFits, LeavingFits, OpenedFits DEF Does

-----------------------------------------------------------------------------
(* The steps of the API *)

\* The browser is still talked to.
Talks(o, m) == IsSeq(o) /\ TellsMade(o, m) /\ AcksInOrder(o) /\ GoesOn(o)
\* It was told nothing wrong, and nothing after a last word; a acks, and no
\* reconciliation.
Over(o, m, a) ==
    /\ IsSeq(o) /\ TellsMade(o, m) /\ AcksInOrder(o) /\ Acked(o) = a
    /\ \A i \in DOMAIN o : o[i].type \in LastWords => i = Len(o)
    /\ \A i \in DOMAIN o : o[i].type # "reconciled"

LEMMA ConcatOne ==
    ASSUME NEW s, NEW e, IsSeq(s)
    PROVE  s \o <<e>> = Append(s, e)
<1>1. IsSeq(<<e>>) /\ <<e>>[1] = e /\ Len(<<e>>) = 1
  BY SeqOfOne
<1>2. PICK S : s \in Seq(S) /\ <<e>> \in Seq(S)
  BY <1>1, SeqCommon
<1>3. e \in S
  BY <1>1, <1>2, ElementOfSeq
<1> QED BY <1>2, <1>3, AppendIsConcat

\* The handler stops there, or with one more word.
LEMMA StopsOver ==
    ASSUME NEW o, NEW m, Talks(o, m), NEW last \in {"close", "timeout", "gone"}
    PROVE  Over(o \o (IF last = "gone" THEN <<>> ELSE <<[type |-> last]>>), m, Acked(o))
<1>1. CASE last = "gone"
  <2>1. o \o <<>> = o
    BY ConcatNone DEF Talks
  <2>2. Over(o, m, Acked(o))
    BY DEF Talks, Over, GoesOn, LastWords
  <2> QED BY <1>1, <2>1, <2>2
<1>2. CASE last # "gone"
  <2> DEFINE e == [type |-> last]
             p == Append(o, e)
  <2>1. e.type \in LastWords /\ e.type # "reconciled"
    BY <1>2 DEF LastWords
  <2>2. o \o <<e>> = p
    BY ConcatOne DEF Talks
  <2> HIDE DEF e, p
  <2>3. /\ IsSeq(p) /\ TellsMade(p, m) /\ AcksInOrder(p) /\ Acked(p) = Acked(o)
        /\ \A i \in DOMAIN p : p[i].type \in LastWords => i = Len(p) /\ p[i] = e
    BY <2>1, WordTells DEF Talks, p
  <2>4. Over(p, m, Acked(o))
    BY <2>1, <2>3 DEF Over, LastWords
  <2> QED BY <1>2, <2>2, <2>4 DEF e
<1> QED BY <1>1, <1>2

LEMMA LeavesTells ==
    ASSUME Domains, NEW c \in Connections, NEW last \in {"close", "timeout", "gone"},
           Talks(out[c], made[c]), ApiLeaves(c, last)
    PROVE  api'[c] = "releasing" /\ Over(out'[c], made[c], Acked(out[c]))
<1>1. /\ api'[c] = "releasing"
      /\ out'[c] = out[c] \o (IF last = "gone" THEN <<>> ELSE <<[type |-> last]>>)
  BY DEF ApiLeaves, Go, Tell, Domains
<1>2. Over(out[c] \o (IF last = "gone" THEN <<>> ELSE <<[type |-> last]>>), made[c], Acked(out[c]))
  BY StopsOver
<1> QED BY <1>1, <1>2

\* The updates u and perhaps one message more, whole or cut short.
LEMMA EmitTells ==
    ASSUME Domains, NEW c \in Connections, Talks(out[c], made[c]), IsSeq(made[c]),
           NEW u, NEW p, NEW phase, IsSeq(u), IsSeq(p), Len(p) \in {Len(u), Len(u) + 1},
           \A j \in 1 .. Len(u) : p[j] = u[j],
           Seen(out[c]) + Len(u) <= Len(made[c]),
           \A j \in 1 .. Len(u) : /\ u[j].type \in {"partial", "provisional_final"}
                                  /\ u[j].update = made[c][Seen(out[c]) + j],
           Emit(c, p, phase)
    PROVE  \/ out'[c] = out[c] \o p /\ api'[c] = phase
           \/ api'[c] = "releasing" /\ Over(out'[c], made[c], Acked(out[c]))
<1>1. CASE Tell(c, p) /\ Go(c, phase)
  BY <1>1 DEF Tell, Go, Domains
<1>2. ASSUME NEW n \in 0 .. Len(p) - 1, NEW last \in Ends,
             Tell(c, SubSeq(p, 1, n) \o (IF last = "gone" THEN <<>> ELSE <<[type |-> last]>>)),
             Go(c, "releasing")
      PROVE  api'[c] = "releasing" /\ Over(out'[c], made[c], Acked(out[c]))
  <2> DEFINE q == SubSeq(p, 1, n)
             w == IF last = "gone" THEN <<>> ELSE <<[type |-> last]>>
  <2>1. Len(u) \in Nat /\ Len(p) \in Nat /\ Len(made[c]) \in Nat /\ Seen(out[c]) \in Nat
    BY SeqShape, Counts DEF Talks
  <2>2. n \in Nat /\ n <= Len(u) /\ n \in 0 .. Len(p) /\ 1 \in 1 .. Len(p) + 1 /\ 1 <= n + 1
    BY <2>1
  <2>3. IsSeq(q) /\ Len(q) = n /\ \A j \in 1 .. n : q[j] = p[j]
    <3>1. IsSeq(q) /\ Len(q) = n - 1 + 1 /\ \A i \in 1 .. n - 1 + 1 : q[i] = p[1 + i - 1]
      BY <2>2, SeqPart
    <3>2. n - 1 + 1 = n /\ \A i \in 1 .. n : 1 + i - 1 = i
      BY <2>2
    <3> HIDE DEF q
    <3> QED BY <3>1, <3>2
  <2>4. IsSeq(w)
    BY SeqOfNone, SeqOfOne
  <2>5. /\ api'[c] = "releasing" /\ out'[c] = out[c] \o (q \o w)
    BY <1>2 DEF Tell, Go, Domains
  <2> HIDE DEF q
  <2>6. ASSUME NEW j \in 1 .. Len(q)
        PROVE  q[j].type \in {"partial", "provisional_final"} /\ q[j].update = made[c][Seen(out[c]) + j]
    <3>1. j \in 1 .. n /\ j \in 1 .. Len(u)
      BY <2>1, <2>2, <2>3
    <3>2. q[j] = u[j]
      BY <2>3, <3>1
    <3> QED BY <3>1, <3>2
  <2>7. Seen(out[c]) + Len(q) <= Len(made[c])
    BY <2>1, <2>2, <2>3
  <2>8. Talks(out[c] \o q, made[c]) /\ Acked(out[c] \o q) = Acked(out[c])
    BY <2>1, <2>3, <2>6, <2>7, UpdatesTell DEF Talks
  <2>9. Over((out[c] \o q) \o w, made[c], Acked(out[c]))
    BY <2>8, StopsOver DEF Ends
  <2> HIDE DEF w
  <2>10. out[c] \o (q \o w) = (out[c] \o q) \o w
    <3>1. PICK S : out[c] \in Seq(S) /\ q \in Seq(S)
      BY <2>3, SeqCommon DEF Talks
    <3>2. PICK T : w \in Seq(T)
      BY <2>4 DEF IsSeq
    <3>3. PICK U : U = S \cup T
      OBVIOUS
    <3>4. out[c] \in Seq(U) /\ q \in Seq(U) /\ w \in Seq(U)
      BY <3>1, <3>2, <3>3, SeqMonotonic
    <3>5. ASSUME NEW s1 \in Seq(U), NEW s2 \in Seq(U), NEW s3 \in Seq(U)
          PROVE  (s1 \o s2) \o s3 = s1 \o (s2 \o s3)
      BY ConcatAssociative
    <3> QED BY <3>4, <3>5, Zenon
  <2> QED BY <2>5, <2>9, <2>10
<1> QED BY <1>1, <1>2 DEF Emit

\* The handler has left: only what was sent counts.
LEMMA ReleasedFits ==
    ASSUME NEW c \in Connections, Ok(c), api[c] # "ended", UNCHANGED <<svc, sess, made, frames, closer>>,
           api'[c] = "releasing", Over(out'[c], made[c], Acked(out[c])),
           IsSeq(up'[c]), IsSeq(down'[c]), UpFits(c)'
    PROVE  Ok(c)'
<1>1. Seqs(c) /\ Phase(c) /\ Story(c)
  BY DEF Ok
<1>2. Seqs(c)'
  BY <1>1 DEF Seqs, Over
<1>3. Phase(c)'
  BY <1>1 DEF Phase
<1>4. Story(c)'
  BY <1>1 DEF Story, Over
<1> QED BY <1>2, <1>3, <1>4 DEF Ok

\* One more message to the service, which is no frame.
LEMMA SendFits ==
    ASSUME Domains, NEW c \in Connections, Seqs(c), UpFits(c), NEW e, e.type # "frame", SendUp(c, e)
    PROVE  /\ IsSeq(up'[c]) /\ Waits(c)' = Waits(c) /\ (Waits(c) => up'[c][1] = up[c][1])
           /\ \A i \in 2 .. Len(up'[c]) : up'[c][i].type # "frame"
           /\ up'[c] # <<>>
           /\ up[c] # <<>> => up'[c][1] = up[c][1]
           /\ up[c] = <<>> => Len(up'[c]) = 1 /\ up'[c][1] = e
<1> DEFINE s == up[c]
           t == up'[c]
<1>1. t = Append(s, e) /\ IsSeq(s) /\ \A i \in 2 .. Len(s) : s[i].type # "frame"
  BY DEF SendUp, Domains, Seqs, UpFits
<1> HIDE DEF s, t
<1>2. /\ IsSeq(t) /\ Len(s) \in Nat /\ Len(t) = Len(s) + 1
      /\ (\A i \in 1 .. Len(s) : t[i] = s[i]) /\ t[Len(s) + 1] = e
  BY <1>1, SeqAppend
<1>3. (s # <<>> <=> Len(s) > 0) /\ (s = <<>> => Len(s) = 0) /\ (t # <<>> <=> Len(t) > 0)
  BY <1>1, <1>2, SeqShape
<1>4. t # <<>>
  BY <1>2, <1>3
<1>5. s # <<>> => t[1] = s[1]
  BY <1>2, <1>3
<1>6. s = <<>> => Len(t) = 1 /\ t[1] = e
  BY <1>2, <1>3
<1>7. \A i \in 2 .. Len(t) : t[i].type # "frame"
  BY <1>1, <1>2
<1> QED BY <1>2, <1>4, <1>5, <1>6, <1>7 DEF s, t, Waits

LEMMA SentFits ==
    ASSUME Domains, NEW c \in Connections, Seqs(c), UpFits(c), NEW e, e.type # "frame", SendUp(c, e),
           svc[c] # "none", UNCHANGED <<svc, sess, made, down, frames>>
    PROVE  IsSeq(up'[c]) /\ UpFits(c)' /\ Waits(c)' = Waits(c)
<1>1. /\ IsSeq(up'[c]) /\ Waits(c)' = Waits(c) /\ (Waits(c) => up'[c][1] = up[c][1])
      /\ \A i \in 2 .. Len(up'[c]) : up'[c][i].type # "frame"
      /\ up'[c] # <<>>
      /\ up[c] # <<>> => up'[c][1] = up[c][1]
  BY SendFits
<1>2. UpFits(c)'
  BY <1>1 DEF UpFits
<1> QED BY <1>1, <1>2

\* _receive_until finds the first message that is no update.
LEMMA VerdictIs ==
    ASSUME NEW c, NEW n \in Nat, n < Len(down[c]), Len(down[c]) \in Nat, DOMAIN down[c] = 1 .. Len(down[c]),
           \A i \in 1 .. n : down[c][i].type = "update",
           down[c][n + 1].type # "update"
    PROVE  Verdict(c) = n + 1
<1> DEFINE d == down[c]
           First(i) == d[i].type # "update" /\ \A j \in 1 .. i - 1 : d[j].type = "update"
<1>1. n + 1 \in DOMAIN d /\ First(n + 1)
  OBVIOUS
<1>2. ASSUME NEW i \in DOMAIN d, First(i)
      PROVE  i = n + 1
  <2>1. CASE i <= n
    BY <1>2, <2>1
  <2>2. CASE i > n + 1
    <3>1. n + 1 \in 1 .. i - 1
      BY <2>2
    <3> QED BY <1>2, <3>1
  <2> QED BY <2>1, <2>2
<1>3. Verdict(c) = CHOOSE i \in DOMAIN d : First(i)
  BY DEF Verdict
<1> HIDE DEF d, First
<1>4. (CHOOSE i \in DOMAIN d : First(i)) = n + 1
  BY <1>1, <1>2
<1> QED BY <1>3, <1>4
LEMMA TalksNow ==
    ASSUME NEW c, Ok(c), api[c] \notin {"releasing", "ended"}
    PROVE  Talks(out[c], made[c])
BY DEF Ok, Seqs, Story, Talks

\* Nothing is sent to the service.
LEMMA QuietFits ==
    ASSUME NEW c, UpFits(c), up'[c] = up[c], UNCHANGED <<svc, sess, made, frames>>,
           svc[c] = "none" => cl'[c] = cl[c],
           svc[c] \in {"none", "opening"} => down'[c] = down[c]
    PROVE  UpFits(c)' /\ Waits(c)' = Waits(c)
BY DEF UpFits, Waits

\* The handler is over, whether it has given back its slot or never had one.
LEMMA OverFits ==
    ASSUME NEW c \in Connections, Ok(c), api[c] # "ended", UNCHANGED <<svc, sess, made, frames, closer>>,
           api'[c] \in {"releasing", "ended"}, Over(out'[c], made[c], Acked(out[c])),
           UNCHANGED <<up, cl, down>>
    PROVE  Ok(c)'
<1>1. Seqs(c) /\ Phase(c) /\ Story(c) /\ UpFits(c)
  BY DEF Ok
<1>2. Seqs(c)'
  BY <1>1 DEF Seqs, Over
<1>3. Phase(c)'
  BY <1>1 DEF Phase
<1>4. Story(c)'
  BY <1>1 DEF Story, Over
<1>5. UpFits(c)'
  BY <1>1, QuietFits
<1> QED BY <1>2, <1>3, <1>4, <1>5 DEF Ok

LEMMA RefuseOk ==
    ASSUME Domains, NEW c \in Connections, Ok(c),
           \/ Refuse(c)
           \/ \E last \in {"close", "gone"} : ApiRejects(c, last)
    PROVE  Ok(c)'
<1>1. CASE Refuse(c)
  <2>1. /\ api[c] = "new" /\ api'[c] = "ended" /\ out'[c] = out[c] \o <<[type |-> "close"]>>
        /\ UNCHANGED <<svc, sess, made, frames, closer, up, down, cl>>
    BY <1>1 DEF Refuse, Comes, Go, Tell, Domains, service
  <2>2. Talks(out[c], made[c])
    BY <2>1, TalksNow
  <2>3. Over(out[c] \o (IF "close" = "gone" THEN <<>> ELSE <<[type |-> "close"]>>), made[c], Acked(out[c]))
    BY <2>2, StopsOver
  <2> QED BY <2>1, <2>3, OverFits
<1>2. ASSUME NEW last \in {"close", "gone"}, ApiRejects(c, last)
      PROVE  Ok(c)'
  <2>1. /\ api[c] \in {"starting", "receiving"} /\ ApiLeaves(c, last)
        /\ UNCHANGED <<svc, sess, made, frames, closer, up, down, cl>>
    BY <1>2 DEF ApiRejects, service
  <2>2. Talks(out[c], made[c])
    BY <2>1, TalksNow
  <2>3. api'[c] = "releasing" /\ Over(out'[c], made[c], Acked(out[c]))
    BY <2>1, <2>2, LeavesTells
  <2> QED BY <2>1, <2>3, OverFits
<1> QED BY <1>1, <1>2

LEMMA ApiExpiresOk ==
    ASSUME Domains, NEW c \in Connections, Ok(c), NEW last \in {"timeout", "gone"}, ApiExpires(c, last)
    PROVE  Ok(c)'
<1>1. /\ api[c] \in {"starting", "receiving", "pushing", "finishing", "analyzing"}
      /\ ApiLeaves(c, last)
      /\ cl'[c] = IF cl[c] \in {"closing", "failing"} THEN "left" ELSE cl[c]
      /\ UNCHANGED <<svc, sess, made, up, down, frames, closer>>
  BY DEF ApiExpires, Client, Domains, service
<1>2. Talks(out[c], made[c])
  BY <1>1, TalksNow
<1>3. api'[c] = "releasing" /\ Over(out'[c], made[c], Acked(out[c]))
  BY <1>1, <1>2, LeavesTells
<1>4. Seqs(c) /\ UpFits(c)
  BY DEF Ok
<1>5. svc[c] = "none" => cl'[c] = cl[c]
  BY <1>1, <1>4 DEF UpFits
<1>6. UpFits(c)'
  BY <1>1, <1>4, <1>5, QuietFits
<1> QED BY <1>1, <1>3, <1>4, <1>6, ReleasedFits DEF Seqs

LEMMA SlotOk ==
    ASSUME Domains, NEW c \in Connections, Ok(c), Acquire(c) \/ Release(c)
    PROVE  Ok(c)'
<1>1. Seqs(c) /\ UpFits(c) /\ Phase(c) /\ Story(c)
  BY DEF Ok
<1>2. /\ UNCHANGED <<svc, sess, made, up, down, cl, frames, out>>
      /\ \/ api[c] = "new" /\ api'[c] = "starting" /\ closer' = closer
         \/ api[c] = "releasing" /\ api'[c] = "ended"
  BY DEF Acquire, Release, Comes, Go, Domains, service
<1>3. Seqs(c)'
  BY <1>1, <1>2 DEF Seqs
<1>4. UpFits(c)' /\ Waits(c)' = Waits(c)
  BY <1>1, <1>2, QuietFits
<1>5. Phase(c)'
  BY <1>1, <1>2 DEF Phase
<1>6. Story(c)'
  BY <1>1, <1>2, <1>4 DEF Story
<1> QED BY <1>3, <1>4, <1>5, <1>6 DEF Ok

LEMMA StartOk ==
    ASSUME Domains, NEW c \in Connections, Fresh(c), Ok(c), NEW codec, Start(c, codec)
    PROVE  Ok(c)'
<1> DEFINE e == [type |-> "start", codec |-> codec]
<1>1. Seqs(c) /\ UpFits(c) /\ Phase(c) /\ Story(c)
  BY DEF Ok
<1>2. /\ api[c] = "starting" /\ api'[c] = "opening" /\ svc'[c] = "opening"
      /\ SendUp(c, e) /\ UNCHANGED <<sess, made, down, frames, out, closer>>
  BY DEF Start, Go, Domains
<1>3. svc[c] = "none"
  BY <1>2 DEF Fresh
<1>4. /\ up[c] = <<>> /\ sess[c].heard = <<>> /\ made[c] = <<>> /\ down[c] = <<>> /\ frames[c] = <<>>
      /\ ~Waits(c)
  BY <1>1, <1>3 DEF UpFits, Waits
<1>5. e.type = "start"
  OBVIOUS
<1> HIDE DEF e
<1>6. /\ IsSeq(up'[c]) /\ up'[c] # <<>> /\ Len(up'[c]) = 1 /\ up'[c][1].type = "start"
      /\ \A i \in 2 .. Len(up'[c]) : up'[c][i].type # "frame"
  BY <1>1, <1>2, <1>4, <1>5, SendFits
<1>7. Seqs(c)'
  BY <1>1, <1>2, <1>6 DEF Seqs
<1>8. ~Waits(c)' /\ UpFits(c)'
  BY <1>2, <1>4, <1>6 DEF UpFits, Waits
<1>9. Phase(c)'
  BY <1>1, <1>2, <1>4, <1>6 DEF Phase, Opening
<1>10. Story(c)'
  BY <1>1, <1>2 DEF Story, GoesOn, LastWords
<1> QED BY <1>7, <1>8, <1>9, <1>10 DEF Ok

LEMMA OpenFailsOk ==
    ASSUME Domains, NEW c \in Connections, Ok(c), OpenFails(c)
    PROVE  Ok(c)'
<1> DEFINE e == [type |-> "close"]
<1>1. Seqs(c) /\ UpFits(c) /\ Phase(c)
  BY DEF Ok
<1>2. /\ api[c] = "opening" /\ SendUp(c, e)
      /\ \E last \in Ends \cup {"close"} : ApiLeaves(c, last)
      /\ UNCHANGED <<svc, sess, made, down, frames, closer>>
  BY DEF OpenFails, service
<1>3. svc[c] # "none" /\ e.type # "frame"
  BY <1>1, <1>2 DEF Phase, Opening
<1>4. Talks(out[c], made[c])
  BY <1>2, TalksNow
<1>5. api'[c] = "releasing" /\ Over(out'[c], made[c], Acked(out[c]))
  BY <1>2, <1>4, LeavesTells DEF Ends
<1> HIDE DEF e
<1>6. IsSeq(up'[c]) /\ UpFits(c)'
  BY <1>1, <1>2, <1>3, SentFits
<1> QED BY <1>1, <1>2, <1>5, <1>6, ReleasedFits DEF Seqs

LEMMA StartedOk ==
    ASSUME Domains, NEW c \in Connections, Ok(c), Opened(c)
    PROVE  Ok(c)'
<1> DEFINE e == [type |-> "started"]
<1>1. Seqs(c) /\ UpFits(c) /\ Phase(c) /\ Story(c)
  BY DEF Ok
<1>2. /\ api[c] = "opening" /\ down[c] # <<>> /\ Head(down[c]).type = "started"
      /\ down'[c] = Tail(down[c]) /\ cl'[c] = "open"
      /\ Emit(c, <<e>>, "receiving")
      /\ UNCHANGED <<svc, sess, made, up, frames, closer>>
  BY DEF Opened, Client, Domains, service
<1>3. Opening(c) /\ out[c] = <<>> /\ Talks(out[c], made[c])
  BY <1>1, <1>2, TalksNow DEF Phase
<1>4. down[c][1].type = "started" /\ IsSeq(down'[c])
  BY <1>1, <1>2, SeqTail DEF Seqs
<1>5. svc[c] \in {"reading", "ended"} /\ (down'[c] # <<>> => svc[c] = "ended" /\ down'[c] = CloseFrame)
      /\ up[c] = <<>>
  <2>1. svc[c] # "opening"
    BY <1>1, <1>2 DEF UpFits
  <2>2. ~(down[c] = CloseFrame)
    BY <1>4, CloseFrameIs
  <2>3. CASE svc[c] = "reading" /\ up[c] = <<>> /\ down[c] = <<e>>
    <3>1. Tail(<<e>>) = <<>>
      <4>1. PICK s : s = <<e>>
        OBVIOUS
      <4>2. IsSeq(s) /\ Len(s) = 1 /\ s # <<>>
        BY <4>1, SeqOfOne
      <4>3. IsSeq(Tail(s)) /\ Len(Tail(s)) = 0
        BY <4>2, SeqTail
      <4> QED BY <4>1, <4>3, SeqShape
    <3> QED BY <1>2, <2>3, <3>1
  <2>4. CASE svc[c] = "ended" /\ up[c] = <<>> /\ down[c] = <<e>> \o CloseFrame
    <3>1. PICK s : s = <<e>>
      OBVIOUS
    <3>2. IsSeq(s) /\ Len(s) = 1
      BY <3>1, SeqOfOne
    <3>3. /\ IsSeq(s \o CloseFrame) /\ Len(s \o CloseFrame) = 2
          /\ (s \o CloseFrame)[2] = [type |-> "close"]
      <4>1. /\ IsSeq(s \o CloseFrame) /\ Len(s \o CloseFrame) = Len(s) + 1
            /\ (s \o CloseFrame)[Len(s) + 1] = [type |-> "close"]
        BY <3>2, ClosedIs
      <4> QED BY <3>2, <4>1
    <3>4. PICK t : t = s \o CloseFrame
      OBVIOUS
    <3>5. t # <<>> /\ IsSeq(t) /\ Len(t) = 2 /\ t[2] = [type |-> "close"] /\ t = down[c]
      BY <1>2, <2>4, <3>1, <3>3, <3>4
    <3>6. IsSeq(Tail(t)) /\ Len(Tail(t)) = 1 /\ \A i \in 1 .. Len(Tail(t)) : Tail(t)[i] = t[i + 1]
      BY <3>5, SeqTail
    <3>7. Tail(t)[1] = [type |-> "close"]
      BY <3>5, <3>6
    <3>8. Tail(t) = CloseFrame
      <4>1. IsSeq(CloseFrame) /\ Len(CloseFrame) = 1 /\ CloseFrame[1] = [type |-> "close"]
        BY CloseFrameIs
      <4>2. PICK v, w : v = Tail(t) /\ w = CloseFrame
        OBVIOUS
      <4>3. IsSeq(v) /\ Len(v) = 1 /\ v[1] = [type |-> "close"]
        BY <3>6, <3>7, <4>2
      <4>4. IsSeq(w) /\ Len(w) = 1 /\ w[1] = [type |-> "close"]
        BY <4>1, <4>2
      <4>5. \A i \in 1 .. Len(v) : v[i] = w[i]
        BY <4>3, <4>4
      <4>6. v = w
        BY <4>3, <4>4, <4>5, SeqSame
      <4> QED BY <4>2, <4>6
    <3> QED BY <1>2, <2>4, <3>5, <3>8
  <2> QED BY <1>3, <2>1, <2>2, <2>3, <2>4 DEF Opening
<1>6. UpFits(c)'
  BY <1>1, <1>2, <1>5, QuietFits
<1>7. \/ out'[c] = out[c] \o <<e>> /\ api'[c] = "receiving"
      \/ api'[c] = "releasing" /\ Over(out'[c], made[c], Acked(out[c]))
  <2>1. IsSeq(<<>>) /\ Len(<<>>) = 0 /\ IsSeq(<<e>>) /\ Len(<<e>>) = 1 /\ IsSeq(made[c])
    BY <1>1, SeqOfNone, SeqOfOne DEF Seqs
  <2>2. PICK u, p : u = <<>> /\ p = <<e>>
    OBVIOUS
  <2>3. IsSeq(u) /\ Len(u) = 0 /\ IsSeq(p) /\ Len(p) = 1 /\ Emit(c, p, "receiving")
    BY <1>2, <2>1, <2>2
  <2>4. Seen(out[c]) + Len(u) <= Len(made[c])
    BY <1>3, <2>3, Counts DEF Talks, TellsMade
  <2>5. Len(p) \in {Len(u), Len(u) + 1} /\ \A j \in 1 .. Len(u) : FALSE
    BY <2>3
  <2>6. \/ out'[c] = out[c] \o p /\ api'[c] = "receiving"
        \/ api'[c] = "releasing" /\ Over(out'[c], made[c], Acked(out[c]))
    BY <1>3, <2>1, <2>3, <2>4, <2>5, EmitTells
  <2> QED BY <2>2, <2>6
<1>8. CASE api'[c] = "releasing" /\ Over(out'[c], made[c], Acked(out[c]))
  BY <1>1, <1>2, <1>4, <1>6, <1>8, ReleasedFits DEF Seqs
<1>9. CASE out'[c] = out[c] \o <<e>> /\ api'[c] = "receiving"
  <2>1. out'[c] = Append(out[c], e)
    BY <1>3, <1>9, ConcatOne DEF Talks
  <2>2. e.type = "started"
    OBVIOUS
  <2> HIDE DEF e
  <2>3. /\ IsSeq(out'[c]) /\ TellsMade(out'[c], made[c]) /\ AcksInOrder(out'[c])
        /\ Seen(out'[c]) = Seen(out[c]) /\ Acked(out'[c]) = Acked(out[c]) /\ GoesOn(out'[c])
    <3>1. PICK o, p : o = out[c] /\ p = out'[c]
      OBVIOUS
    <3>2. p = Append(o, e) /\ IsSeq(o) /\ TellsMade(o, made[c]) /\ AcksInOrder(o) /\ GoesOn(o)
      BY <1>3, <2>1, <3>1 DEF Talks
    <3>3. /\ IsSeq(p) /\ TellsMade(p, made[c]) /\ AcksInOrder(p)
          /\ Seen(p) = Seen(o) /\ Acked(p) = Acked(o) /\ GoesOn(p)
      BY <2>2, <3>2, WordTells
    <3> QED BY <3>1, <3>3
  <2>4. Seen(out[c]) = 0 /\ Acked(out[c]) = 0 /\ Len(made[c]) = 0 /\ Len(frames[c]) = 0
    <3>1. IsSeq(<<>>) /\ Len(<<>>) = 0 /\ DOMAIN <<>> = 1 .. 0
      BY SeqOfNone, SeqShape
    <3>2. ShownIn(<<>>) = {} /\ AcksIn(<<>>) = {}
      BY <3>1 DEF ShownIn, AcksIn
    <3> QED BY <1>3, <3>1, <3>2, FS_EmptySet DEF Seen, Acked, Opening
  <2>5. Seqs(c)'
    BY <1>1, <1>2, <1>4, <2>3 DEF Seqs
  <2>6. Phase(c)'
    BY <1>1, <1>2, <1>5, <1>9, <2>3, <2>4 DEF Phase, Idle
  <2>7. Story(c)'
    BY <1>1, <1>2, <2>3 DEF Story, GoesOn, LastWords
  <2> QED BY <1>6, <2>5, <2>6, <2>7 DEF Ok
<1> QED BY <1>7, <1>8, <1>9
LEMMA PushOk ==
    ASSUME Domains, NEW c \in Connections, Ok(c), NEW frame, Push(c, frame)
    PROVE  Ok(c)'
<1> DEFINE e == [type |-> "frame", frame |-> frame]
<1>1. Seqs(c) /\ UpFits(c) /\ Phase(c) /\ Story(c)
  BY DEF Ok
<1>2. api[c] = "receiving" /\ cl[c] = "open"
  BY <1>1 DEF Push, Phase
<1>3. /\ frames'[c] = Append(frames[c], frame) /\ api'[c] = "pushing"
      /\ up'[c] = Append(up[c], e)
      /\ UNCHANGED <<svc, sess, made, down, cl, out, closer>>
  BY <1>2 DEF Push, SendUp, Go, Domains, service
<1>4. up[c] = <<>> /\ Idle(c) /\ Acked(out[c]) = Len(frames[c]) /\ svc[c] \in {"reading", "ended"}
  BY <1>1, <1>2 DEF Phase, Idle
<1>5. IsSeq(up'[c]) /\ Len(up'[c]) = 1 /\ up'[c] # <<>> /\ up'[c][1].type = "frame" /\ up'[c][1].frame = frame
  <2>1. e.type = "frame" /\ e.frame = frame
    OBVIOUS
  <2> HIDE DEF e
  <2>2. PICK t : t = up'[c]
    OBVIOUS
  <2>3. IsSeq(t) /\ Len(t) = Len(up[c]) + 1 /\ t[Len(up[c]) + 1] = e
    BY <1>1, <1>3, <2>2, SeqAppend DEF Seqs
  <2>4. Len(up[c]) = 0
    BY <1>4, SeqOfNone
  <2>5. Len(t) = 1 /\ t[1] = e
    <3>1. PICK l : l = Len(up[c])
      OBVIOUS
    <3>2. l = 0 /\ Len(t) = l + 1 /\ t[l + 1] = e
      BY <2>3, <2>4, <3>1
    <3> QED BY <3>2
  <2>6. t # <<>>
    <3>1. IsSeq(t) /\ Len(t) = 1
      BY <2>3, <2>5
    <3> QED BY <3>1, SeqShape
  <2> QED BY <2>1, <2>2, <2>3, <2>5, <2>6
<1>6. IsSeq(frames'[c]) /\ Len(frames'[c]) = Len(frames[c]) + 1 /\ Len(frames[c]) \in Nat
  BY <1>1, <1>3, SeqAppend DEF Seqs
<1>7. frames[c] = sess[c].heard
  BY <1>1, <1>4 DEF UpFits, Waits
<1>8. Seqs(c)'
  BY <1>1, <1>3, <1>5, <1>6 DEF Seqs
<1>9. Waits(c)' /\ UpFits(c)'
  BY <1>3, <1>4, <1>5, <1>7 DEF UpFits, Waits
<1>10. Phase(c)'
  <2>1. Idle(c)'
    BY <1>3, <1>4 DEF Idle
  <2>2. Exchange(c, "pushing", "frame")'
    BY <1>5, <2>1 DEF Exchange
  <2> QED BY <1>1, <1>2, <1>3, <1>4, <1>6, <2>2 DEF Phase
<1>11. Story(c)'
  BY <1>1, <1>2, <1>3 DEF Story, GoesOn, LastWords
<1> QED BY <1>8, <1>9, <1>10, <1>11 DEF Ok

LEMMA EndOk ==
    ASSUME Domains, NEW c \in Connections, Ok(c), End(c)
    PROVE  Ok(c)'
<1> DEFINE e == [type |-> "end"]
<1>1. Seqs(c) /\ UpFits(c) /\ Phase(c) /\ Story(c)
  BY DEF Ok
<1>2. /\ api[c] = "receiving" /\ api'[c] = "finishing" /\ SendUp(c, e)
      /\ UNCHANGED <<svc, sess, made, down, cl, frames, out, closer>>
  BY DEF End, Go, Domains, service
<1>3. /\ up[c] = <<>> /\ Idle(c) /\ Acked(out[c]) = Len(frames[c]) /\ svc[c] \in {"reading", "ended"}
      /\ cl[c] = "open"
  BY <1>1, <1>2 DEF Phase, Idle
<1>4. e.type = "end"
  OBVIOUS
<1> HIDE DEF e
<1>5. IsSeq(up'[c]) /\ Len(up'[c]) = 1 /\ up'[c][1].type = "end"
  BY <1>1, <1>2, <1>3, <1>4, SendFits
<1>6. UpFits(c)' /\ Waits(c)' = Waits(c)
  BY <1>1, <1>2, <1>3, <1>4, SentFits
<1>7. Seqs(c)'
  BY <1>1, <1>2, <1>5 DEF Seqs
<1>8. Phase(c)'
  <2>1. Idle(c)'
    BY <1>2, <1>3 DEF Idle
  <2>2. Exchange(c, "finishing", "end")'
    BY <1>5, <2>1 DEF Exchange
  <2> QED BY <1>1, <1>2, <1>3, <2>2 DEF Phase
<1>9. Story(c)'
  BY <1>1, <1>2 DEF Story, GoesOn, LastWords
<1> QED BY <1>6, <1>7, <1>8, <1>9 DEF Ok

\* A verdict other than a close is the service's answer, and what was read
\* before it are all the updates that were left.
LEMMA AnsweredTells ==
    ASSUME NEW c, Seqs(c), NEW op \in {"pushing", "finishing"}, NEW message, Exchange(c, op, message),
           NEW type \in {"ack", "finished"}, NEW seq, Answered(c, type, seq)
    PROVE  up[c] = <<>> /\ Answer(c) /\ (op = "finishing" => svc[c] = "ended")
<1>1. /\ \E i \in DOMAIN down[c] : down[c][i].type # "update"
      /\ down[c][Verdict(c)].type = type
  BY DEF Answered
<1>2. DOMAIN down[c] = 1 .. Len(down[c]) /\ Len(down[c]) \in Nat
  BY SeqShape DEF Seqs
<1>3. down[c] # <<>>
  <2>1. DOMAIN <<>> = {}
    OBVIOUS
  <2> QED BY <1>1, <2>1
<1>4. ASSUME down[c] = CloseFrame PROVE FALSE
  <2>1. Len(down[c]) = 1 /\ down[c][1].type = "close"
    BY <1>4, CloseFrameIs
  <2>2. Verdict(c) = 0 + 1
    BY <1>2, <2>1, VerdictIs
  <2> QED BY <1>1, <2>1, <2>2
<1>5. ASSUME Cut(c) PROVE FALSE
  <2>1. PICK n \in 0 .. Len(down[c]) :
           /\ Carries(down[c], made[c], Seen(out[c]), n)
           /\ Len(down[c]) = n + 1 /\ down[c][n + 1].type = "close"
    BY <1>5 DEF Cut, CutIn
  <2>2. \A i \in 1 .. n : down[c][i].type = "update"
    <3>1. \A i \in 1 .. n : down[c][i] = [type |-> "update", update |-> made[c][Seen(out[c]) + i]]
      BY <2>1 DEF Carries
    <3>2. ASSUME NEW i \in 1 .. n PROVE down[c][i].type = "update"
      <4>1. down[c][i] = [type |-> "update", update |-> made[c][Seen(out[c]) + i]]
        BY <3>1
      <4> QED BY <4>1
    <3> QED BY <3>2
  <2>3. Verdict(c) = n + 1
    BY <1>2, <2>1, <2>2, VerdictIs
  <2> QED BY <1>1, <2>1, <2>3
<1> QED BY <1>3, <1>4, <1>5 DEF Exchange, Idle

LEMMA AnswerShows ==
    ASSUME NEW c, Seqs(c), Answer(c)
    PROVE  LET u == Provisional(Updates(c))
           IN /\ IsSeq(u) /\ Len(u) \in Nat /\ Seen(out[c]) + Len(u) = Len(made[c])
              /\ \A j \in 1 .. Len(u) : /\ u[j].type \in {"partial", "provisional_final"}
                                        /\ u[j].update = made[c][Seen(out[c]) + j]
              /\ Verdict(c) = Len(u) + 1 /\ Verdict(c) \in 1 .. Len(down[c])
              /\ \/ svc[c] = "reading" /\ Len(down[c]) = Verdict(c)
                 \/ /\ svc[c] = "ended" /\ Len(down[c]) = Verdict(c) + 1
                    /\ down[c][Verdict(c) + 1] = [type |-> "close"]
<1> DEFINE d == down[c]
           k == Seen(out[c])
           m == made[c]
<1>1. PICK n \in 0 .. Len(d) :
         /\ Carries(d, m, k, n) /\ k + n = Len(m)
         /\ d[n + 1].type \in {"ack", "finished"}
         /\ \/ svc[c] = "reading" /\ Len(d) = n + 1
            \/ svc[c] = "ended" /\ Len(d) = n + 2 /\ d[n + 2] = [type |-> "close"]
  BY DEF Answer, AnswerIn
<1>2. DOMAIN d = 1 .. Len(d) /\ Len(d) \in Nat /\ n \in Nat
  BY SeqShape DEF Seqs
<1>3. n < Len(d) /\ \A i \in 1 .. n : d[i] = [type |-> "update", update |-> m[k + i]]
  BY <1>1 DEF Carries
<1>4. ASSUME NEW i \in 1 .. n
      PROVE  d[i].type = "update" /\ d[i].update = m[k + i]
  <2> HIDE DEF d, m, k
  <2>1. d[i] = [type |-> "update", update |-> m[k + i]]
    BY <1>3
  <2> QED BY <2>1
<1>5. Verdict(c) = n + 1
  BY <1>1, <1>2, <1>3, <1>4, VerdictIs
<1> DEFINE g == Updates(c)
           u == Provisional(g)
<1>6. DOMAIN g = 1 .. n /\ \A i \in 1 .. n : g[i] = d[i].update
  <2>1. n + 1 - 1 = n
    BY <1>2
  <2>2. g = [i \in 1 .. n + 1 - 1 |-> d[i].update]
    BY <1>5 DEF Updates
  <2>3. g = [i \in 1 .. n |-> d[i].update]
    BY <2>1, <2>2
  <2> QED BY <2>3
<1> HIDE DEF g
<1>7. /\ DOMAIN u = 1 .. n /\ u = [i \in 1 .. n |-> u[i]]
      /\ \A i \in 1 .. n : u[i].type \in {"partial", "provisional_final"} /\ u[i].update = g[i]
  BY <1>6 DEF Provisional
<1> HIDE DEF u
<1>8. IsSeq(u) /\ Len(u) = n
  BY <1>2, <1>7, SeqMade
<1> HIDE DEF d, k, m
<1>9. \A j \in 1 .. Len(u) : u[j].type \in {"partial", "provisional_final"} /\ u[j].update = m[k + j]
  BY <1>4, <1>6, <1>7, <1>8
<1>10. /\ Verdict(c) = Len(u) + 1 /\ Verdict(c) \in 1 .. Len(d)
       /\ \/ svc[c] = "reading" /\ Len(d) = Verdict(c)
          \/ svc[c] = "ended" /\ Len(d) = Verdict(c) + 1 /\ d[Verdict(c) + 1] = [type |-> "close"]
  <2>1. PICK v, l : v = Verdict(c) /\ l = Len(d)
    OBVIOUS
  <2>2. /\ v = n + 1 /\ n \in Nat /\ n < l /\ l \in Nat
        /\ \/ svc[c] = "reading" /\ l = n + 1
           \/ svc[c] = "ended" /\ l = n + 2 /\ d[n + 2] = [type |-> "close"]
    BY <1>1, <1>2, <1>3, <1>5, <2>1
  <2>3. v + 1 = n + 2
    BY <2>2
  <2>4. /\ v = n + 1 /\ v \in 1 .. l
        /\ \/ svc[c] = "reading" /\ l = v
           \/ svc[c] = "ended" /\ l = v + 1 /\ d[v + 1] = [type |-> "close"]
    BY <2>2, <2>3
  <2> QED BY <1>8, <2>1, <2>4
<1> QED BY <1>1, <1>2, <1>8, <1>9, <1>10 DEF d, k, m, u, g

LEMMA ClientFailsOk ==
    ASSUME Domains, NEW c \in Connections, Ok(c), ClientFails(c)
    PROVE  Ok(c)'
<1> DEFINE e == [type |-> "close"]
<1>1. Seqs(c) /\ UpFits(c) /\ Phase(c) /\ Story(c)
  BY DEF Ok
<1>2. /\ api[c] \in {"pushing", "finishing"} /\ cl[c] = "open" /\ cl'[c] = "failing" /\ SendUp(c, e)
      /\ UNCHANGED <<svc, sess, made, down, api, frames, out, closer>>
  BY DEF ClientFails, Client, Domains, service
<1>3. svc[c] # "none" /\ e.type # "frame"
  BY <1>1, <1>2 DEF UpFits
<1> HIDE DEF e
<1>4. IsSeq(up'[c]) /\ UpFits(c)' /\ Waits(c)' = Waits(c)
  BY <1>1, <1>2, <1>3, SentFits
<1>5. Seqs(c)'
  BY <1>1, <1>2, <1>4 DEF Seqs
<1>6. Phase(c)'
  BY <1>1, <1>2 DEF Phase
<1>7. Story(c)'
  BY <1>1, <1>2, <1>4 DEF Story
<1> QED BY <1>4, <1>5, <1>6, <1>7 DEF Ok

LEMMA FinishAnsweredOk ==
    ASSUME Domains, NEW c \in Connections, Ok(c), FinishAnswered(c)
    PROVE  Ok(c)'
<1> DEFINE e == [type |-> "close"]
<1>1. Seqs(c) /\ UpFits(c) /\ Phase(c) /\ Story(c)
  BY DEF Ok
<1>2. /\ api[c] = "finishing" /\ cl[c] = "open" /\ cl'[c] = "closing" /\ SendUp(c, e)
      /\ Answered(c, "finished", Len(frames[c]) + 1)
      /\ UNCHANGED <<svc, sess, made, down, api, frames, out, closer>>
  BY DEF FinishAnswered, Client, Domains, service
<1>3. svc[c] # "none" /\ e.type # "frame"
  BY <1>1, <1>2 DEF UpFits
<1> HIDE DEF e
<1>4. IsSeq(up'[c]) /\ UpFits(c)' /\ Waits(c)' = Waits(c)
  BY <1>1, <1>2, <1>3, SentFits
<1>5. up[c] = <<>> /\ Answer(c) /\ svc[c] = "ended"
  <2>1. Exchange(c, "finishing", "end")
    BY <1>1, <1>2 DEF Phase
  <2> QED BY <1>1, <1>2, <2>1, AnsweredTells
<1>6. ~Waits(c)' /\ Answer(c)'
  BY <1>2, <1>4, <1>5 DEF Waits, Answer
<1>7. Seqs(c)'
  BY <1>1, <1>2, <1>4 DEF Seqs
<1>8. Phase(c)'
  BY <1>1, <1>2, <1>5, <1>6 DEF Phase
<1>9. Story(c)'
  BY <1>1, <1>2, <1>4 DEF Story
<1> QED BY <1>4, <1>7, <1>8, <1>9 DEF Ok

LEMMA PushAnsweredOk ==
    ASSUME Domains, NEW c \in Connections, Ok(c), PushAnswered(c)
    PROVE  Ok(c)'
<1> DEFINE u == Provisional(Updates(c))
           e == [type |-> "ack", seq |-> Len(frames[c])]
           p == Append(u, e)
           d == down[c]
           v == Verdict(c)
<1>1. Seqs(c) /\ UpFits(c) /\ Phase(c) /\ Story(c)
  BY DEF Ok
<1>2. /\ api[c] = "pushing" /\ cl[c] = "open" /\ Answered(c, "ack", Len(frames[c]))
      /\ down'[c] = SubSeq(d, v + 1, Len(d)) /\ Emit(c, p, "receiving")
      /\ UNCHANGED <<svc, sess, made, up, cl, frames, closer>>
  BY DEF PushAnswered, Domains, service
<1>3. Exchange(c, "pushing", "frame") /\ Acked(out[c]) + 1 = Len(frames[c])
  BY <1>1, <1>2 DEF Phase
<1>4. up[c] = <<>> /\ Answer(c)
  BY <1>1, <1>2, <1>3, AnsweredTells
<1>5. Talks(out[c], made[c])
  BY <1>2, TalksNow
<1>6. e.type = "ack" /\ e.seq = Len(frames[c])
  OBVIOUS
<1>7. /\ IsSeq(u) /\ Len(u) \in Nat /\ Seen(out[c]) + Len(u) = Len(made[c])
      /\ \A j \in 1 .. Len(u) : /\ u[j].type \in {"partial", "provisional_final"}
                                /\ u[j].update = made[c][Seen(out[c]) + j]
      /\ v = Len(u) + 1 /\ v \in 1 .. Len(d)
      /\ \/ svc[c] = "reading" /\ Len(d) = v
         \/ svc[c] = "ended" /\ Len(d) = v + 1 /\ d[v + 1] = [type |-> "close"]
  BY <1>1, <1>4, AnswerShows
<1>8. IsSeq(d) /\ Len(d) \in Nat /\ IsSeq(made[c]) /\ Len(made[c]) \in Nat /\ Seen(out[c]) \in Nat
  BY <1>1, <1>5, SeqShape, Counts DEF Seqs, Talks
<1> HIDE DEF u, e, d, v
\* What is left to read.
<1>9. /\ IsSeq(down'[c]) /\ svc[c] \in {"reading", "ended"}
      /\ down'[c] # <<>> => svc[c] = "ended" /\ down'[c] = CloseFrame
  <2> DEFINE t == SubSeq(d, v + 1, Len(d))
  <2>1. v + 1 \in 1 .. Len(d) + 1 /\ Len(d) \in 0 .. Len(d) /\ v + 1 <= Len(d) + 1
    BY <1>7, <1>8
  <2>2. PICK a, b : a = v + 1 /\ b = Len(d)
    OBVIOUS
  <2>3. IsSeq(t) /\ Len(t) = b - a + 1 /\ \A i \in 1 .. b - a + 1 : t[i] = d[a + i - 1]
    BY <1>8, <2>1, <2>2, SeqPart
  <2>4. Len(t) = Len(d) - v
    BY <1>7, <1>8, <2>2, <2>3
  <2>5. CASE svc[c] = "reading"
    <3>1. Len(t) = 0
      BY <1>7, <1>8, <2>4, <2>5
    <3> HIDE DEF t
    <3>2. t = <<>>
      BY <2>3, <3>1, SeqShape
    <3> QED BY <1>2, <2>3, <2>5, <3>2 DEF t
  <2>6. CASE svc[c] = "ended"
    <3>1. Len(t) = 1 /\ a + 1 - 1 = v + 1 /\ 1 \in 1 .. b - a + 1
      BY <1>7, <1>8, <2>2, <2>4, <2>6
    <3>2. t[1] = d[v + 1]
      BY <2>3, <3>1
    <3>3. t[1] = [type |-> "close"]
      BY <1>7, <1>8, <2>6, <3>2
    <3> HIDE DEF t
    <3>4. PICK w : w = CloseFrame
      OBVIOUS
    <3>5. IsSeq(w) /\ Len(w) = 1 /\ w[1] = [type |-> "close"]
      BY <3>4, CloseFrameIs
    <3>6. \A i \in 1 .. Len(t) : t[i] = w[i]
      BY <3>1, <3>3, <3>5
    <3>7. t = w
      BY <2>3, <3>1, <3>5, <3>6, SeqSame
    <3> QED BY <1>2, <2>3, <2>6, <3>4, <3>7 DEF t
  <2> QED BY <1>7, <2>5, <2>6
<1>10. UpFits(c)'
  BY <1>1, <1>2, <1>9, QuietFits
<1>11. /\ IsSeq(p) /\ Len(p) = Len(u) + 1
       /\ \A j \in 1 .. Len(u) : p[j] = u[j]
  BY <1>7, SeqAppend
<1> HIDE DEF p
<1>12. \/ out'[c] = out[c] \o p /\ api'[c] = "receiving"
       \/ api'[c] = "releasing" /\ Over(out'[c], made[c], Acked(out[c]))
  <2>1. Seen(out[c]) + Len(u) <= Len(made[c]) /\ Len(p) \in {Len(u), Len(u) + 1}
    BY <1>7, <1>8, <1>11
  <2> QED BY <1>2, <1>5, <1>7, <1>8, <1>11, <2>1, EmitTells
<1>13. CASE api'[c] = "releasing" /\ Over(out'[c], made[c], Acked(out[c]))
  BY <1>1, <1>2, <1>9, <1>10, <1>13, ReleasedFits DEF Seqs
<1>14. CASE out'[c] = out[c] \o p /\ api'[c] = "receiving"
  <2> DEFINE o == out[c] \o u
  <2>1. /\ IsSeq(o) /\ TellsMade(o, made[c]) /\ AcksInOrder(o) /\ GoesOn(o)
        /\ Seen(o) = Len(made[c]) /\ Acked(o) = Acked(out[c])
    <3>1. Seen(out[c]) + Len(u) <= Len(made[c])
      BY <1>7, <1>8
    <3> QED BY <1>5, <1>7, <1>8, <3>1, UpdatesTell DEF Talks
  <2>2. out'[c] = Append(o, e)
    <3>1. PICK S : out[c] \in Seq(S) /\ u \in Seq(S)
      BY <1>5, <1>7, SeqCommon DEF Talks
    <3>2. PICK T : T = S \cup {e}
      OBVIOUS
    <3>3. out[c] \in Seq(T) /\ u \in Seq(T) /\ e \in T
      BY <3>1, <3>2, SeqMonotonic
    <3>4. <<e>> \in Seq(T)
      BY <3>3
    <3>5. ASSUME NEW s1 \in Seq(T), NEW s2 \in Seq(T), NEW s3 \in Seq(T)
          PROVE  (s1 \o s2) \o s3 = s1 \o (s2 \o s3)
      BY ConcatAssociative
    <3>6. out[c] \o (u \o <<e>>) = (out[c] \o u) \o <<e>>
      BY <3>3, <3>4, <3>5, Zenon
    <3>7. u \o <<e>> = p
      BY <1>7, ConcatOne DEF p
    <3>8. o \o <<e>> = Append(o, e)
      BY <2>1, ConcatOne
    <3> QED BY <1>14, <3>6, <3>7, <3>8
  <2> HIDE DEF o
  <2>3. /\ IsSeq(out'[c]) /\ TellsMade(out'[c], made[c]) /\ AcksInOrder(out'[c])
        /\ Seen(out'[c]) = Len(made[c]) /\ Acked(out'[c]) = Acked(out[c]) + 1 /\ GoesOn(out'[c])
    <3>1. e.seq = Acked(o) + 1
      BY <1>3, <1>6, <2>1
    <3>2. PICK q : q = out'[c]
      OBVIOUS
    <3>3. /\ IsSeq(q) /\ TellsMade(q, made[c]) /\ AcksInOrder(q)
          /\ Seen(q) = Seen(o) /\ Acked(q) = Acked(o) + 1 /\ GoesOn(q)
      <4>1. q = Append(o, e)
        BY <2>2, <3>2
      <4>2. IsSeq(o) /\ TellsMade(o, made[c]) /\ AcksInOrder(o) /\ GoesOn(o)
        BY <2>1
      <4> QED BY <1>6, <3>1, <4>1, <4>2, AckTells
    <3> QED BY <2>1, <3>2, <3>3
  <2>4. Seqs(c)'
    BY <1>1, <1>2, <1>9, <2>3 DEF Seqs
  <2>5. Phase(c)'
    BY <1>1, <1>2, <1>3, <1>4, <1>9, <1>14, <2>3 DEF Phase, Idle
  <2>6. Story(c)'
    <3>1. frames[c] = sess[c].heard
      BY <1>1, <1>4 DEF UpFits, Waits
    <3>2. Acked(out'[c]) <= Len(sess[c].heard)
      <4>1. Len(frames[c]) \in Nat
        BY <1>1, SeqShape DEF Seqs
      <4> QED BY <1>3, <2>3, <3>1, <4>1
    <3> QED BY <1>2, <2>3, <3>2 DEF Story, GoesOn, LastWords
  <2> QED BY <1>10, <2>4, <2>5, <2>6 DEF Ok
<1> QED BY <1>12, <1>13, <1>14
LEMMA ClientClosesOk ==
    ASSUME Domains, NEW c \in Connections, Ok(c), ClientCloses(c)
    PROVE  Ok(c)'
<1> DEFINE u == Provisional(Updates(c))
<1>1. Seqs(c) /\ UpFits(c) /\ Phase(c) /\ Story(c)
  BY DEF Ok
<1>2. /\ api[c] \in {"pushing", "finishing"} /\ cl'[c] = "closed"
      /\ UNCHANGED <<svc, sess, made, up, frames, closer>>
  BY DEF ClientCloses, Client, Domains, service
<1>3. Talks(out[c], made[c])
  BY <1>2, TalksNow
<1>4. CASE cl[c] = "failing" /\ ApiLeaves(c, "close") /\ UNCHANGED down
  <2>1. svc[c] # "none"
    BY <1>1, <1>4 DEF UpFits
  <2>2. UpFits(c)'
    BY <1>1, <1>2, <1>4, <2>1, QuietFits
  <2>3. api'[c] = "releasing" /\ Over(out'[c], made[c], Acked(out[c]))
    BY <1>3, <1>4, LeavesTells
  <2> QED BY <1>1, <1>2, <1>4, <2>2, <2>3, ReleasedFits DEF Seqs
<1>5. CASE cl[c] = "closing" /\ Emit(c, u, "analyzing") /\ down' = [down EXCEPT ![c] = <<>>]
  <2>1. /\ api[c] = "finishing" /\ svc[c] = "ended" /\ ~Waits(c) /\ Answer(c)
        /\ Acked(out[c]) = Len(frames[c])
    BY <1>1, <1>2, <1>5 DEF Phase
  <2>2. down'[c] = <<>> /\ IsSeq(down'[c])
    BY <1>5, SeqOfNone DEF Domains
  <2>3. UpFits(c)' /\ Waits(c)' = Waits(c)
    BY <1>1, <1>2, <2>1, QuietFits
  <2>4. /\ IsSeq(u) /\ Len(u) \in Nat /\ Seen(out[c]) + Len(u) = Len(made[c])
        /\ \A j \in 1 .. Len(u) : /\ u[j].type \in {"partial", "provisional_final"}
                                  /\ u[j].update = made[c][Seen(out[c]) + j]
    BY <1>1, <2>1, AnswerShows
  <2> HIDE DEF u
  <2>5. Len(made[c]) \in Nat /\ Seen(out[c]) + Len(u) <= Len(made[c]) /\ IsSeq(made[c])
    BY <1>1, <2>4, SeqShape DEF Seqs
  <2>6. \/ out'[c] = out[c] \o u /\ api'[c] = "analyzing"
        \/ api'[c] = "releasing" /\ Over(out'[c], made[c], Acked(out[c]))
    BY <1>3, <1>5, <2>4, <2>5, EmitTells
  <2>7. CASE api'[c] = "releasing" /\ Over(out'[c], made[c], Acked(out[c]))
    BY <1>1, <1>2, <2>2, <2>3, <2>7, ReleasedFits DEF Seqs
  <2>8. CASE out'[c] = out[c] \o u /\ api'[c] = "analyzing"
    <3>1. /\ IsSeq(out'[c]) /\ TellsMade(out'[c], made[c]) /\ AcksInOrder(out'[c]) /\ GoesOn(out'[c])
          /\ Seen(out'[c]) = Len(made[c]) /\ Acked(out'[c]) = Acked(out[c])
      <4>1. PICK o, q : o = out[c] /\ q = o \o u
        OBVIOUS
      <4>2. /\ IsSeq(q) /\ TellsMade(q, made[c]) /\ AcksInOrder(q) /\ GoesOn(q)
            /\ Seen(q) = Seen(o) + Len(u) /\ Acked(q) = Acked(o)
        BY <1>3, <2>4, <2>5, <4>1, UpdatesTell DEF Talks
      <4> QED BY <2>4, <2>8, <4>1, <4>2
    <3>2. Seqs(c)'
      BY <1>1, <1>2, <2>2, <3>1 DEF Seqs
    <3>3. Phase(c)'
      BY <1>1, <1>2, <2>1, <2>3, <2>8, <3>1 DEF Phase
    <3>4. Story(c)'
      BY <1>1, <1>2, <3>1 DEF Story, GoesOn, LastWords
    <3> QED BY <2>3, <3>2, <3>3, <3>4 DEF Ok
  <2> QED BY <2>6, <2>7, <2>8
<1> QED BY <1>4, <1>5 DEF ClientCloses

LEMMA AnalyzedOk ==
    ASSUME Domains, NEW c \in Connections, Ok(c), Analyzed(c)
    PROVE  Ok(c)'
<1> DEFINE e == [type |-> "reconciled", frames |-> frames[c]]
<1>1. Seqs(c) /\ UpFits(c) /\ Phase(c) /\ Story(c)
  BY DEF Ok
<1>2. /\ api[c] = "analyzing"
      /\ UNCHANGED <<svc, sess, made, up, down, cl, frames, closer>>
  BY DEF Analyzed, service
<1>3. Talks(out[c], made[c])
  BY <1>2, TalksNow
<1>4. CASE ApiLeaves(c, "close")
  <2>1. api'[c] = "releasing" /\ Over(out'[c], made[c], Acked(out[c]))
    BY <1>3, <1>4, LeavesTells
  <2> QED BY <1>2, <2>1, OverFits
<1>5. CASE Emit(c, <<e>>, "releasing")
  <2>1. e.type = "reconciled" /\ e.frames = frames[c]
    OBVIOUS
  <2> HIDE DEF e
  <2>2. PICK w, p : w = <<>> /\ p = <<e>>
    OBVIOUS
  <2>3. IsSeq(w) /\ Len(w) = 0
    BY <2>2, SeqOfNone
  <2>4. IsSeq(p) /\ Len(p) = 1 /\ Emit(c, p, "releasing")
    BY <1>5, <2>2, SeqOfOne
  <2>5. Seen(out[c]) + Len(w) <= Len(made[c]) /\ IsSeq(made[c])
    BY <1>1, <1>3, <2>3, Counts DEF Talks, TellsMade, Seqs
  <2>6. Len(p) \in {Len(w), Len(w) + 1} /\ \A j \in 1 .. Len(w) : FALSE
    BY <2>3, <2>4
  <2>7. \/ out'[c] = out[c] \o p /\ api'[c] = "releasing"
        \/ api'[c] = "releasing" /\ Over(out'[c], made[c], Acked(out[c]))
    BY <1>3, <2>3, <2>4, <2>5, <2>6, EmitTells
  <2>8. CASE api'[c] = "releasing" /\ Over(out'[c], made[c], Acked(out[c]))
    BY <1>2, <2>8, OverFits
  <2>9. CASE out'[c] = out[c] \o p /\ api'[c] = "releasing"
    <3>1. PICK o, q : o = out[c] /\ q = Append(o, e)
      OBVIOUS
    <3>2. out'[c] = q
      BY <1>3, <2>2, <2>9, <3>1, ConcatOne DEF Talks
    <3>3. e.type \in LastWords
      BY <2>1 DEF LastWords
    <3>4. /\ IsSeq(q) /\ TellsMade(q, made[c]) /\ AcksInOrder(q)
          /\ Seen(q) = Seen(o) /\ Acked(q) = Acked(o)
          /\ \A i \in DOMAIN q : q[i].type \in LastWords => i = Len(q) /\ q[i] = e
      BY <1>3, <3>1, <3>3, WordTells DEF Talks
    <3>5. Seqs(c)'
      BY <1>1, <1>2, <3>2, <3>4 DEF Seqs
    <3>6. UpFits(c)' /\ Waits(c)' = Waits(c)
      BY <1>1, <1>2, QuietFits
    <3>7. Phase(c)'
      BY <1>1, <1>2, <2>9 DEF Phase
    <3>8. /\ svc[c] = "ended" /\ ~Waits(c) /\ Acked(out[c]) = Len(frames[c])
          /\ Seen(out[c]) = Len(made[c]) /\ Acked(out[c]) <= Len(sess[c].heard)
      BY <1>1, <1>2 DEF Phase, Story
    <3>9. \A i \in DOMAIN q : q[i].type = "reconciled" => q[i].frames = frames[c]
      BY <2>1, <3>4 DEF LastWords
    <3>10. Story(c)'
      BY <1>2, <2>9, <3>1, <3>2, <3>4, <3>6, <3>8, <3>9 DEF Story
    <3> QED BY <3>5, <3>6, <3>7, <3>10 DEF Ok
  <2> QED BY <2>7, <2>8, <2>9
<1> QED BY <1>4, <1>5 DEF Analyzed

LEMMA CloserOk ==
    ASSUME Domains, NEW c \in Connections, Ok(c), CloserRuns(c)
    PROVE  Ok(c)'
<1> DEFINE e == [type |-> "close"]
<1>1. Seqs(c) /\ UpFits(c) /\ Phase(c) /\ Story(c)
  BY DEF Ok
<1>2. /\ c \in closer /\ closer' = closer \ {c}
      /\ UNCHANGED <<svc, sess, made, down, api, frames, out>>
      /\ \/ UNCHANGED <<cl, up>>
         \/ cl[c] = "open" /\ SendUp(c, e)
  BY DEF CloserRuns, service
<1>3. api[c] = "ended" /\ e.type # "frame"
  BY <1>1, <1>2 DEF Phase
<1> HIDE DEF e
<1>4. IsSeq(up'[c]) /\ UpFits(c)' /\ Waits(c)' = Waits(c)
  <2>1. CASE UNCHANGED <<cl, up>>
    <3>1. UpFits(c)' /\ Waits(c)' = Waits(c)
      BY <1>1, <1>2, <2>1, QuietFits
    <3> QED BY <1>1, <2>1, <3>1 DEF Seqs
  <2>2. CASE cl[c] = "open" /\ SendUp(c, e)
    <3>1. svc[c] # "none"
      BY <1>1, <2>2 DEF UpFits
    <3> QED BY <1>1, <1>2, <1>3, <2>2, <3>1, SentFits
  <2> QED BY <1>2, <2>1, <2>2
<1>5. Seqs(c)'
  BY <1>1, <1>2, <1>4 DEF Seqs
<1>6. Phase(c)'
  BY <1>2, <1>3 DEF Phase
<1>7. Story(c)'
  BY <1>1, <1>2, <1>4 DEF Story
<1> QED BY <1>4, <1>5, <1>6, <1>7 DEF Ok

-----------------------------------------------------------------------------
(* The whole *)

\* A connection that nothing happens to.
LEMMA OthersOk ==
    ASSUME NEW k, Ok(k),
           svc'[k] = svc[k], up'[k] = up[k], down'[k] = down[k], made'[k] = made[k], sess'[k] = sess[k],
           api'[k] = api[k], cl'[k] = cl[k], frames'[k] = frames[k], out'[k] = out[k],
           k \in closer' <=> k \in closer
    PROVE  Ok(k)'
<1>1. Seqs(k)' /\ UpFits(k)' /\ Story(k)'
  BY DEF Ok, Seqs, UpFits, Waits, Story
<1>2. Phase(k)'
  BY DEF Ok, Phase, Opening, Idle, Exchange, Answer, Cut, Waits
<1> QED BY <1>1, <1>2 DEF Ok

LEMMA EdgeStepOk ==
    ASSUME Domains, NEW c \in Connections, Ok(c), EdgeStep(c)
    PROVE  Ok(c)'
BY RefuseOk, StartedOk, OpenFailsOk, EndOk, PushOk, PushAnsweredOk, ClientFailsOk, FinishAnsweredOk,
   ClientClosesOk, AnalyzedOk, ApiExpiresOk, CloserOk DEF EdgeStep

Told == \A c \in Connections : Ok(c)

LEMMA EdgeKeepsTold ==
    ASSUME Domains, Told, NEW c \in Connections, EdgeStep(c)
    PROVE  Told'
<1>1. Ok(c)'
  BY EdgeStepOk DEF Told
<1>2. UNCHANGED <<svc, sess, made>> /\ ApiMoves(c)
  BY EdgeMoves
<1>3. closer' \in {closer, closer \ {c}}
  BY DEF EdgeStep, Refuse, Opened, OpenFails, End, Push, ApiRejects, PushAnswered, ClientFails,
         FinishAnswered, ClientCloses, Analyzed, ApiExpires, CloserRuns
<1>4. ASSUME NEW k \in Connections \ {c}
      PROVE  Ok(k)'
  <2>1. Ok(k)
    BY DEF Told
  <2> QED BY <1>2, <1>3, <2>1, OthersOk DEF ApiMoves
<1> QED BY <1>1, <1>4 DEF Told

LEMMA ServeKeepsTold ==
    ASSUME Limits, Told, NEW c \in Connections, Serve(c)
    PROVE  Told'
<1>1. UNCHANGED edge /\ ServiceNext(c) /\ Session(c) /\ Fresh(c) /\ Ok(c) /\ Domains
  BY DEF Serve, Limits, Told
<1>2. Ok(c)'
  <2>1. Does(c)
    BY <1>1, ServiceDoes DEF Ok
  <2> QED BY <1>1, <2>1, ServiceTells
<1>3. Elsewhere(c)
  BY <1>1, ServiceFits DEF ServiceKeeps
<1>4. UNCHANGED <<api, cl, frames, out, closer>>
  BY <1>1 DEF edge
<1>5. ASSUME NEW k \in Connections \ {c}
      PROVE  Ok(k)'
  <2>1. Ok(k)
    BY DEF Told
  <2> QED BY <1>3, <1>4, <2>1, OthersOk DEF Elsewhere
<1> QED BY <1>2, <1>5 DEF Told

LEMMA SlotKeepsTold ==
    ASSUME Limits, Told, NEW c \in Connections,
           \/ Acquire(c) \/ Release(c)
           \/ \E codec \in load[c].codecs : Start(c, codec)
    PROVE  Told'
<1>1. Ok(c)'
  BY SlotOk, StartOk DEF Limits, Told
<1>2. /\ UNCHANGED <<sess, made, down, frames, out>>
      /\ closer' \in {closer, closer \cup {c}}
      /\ \A k \in Connections \ {c} :
            svc'[k] = svc[k] /\ up'[k] = up[k] /\ api'[k] = api[k] /\ cl'[k] = cl[k]
  <2>1. CASE Acquire(c) \/ Release(c)
    BY <2>1 DEF Acquire, Release, Go, service, Limits, Domains
  <2>2. ASSUME NEW codec, Start(c, codec)
        PROVE  /\ UNCHANGED <<sess, made, down, frames, out, closer>>
               /\ \A k \in Connections \ {c} :
                     svc'[k] = svc[k] /\ up'[k] = up[k] /\ api'[k] = api[k] /\ cl'[k] = cl[k]
    BY <2>2 DEF Start, Go, Client, SendUp, Limits, Domains
  <2> QED BY <2>1, <2>2
<1>3. ASSUME NEW k \in Connections \ {c}
      PROVE  Ok(k)'
  <2>1. Ok(k)
    BY DEF Told
  <2> QED BY <1>2, <2>1, OthersOk
<1> QED BY <1>1, <1>3 DEF Told

LEMMA StutterKeepsTold ==
    ASSUME Told, UNCHANGED vars
    PROVE  Told'
<1>1. UNCHANGED <<svc, up, down, sess, made, api, cl, frames, out, closer>>
  BY DEF vars, service, edge
<1>2. ASSUME NEW k \in Connections
      PROVE  Ok(k)'
  <2>1. Ok(k)
    BY DEF Told
  <2> QED BY <1>1, <2>1, OthersOk
<1> QED BY <1>2 DEF Told

LEMMA NextKeepsTold ==
    ASSUME Limits, Told, [Next]_vars
    PROVE  Told'
BY NextCases, EdgeKeepsTold, ServeKeepsTold, SlotKeepsTold, StutterKeepsTold DEF Limits

LEMMA InitTold == Init => Told
<1> SUFFICES ASSUME Init, NEW c \in Connections PROVE Ok(c)
  BY DEF Told
<1>1. /\ svc[c] = "none" /\ up[c] = <<>> /\ down[c] = <<>> /\ made[c] = <<>> /\ api[c] = "new"
      /\ cl[c] = "none" /\ frames[c] = <<>> /\ out[c] = <<>> /\ closer = {}
      /\ sess[c].heard = <<>>
  BY DEF Init, InitService, NewSession
<1>2. IsSeq(<<>>) /\ Len(<<>>) = 0 /\ DOMAIN <<>> = 1 .. 0
  BY SeqOfNone, SeqShape
<1>3. Seqs(c) /\ Phase(c)
  BY <1>1, <1>2 DEF Seqs, Phase
<1>4. UpFits(c)
  BY <1>1, <1>2 DEF UpFits, Waits
<1>5. ShownIn(<<>>) = {} /\ AcksIn(<<>>) = {}
  BY <1>2 DEF ShownIn, AcksIn
<1>6. Seen(<<>>) = 0 /\ Acked(<<>>) = 0
  BY <1>5, FS_EmptySet DEF Seen, Acked
<1>7. TellsMade(<<>>, <<>>) /\ AcksInOrder(<<>>) /\ GoesOn(<<>>)
  BY <1>2, <1>5, <1>6 DEF TellsMade, AcksInOrder, GoesOn
<1>8. Story(c)
  BY <1>1, <1>2, <1>6, <1>7 DEF Story
<1> QED BY <1>3, <1>4, <1>8 DEF Ok

\* Wherever a push, a finish or an opening is on its way between the two
\* handlers: what is still to be read on the sockets is what the service made
\* or heard and the other side does not have yet.
THEOREM TranscriptInvariant == Spec => [](Limits /\ Told)
<1>1. Init => Limits /\ Told
  BY InitLimits, InitTold
<1>2. Limits /\ Told /\ [Next]_vars => (Limits /\ Told)'
  BY NextKeepsLimits, NextKeepsTold
<1> QED BY <1>1, <1>2, PTL DEF Spec

LEMMA ToldIsFaithful ==
    ASSUME Told
    PROVE  FaithfulTranscript
<1> SUFFICES ASSUME NEW c \in Connections
             PROVE  /\ Cardinality(Shown(c)) <= Len(made[c])
                    /\ \A i \in Shown(c) : out[c][i].update = made[c][Place(c, i)]
                    /\ IsPrefix(sess[c].heard, frames[c])
                    /\ Cardinality(Sent(c, "ack")) <= Len(sess[c].heard)
                    /\ \A i, j \in Sent(c, "ack") : i < j => out[c][i].seq < out[c][j].seq
                    /\ \A i \in Sent(c, "reconciled") :
                          /\ out[c][i].frames = sess[c].heard
                          /\ Cardinality(Sent(c, "ack")) = Len(sess[c].heard)
                          /\ Cardinality(Shown(c)) = Len(made[c])
                    /\ \A i \in DOMAIN out[c] : out[c][i].type \in LastWords => i = Len(out[c])
  BY DEF FaithfulTranscript
<1>1. Seqs(c) /\ UpFits(c) /\ Story(c)
  BY DEF Told, Ok
<1>2. Shown(c) = ShownIn(out[c]) /\ Sent(c, "ack") = AcksIn(out[c])
  BY DEF Shown, Sent, ShownIn, AcksIn
<1>3. /\ Cardinality(Shown(c)) = Seen(out[c]) /\ Cardinality(Sent(c, "ack")) = Acked(out[c])
      /\ \A i : Place(c, i) = Cardinality(Upto(ShownIn(out[c]), i))
  BY <1>2 DEF Seen, Acked, Place, Upto
<1>4. /\ Cardinality(Shown(c)) <= Len(made[c])
      /\ \A i \in Shown(c) : out[c][i].update = made[c][Place(c, i)]
  BY <1>1, <1>2, <1>3 DEF Story, TellsMade
<1>5. IsPrefix(sess[c].heard, frames[c])
  <2> DEFINE h == sess[c].heard
             f == frames[c]
  <2>1. IsSeq(h) /\ IsSeq(f)
    BY <1>1 DEF Seqs
  <2>2. f = h \/ \E e : f = Append(h, e)
    BY <1>1 DEF UpFits
  <2> HIDE DEF h, f
  <2>3. Len(h) \in Nat /\ Len(f) \in Nat /\ Len(h) <= Len(f) /\ \A i \in 1 .. Len(h) : f[i] = h[i]
    <3>1. CASE f = h
      BY <2>1, <3>1, SeqShape
    <3>2. ASSUME NEW e, f = Append(h, e)
          PROVE  Len(h) \in Nat /\ Len(f) = Len(h) + 1 /\ \A i \in 1 .. Len(h) : f[i] = h[i]
      BY <2>1, <3>2, SeqAppend
    <3> QED BY <2>2, <3>1, <3>2
  <2>4. /\ IsSeq(SubSeq(f, 1, Len(h))) /\ Len(SubSeq(f, 1, Len(h))) = Len(h)
        /\ \A i \in 1 .. Len(h) : SubSeq(f, 1, Len(h))[i] = f[i]
    <3>1. PICK n : n = Len(h)
      OBVIOUS
    <3>2. n \in 0 .. Len(f) /\ 1 \in 1 .. Len(f) + 1 /\ 1 <= n + 1 /\ n \in Nat
      BY <2>3, <3>1
    <3>3. /\ IsSeq(SubSeq(f, 1, n)) /\ Len(SubSeq(f, 1, n)) = n - 1 + 1
          /\ \A i \in 1 .. n - 1 + 1 : SubSeq(f, 1, n)[i] = f[1 + i - 1]
      BY <2>1, <3>2, SeqPart
    <3>4. n - 1 + 1 = n /\ \A i \in 1 .. n : 1 + i - 1 = i
      BY <3>2
    <3> QED BY <3>1, <3>3, <3>4
  <2>5. SubSeq(h, 1, Len(h)) = h
    BY <2>1, SubSeqFull DEF IsSeq
  <2>6. SubSeq(f, 1, Len(h)) = h
    <3>1. PICK q : q = SubSeq(f, 1, Len(h))
      OBVIOUS
    <3>2. IsSeq(q) /\ Len(q) = Len(h) /\ \A i \in 1 .. Len(q) : q[i] = h[i]
      BY <2>3, <2>4, <3>1
    <3>3. q = h
      BY <2>1, <3>2, SeqSame
    <3> QED BY <3>1, <3>3
  <2>7. IsPrefix(h, f)
    BY <2>3, <2>5, <2>6 DEF IsPrefix
  <2> QED BY <2>7 DEF h, f
<1>6. /\ Acked(out[c]) <= Len(sess[c].heard)
      /\ \A i, j \in Sent(c, "ack") : i < j => out[c][i].seq < out[c][j].seq
      /\ \A i \in DOMAIN out[c] : out[c][i].type \in LastWords => i = Len(out[c])
  BY <1>1, <1>2 DEF Story, AcksInOrder
<1>7. ASSUME NEW i \in Sent(c, "reconciled")
      PROVE  /\ out[c][i].frames = sess[c].heard
             /\ Acked(out[c]) = Len(sess[c].heard) /\ Seen(out[c]) = Len(made[c])
  <2>1. i \in DOMAIN out[c] /\ out[c][i].type = "reconciled"
    BY <1>7 DEF Sent
  <2>2. /\ ~Waits(c) /\ out[c][i].frames = frames[c]
        /\ Acked(out[c]) = Len(frames[c]) /\ Seen(out[c]) = Len(made[c])
    BY <1>1, <2>1 DEF Story
  <2>3. frames[c] = sess[c].heard
    BY <1>1, <2>2 DEF UpFits
  <2> QED BY <2>2, <2>3
<1> QED BY <1>3, <1>4, <1>5, <1>6, <1>7

\* Whatever happens on either socket and whichever deadline passes first, the
\* browser sees the updates of the session in order and from the first on, is
\* acknowledged frame by frame what the session took, and what is reconciled
\* is exactly the audio that was acknowledged and heard.
THEOREM TranscriptIsFaithful == Spec => []FaithfulTranscript
<1>1. Told => FaithfulTranscript
  BY ToldIsFaithful
<1> QED BY <1>1, TranscriptInvariant, PTL
=============================================================================
