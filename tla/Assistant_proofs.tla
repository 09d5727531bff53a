-------------------------- MODULE Assistant_proofs --------------------------
(***************************************************************************)
(* What the client of the assistant is sent, for every set of tools and    *)
(* every limit.  Three invariants: the types; the order of the frames with *)
(* what each phase knows of the text that is already out (Numbers, Text);  *)
(* and the tools, where those that were validated and are still to be      *)
(* announced are reserved in the counters of the loop guard (Counters).    *)
(***************************************************************************)
EXTENDS Assistant, FiniteSetTheorems, SequenceTheorems, TLAPS

USE ToolsAssumption, BoundsAssumption, ClientAssumption

-----------------------------------------------------------------------------
(* The invariants *)

Phases == {"new", "turn", "streaming", "announcing", "tools", "draining", "ended"}

AFrame ==
    [seq : Nat, type : {"start", "model", "tool", "delta", "done", "error"},
     label : Tools \cup {None, "quota_exceeded", "deadline_exceeded", "service_unavailable",
                         "provider_failure", "agent_failure"},
     marker : BOOLEAN]

\* What the fold of a stream may hold; its tool calls came one by one.
StreamFits ==
    /\ DOMAIN acc = {"text", "marker", "calls", "finish", "usage", "error"}
    /\ acc.text \in Nat /\ acc.marker \in BOOLEAN
    /\ IsFiniteSet(DOMAIN acc.calls)

Typed ==
    /\ phase \in Phases
    /\ StreamFits
    /\ counted \in Nat /\ expensive \in Nat /\ repeated \in [Tools -> Nat]
    /\ calls \in Seq(Tools) /\ announced \in 0 .. Len(calls)
    /\ out \in Seq(AFrame)

\* The numbers of the frames, and where the special ones are.
Numbers ==
    /\ \A i \in DOMAIN out : out[i].seq = i /\ (out[i].type = "start" <=> i = 1)
    /\ \A i \in DOMAIN out : out[i].type \in {"done", "error"} => i = Len(out) /\ phase = "ended"
    /\ \A i \in DOMAIN out : out[i].type = "tool" => out[i].label \in Tools
    /\ phase # "ended" => sequence = Len(out)
    /\ phase = "new" => out = <<>>
    /\ phase \notin {"new", "ended"} => out # <<>>

\* Text is out only of the stream that is being read, after all else.
Text ==
    /\ phase \in {"new", "turn", "announcing", "tools", "draining"} => Sent("delta") = {}
    /\ phase = "streaming" =>
          /\ acc.text = 0 <=> Sent("delta") = {}
          /\ \A i \in Sent("delta") :
                /\ \A j \in Sent("model") \cup Sent("tool") : j < i
                /\ out[i].marker => acc.marker
    /\ AnswerIsLastTurn

Frames == Typed /\ Numbers /\ Text

\* The calls of a tool that were published, and those that still are to be.
Told(x) == {i \in Sent("tool") : out[i].label = x}
Left(x) == {k \in announced + 1 .. Len(calls) : calls[k] = x}

\* The loop guard has counted every call before any of its round is published.
Reserved ==
    /\ Cardinality(Sent("tool")) + (Len(calls) - announced) <= counted
    /\ counted <= MaxToolCalls
    /\ Cardinality(Told(Trends)) + Cardinality(Left(Trends)) <= expensive
    /\ expensive <= MaxExpensive
    /\ \A x \in Tools :
          /\ Cardinality(Told(x)) + Cardinality(Left(x)) <= repeated[x]
          /\ repeated[x] <= MaxRepeated

\* When there is a round of tools, how far it is, and when its tasks run.
Rounds ==
    /\ phase \in {"new", "turn", "streaming"} => calls = <<>> /\ announced = 0
    /\ phase \in {"tools", "draining"} => announced = Len(calls)
    /\ phase \notin {"tools", "draining", "ended"} => task = <<>>
    /\ phase = "ended" => Settled

Counters == Reserved /\ Rounds

-----------------------------------------------------------------------------
(* A frame more *)

LEMMA Grows ==
    ASSUME out \in Seq(AFrame), NEW f \in AFrame, out' = Append(out, f)
    PROVE  /\ out' \in Seq(AFrame)
           /\ Len(out) \in Nat /\ Len(out') = Len(out) + 1
           /\ DOMAIN out = 1 .. Len(out) /\ DOMAIN out' = 1 .. Len(out) + 1
           /\ \A i \in 1 .. Len(out) : out'[i] = out[i]
           /\ out'[Len(out) + 1] = f
BY AppendProperties, LenProperties

LEMMA SentGrows ==
    ASSUME out \in Seq(AFrame), NEW f \in AFrame, out' = Append(out, f), NEW type
    PROVE  /\ f.type = type => Sent(type)' = Sent(type) \cup {Len(out) + 1}
           /\ f.type # type => Sent(type)' = Sent(type)
           /\ Sent(type) \subseteq 1 .. Len(out)
BY Grows DEF Sent

LEMMA ErrorFits ==
    ASSUME Typed, NEW code
    PROVE  /\ ErrorFrame(code) \in AFrame /\ ErrorFrame(code).type = "error"
           /\ Numbers => ErrorFrame(code).seq = Len(out) + 1
<1>1. PublicCode(code) \in {"quota_exceeded", "deadline_exceeded", "service_unavailable",
                            "provider_failure", "agent_failure"}
  BY DEF PublicCode
<1>2. Len(out) \in Nat /\ (out # <<>> => Len(out) > 0) /\ DOMAIN out = 1 .. Len(out)
  BY EmptySeq, LenProperties DEF Typed
<1>3. out # <<>> => out[Len(out)] \in AFrame
  BY <1>2, ElementOfSeq DEF Typed
<1>4. (IF out = <<>> THEN 0 ELSE out[Len(out)].seq) \in Nat
  BY <1>3 DEF AFrame
<1>5. out = <<>> => Len(out) = 0
  BY EmptySeq
<1>6. ErrorFrame(code) \in AFrame /\ ErrorFrame(code).type = "error"
  BY <1>1, <1>4 DEF ErrorFrame, Frame, AFrame
<1>7. ErrorFrame(code).seq = (IF out = <<>> THEN 0 ELSE out[Len(out)].seq) + 1
  BY DEF ErrorFrame, Frame
<1>8. Numbers /\ out # <<>> => out[Len(out)].seq = Len(out)
  BY <1>2 DEF Numbers
<1> QED BY <1>2, <1>5, <1>6, <1>7, <1>8

\* A generator that raises sends its error last, whatever is out already.
LEMMA FailKeepsNumbers ==
    ASSUME Typed, Numbers, phase \notin {"new", "ended"}, NEW code, Fail(code)
    PROVE  /\ phase' = "ended" /\ out' \in Seq(AFrame)
           /\ Numbers' /\ Text'
           /\ \A type : type # "error" => Sent(type)' = Sent(type)
<1> DEFINE f == ErrorFrame(code)
<1>1. f \in AFrame /\ f.type = "error" /\ f.seq = Len(out) + 1 /\ out' = Append(out, f)
  BY ErrorFits DEF Fail
<1>2. phase' = "ended" /\ out' \in Seq(AFrame)
  BY <1>1, Grows DEF Fail, Typed
<1>3. \A type : type # "error" => Sent(type)' = Sent(type)
  BY <1>1, SentGrows DEF Typed
<1>4. Len(out) # 0 /\ Len(out) \in Nat
  BY EmptySeq DEF Typed, Numbers
<1>5. Numbers'
  BY <1>1, <1>2, <1>4, Grows DEF Numbers, Typed
<1>6. Sent("done")' = {}
  <2>1. Sent("done")' = Sent("done")
    BY <1>3
  <2> QED BY <2>1 DEF Numbers, Sent
<1>7. Text'
  BY <1>2, <1>6 DEF Text, AnswerIsLastTurn
<1> QED BY <1>2, <1>3, <1>5, <1>7

\* An event of the generator after the start.
LEMMA PublishKeepsNumbers ==
    ASSUME Typed, Numbers, phase \notin {"new", "ended"}, phase' \notin {"new", "ended"},
           NEW type \in {"model", "tool", "delta"}, NEW label \in Tools \cup {None},
           type = "tool" => label \in Tools,
           NEW marker \in BOOLEAN, Publish(type, label, marker)
    PROVE  /\ out' \in Seq(AFrame) /\ Numbers'
           /\ \A other : Sent(other)' =
                 IF other = type THEN Sent(other) \cup {Len(out) + 1} ELSE Sent(other)
           /\ \A other : Sent(other) \subseteq 1 .. Len(out)
           /\ \A i \in 1 .. Len(out) : out'[i] = out[i]
           /\ out'[Len(out) + 1].marker = marker /\ out'[Len(out) + 1].label = label
           /\ Len(out) \in Nat
<1> DEFINE f == Frame(Len(out) + 1, type, label, marker)
<1>1. Len(out) \in Nat \ {0}
  BY EmptySeq, LenProperties DEF Typed, Numbers
<1>2. f \in AFrame /\ f.type = type /\ f.seq = Len(out) + 1 /\ f.label = label /\ f.marker = marker
  BY <1>1 DEF Frame, AFrame
<1>3. out' = Append(out, f) /\ sequence' = Len(out) + 1
  BY DEF Publish, Numbers
<1>4. Numbers'
  BY <1>1, <1>2, <1>3, Grows DEF Numbers, Typed
<1> QED BY <1>1, <1>2, <1>3, <1>4, Grows, SentGrows DEF Typed

-----------------------------------------------------------------------------
(* The fold of a stream *)

LEMMA EmptyFits == acc' = EmptyStream => StreamFits'
<1>1. IsFiniteSet({})
  BY FS_EmptySet
<1> QED BY <1>1 DEF EmptyStream, StreamFits

LEMMA WithFits ==
    ASSUME StreamFits, NEW index, NEW part
    PROVE  IsFiniteSet(DOMAIN With(acc.calls, index, part))
BY FS_AddElement DEF StreamFits, With

\* A part without text leaves the text as it is.
LEMMA FoldFits ==
    ASSUME StreamFits, NEW next,
           \/ \E index \in Indexes, id \in CallIds, name \in Names :
                 next = TakeHead(acc, index, id, name)
           \/ \E index \in Indexes : next = TakeArguments(acc, index)
           \/ \E reason \in Finishes : next = TakeFinish(acc, reason)
           \/ \E tokens \in 1 .. MaxOutput : next = TakeUsage(acc, tokens)
    PROVE  /\ acc' = next => StreamFits'
           /\ next.text = acc.text /\ next.marker = acc.marker
<1>1. ASSUME NEW index, NEW id, NEW name, next = TakeHead(acc, index, id, name)
      PROVE  /\ acc' = next => StreamFits'
             /\ next.text = acc.text /\ next.marker = acc.marker
  <2> DEFINE part == [PartAt(acc, index) EXCEPT !.id = id, !.name = name]
  <2>1. CASE next = Rejected(acc)
    BY <2>1 DEF Rejected, StreamFits
  <2>2. CASE next = [acc EXCEPT !.calls = With(@, index, part)]
    BY <2>2, WithFits DEF StreamFits
  <2> QED BY <1>1, <2>1, <2>2 DEF TakeHead
<1>2. ASSUME NEW index, next = TakeArguments(acc, index)
      PROVE  /\ acc' = next => StreamFits'
             /\ next.text = acc.text /\ next.marker = acc.marker
  BY <1>2, WithFits DEF TakeArguments, StreamFits
<1>3. ASSUME NEW reason, next = TakeFinish(acc, reason)
      PROVE  /\ acc' = next => StreamFits'
             /\ next.text = acc.text /\ next.marker = acc.marker
  BY <1>3 DEF TakeFinish, StreamFits
<1>4. ASSUME NEW tokens, next = TakeUsage(acc, tokens)
      PROVE  /\ acc' = next => StreamFits'
             /\ next.text = acc.text /\ next.marker = acc.marker
  BY <1>4 DEF TakeUsage, StreamFits
<1> QED BY <1>1, <1>2, <1>3, <1>4

\* The calls of a response are a sequence, however they came in.
LEMMA AnswerIsSequence ==
    ASSUME StreamFits, NEW answer, answer = CallsInOrder(acc)
    PROVE  \E n \in Nat :
              /\ n = Cardinality(DOMAIN acc.calls)
              /\ answer \in Seq({answer[i] : i \in 1 .. n})
              /\ DOMAIN answer = 1 .. n /\ Len(answer) = n
<1> DEFINE n == Cardinality(DOMAIN acc.calls)
<1>1. n \in Nat
  BY FS_CardinalityType DEF StreamFits
<1>2. DOMAIN answer = 1 .. n
  BY DEF CallsInOrder
<1>3. answer \in [1 .. n -> {answer[i] : i \in 1 .. n}]
  BY <1>2 DEF CallsInOrder
<1>4. answer \in Seq({answer[i] : i \in 1 .. n})
  BY <1>1, <1>3, SeqDef
<1>5. Len(answer) = n
  BY <1>1, <1>2, <1>4, LenProperties
<1> QED BY <1>1, <1>2, <1>4, <1>5

-----------------------------------------------------------------------------
(* The steps *)

\* Frames, when nothing is sent and the stream read is not another one.
LEMMA SilenceKeepsFrames ==
    ASSUME Frames, Typed', UNCHANGED <<out, sequence>>,
           \/ phase' = phase /\ acc'.text = acc.text /\ acc'.marker = acc.marker
           \/ phase \notin {"new", "ended"} /\ phase' = "ended"
           \/ phase = "new" /\ phase' = "ended"
           \/ /\ phase \in {"turn", "announcing", "tools", "draining"}
              /\ phase' \in {"turn", "announcing", "tools", "draining"}
           \/ phase = "streaming" /\ phase' = "announcing" /\ acc.text = 0
    PROVE  Frames'
<1>1. Numbers'
  BY DEF Frames, Numbers
<1>2. \A type : Sent(type)' = Sent(type)
  BY DEF Sent
<1>3. /\ Sent("done")' = Sent("done") /\ Sent("delta")' = Sent("delta")
      /\ Sent("model")' = Sent("model") /\ Sent("tool")' = Sent("tool")
  BY <1>2
<1>4. AnswerIsLastTurn'
  BY <1>3 DEF Frames, Text, AnswerIsLastTurn
<1>5. phase' # "streaming" \/ (phase' = phase /\ acc'.text = acc.text /\ acc'.marker = acc.marker)
  OBVIOUS
<1>6. phase' \in {"new", "turn", "announcing", "tools", "draining"} => Sent("delta") = {}
  <2>1. CASE phase = "streaming" /\ phase' = "announcing" /\ acc.text = 0
    BY <2>1 DEF Frames, Text
  <2> QED BY <2>1 DEF Frames, Text
<1>7. Text'
  BY <1>3, <1>4, <1>5, <1>6 DEF Frames, Text
<1> QED BY <1>1, <1>7 DEF Frames

LEMMA FailKeepsFrames ==
    ASSUME Frames, Typed', phase \notin {"new", "ended"}, NEW code, Fail(code)
    PROVE  Frames'
BY FailKeepsNumbers DEF Frames

\* The types of what a failure leaves alone.
LEMMA FailKeepsTyped ==
    ASSUME Frames, phase \notin {"new", "ended"}, NEW code, Fail(code),
           StreamFits', UNCHANGED <<counted, expensive, repeated>>,
           \/ UNCHANGED <<calls, announced>>
           \/ calls' = <<>> /\ announced' = 0
    PROVE  Typed'
<1>1. phase' \in Phases /\ out' \in Seq(AFrame)
  BY FailKeepsNumbers DEF Frames, Phases
<1>2. <<>> \in Seq(Tools) /\ 0 \in 0 .. Len(<<>>)
  BY EmptySeq
<1>3. calls' \in Seq(Tools) /\ announced' \in 0 .. Len(calls')
  BY <1>2 DEF Frames, Typed
<1> QED BY <1>1, <1>3 DEF Frames, Typed

\* One lemma per action that is not a failure or a silence.
LEMMA StartKeepsFrames == Frames /\ Start => Frames'
<1> SUFFICES ASSUME Frames, Start PROVE Frames'
  OBVIOUS
<1> DEFINE f == Frame(1, "start", None, FALSE)
<1>1. out = <<>> /\ Len(out) = 0 /\ out \in Seq(AFrame) /\ sequence = 0
  BY EmptySeq DEF Start, Frames, Typed, Numbers
<1>2. f \in AFrame /\ f.type = "start" /\ f.seq = 1
  BY DEF Frame, AFrame
<1>3. out' = Append(out, f) /\ sequence' = 1 /\ phase' = "turn"
  BY <1>1 DEF Start, Publish
<1>4. /\ out' \in Seq(AFrame) /\ Len(out') = 1 /\ DOMAIN out' = {1} /\ out'[1] = f
      /\ out' # <<>>
  <2>1. /\ out' \in Seq(AFrame) /\ Len(out') = Len(out) + 1
        /\ DOMAIN out' = 1 .. Len(out) + 1 /\ out'[Len(out) + 1] = f
    BY <1>1, <1>2, <1>3, Grows
  <2>2. Len(out) + 1 = 1
    BY <1>1
  <2>3. Len(out') = 1 /\ DOMAIN out' = 1 .. 1 /\ out'[1] = f
    BY <2>1, <2>2
  <2>4. out' # <<>>
    BY <2>3, EmptySeq
  <2>5. 1 .. 1 = {1}
    OBVIOUS
  <2> QED BY <2>1, <2>3, <2>4, <2>5
<1>5. Typed'
  BY <1>3, <1>4 DEF Start, budget, tools, Frames, Typed, StreamFits, Phases
<1>6. Numbers'
  BY <1>2, <1>3, <1>4 DEF Numbers
<1>7. Sent("done")' = {} /\ Sent("delta")' = {}
  BY <1>2, <1>4 DEF Sent
<1> QED BY <1>3, <1>5, <1>6, <1>7 DEF Frames, Text, AnswerIsLastTurn

LEMMA BeginTurnKeepsFrames == Frames /\ BeginTurn => Frames'
<1> SUFFICES ASSUME Frames, BeginTurn PROVE Frames'
  OBVIOUS
<1>1. phase = "turn" /\ UNCHANGED <<counted, expensive, repeated, calls, announced>>
  BY DEF BeginTurn, budget, tools
<1>2. ASSUME NEW code, Fail(code), UNCHANGED acc
      PROVE  Frames'
  <2>1. Typed'
    BY <1>1, <1>2, FailKeepsTyped DEF Frames, Typed, StreamFits
  <2> QED BY <1>1, <1>2, <2>1, FailKeepsFrames
<1>3. ASSUME phase' = "streaming", acc' = EmptyStream, Publish("model", None, FALSE)
      PROVE  Frames'
  <2>1. /\ out' \in Seq(AFrame) /\ Numbers'
        /\ \A other : Sent(other)' =
              IF other = "model" THEN Sent(other) \cup {Len(out) + 1} ELSE Sent(other)
    BY <1>1, <1>3, PublishKeepsNumbers DEF Frames
  <2>2. Typed'
    BY <1>1, <1>3, <2>1, EmptyFits DEF Frames, Typed, Phases
  <2>3. Sent("delta")' = Sent("delta") /\ Sent("done")' = Sent("done")
    BY <2>1
  <2>4. Sent("delta") = {} /\ Sent("done") = {}
    BY <1>1 DEF Frames, Text, Numbers, Sent
  <2> QED BY <1>3, <2>1, <2>2, <2>3, <2>4 DEF Frames, Text, AnswerIsLastTurn, EmptyStream
<1> QED BY <1>2, <1>3 DEF BeginTurn

LEMMA TextDeltaKeepsFrames ==
    ASSUME Frames, NEW marker \in BOOLEAN, TextDelta(marker)
    PROVE  Frames'
<1>1. phase = "streaming" /\ UNCHANGED <<counted, expensive, repeated, calls, announced>>
  BY DEF TextDelta, budget, tools
<1>2. CASE acc.text < MaxAnswer
  <2>1. acc' = TakeText(acc, marker) /\ Publish("delta", None, marker) /\ phase' = phase
    BY <1>2 DEF TextDelta
  <2>2. /\ out' \in Seq(AFrame) /\ Numbers'
        /\ \A other : Sent(other)' =
              IF other = "delta" THEN Sent(other) \cup {Len(out) + 1} ELSE Sent(other)
        /\ \A other : Sent(other) \subseteq 1 .. Len(out)
        /\ \A i \in 1 .. Len(out) : out'[i] = out[i]
        /\ out'[Len(out) + 1].marker = marker /\ Len(out) \in Nat
    BY <1>1, <2>1, PublishKeepsNumbers DEF Frames
  <2>3. acc'.text = acc.text + 1 /\ acc'.marker = (acc.marker \/ marker) /\ StreamFits'
    BY <2>1 DEF TakeText, Frames, Typed, StreamFits
  <2>4. Typed'
    BY <1>1, <2>1, <2>2, <2>3 DEF Frames, Typed, Phases
  <2>5. /\ Sent("delta")' = Sent("delta") \cup {Len(out) + 1}
        /\ Sent("model")' = Sent("model") /\ Sent("tool")' = Sent("tool")
        /\ Sent("done")' = Sent("done")
        /\ Sent("model") \subseteq 1 .. Len(out) /\ Sent("tool") \subseteq 1 .. Len(out)
        /\ Sent("delta") \subseteq 1 .. Len(out)
    BY <2>2
  <2>6. Sent("done") = {}
    BY <1>1 DEF Frames, Numbers, Sent
  <2>7. \A i \in Sent("delta")' :
           /\ \A j \in Sent("model")' \cup Sent("tool")' : j < i
           /\ out'[i].marker => acc'.marker
    <3>1. ASSUME NEW i \in Sent("delta")
          PROVE  /\ \A j \in Sent("model") \cup Sent("tool") : j < i
                 /\ out'[i].marker => acc'.marker
      BY <1>1, <2>2, <2>3, <2>5, <3>1 DEF Frames, Text
    <3> QED BY <2>2, <2>3, <2>5, <3>1
  <2>8. acc'.text # 0 /\ Sent("delta")' # {}
    <3>1. acc'.text = acc.text + 1 /\ acc.text \in Nat
      BY <2>3 DEF Frames, Typed, StreamFits
    <3> QED BY <2>5, <3>1
  <2> QED BY <1>1, <2>1, <2>2, <2>4, <2>5, <2>6, <2>7, <2>8 DEF Frames, Text, AnswerIsLastTurn
<1>3. CASE ~(acc.text < MaxAnswer)
  <2>1. Fail("text_completion_rejected") /\ acc' = EmptyStream
    BY <1>3 DEF TextDelta
  <2>2. Typed'
    BY <1>1, <2>1, FailKeepsTyped, EmptyFits
  <2> QED BY <1>1, <2>1, <2>2, FailKeepsFrames
<1> QED BY <1>2, <1>3

LEMMA SilentPartKeepsFrames == Frames /\ SilentPart => Frames'
<1> SUFFICES ASSUME Frames, NEW next, Fold(next),
                    \/ \E index \in Indexes, id \in CallIds, name \in Names :
                          next = TakeHead(acc, index, id, name)
                    \/ \E index \in Indexes : next = TakeArguments(acc, index)
                    \/ \E reason \in Finishes : next = TakeFinish(acc, reason)
                    \/ \E tokens \in 1 .. MaxOutput : next = TakeUsage(acc, tokens)
             PROVE  Frames'
  BY DEF SilentPart
<1>1. phase = "streaming" /\ UNCHANGED <<counted, expensive, repeated, calls, announced>>
  BY DEF Fold, budget, tools
<1>2. (acc' = next => StreamFits') /\ next.text = acc.text /\ next.marker = acc.marker
  BY FoldFits DEF Frames, Typed
<1>3. CASE next.error
  <2>1. Fail("malformed_provider_response") /\ acc' = EmptyStream
    BY <1>3 DEF Fold
  <2>2. Typed'
    BY <1>1, <2>1, FailKeepsTyped, EmptyFits
  <2> QED BY <1>1, <2>1, <2>2, FailKeepsFrames
<1>4. CASE ~next.error
  <2>1. acc' = next /\ UNCHANGED <<phase, sequence, out>>
    BY <1>4 DEF Fold
  <2>2. Typed'
    BY <1>1, <1>2, <2>1 DEF Frames, Typed
  <2> QED BY <1>2, <2>1, <2>2, SilenceKeepsFrames
<1> QED BY <1>3, <1>4

LEMMA ProviderFailsKeepsFrames ==
    ASSUME Frames, NEW code, ProviderFails(code)
    PROVE  Frames'
<1>1. /\ phase = "streaming" /\ Fail(code) /\ acc' = EmptyStream
      /\ UNCHANGED <<counted, expensive, repeated, calls, announced>>
  BY DEF ProviderFails, budget, tools
<1>2. Typed'
  BY <1>1, FailKeepsTyped, EmptyFits
<1> QED BY <1>1, <1>2, FailKeepsFrames

LEMMA AnnounceToolKeepsFrames == Frames /\ AnnounceTool => Frames'
<1> SUFFICES ASSUME Frames, AnnounceTool PROVE Frames'
  OBVIOUS
<1>1. /\ phase = "announcing" /\ phase' = phase /\ announced < Len(calls)
      /\ announced' = announced + 1 /\ Publish("tool", calls[announced + 1], FALSE)
      /\ UNCHANGED <<acc, counted, expensive, repeated, calls>>
  BY DEF AnnounceTool, budget
<1>2. announced \in Nat /\ Len(calls) \in Nat /\ announced' \in 0 .. Len(calls)
  BY <1>1, LenProperties DEF Frames, Typed
<1>3. calls[announced + 1] \in Tools
  BY <1>1, <1>2, ElementOfSeq DEF Frames, Typed
<1>4. /\ out' \in Seq(AFrame) /\ Numbers'
      /\ \A other : Sent(other)' =
            IF other = "tool" THEN Sent(other) \cup {Len(out) + 1} ELSE Sent(other)
  BY <1>1, <1>3, PublishKeepsNumbers DEF Frames
<1>5. Typed'
  BY <1>1, <1>2, <1>4 DEF Frames, Typed, StreamFits
<1>6. Sent("delta")' = Sent("delta") /\ Sent("done")' = Sent("done")
  BY <1>4
<1>7. Sent("delta") = {} /\ Sent("done") = {}
  BY <1>1 DEF Frames, Text, Numbers, Sent
<1> QED BY <1>1, <1>4, <1>5, <1>6, <1>7 DEF Frames, Text, AnswerIsLastTurn

\* What the end of a stream is: an error, the answer, or a round of tools.
LEMMA TurnEndsCases ==
    ASSUME Frames, TurnEnds
    PROVE  /\ phase = "streaming" /\ acc' = EmptyStream /\ permit' = "free"
           /\ \/ /\ \E code : Fail(code)
                 /\ UNCHANGED <<budget, tools>>
              \/ /\ FinalAccepted(acc) /\ acc.text # 0
                 /\ phase' = "ended" /\ Publish("done", None, FALSE)
                 /\ UNCHANGED <<counted, expensive, repeated, tools>>
              \/ \E answer :
                    /\ answer = CallsInOrder(acc) /\ acc.text = 0
                    /\ ValidCalls(answer) /\ WithinLoopGuard(answer)
                    /\ phase' = "announcing"
                    /\ counted' = counted + Len(answer)
                    /\ expensive' = expensive + CountOf(answer, Trends)
                    /\ repeated' = [t \in Tools |-> repeated[t] + CountOf(answer, t)]
                    /\ calls' = [n \in DOMAIN answer |-> answer[n].name]
                    /\ announced' = 0
                    /\ UNCHANGED <<task, cause, sequence, out>>
<1> DEFINE answer  == CallsInOrder(acc)
           verdict == EndError(acc, MaxOutput - spent)
           failure ==
             CASE verdict # None -> verdict
               [] answer = <<>> /\ acc.text = 0 -> "unexpected_runtime_failure"
               [] answer = <<>> /\ ~FinalAccepted(acc) -> "text_completion_rejected"
               [] answer # <<>> /\ ~ToolTurnAccepted(acc) -> "malformed_provider_response"
               [] answer # <<>> /\ ~ValidCalls(answer) -> "unknown_tool"
               [] answer # <<>> /\ ~WithinLoopGuard(answer) -> "tool_loop_guard"
               [] OTHER -> None
<1>1. phase = "streaming" /\ acc' = EmptyStream /\ permit' = "free"
  BY DEF TurnEnds
<1>2. \/ (\E code : Fail(code)) /\ UNCHANGED <<budget, tools>>
      \/ /\ failure = None
         /\ IF answer = <<>>
            THEN /\ phase' = "ended"
                 /\ Publish("done", None, FALSE)
                 /\ UNCHANGED <<counted, expensive, repeated, tools>>
            ELSE /\ phase' = "announcing"
                 /\ counted' = counted + Len(answer)
                 /\ expensive' = expensive + CountOf(answer, Trends)
                 /\ repeated' = [t \in Tools |-> repeated[t] + CountOf(answer, t)]
                 /\ calls' = [n \in DOMAIN answer |-> answer[n].name]
                 /\ announced' = 0
                 /\ UNCHANGED <<task, cause, sequence, out>>
  BY DEF TurnEnds
<1>3. failure = None =>
         IF answer = <<>>
         THEN acc.text # 0 /\ FinalAccepted(acc)
         ELSE ToolTurnAccepted(acc) /\ ValidCalls(answer) /\ WithinLoopGuard(answer)
  BY NoneAssumption
<1> HIDE DEF failure, answer, verdict
<1>4. answer = CallsInOrder(acc)
  BY DEF answer
<1> QED BY <1>1, <1>2, <1>3, <1>4 DEF ToolTurnAccepted

\* The calls that were validated are tools of the deployment.
LEMMA RoundFits ==
    ASSUME Typed, NEW answer, answer = CallsInOrder(acc), ValidCalls(answer),
           NEW named, named = [n \in DOMAIN answer |-> answer[n].name]
    PROVE  /\ named \in Seq(Tools) /\ Len(named) = Len(answer)
           /\ DOMAIN answer = 1 .. Len(answer) /\ Len(answer) \in Nat
           /\ \A t : /\ IsFiniteSet({i \in DOMAIN answer : answer[i].name = t})
                     /\ CountOf(answer, t) \in Nat
<1>1. PICK n \in Nat : DOMAIN answer = 1 .. n /\ Len(answer) = n
  BY AnswerIsSequence DEF Typed
<1>2. named \in [1 .. n -> Tools]
  BY <1>1 DEF ValidCalls
<1>3. named \in Seq(Tools)
  BY <1>2, SeqDef
<1>4. Len(named) = n
  BY <1>1, <1>2, <1>3, LenProperties
<1>5. \A t : /\ IsFiniteSet({i \in DOMAIN answer : answer[i].name = t})
            /\ CountOf(answer, t) \in Nat
  <2> TAKE t
  <2>1. IsFiniteSet(1 .. n) /\ {i \in DOMAIN answer : answer[i].name = t} \in SUBSET (1 .. n)
    BY <1>1, FS_Interval
  <2> QED BY <2>1, FS_Subset, FS_CardinalityType DEF CountOf
<1> QED BY <1>1, <1>3, <1>4, <1>5

LEMMA TurnEndsKeepsFrames == Frames /\ TurnEnds => Frames'
<1> SUFFICES ASSUME Frames, TurnEnds PROVE Frames'
  OBVIOUS
<1>1. phase = "streaming" /\ acc' = EmptyStream
  BY TurnEndsCases
<1>2. ASSUME NEW code, Fail(code), UNCHANGED <<budget, tools>>
      PROVE  Frames'
  <2>1. Typed'
    BY <1>1, <1>2, FailKeepsTyped, EmptyFits DEF budget, tools
  <2> QED BY <1>1, <1>2, <2>1, FailKeepsFrames
<1>3. ASSUME FinalAccepted(acc), acc.text # 0, phase' = "ended", Publish("done", None, FALSE),
             UNCHANGED <<counted, expensive, repeated, tools>>
      PROVE  Frames'
  <2> DEFINE f == Frame(Len(out) + 1, "done", None, FALSE)
  <2>1. Len(out) \in Nat \ {0}
    BY <1>1, EmptySeq, LenProperties DEF Frames, Typed, Numbers
  <2>2. f \in AFrame /\ f.type = "done" /\ f.seq = Len(out) + 1
    BY <2>1 DEF Frame, AFrame
  <2>3. out' = Append(out, f)
    BY <1>1, <1>3 DEF Publish, Frames, Numbers
  <2>4. /\ out' \in Seq(AFrame) /\ Len(out') = Len(out) + 1
        /\ DOMAIN out = 1 .. Len(out) /\ DOMAIN out' = 1 .. Len(out) + 1
        /\ \A i \in 1 .. Len(out) : out'[i] = out[i]
        /\ out'[Len(out) + 1] = f
    BY <2>2, <2>3, Grows DEF Frames, Typed
  <2>5. Typed'
    BY <1>1, <1>3, <2>4, EmptyFits DEF Frames, Typed, Phases, tools
  <2> HIDE DEF f
  <2>6. Numbers'
    BY <1>1, <1>3, <2>1, <2>2, <2>4 DEF Frames, Numbers
  <2>7. /\ Sent("delta")' = Sent("delta")
        /\ Sent("model")' = Sent("model") /\ Sent("tool")' = Sent("tool")
    BY <2>2, <2>3, SentGrows DEF Frames, Typed
  <2>8. AnswerIsLastTurn'
    <3>1. Sent("delta") # {} /\ ~acc.marker
      BY <1>1, <1>3 DEF Frames, Text, FinalAccepted
    <3>2. \A i \in Sent("delta") : ~out'[i].marker
      BY <1>1, <2>4, <3>1 DEF Frames, Text, Sent
    <3>3. \A i \in Sent("delta") : \A j \in Sent("model") \cup Sent("tool") : j < i
      BY <1>1 DEF Frames, Text
    <3> QED BY <2>7, <3>1, <3>2, <3>3 DEF AnswerIsLastTurn
  <2> QED BY <1>3, <2>5, <2>6, <2>8 DEF Frames, Text
<1>4. ASSUME NEW answer, answer = CallsInOrder(acc), acc.text = 0, ValidCalls(answer),
             phase' = "announcing", counted' = counted + Len(answer),
             expensive' = expensive + CountOf(answer, Trends),
             repeated' = [t \in Tools |-> repeated[t] + CountOf(answer, t)],
             calls' = [n \in DOMAIN answer |-> answer[n].name],
             announced' = 0, UNCHANGED <<sequence, out>>
      PROVE  Frames'
  <2>0. Typed
    BY DEF Frames
  <2>1. /\ calls' \in Seq(Tools) /\ Len(calls') = Len(answer) /\ Len(answer) \in Nat
        /\ \A t : CountOf(answer, t) \in Nat
    BY <1>4, <2>0, RoundFits
  <2>2. counted' \in Nat /\ expensive' \in Nat /\ repeated' \in [Tools -> Nat]
    BY <1>4, <2>1 DEF Frames, Typed
  <2>3. Typed'
    BY <1>1, <1>4, <2>1, <2>2, EmptyFits DEF Frames, Typed, Phases
  <2> QED BY <1>1, <1>4, <2>3, SilenceKeepsFrames
<1> QED BY <1>2, <1>3, <1>4, TurnEndsCases

LEMMA ToolsCompleteKeepsFrames ==
    ASSUME Frames, NEW tokens, ToolsComplete(tokens)
    PROVE  Frames'
<1>1. /\ phase = "tools" /\ calls' = <<>> /\ announced' = 0
      /\ UNCHANGED <<acc, counted, expensive, repeated>>
  BY DEF ToolsComplete
<1>2. StreamFits'
  BY <1>1 DEF Frames, Typed, StreamFits
<1>3. CASE Fail("budget_exceeded")
  <2>1. Typed'
    BY <1>1, <1>2, <1>3, FailKeepsTyped
  <2> QED BY <1>1, <1>3, <2>1, FailKeepsFrames
<1>4. CASE phase' = "turn" /\ UNCHANGED <<sequence, out>>
  <2>1. <<>> \in Seq(Tools) /\ 0 \in 0 .. Len(<<>>)
    BY EmptySeq
  <2>2. Typed'
    BY <1>1, <1>2, <1>4, <2>1 DEF Frames, Typed, Phases
  <2> QED BY <1>1, <1>4, <2>2, SilenceKeepsFrames
<1> QED BY <1>3, <1>4 DEF ToolsComplete

LEMMA DrainEndsKeepsFrames == Frames /\ DrainEnds => Frames'
<1> SUFFICES ASSUME Frames, DrainEnds PROVE Frames'
  OBVIOUS
<1>1. phase = "draining" /\ UNCHANGED <<acc, counted, expensive, repeated, calls, announced>>
  BY DEF DrainEnds, budget, tools
<1>2. StreamFits'
  BY <1>1 DEF Frames, Typed, StreamFits
<1>3. CASE Fail("tool_execution_failed")
  <2>1. Typed'
    BY <1>1, <1>2, <1>3, FailKeepsTyped
  <2> QED BY <1>1, <1>3, <2>1, FailKeepsFrames
<1>4. CASE phase' = "ended" /\ UNCHANGED <<sequence, out>>
  <2>1. Typed'
    BY <1>1, <1>2, <1>4 DEF Frames, Typed, Phases
  <2> QED BY <1>1, <1>4, <2>1, SilenceKeepsFrames
<1> QED BY <1>3, <1>4 DEF DrainEnds

LEMMA DisconnectKeepsFrames == Frames /\ (Disconnect \/ DisconnectSeen) => Frames'
<1> SUFFICES ASSUME Frames, Disconnect \/ DisconnectSeen PROVE Frames'
  OBVIOUS
<1>1. /\ UNCHANGED <<counted, expensive, repeated, calls, announced, sequence, out>>
      /\ \/ /\ phase \in {"new", "turn", "streaming", "announcing"}
            /\ phase' = "ended" /\ acc' = EmptyStream
         \/ /\ phase \in {"tools", "draining"} /\ phase' = "draining" /\ acc' = acc
  BY DEF Disconnect, DisconnectSeen, budget, tools
<1>2. StreamFits'
  BY <1>1, EmptyFits DEF Frames, Typed, StreamFits
<1>3. Typed'
  BY <1>1, <1>2 DEF Frames, Typed, Phases
<1> QED BY <1>1, <1>3, SilenceKeepsFrames

\* What the tools do among themselves, and the loop's hook for generators.
LEMMA SilentStepsKeepFrames ==
    ASSUME Frames,
           \/ RunTools \/ ToolsFail \/ CloseAbandoned \/ UNCHANGED vars
           \/ \E i \in DOMAIN task : ToolEnds(i)
    PROVE  Frames'
<1>1. /\ UNCHANGED <<acc, counted, expensive, repeated, calls, announced, sequence, out>>
      /\ \/ phase' = phase
         \/ phase = "announcing" /\ phase' = "tools"
         \/ phase = "tools" /\ phase' = "draining"
  BY DEF RunTools, ToolsFail, CloseAbandoned, ToolEnds, vars, budget, tools
<1>2. StreamFits'
  BY <1>1 DEF Frames, Typed, StreamFits
<1>3. Typed'
  BY <1>1, <1>2 DEF Frames, Typed, Phases
<1> QED BY <1>1, <1>3, SilenceKeepsFrames

-----------------------------------------------------------------------------
(* The frames of every reachable state *)

LEMMA InitFrames == Init => Frames
<1> SUFFICES ASSUME Init PROVE Frames
  OBVIOUS
<1>1. out = <<>> /\ calls = <<>> /\ phase = "new" /\ sequence = 0 /\ acc = EmptyStream
  BY DEF Init
<1>2. <<>> \in Seq(AFrame) /\ <<>> \in Seq(Tools) /\ Len(<<>>) = 0 /\ DOMAIN <<>> = {}
  BY EmptySeq
<1>3. StreamFits
  BY <1>1, FS_EmptySet DEF EmptyStream, StreamFits
<1>4. Typed
  BY <1>1, <1>2, <1>3 DEF Init, Typed, Phases
<1>5. Sent("done") = {} /\ Sent("delta") = {}
  BY <1>1, <1>2 DEF Sent
<1> QED BY <1>1, <1>2, <1>4, <1>5 DEF Frames, Numbers, Text, AnswerIsLastTurn

LEMMA NextKeepsFrames == Frames /\ [Next]_vars => Frames'
<1> SUFFICES ASSUME Frames, [Next]_vars PROVE Frames'
  OBVIOUS
<1>1. CASE Start
  BY <1>1, StartKeepsFrames
<1>2. CASE BeginTurn
  BY <1>2, BeginTurnKeepsFrames
<1>3. CASE \E marker \in BOOLEAN : TextDelta(marker)
  BY <1>3, TextDeltaKeepsFrames
<1>4. CASE SilentPart
  BY <1>4, SilentPartKeepsFrames
<1>5. CASE \E code \in Refusals : ProviderFails(code)
  BY <1>5, ProviderFailsKeepsFrames
<1>6. CASE TurnEnds
  BY <1>6, TurnEndsKeepsFrames
<1>7. CASE AnnounceTool
  BY <1>7, AnnounceToolKeepsFrames
<1>8. CASE \E tokens \in 0 .. MaxOutput : ToolsComplete(tokens)
  BY <1>8, ToolsCompleteKeepsFrames
<1>9. CASE DrainEnds
  BY <1>9, DrainEndsKeepsFrames
<1>10. CASE Disconnect \/ DisconnectSeen
  BY <1>10, DisconnectKeepsFrames
<1>11. CASE \/ RunTools \/ ToolsFail \/ CloseAbandoned \/ UNCHANGED vars
            \/ \E i \in DOMAIN task : ToolEnds(i)
  BY <1>11, SilentStepsKeepFrames
<1> QED BY <1>1, <1>2, <1>3, <1>4, <1>5, <1>6, <1>7, <1>8, <1>9, <1>10, <1>11 DEF Next, Finished

\* At every moment: the types of the state, the numbers and places of the
\* frames, and what each phase of the loop knows of the text that is out.
THEOREM FramesInvariant == Spec => []Frames
<1> QED BY InitFrames, NextKeepsFrames, PTL DEF Spec

-----------------------------------------------------------------------------
(* What the chat makes of them *)

\* A prefix of the stream that holds its last frame, a "done", is read to the
\* end, if the chat has room for it.
LEMMA FinishedIsTaken ==
    ASSUME Frames, Sent("done") # {}, Len(out) <= MaxEvents
    PROVE  \A i \in 1 .. Len(out) : Readable(out, i)
<1>1. DOMAIN out = 1 .. Len(out) /\ Len(out) \in Nat
  BY LenProperties DEF Frames, Typed
<1>2. out[Len(out)].type = "done" /\ Len(out) \in 1 .. Len(out)
  BY <1>1 DEF Frames, Numbers, Sent
<1>3. TAKE i \in 1 .. Len(out)
<1>4. i <= MaxEvents /\ i \in Nat \ {0}
  BY <1>1
<1>5. out[i] \in AFrame /\ out[i].seq = i /\ (out[i].type = "start" <=> i = 1)
  BY <1>1, ElementOfSeq DEF Frames, Typed, Numbers
<1>6. out[i].type # "error"
  BY <1>1, <1>2 DEF Frames, Numbers
<1>7. ~Seen(out, i, "done")
  BY <1>1, <1>4 DEF Seen, Frames, Numbers
<1>8. i # 1 => Seen(out, i, "start")
  BY <1>1, <1>4 DEF Seen, Frames, Numbers
<1>9. out[i].type = "tool" => out[i].label \in PublicTools
  BY <1>1 DEF Frames, Numbers
<1> QED BY <1>4, <1>5, <1>6, <1>7, <1>8, <1>9 DEF Readable, ProgressReadable, AFrame

LEMMA FramesAgree == Frames => ChatAgrees
<1> SUFFICES ASSUME Frames, NEW n \in 0 .. Len(out)
             PROVE  Shown(SubSeq(out, 1, n)) = "answer" <=>
                       n = Len(out) /\ Sent("done") # {} /\ n <= MaxEvents
  BY DEF ChatAgrees
<1> DEFINE w == SubSeq(out, 1, n)
<1>1. DOMAIN out = 1 .. Len(out) /\ Len(out) \in Nat /\ n \in Nat /\ n <= Len(out)
  BY LenProperties DEF Frames, Typed
<1>2. /\ DOMAIN w = 1 .. n /\ Len(w) = n
      /\ \A i \in 1 .. n : w[i] = out[i]
  BY <1>1, SubSeqProperties DEF Frames, Typed
<1> HIDE DEF w
<1>3. Shown(w) = "answer" <=> /\ Taken(w) = DOMAIN w
                             /\ Seen(w, Len(w) + 1, "done")
                             /\ TextsOf(w) # {}
  BY DEF Shown
<1>4. ASSUME Shown(w) = "answer"
      PROVE  n = Len(out) /\ Sent("done") # {} /\ n <= MaxEvents
  <2>1. PICK j \in 1 .. n : w[j].type = "done"
    BY <1>1, <1>2, <1>3, <1>4 DEF Seen
  <2>2. j \in Nat /\ 1 <= j /\ j <= n
    BY <1>1
  <2>3. j \in DOMAIN out /\ out[j].type = "done"
    BY <1>1, <1>2, <2>1, <2>2
  <2>4. j = Len(out) /\ j \in Sent("done")
    BY <2>3 DEF Frames, Numbers, Sent
  <2>5. Len(out) <= n /\ 1 <= n
    BY <1>1, <2>2, <2>4
  <2>6. n = Len(out)
    <3> DEFINE l == Len(out)
    <3>1. l \in Nat /\ n \in Nat /\ n <= l /\ l <= n
      BY <1>1, <2>5
    <3> HIDE DEF l
    <3>2. n = l
      BY <3>1
    <3> QED BY <3>2 DEF l
  <2>7. Readable(w, n)
    <3>1. n \in 1 .. n
      BY <1>1, <2>5
    <3> QED BY <1>2, <1>3, <1>4, <3>1 DEF Taken
  <2> QED BY <2>4, <2>6, <2>7 DEF Readable
<1>5. ASSUME n = Len(out), Sent("done") # {}, n <= MaxEvents
      PROVE  Shown(w) = "answer"
  <2>1. \A i \in 1 .. n : Readable(out, i)
    BY <1>5, FinishedIsTaken
  <2>2. ASSUME NEW i \in 1 .. n
        PROVE  Readable(w, i)
    <3>1. i \in Nat /\ Readable(out, i) /\ w[i] = out[i]
      BY <1>1, <1>2, <2>1
    <3>2. \A j \in 1 .. i - 1 : w[j] = out[j]
      BY <1>1, <1>2, <3>1
    <3>3. Seen(w, i, "start") = Seen(out, i, "start") /\ Seen(w, i, "done") = Seen(out, i, "done")
      BY <3>2 DEF Seen
    <3> QED BY <3>1, <3>3 DEF Readable, ProgressReadable
  <2>3. Taken(w) = DOMAIN w
    <3>1. ASSUME NEW i \in DOMAIN w, NEW j \in 1 .. i
          PROVE  Readable(w, j)
      BY <1>1, <1>2, <2>2
    <3> QED BY <3>1 DEF Taken
  <2>4. Seen(w, Len(w) + 1, "done")
    BY <1>1, <1>2, <1>5 DEF Seen, Sent
  <2>5. PICK i \in 1 .. n : out[i].type = "delta"
    BY <1>1, <1>5 DEF Frames, Text, AnswerIsLastTurn, Sent
  <2>6. i \in TextsOf(w)
    BY <1>2, <2>3, <2>5 DEF TextsOf
  <2> QED BY <1>3, <2>3, <2>4, <2>6
<1>6. Shown(w) = "answer" <=> n = Len(out) /\ Sent("done") # {} /\ n <= MaxEvents
  BY <1>4, <1>5
<1> QED BY <1>6 DEF w

\* What the client reads is a well formed, validated answer: no gap in the
\* numbers, one end that is the last frame, text of the last turn only and
\* without tool protocol, and a chat that takes a stream for an answer exactly
\* if it has all of a finished one, wherever the connection breaks off.
THEOREM PublishedStreamHolds == Spec => []PublishedStream
<1>1. Frames => PublishedStream
  <2>1. Frames => FrameOrder
    BY DEF Frames, Numbers, FrameOrder, Sent
  <2>2. Frames => AnswerIsLastTurn
    BY DEF Frames, Text
  <2> QED BY <2>1, <2>2, FramesAgree DEF PublishedStream
<1> QED BY <1>1, FramesInvariant, PTL

-----------------------------------------------------------------------------
(* The tools of a request *)

LEMMA ToldFinite ==
    ASSUME Typed, NEW x
    PROVE  /\ IsFiniteSet(Sent("tool")) /\ Cardinality(Sent("tool")) \in Nat
           /\ IsFiniteSet(Told(x)) /\ Cardinality(Told(x)) \in Nat
           /\ IsFiniteSet(Left(x)) /\ Cardinality(Left(x)) \in Nat
<1>1. IsFiniteSet(1 .. Len(out)) /\ IsFiniteSet(announced + 1 .. Len(calls))
  BY FS_Interval, LenProperties DEF Typed
<1>2. Sent("tool") \subseteq 1 .. Len(out)
  BY LenProperties DEF Typed, Sent
<1>3. Told(x) \subseteq Sent("tool") /\ Left(x) \subseteq announced + 1 .. Len(calls)
  BY DEF Told, Left
<1>4. IsFiniteSet(Sent("tool")) /\ IsFiniteSet(Left(x))
  BY <1>1, <1>2, <1>3, FS_Subset
<1>5. IsFiniteSet(Told(x))
  BY <1>3, <1>4, FS_Subset
<1> QED BY <1>4, <1>5, FS_CardinalityType

\* A frame that is no tool changes nothing of it.
LEMMA ToldKept ==
    ASSUME Typed, NEW f \in AFrame, out' = Append(out, f), f.type # "tool"
    PROVE  Sent("tool")' = Sent("tool") /\ \A x : Told(x)' = Told(x)
<1>1. Sent("tool")' = Sent("tool") /\ Sent("tool") \subseteq 1 .. Len(out)
  BY SentGrows DEF Typed
<1>2. \A i \in 1 .. Len(out) : out'[i] = out[i]
  BY Grows DEF Typed
<1>3. \A x : Told(x)' = Told(x)
  BY <1>1, <1>2 DEF Told
<1> QED BY <1>1, <1>3

LEMMA FailKeepsTold ==
    ASSUME Typed, NEW code, Fail(code)
    PROVE  Sent("tool")' = Sent("tool") /\ \A x : Told(x)' = Told(x)
BY ErrorFits, ToldKept DEF Fail

LEMMA PublishKeepsTold ==
    ASSUME Typed, Numbers, phase # "ended", NEW type \in {"start", "model", "delta", "done"},
           NEW marker \in BOOLEAN, Publish(type, None, marker)
    PROVE  Sent("tool")' = Sent("tool") /\ \A x : Told(x)' = Told(x)
<1> DEFINE f == Frame(Len(out) + 1, type, None, marker)
<1>1. Len(out) \in Nat /\ sequence = Len(out)
  BY LenProperties DEF Typed, Numbers
<1>2. f \in AFrame /\ f.type = type /\ out' = Append(out, f)
  BY <1>1 DEF Frame, AFrame, Publish
<1> QED BY <1>2, ToldKept

\* What is published does not change, and a round that is over is forgotten.
LEMMA ReservedKept ==
    ASSUME Reserved, Typed, Sent("tool")' = Sent("tool"), \A x : Told(x)' = Told(x),
           UNCHANGED <<counted, expensive, repeated>>,
           \/ UNCHANGED <<calls, announced>>
           \/ calls' = <<>> /\ announced' = 0
    PROVE  Reserved'
<1>1. CASE UNCHANGED <<calls, announced>>
  <2>1. Told(Trends)' = Told(Trends) /\ \A x : Left(x)' = Left(x)
    BY <1>1 DEF Left
  <2> QED BY <1>1, <2>1 DEF Reserved
<1>2. CASE calls' = <<>> /\ announced' = 0
  <2>1. Len(calls') = 0
    BY <1>2, EmptySeq
  <2>2. \A x : Left(x)' = {} /\ Cardinality(Left(x)') = 0
    <3>1. \A x : Left(x)' = {}
      BY <1>2, <2>1 DEF Left
    <3> QED BY <3>1, FS_EmptySet
  <2>3. Len(calls) - announced >= 0 /\ Len(calls) - announced \in Int
    BY LenProperties DEF Typed
  <2>4. Cardinality(Sent("tool"))' + (Len(calls') - announced') <= counted'
    <3>1. Cardinality(Sent("tool")) <= counted
      BY <2>3, ToldFinite DEF Reserved, Typed
    <3> QED BY <1>2, <2>1, <3>1, ToldFinite
  <2>5. ASSUME NEW x, NEW limit \in Nat,
               Cardinality(Told(x)) + Cardinality(Left(x)) <= limit
        PROVE  Cardinality(Told(x)') + Cardinality(Left(x)') <= limit
    <3>1. Told(x)' = Told(x) /\ Cardinality(Left(x)') = 0
      BY <2>2
    <3>2. Cardinality(Told(x)) \in Nat /\ Cardinality(Left(x)) \in Nat
      BY ToldFinite
    <3> QED BY <2>5, <3>1, <3>2
  <2> QED BY <2>4, <2>5 DEF Reserved, Typed
<1> QED BY <1>1, <1>2

\* The validated call is handed from those to be announced to those published.
LEMMA AnnounceKeepsReserved ==
    ASSUME Frames, Reserved, AnnounceTool
    PROVE  Reserved'
<1>1. /\ announced < Len(calls) /\ announced' = announced + 1
      /\ Publish("tool", calls[announced + 1], FALSE) /\ phase = "announcing"
      /\ UNCHANGED <<counted, expensive, repeated, calls>>
  BY DEF AnnounceTool, budget
<1>2. announced \in Nat /\ Len(calls) \in Nat /\ Len(out) \in Nat
  BY <1>1, LenProperties DEF Frames, Typed
<1>3. PICK called \in Tools : called = calls[announced + 1]
  BY <1>1, <1>2, ElementOfSeq DEF Frames, Typed
<1> DEFINE f == Frame(Len(out) + 1, "tool", called, FALSE)
<1>4. f \in AFrame /\ f.type = "tool" /\ f.label = called /\ out' = Append(out, f)
  <2>1. f \in AFrame /\ f.type = "tool" /\ f.label = called
    BY <1>2 DEF Frame, AFrame
  <2>2. sequence = Len(out)
    BY <1>1 DEF Frames, Numbers
  <2> QED BY <1>1, <1>3, <2>1, <2>2 DEF Publish
<1> HIDE DEF f
<1>5. /\ Sent("tool")' = Sent("tool") \cup {Len(out) + 1} /\ Sent("tool") \subseteq 1 .. Len(out)
      /\ \A i \in 1 .. Len(out) : out'[i] = out[i]
      /\ out'[Len(out) + 1] = f
  BY <1>4, SentGrows, Grows DEF Frames, Typed
<1>6. Len(out) + 1 \notin Sent("tool") /\ \A x : Len(out) + 1 \notin Told(x)
  BY <1>2, <1>5 DEF Told
<1>7. Cardinality(Sent("tool"))' = Cardinality(Sent("tool")) + 1
  BY <1>5, <1>6, FS_AddElement, ToldFinite DEF Frames
<1>8. ASSUME NEW x, x # called
      PROVE  Told(x)' = Told(x) /\ Left(x)' = Left(x)
  <2>1. Told(x)' = Told(x)
    BY <1>4, <1>5, <1>8 DEF Told
  <2>2. \A k : k \in announced + 1 .. Len(calls) /\ calls[k] = x
               <=> k \in announced + 2 .. Len(calls) /\ calls[k] = x
    BY <1>2, <1>3, <1>8
  <2>3. announced' + 1 = announced + 2 /\ calls' = calls
    BY <1>1, <1>2
  <2> QED BY <2>1, <2>2, <2>3 DEF Left
<1>9. /\ Cardinality(Told(called))' = Cardinality(Told(called)) + 1
      /\ Cardinality(Left(called))' = Cardinality(Left(called)) - 1
  <2>1. Told(called)' = Told(called) \cup {Len(out) + 1}
    BY <1>4, <1>5 DEF Told
  <2>2. Left(called)' = Left(called) \ {announced + 1} /\ announced + 1 \in Left(called)
    BY <1>1, <1>2, <1>3 DEF Left
  <2>3. Typed /\ IsFiniteSet(Told(called)) /\ IsFiniteSet(Left(called))
    BY ToldFinite DEF Frames
  <2>4. Cardinality(Told(called) \cup {Len(out) + 1}) = Cardinality(Told(called)) + 1
    BY <1>6, <2>3, FS_AddElement
  <2>5. Cardinality(Left(called) \ {announced + 1}) = Cardinality(Left(called)) - 1
    BY <2>2, <2>3, FS_RemoveElement
  <2> QED BY <2>1, <2>2, <2>4, <2>5
<1>10. ASSUME NEW x
       PROVE  Cardinality(Told(x))' + Cardinality(Left(x))' = Cardinality(Told(x)) + Cardinality(Left(x))
  <2>1. CASE x = called
    BY <1>9, <2>1, ToldFinite DEF Frames
  <2>2. CASE x # called
    BY <1>8, <2>2
  <2> QED BY <2>1, <2>2
<1>11. Cardinality(Sent("tool"))' + (Len(calls') - announced') <= counted'
  <2>1. Typed /\ Cardinality(Sent("tool")) \in Nat /\ counted \in Nat
    BY ToldFinite DEF Frames, Typed
  <2>2. Cardinality(Sent("tool")) + (Len(calls) - announced) <= counted
    BY DEF Reserved
  <2>3. calls' = calls /\ announced' = announced + 1 /\ counted' = counted
    BY <1>1
  <2> QED BY <1>2, <1>7, <2>1, <2>2, <2>3
<1> QED BY <1>1, <1>10, <1>11 DEF Reserved

\* A round is counted in full before its first tool is published.
LEMMA TurnEndsKeepsReserved ==
    ASSUME Frames, Counters, TurnEnds
    PROVE  Reserved'
<1>1. Typed /\ Numbers /\ phase = "streaming" /\ calls = <<>> /\ announced = 0 /\ Len(calls) = 0
  BY TurnEndsCases, EmptySeq DEF Frames, Counters, Rounds
<1>2. ASSUME NEW code, Fail(code), UNCHANGED <<budget, tools>>
      PROVE  Reserved'
  BY <1>1, <1>2, FailKeepsTold, ReservedKept DEF Counters, budget, tools
<1>3. ASSUME Publish("done", None, FALSE), UNCHANGED <<counted, expensive, repeated, tools>>
      PROVE  Reserved'
  BY <1>1, <1>3, PublishKeepsTold, ReservedKept DEF Counters, tools
<1>4. ASSUME NEW answer, answer = CallsInOrder(acc), ValidCalls(answer),
             WithinLoopGuard(answer), counted' = counted + Len(answer),
             expensive' = expensive + CountOf(answer, Trends),
             repeated' = [t \in Tools |-> repeated[t] + CountOf(answer, t)],
             calls' = [n \in DOMAIN answer |-> answer[n].name],
             announced' = 0, UNCHANGED out
      PROVE  Reserved'
  <2>1. /\ Len(calls') = Len(answer) /\ DOMAIN answer = 1 .. Len(answer) /\ Len(answer) \in Nat
        /\ \A t : CountOf(answer, t) \in Nat
    BY <1>1, <1>4, RoundFits
  <2>2. Sent("tool")' = Sent("tool") /\ \A x : Told(x)' = Told(x)
    BY <1>4 DEF Sent, Told
  <2>3. ASSUME NEW x
        PROVE  /\ Cardinality(Left(x)) = 0
               /\ Cardinality(Left(x))' = CountOf(answer, x)
               /\ Cardinality(Told(x))' = Cardinality(Told(x)) /\ Cardinality(Told(x)) \in Nat
    <3>1. Left(x) = {}
      BY <1>1 DEF Left
    <3>2. Left(x)' = {i \in DOMAIN answer : answer[i].name = x}
      BY <1>4, <2>1 DEF Left
    <3>3. Told(x)' = Told(x)
      BY <2>2
    <3> QED BY <1>1, <3>1, <3>2, <3>3, FS_EmptySet, ToldFinite DEF CountOf
  <2>4. /\ counted + Len(answer) <= MaxToolCalls
        /\ expensive + CountOf(answer, Trends) <= MaxExpensive
        /\ \A t \in Tools : repeated[t] + CountOf(answer, t) <= MaxRepeated
    BY <1>4 DEF WithinLoopGuard
  <2>5. Cardinality(Sent("tool"))' + (Len(calls') - announced') <= counted'
    <3>1. Cardinality(Sent("tool")) \in Nat /\ counted \in Nat
      BY <1>1, ToldFinite DEF Typed
    <3>2. Cardinality(Sent("tool")) <= counted
      BY <1>1, <3>1 DEF Counters, Reserved
    <3>3. Cardinality(Sent("tool"))' = Cardinality(Sent("tool"))
      BY <2>2
    <3> QED BY <1>4, <2>1, <3>1, <3>2, <3>3
  <2>6. Cardinality(Told(Trends))' + Cardinality(Left(Trends))' <= expensive'
    <3>1. Cardinality(Told(Trends)) + Cardinality(Left(Trends)) <= expensive /\ expensive \in Nat
      BY <1>1 DEF Counters, Reserved, Typed
    <3>2. Cardinality(Told(Trends))' + Cardinality(Left(Trends))'
             = Cardinality(Told(Trends)) + CountOf(answer, Trends)
      BY <2>3
    <3>3. Cardinality(Told(Trends)) <= expensive
      BY <2>3, <3>1
    <3> QED BY <1>4, <2>1, <2>3, <3>1, <3>2, <3>3
  <2>7. ASSUME NEW x \in Tools
        PROVE  /\ Cardinality(Told(x))' + Cardinality(Left(x))' <= repeated'[x]
               /\ repeated'[x] <= MaxRepeated
    <3>1. Cardinality(Told(x)) + Cardinality(Left(x)) <= repeated[x] /\ repeated[x] \in Nat
      BY <1>1 DEF Counters, Reserved, Typed
    <3>2. repeated'[x] = repeated[x] + CountOf(answer, x) /\ repeated'[x] <= MaxRepeated
      BY <1>4, <2>4
    <3>3. Cardinality(Told(x))' + Cardinality(Left(x))'
             = Cardinality(Told(x)) + CountOf(answer, x)
      BY <2>3
    <3>4. Cardinality(Told(x)) <= repeated[x]
      BY <2>3, <3>1
    <3> QED BY <2>1, <2>3, <3>1, <3>2, <3>3, <3>4
  <2> QED BY <1>4, <2>4, <2>5, <2>6, <2>7 DEF Reserved
<1> QED BY <1>2, <1>3, <1>4, TurnEndsCases

\* Outside of a round, and when one is given up, nothing of it changes.
LEMMA RoundsKept ==
    ASSUME Rounds, phase \in Phases, UNCHANGED <<calls, announced, task>>,
           \/ phase' = phase
           \/ phase \notin {"tools", "draining"} /\ phase' = "ended"
           \/ phase \in {"new", "turn"} /\ phase' \in {"turn", "streaming"}
    PROVE  Rounds'
<1>1. Settled' = Settled /\ (task = <<>> => Settled)
  BY DEF Settled
<1> QED BY <1>1 DEF Rounds, Phases

\* The loop while it talks to the provider.
LEMMA TalkKeepsCounters ==
    ASSUME Frames, Counters,
           \/ Start \/ BeginTurn \/ SilentPart
           \/ \E marker \in BOOLEAN : TextDelta(marker)
           \/ \E code \in Refusals : ProviderFails(code)
    PROVE  Counters'
<1>1. /\ phase \in {"new", "turn", "streaming"} /\ phase # "ended"
      /\ UNCHANGED <<counted, expensive, repeated, calls, announced, task>>
      /\ \/ phase' = phase \/ phase' = "ended"
         \/ phase \in {"new", "turn"} /\ phase' \in {"turn", "streaming"}
  BY DEF Start, BeginTurn, SilentPart, Fold, TextDelta, ProviderFails, Fail, budget, tools
<1>2. \/ UNCHANGED out \/ \E code : Fail(code)
      \/ \E type \in {"start", "model", "delta", "done"}, marker \in BOOLEAN :
            Publish(type, None, marker)
  BY DEF Start, BeginTurn, SilentPart, Fold, TextDelta, ProviderFails
<1>3. Sent("tool")' = Sent("tool") /\ \A x : Told(x)' = Told(x)
  <2>1. CASE UNCHANGED out
    BY <2>1 DEF Sent, Told
  <2> QED BY <1>1, <1>2, <2>1, FailKeepsTold, PublishKeepsTold DEF Frames
<1>4. Reserved'
  BY <1>1, <1>3, ReservedKept DEF Frames, Counters
<1>5. Rounds'
  BY <1>1, RoundsKept DEF Frames, Typed, Counters
<1> QED BY <1>4, <1>5 DEF Counters

\* The round itself.
LEMMA ToolsKeepCounters ==
    ASSUME Frames, Counters,
           \/ RunTools \/ ToolsFail \/ DrainEnds
           \/ \E i \in DOMAIN task : ToolEnds(i)
           \/ \E tokens \in 0 .. MaxOutput : ToolsComplete(tokens)
    PROVE  Counters'
<1>1. /\ UNCHANGED <<counted, expensive, repeated>>
      /\ \/ UNCHANGED <<calls, announced>>
         \/ calls' = <<>> /\ announced' = 0
      /\ UNCHANGED out \/ \E code : Fail(code)
  <2>1. CASE \E tokens \in 0 .. MaxOutput : ToolsComplete(tokens)
    BY <2>1 DEF ToolsComplete
  <2>2. CASE DrainEnds
    BY <2>2 DEF DrainEnds, budget, tools
  <2> QED BY <2>1, <2>2 DEF RunTools, ToolsFail, ToolEnds, budget
<1>2. Sent("tool")' = Sent("tool") /\ \A x : Told(x)' = Told(x)
  <2>1. CASE UNCHANGED out
    BY <2>1 DEF Sent, Told
  <2> QED BY <1>1, <2>1, FailKeepsTold DEF Frames
<1>3. Reserved'
  BY <1>1, <1>2, ReservedKept DEF Frames, Counters
<1>4. Rounds'
  <2>1. ASSUME NEW i \in DOMAIN task, ToolEnds(i)
        PROVE  Rounds'
    <3>1. task # <<>> /\ ~Settled
      BY <2>1 DEF ToolEnds, Settled
    <3>2. phase \in {"tools", "draining"}
      BY <3>1 DEF Counters, Rounds
    <3> QED BY <2>1, <3>2 DEF ToolEnds, Counters, Rounds
  <2>2. ASSUME NEW tokens, ToolsComplete(tokens)
        PROVE  Rounds'
    BY <2>2 DEF ToolsComplete, Fail, Rounds, Settled
  <2>3. ASSUME DrainEnds
        PROVE  Rounds'
    <3>1. Settled' = Settled /\ Settled /\ phase' = "ended"
      BY <2>3 DEF DrainEnds, Fail, tools, Settled
    <3> QED BY <3>1 DEF Rounds
  <2>4. CASE RunTools \/ ToolsFail
    BY <2>4 DEF RunTools, ToolsFail, Counters, Rounds
  <2> QED BY <2>1, <2>2, <2>3, <2>4
<1> QED BY <1>3, <1>4 DEF Counters

\* The client that goes, and the hook that closes what it left.
LEMMA LeavingKeepsCounters ==
    ASSUME Frames, Counters, Disconnect \/ DisconnectSeen \/ CloseAbandoned \/ UNCHANGED vars
    PROVE  Counters'
<1>1. /\ UNCHANGED <<counted, expensive, repeated, calls, announced, out>>
      /\ \/ UNCHANGED <<task, phase>>
         \/ UNCHANGED task /\ phase \notin {"tools", "draining"} /\ phase' = "ended"
         \/ phase \in {"tools", "draining"} /\ phase' = "draining"
  BY DEF Disconnect, DisconnectSeen, CloseAbandoned, vars, budget, tools
<1>2. Sent("tool")' = Sent("tool") /\ \A x : Told(x)' = Told(x)
  BY <1>1 DEF Sent, Told
<1>3. Reserved'
  BY <1>1, <1>2, ReservedKept DEF Frames, Counters
<1>4. Rounds'
  BY <1>1, RoundsKept DEF Frames, Typed, Counters, Rounds
<1> QED BY <1>3, <1>4 DEF Counters

LEMMA NextKeepsCounters ==
    ASSUME Frames, Counters, [Next]_vars
    PROVE  Counters'
<1>1. CASE TurnEnds
  <2>1. \/ UNCHANGED <<calls, announced, task>> /\ phase' = "ended"
        \/ UNCHANGED task /\ phase' = "announcing"
    BY <1>1, TurnEndsCases DEF Fail, tools
  <2>2. Rounds'
    BY <1>1, <2>1, RoundsKept DEF TurnEnds, Frames, Typed, Counters, Rounds
  <2> QED BY <1>1, <2>2, TurnEndsKeepsReserved DEF Counters
<1>2. CASE AnnounceTool
  <2>1. Rounds'
    BY <1>2 DEF AnnounceTool, Counters, Rounds
  <2> QED BY <1>2, <2>1, AnnounceKeepsReserved DEF Counters
<1>3. CASE \/ Start \/ BeginTurn \/ SilentPart
           \/ \E marker \in BOOLEAN : TextDelta(marker)
           \/ \E code \in Refusals : ProviderFails(code)
  BY <1>3, TalkKeepsCounters
<1>4. CASE \/ RunTools \/ ToolsFail \/ DrainEnds
           \/ \E i \in DOMAIN task : ToolEnds(i)
           \/ \E tokens \in 0 .. MaxOutput : ToolsComplete(tokens)
  BY <1>4, ToolsKeepCounters
<1>5. CASE Disconnect \/ DisconnectSeen \/ CloseAbandoned \/ UNCHANGED vars
  BY <1>5, LeavingKeepsCounters
<1> QED BY <1>1, <1>2, <1>3, <1>4, <1>5 DEF Next, Finished

LEMMA InitCounters == Init => Counters
<1> SUFFICES ASSUME Init PROVE Counters
  OBVIOUS
<1>1. Typed /\ out = <<>> /\ calls = <<>> /\ announced = 0 /\ task = <<>>
  BY InitFrames DEF Init, Frames
<1>2. DOMAIN <<>> = {} /\ Len(<<>>) = 0
  BY EmptySeq
<1>3. Cardinality(Sent("tool")) = 0
  BY <1>1, <1>2, FS_EmptySet DEF Sent
<1>4. \A x : Cardinality(Told(x)) = 0 /\ Cardinality(Left(x)) = 0
  <2>1. \A x : Told(x) = {} /\ Left(x) = {}
    BY <1>1, <1>2 DEF Told, Left, Sent
  <2> QED BY <2>1, FS_EmptySet
<1>5. Reserved
  BY <1>1, <1>2, <1>3, <1>4 DEF Reserved, Init
<1> QED BY <1>1, <1>5 DEF Counters, Rounds, Init, Settled

\* Over all turns of a request the client is never shown more calls of tools,
\* of the expensive one, or of one call with the same arguments than the loop
\* guard allows, and no tool runs on when the response has ended.
THEOREM ToolsAreBounded == Spec => []ToolsBounded
<1>1. Frames /\ Counters => ToolsBounded
  <2> SUFFICES ASSUME Typed, Counters PROVE ToolsBounded
    BY DEF Frames
  <2>1. /\ Cardinality(Sent("tool")) \in Nat
        /\ \A x : Cardinality(Told(x)) \in Nat /\ Cardinality(Left(x)) \in Nat
    BY ToldFinite
  <2>2. Len(calls) - announced >= 0 /\ Len(calls) - announced \in Int
    BY LenProperties DEF Typed
  <2>3. Cardinality(Sent("tool")) <= MaxToolCalls
    BY <2>1, <2>2 DEF Typed, Counters, Reserved
  <2>4. Cardinality(Told(Trends)) <= MaxExpensive
    <3>1. Cardinality(Told(Trends)) + Cardinality(Left(Trends)) <= expensive
      BY DEF Counters, Reserved
    <3>2. expensive <= MaxExpensive /\ expensive \in Nat
      BY DEF Counters, Reserved, Typed
    <3> QED BY <2>1, <3>1, <3>2
  <2>5. ASSUME NEW x \in Tools
        PROVE  Cardinality(Told(x)) <= MaxRepeated
    <3>1. Cardinality(Told(x)) + Cardinality(Left(x)) <= repeated[x]
      BY DEF Counters, Reserved
    <3>2. repeated[x] <= MaxRepeated /\ repeated[x] \in Nat
      BY DEF Counters, Reserved, Typed
    <3> QED BY <2>1, <3>1, <3>2
  <2> QED BY <2>3, <2>4, <2>5 DEF ToolsBounded, Told, Counters, Rounds
<1>2. Frames /\ Counters /\ [Next]_vars => Frames' /\ Counters'
  BY NextKeepsFrames, NextKeepsCounters
<1> QED BY <1>1, <1>2, InitFrames, InitCounters, PTL DEF Spec
=============================================================================
