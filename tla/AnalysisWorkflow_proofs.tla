---------------------- MODULE AnalysisWorkflow_proofs ----------------------
(***************************************************************************)
(* Storage of runs, for any number of runs, agents, requests and errors.   *)
(* The invariant relates the open transaction and the committed row of a   *)
(* run to its log, its failure and its agents, run by run (RunInv); the    *)
(* only fact about two runs is that rows of one request never meet         *)
(* (OneHolder).                                                            *)
(***************************************************************************)
EXTENDS AnalysisWorkflow, Integers, TLAPS

USE RequestOfAssumption, AgentsAssumption, SpeechErrorsAssumption

Types  == {"run_started", "speech_started", "speech_failed", "speech_completed",
           "agent_started", "aggregation_completed", "run_completed", "run_failed"}
Events == [by : Agents \cup {"workflow"}, type : Types]
RunCompleted == Event("workflow", "run_completed")
RunFailed    == Event("workflow", "run_failed")
Verdicts     == {RunCompleted, RunFailed}
Codes == AgentFailures \cup {"none"}
Rows  == [status : {"none", "queued", "processing", "completed", "failed"},
          events : Seq(Events), analysis : BOOLEAN, code : Codes]

\* Every variable is a function on the runs.
Shapes ==
    /\ phase \in [Runs -> {"idle", "speech", "agents", "storing", "over"}]
    /\ agent \in [Runs -> [Agents -> {"none", "created", "running"} \cup Ended]]
    /\ failure \in [Runs -> Codes]
    /\ aborting \in [Runs -> BOOLEAN]
    /\ interrupted \in [Runs -> BOOLEAN]
    /\ log \in [Runs -> Seq(Events)]
    /\ tx \in [Runs -> Rows]
    /\ db \in [Runs -> Rows]
    /\ reply \in [Runs -> {"none", "completed", "cancelled", "internal_error",
                            "service_unavailable"} \cup SpeechErrors \cup Codes]

\* Nobody records anything any more: the run is stored, or was stored.
Closing(r) == phase[r] = "storing" \/ db[r] # NoRow

\* The log holds no verdict of the workflow before the run is being stored, and
\* then the one that fits, in its last place.
VerdictLast(r) ==
    /\ phase[r] \in {"idle", "speech", "agents"} =>
          \A k \in 1 .. Len(log[r]) : log[r][k] \notin Verdicts
    /\ Closing(r) =>
          /\ Len(log[r]) > 0
          /\ \A k \in 1 .. Len(log[r]) : log[r][k] \in Verdicts => k = Len(log[r])
          /\ log[r][Len(log[r])] = IF failure[r] = "none" THEN RunCompleted ELSE RunFailed

\* The failure of a run comes from an agent that failed, until the group is
\* over; then every agent has ended, and completed unless there is a failure.
GroupOutcome(r) ==
    /\ phase[r] \in {"idle", "speech"} =>
          failure[r] = "none" /\ \A a \in Agents : agent[r][a] = "none"
    /\ phase[r] = "agents" /\ failure[r] # "none" => \E a \in Agents : agent[r][a] = "failed"
    /\ failure[r] = "none" => \A a \in Agents : agent[r][a] # "failed"
    /\ Closing(r) =>
          /\ AllEnded(r)
          /\ failure[r] = "none" => \A a \in Agents : agent[r][a] = "completed"

FinalRow(r) == Row(Verdict(r), log[r], failure[r] = "none", failure[r])

\* What the transaction has gathered so far.
TransactionFits(r) ==
    /\ tx[r] # NoRow => phase[r] = "storing"
    /\ tx[r].status = "none" => tx[r] = NoRow
    /\ tx[r].status = "queued" =>
          tx[r] = Row("queued", <<>>, FALSE, "none")
    /\ tx[r].status = "processing" =>
          tx[r] = Row("processing", log[r], FALSE, "none")
    /\ tx[r].status \in {"completed", "failed"} => tx[r] = FinalRow(r)

\* The committed row, and what the caller was told.
RowFits(r) ==
    /\ db[r] # NoRow =>
          /\ phase[r] = "over"
          /\ db[r] = FinalRow(r)
          /\ failure[r] = "none" =>
                reply[r] \in {"completed", "service_unavailable", "cancelled"}
          /\ failure[r] # "none" => reply[r] \in {failure[r], "cancelled"}
    /\ reply[r] = "completed" => db[r] # NoRow /\ failure[r] = "none"

RunInv(r) == VerdictLast(r) /\ GroupOutcome(r) /\ TransactionFits(r) /\ RowFits(r)

\* Of the runs of one request at most one has a row, open or committed.
HasRow(r) == tx[r] # NoRow \/ db[r] # NoRow
OneHolder == \A r, q \in Runs :
    r # q /\ RequestOf[r] = RequestOf[q] => ~(HasRow(r) /\ HasRow(q))

IInv == Shapes /\ (\A r \in Runs : RunInv(r)) /\ OneHolder

-----------------------------------------------------------------------------
\* Whatever an agent raises, the run gets a public ErrorCode for it.
LEMMA MappedCodes ==
    /\ \A c \in AgentErrors : MapAgentFailure(c) \in Codes \ {"none"}
    /\ "agent_failure" \in Codes /\ "completed" \notin Codes
<1>1. \A c : MapAgentFailure(c) \notin {"none", "completed"}
  BY DEF MapAgentFailure
<1> QED BY <1>1 DEF Codes, AgentFailures

\* One more event in a log, or two.
LEMMA OneEvent ==
    ASSUME NEW s \in Seq(Events), NEW e \in Events
    PROVE  /\ s \o <<e>> \in Seq(Events)
           /\ Len(s \o <<e>>) = Len(s) + 1
           /\ \A k \in 1 .. Len(s) : (s \o <<e>>)[k] = s[k]
           /\ (s \o <<e>>)[Len(s) + 1] = e
OBVIOUS

LEMMA TwoEvents ==
    ASSUME NEW s \in Seq(Events), NEW e \in Events, NEW f \in Events
    PROVE  /\ s \o <<e, f>> \in Seq(Events)
           /\ Len(s \o <<e, f>>) = Len(s) + 2
           /\ \A k \in 1 .. Len(s) : (s \o <<e, f>>)[k] = s[k]
           /\ (s \o <<e, f>>)[Len(s) + 1] = e
           /\ (s \o <<e, f>>)[Len(s) + 2] = f
OBVIOUS

\* Events are well-formed, and only the workflow's own verdicts are verdicts.
LEMMA EventTypes ==
    /\ \A by \in Agents \cup {"workflow"}, type \in Types : Event(by, type) \in Events
    /\ \A a \in Agents, type \in Types : Event(a, type) \notin Verdicts
    /\ \A type \in Types \ {"run_completed", "run_failed"} :
          Event("workflow", type) \notin Verdicts
    /\ RunCompleted \in Events /\ RunFailed \in Events /\ RunCompleted # RunFailed
<1>1. \A by \in Agents \cup {"workflow"}, type \in Types : Event(by, type) \in Events
  BY DEF Event, Events, Types
<1>2. ASSUME NEW a \in Agents, NEW type \in Types PROVE Event(a, type) \notin Verdicts
  <2>1. Event(a, type).by # "workflow"
    BY DEF Event
  <2> QED BY <2>1 DEF Event, Types, Verdicts, RunCompleted, RunFailed
<1>3. ASSUME NEW type \in Types \ {"run_completed", "run_failed"}
      PROVE  Event("workflow", type) \notin Verdicts
  BY DEF Event, Types, Verdicts, RunCompleted, RunFailed
<1>4. RunCompleted \in Events /\ RunFailed \in Events
  BY <1>1 DEF Types, RunCompleted, RunFailed
<1>5. RunCompleted # RunFailed
  BY DEF RunCompleted, RunFailed, Event
<1> QED BY <1>1, <1>2, <1>3, <1>4, <1>5

\* Nothing is stored, open or failed at the start.
LEMMA InitIInv == Init => IInv
<1> SUFFICES ASSUME Init PROVE IInv
  OBVIOUS
<1>1. NoRow \in Rows /\ <<>> \in Seq(Events)
  BY DEF NoRow, Row, Rows, Codes
<1>2. Shapes
  BY <1>1 DEF Init, Shapes, Codes
<1>3. ASSUME NEW r \in Runs PROVE RunInv(r)
  <2>1. VerdictLast(r)
    BY DEF Init, VerdictLast, Closing
  <2>2. GroupOutcome(r)
    BY DEF Init, GroupOutcome, Closing
  <2>3. TransactionFits(r) /\ RowFits(r)
    BY DEF Init, TransactionFits, RowFits, NoRow, Row
  <2> QED BY <2>1, <2>2, <2>3 DEF RunInv
<1>4. OneHolder
  BY DEF Init, OneHolder, HasRow
<1> QED BY <1>2, <1>3, <1>4 DEF IInv

-----------------------------------------------------------------------------
(* Shapes *)

\* Recording well-formed events keeps the logs well-formed.
LEMMA RecordShape ==
    ASSUME Shapes, NEW r \in Runs, NEW events \in Seq(Events), Record(r, events)
    PROVE  log' \in [Runs -> Seq(Events)]
<1>1. log[r] \o events \in Seq(Events)
  BY DEF Shapes
<1> QED BY <1>1 DEF Shapes, Record

\* The row of a run without one.
LEMMA RowShape == NoRow \in Rows
<1>1. <<>> \in Seq(Events)
  OBVIOUS
<1> QED BY <1>1 DEF NoRow, Row, Rows, Codes

\* Ending a run keeps the phases and answers well-formed.
LEMMA EndShape ==
    ASSUME Shapes, NEW r \in Runs, NEW answer, End(r, answer),
           answer \in {"none", "completed", "cancelled", "internal_error",
                            "service_unavailable"} \cup SpeechErrors \cup Codes
    PROVE  /\ phase' \in [Runs -> {"idle", "speech", "agents", "storing", "over"}]
           /\ reply' \in [Runs -> {"none", "completed", "cancelled", "internal_error",
                                       "service_unavailable"} \cup SpeechErrors \cup Codes]
BY DEF Shapes, End, Goto

LEMMA ShapesStep == Shapes /\ [Next]_vars => Shapes'
<1> SUFFICES ASSUME Shapes, [Next]_vars PROVE Shapes'
  OBVIOUS
<1> USE EventTypes
<1>0. ASSUME NEW e \in Events, NEW f \in Events PROVE <<e>> \in Seq(Events) /\ <<e, f>> \in Seq(Events)
  OBVIOUS
<1>1. CASE UNCHANGED vars
  BY <1>1 DEF vars, Shapes
<1>2. ASSUME NEW r \in Runs, Begin(r) PROVE Shapes'
  <2>1. log' \in [Runs -> Seq(Events)]
    BY <1>2, <1>0, RecordShape DEF Begin, Types
  <2> QED BY <1>2, <2>1 DEF Begin, Goto, Shapes, group
<1>3. ASSUME NEW r \in Runs, SpeechFails(r) PROVE Shapes'
  <2>1. log' \in [Runs -> Seq(Events)]
    BY <1>3, <1>0, RecordShape DEF SpeechFails, Types
  <2>2. PICK code \in SpeechErrors : End(r, code)
    BY <1>3 DEF SpeechFails
  <2> QED BY <1>3, <2>1, <2>2, EndShape DEF SpeechFails, Shapes, group
<1>4. ASSUME NEW r \in Runs, EnvelopeFails(r) PROVE Shapes'
  <2>1. log' \in [Runs -> Seq(Events)]
    BY <1>4, <1>0, RecordShape DEF EnvelopeFails, Types
  <2> QED BY <1>4, <2>1, EndShape DEF EnvelopeFails, Shapes, group
<1>5. ASSUME NEW r \in Runs, SpeechSucceeds(r) PROVE Shapes'
  <2>1. log' \in [Runs -> Seq(Events)]
    BY <1>5, <1>0, RecordShape DEF SpeechSucceeds, Types
  <2> QED BY <1>5, <2>1 DEF SpeechSucceeds, Goto, Shapes
<1>6. ASSUME NEW r \in Runs, NEW a \in Agents, AgentStarts(r, a) PROVE Shapes'
  <2>1. log' \in [Runs -> Seq(Events)]
    BY <1>6, <1>0, RecordShape DEF AgentStarts, Types
  <2> QED BY <1>6, <2>1 DEF AgentStarts, MoveAgent, Shapes
<1>7. ASSUME NEW r \in Runs, NEW a \in Agents, AgentCompletes(r, a) PROVE Shapes'
  <2>1. log' \in [Runs -> Seq(Events)]
    BY <1>7, <1>0, RecordShape DEF AgentCompletes, Types
  <2> QED BY <1>7, <2>1 DEF AgentCompletes, MoveAgent, Shapes, Ended
<1>8. ASSUME NEW r \in Runs, NEW a \in Agents, AgentFails(r, a) PROVE Shapes'
  <2>1. log' \in [Runs -> Seq(Events)]
    BY <1>8, <1>0, RecordShape DEF AgentFails, Types, Shapes
  <2>2. failure' \in [Runs -> Codes]
    <3>1. CASE UNCHANGED failure
      BY <3>1 DEF Shapes
    <3>2. ASSUME NEW c \in AgentErrors, failure' = [failure EXCEPT ![r] = MapAgentFailure(c)]
          PROVE  failure' \in [Runs -> Codes]
      BY <3>2, MappedCodes DEF Shapes
    <3> QED BY <1>8, <3>1, <3>2 DEF AgentFails
  <2>3. agent' \in [Runs -> [Agents -> {"none", "created", "running"} \cup Ended]]
    BY <1>8 DEF AgentFails, MoveAgent, Shapes, Ended
  <2>4. aborting' \in [Runs -> BOOLEAN]
    BY <1>8 DEF AgentFails, Shapes
  <2> QED BY <1>8, <2>1, <2>2, <2>3, <2>4 DEF AgentFails, Shapes
<1>9. ASSUME NEW r \in Runs, NEW a \in Agents, AgentCancelled(r, a) PROVE Shapes'
  BY <1>9 DEF AgentCancelled, MoveAgent, Shapes, Ended
<1>10. ASSUME NEW r \in Runs, Aggregate(r) PROVE Shapes'
  <2>1. log' \in [Runs -> Seq(Events)]
    BY <1>10, <1>0, RecordShape DEF Aggregate, Types
  <2> QED BY <1>10, <2>1 DEF Aggregate, Goto, Shapes, group
<1>11. ASSUME NEW r \in Runs, AggregationFails(r) PROVE Shapes'
  <2>1. log' \in [Runs -> Seq(Events)]
    BY <1>11, <1>0, RecordShape DEF AggregationFails, Types
  <2> QED BY <1>11, <2>1, MappedCodes DEF AggregationFails, Goto, Shapes, group
<1>12. ASSUME NEW r \in Runs, GroupFails(r) PROVE Shapes'
  <2>1. log' \in [Runs -> Seq(Events)]
    BY <1>12, <1>0, RecordShape DEF GroupFails, Types
  <2> QED BY <1>12, <2>1 DEF GroupFails, Goto, Shapes, group
<1>13. ASSUME NEW r \in Runs, GroupCancelled(r) PROVE Shapes'
  BY <1>13, EndShape DEF GroupCancelled, Shapes, group
<1>14. ASSUME NEW r \in Runs, Create(r) PROVE Shapes'
  <2>1. Row("queued", <<>>, FALSE, "none") \in Rows
    BY DEF Row, Rows, Codes
  <2> QED BY <1>14, <2>1 DEF Create, Shapes, group
<1>15. ASSUME NEW r \in Runs, AppendEvents(r) PROVE Shapes'
  <2>1. Row("processing", log[r], FALSE, "none") \in Rows
    BY DEF Row, Rows, Codes, Shapes
  <2> QED BY <1>15, <2>1 DEF AppendEvents, Shapes, group
<1>16. ASSUME NEW r \in Runs, SetStatus(r) PROVE Shapes'
  <2>1. Verdict(r) \in {"completed", "failed"} /\ (failure[r] = "none") \in BOOLEAN
    BY DEF Verdict
  <2>2. tx[r].events \in Seq(Events) /\ failure[r] \in Codes
    BY DEF Shapes, Rows
  <2>3. Row(Verdict(r), tx[r].events, failure[r] = "none", failure[r]) \in Rows
    BY <2>1, <2>2 DEF Row, Rows
  <2> QED BY <1>16, <2>3 DEF SetStatus, Shapes, group
<1>17. ASSUME NEW r \in Runs, Commit(r) PROVE Shapes'
  BY <1>17, RowShape, EndShape DEF Commit, CloseTransaction, Shapes, group
<1>18. ASSUME NEW r \in Runs, StoreFails(r) PROVE Shapes'
  <2>1. AfterLostStore(r) \in Codes \cup {"service_unavailable"}
    BY DEF AfterLostStore, Shapes
  <2> QED BY <1>18, <2>1, RowShape, EndShape DEF StoreFails, CloseTransaction, Shapes, group
<1>19. ASSUME NEW r \in Runs, Cancel(r) PROVE Shapes'
  <2>1. CASE phase[r] = "speech" /\ End(r, "cancelled")
               /\ UNCHANGED <<agent, failure, aborting, interrupted, log, tx, db>>
    BY <2>1, EndShape DEF Shapes
  <2>2. CASE interrupted' = [interrupted EXCEPT ![r] = TRUE]
               /\ aborting' = [aborting EXCEPT ![r] = TRUE]
               /\ UNCHANGED <<phase, agent, failure, log, tx, db, reply>>
    BY <2>2 DEF Shapes
  <2>3. CASE phase[r] = "storing" /\ End(r, "cancelled") /\ CloseTransaction(r)
               /\ (db' = db \/ db' = [db EXCEPT ![r] = tx[r]])
               /\ UNCHANGED <<group, failure, log>>
    BY <2>3, RowShape, EndShape DEF CloseTransaction, Shapes, group
  <2> QED BY <1>19, <2>1, <2>2, <2>3 DEF Cancel
<1> QED
  BY <1>1, <1>2, <1>3, <1>4, <1>5, <1>6, <1>7, <1>8, <1>9, <1>10, <1>11, <1>12,
     <1>13, <1>14, <1>15, <1>16, <1>17, <1>18, <1>19 DEF Next

-----------------------------------------------------------------------------
(* One run moves, the others keep their part of the invariant *)

Same(q) ==
    /\ phase'[q] = phase[q] /\ agent'[q] = agent[q] /\ failure'[q] = failure[q]
    /\ log'[q] = log[q] /\ tx'[q] = tx[q] /\ db'[q] = db[q] /\ reply'[q] = reply[q]

LEMMA SameKeeps ==
    ASSUME NEW q \in Runs, RunInv(q), Same(q) PROVE RunInv(q)'
<1> USE DEF Same
<1>1. VerdictLast(q)'
  BY DEF RunInv, VerdictLast, Closing
<1>2. GroupOutcome(q)'
  BY DEF RunInv, GroupOutcome, Closing, AllEnded
<1>3. TransactionFits(q)' /\ RowFits(q)'
  BY DEF RunInv, TransactionFits, RowFits, FinalRow, Verdict
<1> QED BY <1>1, <1>2, <1>3 DEF RunInv

\* Only run r moves, and it does not obtain a row that it did not have.
LEMMA OneRunMoves ==
    ASSUME IInv, NEW r \in Runs, \A q \in Runs \ {r} : Same(q), RunInv(r)',
           HasRow(r)' => HasRow(r)
    PROVE  (\A q \in Runs : RunInv(q)') /\ OneHolder'
<1>1. ASSUME NEW q \in Runs PROVE RunInv(q)'
  BY SameKeeps DEF IInv
<1>2. \A q \in Runs : HasRow(q)' => HasRow(q)
  BY DEF Same, HasRow
<1> QED BY <1>1, <1>2 DEF IInv, OneHolder

-----------------------------------------------------------------------------
(* The chain of events *)

Plain(s) == \A k \in 1 .. Len(s) : s[k] \notin Verdicts

\* An event that is no verdict keeps a chain without one.
LEMMA PlainEvent ==
    ASSUME NEW s \in Seq(Events), Plain(s), NEW e \in Events \ Verdicts
    PROVE  Plain(s \o <<e>>)
BY OneEvent DEF Plain

LEMMA PlainEvents ==
    ASSUME NEW s \in Seq(Events), Plain(s), NEW e \in Events \ Verdicts,
           NEW f \in Events \ Verdicts
    PROVE  Plain(s \o <<e, f>>)
BY TwoEvents DEF Plain

\* A chain that ends with its only verdict v.
EndsWith(s, v) ==
    /\ Len(s) > 0
    /\ \A k \in 1 .. Len(s) : s[k] \in Verdicts => k = Len(s)
    /\ s[Len(s)] = v

LEMMA FinalEvent ==
    ASSUME NEW s \in Seq(Events), Plain(s), NEW v \in Events
    PROVE  EndsWith(s \o <<v>>, v)
<1>1. Len(s) \in Nat
  OBVIOUS
<1> QED BY <1>1, OneEvent DEF Plain, EndsWith

LEMMA FinalEvents ==
    ASSUME NEW s \in Seq(Events), Plain(s), NEW e \in Events \ Verdicts, NEW v \in Events
    PROVE  EndsWith(s \o <<e, v>>, v)
<1>1. Len(s) \in Nat
  OBVIOUS
<1> QED BY <1>1, TwoEvents DEF Plain, EndsWith

\* The clauses of VerdictLast, for the state before the group has ended and for
\* the step that ends it.
LEMMA BeforeTheEnd ==
    ASSUME Shapes, NEW r \in Runs, RunInv(r), phase[r] \in {"idle", "speech", "agents"}
    PROVE  Plain(log[r]) /\ db[r] = NoRow /\ tx[r] = NoRow /\ log[r] \in Seq(Events)
BY DEF Shapes, RunInv, VerdictLast, Plain, RowFits, TransactionFits

LEMMA StillPlain ==
    ASSUME NEW r \in Runs, Plain(log'[r]), db'[r] = NoRow, phase'[r] # "storing"
    PROVE  VerdictLast(r)'
BY DEF VerdictLast, Closing, Plain

LEMMA VerdictGiven ==
    ASSUME NEW r \in Runs, phase'[r] = "storing",
           EndsWith(log'[r], IF failure'[r] = "none" THEN RunCompleted ELSE RunFailed)
    PROVE  VerdictLast(r)'
BY DEF VerdictLast, EndsWith

\* No row, no answer: the rest of the invariant.
LEMMA NothingStored ==
    ASSUME NEW r \in Runs, tx'[r] = NoRow, db'[r] = NoRow, reply'[r] # "completed"
    PROVE  TransactionFits(r)' /\ RowFits(r)' /\ ~HasRow(r)'
BY DEF TransactionFits, RowFits, HasRow, NoRow, Row

-----------------------------------------------------------------------------
(* Speech *)

LEMMA BeginKeeps ==
    ASSUME IInv, NEW r \in Runs, Begin(r)
    PROVE  (\A q \in Runs : RunInv(q)') /\ OneHolder'
<1>1. \A q \in Runs \ {r} : Same(q)
  BY DEF IInv, Shapes, Begin, Goto, Record, group, Same
<1>2. /\ phase[r] = "idle" /\ phase'[r] = "speech" /\ agent'[r] = agent[r]
      /\ failure'[r] = failure[r] /\ tx'[r] = tx[r] /\ db'[r] = db[r] /\ reply'[r] = reply[r]
      /\ log'[r] = log[r] \o <<Event("workflow", "run_started"), Event("workflow", "speech_started")>>
  BY DEF IInv, Shapes, Begin, Goto, Record, group
<1>3. RunInv(r) /\ Plain(log[r]) /\ db[r] = NoRow /\ tx[r] = NoRow /\ log[r] \in Seq(Events)
  BY <1>2, BeforeTheEnd DEF IInv
<1>4. Plain(log'[r])
  BY <1>2, <1>3, EventTypes, PlainEvents DEF Types
<1>5. VerdictLast(r)'
  BY <1>2, <1>3, <1>4, StillPlain
<1>6. GroupOutcome(r)'
  BY <1>2, <1>3 DEF RunInv, GroupOutcome, Closing, AllEnded
<1>7. reply[r] # "completed"
  BY <1>3 DEF RunInv, RowFits
<1>8. TransactionFits(r)' /\ RowFits(r)' /\ ~HasRow(r)'
  BY <1>2, <1>3, <1>7, NothingStored
<1> QED BY <1>1, <1>5, <1>6, <1>8, OneRunMoves DEF RunInv

\* Speech fails, the envelope fails, or the caller is gone: over without a row.
LEMMA SpeechEndKeeps ==
    ASSUME IInv, NEW r \in Runs, phase[r] = "speech",
           NEW answer, End(r, answer), answer # "completed",
           \/ UNCHANGED log
           \/ Record(r, <<Event("workflow", "speech_failed")>>)
           \/ Record(r, <<Event("workflow", "speech_completed")>>),
           UNCHANGED <<group, failure, tx, db>>
    PROVE  (\A q \in Runs : RunInv(q)') /\ OneHolder'
<1>1. \A q \in Runs \ {r} : Same(q)
  BY DEF IInv, Shapes, End, Goto, Record, group, Same
<1>2. /\ phase'[r] = "over" /\ agent'[r] = agent[r] /\ failure'[r] = failure[r]
      /\ tx'[r] = tx[r] /\ db'[r] = db[r] /\ reply'[r] = answer
  BY DEF IInv, Shapes, End, Goto, group
<1>3. RunInv(r) /\ Plain(log[r]) /\ db[r] = NoRow /\ tx[r] = NoRow /\ log[r] \in Seq(Events)
  BY BeforeTheEnd DEF IInv
<1>4. Plain(log'[r])
  <2>1. CASE UNCHANGED log
    BY <2>1, <1>3
  <2>2. ASSUME NEW type \in {"speech_failed", "speech_completed"},
               Record(r, <<Event("workflow", type)>>)
        PROVE  Plain(log'[r])
    <3>1. log'[r] = log[r] \o <<Event("workflow", type)>>
      BY <2>2 DEF IInv, Shapes, Record
    <3>2. Event("workflow", type) \in Events \ Verdicts
      BY EventTypes DEF Types
    <3> QED BY <3>1, <3>2, <1>3, PlainEvent
  <2> QED BY <2>1, <2>2
<1>5. VerdictLast(r)'
  BY <1>2, <1>3, <1>4, StillPlain
<1>6. GroupOutcome(r)'
  BY <1>2, <1>3 DEF RunInv, GroupOutcome, Closing, AllEnded
<1>7. TransactionFits(r)' /\ RowFits(r)' /\ ~HasRow(r)'
  BY <1>2, <1>3, NothingStored
<1> QED BY <1>1, <1>5, <1>6, <1>7, OneRunMoves DEF RunInv

LEMMA SpeechSucceedsKeeps ==
    ASSUME IInv, NEW r \in Runs, SpeechSucceeds(r)
    PROVE  (\A q \in Runs : RunInv(q)') /\ OneHolder'
<1>1. \A q \in Runs \ {r} : Same(q)
  BY DEF IInv, Shapes, SpeechSucceeds, Goto, Record, Same
<1>2. /\ phase[r] = "speech" /\ phase'[r] = "agents" /\ agent'[r] = [a \in Agents |-> "created"]
      /\ failure'[r] = failure[r] /\ tx'[r] = tx[r] /\ db'[r] = db[r] /\ reply'[r] = reply[r]
      /\ log'[r] = log[r] \o <<Event("workflow", "speech_completed")>>
  BY DEF IInv, Shapes, SpeechSucceeds, Goto, Record
<1>3. RunInv(r) /\ Plain(log[r]) /\ db[r] = NoRow /\ tx[r] = NoRow /\ log[r] \in Seq(Events)
  BY <1>2, BeforeTheEnd DEF IInv
<1>4. Plain(log'[r])
  BY <1>2, <1>3, EventTypes, PlainEvent DEF Types
<1>5. VerdictLast(r)'
  BY <1>2, <1>3, <1>4, StillPlain
<1>6. GroupOutcome(r)'
  BY <1>2, <1>3 DEF RunInv, GroupOutcome, Closing, AllEnded
<1>7. reply[r] # "completed"
  BY <1>3 DEF RunInv, RowFits
<1>8. TransactionFits(r)' /\ RowFits(r)' /\ ~HasRow(r)'
  BY <1>2, <1>3, <1>7, NothingStored
<1> QED BY <1>1, <1>5, <1>6, <1>8, OneRunMoves DEF RunInv

-----------------------------------------------------------------------------
(* The task group *)

\* An agent that is not through moves on, perhaps recording an event; only a
\* failing agent gives the run a failure, and always leaves it with one.
AgentMoves(r, a, status) ==
    /\ agent[r][a] \in {"created", "running"}
    /\ MoveAgent(r, a, status)
    /\ UNCHANGED log \/ \E type \in Types : Record(r, <<Event(a, type)>>)
    /\ \A q \in Runs \ {r} : failure'[q] = failure[q]
    /\ status = "failed" => failure'[r] # "none"
    /\ status # "failed" => failure'[r] = failure[r]
    /\ UNCHANGED <<phase, tx, db, reply>>

LEMMA AgentMovesKeeps ==
    ASSUME IInv, NEW r \in Runs, NEW a \in Agents,
           NEW status \in {"running"} \cup Ended, AgentMoves(r, a, status)
    PROVE  (\A q \in Runs : RunInv(q)') /\ OneHolder'
<1>1. \A q \in Runs \ {r} : Same(q)
  BY DEF IInv, Shapes, AgentMoves, MoveAgent, Record, Same
<1>2. /\ phase'[r] = phase[r] /\ agent'[r] = [agent[r] EXCEPT ![a] = status]
      /\ tx'[r] = tx[r] /\ db'[r] = db[r] /\ reply'[r] = reply[r]
      /\ agent[r] \in [Agents -> {"none", "created", "running"} \cup Ended]
  BY DEF IInv, Shapes, AgentMoves, MoveAgent
<1>3. RunInv(r) /\ phase[r] \in {"idle", "speech", "agents", "storing", "over"}
  BY DEF IInv, Shapes
<1>4. ~Closing(r) /\ phase[r] \in {"agents", "over"}
  <2>1. agent[r][a] # "none" /\ agent[r][a] \notin Ended
    BY DEF AgentMoves, Ended
  <2>2. ~Closing(r)
    BY <2>1, <1>3 DEF RunInv, GroupOutcome, AllEnded
  <2>3. phase[r] \notin {"idle", "speech"}
    BY <2>1, <1>3 DEF RunInv, GroupOutcome
  <2> QED BY <2>2, <2>3, <1>3 DEF Closing
<1>5. db[r] = NoRow /\ tx[r] = NoRow
  BY <1>3, <1>4 DEF Closing, RunInv, TransactionFits
<1>6. VerdictLast(r)'
  <2>1. CASE phase[r] = "over"
    BY <2>1, <1>2, <1>5 DEF VerdictLast, Closing
  <2>2. CASE phase[r] = "agents"
    <3>1. Plain(log[r]) /\ log[r] \in Seq(Events)
      BY <2>2, BeforeTheEnd DEF IInv
    <3>2. ASSUME NEW type \in Types, Record(r, <<Event(a, type)>>)
          PROVE  Plain(log'[r])
      <4>1. log'[r] = log[r] \o <<Event(a, type)>>
        BY <3>2 DEF IInv, Shapes, Record
      <4> QED BY <4>1, <3>1, EventTypes, PlainEvent
    <3>3. Plain(log'[r])
      BY <3>1, <3>2 DEF AgentMoves
    <3> QED BY <2>2, <3>3, <1>2, <1>5, StillPlain
  <2> QED BY <2>1, <2>2, <1>4
<1>7. GroupOutcome(r)'
  <2>1. ~Closing(r)' /\ phase'[r] \notin {"idle", "speech"}
    BY <1>2, <1>4, <1>5 DEF Closing
  <2>2. CASE status = "failed"
    BY <2>1, <2>2, <1>2, <1>3 DEF AgentMoves, RunInv, GroupOutcome
  <2>3. CASE status # "failed"
    BY <2>1, <2>3, <1>2, <1>3 DEF AgentMoves, RunInv, GroupOutcome
  <2> QED BY <2>2, <2>3
<1>8. reply[r] # "completed"
  BY <1>3, <1>5 DEF RunInv, RowFits
<1>9. TransactionFits(r)' /\ RowFits(r)' /\ ~HasRow(r)'
  BY <1>2, <1>5, <1>8, NothingStored
<1> QED BY <1>1, <1>6, <1>7, <1>9, OneRunMoves DEF RunInv

\* The four steps of an agent are such moves.
LEMMA AgentStepMoves ==
    ASSUME IInv, NEW r \in Runs, NEW a \in Agents,
           AgentStarts(r, a) \/ AgentCompletes(r, a) \/ AgentFails(r, a) \/ AgentCancelled(r, a)
    PROVE  \E status \in {"running"} \cup Ended : AgentMoves(r, a, status)
<1>1. CASE AgentStarts(r, a)
  BY <1>1 DEF AgentStarts, AgentMoves, Types
<1>2. CASE AgentCompletes(r, a)
  BY <1>2 DEF AgentCompletes, AgentMoves, Types, Ended
<1>3. CASE AgentFails(r, a)
  <2>1. /\ \A q \in Runs \ {r} : failure'[q] = failure[q]
        /\ failure'[r] # "none"
    BY <1>3, MappedCodes DEF AgentFails, IInv, Shapes
  <2> QED BY <1>3, <2>1 DEF AgentFails, AgentMoves, Types, Ended
<1>4. CASE AgentCancelled(r, a)
  BY <1>4 DEF AgentCancelled, AgentMoves, Ended
<1> QED BY <1>1, <1>2, <1>3, <1>4

\* The group ends with a verdict that fits the failure: Aggregate,
\* AggregationFails and GroupFails.
GroupMoves(r) ==
    /\ phase[r] = "agents" /\ Goto(r, "storing")
    /\ AllEnded(r)
    /\ \A q \in Runs \ {r} : failure'[q] = failure[q]
    /\ failure'[r] = "none" => \A a \in Agents : agent[r][a] = "completed"
    /\ \/ failure'[r] # "none" /\ Record(r, <<RunFailed>>)
       \/ failure'[r] = "none"
             /\ Record(r, <<Event("workflow", "aggregation_completed"), RunCompleted>>)
    /\ UNCHANGED <<group, tx, db, reply>>

LEMMA GroupMovesKeeps ==
    ASSUME IInv, NEW r \in Runs, GroupMoves(r)
    PROVE  (\A q \in Runs : RunInv(q)') /\ OneHolder'
<1>1. \A q \in Runs \ {r} : Same(q)
  BY DEF IInv, Shapes, GroupMoves, Goto, Record, group, Same
<1>2. /\ phase[r] = "agents" /\ phase'[r] = "storing" /\ agent'[r] = agent[r]
      /\ tx'[r] = tx[r] /\ db'[r] = db[r] /\ reply'[r] = reply[r]
  BY DEF IInv, Shapes, GroupMoves, Goto, group
<1>3. RunInv(r) /\ Plain(log[r]) /\ db[r] = NoRow /\ tx[r] = NoRow /\ log[r] \in Seq(Events)
  BY <1>2, BeforeTheEnd DEF IInv
<1>4. VerdictLast(r)'
  <2>1. CASE failure'[r] # "none" /\ Record(r, <<RunFailed>>)
    <3>1. log'[r] = log[r] \o <<RunFailed>>
      BY <2>1 DEF IInv, Shapes, Record
    <3>2. EndsWith(log'[r], RunFailed)
      BY <3>1, <1>3, EventTypes, FinalEvent
    <3> QED BY <2>1, <3>2, <1>2, VerdictGiven
  <2>2. CASE failure'[r] = "none"
               /\ Record(r, <<Event("workflow", "aggregation_completed"), RunCompleted>>)
    <3>1. log'[r] = log[r] \o <<Event("workflow", "aggregation_completed"), RunCompleted>>
      BY <2>2 DEF IInv, Shapes, Record
    <3>2. Event("workflow", "aggregation_completed") \in Events \ Verdicts
      BY EventTypes DEF Types
    <3>3. EndsWith(log'[r], RunCompleted)
      BY <3>1, <3>2, <1>3, EventTypes, FinalEvents
    <3> QED BY <2>2, <3>3, <1>2, VerdictGiven
  <2> QED BY <2>1, <2>2 DEF GroupMoves
<1>5. GroupOutcome(r)'
  <2>1. AllEnded(r)'
    BY <1>2 DEF GroupMoves, AllEnded
  <2>2. failure'[r] = "none" => \A a \in Agents : agent'[r][a] = "completed"
    BY <1>2 DEF GroupMoves
  <2> QED BY <2>1, <2>2, <1>2 DEF GroupOutcome
<1>6. reply[r] # "completed"
  BY <1>3 DEF RunInv, RowFits
<1>7. TransactionFits(r)' /\ RowFits(r)' /\ ~HasRow(r)'
  BY <1>2, <1>3, <1>6, NothingStored
<1> QED BY <1>1, <1>4, <1>5, <1>7, OneRunMoves DEF RunInv

\* A group in which everybody completed has no failure.
LEMMA GroupEndMoves ==
    ASSUME IInv, NEW r \in Runs, Aggregate(r) \/ AggregationFails(r) \/ GroupFails(r)
    PROVE  GroupMoves(r)
<1>1. phase[r] = "agents" /\ RunInv(r)
  BY DEF IInv, Aggregate, AggregationFails, GroupFails
<1>2. CASE Aggregate(r)
  <2>1. failure[r] = "none"
    BY <1>1, <1>2 DEF Aggregate, RunInv, GroupOutcome
  <2> QED BY <1>2, <2>1 DEF Aggregate, GroupMoves, AllEnded, Ended, RunCompleted
<1>3. CASE AggregationFails(r)
  <2>1. failure'[r] = "agent_failure" /\ \A q \in Runs \ {r} : failure'[q] = failure[q]
    BY <1>3 DEF AggregationFails, IInv, Shapes
  <2> QED BY <1>3, <2>1 DEF AggregationFails, GroupMoves, AllEnded, Ended, RunFailed
<1>4. CASE GroupFails(r)
  BY <1>4 DEF GroupFails, GroupMoves, RunFailed
<1> QED BY <1>2, <1>3, <1>4

LEMMA GroupCancelledKeeps ==
    ASSUME IInv, NEW r \in Runs, GroupCancelled(r)
    PROVE  (\A q \in Runs : RunInv(q)') /\ OneHolder'
<1>1. \A q \in Runs \ {r} : Same(q)
  BY DEF IInv, Shapes, GroupCancelled, End, Goto, group, Same
<1>2. /\ phase[r] = "agents" /\ phase'[r] = "over" /\ agent'[r] = agent[r]
      /\ failure'[r] = failure[r] /\ log'[r] = log[r]
      /\ tx'[r] = tx[r] /\ db'[r] = db[r] /\ reply'[r] = "cancelled"
  BY DEF IInv, Shapes, GroupCancelled, End, Goto, group
<1>3. RunInv(r) /\ Plain(log[r]) /\ db[r] = NoRow /\ tx[r] = NoRow
  BY <1>2, BeforeTheEnd DEF IInv
<1>4. VerdictLast(r)'
  BY <1>2, <1>3, StillPlain
<1>5. GroupOutcome(r)'
  BY <1>2, <1>3 DEF RunInv, GroupOutcome, Closing
<1>6. TransactionFits(r)' /\ RowFits(r)' /\ ~HasRow(r)'
  BY <1>2, <1>3, NothingStored
<1> QED BY <1>1, <1>4, <1>5, <1>6, OneRunMoves DEF RunInv

-----------------------------------------------------------------------------
(* The unit of work *)

\* A run that stores has no committed row and no answer.
LEMMA Storing ==
    ASSUME IInv, NEW r \in Runs, phase[r] = "storing"
    PROVE  RunInv(r) /\ db[r] = NoRow /\ reply[r] # "completed"
BY DEF IInv, RunInv, RowFits

\* The statements of a transaction change nothing but the row to come.
LEMMA StatementKeeps ==
    ASSUME IInv, NEW r \in Runs, phase[r] = "storing", NEW row,
           tx' = [tx EXCEPT ![r] = row], TransactionFits(r)',
           UNCHANGED <<phase, group, failure, log, db, reply>>
    PROVE  /\ \A q \in Runs : RunInv(q)'
           /\ HasRow(r) => OneHolder'
<1>1. \A q \in Runs \ {r} : Same(q)
  BY DEF IInv, Shapes, group, Same
<1>2. VerdictLast(r)'
  BY Storing DEF RunInv, VerdictLast, Closing
<1>3. GroupOutcome(r)'
  BY Storing DEF RunInv, GroupOutcome, Closing, AllEnded, group
<1>4. RowFits(r)'
  BY Storing DEF RowFits
<1>5. RunInv(r)'
  BY <1>2, <1>3, <1>4 DEF RunInv
<1>6. \A q \in Runs : RunInv(q)'
  BY <1>1, <1>5, SameKeeps DEF IInv
<1>7. HasRow(r) => OneHolder'
  BY <1>1, <1>5, OneRunMoves
<1> QED BY <1>6, <1>7

LEMMA CreateKeeps ==
    ASSUME IInv, NEW r \in Runs, Create(r)
    PROVE  (\A q \in Runs : RunInv(q)') /\ OneHolder'
<1>1. tx'[r] = Row("queued", <<>>, FALSE, "none")
  BY DEF Create, IInv, Shapes
<1>2. TransactionFits(r)'
  BY <1>1 DEF Create, TransactionFits, NoRow, Row
<1>3. \A q \in Runs : RunInv(q)'
  BY <1>2, StatementKeeps DEF Create
<1>4. \A q \in SameRequest(r) : ~HasRow(q)
  BY DEF Create, HasRow
<1>5. \A q \in Runs \ {r} : HasRow(q)' <=> HasRow(q)
  BY DEF Create, HasRow, IInv, Shapes
<1>6. OneHolder'
  BY <1>4, <1>5 DEF IInv, OneHolder, SameRequest
<1> QED BY <1>3, <1>6

LEMMA AppendEventsKeeps ==
    ASSUME IInv, NEW r \in Runs, AppendEvents(r)
    PROVE  (\A q \in Runs : RunInv(q)') /\ OneHolder'
<1>1. tx[r].status = "queued" /\ tx[r] # NoRow /\ HasRow(r)
  BY DEF AppendEvents, HasRow, NoRow, Row
<1>2. RunInv(r) /\ phase[r] = "storing"
  BY <1>1 DEF IInv, RunInv, TransactionFits
<1>5. tx'[r] = Row("processing", log[r], FALSE, "none")
  BY DEF AppendEvents, IInv, Shapes
<1>6. TransactionFits(r)'
  BY <1>2, <1>5 DEF AppendEvents, TransactionFits, Row, NoRow
<1> QED BY <1>1, <1>2, <1>6, StatementKeeps DEF AppendEvents

LEMMA SetStatusKeeps ==
    ASSUME IInv, NEW r \in Runs, SetStatus(r)
    PROVE  (\A q \in Runs : RunInv(q)') /\ OneHolder'
<1>1. tx[r].status = "processing" /\ tx[r] # NoRow /\ HasRow(r)
  BY DEF SetStatus, HasRow, NoRow, Row
<1>2. RunInv(r) /\ phase[r] = "storing"
  BY <1>1 DEF IInv, RunInv, TransactionFits
<1>3. tx[r] = Row("processing", log[r], FALSE, "none")
  BY <1>1, <1>2 DEF RunInv, TransactionFits
<1>4. tx'[r] = Row(Verdict(r), tx[r].events, failure[r] = "none", failure[r])
  BY DEF SetStatus, IInv, Shapes
<1>5. tx'[r] = FinalRow(r)
  BY <1>3, <1>4 DEF FinalRow, Row
<1>6. FinalRow(r)' = FinalRow(r) /\ FinalRow(r).status \in {"completed", "failed"}
  BY DEF FinalRow, Row, Verdict, SetStatus
<1>7. TransactionFits(r)'
  BY <1>2, <1>5, <1>6 DEF SetStatus, TransactionFits
<1> QED BY <1>1, <1>2, <1>7, StatementKeeps DEF SetStatus

\* The unit of work ends, with its row or without, and the caller is told so.
StoreEnds(r, answer) ==
    /\ phase[r] = "storing"
    /\ End(r, answer)
    /\ CloseTransaction(r)
    /\ \/ /\ UNCHANGED db
          /\ answer # "completed"
       \/ /\ tx[r].status \in {"completed", "failed"}
          /\ db' = [db EXCEPT ![r] = tx[r]]
          /\ failure[r] = "none" => answer \in {"completed", "service_unavailable", "cancelled"}
          /\ failure[r] # "none" => answer \in {failure[r], "cancelled"}
    /\ UNCHANGED <<group, failure, log>>

LEMMA StoreEndsKeeps ==
    ASSUME IInv, NEW r \in Runs, NEW answer, StoreEnds(r, answer)
    PROVE  (\A q \in Runs : RunInv(q)') /\ OneHolder'
<1>1. \A q \in Runs \ {r} : Same(q)
  BY DEF IInv, Shapes, StoreEnds, CloseTransaction, End, Goto, group, Same
<1>2. /\ phase[r] = "storing" /\ phase'[r] = "over" /\ agent'[r] = agent[r]
      /\ failure'[r] = failure[r] /\ log'[r] = log[r] /\ tx'[r] = NoRow /\ reply'[r] = answer
  BY DEF IInv, Shapes, StoreEnds, CloseTransaction, End, Goto, group
<1>3. RunInv(r) /\ db[r] = NoRow
  BY <1>2, Storing
<1>4. VerdictLast(r)'
  BY <1>2, <1>3 DEF RunInv, VerdictLast, Closing
<1>5. GroupOutcome(r)'
  BY <1>2, <1>3 DEF RunInv, GroupOutcome, Closing, AllEnded
<1>6. TransactionFits(r)' /\ RowFits(r)' /\ (HasRow(r)' => HasRow(r))
  <2>1. CASE UNCHANGED db /\ answer # "completed"
    BY <2>1, <1>2, <1>3, NothingStored
  <2>2. CASE /\ tx[r].status \in {"completed", "failed"}
             /\ db' = [db EXCEPT ![r] = tx[r]]
             /\ failure[r] = "none" => answer \in {"completed", "service_unavailable", "cancelled"}
             /\ failure[r] # "none" => answer \in {failure[r], "cancelled"}
    <3>1. tx[r] = FinalRow(r) /\ tx[r] # NoRow
      BY <2>2, <1>3 DEF RunInv, TransactionFits, NoRow, Row
    <3>2. db'[r] = FinalRow(r)' /\ db'[r] # NoRow
      BY <3>1, <2>2, <1>2 DEF IInv, Shapes, FinalRow, Verdict
    <3>3. TransactionFits(r)'
      BY <1>2 DEF TransactionFits, NoRow, Row
    <3>4. failure[r] # "completed"
      BY MappedCodes DEF IInv, Shapes
    <3>5. RowFits(r)'
      BY <2>2, <3>1, <3>2, <3>4, <1>2 DEF RowFits
    <3> QED BY <3>1, <3>3, <3>5 DEF HasRow
  <2> QED BY <2>1, <2>2 DEF StoreEnds
<1> QED BY <1>1, <1>4, <1>5, <1>6, OneRunMoves DEF RunInv

\* Commit, StoreFails and a cancellation while storing are such ends.
LEMMA StoreStepEnds ==
    ASSUME IInv, NEW r \in Runs, Commit(r) \/ StoreFails(r)
    PROVE  \E answer : StoreEnds(r, answer)
<1>1. failure[r] # "completed"
  BY MappedCodes DEF IInv, Shapes
<1>2. CASE Commit(r)
  <2>1. tx[r] # NoRow
    BY <1>2 DEF Commit, NoRow, Row
  <2>2. phase[r] = "storing"
    BY <2>1 DEF IInv, RunInv, TransactionFits
  <2> QED BY <1>2, <2>2 DEF Commit, StoreEnds
<1>3. CASE StoreFails(r)
  BY <1>1, <1>3 DEF StoreFails, StoreEnds, AfterLostStore
<1> QED BY <1>2, <1>3

LEMMA CancelKeeps ==
    ASSUME IInv, NEW r \in Runs, Cancel(r)
    PROVE  (\A q \in Runs : RunInv(q)') /\ OneHolder'
<1>1. CASE /\ phase[r] = "speech" /\ End(r, "cancelled")
           /\ UNCHANGED <<agent, failure, aborting, interrupted, log, tx, db>>
  BY <1>1, SpeechEndKeeps DEF group
<1>2. CASE /\ UNCHANGED <<phase, agent, failure, log, tx, db, reply>>
  <2>1. \A q \in Runs : Same(q) /\ (HasRow(q)' => HasRow(q))
    BY <1>2 DEF Same, HasRow
  <2>2. RunInv(r)'
    BY <2>1, SameKeeps DEF IInv
  <2> QED BY <2>1, <2>2, OneRunMoves
<1>3. CASE /\ phase[r] = "storing" /\ CloseTransaction(r) /\ End(r, "cancelled")
           /\ \/ UNCHANGED db
              \/ tx[r].status \in {"completed", "failed"} /\ db' = [db EXCEPT ![r] = tx[r]]
           /\ UNCHANGED <<group, failure, log>>
  <2>1. StoreEnds(r, "cancelled")
    BY <1>3 DEF StoreEnds
  <2> QED BY <2>1, StoreEndsKeeps
<1> QED BY <1>1, <1>2, <1>3 DEF Cancel

-----------------------------------------------------------------------------
\* Every step preserves the invariant.
LEMMA NextIInv == IInv /\ [Next]_vars => IInv'
<1> SUFFICES ASSUME IInv, [Next]_vars PROVE (\A q \in Runs : RunInv(q)') /\ OneHolder'
  BY ShapesStep DEF IInv
<1>1. CASE UNCHANGED vars
  <2>1. \A q \in Runs : Same(q) /\ (HasRow(q)' => HasRow(q))
    BY <1>1 DEF vars, Same, HasRow
  <2> QED BY <2>1, SameKeeps DEF IInv, OneHolder
<1>2. ASSUME NEW r \in Runs,
             Begin(r) \/ SpeechFails(r) \/ EnvelopeFails(r) \/ SpeechSucceeds(r)
      PROVE  (\A q \in Runs : RunInv(q)') /\ OneHolder'
  <2>1. CASE SpeechFails(r)
    <3>1. PICK code \in SpeechErrors : End(r, code)
      BY <2>1 DEF SpeechFails
    <3> QED BY <2>1, <3>1, SpeechEndKeeps DEF SpeechFails
  <2>2. CASE EnvelopeFails(r)
    BY <2>2, SpeechEndKeeps DEF EnvelopeFails
  <2> QED BY <1>2, <2>1, <2>2, BeginKeeps, SpeechSucceedsKeeps
<1>3. ASSUME NEW r \in Runs, NEW a \in Agents,
             AgentStarts(r, a) \/ AgentCompletes(r, a) \/ AgentFails(r, a) \/ AgentCancelled(r, a)
      PROVE  (\A q \in Runs : RunInv(q)') /\ OneHolder'
  BY <1>3, AgentStepMoves, AgentMovesKeeps
<1>4. ASSUME NEW r \in Runs,
             Aggregate(r) \/ AggregationFails(r) \/ GroupFails(r) \/ GroupCancelled(r)
      PROVE  (\A q \in Runs : RunInv(q)') /\ OneHolder'
  BY <1>4, GroupEndMoves, GroupMovesKeeps, GroupCancelledKeeps
<1>5. ASSUME NEW r \in Runs, Create(r) \/ AppendEvents(r) \/ SetStatus(r)
      PROVE  (\A q \in Runs : RunInv(q)') /\ OneHolder'
  BY <1>5, CreateKeeps, AppendEventsKeeps, SetStatusKeeps
<1>6. ASSUME NEW r \in Runs, Commit(r) \/ StoreFails(r)
      PROVE  (\A q \in Runs : RunInv(q)') /\ OneHolder'
  BY <1>6, StoreStepEnds, StoreEndsKeeps
<1> QED BY <1>1, <1>2, <1>3, <1>4, <1>5, <1>6, CancelKeeps DEF Next

-----------------------------------------------------------------------------
(* What follows from the invariant *)

LEMMA IInvIsInvariant == Spec => []IInv
BY InitIInv, NextIInv, PTL DEF Spec

\* The verdicts of a committed row are those of the final chain.
LEMMA StoredRow ==
    ASSUME IInv, NEW r \in Runs, db[r] # NoRow
    PROVE  /\ db[r].status = Verdict(r) /\ db[r].events = log[r]
           /\ db[r].analysis = TRUE <=> failure[r] = "none"
           /\ db[r].code = failure[r]
           /\ EndsWith(log[r], IF failure[r] = "none" THEN RunCompleted ELSE RunFailed)
           /\ log[r] \in Seq(Events)
           /\ failure[r] = "none" => \A a \in Agents : agent[r][a] = "completed"
<1>1. db[r] = FinalRow(r)
  BY DEF IInv, RunInv, RowFits
<1>2. /\ FinalRow(r).status = Verdict(r) /\ FinalRow(r).events = log[r]
      /\ FinalRow(r).code = failure[r]
  BY DEF FinalRow, Row
<1>3. FinalRow(r).analysis = TRUE <=> failure[r] = "none"
  BY DEF FinalRow, Row
<1>4. /\ EndsWith(log[r], IF failure[r] = "none" THEN RunCompleted ELSE RunFailed)
      /\ log[r] \in Seq(Events)
      /\ failure[r] = "none" => \A a \in Agents : agent[r][a] = "completed"
  BY DEF IInv, Shapes, RunInv, VerdictLast, GroupOutcome, Closing, EndsWith
<1> QED BY <1>1, <1>2, <1>3, <1>4

\* The stored chain is the whole chain, for every number of runs and agents:
\* nobody records an event of a run after its rows were written.
THEOREM StoredChainIsFinalHolds == Spec => []StoredChainIsFinal
<1>1. IInv => StoredChainIsFinal
  BY StoredRow DEF StoredChainIsFinal
<1> QED BY <1>1, IInvIsInvariant, PTL

\* A committed row is a whole run with exactly one verdict, in the last place.
THEOREM StoredWholeHolds == Spec => []StoredWhole
<1>1. ASSUME IInv, NEW r \in Runs, db[r] # NoRow
      PROVE  LET row == db[r]
                 verdicts == {k \in DOMAIN row.events :
                                 row.events[k] \in {Event("workflow", "run_completed"),
                                                    Event("workflow", "run_failed")}}
             IN  /\ row.status \in {"completed", "failed"}
                 /\ row.analysis <=> row.status = "completed"
                 /\ row.code = "none" <=> row.status = "completed"
                 /\ verdicts = {Len(row.events)}
                 /\ row.events[Len(row.events)].type =
                       (IF row.status = "completed" THEN "run_completed" ELSE "run_failed")
  <2>1. /\ db[r].status = Verdict(r) /\ db[r].events = log[r]
        /\ db[r].analysis = TRUE <=> failure[r] = "none"
        /\ db[r].code = failure[r]
    BY <1>1, StoredRow
  <2>2. log[r] \in Seq(Events)
    BY <1>1, StoredRow
  <2>3. EndsWith(log[r], IF failure[r] = "none" THEN RunCompleted ELSE RunFailed)
    BY <1>1, StoredRow
  <2>4. /\ Len(log[r]) > 0
        /\ \A k \in 1 .. Len(log[r]) : log[r][k] \in Verdicts => k = Len(log[r])
        /\ log[r][Len(log[r])] = IF failure[r] = "none" THEN RunCompleted ELSE RunFailed
    BY <2>3 DEF EndsWith
  <2>5. log[r][Len(log[r])] \in Verdicts
    BY <2>4 DEF Verdicts
  <2>6. {k \in DOMAIN log[r] : log[r][k] \in Verdicts} = {Len(log[r])}
    <3>1. Len(log[r]) \in Nat /\ DOMAIN log[r] = 1 .. Len(log[r])
      BY <2>2
    <3> QED BY <3>1, <2>4, <2>5
  <2>7. RunCompleted.type = "run_completed" /\ RunFailed.type = "run_failed"
    BY DEF RunCompleted, RunFailed, Event
  <2>8. log[r][Len(log[r])].type = IF failure[r] = "none" THEN "run_completed" ELSE "run_failed"
    BY <2>4, <2>7
  <2> QED BY <2>1, <2>6, <2>8 DEF Verdict, Verdicts, RunCompleted, RunFailed
<1>2. IInv => StoredWhole
  BY <1>1 DEF StoredWhole
<1> QED BY <1>2, IInvIsInvariant, PTL

\* No partial analysis, whoever fails or is cancelled and in whatever order, and
\* however the transaction that stores it ends.
THEOREM NoPartialAnalysisHolds == Spec => []NoPartialAnalysis
<1>1. ASSUME IInv, NEW r \in Runs, db[r].analysis \/ reply[r] = "completed"
      PROVE  /\ \A a \in Agents : agent[r][a] = "completed"
             /\ reply[r] \in {"completed", "service_unavailable", "cancelled"}
  <2>1. db[r] # NoRow
    BY <1>1 DEF IInv, RunInv, RowFits, NoRow, Row
  <2>2. failure[r] = "none"
    BY <1>1, <2>1, StoredRow DEF IInv, RunInv, RowFits
  <2>3. reply[r] \in {"completed", "service_unavailable", "cancelled"}
    BY <1>1, <2>1, <2>2 DEF IInv, RunInv, RowFits
  <2> QED BY <1>1, <2>1, <2>2, <2>3, StoredRow
<1>2. IInv => NoPartialAnalysis
  BY <1>1 DEF NoPartialAnalysis
<1> QED BY <1>2, IInvIsInvariant, PTL

\* The answer and the committed row never contradict each other.
THEOREM AnswerMatchesRecordHolds == Spec => []AnswerMatchesRecord
<1>1. ASSUME IInv, NEW r \in Runs
      PROVE  /\ reply[r] = "completed" => db[r].status = "completed"
             /\ db[r].status = "failed" => reply[r] \in {db[r].code, "cancelled"}
  <2>1. CASE db[r] = NoRow
    BY <1>1, <2>1 DEF IInv, RunInv, RowFits, NoRow, Row
  <2>2. CASE db[r] # NoRow
    <3>1. db[r].status = Verdict(r) /\ db[r].code = failure[r]
      BY <1>1, <2>2, StoredRow
    <3>2. /\ reply[r] = "completed" => failure[r] = "none"
          /\ failure[r] # "none" => reply[r] \in {failure[r], "cancelled"}
      BY <1>1, <2>2 DEF IInv, RunInv, RowFits
    <3> QED BY <3>1, <3>2 DEF Verdict
  <2> QED BY <2>1, <2>2
<1>2. IInv => AnswerMatchesRecord
  BY <1>1 DEF AnswerMatchesRecord
<1> QED BY <1>2, IInvIsInvariant, PTL

\* The types; an agent's private code never becomes the failure of a run.
THEOREM TypeCorrect == Spec => []TypeOK
<1>1. IInv => TypeOK
  BY DEF IInv, Shapes, TypeOK, Rows, Codes
<1> QED BY <1>1, IInvIsInvariant, PTL

-----------------------------------------------------------------------------
(* The workflow implements the ledger: every step is a step of the ledger or *)
(* none.                                                                     *)

LEMMA LedgerInit == Init => Ledger!Init
BY DEF Init, Ledger!Init, LedgerState, NoRow, Row

Entry == [r \in Runs |-> db[r].status]
Answered == {r \in Runs : reply[r] = "completed"}

\* A step that neither opens nor closes a run is none of the ledger's.
LEMMA LedgerStutters ==
    ASSUME IInv, UNCHANGED db, UNCHANGED reply,
           \A r \in Runs : \/ phase'[r] = phase[r]
                           \/ phase[r] \notin {"idle", "over"} /\ phase'[r] \notin {"idle", "over"}
    PROVE  UNCHANGED Ledger!vars
<1>1. LedgerState' = LedgerState
  BY DEF LedgerState
<1> QED BY <1>1 DEF Ledger!vars

LEMMA LedgerOpens ==
    ASSUME IInv, NEW r \in Runs, Begin(r)
    PROVE  Ledger!Open(r)
<1>1. phase[r] = "idle" /\ phase' = [phase EXCEPT ![r] = "speech"]
      /\ db' = db /\ reply' = reply
  BY DEF Begin, Goto
<1>2. LedgerState' = [LedgerState EXCEPT ![r] = "open"]
  BY <1>1 DEF LedgerState, IInv, Shapes
<1>3. LedgerState[r] = "unseen"
  BY <1>1 DEF LedgerState
<1> QED BY <1>1, <1>2, <1>3 DEF Ledger!Open

\* A run that ends without a committed row is closed without an entry.
LEMMA LedgerClosesEmpty ==
    ASSUME IInv, NEW r \in Runs, phase[r] \notin {"idle", "over"},
           NEW answer, answer # "completed", End(r, answer), UNCHANGED db
    PROVE  Ledger!Close(r)
<1>1. db[r] = NoRow /\ reply[r] # "completed"
  BY DEF IInv, RunInv, RowFits
<1>2. LedgerState[r] = "open" /\ LedgerState' = [LedgerState EXCEPT ![r] = "closed"]
  BY DEF LedgerState, IInv, Shapes, End, Goto
<1>3. Entry' = [Entry EXCEPT ![r] = "none"]
  BY <1>1 DEF Entry, NoRow, Row
<1>4. Answered' = Answered
  BY <1>1 DEF Answered, End, IInv, Shapes
<1> QED BY <1>2, <1>3, <1>4 DEF Ledger!Close, Ledger!Enter, Entry, Answered

\* A run that ends with a committed row is closed with the entry of its row.
LEMMA LedgerClosesEntered ==
    ASSUME IInv, NEW r \in Runs, phase[r] = "storing",
           NEW answer, End(r, answer),
           tx[r].status \in {"completed", "failed"}, db' = [db EXCEPT ![r] = tx[r]],
           failure[r] # "none" => answer \in {failure[r], "cancelled"}
    PROVE  Ledger!Close(r)
<1>1. RunInv(r) /\ db[r] = NoRow /\ reply[r] # "completed"
  BY Storing
<1>2. LedgerState[r] = "open" /\ LedgerState' = [LedgerState EXCEPT ![r] = "closed"]
  BY DEF LedgerState, IInv, Shapes, End, Goto
<1>3. Entry' = [Entry EXCEPT ![r] = tx[r].status]
  BY DEF Entry, IInv, Shapes
<1>4. \A q \in Runs : RequestOf[q] = RequestOf[r] => Entry[q] = "none"
  <2>1. HasRow(r)
    BY DEF HasRow, NoRow, Row
  <2>2. \A q \in Runs : RequestOf[q] = RequestOf[r] => db[q] = NoRow
    BY <1>1, <2>1 DEF IInv, OneHolder, HasRow
  <2> QED BY <2>2 DEF Entry, NoRow, Row
<1>5. answer = "completed" => tx[r].status = "completed"
  <2>1. tx[r].status = Verdict(r)
    BY <1>1 DEF RunInv, TransactionFits, FinalRow, Row
  <2>2. failure[r] # "completed"
    BY MappedCodes DEF IInv, Shapes
  <2> QED BY <2>1, <2>2 DEF Verdict
<1>6. Answered' = IF answer = "completed" THEN Answered \cup {r} ELSE Answered
  BY <1>1 DEF Answered, End, IInv, Shapes
<1> QED BY <1>2, <1>3, <1>4, <1>5, <1>6 DEF Ledger!Close, Ledger!Enter, Entry, Answered

LEMMA LedgerStoreEnds ==
    ASSUME IInv, NEW r \in Runs, NEW answer, StoreEnds(r, answer)
    PROVE  Ledger!Close(r)
<1>1. CASE UNCHANGED db /\ answer # "completed"
  BY <1>1, LedgerClosesEmpty DEF StoreEnds
<1>2. CASE ~(UNCHANGED db /\ answer # "completed")
  BY <1>2, LedgerClosesEntered DEF StoreEnds
<1> QED BY <1>1, <1>2

LEMMA LedgerStep == IInv /\ [Next]_vars => [Ledger!Next]_(Ledger!vars)
<1> SUFFICES ASSUME IInv, [Next]_vars
             PROVE  UNCHANGED Ledger!vars \/ \E r \in Runs : Ledger!Open(r) \/ Ledger!Close(r)
  BY DEF Ledger!Next
<1>1. CASE UNCHANGED vars
  BY <1>1, LedgerStutters DEF vars
<1>2. ASSUME NEW r \in Runs, Begin(r) PROVE Ledger!Open(r)
  BY <1>2, LedgerOpens
<1>3. ASSUME NEW r \in Runs, SpeechFails(r) \/ EnvelopeFails(r) PROVE Ledger!Close(r)
  <2>1. PICK answer \in SpeechErrors \cup {"internal_error"} : End(r, answer)
    BY <1>3 DEF SpeechFails, EnvelopeFails
  <2> QED BY <1>3, <2>1, LedgerClosesEmpty DEF SpeechFails, EnvelopeFails
<1>4. ASSUME NEW r \in Runs, SpeechSucceeds(r) PROVE UNCHANGED Ledger!vars
  BY <1>4, LedgerStutters DEF SpeechSucceeds, Goto, IInv, Shapes
<1>5. ASSUME NEW r \in Runs, NEW a \in Agents,
             AgentStarts(r, a) \/ AgentCompletes(r, a) \/ AgentFails(r, a) \/ AgentCancelled(r, a)
      PROVE  UNCHANGED Ledger!vars
  BY <1>5, LedgerStutters DEF AgentStarts, AgentCompletes, AgentFails, AgentCancelled
<1>6. ASSUME NEW r \in Runs, Aggregate(r) \/ AggregationFails(r) \/ GroupFails(r)
      PROVE  UNCHANGED Ledger!vars
  BY <1>6, LedgerStutters DEF Aggregate, AggregationFails, GroupFails, Goto, IInv, Shapes
<1>7. ASSUME NEW r \in Runs, GroupCancelled(r) PROVE Ledger!Close(r)
  BY <1>7, LedgerClosesEmpty DEF GroupCancelled
<1>8. ASSUME NEW r \in Runs, Create(r) \/ AppendEvents(r) \/ SetStatus(r)
      PROVE  UNCHANGED Ledger!vars
  BY <1>8, LedgerStutters DEF Create, AppendEvents, SetStatus
<1>9. ASSUME NEW r \in Runs, Commit(r) \/ StoreFails(r) PROVE Ledger!Close(r)
  BY <1>9, StoreStepEnds, LedgerStoreEnds
<1>10. ASSUME NEW r \in Runs, Cancel(r) PROVE UNCHANGED Ledger!vars \/ Ledger!Close(r)
  <2>1. CASE phase[r] = "speech" /\ End(r, "cancelled") /\ UNCHANGED db
    BY <2>1, LedgerClosesEmpty
  <2>2. CASE UNCHANGED <<phase, db, reply>>
    BY <2>2, LedgerStutters
  <2>3. CASE /\ phase[r] = "storing" /\ CloseTransaction(r) /\ End(r, "cancelled")
             /\ \/ UNCHANGED db
                \/ tx[r].status \in {"completed", "failed"} /\ db' = [db EXCEPT ![r] = tx[r]]
             /\ UNCHANGED <<group, failure, log>>
    BY <2>3, LedgerStoreEnds DEF StoreEnds
  <2> QED BY <1>10, <2>1, <2>2, <2>3 DEF Cancel
<1> QED
  BY <1>1, <1>2, <1>3, <1>4, <1>5, <1>6, <1>7, <1>8, <1>9, <1>10 DEF Next

\* The workflow implements the ledger: a run is entered once, as a whole, in the
\* step that closes it; of the runs of one request at most one is entered.
THEOREM LedgerSafetyHolds == Spec => LedgerSafety
BY LedgerInit, LedgerStep, IInvIsInvariant, PTL DEF Spec, LedgerSafety, Ledger!Safety
=============================================================================
