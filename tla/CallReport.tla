----------------------------- MODULE CallReport -----------------------------
(***************************************************************************)
(* What becomes of the agents' results: the fan-in of one call             *)
(* (workflow/aggregation.py), stored with its run, and the trends over the *)
(* stored calls (trends.py, routes/trends.py, the assistant's tool in      *)
(* api/main.py), while further calls are analysed and stored.              *)
(*                                                                         *)
(* Segments are ids with the confidence of their role; confidences are     *)
(* percentages.  Explanations, texts, versions, the order of records and   *)
(* the run's own events are left out.  The lower bounds that config.py     *)
(* fixes for the cohort are MinSample here.                                *)
(***************************************************************************)
EXTENDS Integers, Sequences, FiniteSets, SequencesExt, FiniteSetsExt

CONSTANTS Calls, Queries,
          Transcripts, Outputs,          \* what a call's agents may be given and submit
          Taxonomy, Weights, Severity,   \* the policies
          ReviewConfidence, RoleConfidence,
          MinSample, MaxRecords, MaxWindow,   \* TrendsSettings
          AssistantWindow, Topics, MaxNow

\* What criteria of the quality policy weigh together.
Weight(criteria) == MapThenSumSet(LAMBDA c : Weights[c], criteria)

\* QualityPolicy: every criterion weighs something, all together 100.
ASSUME ReportAssumption ==
    /\ IsFiniteSet(DOMAIN Weights) /\ Weights \in [DOMAIN Weights -> Nat \ {0}]
    /\ Weight(DOMAIN Weights) = 100
    /\ IsFiniteSet(Calls) /\ MaxRecords \in Nat
    /\ MinSample \in 1 .. MaxRecords /\ AssistantWindow \in 1 .. MaxWindow

VARIABLES call,       \* the runs: created, and the report once it is there
          saved,      \* the calls whose analysis is committed, in that order
          query,      \* requests for a trend
          now

reportVars == <<call, saved, query, now>>

InitReport ==
    /\ call = [c \in Calls |-> [phase |-> "new", created |-> 0, report |-> "none"]]
    /\ saved = <<>>
    /\ query = [k \in Queries |->
                   [phase |-> "new", by |-> "none", topic |-> "none", start |-> 0, end |-> 0,
                    asked |-> 0, runs |-> {}, evidence |-> {}, told |-> "none"]]
    /\ now = 1

-----------------------------------------------------------------------------
(* aggregate_analysis *)

Evidence(o) ==
    {o.topic.evidence, o.facts} \cup {o.quality[c].evidence : c \in DOMAIN o.quality}
        \cup {o.issues[i].evidence : i \in DOMAIN o.issues} \cup o.actions

ClassificationApproved(o) ==
    o.topic.id \in DOMAIN Taxonomy /\ o.topic.priority \in Taxonomy[o.topic.id]

IssuesApproved(o) ==
    /\ \A i, j \in DOMAIN o.issues : i # j => o.issues[i].rule # o.issues[j].rule
    /\ \A i \in DOMAIN o.issues :
          /\ o.issues[i].rule \in DOMAIN Severity
          /\ o.issues[i].severity = Severity[o.issues[i].rule]

QualityApproved(o) == DOMAIN o.quality \subseteq DOMAIN Weights

\* The four validations, each of which ends with its evidence; without them the
\* run fails.
Approved(transcript, o) ==
    /\ ClassificationApproved(o) /\ QualityApproved(o) /\ IssuesApproved(o)
    /\ UNION Evidence(o) \subseteq DOMAIN transcript.roles

Total(o) == Weight({c \in DOMAIN Weights : o.quality[c].passed})

NeedsReview(transcript, o) ==
    \/ transcript.review
    \/ \E s \in DOMAIN transcript.roles : transcript.roles[s] < RoleConfidence
    \/ o.topic.confidence < ReviewConfidence
    \/ \E c \in DOMAIN o.quality : o.quality[c].confidence < ReviewConfidence

Report(transcript, o) ==
    [topic |-> o.topic.id, priority |-> o.topic.priority, total |-> Total(o),
     compliant |-> \A i \in DOMAIN o.issues : o.issues[i].severity # "blocking",
     review |-> NeedsReview(transcript, o)]

\* A run is created when its call arrives, and stored when it was analysed.
Begin(c) ==
    /\ call[c].phase = "new"
    /\ call' = [call EXCEPT ![c].phase = "running", ![c].created = now]
    /\ UNCHANGED <<saved, query, now>>

Aggregate(c, transcript, o) ==
    /\ call[c].phase = "running"
    /\ IF Approved(transcript, o)
       THEN /\ call' = [call EXCEPT ![c].phase = "saved", ![c].report = Report(transcript, o)]
            /\ saved' = Append(saved, c)
       ELSE call' = [call EXCEPT ![c].phase = "failed"] /\ UNCHANGED saved
    /\ UNCHANGED <<query, now>>

-----------------------------------------------------------------------------
(* Trends *)

Answer(k, told) == query' = [query EXCEPT ![k].phase = "ended", ![k].told = told]

\* What the two callers make of TrendRejected and of a failed agent.
TurnedDown(k) == Answer(k, IF query[k].by = "api" THEN "invalid_input" ELSE "insufficient")

\* trends of the API, with a window of the client; TrendRequest.
AskApi(k, topic, start, end) ==
    /\ query[k].phase = "new"
    /\ IF start >= end THEN Answer(k, "invalid_request")
       ELSE query' = [query EXCEPT ![k] =
                [@ EXCEPT !.phase = "asked", !.by = "api", !.topic = topic,
                          !.start = start, !.end = end, !.asked = Len(saved)]]
    /\ UNCHANGED <<call, saved, now>>

\* query_trends of the assistant, over a window that ends now.
AskAssistant(k, topic) ==
    /\ query[k].phase = "new"
    /\ IF topic \notin DOMAIN Taxonomy THEN Answer(k, "unsupported")
       ELSE query' = [query EXCEPT ![k] =
                [@ EXCEPT !.phase = "asked", !.by = "assistant", !.topic = topic,
                          !.start = now - AssistantWindow, !.end = now, !.asked = Len(saved)]]
    /\ UNCHANGED <<call, saved, now>>

InWindow(c, q) == q.start <= call[c].created /\ call[c].created < q.end

\* list_sanitized: the committed analyses of the runs created in the window.
Listed(q) == {c \in Calls : call[c].phase = "saved" /\ InWindow(c, q)}
OfTopic(runs, topic) == {c \in runs : call[c].report.topic = topic}

\* _preflight.
Preflight(k) ==
    /\ query[k].phase = "asked"
    /\ LET runs     == Listed(query[k])
           evidence == OfTopic(runs, query[k].topic)
       IN IF \/ query[k].end - query[k].start > MaxWindow
             \/ Cardinality(runs) \notin MinSample .. MaxRecords \/ evidence = {}
          THEN TurnedDown(k)
          ELSE query' = [query EXCEPT ![k].phase = "agent", ![k].runs = runs,
                                      ![k].evidence = evidence]
    /\ UNCHANGED <<call, saved, now>>

\* The answer to the assistant; its tool shows no cohort below the minimum.
Shown(q) ==
    IF q.by = "assistant" /\ Cardinality(q.evidence) < MinSample THEN "insufficient" ELSE "trend"

\* Mutant: the evidence is asked for again when the agent has submitted.
SubmitsReread(k, ids) ==
    /\ query[k].phase = "agent"
    /\ LET again == OfTopic(Listed(query[k]), query[k].topic)
           q     == [query[k] EXCEPT !.evidence = again]
       IN query' = [query EXCEPT ![k] =
              [q EXCEPT !.phase = "ended",
                        !.told = IF ids = query[k].evidence THEN Shown(q) ELSE "agent_failure"]]
    /\ UNCHANGED <<call, saved, now>>

\* submit_trend and _finalize: exactly the ids of the preflight.
Submits(k, ids) ==
    /\ query[k].phase = "agent"
    /\ Answer(k, IF ids = query[k].evidence THEN Shown(query[k]) ELSE "agent_failure")
    /\ UNCHANGED <<call, saved, now>>

\* _map_agent_failure.
AgentFails(k) ==
    /\ query[k].phase = "agent"
    /\ \E code \in {"quota_exceeded", "deadline_exceeded", "service_unavailable",
                    "provider_failure", "agent_failure"} : Answer(k, code)
    /\ UNCHANGED <<call, saved, now>>

Pass ==
    /\ now < MaxNow
    /\ now' = now + 1
    /\ UNCHANGED <<call, saved, query>>

ReportStep ==
    \/ \E c \in Calls, t \in Transcripts, o \in Outputs : Aggregate(c, t, o)
    \/ \E k \in Queries : Preflight(k) \/ AgentFails(k)
    \/ \E k \in Queries : \E ids \in {{}, query[k].evidence} : Submits(k, ids)

ReportEnvironment ==
    \/ \E c \in Calls : Begin(c)
    \/ \E k \in Queries, topic \in Topics :
          \/ AskAssistant(k, topic)
          \/ \E start, end \in 1 .. MaxNow : AskApi(k, topic, start, end)
    \/ Pass

-----------------------------------------------------------------------------
\* A trend, shown while calls go on being stored, counts the calls that one
\* moment of the request had stored for its window, and as evidence exactly
\* those of its topic, each a call whose analysis the policies approved; it is
\* drawn from no fewer calls than the minimum, and the assistant lets nobody
\* infer a cohort below it.
TrendBacked ==
    \A k \in Queries : query[k].told = "trend" =>
        LET q == query[k]
            Counted(n) == {saved[i] : i \in {i \in 1 .. n : InWindow(saved[i], q)}}
        IN /\ \E n \in q.asked .. Len(saved) :
                 /\ q.runs = Counted(n)
                 /\ q.evidence = {c \in Counted(n) : call[c].report.topic = q.topic}
           /\ Cardinality(q.runs) \in MinSample .. MaxRecords /\ q.evidence # {}
           /\ \A c \in q.runs :
                 /\ call[c].report.priority \in Taxonomy[call[c].report.topic]
                 /\ call[c].report.total \in 0 .. 100
           /\ q.by = "assistant" => Cardinality(q.evidence) >= MinSample
=============================================================================
