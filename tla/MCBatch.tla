------------------------------- MODULE MCBatch -------------------------------
(* Two chats, recordings of a few milliseconds, a URL with a redirect, and   *)
(* three calls with two requests for their trends.                           *)
EXTENDS BatchRequest

CONSTANTS q1, q2, u1, u2, c1, c2, c3, k1

(* The chat's files. *)
SomeVersions == [size : {1}, format : {"wav"}, sum : {1, 2}]
SomeContents ==
    [size : {0}, format : {"none"}, sum : {0}] \cup [size : {3}, format : {"wav"}, sum : {3}]
        \cup SomeVersions

(* Recordings. *)
Time == 0 .. 2
AWord == {w \in [start : Time, end : Time] : w.start <= w.end}
ASegment(n) ==
    {s \in [start : Time, words : UNION {[1 .. m -> AWord] : m \in 0 .. n}] :
        s.words # <<>> => s.start \in {s.words[1].start, s.words[1].start + 1}}
SomeSegments == {<<>>} \cup {<<s>> : s \in ASegment(2)} \cup {<<s, t>> : s, t \in ASegment(1)}
ATurn == {t \in [speaker : {1, 2}, start : Time, end : Time] : t.start < t.end}
SomeTurns == {{}} \cup {{t, u} : t, u \in ATurn}

File(size, magic, type, decodes, duration) ==
    [size |-> size, magic |-> magic, type |-> type, decodes |-> decodes, duration |-> duration]
Good == File(1, "wav", "wav", "yes", 2)
Long == File(1, "wav", "wav", "yes", 3)
Part(speaker, role, lines) == [speaker |-> speaker, role |-> role, evidence |-> lines]
Plain == {<<Part(0, "operator", {1})>>, <<Part(1, "operator", {1})>>, <<Part(2, "client", {1})>>,
          <<Part(1, "operator", {1}), Part(2, "client", {2})>>,
          <<Part(2, "client", {1}), Part(1, "operator", {2})>>}
Recording(file, segments, turns, mapping, topic) ==
    [file |-> file, segments |-> segments, turns |-> turns, mapping |-> mapping,
     topic |-> topic]

One(w) == [start |-> w.start, words |-> <<w>>]
W(s, e) == [start |-> s, end |-> e]
T(p, s, e) == [speaker |-> p, start |-> s, end |-> e]
\* Two or three people who take turns.
Talk == <<One(W(0, 1)), One(W(1, 2)), One(W(2, 3))>>
\* The second of them starts before the last word of the first.
CrossTalk == <<[start |-> 0, words |-> <<W(0, 1), W(2, 3)>>], One(W(1, 3))>>
\* In the last case but one nobody talks during the third word.
People == {{T(1, 0, 1), T(2, 1, 2), T(1, 2, 3)}, {T(1, 0, 1), T(2, 1, 2), T(3, 2, 3)},
           {T(1, 0, 2), T(2, 0, 1)}, {}}
SomeParts == [speaker : 0 .. 2, role : Roles, evidence : {{}, {1}, {2}, {1, 3}}]
SomeSubmissions == {<<>>} \cup {<<p>> : p \in SomeParts} \cup {<<p, r>> : p, r \in SomeParts}
SomeMappings == {<<>>, 1 :> "client", (1 :> "client") @@ (2 :> "operator"), 3 :> "client"}

SomeFiles ==
    [size : 0 .. 3, magic : {"wav"}, type : {"wav", "webm"}, decodes : {"yes"}, duration : {3}]
        \cup [size : {1, 2}, magic : {"wav", "ogg", "none"}, type : {"wav", "ogg"},
              decodes : {"yes", "no", "timeout"}, duration : {0, 3, 4}]

AllSubmissions == "plain" :> Plain @@ "any" :> SomeSubmissions

SomeUploads ==
    {Recording(Good, s, {T(1, 0, 1), T(2, 1, 2)}, <<>>, "plain") : s \in SomeSegments}
        \cup {Recording(f, Talk, {}, <<>>, "plain") : f \in SomeFiles}
SomeRecordings ==
    {Recording(Good, s, t, <<>>, "plain") : s \in SomeSegments, t \in SomeTurns}
        \cup {Recording(Long, s, t, m, "any") :
                  s \in {Talk, CrossTalk}, t \in People, m \in SomeMappings}
        \cup SomeUploads

(* Reports. *)
SomeTaxonomy == "cards" :> {"high", "low"} @@ "loans" :> {"low"}
SomeWeights  == "greeting" :> 40 @@ "farewell" :> 60
SomeSeverity == "consent" :> "blocking" @@ "tone" :> "info"
Quality(g, f, n) ==
    "greeting" :> [passed |-> g, confidence |-> n, evidence |-> {1}]
        @@ "farewell" :> [passed |-> f, confidence |-> 90, evidence |-> {1}]
Issue(rule, severity) == [rule |-> rule, severity |-> severity, evidence |-> {1}]
Output(topic, priority, quality, issues, facts) ==
    [topic |-> [id |-> topic, priority |-> priority, confidence |-> 90, evidence |-> {1}],
     quality |-> quality, issues |-> issues, facts |-> facts, actions |-> {{1}}]
SomeOutputs ==
    {Output("cards", "high", Quality(TRUE, TRUE, 90), <<>>, {1}),
     Output("loans", "low", Quality(TRUE, FALSE, 10), <<Issue("consent", "blocking")>>, {1}),
     Output("loans", "high", Quality(TRUE, FALSE, 90), <<>>, {1}),
     Output("cards", "low", Quality(TRUE, TRUE, 90), <<Issue("tone", "blocking")>>, {1}),
     Output("cards", "low", Quality(TRUE, TRUE, 90), <<>>, {2})}
SomeTranscripts == {[roles |-> <<90>>, review |-> FALSE]}
=============================================================================
