---------------------------- MODULE BatchRequest ----------------------------
(***************************************************************************)
(* One recording from its sender to the answer: the chat or a client of    *)
(* the API posts it, or a URL of it; the API checks it (routes/analyze.py),*)
(* the workflow fetches and transcribes it (workflow/analysis.py), and the *)
(* code of what failed travels back (AnalyzeErrors).  Admission, agents    *)
(* and storage are modules of their own: here they answer or fail.         *)
(*                                                                         *)
(* load says what a behaviour is about: requests of the chat among         *)
(* themselves, one recording posted through the chat, by a client of the   *)
(* API or of the speech service (which may name roles), or as a URL, or    *)
(* the reports of many calls.  The other components rest in their initial  *)
(* state then.                                                             *)
(***************************************************************************)
EXTENDS ChatPipeline, RemoteFetch, SpeechText, CallReport

CONSTANTS Lead,       \* the request of a load of one recording
          Uploads     \* recordings that come through the API or the chat; the
                      \* service transcribes a recording whoever sent it

ASSUME UploadsAssumption ==
    /\ Lead \in Requests
    /\ Uploads # {} /\ Uploads \subseteq Recordings
    /\ \A r \in Uploads : r.mapping = <<>>

VARIABLES load,
          analysis    \* the call of analyze: where it is, its error code

vars == <<load, analysis, chatVars, fetchVars, speech, reportVars>>

Loads == {"chats", "report", "chat", "client", "service", "url"}

Idle == [phase |-> "idle", code |-> "ok"]

AnyOf(S) == {CHOOSE x \in S : TRUE}

\* Only a load's own inputs differ.
Init ==
    /\ load \in Loads
    /\ analysis = Idle
    /\ InitSpeech(CASE load = "service" -> Recordings
                    [] load \in {"chat", "client"} -> Uploads
                    [] OTHER -> AnyOf(Uploads))
    /\ CASE load = "chats" -> InitChat(Ttls, AnyOf(Versions), {"wav"})
         [] load = "chat"  ->
               InitChat(AnyOf(Ttls), {c \in Contents : /\ c.format = speech.rec.file.magic
                                                     /\ c.size = speech.rec.file.size},
                        Types \cap {speech.rec.file.type})
         [] OTHER -> InitChat(AnyOf(Ttls), AnyOf(Contents), AnyOf(Types))
    /\ InitFetch(IF load = "url" THEN [Hosts -> Lookups] ELSE AnyOf([Hosts -> Lookups]))
    /\ InitReport

-----------------------------------------------------------------------------
Answers(code) == analysis' = [phase |-> "answered", code |-> code]
\* The next part of the call, or its error.
OnOk(code, next) ==
    IF code = "ok" THEN analysis' = [analysis EXCEPT !.phase = next] ELSE Answers(code)

\* analyze: a file is checked as it is parsed; a URL is taken as it is.
Receive ==
    /\ analysis.phase = "idle"
    /\ load = "chat" => chat[Lead].phase = "analysing"
    /\ \/ /\ load \in {"chat", "client"}
          /\ OnOk(ApiFault(speech.rec.file, MaxUpload, MediaTypes), "speech")
       \/ load = "service" /\ OnOk("ok", "speech")
    /\ UNCHANGED <<load, chatVars, fetchVars, speech, reportVars>>

Fetching ==
    /\ load = "url" /\ analysis.phase \in {"idle", "fetch"}
    /\ FetchStep
    /\ IF fetch'.phase # "ended" THEN analysis' = [analysis EXCEPT !.phase = "fetch"]
       ELSE OnOk(IF fetch'.result = "media" THEN "ok" ELSE FetchCode(fetch'.result), "speech")
    /\ UNCHANGED <<load, chatVars, speech, reportVars>>

\* _transcribe of the workflow.
Transcribing ==
    /\ analysis.phase = "speech"
    /\ SpeechStep
    /\ IF speech'.phase = "ended" THEN OnOk(SpeechCode', "agents") ELSE UNCHANGED analysis
    /\ UNCHANGED <<load, chatVars, fetchVars, reportVars>>

\* Agents, fan-in and storage; and the faults that may meet any part.
Agents(code) ==
    /\ analysis.phase = "agents"
    /\ OnOk(code, "answered")
    /\ UNCHANGED <<load, chatVars, fetchVars, speech, reportVars>>
AnalysisFails(code) ==
    /\ analysis.phase \in {"fetch", "speech"}
    /\ Answers(code)
    /\ UNCHANGED <<load, chatVars, fetchVars, speech, reportVars>>

\* What the pipeline shows of the answer.
Message(code) == IF code = "ok" THEN "report" ELSE Told(Status(code))

Reply ==
    /\ load = "chat" /\ analysis.phase = "answered"
    /\ AnalysisAnswers(Lead, Message(analysis.code))
    /\ UNCHANGED <<load, analysis, fetchVars, speech, reportVars>>

\* Several chats: the analysis answers anything, or not at all.
AgentCodes == {"ok", "agent_failure", "provider_failure", "deadline_exceeded"}
Codes == {"ok", "invalid_audio", "quota_exceeded", "internal_error"}

Chats ==
    /\ load = "chats"
    /\ \/ \E q \in Requests : ChatStep(q)
       \/ \E q \in Requests, code \in Codes : AnalysisAnswers(q, Message(code))
       \/ ChatEnvironment
    /\ UNCHANGED <<load, analysis, fetchVars, speech, reportVars>>

Chat ==
    /\ load = "chat"
    /\ \/ ChatStep(Lead)
       \/ \E ttl \in Ttls : pipe.client = None /\ Configure(ttl)
    /\ UNCHANGED <<load, analysis, fetchVars, speech, reportVars>>

Names ==
    /\ load = "url"
    /\ FetchEnvironment
    /\ UNCHANGED <<load, analysis, chatVars, speech, reportVars>>

Reports ==
    /\ load = "report"
    /\ ReportStep \/ ReportEnvironment
    /\ UNCHANGED <<load, analysis, chatVars, fetchVars, speech>>

Next ==
    \/ Receive \/ Fetching \/ Transcribing \/ Reply \/ Chats \/ Chat \/ Names \/ Reports
    \/ \E code \in AgentCodes : Agents(code)
    \/ \E code \in {"deadline_exceeded", "quota_exceeded", "service_unavailable"} :
          AnalysisFails(code)

Spec == Init /\ [][Next]_vars

-----------------------------------------------------------------------------
\* What is wrong with the recording itself.
BadRecording ==
    \/ ApiFault(speech.rec.file, MaxUpload, MediaTypes) # "ok"
    \/ MediaError(speech.rec.file) \notin {"none", "MediaTimeoutError"}
    \/ speech.rec.segments = <<>>

\* A fault of the recording reaches its sender as that, through the service, its
\* client, the API and the chat, and no other fault does: nobody is sent away
\* with a good recording, or asked to try again with a bad one.
FaultsAreTold ==
    /\ analysis.phase = "answered" /\ load \in {"chat", "client", "service"} =>
          /\ analysis.code \in InputFaults => BadRecording
          /\ Retryable(analysis.code) =>
                speech.phase # "ended" \/ ServiceCode(speech.error) \notin InputFaults
    /\ load = "chat" /\ chat[Lead].phase = "ended" /\ analysis.phase = "answered" =>
          /\ chat[Lead].told \in InputFaults <=> analysis.code \in InputFaults
          /\ chat[Lead].told = "report" => chat[Lead].bytes # None
=============================================================================
