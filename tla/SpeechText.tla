----------------------------- MODULE SpeechText -----------------------------
(***************************************************************************)
(* SpeechEngine.transcribe (services/speech): one recording on its way     *)
(* from bytes to a transcript.  Media are checked, the recogniser's words  *)
(* repaired, every word given to the speaker who talks most during it, the *)
(* words of one speaker in a row made a segment, the speakers' roles asked *)
(* from a model, and the whole validated.                                  *)
(*                                                                         *)
(* Times are counted in milliseconds, a speaker is a number, 0 nobody's.   *)
(* Texts, confidences, hashes and provenance are left out; a word is its   *)
(* place in the recording.  What ffmpeg, the recogniser and the diariser   *)
(* answer is the environment, a member of Recordings, as are Submissions,  *)
(* what the role model may make of it.                                     *)
(***************************************************************************)
EXTENDS Integers, Sequences, FiniteSets, SequencesExt, Records, AnalyzeErrors

CONSTANTS Recordings, Submissions, MaxUpload, MaxDuration, MaxCandidates, MediaTypes

\* The recogniser's timestamps are not negative, nor the diariser's; a word may end
\* before it starts.
ASSUME RecordingsAssumption ==
    \A r \in Recordings :
        /\ r.segments \in Seq([start : Nat, words : Seq([start : Nat, end : Nat])])
        /\ r.turns \subseteq [speaker : Nat, start : Nat, end : Nat]
        /\ r.file.duration \in Nat

VARIABLE speech     \* the recording and how far it got

Unassigned == 0
Roles == {"operator", "client"}

InitSpeech(recordings) ==
    \E r \in recordings :
        speech = [phase |-> "upload", rec |-> r, words |-> <<>>, error |-> "none",
                  tries |-> 0, roles |-> <<>>]

SetSpeech(r) == speech' = Updated(speech, r)
Raise(error) == SetSpeech([phase |-> "ended", error |-> error])
Max2(a, b) == IF a >= b THEN a ELSE b
Min2(a, b) == IF a <= b THEN a ELSE b

\* _parse_source of the service: the upload is read up to its limit.
Parse ==
    /\ speech.phase = "upload"
    /\ LET fault == SourceFault(speech.rec.file, MaxUpload) IN
       IF fault = "ok" THEN SetSpeech([phase |-> "media"]) ELSE Raise(fault)

\* The models are not ready before the upload is read, or after it.
NotReady ==
    /\ speech.phase \in {"upload", "media"}
    /\ Raise("service_unavailable")

\* _detect_format and _format_for_mime; "mp3" is audio/mpeg and audio/mp3.
Detected(file) == file.magic \in {"wav", "ogg", "mp3"}
Declared(file) == file.type = file.magic

\* ffprobe and ffmpeg accept or refuse, or take too long.
ToolError(file) ==
    CASE file.decodes = "timeout" -> "MediaTimeoutError"
      [] file.decodes = "no"      -> "MediaValidationError"
      [] OTHER                    -> "none"

\* MediaNormalizer.normalize: magic before MIME.
MediaError(file) ==
    IF file.size = 0 \/ file.size > MaxUpload \/ ~Detected(file) THEN "MediaValidationError"
    ELSE IF ~Declared(file) THEN "UnsupportedMediaError"
    ELSE IF ToolError(file) # "none" THEN ToolError(file)
    ELSE IF file.duration \in 1 .. MaxDuration THEN "none" ELSE "MediaValidationError"

Normalize ==
    /\ speech.phase = "media"
    /\ IF MediaError(speech.rec.file) = "none"
       THEN SetSpeech([phase |-> "asr"])
       ELSE Raise(MediaError(speech.rec.file))

-----------------------------------------------------------------------------
(* FasterWhisperTranscriber *)

\* _faster_whisper_segment: a word starts no earlier than the one before it in
\* its segment ended, and lasts a millisecond at least.
Ends(words) ==
    LET end[i \in 0 .. Len(words)] ==
            IF i = 0 THEN 0
            ELSE Max2(words[i].end, Max2(words[i].start, end[i - 1]) + 1)
    IN end
Repaired(words) ==
    [i \in DOMAIN words |->
        [start |-> Max2(words[i].start, Ends(words)[i - 1]), end |-> Ends(words)[i]]]

\* The segment is widened to its first word; without words it is refused.
SegmentStart(segment) == Min2(segment.start, Repaired(segment.words)[1].start)

InOrder(segments) ==
    \A i \in 2 .. Len(segments) : SegmentStart(segments[i - 1]) <= SegmentStart(segments[i])

Recognise ==
    /\ speech.phase = "asr"
    /\ LET segments == speech.rec.segments IN
       IF segments = <<>> THEN Raise("NoSpeechError")
       ELSE IF (\E i \in DOMAIN segments : segments[i].words = <<>>) \/ ~InOrder(segments)
       THEN Raise("SpeechProviderError")
       ELSE SetSpeech([phase |-> "speakers",
                       words |-> FlattenSeq([i \in DOMAIN segments |->
                                                Repaired(segments[i].words)])])

-----------------------------------------------------------------------------
(* LocalOverlapSpeakerAssigner *)

Overlap(word, turn) == Max2(0, Min2(word.end, turn.end) - Max2(word.start, turn.start))
Gap(word, turn) == Max2(0, Max2(turn.start - word.end, word.start - turn.end))

Before(a, b) ==
    \E k \in DOMAIN a : a[k] < b[k] /\ \A j \in 1 .. k - 1 : a[j] = b[j]
First(turns, key) == CHOOSE t \in turns : \A u \in turns : ~Before(key[u], key[t])

\* Mutant: the nearest turn is the one that starts nearest.
SpeakerOfNearestStart(word, turns) ==
    LET best == First(turns, [t \in turns |-> <<-Overlap(word, t), t.start, t.end, t.speaker>>])
        near == First(turns, [t \in turns |-> <<Max2(t.start - word.start, word.start - t.start),
                                                t.start, t.end, t.speaker>>])
    IN IF turns = {} THEN Unassigned
       ELSE IF Overlap(word, best) > 0 THEN best.speaker ELSE near.speaker

\* _best_speaker: the most overlap, else the smallest gap; then the earlier.
SpeakerOf(word, turns) ==
    LET best == First(turns, [t \in turns |-> <<-Overlap(word, t), t.start, t.end, t.speaker>>])
        near == First(turns, [t \in turns |-> <<Gap(word, t), t.start, t.end, t.speaker>>])
    IN IF turns = {} THEN Unassigned
       ELSE IF Overlap(word, best) > 0 THEN best.speaker ELSE near.speaker

Words    == speech.words
Speaker(i) == SpeakerOf(Words[i], speech.rec.turns)

\* assign: a segment runs from i to the last word before the speaker changes.
Heads == {i \in DOMAIN Words : i = 1 \/ Speaker(i) # Speaker(i - 1)}
LastOf(i) == CHOOSE j \in i .. Len(Words) :
                 /\ \A k \in i + 1 .. j : k \notin Heads
                 /\ j = Len(Words) \/ j + 1 \in Heads
Line(i) == i .. LastOf(i)
LinesOf(s) == {i \in Heads : Speaker(i) = s}
Speakers == {Speaker(i) : i \in Heads}

\* SpeakerAttributedSegment and DiarizedSegment refuse words out of order.
LineOrdered(i) ==
    /\ Words[i].start < Words[LastOf(i)].end
    /\ \A j \in Line(i) :
          /\ Words[i].start <= Words[j].start /\ Words[j].end <= Words[LastOf(i)].end
          /\ j > i => Words[j - 1].start <= Words[j].start
                         /\ Words[j - 1].end <= Words[j].end

\* transcribe and _snapshot up to the roles.
AssignSpeakers ==
    /\ speech.phase = "speakers"
    /\ IF \E i \in Heads : ~LineOrdered(i) THEN Raise("ValidationError")
       ELSE IF \E i, j \in Heads : i < j /\ Words[i].start > Words[j].start
       THEN Raise("SpeechProviderError")
       ELSE SetSpeech([phase |-> "roles"])

-----------------------------------------------------------------------------
(* Roles: resolve_roles and LlmRoleResolver *)

Mapped == [s \in Speakers \cap DOMAIN speech.rec.mapping |->
              [role |-> speech.rec.mapping[s], evidence |-> LinesOf(s)]]
Unresolved == Speakers \ DOMAIN Mapped

\* _validate_resolver_output and _assignment_evidence_segment_ids.
Grounded(roles) ==
    /\ \A i, j \in DOMAIN roles : i # j => roles[i].speaker # roles[j].speaker
    /\ \A i \in DOMAIN roles :
          /\ roles[i].speaker \in Unresolved
          /\ roles[i].evidence # {} /\ roles[i].evidence \subseteq LinesOf(roles[i].speaker)

Submitted(roles) ==
    [s \in {roles[i].speaker : i \in DOMAIN roles} |->
        LET i == CHOOSE i \in DOMAIN roles : roles[i].speaker = s
        IN [role |-> roles[i].role, evidence |-> roles[i].evidence]]

\* What resolve_roles makes of the submission; then TranscriptSnapshot.
ResolveRoles(roles) ==
    LET submitted == Submitted(roles)
        assigned  == [s \in DOMAIN submitted \cup DOMAIN Mapped |->
                         IF s \in DOMAIN submitted THEN submitted[s] ELSE Mapped[s]] IN
    IF ~Grounded(roles) THEN Raise("ValidationError")
    ELSE IF \/ Speakers # DOMAIN assigned
            \/ Cardinality(Speakers) = 2 /\ {assigned[s].role : s \in Speakers} # Roles
    THEN Raise("RoleResolutionRequiredError")
    ELSE IF \/ \E i, j \in Heads : i < j /\ Words[LastOf(i)].end > Words[LastOf(j)].end
            \/ \E i \in Heads : Words[LastOf(i)].end > speech.rec.file.duration
    THEN Raise("ValidationError")
    ELSE SetSpeech([phase |-> "ended", roles |-> assigned])

\* Nobody to ask for, or too much to ask.
RolesKnown ==
    /\ speech.phase = "roles"
    /\ Unresolved = {} \/ Cardinality(Unresolved) > MaxCandidates
    /\ ResolveRoles(<<>>)

\* One question, and one more if the typed arguments do not fit the schema.
RoleAgent ==
    /\ speech.phase = "roles"
    /\ Unresolved # {} /\ Cardinality(Unresolved) <= MaxCandidates
    /\ \/ \E roles \in Submissions[speech.rec.topic] : ResolveRoles(roles)
       \/ IF speech.tries = 0 THEN SetSpeech([tries |-> 1]) ELSE Raise("SpeechProviderError")
       \/ Raise("SpeechProviderError")

SpeechStep ==
    \/ Parse \/ NotReady \/ Normalize \/ Recognise \/ AssignSpeakers \/ RolesKnown \/ RoleAgent

SpeechCode == IF speech.error = "none" THEN "ok" ELSE ClientCode(ServiceCode(speech.error))

-----------------------------------------------------------------------------
\* Raw words in the order they were recognised, that end within the recording.
RawWords == FlattenSeq([i \in DOMAIN speech.rec.segments |-> speech.rec.segments[i].words])
WellTimed ==
    LET segments == speech.rec.segments IN
    /\ \A i \in DOMAIN RawWords : RawWords[i].start < RawWords[i].end
    /\ \A i \in 2 .. Len(RawWords) : RawWords[i - 1].end <= RawWords[i].start
    /\ \A i \in DOMAIN segments : segments[i].words # <<>>
                                     /\ segments[i].start = segments[i].words[1].start
    /\ RawWords[Len(RawWords)].end <= speech.rec.file.duration

\* Every recognised word, once, no earlier than it was heard and within the recording.
WordsKept ==
    LET n == Len(RawWords) IN
    /\ Len(Words) = n /\ UNION {Line(i) : i \in Heads} = 1 .. n
    /\ \A i, j \in Heads : i # j => Line(i) \cap Line(j) = {}
    /\ \A i \in 1 .. n : Words[i].start >= RawWords[i].start
                            /\ Words[i].end <= speech.rec.file.duration

\* Who interrupts may start before the other's last word.
LinesInOrder ==
    /\ \A i \in 2 .. Len(Words) : i \notin Heads => Words[i - 1].start <= Words[i].start
    /\ \A i, j \in Heads : i < j => /\ Words[i].start <= Words[j].start
                                    /\ Words[LastOf(i)].end <= Words[LastOf(j)].end

\* A word is with a speaker nobody overlaps it more than; in a gap of the turns, with
\* one nobody is nearer than.
NobodyIsNearer ==
    speech.rec.turns # {} =>
        \A i \in DOMAIN Words : \E t \in speech.rec.turns :
            /\ t.speaker = Speaker(i)
            /\ \A u \in speech.rec.turns : Overlap(Words[i], u) <= Overlap(Words[i], t)
            /\ Overlap(Words[i], t) = 0 =>
                  \A u \in speech.rec.turns : Gap(Words[i], t) <= Gap(Words[i], u)

RolesFounded ==
    /\ Cardinality(Speakers) = 2 => {speech.roles[s].role : s \in Speakers} = Roles
    /\ \A s \in Speakers :
          speech.roles[s].evidence # {} /\ speech.roles[s].evidence \subseteq LinesOf(s)

\* Nothing of the recording or of the roles submitted for it is at fault.
Sound ==
    /\ MediaError(speech.rec.file) = "none" /\ RawWords # <<>> /\ WellTimed
    /\ \A roles \in Submissions[speech.rec.topic] : Grounded(roles)

\* The role model was asked, about lines in order.
RolesAsked ==
    /\ Unresolved # {} /\ Cardinality(Unresolved) <= MaxCandidates
    /\ \A i \in Heads : LineOrdered(i)
    /\ \A i, j \in Heads : i < j => Words[i].start <= Words[j].start

OnlyRolesFail ==
    \/ speech.error \in {"none", "service_unavailable", "RoleResolutionRequiredError"}
    \/ speech.error = "SpeechProviderError" /\ RolesAsked

\* A transcript holds every recognised word once, the lines and the words of a line
\* in order, under the speaker who talks most during it or is nearest to it; the two
\* parties of a call have different roles, founded on their own segments.  And a sound
\* recording is not lost for its words: what can fail are models that are not ready,
\* the role model, and roles that do not cover the parties.
TranscriptFaithful ==
    /\ speech.phase = "ended" /\ speech.error = "none" =>
          WordsKept /\ LinesInOrder /\ NobodyIsNearer /\ RolesFounded
    /\ speech.phase = "ended" /\ Sound => OnlyRolesFail

\* What ADR 0002 says of the overlap assigner in line 40: "zero-overlap words remain
\* unassigned".  It does not hold: _best_speaker gives them to the nearest turn.
ZeroOverlapUnassigned ==
    speech.phase = "roles" =>
        \A i \in DOMAIN Words :
            (\A t \in speech.rec.turns : Overlap(Words[i], t) = 0) => Speaker(i) = Unassigned
=============================================================================
