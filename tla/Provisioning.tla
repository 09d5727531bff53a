---------------------------- MODULE Provisioning ----------------------------
(***************************************************************************)
(* Provisioning of the speech models (scripts/provision_speech_models.py): *)
(* an invocation verifies what is there, downloads and stages what is      *)
(* missing, renames it into place, and publishes a manifest when the set   *)
(* is complete; the speech service reads it (services/speech/manifest.py). *)
(* Invocations run beside each other, are interrupted and killed between   *)
(* any two steps, and others follow on what they left.                     *)
(***************************************************************************)
EXTENDS FiniteSets

CONSTANTS Components,    \* asr and diarization
          Gated,         \* the components whose download needs a token
          Invocations,   \* runs of the script
          Earlier        \* made what was there before the first of them

ASSUME ProvisioningAssumption == Gated \subseteq Components /\ Earlier \notin Invocations

VARIABLES disk,     \* artifact directories, the manifest, what is staged
          pinned,   \* the components whose content was reviewed
          script    \* each invocation: phase and local variables

provisionVars == <<disk, pinned, script>>

-----------------------------------------------------------------------------
\* A directory is absent, whole with the reviewed content and the script's marker or
\* without it, whole with another content ("other"), or in part removed.
Targets == {"absent", "reviewed", "unmarked", "other", "partial"}

\* How the script is called, and the sources it is given.
Arguments == [sources : {"valid", "invalid"}, apart : BOOLEAN,
              token : {"set", "empty", "misnamed"}]

\* The manifest: who linked it, and whether it names the reviewed artifacts.
NoManifest == [by |-> Earlier, names |-> "nothing"]
ManifestBy(i) == [by |-> i, names |-> "reviewed"]

NewScript ==
    [phase |-> "idle", selected |-> {}, existing |-> {}, missing |-> {}, now |-> {},
     published |-> {}, created |-> FALSE, result |-> "none"]

\* Nothing, or what earlier runs left: part of the set, a directory one was killed
\* removing, a manifest over the whole set, over another, or over one that has lost
\* artifacts.
InitProvisioning ==
    /\ pinned \in {Components, Components \ Gated}
    /\ disk \in [target : [Components -> Targets],
                 manifest : {NoManifest, [by |-> Earlier, names |-> "reviewed"],
                             [by |-> Earlier, names |-> "other"]},
                 staged : {{}}, drafts : {{}}]
    /\ script = [i \in Invocations |-> NewScript]

Phase(i, phase) == script' = [script EXCEPT ![i].phase = phase]
Stops(i, result) == script' = [script EXCEPT ![i].phase = "ended", ![i].result = result]

\* _verify_component_artifact: the script's marker beside the reviewed content.
ReviewedContent(c, content) == c \in pinned /\ content \in {"reviewed", "unmarked"}
Marked(content) == content # "unmarked"
Verified(c, content) == ReviewedContent(c, content) /\ Marked(content)

Present == {c \in Components : disk.target[c] # "absent"}

LoadedSources(arguments) == arguments.sources = "valid"
\* The cache, the artifacts and the manifest do not overlap.
Apart(arguments) == arguments.apart
NamedToken(arguments) == arguments.token # "misnamed"
Token(arguments) == arguments.token = "set"

\* provision, up to its first effect: what is there is verified, all of it.
Start(i, selected, arguments) ==
    LET missing == selected \ Present
    IN  /\ script[i].phase = "idle" /\ selected # {}
        /\ IF /\ LoadedSources(arguments) /\ Apart(arguments) /\ NamedToken(arguments)
              /\ \A c \in Present : Verified(c, disk.target[c])
              /\ disk.manifest # NoManifest => Present = Components
              /\ missing \subseteq pinned
              /\ missing \cap Gated # {} => Token(arguments)
           THEN script' = [script EXCEPT ![i].phase = "download", ![i].selected = selected,
                                         ![i].existing = Present, ![i].missing = missing]
           ELSE Stops(i, "refused")
        /\ UNCHANGED <<disk, pinned>>

\* Every snapshot is there before anything is staged.
Download(i) ==
    /\ script[i].phase = "download"
    /\ \/ Phase(i, "stage")
       \/ script[i].missing # {} /\ Phase(i, "undo")
    /\ UNCHANGED <<disk, pinned>>

\* The components in the order of the script; the snapshot may not be the reviewed
\* content, or the copy may fail.
Unhandled(i) == script[i].missing \ script[i].published

Stage(i, c, content) ==
    /\ script[i].phase = "stage" /\ c \in Unhandled(i)
    /\ disk' = [disk EXCEPT !.staged = @ \cup {<<i, c>>}]
    /\ script' = [script EXCEPT ![i].now = {c},
                                ![i].phase = IF Verified(c, content) THEN "verified" ELSE "undo"]
    /\ UNCHANGED pinned

\* Its files are made readable, or the directory is not as it was.
Normalize(i) ==
    /\ script[i].phase = "verified"
    /\ \E phase \in {"publish", "undo"} : Phase(i, phase)
    /\ UNCHANGED <<disk, pinned>>

\* The target is looked at, then the staging directory renamed: another invocation
\* may have come between, and a directory that is not empty is not replaced.
Look(i) ==
    /\ script[i].phase = "publish"
    /\ Phase(i, IF script[i].now \cap Present # {} THEN "undo" ELSE "rename")
    /\ UNCHANGED <<disk, pinned>>

Rename(i, c) ==
    /\ script[i].phase = "rename" /\ c \in script[i].now
    /\ IF disk.target[c] = "absent"
       THEN /\ disk' = [disk EXCEPT !.target[c] = "reviewed", !.staged = @ \ {<<i, c>>}]
            /\ Phase(i, "renamed")
       ELSE Phase(i, "undo") /\ UNCHANGED disk
    /\ UNCHANGED pinned

Recorded(i) ==
    /\ script[i].phase = "renamed"
    /\ script' = [script EXCEPT ![i].published = @ \cup script[i].now, ![i].now = {},
                                ![i].phase = "stage"]
    /\ UNCHANGED <<disk, pinned>>

\* A set that is not whole has no manifest; else the one there is verified, or a new
\* one drafted.
Complete(i) == script[i].existing \cup script[i].published = Components

WriteOrVerify(i) ==
    /\ script[i].phase = "stage" /\ Unhandled(i) = {}
    /\ \/ ~ Complete(i) /\ Stops(i, "partial") /\ UNCHANGED disk
       \/ /\ Complete(i) /\ disk.manifest # NoManifest
          /\ IF disk.manifest.names = "reviewed" THEN Stops(i, "complete") ELSE Phase(i, "undo")
          /\ UNCHANGED disk
       \/ /\ Complete(i) /\ disk.manifest = NoManifest
          /\ disk' = [disk EXCEPT !.drafts = @ \cup {i}]
          /\ Phase(i, "link")
    /\ UNCHANGED pinned

\* os.link does not replace a manifest.
Link(i) ==
    /\ script[i].phase = "link"
    /\ IF disk.manifest = NoManifest
       THEN disk' = [disk EXCEPT !.manifest = ManifestBy(i)] /\ Phase(i, "linked")
       ELSE Phase(i, "undo") /\ UNCHANGED disk
    /\ UNCHANGED pinned

Linked(i) ==
    /\ script[i].phase = "linked"
    /\ script' = [script EXCEPT ![i].created = TRUE, ![i].phase = "sync"]
    /\ UNCHANGED <<disk, pinned>>

\* The directory is synchronised and the draft unlinked, or the disk fails.
Commit(i) ==
    /\ script[i].phase = "sync"
    /\ \/ Stops(i, "complete") /\ disk' = [disk EXCEPT !.drafts = @ \ {i}]
       \/ Phase(i, "undo") /\ UNCHANGED disk
    /\ UNCHANGED pinned

-----------------------------------------------------------------------------
\* An exception, or an interrupt, at any step.
Interrupt(i) ==
    /\ script[i].phase \notin {"idle", "ended", "undo"}
    /\ Phase(i, "undo") /\ UNCHANGED <<disk, pinned>>

\* A mutant: a draft of its own is taken for the manifest of its own.
DraftIsManifest(i) ==
    /\ disk.manifest # NoManifest
    /\ script[i].created \/ i \in disk.drafts
\* The manifest is this invocation's if it recorded so, or if it is its own draft.
OwnManifest(i) ==
    /\ disk.manifest # NoManifest
    /\ script[i].created \/ (i \in disk.drafts /\ disk.manifest.by = i)

Staging(i) == disk.staged \cap ({i} \X Components)

\* Taken back in this order: what is staged, the manifest and its draft, and what
\* this invocation published, which is removed file by file.
Undo(i) ==
    /\ script[i].phase = "undo"
    /\ \/ /\ Staging(i) # {}
          /\ disk' = [disk EXCEPT !.staged = @ \ Staging(i)]
          /\ UNCHANGED script
       \/ /\ Staging(i) = {} /\ OwnManifest(i)
          /\ disk' = [disk EXCEPT !.manifest = NoManifest]
          /\ script' = [script EXCEPT ![i].created = FALSE]
       \/ /\ Staging(i) = {} /\ ~ OwnManifest(i) /\ i \in disk.drafts
          /\ disk' = [disk EXCEPT !.drafts = @ \ {i}]
          /\ UNCHANGED script
       \/ /\ Staging(i) = {} /\ ~ OwnManifest(i) /\ i \notin disk.drafts
          /\ \E c \in script[i].published :
                \/ /\ disk.target[c] = "reviewed"
                   /\ disk' = [disk EXCEPT !.target[c] = "partial"]
                   /\ UNCHANGED script
                \/ /\ disk.target[c] = "partial"
                   /\ disk' = [disk EXCEPT !.target[c] = "absent"]
                   /\ script' = [script EXCEPT ![i].published = @ \ {c}]
       \/ /\ Staging(i) = {} /\ ~ OwnManifest(i) /\ i \notin disk.drafts
          /\ script[i].published = {}
          /\ Stops(i, "failed") /\ UNCHANGED disk
    /\ UNCHANGED pinned

\* The process is killed: what is on disk stays.
Kill(i) ==
    /\ script[i].phase \notin {"idle", "ended"}
    /\ Stops(i, "killed")
    /\ UNCHANGED <<disk, pinned>>

ScriptStep ==
    \E i \in Invocations :
        \/ \E selected \in SUBSET Components, arguments \in Arguments :
              Start(i, selected, arguments)
        \/ Download(i) \/ Normalize(i) \/ Look(i) \/ WriteOrVerify(i) \/ Link(i) \/ Linked(i)
        \/ Recorded(i) \/ Commit(i)
        \/ \E c \in Components, content \in {"reviewed", "other"} : Stage(i, c, content)
        \/ \E c \in Components : Rename(i, c)
        \/ Interrupt(i) \/ Undo(i) \/ Kill(i)

-----------------------------------------------------------------------------
\* The speech service: ready with a manifest whose artifacts hash to what it names.
Servable ==
    /\ disk.manifest # NoManifest
    /\ \A c \in Components : disk.target[c] = disk.manifest.names

\* An artifact that the invocation which linked the manifest found and verified, and
\* that its publisher, failing later, took back.
Withdrawn(c) ==
    /\ disk.target[c] \in {"absent", "partial"}
    /\ \E i \in Invocations : disk.manifest.by = i /\ c \in script[i].existing

\* An artifact that the manifest of an earlier run names and that was lost.
Lost(c) ==
    disk.manifest = [by |-> Earlier, names |-> "reviewed"] /\ disk.target[c] # "reviewed"

\* Whatever runs beside an invocation, and wherever it is interrupted or killed: a
\* manifest it published names artifacts that are all there, reviewed, unless a
\* failing invocation withdrew one that was counted on, and those of an earlier run
\* lose none; it removes only what it published itself, never the manifest or the
\* artifacts of another or of an earlier run; and success leaves the service ready.
PublishedStep ==
    /\ disk'.manifest.names = "reviewed" =>
          \A c \in Components : disk'.target[c] = "reviewed" \/ Withdrawn(c)' \/ Lost(c)
    /\ \A c \in Components : disk.target[c] \notin {"absent", disk'.target[c]} =>
          \E i \in Invocations : script[i].phase = "undo" /\ c \in script[i].published
    /\ disk.manifest \notin {NoManifest, disk'.manifest} =>
          \E i \in Invocations : script[i].phase = "undo" /\ disk.manifest.by = i
    /\ \A i \in Invocations :
          script[i].result # "complete" /\ script'[i].result = "complete" =>
             Servable' \/ \E c \in Components : Withdrawn(c)'
PublishedIsVerified == [][PublishedStep]_<<disk, pinned, script>>
=============================================================================
