---------------------------- MODULE ChatPipeline ----------------------------
(***************************************************************************)
(* The OpenWebUI pipeline (pipeline.py) and the reference it signs for an  *)
(* attachment (pipeline_bridge.py).  The front end calls inlet and later   *)
(* pipe, which runs in a thread of its own: it verifies the reference,     *)
(* reads what OpenWebUI says of the file, reads the file, and sends it to  *)
(* the analysis.  All requests share the file client of the process, its   *)
(* cached JWT and the lock around it; the valves may be updated, and the   *)
(* pipeline shut down, while they run.                                     *)
(*                                                                         *)
(* A content is a record of size, format (its first bytes) and sum         *)
(* (SHA-256).  Signature, audience, ids and names are left out, as is the  *)
(* probe mode.  OpenWebUI, its files and its tokens are the environment.   *)
(***************************************************************************)
EXTENDS Integers, FiniteSets, Records

CONSTANTS Requests, Users, Owner,        \* the owner of the file
          Contents, Versions,            \* what the file may hold, at first and later
          Types,                         \* its declared formats, "other" is no audio
          MaxBytes,                      \* MAX_ATTACHMENT_BYTES
          Ttls, MaxSkew,                 \* ATTACHMENT_REF_TTL_SECONDS, future skew
          MaxTokens, MaxConfigs, MaxClock,    \* bounds
          None

ASSUME ChatAssumption ==
    /\ Owner \in Users /\ Ttls \subseteq Nat \ {0} /\ MaxSkew \in Nat
    /\ MaxBytes \in Nat /\ \A c \in Contents : c.size \in Nat
    /\ Versions # {} /\ Versions \subseteq Contents
    /\ IsFiniteSet(Requests) /\ MaxConfigs \in Nat
    /\ None \notin Requests \cup Contents \cup Nat

VARIABLES chat,       \* the requests
          pipe,       \* the pipeline object: its file client and valves
          configs,    \* file clients made by start and updates
          token,      \* _token of a client
          holder,     \* the thread inside _token_lock
          webui,      \* the server: tokens minted and revoked, the file
          cleared,    \* tokens the clients threw away
          clock

chatVars == <<chat, pipe, configs, token, holder, webui, cleared, clock>>

\* A thread that finds no client makes one for itself.
Clients == Requests \cup 1 .. MaxConfigs

Described(content, type) == [type |-> type, size |-> content.size, sum |-> content.sum]

NewRequest ==
    [phase |-> "new", user |-> None, ref |-> None, client |-> None, op |-> "metadata",
     try |-> 1, token |-> None, meta |-> None, bytes |-> None, told |-> None]

InitChat(ttls, contents, types) ==
    /\ chat = [q \in Requests |-> NewRequest]
    /\ \E t \in ttls : pipe = [client |-> None, adapter |-> FALSE, ttl |-> t]
    /\ configs = 0
    /\ token = [c \in Clients |-> None]
    /\ holder = [c \in Clients |-> None]
    /\ \E c \in contents, t \in types :
          webui = [minted |-> 0, revoked |-> {}, disk |-> c, meta |-> Described(c, t)]
    /\ cleared = {}
    /\ clock = 1

Put(q, r) == chat' = [chat EXCEPT ![q] = Updated(@, r)]
\* The thread ends, with the locals nothing is asked of any more.
Say(q, message) ==
    Put(q, [phase |-> "ended", told |-> message, client |-> None, token |-> None,
            op |-> None, try |-> 0])
Client(q) == chat[q].client

-----------------------------------------------------------------------------
\* inlet: no files is a question to the assistant; a body that gets no reference
\* and is none (no user, a bad list of files, an auxiliary task) is plain; one
\* file is signed.
Inlet(q) ==
    /\ chat[q].phase = "new"
    /\ \/ \E body \in {"plain", "assistant"} : Put(q, [phase |-> body])
       \/ \E u \in Users :
             Put(q, [phase |-> "posted", user |-> u,
                     ref |-> [sub |-> u, iat |-> clock, exp |-> clock + pipe.ttl]])
    /\ UNCHANGED <<pipe, configs, token, holder, webui, cleared, clock>>

\* pipe without a reference.
PipeText(q) ==
    /\ chat[q].phase \in {"plain", "assistant"}
    /\ Say(q, IF chat[q].phase = "assistant" THEN "assistant" ELSE "no_attachment")
    /\ UNCHANGED <<pipe, configs, token, holder, webui, cleared, clock>>

\* verify_signed_reference, under the valves of now.
ReferenceHolds(ref, sender) ==
    /\ ref.sub = sender
    /\ ref.iat <= clock + MaxSkew
    /\ ref.exp - ref.iat <= pipe.ttl
    /\ clock < ref.exp

\* pipe with a reference, for the user the front end names.
PipeFile(q, sender) ==
    /\ chat[q].phase = "posted"
    /\ IF ReferenceHolds(chat[q].ref, sender)
       THEN Put(q, [phase |-> "token", ref |-> [sub |-> chat[q].ref.sub],
                    client |-> IF pipe.client = None THEN q ELSE pipe.client])
       ELSE Say(q, "no_attachment")
    /\ UNCHANGED <<pipe, configs, token, holder, webui, cleared, clock>>

-----------------------------------------------------------------------------
(* OpenWebUIFileClient *)

\* _get_token: the cached token, or a sign-in with the lock held.
GetToken(q) ==
    /\ chat[q].phase = "token"
    /\ holder[Client(q)] = None
    /\ IF token[Client(q)] # None
       THEN Put(q, [phase |-> "calling", token |-> token[Client(q)]]) /\ UNCHANGED holder
       ELSE Put(q, [phase |-> "signing"]) /\ holder' = [holder EXCEPT ![Client(q)] = q]
    /\ UNCHANGED <<pipe, configs, token, webui, cleared, clock>>

\* _sign_in answers with a new token, or fails.
SignedIn(q) ==
    /\ chat[q].phase = "signing"
    /\ holder' = [holder EXCEPT ![Client(q)] = None]
    /\ \/ Say(q, "no_attachment") /\ UNCHANGED <<token, webui>>
       \/ /\ webui.minted < MaxTokens
          /\ webui' = [webui EXCEPT !.minted = @ + 1]
          /\ token' = [token EXCEPT ![Client(q)] = webui'.minted]
          /\ Put(q, [phase |-> "calling", token |-> webui'.minted])
    /\ UNCHANGED <<pipe, configs, cleared, clock>>

\* _with_fresh_token: a rejected token is cleared and the call repeated once.
Rejected(q) ==
    /\ chat[q].phase = "calling"
    /\ chat[q].token \in webui.revoked
    /\ IF chat[q].try = 1 THEN Put(q, [phase |-> "clearing"]) ELSE Say(q, "no_attachment")
    /\ UNCHANGED <<pipe, configs, token, holder, webui, cleared, clock>>

\* Mutant: whatever token is cached is thrown away.
ClearAny(q) ==
    /\ chat[q].phase = "clearing"
    /\ holder[Client(q)] = None
    /\ cleared' = cleared \cup ({token[Client(q)]} \ {None})
    /\ token' = [token EXCEPT ![Client(q)] = None]
    /\ Put(q, [phase |-> "token", try |-> 2])
    /\ UNCHANGED <<pipe, configs, holder, webui, clock>>

\* _clear_token_if_matches: a token that another thread renewed stays.
Clear(q) ==
    /\ chat[q].phase = "clearing"
    /\ holder[Client(q)] = None
    /\ IF token[Client(q)] = chat[q].token
       THEN /\ token' = [token EXCEPT ![Client(q)] = None]
            /\ cleared' = cleared \cup {chat[q].token}
       ELSE UNCHANGED <<token, cleared>>
    /\ Put(q, [phase |-> "token", try |-> 2])
    /\ UNCHANGED <<pipe, configs, holder, webui, clock>>

\* Any other failure of a call.
CallFails(q) ==
    /\ chat[q].phase = "calling"
    /\ Say(q, "no_attachment")
    /\ UNCHANGED <<pipe, configs, token, holder, webui, cleared, clock>>

\* _audio_format_for_content_type, _has_expected_magic, and _read_bounded.
Supported(type) == type # "other"
HasMagic(content, type) == content.format = type
TooLarge(content) == content.size > MaxBytes

\* get_file and _verify_direct_ownership.
MetadataRead(q) ==
    /\ chat[q].phase = "calling" /\ chat[q].op = "metadata"
    /\ chat[q].token \notin webui.revoked
    /\ IF chat[q].user # Owner THEN Say(q, "no_attachment")
       ELSE IF webui.meta.size > MaxBytes THEN Say(q, "too_large")
       ELSE IF ~Supported(webui.meta.type) THEN Say(q, "no_audio")
       ELSE Put(q, [phase |-> "token", op |-> "content", try |-> 1, meta |-> webui.meta])
    /\ UNCHANGED <<pipe, configs, token, holder, webui, cleared, clock>>

\* Mutant: the sizes agree, the hash is not compared.
IntactBySize(content, meta) == content.size = meta.size

Intact(content, meta) == content.size = meta.size /\ content.sum = meta.sum

\* download and _load_verified_audio.
ContentRead(q) ==
    /\ chat[q].phase = "calling" /\ chat[q].op = "content"
    /\ chat[q].token \notin webui.revoked
    /\ LET content == webui.disk
           meta    == chat[q].meta
       IN IF TooLarge(content) THEN Say(q, "too_large")
          ELSE IF ~HasMagic(content, meta.type) THEN Say(q, "no_audio")
          ELSE IF ~Intact(content, meta) THEN Say(q, "damaged")
          ELSE Put(q, [phase |-> "verified", bytes |-> content])
    /\ UNCHANGED <<pipe, configs, token, holder, webui, cleared, clock>>

-----------------------------------------------------------------------------
\* pipe posts the audio to the API.  A shutdown took the adapter away before
\* the test for None, or between it and the call: the message is the same.
Submit(q) ==
    /\ chat[q].phase = "verified"
    /\ IF pipe.adapter THEN Put(q, [phase |-> "analysing"]) ELSE Say(q, "later")
    /\ UNCHANGED <<pipe, configs, token, holder, webui, cleared, clock>>

\* The API answers; what the chat shows of it.
AnalysisAnswers(q, message) ==
    /\ chat[q].phase = "analysing"
    /\ Say(q, message)
    /\ UNCHANGED <<pipe, configs, token, holder, webui, cleared, clock>>

\* on_startup and on_valves_updated: a new file client, without a token.
Configure(ttl) ==
    /\ configs < MaxConfigs
    /\ configs' = configs + 1
    /\ pipe' = [client |-> configs', adapter |-> TRUE, ttl |-> ttl]
    /\ UNCHANGED <<chat, token, holder, webui, cleared, clock>>

\* on_shutdown; threads of pipe go on.
Shutdown ==
    /\ pipe.client # None
    /\ pipe' = [pipe EXCEPT !.client = None, !.adapter = FALSE]
    /\ UNCHANGED <<chat, configs, token, holder, webui, cleared, clock>>

\* The world moves as long as a request may look at it.
Looking(phases) == \E q \in Requests : chat[q].phase \in phases
Asking == {"new", "posted", "token", "signing", "calling", "clearing"}

\* OpenWebUI: a token expires, the file is overwritten, then described anew.
Revoke(t) ==
    /\ Looking(Asking)
    /\ webui' = [webui EXCEPT !.revoked = @ \cup {t}]
    /\ UNCHANGED <<chat, pipe, configs, token, holder, cleared, clock>>
Overwrite(content) ==
    /\ Looking(Asking)
    /\ webui' = [webui EXCEPT !.disk = content]
    /\ UNCHANGED <<chat, pipe, configs, token, holder, cleared, clock>>
Describe ==
    /\ Looking(Asking)
    /\ webui' = [webui EXCEPT !.meta = Described(webui.disk, webui.meta.type)]
    /\ UNCHANGED <<chat, pipe, configs, token, holder, cleared, clock>>

\* time.time: it passes, and may be set back by a second.
Tick ==
    /\ Looking({"new", "posted"})
    /\ \/ clock < MaxClock /\ clock' = clock + 1
       \/ clock > 0 /\ clock' = clock - 1
    /\ UNCHANGED <<chat, pipe, configs, token, holder, webui, cleared>>

\* The thread of pipe, and the calls of the front end.
ThreadStep(q) ==
    \/ GetToken(q) \/ SignedIn(q) \/ Clear(q) \/ Submit(q)
    \/ Rejected(q) \/ CallFails(q) \/ MetadataRead(q) \/ ContentRead(q)
ChatStep(q) ==
    Inlet(q) \/ PipeText(q) \/ (\E u \in Users : PipeFile(q, u)) \/ ThreadStep(q)

ChatEnvironment ==
    \/ \E ttl \in Ttls : Configure(ttl)
    \/ Shutdown
    \/ \E t \in 1 .. webui.minted \ webui.revoked : Revoke(t)
    \/ \E c \in Versions : Overwrite(c)
    \/ Describe
    \/ Tick

-----------------------------------------------------------------------------
\* Whatever is overwritten, renewed or reconfigured meanwhile, the bytes that
\* are analysed are those one description of the file named, and the file is
\* owned by the user who attached it and was found to send the request.
SentIsVerified ==
    \A q \in Requests : chat[q].bytes # None =>
        LET r == chat[q] IN
        /\ Described(r.bytes, r.bytes.format) = r.meta
        /\ r.bytes.size <= MaxBytes
        /\ r.user = Owner /\ r.ref.sub = Owner

\* A client throws away only tokens that the server rejected, signs in again
\* only for those, and repeats a call with another token than the rejected one.
TokenDiscipline ==
    /\ cleared \subseteq webui.revoked
    /\ webui.minted <= Cardinality({c \in Clients : token[c] # None}) + Cardinality(cleared)
    /\ \A q \in Requests :
          chat[q].phase \in {"token", "signing"} /\ chat[q].try = 2
              => token[Client(q)] # chat[q].token
    /\ \A q \in Requests : chat[q].phase = "signing" <=> 
          chat[q].client # None /\ holder[chat[q].client] = q
=============================================================================
