------------------------- MODULE BatchRequest_proofs -------------------------
(***************************************************************************)
(* Six safety properties of BatchRequest for every set of hosts,           *)
(* addresses, users, files, tokens, contents, recordings, calls and        *)
(* requests: whatever names are bound to, only checked addresses are       *)
(* connected to; whatever happens to the file, what is analysed is what    *)
(* was verified; a token is renewed once; a fault keeps its name; a        *)
(* transcript has the words of its recording; a trend is backed by its     *)
(* calls.                                                                  *)
(***************************************************************************)
EXTENDS BatchRequest, FiniteSetTheorems, SequenceTheorems, WellFoundedInduction, TLAPS

USE FetchAssumption, ChatAssumption

-----------------------------------------------------------------------------
(* The fetch *)

FetchFields == {"phase", "url", "hop", "target", "reply", "read", "result"}

\* What is known of a fetch between two of its suspensions.
FetchFits ==
    /\ DOMAIN fetch = FetchFields
    /\ dns \in [Hosts -> Lookups]
    /\ dialled \subseteq PublicAddresses
    /\ fetch.hop \in 0 .. MaxRedirects
    /\ fetch.phase = "resolving" => fetch.url.host \in Hosts
    /\ fetch.phase = "connecting" => fetch.target.address \in PublicAddresses
    /\ fetch.phase \in {"answered", "reading"} => fetch.reply \in Replies
    /\ fetch.phase = "reading" =>
          fetch.reply \in Bodies /\ fetch.read \in 0 .. MaxSize /\ fetch.read <= fetch.reply.chunks
    /\ fetch.result = "media" =>
          fetch.read = fetch.reply.chunks /\ fetch.read \in 1 .. MaxSize
    /\ fetch.phase # "ended" => fetch.result # "media"

LEMMA FailKeeps ==
    ASSUME FetchFits, NEW failure, failure # "media", Fail(failure), UNCHANGED <<dns, dialled>>
    PROVE  FetchFits'
BY DEF FetchFits, FetchFields, Fail, Set, Updated

LEMMA GoKeeps ==
    ASSUME FetchFits, fetch.phase # "ended", NEW url \in Urls, NEW hop \in 0 .. MaxRedirects,
           Go(url, hop), UNCHANGED <<dns, dialled>>
    PROVE  FetchFits'
<1>1. CASE url.wellFormed
  BY <1>1 DEF Go, FetchFits, FetchFields, Set, Updated, Urls
<1>2. CASE ~url.wellFormed
  BY <1>2, FailKeeps DEF Go
<1> QED BY <1>1, <1>2

LEMMA FetchStepKeeps == FetchFits /\ FetchStep => FetchFits'
<1> SUFFICES ASSUME FetchFits, FetchStep PROVE FetchFits'
  OBVIOUS
<1>1. ASSUME NEW url \in Urls, Fetch(url) PROVE FetchFits'
  BY <1>1, GoKeeps DEF Fetch
<1>2. CASE Resolve
  <2>1. CASE LocalName(fetch.url.host) \/ ~Public(dns[fetch.url.host])
    BY <1>2, <2>1, FailKeeps DEF Resolve
  <2>2. CASE ~LocalName(fetch.url.host) /\ Public(dns[fetch.url.host])
    <3>1. dns[fetch.url.host] \in Lookups
      BY <1>2 DEF Resolve, FetchFits
    <3>2. dns[fetch.url.host][1] \in PublicAddresses
      BY <2>2, <3>1 DEF Lookups, Public
    <3> QED BY <1>2, <2>2, <3>2 DEF Resolve, FetchFits, FetchFields, Set, Updated
  <2> QED BY <2>1, <2>2
<1>3. ASSUME NEW reply \in Replies, Connect(reply) PROVE FetchFits'
  BY <1>3 DEF Connect, Dialled, FetchFits, FetchFields, Set, Updated
<1>4. CASE Redirected
  <2>1. CASE fetch.hop >= MaxRedirects \/ fetch.reply.to = Absent
    BY <1>4, <2>1, FailKeeps DEF Redirected
  <2>2. CASE fetch.hop < MaxRedirects /\ fetch.reply.to # Absent
    <3>1. fetch.reply \in Redirects
      BY <1>4 DEF Redirected, FetchFits, Replies, Bodies
    <3>2. fetch.reply.to \in Urls /\ fetch.hop + 1 \in 0 .. MaxRedirects
      BY <2>2, <3>1 DEF Redirects, FetchFits
    <3> QED BY <1>4, <2>2, <3>2, GoKeeps DEF Redirected, FetchFits
  <2> QED BY <2>1, <2>2 DEF FetchFits
<1>5. CASE Accepted
  <2>1. CASE fetch.phase' = "reading"
    <3>1. fetch.reply \in Bodies
      BY <1>5, <2>1 DEF Accepted, FetchFits, FetchFields, Replies, Redirects, Fail, Set, Updated
    <3> QED BY <1>5, <2>1, <3>1 DEF Accepted, FetchFits, FetchFields, Fail, Set, Updated, Bodies
  <2>2. CASE fetch.phase' # "reading"
    <3>1. \E failure \in {"unavailable", "unsupported_media", "payload_too_large"} : Fail(failure)
      BY <1>5, <2>2 DEF Accepted, FetchFits, FetchFields, Set, Updated
    <3> QED BY <1>5, <3>1, FailKeeps DEF Accepted
  <2> QED BY <2>1, <2>2
<1>6. CASE ReadChunk
  <2> USE DEF ReadChunk
  <2>1. fetch.reply.chunks \in 0 .. MaxSize + 1 /\ fetch.read \in 0 .. MaxSize
    BY <1>6 DEF FetchFits, Bodies
  <2>2. CASE fetch.read < fetch.reply.chunks /\ fetch.read + 1 > MaxSize
    BY <1>6, <2>2, FailKeeps
  <2>3. CASE fetch.read < fetch.reply.chunks /\ fetch.read + 1 <= MaxSize
    BY <1>6, <2>1, <2>3 DEF FetchFits, FetchFields, Set, Updated
  <2>4. CASE fetch.read >= fetch.reply.chunks /\ fetch.read = 0
    BY <1>6, <2>1, <2>4, FailKeeps
  <2>5. CASE fetch.read >= fetch.reply.chunks /\ fetch.read # 0
    BY <1>6, <2>1, <2>5 DEF FetchFits, FetchFields, Set, Updated
  <2> QED BY <2>1, <2>2, <2>3, <2>4, <2>5
<1>7. CASE Breaks
  BY <1>7, FailKeeps DEF Breaks
<1> QED BY <1>1, <1>2, <1>3, <1>4, <1>5, <1>6, <1>7 DEF FetchStep

LEMMA FetchEnvironmentKeeps == FetchFits /\ FetchEnvironment => FetchFits'
BY DEF FetchFits, FetchEnvironment, Rebind

LEMMA FetchInit == Init => FetchFits
<1> SUFFICES ASSUME Init PROVE FetchFits
  OBVIOUS
<1>1. fetch = NewFetch /\ dialled = {} /\ dns \in [Hosts -> Lookups]
  <2>1. PICK a \in Addresses : TRUE
    OBVIOUS
  <2>2. [h \in Hosts |-> <<a>>] \in [Hosts -> Lookups]
    BY DEF Lookups
  <2> QED BY <2>2 DEF Init, InitFetch, AnyOf
<1> QED BY <1>1 DEF FetchFits, FetchFields, NewFetch

\* Every step of the whole is a step of the fetch or leaves it alone.
LEMMA FetchMoves == [Next]_vars => FetchStep \/ FetchEnvironment \/ UNCHANGED fetchVars
BY DEF Next, vars, Receive, Fetching, Transcribing, Reply, Chats, Chat, Names, Reports, Agents,
       AnalysisFails

\* OnlyCheckedHosts (SafeUrlFetcher): connections go to checked addresses, whatever
\* redirects and names do, and a medium is a whole body within the limit.
THEOREM FetchIsPinned == Spec => []OnlyCheckedHosts
<1>1. FetchFits /\ [Next]_vars => FetchFits'
  <2>1. FetchFits /\ UNCHANGED fetchVars => FetchFits'
    BY DEF FetchFits, fetchVars
  <2> QED BY <2>1, FetchMoves, FetchStepKeeps, FetchEnvironmentKeeps
<1>2. FetchFits => OnlyCheckedHosts
  BY DEF FetchFits, OnlyCheckedHosts
<1> QED BY <1>1, <1>2, FetchInit, PTL DEF Spec

-----------------------------------------------------------------------------
(* The chats *)

ChatFields == {"phase", "user", "ref", "client", "op", "try", "token", "meta", "bytes", "told"}

\* Before its bytes are verified, and from its signature until the answer.
Unread == {"new", "plain", "assistant", "posted", "token", "signing", "calling", "clearing"}
Early  == {"new", "plain", "assistant", "posted"}
Signed == {"posted", "token", "signing", "calling", "clearing", "verified", "analysing"}
Working == {"token", "signing", "calling", "clearing"}

IsDescription(m) == m = [type |-> m.type, size |-> m.size, sum |-> m.sum]

Verified(r) ==
    /\ Described(r.bytes, r.bytes.format) = r.meta
    /\ r.bytes.size <= MaxBytes
    /\ r.user = Owner /\ r.ref.sub = Owner

\* What is known of one request; the second call is made for the owner only.
RequestFits(r) ==
    /\ DOMAIN r = ChatFields
    /\ r.phase \in Signed => r.ref.sub = r.user
    /\ r.phase \in Early => r.op = "metadata"
    /\ r.phase \in Working /\ r.op = "content" =>
          r.user = Owner /\ IsDescription(r.meta)
    /\ r.phase \in Unread => r.bytes = None
    /\ r.phase \in {"verified", "analysing"} => r.bytes # None
    /\ r.bytes # None => Verified(r)

ChatFits ==
    /\ DOMAIN chat = Requests
    /\ DOMAIN webui = {"minted", "revoked", "disk", "meta"}
    /\ webui.disk \in Contents /\ IsDescription(webui.meta)
    /\ \A q \in Requests : RequestFits(chat[q])

\* A step of one request keeps what is known of the others.
LEMMA PutKeeps ==
    ASSUME ChatFits, NEW q \in Requests, NEW r, Put(q, r), RequestFits(Updated(chat[q], r)),
           DOMAIN webui' = DOMAIN webui,
           webui'.meta = webui.meta, webui'.disk = webui.disk
    PROVE  ChatFits'
BY DEF ChatFits, Put

LEMMA SayKeeps ==
    ASSUME ChatFits, NEW q \in Requests, NEW message, Say(q, message), webui' = webui
    PROVE  ChatFits'
<1> DEFINE r == [phase |-> "ended", told |-> message, client |-> None, token |-> None,
                 op |-> None, try |-> 0]
<1>1. RequestFits(Updated(chat[q], r))
  BY DEF ChatFits, RequestFits, Verified, ChatFields, Updated, Signed, Working, Early, Unread
<1> QED BY <1>1, PutKeeps DEF Say

\* A step that moves on with the same user, reference, op, metadata and bytes.
LEMMA PhaseKeeps ==
    ASSUME ChatFits, NEW q \in Requests, NEW r,
           Put(q, r), DOMAIN r \subseteq {"phase", "client", "try", "token"}, "phase" \in DOMAIN r,
           \/ chat[q].phase \in Working /\ r.phase \in Working
           \/ chat[q].phase = "verified" /\ r.phase = "analysing"
           \/ chat[q].phase = "new" /\ r.phase \in {"plain", "assistant"},
           DOMAIN webui' = DOMAIN webui,
           webui'.meta = webui.meta, webui'.disk = webui.disk
    PROVE  ChatFits'
<1>1. RequestFits(Updated(chat[q], r))
  BY DEF ChatFits, RequestFits, Verified, ChatFields, Updated, Signed, Working, Early, Unread
<1> QED BY <1>1, PutKeeps

LEMMA InletKeeps == ASSUME ChatFits, NEW q \in Requests, Inlet(q) PROVE ChatFits'
<1>1. CASE \E body \in {"plain", "assistant"} : Put(q, [phase |-> body])
  BY <1>1, PhaseKeeps DEF Inlet
<1>2. ASSUME NEW u \in Users,
             Put(q, [phase |-> "posted", user |-> u,
                     ref |-> [sub |-> u, iat |-> clock, exp |-> clock + pipe.ttl]])
      PROVE  ChatFits'
  <2> DEFINE r == [phase |-> "posted", user |-> u,
                   ref |-> [sub |-> u, iat |-> clock, exp |-> clock + pipe.ttl]]
  <2>1. RequestFits(Updated(chat[q], r))
    BY DEF Inlet, ChatFits, RequestFits, ChatFields, Updated, Signed, Working, Early, Unread
  <2> QED BY <1>2, <2>1, PutKeeps DEF Inlet
<1> QED BY <1>1, <1>2 DEF Inlet

LEMMA PipeFileKeeps ==
    ASSUME ChatFits, NEW q \in Requests, NEW u \in Users, PipeFile(q, u)
    PROVE  ChatFits'
<1>1. CASE ReferenceHolds(chat[q].ref, u)
  <2> DEFINE r == [phase |-> "token", ref |-> [sub |-> chat[q].ref.sub],
                   client |-> IF pipe.client = None THEN q ELSE pipe.client]
  <2>1. RequestFits(Updated(chat[q], r))
    BY DEF PipeFile, ChatFits, RequestFits, ChatFields, Updated, Signed, Working, Early, Unread
  <2> QED BY <1>1, <2>1, PutKeeps DEF PipeFile
<1>2. CASE ~ReferenceHolds(chat[q].ref, u)
  BY <1>2, SayKeeps DEF PipeFile
<1> QED BY <1>1, <1>2

LEMMA MetadataReadKeeps ==
    ASSUME ChatFits, NEW q \in Requests, MetadataRead(q) PROVE ChatFits'
<1>1. CASE \E message : Say(q, message)
  BY <1>1, SayKeeps DEF MetadataRead
<1>2. CASE chat[q].user = Owner /\ Put(q, [phase |-> "token", op |-> "content", try |-> 1,
                                          meta |-> webui.meta])
  <2> DEFINE r == [phase |-> "token", op |-> "content", try |-> 1, meta |-> webui.meta]
  <2>1. RequestFits(Updated(chat[q], r))
    BY <1>2 DEF MetadataRead, ChatFits, RequestFits, ChatFields, Updated, Signed, Working, Early,
                Unread
  <2> QED BY <1>2, <2>1, PutKeeps DEF MetadataRead
<1> QED BY <1>1, <1>2 DEF MetadataRead

LEMMA ContentReadKeeps ==
    ASSUME ChatFits, NEW q \in Requests, ContentRead(q) PROVE ChatFits'
<1> DEFINE content == webui.disk
           r == [phase |-> "verified", bytes |-> content]
<1>1. CASE \E message : Say(q, message)
  BY <1>1, SayKeeps DEF ContentRead
<1>2. CASE /\ ~TooLarge(content) /\ HasMagic(content, chat[q].meta.type)
           /\ Intact(content, chat[q].meta) /\ Put(q, r)
  <2>1. IsDescription(chat[q].meta) /\ chat[q].user = Owner /\ chat[q].ref.sub = Owner
    BY DEF ContentRead, ChatFits, RequestFits, Signed, Working
  <2>2. Described(content, content.format) = chat[q].meta
    BY <1>2, <2>1 DEF IsDescription, HasMagic, Intact, Described
  <2>3. RequestFits(Updated(chat[q], r))
    BY <1>2, <2>1, <2>2
       DEF ContentRead, ChatFits, RequestFits, Verified, ChatFields, Updated, Signed, Working,
           Early, Unread, TooLarge
  <2> QED BY <1>2, <2>3, PutKeeps DEF ContentRead
<1> QED BY <1>1, <1>2 DEF ContentRead

\* The other steps of a thread, of the front end and of the analysis.
LEMMA ChatStepKeeps ==
    ASSUME ChatFits, NEW q \in Requests, ChatStep(q) PROVE ChatFits'
<1>1. CASE Inlet(q)
  BY <1>1, InletKeeps
<1>2. CASE PipeText(q)
  BY <1>2, SayKeeps DEF PipeText
<1>3. CASE \E u \in Users : PipeFile(q, u)
  BY <1>3, PipeFileKeeps
<1>4. CASE GetToken(q)
  BY <1>4, PhaseKeeps DEF GetToken, Working
<1>5. CASE SignedIn(q)
  <2>1. CASE Say(q, "no_attachment") /\ UNCHANGED webui
    BY <2>1, SayKeeps
  <2>2. CASE /\ webui' = [webui EXCEPT !.minted = @ + 1]
             /\ Put(q, [phase |-> "calling", token |-> webui'.minted])
    <3>1. DOMAIN webui' = DOMAIN webui /\ webui'.meta = webui.meta /\ webui'.disk = webui.disk
      BY <2>2 DEF ChatFits
    <3> QED BY <1>5, <2>2, <3>1, PhaseKeeps DEF SignedIn, Working
  <2> QED BY <1>5, <2>1, <2>2 DEF SignedIn
<1>6. CASE Clear(q)
  BY <1>6, PhaseKeeps DEF Clear, Working
<1>7. CASE Submit(q)
  <2>1. CASE pipe.adapter
    BY <1>7, <2>1, PhaseKeeps DEF Submit
  <2>2. CASE ~pipe.adapter
    BY <1>7, <2>2, SayKeeps DEF Submit
  <2> QED BY <2>1, <2>2
<1>8. CASE Rejected(q)
  <2>1. CASE chat[q].try = 1
    BY <1>8, <2>1, PhaseKeeps DEF Rejected, Working
  <2>2. CASE chat[q].try # 1
    BY <1>8, <2>2, SayKeeps DEF Rejected
  <2> QED BY <2>1, <2>2
<1>9. CASE CallFails(q)
  BY <1>9, SayKeeps DEF CallFails
<1>10. CASE MetadataRead(q)
  BY <1>10, MetadataReadKeeps
<1>11. CASE ContentRead(q)
  BY <1>11, ContentReadKeeps
<1> QED
  BY <1>1, <1>2, <1>3, <1>4, <1>5, <1>6, <1>7, <1>8, <1>9, <1>10, <1>11 DEF ChatStep, ThreadStep

LEMMA AnswerKeeps ==
    ASSUME ChatFits, NEW q \in Requests, NEW message, AnalysisAnswers(q, message)
    PROVE  ChatFits'
BY SayKeeps DEF AnalysisAnswers

LEMMA ConfigureKeeps == ASSUME ChatFits, NEW ttl, Configure(ttl) PROVE ChatFits'
BY DEF Configure, ChatFits

LEMMA ChatEnvironmentKeeps == ASSUME ChatFits, ChatEnvironment PROVE ChatFits'
<1>1. CASE \E ttl \in Ttls : Configure(ttl)
  BY <1>1, ConfigureKeeps
<1>2. CASE Shutdown \/ Tick
  BY <1>2 DEF Shutdown, Tick, ChatFits
<1>3. CASE \E t \in 1 .. webui.minted \ webui.revoked : Revoke(t)
  BY <1>3 DEF Revoke, ChatFits
<1>4. CASE \E c \in Versions : Overwrite(c)
  BY <1>4 DEF Overwrite, ChatFits
<1>5. CASE Describe
  BY <1>5 DEF Describe, ChatFits, Described, IsDescription
<1> QED BY <1>1, <1>2, <1>3, <1>4, <1>5 DEF ChatEnvironment

LEMMA ChatInit == Init => ChatFits
<1> SUFFICES ASSUME Init PROVE ChatFits
  OBVIOUS
<1>1. ASSUME NEW ttls, NEW contents \in SUBSET Contents, NEW types, InitChat(ttls, contents, types)
      PROVE  ChatFits
  <2>1. chat = [q \in Requests |-> NewRequest]
    BY <1>1 DEF InitChat
  <2>2. \A q \in Requests : RequestFits(chat[q])
    BY <2>1 DEF RequestFits, NewRequest, ChatFields, Signed, Working, Early, Unread
  <2>3. /\ webui.disk \in Contents /\ IsDescription(webui.meta)
        /\ DOMAIN webui = {"minted", "revoked", "disk", "meta"}
    BY <1>1 DEF InitChat, Described, IsDescription
  <2> QED BY <2>1, <2>2, <2>3 DEF ChatFits
<1>2. /\ AnyOf(Versions) \in SUBSET Contents
      /\ AnyOf(Contents) \in SUBSET Contents
  BY DEF AnyOf
<1>3. \E ttls, types : \E contents \in SUBSET Contents : InitChat(ttls, contents, types)
  <2>1. CASE load = "chats"
    BY <1>2, <2>1 DEF Init
  <2>2. CASE load = "chat"
    BY <2>2 DEF Init
  <2>3. CASE load \notin {"chats", "chat"}
    BY <1>2, <2>3 DEF Init
  <2> QED BY <2>1, <2>2, <2>3
<1> QED BY <1>1, <1>3

\* Every step of the whole is a step of a chat or leaves the chats alone.
LEMMA ChatMoves ==
    ASSUME [Next]_vars
    PROVE  \/ \E q \in Requests : ChatStep(q)
           \/ \E q \in Requests : \E message : AnalysisAnswers(q, message)
           \/ ChatEnvironment
           \/ \E ttl : Configure(ttl)
           \/ UNCHANGED chatVars
BY UploadsAssumption
   DEF Next, vars, Receive, Fetching, Transcribing, Reply, Chats, Chat, Names, Reports, Agents,
       AnalysisFails

\* SentIsVerified (Pipeline.pipe): whatever is overwritten, renewed or reconfigured
\* between its calls, what is analysed is what one description of the file named,
\* and it is the sender's own file.
THEOREM AnalysedIsVerified == Spec => []SentIsVerified
<1>1. ChatFits /\ [Next]_vars => ChatFits'
  <2>1. ChatFits /\ UNCHANGED chatVars => ChatFits'
    BY DEF ChatFits, chatVars
  <2> QED BY <2>1, ChatMoves, ChatStepKeeps, AnswerKeeps, ChatEnvironmentKeeps, ConfigureKeeps
<1>2. ChatFits => SentIsVerified
  BY DEF ChatFits, RequestFits, Verified, SentIsVerified
<1> QED BY <1>1, <1>2, ChatInit, PTL DEF Spec
-----------------------------------------------------------------------------
(* The tokens *)

PipeFields == {"client", "adapter", "ttl"}

\* The tokens that clients hold.
Cached == {c \in Clients : token[c] # None}

\* Every token was minted; it is with one client, or thrown away, or lost.
TokensTyped ==
    /\ token \in [Clients -> Nat \cup {None}]
    /\ holder \in [Clients -> Requests \cup {None}]
    /\ DOMAIN pipe = PipeFields /\ pipe.client \in Clients \cup {None}
    /\ configs \in Nat /\ webui.minted \in Nat
    /\ webui.revoked \subseteq 1 .. webui.minted /\ cleared \subseteq webui.revoked

TokensShared ==
    /\ \A c \in Cached : token[c] \in 1 .. webui.minted /\ token[c] \notin cleared
    /\ \A c, d \in Cached : token[c] = token[d] => c = d
    /\ webui.minted <= Cardinality(Cached) + Cardinality(cleared)

\* Who is inside a lock is signing in for a client without a token.
LocksFit ==
    /\ \A q \in Requests : chat[q].phase = "signing" =>
          holder[Client(q)] = q /\ token[Client(q)] = None
    /\ \A c \in Clients : holder[c] # None =>
          chat[holder[c]].phase = "signing" /\ Client(holder[c]) = c

\* What one request knows of its client and its token.
TokenFits(q) ==
    LET r == chat[q] IN
    /\ r.client \in Clients \cup {None}
    /\ r.phase \in Early => r.try = 1
    /\ r.phase \in Working => r.client \in Clients /\ r.try \in {1, 2}
    /\ r.phase \in {"calling", "clearing"} => r.token \in 1 .. webui.minted
    /\ r.phase = "clearing" => r.token \in webui.revoked
    /\ r.phase \in {"token", "signing"} /\ r.try = 2 =>
          r.token \in 1 .. webui.minted /\ token[r.client] # r.token

TokensFit ==
    TokensTyped /\ TokensShared /\ LocksFit /\ \A q \in Requests : TokenFits(q)

LEMMA ClientsFacts ==
    /\ IsFiniteSet(Clients) /\ None \notin Clients /\ Requests \subseteq Clients
    /\ TokensTyped => IsFiniteSet(Cached) /\ IsFiniteSet(cleared)
<1>1. IsFiniteSet(Clients)
  <2>1. IsFiniteSet(1 .. MaxConfigs)
    BY FS_Interval
  <2> QED BY <2>1, FS_Union DEF Clients
<1>2. None \notin Clients /\ Requests \subseteq Clients
  BY DEF Clients
<1>3. ASSUME TokensTyped PROVE IsFiniteSet(Cached) /\ IsFiniteSet(cleared)
  <2>1. IsFiniteSet(Cached)
    BY <1>1, FS_Subset DEF Cached
  <2>2. IsFiniteSet(1 .. webui.minted) /\ cleared \subseteq 1 .. webui.minted
    BY <1>3, FS_Interval DEF TokensTyped
  <2> QED BY <2>1, <2>2, FS_Subset
<1> QED BY <1>1, <1>2, <1>3

\* A step of one request that touches no lock and no token.
LEMMA TalkKeepsTokens ==
    ASSUME ChatFits, TokensFit, NEW q \in Requests, NEW r, Put(q, r),
           chat[q].phase # "signing", Updated(chat[q], r).phase # "signing",
           UNCHANGED <<pipe, configs, token, holder, cleared>>,
           webui'.minted = webui.minted, webui'.revoked = webui.revoked,
           TokenFits(q)'
    PROVE  TokensFit'
<1>1. /\ chat'[q].phase # "signing"
      /\ \A p \in Requests \ {q} : chat'[p] = chat[p]
  BY DEF Put, ChatFits
<1>2. TokensTyped' /\ TokensShared'
  BY DEF TokensFit, TokensTyped, TokensShared, Cached
<1>3. LocksFit'
  BY <1>1 DEF TokensFit, LocksFit, Client, TokensTyped
<1>4. \A p \in Requests \ {q} : TokenFits(p)'
  BY <1>1 DEF TokensFit, TokenFits
<1> QED BY <1>2, <1>3, <1>4 DEF TokensFit

LEMMA SayKeepsTokens ==
    ASSUME ChatFits, TokensFit, NEW q \in Requests, NEW message, Say(q, message),
           chat[q].phase # "signing",
           UNCHANGED <<pipe, configs, token, holder, webui, cleared>>
    PROVE  TokensFit'
<1> DEFINE r == [phase |-> "ended", told |-> message, client |-> None, token |-> None,
                 op |-> None, try |-> 0]
<1>1. DOMAIN chat[q] = ChatFields /\ Updated(chat[q], r).phase = "ended"
  BY DEF ChatFits, RequestFits, ChatFields, Updated
<1>2. chat'[q] = Updated(chat[q], r)
  BY DEF Say, Put, ChatFits
<1>3. chat'[q].phase = "ended" /\ chat'[q].client = None
  BY <1>1, <1>2 DEF ChatFields, Updated
<1>4. TokenFits(q)'
  BY <1>3 DEF TokenFits, Early, Working
<1> QED BY <1>1, <1>4, TalkKeepsTokens DEF Say

LEMMA GetTokenKeepsTokens ==
    ASSUME ChatFits, TokensFit, NEW q \in Requests, GetToken(q) PROVE TokensFit'
<1> DEFINE c == Client(q)
<1>1. /\ chat[q].phase = "token" /\ c \in Clients /\ chat[q].try \in {1, 2}
      /\ DOMAIN chat[q] = ChatFields /\ c = chat[q].client
  BY DEF GetToken, TokensFit, TokenFits, Working, Client, ChatFits, RequestFits
<1>2. CASE token[c] # None
  <2> DEFINE r == [phase |-> "calling", token |-> token[c]]
  <2>1. Put(q, r) /\ UNCHANGED <<pipe, configs, token, holder, webui, cleared>>
    BY <1>2 DEF GetToken
  <2>2. chat'[q] = Updated(chat[q], r)
    BY <2>1 DEF Put, ChatFits
  <2>3. /\ chat'[q].phase = "calling" /\ chat'[q].token = token[c]
        /\ chat'[q].client = c /\ chat'[q].try = chat[q].try
        /\ Updated(chat[q], r).phase = "calling"
    BY <1>1, <2>2 DEF ChatFields, Updated
  <2>4. token[c] \in 1 .. webui.minted
    BY <1>1, <1>2 DEF TokensFit, TokensShared, Cached
  <2>5. TokenFits(q)'
    BY <1>1, <2>1, <2>3, <2>4 DEF TokenFits, Early, Working
  <2> QED BY <1>1, <2>1, <2>3, <2>5, TalkKeepsTokens
<1>3. CASE token[c] = None
  <2> DEFINE r == [phase |-> "signing"]
  <2>1. /\ Put(q, r) /\ holder' = [holder EXCEPT ![c] = q] /\ holder[c] = None
        /\ UNCHANGED <<pipe, configs, token, webui, cleared>>
    BY <1>3 DEF GetToken
  <2>2. chat'[q] = Updated(chat[q], r) /\ \A p \in Requests \ {q} : chat'[p] = chat[p]
    BY <2>1 DEF Put, ChatFits
  <2>3. /\ chat'[q].phase = "signing" /\ chat'[q].token = chat[q].token
        /\ chat'[q].client = c /\ chat'[q].try = chat[q].try
    BY <1>1, <2>2 DEF ChatFields, Updated
  <2>4. TokensTyped' /\ TokensShared'
    BY <1>1, <2>1 DEF TokensFit, TokensTyped, TokensShared, Cached
  <2>5. /\ holder'[c] = q /\ \A d \in Clients \ {c} : holder'[d] = holder[d]
        /\ \A d \in Clients : holder[d] \in Requests \cup {None}
    BY <1>1, <2>1 DEF TokensFit, TokensTyped
  <2>6. LocksFit'
    <3>1. \A p \in Requests : chat'[p].phase = "signing" =>
             holder'[chat'[p].client] = p /\ token'[chat'[p].client] = None
      <4> TAKE p \in Requests
      <4> HAVE chat'[p].phase = "signing"
      <4>1. CASE p = q
        BY <1>3, <2>1, <2>3, <2>5, <4>1
      <4>2. CASE p # q
        <5>1. chat[p].phase = "signing" /\ chat'[p] = chat[p]
          BY <2>2, <4>2
        <5>2. /\ holder[chat[p].client] = p /\ token[chat[p].client] = None
              /\ chat[p].client \in Clients
          BY <5>1 DEF TokensFit, LocksFit, Client, TokenFits, Working
        <5>3. chat[p].client # c
          BY <2>1, <5>2, ChatAssumption
        <5> QED BY <2>1, <2>5, <5>1, <5>2, <5>3
      <4> QED BY <4>1, <4>2
    <3>2. \A d \in Clients : holder'[d] # None =>
             chat'[holder'[d]].phase = "signing" /\ chat'[holder'[d]].client = d
      <4> TAKE d \in Clients
      <4> HAVE holder'[d] # None
      <4>1. CASE d = c
        BY <2>3, <2>5, <4>1
      <4>2. CASE d # c
        <5>1. holder'[d] = holder[d] /\ holder[d] \in Requests
          BY <2>5, <4>2
        <5>2. chat[holder[d]].phase = "signing" /\ chat[holder[d]].client = d
          BY <5>1 DEF TokensFit, LocksFit, Client
        <5>3. holder[d] # q
          BY <1>1, <5>2
        <5> QED BY <2>2, <5>1, <5>2, <5>3
      <4> QED BY <4>1, <4>2
    <3> QED BY <3>1, <3>2 DEF LocksFit, Client
  <2>7. TokenFits(q)'
    <3>1. TokenFits(q) /\ q \in Requests
      BY DEF TokensFit
    <3> QED BY <1>1, <2>1, <2>3, <3>1 DEF TokenFits, Early, Working
  <2>8. \A p \in Requests \ {q} : TokenFits(p)'
    BY <2>1, <2>2 DEF TokensFit, TokenFits
  <2> QED BY <2>4, <2>6, <2>7, <2>8 DEF TokensFit
<1> QED BY <1>2, <1>3

\* The thread leaves the lock, with a token or without one.
LEMMA SignedInKeepsTokens ==
    ASSUME ChatFits, TokensFit, NEW q \in Requests, SignedIn(q) PROVE TokensFit'
<1> DEFINE c == Client(q)
           n == webui.minted
<1>1. /\ chat[q].phase = "signing" /\ c \in Clients /\ c = chat[q].client
      /\ chat[q].try \in {1, 2} /\ DOMAIN chat[q] = ChatFields
      /\ holder[c] = q /\ token[c] = None
  BY DEF SignedIn, TokensFit, TokenFits, Working, Client, ChatFits, RequestFits, LocksFit
<1>2. /\ holder' = [holder EXCEPT ![c] = None] /\ UNCHANGED <<pipe, configs, cleared>>
      /\ \A d \in Clients : holder'[d] = IF d = c THEN None ELSE holder[d]
      /\ \A d \in Clients : holder[d] \in Requests \cup {None}
      /\ holder' \in [Clients -> Requests \cup {None}]
  BY <1>1 DEF SignedIn, TokensFit, TokensTyped
<1>3. \A p \in Requests \ {q} : chat'[p] = chat[p]
  BY DEF SignedIn, Say, Put, ChatFits
<1>4. \A p \in Requests \ {q} : chat[p].phase = "signing" =>
         chat[p].client # c /\ chat[p].client \in Clients
  <2> TAKE p \in Requests \ {q}
  <2> HAVE chat[p].phase = "signing"
  <2>1. holder[chat[p].client] = p /\ chat[p].client \in Clients
    BY DEF TokensFit, LocksFit, Client, TokenFits, Working
  <2> QED BY <1>1, <2>1
<1>5. ASSUME chat'[q].phase # "signing", \A d \in Clients \ {c} : token'[d] = token[d]
      PROVE  LocksFit'
  <2>1. \A p \in Requests : chat'[p].phase = "signing" =>
           holder'[chat'[p].client] = p /\ token'[chat'[p].client] = None
    <3> TAKE p \in Requests
    <3> HAVE chat'[p].phase = "signing"
    <3>1. p # q /\ chat'[p] = chat[p]
      BY <1>3, <1>5
    <3>2. chat[p].client # c /\ chat[p].client \in Clients
      BY <1>4, <3>1
    <3>3. holder[chat[p].client] = p /\ token[chat[p].client] = None
      BY <3>1 DEF TokensFit, LocksFit, Client
    <3> QED BY <1>2, <1>5, <3>1, <3>2, <3>3
  <2>2. \A d \in Clients : holder'[d] # None =>
           chat'[holder'[d]].phase = "signing" /\ chat'[holder'[d]].client = d
    <3> TAKE d \in Clients
    <3> HAVE holder'[d] # None
    <3>1. d # c /\ holder'[d] = holder[d] /\ holder[d] \in Requests
      BY <1>2
    <3>2. chat[holder[d]].phase = "signing" /\ chat[holder[d]].client = d
      BY <3>1 DEF TokensFit, LocksFit, Client
    <3>3. holder[d] # q
      BY <1>1, <3>1, <3>2
    <3> QED BY <1>3, <3>1, <3>2, <3>3
  <2> QED BY <2>1, <2>2 DEF LocksFit, Client
<1>6. CASE Say(q, "no_attachment") /\ UNCHANGED <<token, webui>>
  <2> DEFINE r == [phase |-> "ended", told |-> "no_attachment", client |-> None, token |-> None,
                   op |-> None, try |-> 0]
  <2>1. chat'[q] = Updated(chat[q], r)
    BY <1>6 DEF Say, Put, ChatFits
  <2>2. chat'[q].phase = "ended" /\ chat'[q].client = None
    BY <1>1, <2>1 DEF ChatFields, Updated
  <2>3. LocksFit'
    BY <1>5, <1>6, <2>2
  <2>4. TokensTyped' /\ TokensShared'
    BY <1>2, <1>6 DEF TokensFit, TokensTyped, TokensShared, Cached
  <2>5. TokenFits(q)'
    BY <2>2 DEF TokenFits, Early, Working
  <2>6. \A p \in Requests \ {q} : TokenFits(p)'
    BY <1>3, <1>6 DEF TokensFit, TokenFits
  <2> QED BY <2>3, <2>4, <2>5, <2>6 DEF TokensFit
<1>7. CASE /\ webui' = [webui EXCEPT !.minted = @ + 1]
           /\ token' = [token EXCEPT ![c] = webui'.minted]
           /\ Put(q, [phase |-> "calling", token |-> webui'.minted])
  <2>1. /\ webui'.minted = n + 1 /\ webui'.revoked = webui.revoked /\ n \in Nat
        /\ webui.revoked \subseteq 1 .. n /\ cleared \subseteq webui.revoked
    BY <1>7 DEF ChatFits, TokensFit, TokensTyped
  <2>2. /\ token' \in [Clients -> Nat \cup {None}]
        /\ \A d \in Clients : token'[d] = IF d = c THEN n + 1 ELSE token[d]
    BY <1>1, <1>7, <2>1 DEF TokensFit, TokensTyped
  <2> DEFINE r == [phase |-> "calling", token |-> n + 1]
  <2>3. chat'[q] = Updated(chat[q], r)
    BY <1>7, <2>1 DEF Put, ChatFits
  <2>4. /\ chat'[q].phase = "calling" /\ chat'[q].token = n + 1
        /\ chat'[q].client = c /\ chat'[q].try = chat[q].try
    BY <1>1, <2>3 DEF ChatFields, Updated
  <2>5. LocksFit'
    BY <1>5, <2>2, <2>4
  <2>6. TokensTyped'
    <3>1. webui'.minted \in Nat /\ webui'.revoked \subseteq 1 .. webui'.minted
      BY <2>1
    <3>2. cleared' \subseteq webui'.revoked /\ configs' \in Nat
      BY <1>2, <2>1 DEF TokensFit, TokensTyped
    <3>3. DOMAIN pipe' = PipeFields /\ pipe'.client \in Clients \cup {None}
      BY <1>2 DEF TokensFit, TokensTyped
    <3> QED BY <1>2, <2>2, <3>1, <3>2, <3>3 DEF TokensTyped
  <2>7. Cached' = Cached \cup {c} /\ c \notin Cached
    BY <1>1, <2>1, <2>2 DEF Cached
  <2>8. \A d \in Cached : token[d] \in 1 .. n /\ token[d] \notin cleared
    BY DEF TokensFit, TokensShared
  <2>9. TokensShared'
    <3>1. \A d \in Cached' : token'[d] \in 1 .. webui'.minted /\ token'[d] \notin cleared'
      BY <1>2, <2>1, <2>2, <2>7, <2>8 DEF Cached
    <3>2. \A d, e \in Cached' : token'[d] = token'[e] => d = e
      <4>1. \A d, e \in Cached : token[d] = token[e] => d = e
        BY DEF TokensFit, TokensShared
      <4>2. \A d \in Cached : token[d] # n + 1
        BY <2>1, <2>8
      <4>3. \A d \in Cached' : d \in Clients
        BY DEF Cached
      <4> QED BY <2>2, <2>7, <4>1, <4>2, <4>3
    <3>3. Cardinality(Cached') = Cardinality(Cached) + 1
      BY <2>7, ClientsFacts, FS_AddElement DEF TokensFit
    <3>4. n <= Cardinality(Cached) + Cardinality(cleared)
      BY DEF TokensFit, TokensShared
    <3>5. Cardinality(Cached) \in Nat /\ Cardinality(cleared) \in Nat
      BY ClientsFacts, FS_CardinalityType DEF TokensFit
    <3>6. webui'.minted <= Cardinality(Cached') + Cardinality(cleared')
      BY <1>2, <2>1, <3>3, <3>4, <3>5
    <3> QED BY <3>1, <3>2, <3>6 DEF TokensShared
  <2>10. TokenFits(q)'
    BY <1>1, <2>1, <2>4 DEF TokenFits, Early, Working
  <2>11. \A p \in Requests \ {q} : TokenFits(p)'
    <3> SUFFICES ASSUME NEW p \in Requests \ {q} PROVE TokenFits(p)'
      OBVIOUS
    <3>1. TokenFits(p) /\ chat'[p] = chat[p]
      BY <1>3 DEF TokensFit
    <3>2. chat[p].client \in Clients => token'[chat[p].client] \in {n + 1, token[chat[p].client]}
      BY <2>2
    <3>3. chat[p].phase \in {"token", "signing"} => chat[p].client \in Clients
      BY <3>1 DEF TokenFits, Working
    <3> QED BY <2>1, <3>1, <3>2, <3>3 DEF TokenFits
  <2> QED BY <2>5, <2>6, <2>9, <2>10, <2>11 DEF TokensFit
<1> QED BY <1>6, <1>7 DEF SignedIn

\* The rejected token is thrown away once, and only if it is still the client's.
LEMMA ClearKeepsTokens ==
    ASSUME ChatFits, TokensFit, NEW q \in Requests, Clear(q) PROVE TokensFit'
<1> DEFINE c == Client(q)
           t == chat[q].token
           r == [phase |-> "token", try |-> 2]
<1>1. /\ chat[q].phase = "clearing" /\ c \in Clients /\ c = chat[q].client
      /\ DOMAIN chat[q] = ChatFields /\ holder[c] = None
      /\ t \in 1 .. webui.minted /\ t \in webui.revoked
      /\ token \in [Clients -> Nat \cup {None}] /\ webui.minted \in Nat
  BY DEF Clear, TokensFit, TokenFits, TokensTyped, Working, Client, ChatFits, RequestFits
<1>2. /\ Put(q, r) /\ UNCHANGED <<pipe, configs, holder, webui>>
      /\ chat'[q] = Updated(chat[q], r) /\ \A p \in Requests \ {q} : chat'[p] = chat[p]
  BY DEF Clear, Put, ChatFits
<1>3. /\ chat'[q].phase = "token" /\ chat'[q].token = t
      /\ chat'[q].client = c /\ chat'[q].try = 2 /\ Updated(chat[q], r).phase = "token"
  BY <1>1, <1>2 DEF ChatFields, Updated
<1>4. CASE token[c] # t
  <2>1. UNCHANGED <<token, cleared>>
    BY <1>4 DEF Clear
  <2>2. TokenFits(q)'
    BY <1>1, <1>2, <1>3, <1>4, <2>1 DEF TokenFits, Early, Working
  <2> QED BY <1>1, <1>2, <1>3, <2>1, <2>2, TalkKeepsTokens
<1>5. CASE token[c] = t
  <2>1. /\ token' = [token EXCEPT ![c] = None] /\ cleared' = cleared \cup {t}
        /\ \A d \in Clients : token'[d] = IF d = c THEN None ELSE token[d]
        /\ token' \in [Clients -> Nat \cup {None}]
    BY <1>1, <1>5 DEF Clear
  <2>2. TokensTyped'
    BY <1>1, <1>2, <2>1 DEF TokensFit, TokensTyped
  <2>3. Cached' = Cached \ {c} /\ c \in Cached /\ t \notin cleared
    BY <1>1, <1>5, <2>1 DEF Cached, TokensFit, TokensShared
  <2>4. TokensShared'
    <3>1. \A d \in Cached' : token'[d] = token[d] /\ d \in Cached /\ token[d] # t
      <4>1. \A d \in Cached : token[d] = token[c] => d = c
        BY <2>3 DEF TokensFit, TokensShared
      <4> QED BY <1>5, <2>1, <2>3, <4>1 DEF Cached
    <3>2. \A d \in Cached' : token'[d] \in 1 .. webui'.minted /\ token'[d] \notin cleared'
      BY <1>2, <2>1, <3>1 DEF TokensFit, TokensShared
    <3>3. \A d, e \in Cached' : token'[d] = token'[e] => d = e
      BY <3>1 DEF TokensFit, TokensShared
    <3>4. Cardinality(Cached') = Cardinality(Cached) - 1
      BY <2>3, ClientsFacts, FS_RemoveElement DEF TokensFit
    <3>5. Cardinality(cleared') = Cardinality(cleared) + 1
      BY <2>1, <2>3, ClientsFacts, FS_AddElement DEF TokensFit
    <3>6. Cardinality(Cached) \in Nat /\ Cardinality(cleared) \in Nat
      BY ClientsFacts, FS_CardinalityType DEF TokensFit
    <3>7. webui.minted <= Cardinality(Cached) + Cardinality(cleared)
      BY DEF TokensFit, TokensShared
    <3>8. webui'.minted <= Cardinality(Cached') + Cardinality(cleared')
      BY <1>1, <1>2, <3>4, <3>5, <3>6, <3>7
    <3> QED BY <3>2, <3>3, <3>8 DEF TokensShared
  <2>5. LocksFit'
    <3>1. \A p \in Requests : chat'[p].phase = "signing" => chat[p].phase = "signing" /\ chat'[p] = chat[p]
      BY <1>2, <1>3
    <3>2. \A p \in Requests : chat[p].phase = "signing" =>
             chat[p].client \in Clients /\ holder[chat[p].client] = p /\ token[chat[p].client] = None
      BY DEF TokensFit, LocksFit, TokenFits, Working, Client
    <3>3. \A d \in Clients : holder[d] # None =>
             holder[d] \in Requests \ {q} /\ chat[holder[d]].phase = "signing" /\ chat[holder[d]].client = d
      BY <1>1 DEF TokensFit, LocksFit, TokensTyped, Client
    <3>4. \A p \in Requests : chat'[p].phase = "signing" =>
             holder'[chat'[p].client] = p /\ token'[chat'[p].client] = None
      BY <1>2, <2>1, <3>1, <3>2
    <3>5. \A d \in Clients : holder'[d] # None =>
             chat'[holder'[d]].phase = "signing" /\ chat'[holder'[d]].client = d
      BY <1>2, <3>3
    <3> QED BY <3>4, <3>5 DEF LocksFit, Client
  <2>6. TokenFits(q)'
    <3>1. t # None /\ c \in Clients
      BY <1>1
    <3> QED BY <1>1, <1>2, <1>3, <2>1, <3>1 DEF TokenFits, Early, Working
  <2>7. \A p \in Requests \ {q} : TokenFits(p)'
    <3> SUFFICES ASSUME NEW p \in Requests \ {q} PROVE TokenFits(p)'
      OBVIOUS
    <3>1. TokenFits(p) /\ chat'[p] = chat[p]
      BY <1>2 DEF TokensFit
    <3>2. chat[p].client \in Clients => token'[chat[p].client] \in {None, token[chat[p].client]}
      BY <2>1
    <3>3. chat[p].phase \in {"token", "signing"} => chat[p].client \in Clients
      BY <3>1 DEF TokenFits, Working
    <3> QED BY <1>1, <1>2, <3>1, <3>2, <3>3 DEF TokenFits
  <2> QED BY <2>2, <2>4, <2>5, <2>6, <2>7 DEF TokensFit
<1> QED BY <1>4, <1>5

\* The steps of a thread that touch neither the lock nor a token: what becomes
\* of the request fits, or the thread ends.
LEMMA StepKeepsTokens ==
    ASSUME ChatFits, TokensFit, NEW q \in Requests, ChatStep(q) PROVE TokensFit'
<1>1. TokenFits(q) /\ DOMAIN chat[q] = ChatFields
  BY DEF TokensFit, ChatFits, RequestFits
<1>2. ASSUME NEW r, Put(q, r), DOMAIN r \subseteq ChatFields \ {"client"},
             chat[q].phase # "signing", r.phase # "signing", "phase" \in DOMAIN r,
             \/ chat[q].phase \notin Working /\ r.phase \notin Working
                /\ (r.phase \in Early => chat[q].phase \in Early) /\ "try" \notin DOMAIN r
             \/ chat[q].phase = "calling" /\ chat[q].token \in webui.revoked
                /\ r = [phase |-> "clearing"]
             \/ chat[q].phase = "calling"
                /\ r = [phase |-> "token", op |-> "content", try |-> 1, meta |-> webui.meta]
             \/ r.phase \notin Early \cup Working,
             UNCHANGED <<pipe, configs, token, holder, webui, cleared>>
      PROVE  TokensFit'
  <2>1. chat'[q] = Updated(chat[q], r)
    BY <1>2 DEF Put, ChatFits
  <2>2. chat'[q].phase = r.phase /\ chat'[q].client = chat[q].client
    BY <1>1, <1>2, <2>1 DEF ChatFields, Updated
  <2>3. TokenFits(q)'
    <3>1. CASE chat[q].phase \notin Working /\ r.phase \notin Working
               /\ (r.phase \in Early => chat[q].phase \in Early) /\ "try" \notin DOMAIN r
      <4>1. chat'[q].try = chat[q].try
        BY <1>1, <2>1, <3>1 DEF ChatFields, Updated
      <4> QED BY <1>1, <2>2, <3>1, <4>1 DEF TokenFits, Early, Working
    <3>2. CASE chat[q].phase = "calling" /\ chat[q].token \in webui.revoked
               /\ r = [phase |-> "clearing"]
      <4>1. chat'[q].try = chat[q].try /\ chat'[q].token = chat[q].token
        BY <1>1, <2>1, <3>2 DEF ChatFields, Updated
      <4> QED BY <1>1, <1>2, <2>2, <3>2, <4>1 DEF TokenFits, Early, Working
    <3>3. CASE chat[q].phase = "calling"
               /\ r = [phase |-> "token", op |-> "content", try |-> 1, meta |-> webui.meta]
      <4>1. chat'[q].try = 1
        BY <1>1, <2>1, <3>3 DEF ChatFields, Updated
      <4> QED BY <1>1, <2>2, <3>3, <4>1 DEF TokenFits, Early, Working
    <3>4. CASE r.phase \notin Early \cup Working
      BY <1>1, <2>2, <3>4 DEF TokenFits, Early, Working
    <3> QED BY <1>2, <3>1, <3>2, <3>3, <3>4
  <2> QED BY <1>2, <2>1, <2>2, <2>3, TalkKeepsTokens
<1>3. CASE Inlet(q)
  <2>1. CASE \E body \in {"plain", "assistant"} : Put(q, [phase |-> body])
    BY <1>2, <1>3, <2>1 DEF Inlet, ChatFields, Working, Early
  <2>2. ASSUME NEW u \in Users,
               Put(q, [phase |-> "posted", user |-> u,
                       ref |-> [sub |-> u, iat |-> clock, exp |-> clock + pipe.ttl]])
        PROVE  TokensFit'
    <3> DEFINE r == [phase |-> "posted", user |-> u,
                     ref |-> [sub |-> u, iat |-> clock, exp |-> clock + pipe.ttl]]
    <3>1. DOMAIN r = {"phase", "user", "ref"} /\ r.phase = "posted"
      OBVIOUS
    <3>2. Put(q, r) /\ chat[q].phase = "new" /\ UNCHANGED <<pipe, configs, token, holder, webui, cleared>>
      BY <1>3, <2>2 DEF Inlet
    <3> HIDE DEF r
    <3> QED BY <1>2, <3>1, <3>2 DEF ChatFields, Working, Early
  <2> QED BY <1>3, <2>1, <2>2 DEF Inlet
<1>4. CASE PipeText(q)
  BY <1>4, SayKeepsTokens DEF PipeText
<1>5. ASSUME NEW u \in Users, PipeFile(q, u) PROVE TokensFit'
  <2>1. CASE ~ReferenceHolds(chat[q].ref, u)
    BY <1>5, <2>1, SayKeepsTokens DEF PipeFile
  <2>2. CASE ReferenceHolds(chat[q].ref, u)
    <3> DEFINE d == IF pipe.client = None THEN q ELSE pipe.client
               r == [phase |-> "token", ref |-> [sub |-> chat[q].ref.sub], client |-> d]
    <3>1. /\ Put(q, r) /\ chat[q].phase = "posted"
          /\ UNCHANGED <<pipe, configs, token, holder, webui, cleared>>
      BY <1>5, <2>2 DEF PipeFile
    <3>2. d \in Clients
      BY ClientsFacts DEF TokensFit, TokensTyped
    <3>3. chat'[q] = Updated(chat[q], r)
      BY <3>1 DEF Put, ChatFits
    <3>4. /\ chat'[q].phase = "token" /\ chat'[q].client = d /\ chat'[q].try = chat[q].try
          /\ Updated(chat[q], r).phase = "token"
      BY <1>1, <3>3 DEF ChatFields, Updated
    <3>5. TokenFits(q)'
      BY <1>1, <3>1, <3>2, <3>4 DEF TokenFits, Early, Working
    <3> QED BY <3>1, <3>4, <3>5, TalkKeepsTokens
  <2> QED BY <2>1, <2>2
<1>6. CASE GetToken(q)
  BY <1>6, GetTokenKeepsTokens
<1>7. CASE SignedIn(q)
  BY <1>7, SignedInKeepsTokens
<1>8. CASE Clear(q)
  BY <1>8, ClearKeepsTokens
<1>9. CASE Submit(q)
  <2>1. CASE pipe.adapter
    BY <1>2, <1>9, <2>1 DEF Submit, ChatFields, Working, Early
  <2>2. CASE ~pipe.adapter
    BY <1>9, <2>2, SayKeepsTokens DEF Submit
  <2> QED BY <2>1, <2>2
<1>10. CASE Rejected(q)
  <2>1. CASE chat[q].try = 1
    BY <1>2, <1>10, <2>1 DEF Rejected, ChatFields
  <2>2. CASE chat[q].try # 1
    BY <1>10, <2>2, SayKeepsTokens DEF Rejected
  <2> QED BY <2>1, <2>2
<1>11. CASE CallFails(q)
  BY <1>11, SayKeepsTokens DEF CallFails
<1>12. CASE MetadataRead(q)
  <2>1. CASE \E message : Say(q, message)
    BY <1>12, <2>1, SayKeepsTokens DEF MetadataRead
  <2>2. CASE Put(q, [phase |-> "token", op |-> "content", try |-> 1, meta |-> webui.meta])
    BY <1>2, <1>12, <2>2 DEF MetadataRead, ChatFields
  <2> QED BY <1>12, <2>1, <2>2 DEF MetadataRead
<1>13. CASE ContentRead(q)
  <2>1. CASE \E message : Say(q, message)
    BY <1>13, <2>1, SayKeepsTokens DEF ContentRead
  <2>2. CASE Put(q, [phase |-> "verified", bytes |-> webui.disk])
    BY <1>2, <1>13, <2>2 DEF ContentRead, ChatFields, Early, Working
  <2> QED BY <1>13, <2>1, <2>2 DEF ContentRead
<1> QED
  BY <1>3, <1>4, <1>5, <1>6, <1>7, <1>8, <1>9, <1>10, <1>11, <1>12, <1>13 DEF ChatStep, ThreadStep

LEMMA AnswerKeepsTokens ==
    ASSUME ChatFits, TokensFit, NEW q \in Requests, NEW message, AnalysisAnswers(q, message)
    PROVE  TokensFit'
BY SayKeepsTokens DEF AnalysisAnswers

LEMMA ConfigureKeepsTokens ==
    ASSUME TokensFit, NEW ttl, Configure(ttl) PROVE TokensFit'
<1>1. configs' \in Nat /\ configs' \in Clients
  BY DEF Configure, TokensFit, TokensTyped, Clients
<1>2. DOMAIN pipe' = PipeFields /\ pipe'.client = configs'
  BY DEF Configure, PipeFields
<1>3. TokensTyped'
  BY <1>1, <1>2 DEF Configure, TokensFit, TokensTyped
<1> QED BY <1>3 DEF Configure, TokensFit, TokensShared, Cached, LocksFit, TokenFits, Client

LEMMA EnvironmentKeepsTokens == ASSUME ChatFits, TokensFit, ChatEnvironment PROVE TokensFit'
<1> USE DEF TokensFit, TokensTyped, TokensShared, Cached, LocksFit, TokenFits, Client
<1>1. CASE \E ttl \in Ttls : Configure(ttl)
  BY <1>1, ConfigureKeepsTokens
<1>2. CASE Shutdown
  BY <1>2 DEF Shutdown, PipeFields
<1>3. CASE Tick
  BY <1>3 DEF Tick
<1>4. ASSUME NEW t \in 1 .. webui.minted \ webui.revoked, Revoke(t) PROVE TokensFit'
  <2>1. webui'.minted = webui.minted /\ webui'.revoked = webui.revoked \cup {t}
    BY <1>4 DEF Revoke, ChatFits
  <2>2. TokensTyped' /\ TokensShared'
    BY <1>4, <2>1 DEF Revoke
  <2>3. LocksFit'
    BY <1>4 DEF Revoke
  <2>4. ASSUME NEW q \in Requests PROVE TokenFits(q)'
    <3>1. TokenFits(q)
      OBVIOUS
    <3>2. UNCHANGED <<chat, token>>
      BY <1>4 DEF Revoke
    <3> QED BY <2>1, <3>1, <3>2
  <2> QED BY <2>2, <2>3, <2>4
<1>5. CASE (\E c \in Versions : Overwrite(c)) \/ Describe
  <2>1. webui'.minted = webui.minted /\ webui'.revoked = webui.revoked
    BY <1>5 DEF Overwrite, Describe, ChatFits
  <2>2. UNCHANGED <<chat, pipe, configs, token, holder, cleared>>
    BY <1>5 DEF Overwrite, Describe
  <2>3. TokensTyped' /\ TokensShared'
    BY <2>1, <2>2
  <2>4. LocksFit' /\ \A q \in Requests : TokenFits(q)'
    BY <2>1, <2>2
  <2> QED BY <2>3, <2>4
<1> QED BY <1>1, <1>2, <1>3, <1>4, <1>5 DEF ChatEnvironment

LEMMA TokensInit == Init => TokensFit
<1> SUFFICES ASSUME Init PROVE TokensFit
  OBVIOUS
<1>1. ASSUME NEW ttls, NEW contents, NEW types, InitChat(ttls, contents, types) PROVE TokensFit
  <2>1. /\ chat = [q \in Requests |-> NewRequest]
        /\ token = [c \in Clients |-> None] /\ holder = [c \in Clients |-> None]
        /\ DOMAIN pipe = PipeFields /\ pipe.client = None /\ configs = 0
        /\ webui.minted = 0 /\ webui.revoked = {} /\ cleared = {}
    BY <1>1 DEF InitChat, PipeFields
  <2>2. TokensTyped
    BY <2>1 DEF TokensTyped
  <2>3. Cached = {}
    BY <2>1 DEF Cached
  <2>4. TokensShared
    BY <2>1, <2>3, FS_EmptySet DEF TokensShared
  <2>5. \A q \in Requests : chat[q].phase = "new" /\ chat[q].try = 1 /\ chat[q].client = None
    BY <2>1 DEF NewRequest
  <2>6. LocksFit /\ \A q \in Requests : TokenFits(q)
    BY <2>1, <2>5 DEF LocksFit, TokenFits, Early, Working
  <2> QED BY <2>2, <2>4, <2>6 DEF TokensFit
<1>2. \E ttls, contents, types : InitChat(ttls, contents, types)
  BY DEF Init
<1> QED BY <1>1, <1>2

\* TokenDiscipline (OpenWebUIFileClient): whatever threads share a client and
\* whenever tokens expire, a client throws away only rejected tokens, signs in
\* again only for those, and repeats a call with another token; the lock is held
\* by exactly the thread that signs in.
THEOREM TokensAreRenewedOnce == Spec => []TokenDiscipline
<1>1. ChatFits /\ [Next]_vars => ChatFits'
  <2>1. ChatFits /\ UNCHANGED chatVars => ChatFits'
    BY DEF ChatFits, chatVars
  <2> QED BY <2>1, ChatMoves, ChatStepKeeps, AnswerKeeps, ChatEnvironmentKeeps, ConfigureKeeps
<1>2. ChatFits /\ TokensFit /\ [Next]_vars => TokensFit'
  <2>1. TokensFit /\ UNCHANGED chatVars => TokensFit'
    BY DEF TokensFit, TokensTyped, TokensShared, Cached, LocksFit, TokenFits, Client, chatVars
  <2> QED BY <2>1, ChatMoves, StepKeepsTokens, AnswerKeepsTokens, EnvironmentKeepsTokens,
             ConfigureKeepsTokens
<1>3. TokensFit => TokenDiscipline
  <2> SUFFICES ASSUME TokensFit PROVE TokenDiscipline
    OBVIOUS
  <2>1. cleared \subseteq webui.revoked
    BY DEF TokensFit, TokensTyped
  <2>2. webui.minted <= Cardinality({c \in Clients : token[c] # None}) + Cardinality(cleared)
    BY DEF TokensFit, TokensShared, Cached
  <2>3. ASSUME NEW q \in Requests
        PROVE  /\ chat[q].phase \in {"token", "signing"} /\ chat[q].try = 2
                     => token[Client(q)] # chat[q].token
               /\ chat[q].phase = "signing" <=>
                     chat[q].client # None /\ holder[chat[q].client] = q
    <3>1. TokenFits(q) /\ None \notin Clients /\ q # None
      BY ClientsFacts DEF TokensFit
    <3>2. chat[q].client \in Clients /\ holder[chat[q].client] = q => chat[q].phase = "signing"
      BY <3>1 DEF TokensFit, LocksFit
    <3>3. chat[q].phase = "signing" => chat[q].client \in Clients /\ holder[chat[q].client] = q
      BY <3>1 DEF TokensFit, LocksFit, Client, TokenFits, Working
    <3> QED BY <3>1, <3>2, <3>3 DEF TokenFits, Client
  <2> QED BY <2>1, <2>2, <2>3 DEF TokenDiscipline
<1> QED BY <1>1, <1>2, <1>3, ChatInit, TokensInit, PTL DEF Spec

-----------------------------------------------------------------------------
(* The faults *)

SpeechFields == {"phase", "rec", "words", "error", "tries", "roles"}
SpeechErrors ==
    {"none", "payload_too_large", "invalid_audio", "service_unavailable", "MediaTimeoutError",
     "MediaValidationError", "UnsupportedMediaError", "NoSpeechError", "SpeechProviderError",
     "ValidationError", "RoleResolutionRequiredError"}

\* A transcription fails in the end only, and for a fault of the recording only
\* if that is at fault.
SpeechFits ==
    /\ DOMAIN speech = SpeechFields
    /\ speech.error \in SpeechErrors
    /\ speech.phase # "ended" => speech.error = "none"
    /\ ServiceCode(speech.error) \in InputFaults => BadRecording

\* What the API may answer for a recording.
AnswerCodes ==
    InputFaults \cup {"ok", "role_resolution_required", "quota_exceeded", "provider_failure",
                      "service_unavailable", "deadline_exceeded", "agent_failure"}

\* The code of an answer, by what became of the transcription.
CodeFits(code) ==
    /\ code \in AnswerCodes
    /\ code \in InputFaults => BadRecording
    /\ Retryable(code) => speech.phase # "ended" \/ ServiceCode(speech.error) \notin InputFaults

AnalysisFits ==
    /\ DOMAIN analysis = {"phase", "code"}
    /\ analysis.phase \in {"idle", "fetch", "speech", "agents", "answered"}
    /\ analysis.phase \in {"idle", "fetch", "speech"} => speech.phase # "ended"
    /\ analysis.phase = "agents" => speech.error = "none"
    /\ analysis.phase # "answered" => analysis.code = "ok"
    /\ analysis.phase = "answered" /\ load # "url" => CodeFits(analysis.code)

\* The chat that sent the recording waits for the answer, and shows that one.
LeadFits ==
    load = "chat" /\ analysis.phase # "idle" =>
        /\ chat[Lead].phase \in {"analysing", "ended"} /\ chat[Lead].bytes # None
        /\ chat[Lead].phase = "ended" =>
              analysis.phase = "answered" /\ chat[Lead].told = Message(analysis.code)

\* The API's codes by the service's: its own faults keep their name.
LEMMA CodesOfErrors ==
    ASSUME NEW error \in SpeechErrors \ {"none"}
    PROVE  /\ ClientCode(ServiceCode(error)) \in AnswerCodes \ {"ok"}
           /\ ClientCode(ServiceCode(error)) \in InputFaults
                 <=> ServiceCode(error) \in InputFaults
           /\ ServiceCode(error) \in InputFaults => ~Retryable(ClientCode(ServiceCode(error)))
<1> DEFINE Kept == {"unsupported_media", "deadline_exceeded", "invalid_audio", "no_speech",
                    "role_resolution_required", "service_unavailable", "provider_failure",
                    "payload_too_large"}
<1>1. ServiceCode(error) \in Kept \cup {"internal_error"}
  BY DEF ServiceCode, SpeechErrors
<1>2. \A code \in Kept : ClientCode(code) = code
  BY DEF ClientCode, SafeUpstream
<1>3. ClientCode("internal_error") = "provider_failure"
  BY DEF ClientCode, SafeUpstream, Status
<1>4. Kept \subseteq AnswerCodes \ {"ok"} /\ "provider_failure" \in AnswerCodes
  BY DEF AnswerCodes, InputFaults
<1>5. \A code \in InputFaults : Status(code) \in {413, 415, 422}
  BY DEF InputFaults, Status
<1>6. {"provider_failure", "internal_error"} \cap InputFaults = {}
  BY DEF InputFaults
<1>7. \A code \in InputFaults : ~Retryable(code)
  BY <1>5 DEF Retryable
<1>8. CASE ServiceCode(error) \in Kept
  BY <1>2, <1>4, <1>7, <1>8
<1>9. CASE ServiceCode(error) = "internal_error"
  BY <1>3, <1>4, <1>6, <1>9
<1> QED BY <1>1, <1>8, <1>9

\* The words of the chat tell the sender's faults from the others.
LEMMA WordsOfCodes ==
    ASSUME NEW code \in AnswerCodes
    PROVE  Message(code) \in InputFaults <=> code \in InputFaults
<1> USE DEF Message, Told, Status, InputFaults
<1>1. CASE code \in {"ok", "payload_too_large", "unsupported_media"}
  BY <1>1
<1>2. CASE code \in {"invalid_audio", "no_speech"}
  BY <1>2
<1>3. CASE code \in {"role_resolution_required", "quota_exceeded", "provider_failure"}
  BY <1>3
<1>4. CASE code \in {"service_unavailable", "deadline_exceeded", "agent_failure"}
  BY <1>4
<1> QED BY <1>1, <1>2, <1>3, <1>4 DEF AnswerCodes

LEMMA RaiseFits ==
    ASSUME SpeechFits, NEW error \in SpeechErrors, Raise(error),
           ServiceCode(error) \in InputFaults => BadRecording
    PROVE  SpeechFits' /\ speech'.rec = speech.rec
<1>1. /\ DOMAIN speech' = SpeechFields /\ speech'.error = error /\ speech'.phase = "ended"
      /\ speech'.rec = speech.rec
  BY DEF SpeechFits, SpeechFields, Raise, SetSpeech, Updated
<1>2. BadRecording => BadRecording'
  BY <1>1 DEF BadRecording
<1> QED BY <1>1, <1>2 DEF SpeechFits

LEMMA SetSpeechFits ==
    ASSUME SpeechFits, NEW r, SetSpeech(r), DOMAIN r \subseteq {"phase", "words", "tries", "roles"},
           speech.error = "none"
    PROVE  SpeechFits' /\ speech'.rec = speech.rec
<1>1. /\ DOMAIN speech' = SpeechFields /\ speech'.error = "none"
      /\ speech'.rec = speech.rec
  BY DEF SpeechFits, SpeechFields, SetSpeech, Updated
<1>2. ServiceCode("none") \notin InputFaults
  BY DEF ServiceCode, InputFaults
<1> QED BY <1>1, <1>2 DEF SpeechFits, SpeechErrors

LEMMA SpeechStepFits ==
    ASSUME SpeechFits, speech.phase # "ended", SpeechStep
    PROVE  SpeechFits' /\ speech'.rec = speech.rec
<1> USE DEF SpeechErrors
<1>1. speech.error = "none"
  BY DEF SpeechFits
<1>2. ServiceCode("payload_too_large") = "payload_too_large"
      /\ ServiceCode("invalid_audio") = "invalid_audio"
      /\ ServiceCode("service_unavailable") = "service_unavailable"
      /\ ServiceCode("MediaTimeoutError") = "deadline_exceeded"
      /\ ServiceCode("SpeechProviderError") = "provider_failure"
      /\ ServiceCode("ValidationError") = "internal_error"
      /\ ServiceCode("RoleResolutionRequiredError") = "role_resolution_required"
  BY DEF ServiceCode
<1>3. CASE Parse
  <2> DEFINE fault == SourceFault(speech.rec.file, MaxUpload)
  <2>1. CASE fault = "ok"
    BY <1>1, <1>3, <2>1, SetSpeechFits DEF Parse
  <2>2. CASE fault # "ok"
    <3>1. fault \in {"payload_too_large", "invalid_audio"}
      BY <2>2 DEF SourceFault
    <3>2. BadRecording
      BY <2>2 DEF SourceFault, ApiFault, BadRecording
    <3> QED BY <1>3, <2>2, <3>1, <3>2, RaiseFits DEF Parse
  <2> QED BY <2>1, <2>2
<1>4. CASE NotReady
  BY <1>2, <1>4, RaiseFits DEF NotReady, InputFaults
<1>5. CASE Normalize
  <2> DEFINE fault == MediaError(speech.rec.file)
  <2>1. CASE fault = "none"
    BY <1>1, <1>5, <2>1, SetSpeechFits DEF Normalize
  <2>2. CASE fault # "none"
    <3>1. fault \in {"MediaValidationError", "UnsupportedMediaError", "MediaTimeoutError"}
      BY <2>2 DEF MediaError, ToolError
    <3>2. fault # "MediaTimeoutError" => BadRecording
      BY <2>2 DEF BadRecording
    <3> QED BY <1>2, <1>5, <2>2, <3>1, <3>2, RaiseFits DEF Normalize, InputFaults
  <2> QED BY <2>1, <2>2
<1>6. CASE Recognise
  <2>1. CASE Raise("NoSpeechError") /\ speech.rec.segments = <<>>
    BY <2>1, RaiseFits DEF BadRecording
  <2>2. CASE Raise("SpeechProviderError")
    BY <1>2, <2>2, RaiseFits DEF InputFaults
  <2>3. CASE \E words : SetSpeech([phase |-> "speakers", words |-> words])
    BY <1>1, <2>3, SetSpeechFits
  <2> QED BY <1>6, <2>1, <2>2, <2>3 DEF Recognise
<1>7. CASE AssignSpeakers
  <2>1. CASE Raise("ValidationError") \/ Raise("SpeechProviderError")
    BY <1>2, <2>1, RaiseFits DEF InputFaults
  <2>2. CASE SetSpeech([phase |-> "roles"])
    BY <1>1, <2>2, SetSpeechFits
  <2> QED BY <1>7, <2>1, <2>2 DEF AssignSpeakers
<1>8. ASSUME NEW roles, ResolveRoles(roles) PROVE SpeechFits' /\ speech'.rec = speech.rec
  <2>1. CASE Raise("ValidationError") \/ Raise("RoleResolutionRequiredError")
    BY <1>2, <2>1, RaiseFits DEF InputFaults
  <2>2. CASE \E assigned : SetSpeech([phase |-> "ended", roles |-> assigned])
    BY <1>1, <2>2, SetSpeechFits
  <2> QED BY <1>8, <2>1, <2>2 DEF ResolveRoles
<1>9. CASE RolesKnown
  BY <1>8, <1>9 DEF RolesKnown
<1>10. CASE RoleAgent
  <2>1. CASE Raise("SpeechProviderError")
    BY <1>2, <2>1, RaiseFits DEF InputFaults
  <2>2. CASE SetSpeech([tries |-> 1])
    BY <1>1, <2>2, SetSpeechFits
  <2> QED BY <1>8, <1>10, <2>1, <2>2 DEF RoleAgent
<1> QED BY <1>3, <1>4, <1>5, <1>6, <1>7, <1>9, <1>10 DEF SpeechStep

\* A part of the call is over, and the next one begins or its error is the answer.
LEMMA GoesOn ==
    ASSUME AnalysisFits, analysis.phase # "answered", load' = load,
           NEW code, NEW next \in {"speech", "agents", "answered"}, OnOk(code, next),
           code = "ok" /\ next = "speech" => speech'.phase # "ended",
           code = "ok" /\ next = "agents" => speech'.error = "none",
           load # "url" /\ (code # "ok" \/ next = "answered") => CodeFits(code)'
    PROVE  AnalysisFits'
<1>1. CASE code = "ok"
  <2>1. DOMAIN analysis' = {"phase", "code"} /\ analysis'.phase = next /\ analysis'.code = code
    BY <1>1 DEF OnOk, AnalysisFits
  <2>2. CASE next = "answered"
    BY <2>1, <2>2 DEF AnalysisFits
  <2>3. CASE next # "answered"
    BY <1>1, <2>1, <2>3 DEF AnalysisFits
  <2> QED BY <2>2, <2>3
<1>2. CASE code # "ok"
  <2>1. DOMAIN analysis' = {"phase", "code"} /\ analysis'.phase = "answered" /\ analysis'.code = code
    BY <1>2 DEF OnOk, Answers
  <2> QED BY <1>2, <2>1 DEF AnalysisFits
<1> QED BY <1>1, <1>2

LEMMA SameRecording ==
    ASSUME UNCHANGED speech, NEW code, CodeFits(code) PROVE CodeFits(code)'
BY DEF CodeFits, BadRecording

LEMMA ReceiveFits ==
    ASSUME SpeechFits, AnalysisFits, LeadFits, ChatFits, Receive
    PROVE  SpeechFits' /\ AnalysisFits' /\ LeadFits'
<1> DEFINE fault == ApiFault(speech.rec.file, MaxUpload, MediaTypes)
<1>1. /\ analysis.phase = "idle" /\ (load = "chat" => chat[Lead].phase = "analysing")
      /\ UNCHANGED <<load, chat, speech>> /\ load # "url"
  BY DEF Receive, chatVars
<1>2. speech.phase # "ended"
  BY <1>1 DEF AnalysisFits
<1>3. SpeechFits'
  BY <1>1 DEF SpeechFits, BadRecording
<1>4. AnalysisFits'
  <2>1. CASE OnOk("ok", "speech")
    BY <1>1, <1>2, <2>1, GoesOn
  <2>2. CASE OnOk(fault, "speech")
    <3>1. PICK code : code = fault
      OBVIOUS
    <3>2. code # "ok" => CodeFits(code)
      <4>1. code \in {"ok", "payload_too_large", "unsupported_media", "invalid_audio"}
        BY <3>1 DEF ApiFault
      <4>2. code # "ok" => BadRecording
        BY <3>1 DEF BadRecording
      <4> QED BY <1>2, <4>1, <4>2 DEF CodeFits, AnswerCodes, InputFaults
    <3>3. code # "ok" => CodeFits(code)'
      BY <1>1, <3>2, SameRecording
    <3> QED BY <1>1, <1>2, <2>2, <3>1, <3>3, GoesOn
  <2> QED BY <2>1, <2>2 DEF Receive
<1>5. LeadFits'
  <2>1. load = "chat" => chat[Lead].bytes # None /\ chat'[Lead] = chat[Lead]
    BY <1>1, UploadsAssumption DEF ChatFits, RequestFits
  <2> QED BY <1>1, <2>1 DEF LeadFits
<1> QED BY <1>3, <1>4, <1>5

LEMMA TranscribingFits ==
    ASSUME SpeechFits, AnalysisFits, LeadFits, Transcribing
    PROVE  SpeechFits' /\ AnalysisFits' /\ LeadFits'
<1>1. /\ analysis.phase = "speech" /\ speech.phase # "ended"
      /\ UNCHANGED <<load, chat>>
  BY DEF Transcribing, AnalysisFits, chatVars
<1>2. SpeechFits' /\ speech'.rec = speech.rec
  BY <1>1, SpeechStepFits DEF Transcribing
<1>3. ASSUME speech'.phase = "ended" PROVE AnalysisFits'
  <2>1. OnOk(SpeechCode', "agents")
    BY <1>3 DEF Transcribing
  <2>2. CASE speech'.error = "none"
    <3>1. OnOk("ok", "agents")
      BY <2>1, <2>2 DEF SpeechCode
    <3> QED BY <1>1, <2>2, <3>1, GoesOn
  <2>3. CASE speech'.error # "none"
    <3>1. PICK error \in SpeechErrors \ {"none"} : error = speech'.error
      BY <1>2, <2>3 DEF SpeechFits
    <3> PICK code : code = ClientCode(ServiceCode(error))
      OBVIOUS
    <3>2. SpeechCode' = code
      BY <2>3, <3>1 DEF SpeechCode
    <3>3. ServiceCode(error) \in InputFaults => BadRecording'
      BY <1>2, <3>1 DEF SpeechFits
    <3>4. /\ code \in AnswerCodes \ {"ok"}
          /\ code \in InputFaults <=> ServiceCode(error) \in InputFaults
          /\ ServiceCode(error) \in InputFaults => ~Retryable(code)
      BY CodesOfErrors
    <3>5. CodeFits(code)'
      BY <3>1, <3>3, <3>4 DEF CodeFits
    <3> QED BY <1>1, <2>1, <3>2, <3>4, <3>5, GoesOn
  <2> QED BY <2>2, <2>3
<1>4. ASSUME speech'.phase # "ended" PROVE AnalysisFits'
  <2>1. UNCHANGED analysis
    BY <1>4 DEF Transcribing
  <2> QED BY <1>1, <1>4, <2>1 DEF AnalysisFits
<1>5. LeadFits'
  BY <1>1 DEF LeadFits
<1> QED BY <1>2, <1>3, <1>4, <1>5

\* The other steps of the analysis: agents, the fetch, and faults of any part.
LEMMA OthersFit ==
    ASSUME SpeechFits, AnalysisFits, LeadFits,
           \/ Fetching
           \/ \E code \in AgentCodes : Agents(code)
           \/ \E code \in {"deadline_exceeded", "quota_exceeded", "service_unavailable"} :
                 AnalysisFails(code)
    PROVE  SpeechFits' /\ AnalysisFits' /\ LeadFits'
<1>1. UNCHANGED <<load, chat, speech>>
  BY DEF Fetching, Agents, AnalysisFails, chatVars
<1>2. SpeechFits'
  BY <1>1 DEF SpeechFits, BadRecording
<1>3. CASE Fetching
  <2>1. load = "url" /\ analysis.phase \in {"idle", "fetch"}
    BY <1>3 DEF Fetching
  <2>2. LeadFits'
    BY <1>1, <2>1 DEF LeadFits
  <2>3. CASE fetch'.phase # "ended"
    <3>1. analysis' = [analysis EXCEPT !.phase = "fetch"]
      BY <1>3, <2>3 DEF Fetching
    <3>2. speech.phase # "ended" /\ DOMAIN analysis = {"phase", "code"} /\ analysis.code = "ok"
      BY <2>1 DEF AnalysisFits
    <3>3. /\ DOMAIN analysis' = {"phase", "code"} /\ analysis'.phase = "fetch"
          /\ analysis'.code = "ok"
      BY <3>1, <3>2
    <3>4. AnalysisFits'
      BY <1>1, <3>2, <3>3 DEF AnalysisFits
    <3> QED BY <1>2, <2>2, <3>4
  <2>4. CASE fetch'.phase = "ended"
    <3>1. PICK code : OnOk(code, "speech")
      BY <1>3, <2>4 DEF Fetching
    <3> QED BY <1>1, <1>2, <2>1, <2>2, <3>1, GoesOn DEF AnalysisFits
  <2> QED BY <1>2, <2>2, <2>3, <2>4
<1>4. ASSUME NEW code \in AgentCodes, Agents(code) PROVE AnalysisFits' /\ LeadFits'
  <2>1. analysis.phase = "agents" /\ speech.error = "none" /\ OnOk(code, "answered")
    BY <1>4 DEF Agents, AnalysisFits
  <2>2. ServiceCode(speech.error) \notin InputFaults /\ code \in AnswerCodes \ InputFaults
    BY <2>1 DEF ServiceCode, InputFaults, AgentCodes, AnswerCodes
  <2>3. CodeFits(code)
    BY <2>2 DEF CodeFits
  <2> QED BY <1>1, <2>1, <2>3, GoesOn, SameRecording DEF LeadFits
<1>5. ASSUME NEW code \in {"deadline_exceeded", "quota_exceeded", "service_unavailable"},
             AnalysisFails(code)
      PROVE  AnalysisFits' /\ LeadFits'
  <2>1. analysis.phase \in {"fetch", "speech"} /\ speech.phase # "ended"
    BY <1>5 DEF AnalysisFails, AnalysisFits
  <2>2. analysis' = [phase |-> "answered", code |-> code]
    BY <1>5 DEF AnalysisFails, Answers
  <2>3. CodeFits(code)
    BY <2>1 DEF CodeFits, AnswerCodes, InputFaults
  <2>4. CodeFits(code)'
    BY <1>1, <2>3, SameRecording
  <2>5. AnalysisFits'
    BY <2>2, <2>4 DEF AnalysisFits
  <2>6. LeadFits'
    BY <1>1, <2>1, <2>2 DEF LeadFits
  <2> QED BY <2>5, <2>6
<1> QED BY <1>2, <1>3, <1>4, <1>5

\* The chat that waits for the answer can only be answered.
LEMMA ChatsFit ==
    ASSUME SpeechFits, AnalysisFits, LeadFits, ChatFits, Reply \/ Chats \/ Chat
    PROVE  SpeechFits' /\ AnalysisFits' /\ LeadFits'
<1>1. UNCHANGED <<load, analysis, speech>>
  BY DEF Reply, Chats, Chat
<1>2. SpeechFits' /\ AnalysisFits'
  BY <1>1 DEF SpeechFits, AnalysisFits, CodeFits, BadRecording
<1>3. CASE Reply
  <2>1. /\ analysis.phase = "answered" /\ Say(Lead, Message(analysis.code))
        /\ Lead \in Requests
    BY <1>3, UploadsAssumption DEF Reply, AnalysisAnswers
  <2> DEFINE r == [phase |-> "ended", told |-> Message(analysis.code), client |-> None,
                   token |-> None, op |-> None, try |-> 0]
  <2>2. chat'[Lead] = Updated(chat[Lead], r) /\ DOMAIN chat[Lead] = ChatFields
    BY <2>1 DEF Say, Put, ChatFits, RequestFits
  <2>3. /\ chat'[Lead].phase = "ended" /\ chat'[Lead].told = Message(analysis.code)
        /\ chat'[Lead].bytes = chat[Lead].bytes
    BY <2>2 DEF ChatFields, Updated
  <2> QED BY <1>1, <1>2, <2>1, <2>3 DEF LeadFits
<1>4. CASE Chats
  BY <1>1, <1>2, <1>4 DEF Chats, LeadFits
<1>5. CASE Chat
  <2>1. CASE analysis.phase = "idle"
    BY <1>1, <1>2, <2>1 DEF LeadFits
  <2>2. CASE analysis.phase # "idle"
    <3>1. chat[Lead].phase \in {"analysing", "ended"}
      BY <1>5, <2>2 DEF Chat, LeadFits
    <3>2. ~ChatStep(Lead)
      BY <3>1 DEF ChatStep, ThreadStep, Inlet, PipeText, PipeFile, GetToken, SignedIn, Clear,
                  Submit, Rejected, CallFails, MetadataRead, ContentRead
    <3>3. UNCHANGED chat
      BY <1>5, <3>2 DEF Chat, Configure
    <3> QED BY <1>1, <1>2, <3>3 DEF LeadFits
  <2> QED BY <2>1, <2>2
<1> QED BY <1>3, <1>4, <1>5

\* A chat, the analysis it waits for and the transcription of its recording.
RequestKnown == ChatFits /\ SpeechFits /\ AnalysisFits /\ LeadFits

LEMMA RequestInit == Init => RequestKnown
<1> USE DEF RequestKnown
<1> SUFFICES ASSUME Init PROVE SpeechFits /\ AnalysisFits /\ LeadFits
  BY ChatInit
<1>1. PICK r : speech = [phase |-> "upload", rec |-> r, words |-> <<>>, error |-> "none",
                         tries |-> 0, roles |-> <<>>]
  BY DEF Init, InitSpeech
<1>2. SpeechFits
  BY <1>1 DEF SpeechFits, SpeechFields, SpeechErrors, ServiceCode, InputFaults
<1>3. analysis.phase = "idle" /\ analysis.code = "ok" /\ DOMAIN analysis = {"phase", "code"}
  BY DEF Init, Idle
<1> QED BY <1>1, <1>2, <1>3 DEF AnalysisFits, LeadFits

LEMMA RequestKeeps == RequestKnown /\ [Next]_vars => RequestKnown'
<1> USE DEF RequestKnown
<1> SUFFICES ASSUME RequestKnown, [Next]_vars PROVE RequestKnown'
  OBVIOUS
<1>1. ChatFits'
  <2>1. UNCHANGED chatVars => ChatFits'
    BY DEF ChatFits, chatVars
  <2> QED BY <2>1, ChatMoves, ChatStepKeeps, AnswerKeeps, ChatEnvironmentKeeps, ConfigureKeeps
<1>2. CASE Receive
  BY <1>1, <1>2, ReceiveFits
<1>3. CASE Transcribing
  BY <1>1, <1>3, TranscribingFits
<1>4. CASE \/ Fetching
           \/ \E code \in AgentCodes : Agents(code)
           \/ \E code \in {"deadline_exceeded", "quota_exceeded", "service_unavailable"} :
                 AnalysisFails(code)
  BY <1>1, <1>4, OthersFit
<1>5. CASE Reply \/ Chats \/ Chat
  BY <1>1, <1>5, ChatsFit
<1>6. CASE Names \/ Reports \/ UNCHANGED vars
  <2>1. UNCHANGED <<load, analysis, chat, speech>>
    BY <1>6 DEF Names, Reports, vars, chatVars
  <2> QED BY <1>1, <2>1 DEF SpeechFits, AnalysisFits, LeadFits, CodeFits, BadRecording
<1> QED BY <1>2, <1>3, <1>4, <1>5, <1>6 DEF Next

\* FaultsAreTold (analyze, AnalysisApiClient): nobody is sent away with a good
\* recording or asked to try again with a bad one, and the words in the chat are
\* those of the code the API answered.
THEOREM FaultsKeepTheirName == Spec => []FaultsAreTold
<1>1. RequestKnown => FaultsAreTold
  <2> USE DEF RequestKnown
  <2> SUFFICES ASSUME RequestKnown PROVE FaultsAreTold
    OBVIOUS
  <2>1. analysis.phase = "answered" /\ load # "url" => CodeFits(analysis.code)
    BY DEF AnalysisFits
  <2>2. load = "chat" /\ analysis.phase = "answered" /\ chat[Lead].phase = "ended" =>
           chat[Lead].told = Message(analysis.code) /\ chat[Lead].bytes # None
    BY DEF LeadFits
  <2>3. analysis.code \in AnswerCodes =>
           (Message(analysis.code) \in InputFaults <=> analysis.code \in InputFaults)
    BY WordsOfCodes
  <2> QED BY <2>1, <2>2, <2>3 DEF FaultsAreTold, CodeFits
<1> QED BY <1>1, RequestInit, RequestKeeps, PTL DEF Spec

-----------------------------------------------------------------------------
(* Induction along the numbers, from the least element of a set of them *)

\* A set of numbers has a least element.
LEMMA LeastNat ==
    ASSUME NEW S \in SUBSET Nat, S # {}
    PROVE  \E n \in S : \A m \in S : n <= m
<1> DEFINE R == OpToRel(<, Nat)
<1>1. IsWellFoundedOn(R, Nat)
  BY NatLessThanWellFounded
<1>2. \A x, y \in Nat : x < y => <<x, y>> \in R
  BY DEF OpToRel
<1> HIDE DEF R
<1>3. PICK x \in S : \A y \in S : ~ (<<y, x>> \in R)
  BY <1>1, WFMin
<1>4. \A y \in S : x \in Nat /\ y \in Nat /\ ~ (y < x)
  BY <1>2, <1>3
<1>5. \A y \in S : x <= y
  BY <1>4
<1> QED BY <1>5

LEMMA LeastBy ==
    ASSUME NEW T, T # {}, NEW f, \A t \in T : f[t] \in Nat
    PROVE  \E t \in T : \A u \in T : f[t] <= f[u]
<1> DEFINE S == {f[t] : t \in T}
<1>1. S \in SUBSET Nat /\ S # {}
  OBVIOUS
<1>2. PICK n \in S : \A m \in S : n <= m
  BY <1>1, LeastNat
<1> QED BY <1>2

\* What is true of 0, and of i + 1 if of i, is true up to n.
LEMMA UpTo ==
    ASSUME NEW n \in Nat, NEW S, 0 \in S, \A i \in 1 .. n : i - 1 \in S => i \in S
    PROVE  0 .. n \subseteq S
<1> DEFINE Missing == {i \in 0 .. n : i \notin S}
<1> SUFFICES ASSUME Missing # {} PROVE FALSE
  OBVIOUS
<1>1. Missing \in SUBSET Nat
  OBVIOUS
<1>2. PICK i \in Missing : \A j \in Missing : i <= j
  BY <1>1, LeastNat
<1>3. i # 0 /\ i \in 1 .. n /\ i - 1 \in 0 .. n
  BY <1>2
<1>4. i - 1 \in S
  BY <1>2, <1>3
<1> QED BY <1>3, <1>4

\* Values made one from another.
Steps(n, V) == [(1 .. n) \X V -> V]
MadeBy(f, n, V, a, g) ==
    f \in [0 .. n -> V] /\ f[0] = a /\ \A i \in 1 .. n : f[i] = g[<<i, f[i - 1]>>]

LEMMA Recursion ==
    ASSUME NEW n \in Nat, NEW V, NEW a \in V, NEW g \in Steps(n, V)
    PROVE  \E f : MadeBy(f, n, V, a, g)
<1> USE DEF Steps, MadeBy
<1> DEFINE S == {k \in 0 .. n : \E f : MadeBy(f, k, V, a, g)}
<1>1. 0 \in S
  <2> DEFINE only == [i \in 0 .. 0 |-> a]
  <2>1. MadeBy(only, 0, V, a, g)
    OBVIOUS
  <2>2. \E q : MadeBy(q, 0, V, a, g)
    BY <2>1
  <2>3. 0 \in 0 .. n
    OBVIOUS
  <2> QED BY <2>2, <2>3, Zenon
<1>2. ASSUME NEW k \in 1 .. n, k - 1 \in S PROVE k \in S
  <2>1. PICK f : MadeBy(f, k - 1, V, a, g)
    BY <1>2
  <2> DEFINE h == [i \in 0 .. k |-> IF i = k THEN g[<<k, f[k - 1]>>] ELSE f[i]]
  <2>2. f[k - 1] \in V /\ \A i \in 0 .. k : i # k => f[i] \in V
    BY <2>1
  <2>3. g[<<k, f[k - 1]>>] \in V
    BY <2>2
  <2>4. h \in [0 .. k -> V] /\ h[0] = a
    BY <2>1, <2>2, <2>3
  <2>5. ASSUME NEW i \in 1 .. k PROVE h[i] = g[<<i, h[i - 1]>>]
    <3>1. h[i - 1] = f[i - 1] /\ h[k] = g[<<k, f[k - 1]>>]
      OBVIOUS
    <3>2. i # k => i \in 1 .. k - 1 /\ h[i] = f[i]
      OBVIOUS
    <3> QED BY <2>1, <3>1, <3>2
  <2>6. \E q : MadeBy(q, k, V, a, g)
    BY <2>4, <2>5
  <2> QED BY <2>6
<1> HIDE DEF S
<1>3. n \in S
  BY <1>1, <1>2, UpTo
<1> QED BY <1>3 DEF S

\* Neighbours in order are all in order.
LEMMA Chain ==
    ASSUME NEW n \in Nat, NEW f, \A i \in 1 .. n : f[i] \in Nat,
           \A i \in 2 .. n : f[i - 1] <= f[i]
    PROVE  \A i, j \in 1 .. n : i <= j => f[i] <= f[j]
<1> DEFINE S == {j \in 0 .. n : \A i \in 1 .. j : f[i] <= f[j]}
<1>1. 0 \in S
  OBVIOUS
<1>2. ASSUME NEW j \in 1 .. n, j - 1 \in S PROVE j \in S
  <2>1. ASSUME NEW i \in 1 .. j PROVE f[i] <= f[j]
    <3>1. CASE i = j
      BY <3>1
    <3>2. CASE i # j
      <4>1. i \in 1 .. j - 1 /\ j \in 2 .. n
        BY <3>2
      <4>2. f[i] <= f[j - 1] /\ f[j - 1] <= f[j]
        BY <1>2, <4>1
      <4>3. f[i] \in Nat /\ f[j - 1] \in Nat /\ f[j] \in Nat
        BY <4>1
      <4> QED BY <4>2, <4>3
    <3> QED BY <3>1, <3>2
  <2> QED BY <2>1
<1> HIDE DEF S
<1>3. 0 .. n \subseteq S
  BY <1>1, <1>2, UpTo
<1> QED BY <1>3 DEF S
-----------------------------------------------------------------------------
(* The words: Repaired and FlattenSeq *)

Heard   == [start : Nat, end : Nat]
Repair(word, before) == Max2(word.end, Max2(word.start, before) + 1)

\* The ends of repaired words, each made from the one before.
LEMMA EndsUnfold ==
    ASSUME NEW words \in Seq(Heard)
    PROVE  /\ Ends(words)[0] = 0 /\ \A i \in 0 .. Len(words) : Ends(words)[i] \in Nat
           /\ \A i \in 1 .. Len(words) : Ends(words)[i] = Repair(words[i], Ends(words)[i - 1])
<1> DEFINE n == Len(words)
           g == [p \in (1 .. n) \X Nat |-> Repair(words[p[1]], p[2])]
           E == CHOOSE end : end = [i \in 0 .. n |->
                    IF i = 0 THEN 0
                    ELSE Max2(words[i].end, Max2(words[i].start, end[i - 1]) + 1)]
<1>1. n \in Nat /\ \A i \in 1 .. n : words[i].start \in Nat /\ words[i].end \in Nat
  <2>1. \A i \in 1 .. n : words[i] \in Heard
    OBVIOUS
  <2> QED BY <2>1 DEF Heard
<1> HIDE DEF n
<1>2. \A i \in 1 .. n, b \in Nat : Repair(words[i], b) \in Nat
  BY <1>1 DEF Repair, Max2
<1>3. /\ g \in [(1 .. n) \X Nat -> Nat]
      /\ \A i \in 1 .. n, b \in Nat : g[<<i, b>>] = Repair(words[i], b)
  <2>1. \A p \in (1 .. n) \X Nat : p[1] \in 1 .. n /\ p[2] \in Nat
    OBVIOUS
  <2>2. \A p \in (1 .. n) \X Nat : Repair(words[p[1]], p[2]) \in Nat
    BY <1>2, <2>1
  <2>3. \A i \in 1 .. n, b \in Nat :
           <<i, b>> \in (1 .. n) \X Nat /\ <<i, b>>[1] = i /\ <<i, b>>[2] = b
    OBVIOUS
  <2>4. \A i \in 1 .. n, b \in Nat : g[<<i, b>>] = Repair(words[i], b)
    BY <2>3
  <2> QED BY <2>2, <2>4
<1> HIDE DEF g
<1>4. PICK f \in [0 .. n -> Nat] : f[0] = 0 /\ \A i \in 1 .. n : f[i] = g[<<i, f[i - 1]>>]
  <2>1. n \in Nat /\ 0 \in Nat /\ g \in Steps(n, Nat)
    BY <1>1, <1>3 DEF Steps
  <2>2. \E f : MadeBy(f, n, Nat, 0, g)
    BY ONLY <2>1, Recursion
  <2> QED BY <2>2 DEF MadeBy
<1>5. \A i \in 1 .. n : f[i] = Repair(words[i], f[i - 1])
  <2>1. \A i \in 1 .. n : f[i - 1] \in Nat
    BY <1>1
  <2> QED BY <1>3, <1>4, <2>1
<1>6. f = [i \in 0 .. n |-> IF i = 0 THEN 0
                            ELSE Max2(words[i].end, Max2(words[i].start, f[i - 1]) + 1)]
  BY <1>4, <1>5 DEF Repair
<1>7. Ends(words) = E
  BY DEF Ends, n
<1>8. E = [i \in 0 .. n |-> IF i = 0 THEN 0
                            ELSE Max2(words[i].end, Max2(words[i].start, E[i - 1]) + 1)]
  BY <1>6
<1> HIDE DEF E
<1>9. E[0] = 0 /\ \A i \in 1 .. n : E[i] = Repair(words[i], E[i - 1])
  BY <1>1, <1>8 DEF Repair
<1>10. 0 .. n \subseteq {i \in 0 .. n : E[i] \in Nat}
  <2> DEFINE S == {i \in 0 .. n : E[i] \in Nat}
  <2>1. 0 \in S
    BY <1>1, <1>9
  <2>2. ASSUME NEW i \in 1 .. n, i - 1 \in S PROVE i \in S
    <3>1. Repair(words[i], E[i - 1]) \in Nat
      BY <1>2, <2>2
    <3> QED BY <1>1, <1>9, <3>1
  <2> HIDE DEF S
  <2>3. 0 .. n \subseteq S
    BY <1>1, <2>1, <2>2, UpTo
  <2> QED BY <2>3 DEF S
<1> QED BY <1>7, <1>9, <1>10 DEF n

\* A repaired word starts no earlier than it was heard and ends after it starts; words
\* one after the other stay as they are.
LEMMA RepairedWords ==
    ASSUME NEW words \in Seq(Heard)
    PROVE  /\ Repaired(words) \in Seq(Heard) /\ Len(Repaired(words)) = Len(words)
           /\ \A i \in 1 .. Len(words) : Repaired(words)[i].start >= words[i].start
           /\ (/\ \A i \in 1 .. Len(words) : words[i].start < words[i].end
               /\ \A i \in 2 .. Len(words) : words[i - 1].end <= words[i].start)
                 => Repaired(words) = words
<1> DEFINE n == Len(words)
           end(i) == Ends(words)[i]
<1>1. n \in Nat /\ DOMAIN words = 1 .. n
      /\ \A i \in 1 .. n : words[i].start \in Nat /\ words[i].end \in Nat /\ words[i] \in Heard
  <2>1. \A i \in 1 .. n : words[i] \in Heard
    OBVIOUS
  <2> QED BY <2>1 DEF Heard
<1>2. end(0) = 0 /\ (\A i \in 0 .. n : end(i) \in Nat)
      /\ \A i \in 1 .. n : end(i) = Repair(words[i], end(i - 1))
  BY EndsUnfold
<1> HIDE DEF end
<1>3. Repaired(words) =
         [i \in 1 .. n |-> [start |-> Max2(words[i].start, end(i - 1)), end |-> end(i)]]
  BY <1>1 DEF Repaired, end
<1>4. ASSUME NEW i \in 1 .. n
      PROVE  [start |-> Max2(words[i].start, end(i - 1)), end |-> end(i)] \in Heard
  <2>1. end(i) \in Nat /\ end(i - 1) \in Nat
    BY <1>1, <1>2
  <2>2. Max2(words[i].start, end(i - 1)) \in Nat
    BY <1>1, <2>1 DEF Max2
  <2> QED BY <2>1, <2>2 DEF Heard
<1>5. Repaired(words) \in Seq(Heard) /\ Len(Repaired(words)) = n
  BY <1>1, <1>3, <1>4
<1>6. ASSUME NEW i \in 1 .. n PROVE Repaired(words)[i].start >= words[i].start
  <2>1. end(i - 1) \in Nat /\ words[i].start \in Nat
    BY <1>1, <1>2
  <2> QED BY <1>3, <2>1 DEF Max2
<1>7. ASSUME \A i \in 1 .. n : words[i].start < words[i].end,
             \A i \in 2 .. n : words[i - 1].end <= words[i].start
      PROVE  Repaired(words) = words
  <2> DEFINE Prior(i) == IF i = 0 THEN 0 ELSE words[i].end
             S == {i \in 0 .. n : end(i) = Prior(i)}
  <2>1. 0 \in S
    BY <1>1, <1>2
  <2>2. ASSUME NEW i \in 1 .. n PROVE Prior(i - 1) <= words[i].start
    <3>1. CASE i = 1
      BY <1>1, <3>1
    <3>2. CASE i # 1
      BY <1>1, <1>7, <3>2
    <3> QED BY <3>1, <3>2
  <2>3. ASSUME NEW i \in 1 .. n, i - 1 \in S PROVE i \in S
    <3>1. end(i) = Repair(words[i], Prior(i - 1))
      BY <1>2, <2>3
    <3>2. words[i].start < words[i].end /\ Prior(i - 1) <= words[i].start
      BY <1>7, <2>2
    <3>3. Prior(i - 1) \in Nat
      BY <1>1
    <3>4. Repair(words[i], Prior(i - 1)) = words[i].end
      <4> HIDE DEF Prior
      <4> QED BY <1>1, <3>2, <3>3 DEF Repair, Max2
    <3> QED BY <3>1, <3>4
  <2>4. 0 .. n \subseteq S
    <3> HIDE DEF S
    <3> QED BY <1>1, <2>1, <2>3, UpTo
  <2>5. ASSUME NEW i \in 1 .. n
        PROVE  words[i] = [start |-> Max2(words[i].start, end(i - 1)), end |-> end(i)]
    <3>1. end(i - 1) = Prior(i - 1) /\ end(i) = words[i].end
      BY <1>1, <2>4
    <3>2. Prior(i - 1) \in Nat /\ Prior(i - 1) <= words[i].start
      BY <1>1, <2>2
    <3>3. Max2(words[i].start, end(i - 1)) = words[i].start
      <4> HIDE DEF Prior
      <4> QED BY <1>1, <3>1, <3>2 DEF Max2
    <3>4. words[i] = [start |-> words[i].start, end |-> words[i].end]
      BY <1>1 DEF Heard
    <3> QED BY <3>1, <3>3, <3>4
  <2>6. words = [i \in 1 .. n |-> words[i]]
    BY <1>1
  <2> QED BY <1>3, <2>5, <2>6
<1> QED BY <1>5, <1>6, <1>7
\* The sequences joined so far.
JoinedBy(F, S, E) ==
    /\ F \in [0 .. Len(S) -> Seq(E)] /\ F[0] = <<>>
    /\ \A i \in 1 .. Len(S) : F[i] = F[i - 1] \o S[i]
    /\ FlattenSeq(S) = F[Len(S)]

LEMMA FlattenUnfold ==
    ASSUME NEW E, NEW S \in Seq(Seq(E))
    PROVE  \E F : JoinedBy(F, S, E)
<1> DEFINE n == Len(S)
           g == [p \in (1 .. n) \X Seq(E) |-> p[2] \o S[p[1]]]
           C == CHOOSE flatten : flatten = [i \in 1 .. n |->
                    IF i = 1 THEN S[i] ELSE flatten[i - 1] \o S[i]]
<1>1. n \in Nat /\ <<>> \in Seq(E) /\ \A i \in 1 .. n : S[i] \in Seq(E)
  OBVIOUS
<1> HIDE DEF n
<1>2. g \in Steps(n, Seq(E)) /\ \A i \in 1 .. n, s \in Seq(E) : g[<<i, s>>] = s \o S[i]
  <2>1. \A p \in (1 .. n) \X Seq(E) : p[1] \in 1 .. n /\ p[2] \in Seq(E)
    OBVIOUS
  <2>2. \A p \in (1 .. n) \X Seq(E) : p[2] \o S[p[1]] \in Seq(E)
    BY <1>1, <2>1
  <2>3. \A i \in 1 .. n, s \in Seq(E) :
           <<i, s>> \in (1 .. n) \X Seq(E) /\ <<i, s>>[1] = i /\ <<i, s>>[2] = s
    OBVIOUS
  <2>4. \A i \in 1 .. n, s \in Seq(E) : g[<<i, s>>] = s \o S[i]
    BY <2>3
  <2> QED BY <2>2, <2>4 DEF Steps
<1> HIDE DEF g
<1>3. \E f : MadeBy(f, n, Seq(E), <<>>, g)
  <2>1. PICK V, a : V = Seq(E) /\ a = <<>>
    OBVIOUS
  <2>2. n \in Nat /\ a \in V /\ g \in Steps(n, V)
    BY <1>1, <1>2, <2>1
  <2>3. \E f : MadeBy(f, n, V, a, g)
    BY ONLY <2>2, Recursion
  <2> QED BY <2>1, <2>3
<1>4. PICK F : F \in [0 .. n -> Seq(E)] /\ F[0] = <<>> /\ \A i \in 1 .. n : F[i] = F[i - 1] \o S[i]
  <2>1. PICK f : MadeBy(f, n, Seq(E), <<>>, g)
    BY <1>3
  <2>2. \A i \in 1 .. n : f[i - 1] \in Seq(E)
    BY <1>1, <2>1 DEF MadeBy
  <2> QED BY <1>2, <2>1, <2>2 DEF MadeBy
<1>5. CASE n = 0
  <2>1. FlattenSeq(S) = S /\ S = <<>>
    BY <1>5 DEF FlattenSeq, n
  <2> QED BY <1>4, <1>5, <2>1 DEF JoinedBy, n
<1>6. CASE n # 0
  <2> DEFINE f == [i \in 1 .. n |-> F[i]]
  <2>1. F[1] = S[1]
    <3>1. 1 \in 1 .. n /\ F[1] = F[0] \o S[1] /\ S[1] \in Seq(E)
      <4>1. 1 \in 1 .. n /\ 1 - 1 = 0
        BY <1>1, <1>6
      <4>2. F[1] = F[1 - 1] \o S[1]
        BY <1>4, <4>1
      <4> QED BY <1>1, <4>1, <4>2
    <3>2. \A s \in Seq(E) : <<>> \o s = s
      BY ConcatEmptySeq
    <3> QED BY <1>4, <3>1, <3>2
  <2>2. f = [i \in 1 .. n |-> IF i = 1 THEN S[i] ELSE f[i - 1] \o S[i]]
    <3>1. ASSUME NEW i \in 1 .. n
          PROVE  F[i] = IF i = 1 THEN S[i] ELSE f[i - 1] \o S[i]
      <4>1. i # 1 => f[i - 1] = F[i - 1]
        BY <1>1
      <4> HIDE DEF f
      <4> QED BY <1>4, <2>1, <4>1
    <3> QED BY <3>1
  <2> HIDE DEF f
  <2>3. C = [i \in 1 .. n |-> IF i = 1 THEN S[i] ELSE C[i - 1] \o S[i]]
    BY <2>2
  <2>4. FlattenSeq(S) = C[n]
    BY <1>6 DEF FlattenSeq, n
  <2> HIDE DEF C
  <2>5. ASSUME NEW i \in 1 .. n PROVE C[i] = F[i]
    <3> DEFINE Same == {j \in 0 .. n : j = 0 \/ C[j] = F[j]}
    <3>1. 0 \in Same
      BY <1>1
    <3>2. ASSUME NEW j \in 1 .. n, j - 1 \in Same PROVE j \in Same
      <4>1. C[j] = IF j = 1 THEN S[j] ELSE C[j - 1] \o S[j]
        BY <2>3
      <4>2. j # 1 => C[j - 1] = F[j - 1]
        BY <3>2
      <4>3. C[j] = F[j]
        BY <1>4, <2>1, <4>1, <4>2
      <4> QED BY <4>3
    <3> HIDE DEF Same
    <3>3. 0 .. n \subseteq Same
      BY <1>1, <3>1, <3>2, UpTo
    <3> QED BY <1>1, <3>3 DEF Same
  <2>6. n \in 1 .. n
    BY <1>1, <1>6
  <2>7. FlattenSeq(S) = F[n]
    BY <2>4, <2>5, <2>6
  <2> QED BY <1>4, <2>7 DEF JoinedBy, n
<1> QED BY <1>5, <1>6
\* b is a and then s.
Appended(a, s, b) ==
    /\ Len(a) \in Nat /\ Len(s) \in Nat /\ Len(b) = Len(a) + Len(s)
    /\ \A k \in 1 .. Len(a) : b[k] = a[k]
    /\ \A k \in 1 .. Len(s) : b[Len(a) + k] = s[k]
Alike(a, b, R) == Len(a) = Len(b) /\ \A k \in 1 .. Len(a) : <<a[k], b[k]>> \in R
Begins(a, b) == Len(a) \in Nat /\ Len(a) <= Len(b) /\ \A k \in 1 .. Len(a) : b[k] = a[k]

LEMMA JoinOne ==
    ASSUME NEW E, NEW S \in Seq(Seq(E)), NEW F, JoinedBy(F, S, E), NEW i \in 1 .. Len(S)
    PROVE  Appended(F[i - 1], S[i], F[i])
<1>1. i - 1 \in 0 .. Len(S) /\ i \in 0 .. Len(S) /\ S[i] \in Seq(E)
  OBVIOUS
<1>2. F[i - 1] \in Seq(E) /\ F[i] \in Seq(E) /\ F[i] = F[i - 1] \o S[i]
  BY <1>1 DEF JoinedBy
<1>3. PICK s, t : s = F[i - 1] /\ t = S[i]
  OBVIOUS
<1>4. s \in Seq(E) /\ t \in Seq(E)
  BY <1>1, <1>2, <1>3
<1>5. Appended(s, t, s \o t)
  BY ONLY <1>4 DEF Appended
<1> QED BY <1>2, <1>3, <1>5

LEMMA AppendAlike ==
    ASSUME NEW a, NEW s, NEW b, Appended(a, s, b), NEW c, NEW t, NEW d, Appended(c, t, d),
           NEW R, Alike(a, c, R), Alike(s, t, R)
    PROVE  Alike(b, d, R)
<1>1. PICK l, m : l = Len(a) /\ m = Len(s)
  OBVIOUS
<1>2. l \in Nat /\ m \in Nat /\ Len(b) = l + m /\ Len(d) = l + m /\ Len(c) = l /\ Len(t) = m
  BY <1>1 DEF Appended, Alike
<1>3. ASSUME NEW k \in 1 .. l + m PROVE <<b[k], d[k]>> \in R
  <2>1. CASE k <= l
    <3>1. k \in 1 .. l
      BY <1>2, <2>1
    <3> QED BY <1>1, <1>2, <3>1 DEF Appended, Alike
  <2>2. CASE ~ (k <= l)
    <3>1. PICK j \in 1 .. m : k = l + j
      <4>1. k - l \in 1 .. m /\ k = l + (k - l)
        BY <1>2, <2>2
      <4> QED BY <4>1
    <3>2. b[l + j] = s[j] /\ d[l + j] = t[j] /\ <<s[j], t[j]>> \in R
      BY <1>1, <1>2 DEF Appended, Alike
    <3> QED BY <3>1, <3>2
  <2> QED BY <2>1, <2>2
<1> QED BY <1>2, <1>3 DEF Alike

LEMMA AppendBegins ==
    ASSUME NEW p, NEW a, NEW s, NEW b, Begins(p, a), Appended(a, s, b)
    PROVE  Begins(p, b)
<1>1. PICK l, m, n : l = Len(p) /\ m = Len(a) /\ n = Len(s)
  OBVIOUS
<1>2. l \in Nat /\ m \in Nat /\ n \in Nat /\ l <= m /\ Len(b) = m + n
  BY <1>1 DEF Begins, Appended
<1>3. l <= m + n /\ \A k \in 1 .. l : k \in 1 .. m
  BY <1>2
<1> QED BY <1>1, <1>2, <1>3 DEF Begins, Appended

\* Sequences alike in their parts are joined to sequences alike.
LEMMA JoinedAlike ==
    ASSUME NEW E, NEW S \in Seq(Seq(E)), NEW T \in Seq(Seq(E)), Len(S) = Len(T), NEW R,
           \A i \in 1 .. Len(S) : Alike(S[i], T[i], R)
    PROVE  /\ FlattenSeq(S) \in Seq(E) /\ FlattenSeq(T) \in Seq(E)
           /\ Alike(FlattenSeq(S), FlattenSeq(T), R)
<1>1. PICK F : JoinedBy(F, S, E)
  BY FlattenUnfold
<1>2. PICK G : JoinedBy(G, T, E)
  BY FlattenUnfold
<1> DEFINE n == Len(S)
           P == {i \in 0 .. n : Alike(F[i], G[i], R)}
<1>3. n \in Nat
  OBVIOUS
<1>4. 0 \in P
  BY <1>1, <1>2, <1>3 DEF JoinedBy, Alike
<1>5. ASSUME NEW i \in 1 .. n, i - 1 \in P PROVE i \in P
  <2>1. Appended(F[i - 1], S[i], F[i]) /\ Appended(G[i - 1], T[i], G[i])
    BY <1>1, <1>2, JoinOne
  <2>2. Alike(F[i - 1], G[i - 1], R) /\ Alike(S[i], T[i], R)
    BY <1>5
  <2> QED BY <2>1, <2>2, AppendAlike
<1> HIDE DEF P
<1>6. 0 .. n \subseteq P
  BY <1>3, <1>4, <1>5, UpTo
<1>7. n \in 0 .. n
  BY <1>3
<1>8. F[n] \in Seq(E) /\ G[n] \in Seq(E) /\ FlattenSeq(S) = F[n] /\ FlattenSeq(T) = G[n]
  BY <1>1, <1>2, <1>7 DEF JoinedBy
<1> QED BY <1>6, <1>7, <1>8 DEF P

\* What is joined up to a sequence is a beginning of the whole.
LEMMA Begun ==
    ASSUME NEW E, NEW S \in Seq(Seq(E)), NEW F, JoinedBy(F, S, E), NEW i \in 1 .. Len(S)
    PROVE  Begins(F[i], FlattenSeq(S))
<1> DEFINE n == Len(S)
           P == {j \in 0 .. n : j < i \/ Begins(F[i], F[j])}
<1>1. n \in Nat /\ i \in 1 .. n
  OBVIOUS
<1>2. 0 \in P
  BY <1>1
<1>3. ASSUME NEW j \in 1 .. n, j - 1 \in P PROVE j \in P
  <2>1. CASE j < i
    BY <1>1, <2>1
  <2>2. CASE j = i
    <3>1. F[i] \in Seq(E)
      <4>1. i \in 0 .. n
        BY <1>1
      <4> QED BY <4>1 DEF JoinedBy
    <3>2. PICK f : f = F[i]
      OBVIOUS
    <3>3. Begins(f, f)
      BY <3>1, <3>2 DEF Begins
    <3> QED BY <1>1, <2>2, <3>2, <3>3
  <2>3. CASE j > i
    <3>1. Begins(F[i], F[j - 1])
      BY <1>1, <1>3, <2>3
    <3>2. Appended(F[j - 1], S[j], F[j])
      BY JoinOne
    <3>3. Begins(F[i], F[j])
      BY <3>1, <3>2, AppendBegins
    <3> QED BY <1>1, <3>3
  <2> QED BY <1>1, <2>1, <2>2, <2>3
<1> HIDE DEF P
<1>4. 0 .. n \subseteq P
  BY <1>1, <1>2, <1>3, UpTo
<1>5. n \in 0 .. n /\ ~ (n < i)
  BY <1>1
<1>6. Begins(F[i], F[n])
  BY <1>4, <1>5 DEF P
<1> QED BY <1>6 DEF JoinedBy

\* Every sequence is a slice of the joined ones, and after it comes the next.
LEMMA Slices ==
    ASSUME NEW E, NEW S \in Seq(Seq(E)), NEW i \in 1 .. Len(S)
    PROVE  \E a, b : Appended(a, S[i], b) /\ Begins(b, FlattenSeq(S))
<1>1. PICK F : JoinedBy(F, S, E)
  BY FlattenUnfold
<1> QED BY <1>1, JoinOne, Begun

LEMMA SlicesFollow ==
    ASSUME NEW E, NEW S \in Seq(Seq(E)), NEW i \in 2 .. Len(S)
    PROVE  \E a, b, d : /\ Appended(a, S[i - 1], b) /\ Appended(b, S[i], d)
                        /\ Begins(d, FlattenSeq(S))
<1>1. PICK F : JoinedBy(F, S, E)
  BY FlattenUnfold
<1>2. i \in 1 .. Len(S) /\ i - 1 \in 1 .. Len(S)
  OBVIOUS
<1>3. Appended(F[(i - 1) - 1], S[i - 1], F[i - 1]) /\ Appended(F[i - 1], S[i], F[i])
  BY <1>1, <1>2, JoinOne
<1>4. Begins(F[i], FlattenSeq(S))
  BY <1>1, <1>2, Begun
<1> QED BY <1>3, <1>4

-----------------------------------------------------------------------------
(* The speakers and their lines *)

Turns == [speaker : Nat, start : Nat, end : Nat]
IsKey(k, b) == /\ DOMAIN k = 1 .. 4 /\ k[1] \in Int /\ k[1] + b \in Nat
               /\ k[2] \in Nat /\ k[3] \in Nat /\ k[4] \in Nat

\* There is a first by every key, and nobody's is smaller in its first place.
LEMMA FirstLeads ==
    ASSUME NEW turns, turns # {}, NEW key, NEW b \in Nat, \A t \in turns : IsKey(key[t], b)
    PROVE  /\ First(turns, key) \in turns
           /\ \A u \in turns : key[First(turns, key)][1] <= key[u][1]
<1> USE DEF IsKey
<1>1. PICK t1 \in turns : \A u \in turns : key[t1][1] <= key[u][1]
  <2> DEFINE f == [t \in turns |-> key[t][1] + b]
  <2>1. PICK t \in turns : \A u \in turns : f[t] <= f[u]
    <3>1. \A t \in turns : f[t] \in Nat
      OBVIOUS
    <3> HIDE DEF f
    <3> QED BY <3>1, LeastBy
  <2>2. \A u \in turns : key[t][1] + b <= key[u][1] + b
    BY <2>1
  <2>3. \A u \in turns : key[t][1] <= key[u][1]
    BY <2>2
  <2> QED BY <2>3
<1> DEFINE T2 == {t \in turns : key[t][1] = key[t1][1]}
<1>2. PICK t2 \in T2 : \A u \in T2 : key[t2][2] <= key[u][2]
  <2> DEFINE f == [t \in T2 |-> key[t][2]]
  <2>1. T2 # {} /\ \A t \in T2 : f[t] \in Nat
    OBVIOUS
  <2>2. PICK t \in T2 : \A u \in T2 : f[t] <= f[u]
    <3> HIDE DEF f, T2
    <3> QED BY <2>1, LeastBy
  <2> QED BY <2>2
<1> DEFINE T3 == {t \in T2 : key[t][2] = key[t2][2]}
<1>3. PICK t3 \in T3 : \A u \in T3 : key[t3][3] <= key[u][3]
  <2> DEFINE f == [t \in T3 |-> key[t][3]]
  <2>1. T3 # {} /\ \A t \in T3 : f[t] \in Nat
    OBVIOUS
  <2>2. PICK t \in T3 : \A u \in T3 : f[t] <= f[u]
    <3> HIDE DEF f, T3
    <3> QED BY <2>1, LeastBy
  <2> QED BY <2>2
<1> DEFINE T4 == {t \in T3 : key[t][3] = key[t3][3]}
<1>4. PICK t4 \in T4 : \A u \in T4 : key[t4][4] <= key[u][4]
  <2> DEFINE f == [t \in T4 |-> key[t][4]]
  <2>1. T4 # {} /\ \A t \in T4 : f[t] \in Nat
    OBVIOUS
  <2>2. PICK t \in T4 : \A u \in T4 : f[t] <= f[u]
    <3> HIDE DEF f, T4
    <3> QED BY <2>1, LeastBy
  <2> QED BY <2>2
<1>5. t4 \in turns /\ key[t4][1] = key[t1][1] /\ key[t4][2] = key[t2][2] /\ key[t4][3] = key[t3][3]
  OBVIOUS
<1>6. ASSUME NEW u \in turns, Before(key[u], key[t4]) PROVE FALSE
  <2>1. PICK k \in 1 .. 4 : key[u][k] < key[t4][k]
                            /\ \A j \in 1 .. k - 1 : key[u][j] = key[t4][j]
    BY <1>6 DEF Before
  <2>2. IsKey(key[u], b) /\ IsKey(key[t4], b) /\ IsKey(key[t1], b)
    BY <1>5
  <2>3. CASE k = 1
    BY <1>1, <1>5, <2>1, <2>2, <2>3
  <2>4. CASE k = 2
    <3>1. key[u][1] = key[t4][1]
      BY <2>1, <2>4
    <3>2. u \in T2
      BY <1>5, <3>1
    <3> QED BY <1>2, <1>5, <2>1, <2>2, <2>4, <3>2
  <2>5. CASE k = 3
    <3>1. key[u][1] = key[t4][1] /\ key[u][2] = key[t4][2]
      BY <2>1, <2>5
    <3>2. u \in T3
      BY <1>5, <3>1
    <3> QED BY <1>3, <1>5, <2>1, <2>2, <2>5, <3>2
  <2>6. CASE k = 4
    <3>1. key[u][1] = key[t4][1] /\ key[u][2] = key[t4][2] /\ key[u][3] = key[t4][3]
      BY <2>1, <2>6
    <3>2. u \in T4
      BY <1>5, <3>1
    <3> QED BY <1>4, <2>1, <2>2, <2>6, <3>2
  <2> QED BY <2>3, <2>4, <2>5, <2>6
<1>7. \E t \in turns : \A u \in turns : ~Before(key[u], key[t])
  BY <1>5, <1>6
<1>8. PICK t : t = First(turns, key)
  OBVIOUS
<1>9. t \in turns /\ \A u \in turns : ~Before(key[u], key[t])
  BY <1>7, <1>8 DEF First
<1>10. ASSUME NEW u \in turns PROVE key[t][1] <= key[u][1]
  <2>1. IsKey(key[u], b) /\ IsKey(key[t], b)
    BY <1>9
  <2>2. SUFFICES ASSUME key[u][1] < key[t][1] PROVE FALSE
    BY <2>1
  <2>3. 1 \in DOMAIN key[u] /\ \A j \in 1 .. 1 - 1 : key[u][j] = key[t][j]
    BY <2>1
  <2>4. Before(key[u], key[t])
    BY <2>2, <2>3 DEF Before
  <2> QED BY <1>9, <2>4
<1> QED BY <1>8, <1>9, <1>10

\* Nobody overlaps a word more than a turn of the speaker it is given to, or is nearer.
LEMMA MostHeard ==
    ASSUME NEW word \in Heard, NEW turns, turns \subseteq Turns, turns # {}
    PROVE  \E t \in turns :
              /\ t.speaker = SpeakerOf(word, turns)
              /\ \A u \in turns : Overlap(word, u) <= Overlap(word, t)
              /\ Overlap(word, t) = 0 => \A u \in turns : Gap(word, t) <= Gap(word, u)
<1>1. ASSUME NEW t \in turns
      PROVE  /\ t.start \in Nat /\ t.end \in Nat /\ t.speaker \in Nat
             /\ Overlap(word, t) \in Nat /\ Overlap(word, t) <= word.end /\ Gap(word, t) \in Nat
  <2>1. t.start \in Nat /\ t.end \in Nat /\ t.speaker \in Nat
    BY DEF Turns
  <2>2. word.start \in Nat /\ word.end \in Nat
    BY DEF Heard
  <2> QED BY <2>1, <2>2 DEF Overlap, Gap, Max2, Min2
<1>2. word.end \in Nat
  BY DEF Heard
<1> DEFINE most == [t \in turns |-> <<-Overlap(word, t), t.start, t.end, t.speaker>>]
           next == [t \in turns |-> <<Gap(word, t), t.start, t.end, t.speaker>>]
           best == First(turns, most)
           near == First(turns, next)
<1>3. SpeakerOf(word, turns) = IF Overlap(word, best) > 0 THEN best.speaker ELSE near.speaker
  BY DEF SpeakerOf
<1>4. \A t \in turns : IsKey(most[t], word.end)
  <2>1. \A x, y, z, v : /\ DOMAIN <<x, y, z, v>> = 1 .. 4 /\ <<x, y, z, v>>[1] = x
                        /\ <<x, y, z, v>>[2] = y /\ <<x, y, z, v>>[3] = z /\ <<x, y, z, v>>[4] = v
    OBVIOUS
  <2>2. \A t \in turns : -Overlap(word, t) \in Int /\ -Overlap(word, t) + word.end \in Nat
    BY <1>1, <1>2
  <2> QED BY <1>1, <2>1, <2>2 DEF IsKey
<1>5. \A t \in turns : IsKey(next[t], 0)
  <2>1. \A x, y, z, v : /\ DOMAIN <<x, y, z, v>> = 1 .. 4 /\ <<x, y, z, v>>[1] = x
                        /\ <<x, y, z, v>>[2] = y /\ <<x, y, z, v>>[3] = z /\ <<x, y, z, v>>[4] = v
    OBVIOUS
  <2>2. \A t \in turns : Gap(word, t) \in Int /\ Gap(word, t) + 0 \in Nat
    BY <1>1
  <2> QED BY <1>1, <2>1, <2>2 DEF IsKey
<1>6. \A t \in turns : most[t][1] = -Overlap(word, t) /\ next[t][1] = Gap(word, t)
  OBVIOUS
<1> HIDE DEF most, next
<1>7. best \in turns /\ \A u \in turns : most[best][1] <= most[u][1]
  BY <1>2, <1>4, FirstLeads
<1>8. near \in turns /\ \A u \in turns : next[near][1] <= next[u][1]
  BY <1>5, FirstLeads
<1>9. \A u \in turns : Overlap(word, u) <= Overlap(word, best)
  BY <1>1, <1>6, <1>7
<1>10. CASE Overlap(word, best) > 0
  BY <1>3, <1>7, <1>9, <1>10
<1>11. CASE ~ (Overlap(word, best) > 0)
  <2>1. \A u \in turns : Overlap(word, u) = 0
    BY <1>1, <1>7, <1>9, <1>11
  <2>2. \A u \in turns : Overlap(word, u) <= Overlap(word, near)
    BY <1>8, <2>1
  <2>3. \A u \in turns : Gap(word, near) <= Gap(word, u)
    BY <1>6, <1>8
  <2> QED BY <1>3, <1>8, <1>11, <2>2, <2>3
<1> QED BY <1>10, <1>11

\* A line runs to the last word before the next one.
LEMMA LineEnds ==
    ASSUME Words \in Seq(Heard), NEW i \in Heads
    PROVE  /\ LastOf(i) \in i .. Len(Words) /\ \A k \in i + 1 .. LastOf(i) : k \notin Heads
           /\ LastOf(i) = Len(Words) \/ LastOf(i) + 1 \in Heads
<1> DEFINE n == Len(Words)
           S == {j \in i .. n : j = n \/ j + 1 \in Heads}
<1>1. n \in Nat /\ i \in 1 .. n
  BY DEF Heads
<1>2. S \in SUBSET Nat /\ n \in S
  BY <1>1
<1>3. PICK j \in S : \A k \in S : j <= k
  <2> HIDE DEF S
  <2> QED BY <1>2, LeastNat
<1>4. ASSUME NEW k \in i + 1 .. j, k \in Heads PROVE FALSE
  <2>1. k - 1 \in i .. n /\ (k - 1) + 1 = k /\ ~ (j <= k - 1)
    BY <1>1, <1>3
  <2> QED BY <1>3, <1>4, <2>1
<1>5. \E last \in i .. n : /\ \A k \in i + 1 .. last : k \notin Heads
                           /\ last = n \/ last + 1 \in Heads
  BY <1>3, <1>4
<1> QED BY <1>5 DEF LastOf

\* Every word is in a line, and the lines follow each other.
LEMMA LinesFollow ==
    ASSUME Words \in Seq(Heard)
    PROVE  /\ \A k \in 1 .. Len(Words) : \E h \in Heads : k \in Line(h)
           /\ \A i, j \in Heads : i < j => LastOf(i) < j
           /\ \A i \in Heads : Line(i) \subseteq 1 .. Len(Words)
<1> DEFINE n == Len(Words)
<1>1. n \in Nat /\ Heads \subseteq 1 .. n /\ (n > 0 => 1 \in Heads)
  BY DEF Heads
<1>2. ASSUME NEW k \in 1 .. n PROVE \E h \in Heads : k \in Line(h)
  <2> DEFINE T == {h \in Heads : h <= k}
             f == [h \in T |-> k - h]
  <2>1. T # {} /\ \A h \in T : f[h] \in Nat
    BY <1>1
  <2>2. PICK h \in T : \A u \in T : f[h] <= f[u]
    <3> HIDE DEF T, f
    <3> QED BY <2>1, LeastBy
  <2>3. \A u \in T : u <= h
    BY <1>1, <2>2
  <2>4. LastOf(h) \in h .. n /\ (LastOf(h) = n \/ LastOf(h) + 1 \in Heads)
    BY LineEnds
  <2>5. k <= LastOf(h)
    BY <1>1, <2>3, <2>4
  <2>6. k \in Line(h)
    BY <1>1, <2>4, <2>5 DEF Line
  <2> QED BY <2>6
<1>3. ASSUME NEW i \in Heads, NEW j \in Heads, i < j PROVE LastOf(i) < j
  <2>1. LastOf(i) \in i .. n /\ \A k \in i + 1 .. LastOf(i) : k \notin Heads
    BY LineEnds
  <2>2. ~ (j \in i + 1 .. LastOf(i))
    BY <2>1
  <2> QED BY <1>1, <1>3, <2>1, <2>2
<1>4. ASSUME NEW i \in Heads PROVE Line(i) \subseteq 1 .. n
  <2>1. LastOf(i) \in i .. n
    BY LineEnds
  <2> QED BY <1>1, <2>1 DEF Line
<1> QED BY <1>2, <1>3, <1>4

-----------------------------------------------------------------------------
(* The transcript *)

RawSegments == [i \in DOMAIN speech.rec.segments |-> speech.rec.segments[i].words]
WordsFit ==
    LET segments == speech.rec.segments IN
    Words = FlattenSeq([i \in DOMAIN segments |-> Repaired(segments[i].words)])
StartsFit ==
    /\ \A i \in Heads : LineOrdered(i)
    /\ \A i, j \in Heads : i < j => Words[i].start <= Words[j].start
EndsFit ==
    /\ \A i, j \in Heads : i < j => Words[LastOf(i)].end <= Words[LastOf(j)].end
    /\ \A i \in Heads : Words[LastOf(i)].end <= speech.rec.file.duration

Transcribed == speech.phase = "ended" /\ speech.error = "none"

\* What is known of a transcript, by how far it got.
TextFits ==
    /\ speech.rec \in Recordings
    /\ speech.phase \in {"speakers", "roles"} \/ Transcribed => WordsFit
    /\ speech.phase = "roles" \/ Transcribed => StartsFit
    /\ Transcribed => EndsFit /\ RolesFounded
    /\ speech.phase = "ended" /\ Sound => OnlyRolesFail

LEMMA SegmentsTyped ==
    ASSUME speech.rec \in Recordings
    PROVE  /\ RawSegments \in Seq(Seq(Heard)) /\ Len(RawSegments) = Len(speech.rec.segments)
           /\ DOMAIN speech.rec.segments = 1 .. Len(speech.rec.segments)
           /\ Len(speech.rec.segments) \in Nat
           /\ \A i \in 1 .. Len(speech.rec.segments) :
                 RawSegments[i] = speech.rec.segments[i].words
                 /\ speech.rec.segments[i].words \in Seq(Heard)
           /\ speech.rec.turns \subseteq Turns
<1> DEFINE segments == speech.rec.segments
<1>1. segments \in Seq([start : Nat, words : Seq(Heard)]) /\ speech.rec.turns \subseteq Turns
  BY RecordingsAssumption DEF Heard, Turns
<1> HIDE DEF segments
<1>2. DOMAIN segments = 1 .. Len(segments) /\ Len(segments) \in Nat
  BY <1>1
<1>3. \A i \in 1 .. Len(segments) : segments[i] \in [start : Nat, words : Seq(Heard)]
  <2>1. PICK E : E = [start : Nat, words : Seq(Heard)]
    OBVIOUS
  <2>2. segments \in Seq(E)
    BY <1>1, <2>1
  <2>3. \A i \in 1 .. Len(segments) : segments[i] \in E
    BY <2>2
  <2> QED BY <2>1, <2>3
<1>4. \A i \in 1 .. Len(segments) : segments[i].words \in Seq(Heard)
  BY <1>3
<1>5. RawSegments = [i \in 1 .. Len(segments) |-> segments[i].words]
  BY <1>2 DEF RawSegments, segments
<1>6. RawSegments \in Seq(Seq(Heard)) /\ Len(RawSegments) = Len(segments)
  BY <1>2, <1>4, <1>5
<1> QED BY <1>1, <1>2, <1>4, <1>5, <1>6 DEF segments

\* A segment of well-timed words is well-timed.
LEMMA SliceTimed ==
    ASSUME NEW s, NEW c \in Seq(Heard), NEW a, NEW b, Appended(a, s, b), Begins(b, c),
           \A i \in 1 .. Len(c) : c[i].start < c[i].end,
           \A i \in 2 .. Len(c) : c[i - 1].end <= c[i].start
    PROVE  /\ \A i \in 1 .. Len(s) : s[i].start < s[i].end
           /\ \A i \in 2 .. Len(s) : s[i - 1].end <= s[i].start
<1>1. PICK l, m, n : l = Len(a) /\ m = Len(s) /\ n = Len(c)
  OBVIOUS
<1>2. l \in Nat /\ m \in Nat /\ n \in Nat /\ Len(b) = l + m /\ l + m <= n
  BY <1>1 DEF Appended, Begins
<1>3. ASSUME NEW k \in 1 .. m PROVE s[k] = c[l + k]
  <2>1. b[l + k] = s[k]
    BY <1>1 DEF Appended
  <2>2. l + k \in 1 .. Len(b)
    BY <1>2
  <2> QED BY <2>1, <2>2 DEF Begins
<1>4. ASSUME NEW k \in 1 .. m PROVE s[k].start < s[k].end
  <2>1. l + k \in 1 .. n
    BY <1>2
  <2> QED BY <1>1, <1>3, <2>1
<1>5. ASSUME NEW k \in 2 .. m PROVE s[k - 1].end <= s[k].start
  <2>1. l + k \in 2 .. n /\ k - 1 \in 1 .. m /\ k \in 1 .. m /\ l + (k - 1) = (l + k) - 1
    BY <1>2
  <2>2. c[(l + k) - 1].end <= c[l + k].start
    BY <1>1, <2>1
  <2> QED BY <1>3, <2>1, <2>2
<1> QED BY <1>1, <1>4, <1>5

\* Words that follow each other start one after the other, across the segments too.
LEMMA SliceStarts ==
    ASSUME NEW c \in Seq(Heard), NEW a, NEW s, NEW b, Appended(a, s, b),
           NEW t, NEW d, Appended(b, t, d), Begins(d, c), s # <<>>, t # <<>>, NEW E, s \in Seq(E),
           t \in Seq(E), \A i, j \in 1 .. Len(c) : i <= j => c[i].start <= c[j].start
    PROVE  s[1].start <= t[1].start
<1>1. PICK l, m, k : l = Len(a) /\ m = Len(s) /\ k = Len(t)
  OBVIOUS
<1>2. l \in Nat /\ m \in Nat /\ m # 0 /\ k \in Nat /\ k # 0
      /\ Len(b) = l + m /\ Len(d) = (l + m) + k /\ Len(d) <= Len(c) /\ Len(c) \in Nat
  BY <1>1 DEF Appended, Begins
<1>3. b[l + 1] = s[1] /\ d[(l + m) + 1] = t[1] /\ d[l + 1] = b[l + 1]
  <2>1. 1 \in 1 .. m /\ 1 \in 1 .. k /\ l + 1 \in 1 .. l + m
    BY <1>2
  <2> QED BY <1>1, <1>2, <2>1 DEF Appended
<1>4. l + 1 \in 1 .. Len(c) /\ (l + m) + 1 \in 1 .. Len(c) /\ l + 1 <= (l + m) + 1
      /\ l + 1 \in 1 .. Len(d) /\ (l + m) + 1 \in 1 .. Len(d)
  BY <1>2
<1>5. c[l + 1] = d[l + 1] /\ c[(l + m) + 1] = d[(l + m) + 1]
  BY <1>4 DEF Begins
<1> QED BY <1>3, <1>4, <1>5

\* The starts of words that last and follow each other, for which Chain says it.
LEMMA StartsChain ==
    ASSUME NEW c \in Seq(Heard), \A i \in 1 .. Len(c) : c[i].start < c[i].end,
           \A i \in 2 .. Len(c) : c[i - 1].end <= c[i].start
    PROVE  \A i, j \in 1 .. Len(c) : i <= j => c[i].start <= c[j].start
<1>1. PICK n : n = Len(c)
  OBVIOUS
<1>2. n \in Nat /\ \A i \in 1 .. n : c[i].start \in Nat /\ c[i].end \in Nat
  <2>1. \A i \in 1 .. n : c[i] \in Heard
    BY <1>1
  <2> QED BY <1>1, <2>1 DEF Heard
<1>3. \A i \in 2 .. n : i \in 1 .. n /\ i - 1 \in 1 .. n
  BY <1>2
<1> DEFINE f == [i \in 1 .. n |-> c[i].start]
<1>4. \A i \in 1 .. n : f[i] \in Nat
  BY <1>2
<1>5. \A i \in 2 .. n : f[i - 1] <= f[i]
  <2>1. \A i \in 2 .. n : c[i - 1].start <= c[i].start
    BY <1>1, <1>2, <1>3
  <2> QED BY <1>3, <2>1
<1> HIDE DEF f
<1>6. \A i, j \in 1 .. n : i <= j => f[i] <= f[j]
  BY <1>2, <1>4, <1>5, Chain
<1> QED BY <1>1, <1>6 DEF f

\* Segments of well-timed words are in order, and none is without a word.
LEMMA SegmentsInOrder ==
    ASSUME speech.rec \in Recordings, WellTimed
    PROVE  /\ InOrder(speech.rec.segments)
           /\ \A i \in DOMAIN speech.rec.segments : speech.rec.segments[i].words # <<>>
<1> DEFINE segments == speech.rec.segments
           n == Len(segments)
           T == RawSegments
<1>1. /\ T \in Seq(Seq(Heard)) /\ Len(T) = n /\ n \in Nat /\ DOMAIN segments = 1 .. n
      /\ \A i \in 1 .. n : T[i] = segments[i].words /\ T[i] \in Seq(Heard)
  BY SegmentsTyped
<1>2. RawWords = FlattenSeq(T)
  BY DEF RawWords, RawSegments
<1> HIDE DEF T
<1>3. RawWords \in Seq(Heard)
  <2>1. \A i \in 1 .. n : Alike(T[i], T[i], Heard \X Heard)
    <3>1. ASSUME NEW s \in Seq(Heard) PROVE Alike(s, s, Heard \X Heard)
      BY DEF Alike
    <3> QED BY <1>1, <3>1
  <2>2. Len(T) = Len(T) /\ \A i \in 1 .. Len(T) : Alike(T[i], T[i], Heard \X Heard)
    BY <1>1, <2>1
  <2> QED BY <1>1, <1>2, <2>2, JoinedAlike
<1>4. /\ \A i \in 1 .. Len(RawWords) : RawWords[i].start < RawWords[i].end
      /\ \A i \in 2 .. Len(RawWords) : RawWords[i - 1].end <= RawWords[i].start
      /\ \A i \in 1 .. n : segments[i].words # <<>>
                            /\ segments[i].start = segments[i].words[1].start
  <2>1. DOMAIN RawWords = 1 .. Len(RawWords)
    BY <1>3
  <2>2. \A i \in DOMAIN RawWords : RawWords[i].start < RawWords[i].end
    BY DEF WellTimed
  <2>3. \A i \in 2 .. Len(RawWords) : RawWords[i - 1].end <= RawWords[i].start
    BY DEF WellTimed
  <2>4. \A i \in DOMAIN segments : segments[i].words # <<>>
                                     /\ segments[i].start = segments[i].words[1].start
    BY DEF WellTimed
  <2> HIDE DEF segments
  <2> QED BY <1>1, <2>1, <2>2, <2>3, <2>4
<1>5. \A i, j \in 1 .. Len(RawWords) : i <= j => RawWords[i].start <= RawWords[j].start
  BY <1>3, <1>4, StartsChain
<1>6. ASSUME NEW i \in 1 .. n PROVE SegmentStart(segments[i]) = T[i][1].start
  <2>1. PICK a, b : Appended(a, T[i], b) /\ Begins(b, RawWords)
    BY <1>1, <1>2, Slices
  <2>2. /\ \A k \in 1 .. Len(T[i]) : T[i][k].start < T[i][k].end
        /\ \A k \in 2 .. Len(T[i]) : T[i][k - 1].end <= T[i][k].start
    BY <1>3, <1>4, <2>1, SliceTimed
  <2>3. Repaired(T[i]) = T[i]
    BY <1>1, <2>2, RepairedWords
  <2>4. segments[i].start = T[i][1].start /\ segments[i].words = T[i]
    BY <1>1, <1>4
  <2> QED BY <2>3, <2>4 DEF SegmentStart, Min2
<1>7. ASSUME NEW i \in 2 .. n PROVE SegmentStart(segments[i - 1]) <= SegmentStart(segments[i])
  <2>1. i \in 1 .. n /\ i - 1 \in 1 .. n /\ i \in 2 .. Len(T)
    BY <1>1
  <2>2. PICK a, b, d : /\ Appended(a, T[i - 1], b) /\ Appended(b, T[i], d)
                       /\ Begins(d, RawWords)
    BY <1>1, <1>2, <2>1, SlicesFollow
  <2>3. T[i - 1] # <<>> /\ T[i] # <<>> /\ T[i - 1] \in Seq(Heard) /\ T[i] \in Seq(Heard)
    BY <1>1, <1>4, <2>1
  <2>4. T[i - 1][1].start <= T[i][1].start
    BY <1>3, <1>5, <2>2, <2>3, SliceStarts
  <2> QED BY <1>6, <2>1, <2>4
<1> QED BY <1>1, <1>4, <1>7 DEF InOrder

\* The transcript's words are the recognised ones, none earlier than it was heard;
\* well-timed words stay as they are.
LEMMA WordsFacts ==
    ASSUME speech.rec \in Recordings, WordsFit
    PROVE  /\ Words \in Seq(Heard) /\ RawWords \in Seq(Heard) /\ Len(Words) = Len(RawWords)
           /\ \A i \in 1 .. Len(RawWords) : Words[i].start >= RawWords[i].start
           /\ WellTimed => Words = RawWords
<1> DEFINE n == Len(speech.rec.segments)
           S == [i \in DOMAIN speech.rec.segments |-> Repaired(speech.rec.segments[i].words)]
           T == RawSegments
           R == {p \in Heard \X Heard : p[1].start >= p[2].start}
<1>1. /\ T \in Seq(Seq(Heard)) /\ Len(T) = n /\ n \in Nat
      /\ DOMAIN speech.rec.segments = 1 .. n
      /\ \A i \in 1 .. n : T[i] = speech.rec.segments[i].words /\ T[i] \in Seq(Heard)
  BY SegmentsTyped
<1>2. \A i \in 1 .. n : Repaired(T[i]) \in Seq(Heard) /\ Len(Repaired(T[i])) = Len(T[i])
                        /\ \A k \in 1 .. Len(T[i]) : Repaired(T[i])[k].start >= T[i][k].start
  BY <1>1, RepairedWords
<1>3. S = [i \in 1 .. n |-> Repaired(T[i])]
  BY <1>1
<1> HIDE DEF S, T, n
<1>4. S \in Seq(Seq(Heard)) /\ Len(S) = n /\ \A i \in 1 .. n : S[i] = Repaired(T[i])
  BY <1>1, <1>2, <1>3
<1>5. ASSUME NEW i \in 1 .. n PROVE Alike(S[i], T[i], R)
  <2>1. PICK s, t : s = S[i] /\ t = T[i]
    OBVIOUS
  <2>2. s \in Seq(Heard) /\ t \in Seq(Heard) /\ Len(s) = Len(t)
        /\ \A k \in 1 .. Len(t) : s[k].start >= t[k].start
    BY <1>1, <1>2, <1>4, <2>1
  <2>3. \A k \in 1 .. Len(s) : s[k] \in Heard /\ t[k] \in Heard
    BY <2>2
  <2>4. \A k \in 1 .. Len(s) : <<s[k], t[k]>> \in R
    BY <2>2, <2>3
  <2> QED BY <2>1, <2>2, <2>4 DEF Alike
<1> HIDE DEF R
<1>6. FlattenSeq(S) \in Seq(Heard) /\ FlattenSeq(T) \in Seq(Heard)
      /\ Alike(FlattenSeq(S), FlattenSeq(T), R)
  BY <1>1, <1>4, <1>5, JoinedAlike
<1>7. Words = FlattenSeq(S) /\ RawWords = FlattenSeq(T)
  BY DEF WordsFit, S, RawWords, T, RawSegments
<1>8. \A i \in 1 .. Len(RawWords) : Words[i].start >= RawWords[i].start
  <2>1. \A p \in R : p[1].start >= p[2].start
    BY DEF R
  <2>2. \A i \in 1 .. Len(RawWords) : <<Words[i], RawWords[i]>> \in R
    BY <1>6, <1>7 DEF Alike
  <2> QED BY <2>1, <2>2
<1>9. ASSUME WellTimed PROVE Words = RawWords
  <2>1. DOMAIN RawWords = 1 .. Len(RawWords)
    BY <1>6, <1>7
  <2>2. /\ \A i \in 1 .. Len(RawWords) : RawWords[i].start < RawWords[i].end
        /\ \A i \in 2 .. Len(RawWords) : RawWords[i - 1].end <= RawWords[i].start
    BY <1>9, <2>1 DEF WellTimed
  <2>3. ASSUME NEW i \in 1 .. n PROVE Repaired(T[i]) = T[i]
    <3>1. PICK a, b : Appended(a, T[i], b) /\ Begins(b, RawWords)
      BY <1>1, <1>7, Slices
    <3>2. /\ \A k \in 1 .. Len(T[i]) : T[i][k].start < T[i][k].end
          /\ \A k \in 2 .. Len(T[i]) : T[i][k - 1].end <= T[i][k].start
      BY <1>6, <1>7, <2>2, <3>1, SliceTimed
    <3> QED BY <1>1, <3>2, RepairedWords
  <2>4. S = [i \in 1 .. n |-> T[i]]
    BY <1>3, <2>3
  <2>5. T = [i \in 1 .. n |-> T[i]]
    BY <1>1
  <2> QED BY <1>7, <2>4, <2>5
<1> QED BY <1>6, <1>7, <1>8, <1>9 DEF Alike

\* Well-timed words are in order, and so is every line of them.
LEMMA WellTimedOrder ==
    ASSUME speech.rec \in Recordings, WordsFit, WellTimed, RawWords # <<>>
    PROVE  StartsFit /\ EndsFit
<1> DEFINE n == Len(Words)
<1>1. Words = RawWords /\ Words \in Seq(Heard)
  BY WordsFacts
<1>2. n \in Nat /\ n # 0 /\ DOMAIN Words = 1 .. n
  BY <1>1
<1>3. \A i \in 1 .. n : Words[i].start \in Nat /\ Words[i].end \in Nat
  <2>1. \A i \in 1 .. n : Words[i] \in Heard
    BY <1>1
  <2> QED BY <2>1 DEF Heard
<1>4. /\ \A i \in 1 .. n : Words[i].start < Words[i].end
      /\ \A i \in 2 .. n : Words[i - 1].end <= Words[i].start
      /\ Words[n].end <= speech.rec.file.duration
  BY <1>1, <1>2 DEF WellTimed
<1> HIDE DEF n
<1>5. \A i \in 2 .. n : i \in 1 .. n /\ i - 1 \in 1 .. n
  BY <1>2
<1>6. \A i, j \in 1 .. n : i <= j => Words[i].start <= Words[j].start
  BY <1>1, <1>4, StartsChain DEF n
<1>7. \A i, j \in 1 .. n : i <= j => Words[i].end <= Words[j].end
  <2> DEFINE f == [i \in 1 .. n |-> Words[i].end]
  <2>1. \A i \in 1 .. n : f[i] \in Nat
    BY <1>3
  <2>2. \A i \in 2 .. n : f[i - 1] <= f[i]
    <3>1. \A i \in 2 .. n : Words[i - 1].end <= Words[i].end
      BY <1>3, <1>4, <1>5
    <3> QED BY <1>5, <3>1
  <2> HIDE DEF f
  <2>3. \A i, j \in 1 .. n : i <= j => f[i] <= f[j]
    BY <1>2, <2>1, <2>2, Chain
  <2> QED BY <2>3 DEF f
<1>8. \A i \in Heads : i \in 1 .. n /\ LastOf(i) \in i .. n
  BY <1>1, <1>2, LineEnds DEF Heads, n
<1>9. \A i \in Heads : LastOf(i) \in 1 .. n /\ i <= LastOf(i) /\ LastOf(i) <= n
  BY <1>2, <1>8
<1>10. ASSUME NEW i \in Heads PROVE LineOrdered(i)
  <2>1. Words[i].start < Words[LastOf(i)].end
    BY <1>3, <1>4, <1>6, <1>8, <1>9
  <2>2. ASSUME NEW j \in Line(i)
        PROVE  /\ Words[i].start <= Words[j].start /\ Words[j].end <= Words[LastOf(i)].end
               /\ j > i => Words[j - 1].start <= Words[j].start
                              /\ Words[j - 1].end <= Words[j].end
    <3>1. j \in 1 .. n /\ i <= j /\ j <= LastOf(i)
      BY <1>2, <1>8, <1>9 DEF Line
    <3>2. j > i => j - 1 \in 1 .. n /\ j - 1 <= j
      BY <1>2, <1>8, <3>1
    <3> QED BY <1>6, <1>7, <1>8, <1>9, <3>1, <3>2
  <2> QED BY <2>1, <2>2 DEF LineOrdered
<1>11. ASSUME NEW i \in Heads, NEW j \in Heads, i < j
       PROVE  Words[i].start <= Words[j].start /\ Words[LastOf(i)].end <= Words[LastOf(j)].end
  <2>1. LastOf(i) < j
    BY <1>1, <1>11, LinesFollow
  <2>2. i <= j /\ LastOf(i) <= LastOf(j)
    BY <1>2, <1>8, <1>9, <1>11, <2>1
  <2> QED BY <1>6, <1>7, <1>8, <1>9, <2>2
<1>12. \A i \in Heads : Words[LastOf(i)].end <= speech.rec.file.duration
  <2>1. \A r \in Recordings : r.file.duration \in Nat
    BY RecordingsAssumption
  <2>2. n \in 1 .. n
    BY <1>2
  <2> QED BY <1>3, <1>4, <1>7, <1>9, <2>1, <2>2
<1> QED BY <1>10, <1>11, <1>12 DEF StartsFit, EndsFit
\* What is said of the words stays as long as they and their recording do.
LEMMA SameText ==
    ASSUME speech'.rec = speech.rec, speech'.words = speech.words
    PROVE  /\ WordsFit' = WordsFit /\ StartsFit' = StartsFit /\ EndsFit' = EndsFit
           /\ Sound' = Sound /\ RolesAsked' = RolesAsked
           /\ speech'.roles = speech.roles => RolesFounded' = RolesFounded
<1>1. Words' = Words /\ Heads' = Heads /\ (\A i : Speaker(i)' = Speaker(i))
  BY DEF Words, Heads, Speaker
<1>2. \A i : LastOf(i)' = LastOf(i)
  BY <1>1 DEF LastOf
<1>3. \A i : Line(i)' = Line(i) /\ LineOrdered(i)' = LineOrdered(i)
  BY <1>1, <1>2 DEF Line, LineOrdered
<1>4. \A s : LinesOf(s)' = LinesOf(s)
  BY <1>1 DEF LinesOf
<1>5. Speakers' = Speakers
  BY <1>1 DEF Speakers
<1>6. Unresolved' = Unresolved
  BY <1>4, <1>5 DEF Unresolved, Mapped
<1>7. \A roles : Grounded(roles)' = Grounded(roles)
  BY <1>4, <1>6 DEF Grounded
<1>8. RawWords' = RawWords
  BY DEF RawWords
<1>9. WellTimed' = WellTimed
  BY <1>8 DEF WellTimed
<1>10. Sound' = Sound
  BY <1>7, <1>8, <1>9 DEF Sound
<1>11. StartsFit' = StartsFit
  BY <1>1, <1>3 DEF StartsFit
<1>12. EndsFit' = EndsFit
  BY <1>1, <1>2 DEF EndsFit
<1>13. WordsFit' = WordsFit
  BY <1>1 DEF WordsFit
<1>14. ASSUME speech'.roles = speech.roles PROVE RolesFounded' = RolesFounded
  BY <1>4, <1>5, <1>14 DEF RolesFounded
<1>15. RolesAsked' = RolesAsked
  BY <1>1, <1>3, <1>6 DEF RolesAsked
<1> QED BY <1>10, <1>11, <1>12, <1>13, <1>14, <1>15

\* A transcription that fails keeps what it was made from.
LEMMA RaiseText ==
    ASSUME SpeechFits, TextFits, NEW error, error # "none", Raise(error),
           Sound => \/ error \in {"service_unavailable", "RoleResolutionRequiredError"}
                    \/ error = "SpeechProviderError" /\ RolesAsked
    PROVE  TextFits'
<1>1. /\ speech'.rec = speech.rec /\ speech'.words = speech.words
      /\ speech'.phase = "ended" /\ speech'.error = error
  BY DEF SpeechFits, SpeechFields, Raise, SetSpeech, Updated
<1>2. ~Transcribed' /\ Sound' = Sound /\ RolesAsked' = RolesAsked /\ speech'.rec \in Recordings
  BY <1>1, SameText DEF Transcribed, TextFits
<1>3. Sound' => OnlyRolesFail'
  BY <1>1, <1>2 DEF OnlyRolesFail
<1> QED BY <1>1, <1>2, <1>3 DEF TextFits

\* One that goes on keeps its words.
LEMMA PhaseText ==
    ASSUME SpeechFits, TextFits, NEW r, SetSpeech(r), speech.phase # "ended",
           DOMAIN r \subseteq {"phase", "tries", "roles"},
           WordsFit \/ speech'.phase \notin {"speakers", "roles", "ended"},
           StartsFit \/ speech'.phase \notin {"roles", "ended"},
           speech'.phase = "ended" => EndsFit /\ RolesFounded'
    PROVE  TextFits'
<1>1. /\ speech'.rec = speech.rec /\ speech'.words = speech.words /\ speech'.error = speech.error
      /\ speech.error = "none"
  BY DEF SpeechFits, SpeechFields, SetSpeech, Updated
<1>2. WordsFit' = WordsFit /\ StartsFit' = StartsFit /\ EndsFit' = EndsFit
  BY <1>1, SameText
<1>3. OnlyRolesFail'
  BY <1>1 DEF OnlyRolesFail
<1> QED BY <1>1, <1>2, <1>3 DEF TextFits, Transcribed

LEMMA RecogniseText == ASSUME SpeechFits, TextFits, Recognise PROVE TextFits'
<1> DEFINE segments == speech.rec.segments
           words == FlattenSeq([i \in DOMAIN segments |-> Repaired(segments[i].words)])
<1>1. ASSUME segments = <<>>, Raise("NoSpeechError") PROVE TextFits'
  <2>1. RawWords = <<>>
    <3>1. PICK S : S = [i \in DOMAIN segments |-> segments[i].words]
      OBVIOUS
    <3>2. S = <<>>
      BY <1>1, <3>1
    <3>3. FlattenSeq(S) = <<>>
      BY <3>2 DEF FlattenSeq
    <3> QED BY <3>1, <3>3 DEF RawWords
  <2> QED BY <1>1, <2>1, RaiseText DEF Sound
<1>2. ASSUME (\E i \in DOMAIN segments : segments[i].words = <<>>) \/ ~InOrder(segments),
             Raise("SpeechProviderError")
      PROVE  TextFits'
  <2>1. ~Sound
    BY <1>2, SegmentsInOrder DEF Sound, TextFits
  <2> QED BY <1>2, <2>1, RaiseText
<1>3. ASSUME SetSpeech([phase |-> "speakers", words |-> words]) PROVE TextFits'
  <2>1. /\ speech'.rec = speech.rec /\ speech'.words = words /\ speech'.phase = "speakers"
    <3> HIDE DEF words
    <3> QED BY <1>3 DEF SpeechFits, SpeechFields, SetSpeech, Updated
  <2>2. WordsFit'
    BY <2>1 DEF WordsFit, Words
  <2> QED BY <2>1, <2>2 DEF TextFits, Transcribed
<1> QED BY <1>1, <1>2, <1>3 DEF Recognise

LEMMA AssignSpeakersText == ASSUME SpeechFits, TextFits, AssignSpeakers PROVE TextFits'
<1>1. speech.phase = "speakers" /\ WordsFit /\ speech.rec \in Recordings
  BY DEF AssignSpeakers, TextFits
<1>2. ASSUME NEW i \in Heads, ~LineOrdered(i), Raise("ValidationError") PROVE TextFits'
  <2>1. ~Sound
    BY <1>1, <1>2, WellTimedOrder DEF Sound, StartsFit
  <2> QED BY <1>2, <2>1, RaiseText
<1>3. ASSUME NEW i \in Heads, NEW j \in Heads, i < j, Words[i].start > Words[j].start,
             Raise("SpeechProviderError")
      PROVE  TextFits'
  <2>1. Words \in Seq(Heard)
    BY <1>1, WordsFacts
  <2>2. Words[i] \in Heard /\ Words[j] \in Heard
    BY <2>1 DEF Heads
  <2>3. ~ (Words[i].start <= Words[j].start)
    BY <1>3, <2>2 DEF Heard
  <2>4. ~Sound
    BY <1>1, <1>3, <2>3, WellTimedOrder DEF Sound, StartsFit
  <2> QED BY <1>3, <2>4, RaiseText
<1>4. ASSUME \A i \in Heads : LineOrdered(i),
             ~ \E i, j \in Heads : i < j /\ Words[i].start > Words[j].start,
             SetSpeech([phase |-> "roles"])
      PROVE  TextFits'
  <2>1. Words \in Seq(Heard)
    BY <1>1, WordsFacts
  <2>2. \A i \in Heads : Words[i].start \in Nat
    <3>1. \A i \in Heads : Words[i] \in Heard
      BY <2>1 DEF Heads
    <3> QED BY <3>1 DEF Heard
  <2>3. StartsFit
    BY <1>4, <2>2 DEF StartsFit
  <2>4. speech'.phase = "roles"
    BY <1>4 DEF SpeechFits, SpeechFields, SetSpeech, Updated
  <2> QED BY <1>1, <1>4, <2>3, <2>4, PhaseText
<1> QED BY <1>2, <1>3, <1>4 DEF AssignSpeakers

\* The roles given are founded on lines of their speakers.
LEMMA RolesText ==
    ASSUME SpeechFits, TextFits, speech.phase = "roles", NEW roles, ResolveRoles(roles),
           roles \in Submissions[speech.rec.topic] \/ roles = <<>>
    PROVE  TextFits'
<1> DEFINE submitted == Submitted(roles)
           assigned  == [s \in DOMAIN submitted \cup DOMAIN Mapped |->
                            IF s \in DOMAIN submitted THEN submitted[s] ELSE Mapped[s]]
<1>1. WordsFit /\ StartsFit /\ speech.rec \in Recordings
  BY DEF TextFits
<1>2. ASSUME ~Grounded(roles), Raise("ValidationError") PROVE TextFits'
  <2>1. Grounded(<<>>)
    BY DEF Grounded
  <2>2. ~Sound
    BY <1>2, <2>1 DEF Sound
  <2> QED BY <1>2, <2>2, RaiseText
<1>3. CASE Raise("RoleResolutionRequiredError")
  BY <1>3, RaiseText
<1>4. ASSUME ~EndsFit, Raise("ValidationError") PROVE TextFits'
  <2>1. ~Sound
    BY <1>1, <1>4, WellTimedOrder DEF Sound
  <2> QED BY <1>4, <2>1, RaiseText
<1>5. ASSUME Grounded(roles), Speakers = DOMAIN assigned,
             Cardinality(Speakers) = 2 => {assigned[s].role : s \in Speakers} = Roles,
             EndsFit, SetSpeech([phase |-> "ended", roles |-> assigned])
      PROVE  TextFits'
  <2>1. /\ speech'.rec = speech.rec /\ speech'.words = speech.words /\ speech'.phase = "ended"
        /\ speech'.roles = assigned
    <3> HIDE DEF assigned
    <3> QED BY <1>5 DEF SpeechFits, SpeechFields, SetSpeech, Updated
  <2>2. ASSUME NEW s \in Speakers
        PROVE  assigned[s].evidence # {} /\ assigned[s].evidence \subseteq LinesOf(s)
    <3>1. s \in DOMAIN submitted \cup DOMAIN Mapped
      BY <1>5
    <3>2. CASE s \in DOMAIN submitted
      <4> DEFINE i == CHOOSE i \in DOMAIN roles : roles[i].speaker = s
      <4>1. i \in DOMAIN roles /\ roles[i].speaker = s
        BY <3>2 DEF Submitted
      <4>2. submitted[s].evidence = roles[i].evidence
        BY <3>2 DEF Submitted
      <4> HIDE DEF i
      <4>3. roles[i].evidence # {} /\ roles[i].evidence \subseteq LinesOf(s)
        BY <1>5, <4>1 DEF Grounded
      <4>4. assigned[s] = submitted[s]
        <5> HIDE DEF submitted
        <5> QED BY <3>1, <3>2
      <4> QED BY <4>2, <4>3, <4>4
    <3>3. CASE s \notin DOMAIN submitted
      <4>1. assigned[s] = Mapped[s] /\ s \in DOMAIN Mapped
        <5> HIDE DEF submitted
        <5> QED BY <3>1, <3>3
      <4>2. Mapped[s].evidence = LinesOf(s)
        BY <4>1 DEF Mapped
      <4>3. LinesOf(s) # {}
        BY DEF LinesOf, Speakers
      <4> HIDE DEF assigned
      <4> QED BY <4>1, <4>2, <4>3
    <3> HIDE DEF assigned, submitted
    <3> QED BY <3>2, <3>3
  <2>3. RolesFounded'
    <3>1. Speakers' = Speakers /\ \A s : LinesOf(s)' = LinesOf(s)
      BY <2>1 DEF Speakers, LinesOf, Heads, Speaker, Words
    <3> HIDE DEF assigned
    <3> QED BY <1>5, <2>1, <2>2, <3>1 DEF RolesFounded
  <2> HIDE DEF assigned
  <2> QED BY <1>1, <1>5, <2>1, <2>3, PhaseText
<1>6. Words \in Seq(Heard)
  BY <1>1, WordsFacts
<1>7. EndsFit <=> ~ (\/ \E i, j \in Heads : i < j /\ Words[LastOf(i)].end > Words[LastOf(j)].end
                     \/ \E i \in Heads : Words[LastOf(i)].end > speech.rec.file.duration)
  <2>1. \A r \in Recordings : r.file.duration \in Nat
    BY RecordingsAssumption
  <2>2. \A i \in Heads : Words[LastOf(i)].end \in Nat
    <3>1. ASSUME NEW i \in Heads PROVE Words[LastOf(i)] \in Heard
      <4>1. LastOf(i) \in i .. Len(Words) /\ i \in 1 .. Len(Words)
        BY <1>6, LineEnds DEF Heads
      <4>2. LastOf(i) \in 1 .. Len(Words)
        BY <1>6, <4>1
      <4> QED BY <1>6, <4>2
    <3> QED BY <3>1 DEF Heard
  <2> QED BY <1>1, <2>1, <2>2 DEF EndsFit
<1> HIDE DEF assigned, submitted
<1> QED BY <1>2, <1>3, <1>4, <1>5, <1>7 DEF ResolveRoles, assigned, submitted
LEMMA SpeechStepText ==
    ASSUME SpeechFits, TextFits, speech.phase # "ended", SpeechStep
    PROVE  TextFits'
<1>1. CASE Parse
  <2> DEFINE fault == SourceFault(speech.rec.file, MaxUpload)
  <2>1. CASE fault = "ok"
    <3>1. SetSpeech([phase |-> "media"])
      BY <1>1, <2>1 DEF Parse
    <3>2. speech'.phase = "media"
      BY <3>1 DEF SpeechFits, SpeechFields, SetSpeech, Updated
    <3> QED BY <3>1, <3>2, PhaseText
  <2>2. CASE fault # "ok"
    <3>1. fault \in {"payload_too_large", "invalid_audio"}
      BY <2>2 DEF SourceFault
    <3>2. ~Sound
      BY <2>2 DEF SourceFault, MediaError, Sound
    <3> QED BY <1>1, <2>2, <3>1, <3>2, RaiseText DEF Parse
  <2> QED BY <2>1, <2>2
<1>2. CASE NotReady
  BY <1>2, RaiseText DEF NotReady
<1>3. CASE Normalize
  <2> DEFINE fault == MediaError(speech.rec.file)
  <2>1. CASE fault = "none"
    <3>1. SetSpeech([phase |-> "asr"])
      BY <1>3, <2>1 DEF Normalize
    <3>2. speech'.phase = "asr"
      BY <3>1 DEF SpeechFits, SpeechFields, SetSpeech, Updated
    <3> QED BY <3>1, <3>2, PhaseText
  <2>2. CASE fault # "none"
    <3>1. fault \in {"MediaValidationError", "UnsupportedMediaError", "MediaTimeoutError"}
      BY <2>2 DEF MediaError, ToolError
    <3> QED BY <1>3, <2>2, <3>1, RaiseText DEF Normalize, Sound
  <2> QED BY <2>1, <2>2
<1>4. CASE RolesKnown
  BY <1>4, RolesText DEF RolesKnown
<1>5. CASE RoleAgent
  <2>1. CASE Raise("SpeechProviderError")
    <3>1. RolesAsked
      BY <1>5 DEF RoleAgent, RolesAsked, TextFits, StartsFit
    <3> QED BY <2>1, <3>1, RaiseText
  <2>2. CASE SetSpeech([tries |-> 1])
    <3>1. speech'.phase = "roles"
      BY <1>5, <2>2 DEF SpeechFits, SpeechFields, SetSpeech, Updated, RoleAgent
    <3>2. WordsFit /\ StartsFit
      BY <1>5 DEF RoleAgent, TextFits
    <3> QED BY <2>2, <3>1, <3>2, PhaseText
  <2>3. ASSUME NEW roles \in Submissions[speech.rec.topic], ResolveRoles(roles) PROVE TextFits'
    BY <1>5, <2>3, RolesText DEF RoleAgent
  <2> QED BY <1>5, <2>1, <2>2, <2>3 DEF RoleAgent
<1> QED BY <1>1, <1>2, <1>3, <1>4, <1>5, RecogniseText, AssignSpeakersText DEF SpeechStep

LEMMA TextInit == Init => TextFits
<1> SUFFICES ASSUME Init PROVE TextFits
  OBVIOUS
<1>1. InitSpeech(Recordings) \/ InitSpeech(Uploads) \/ InitSpeech(AnyOf(Uploads))
  BY DEF Init
<1>2. Uploads \subseteq Recordings /\ AnyOf(Uploads) \subseteq Uploads
  BY UploadsAssumption DEF AnyOf
<1>3. PICK r \in Recordings :
          speech = [phase |-> "upload", rec |-> r, words |-> <<>>, error |-> "none",
                    tries |-> 0, roles |-> <<>>]
  BY <1>1, <1>2 DEF InitSpeech
<1>4. speech.rec = r /\ speech.phase = "upload"
  BY <1>3
<1> QED BY <1>3, <1>4 DEF TextFits, Transcribed

LEMMA TextFaithful == ASSUME TextFits PROVE TranscriptFaithful
<1>1. ASSUME Transcribed
      PROVE  WordsKept /\ LinesInOrder /\ NobodyIsNearer /\ RolesFounded
  <2> DEFINE n == Len(Words)
  <2>1. /\ speech.rec \in Recordings /\ WordsFit /\ StartsFit /\ EndsFit /\ RolesFounded
    BY <1>1 DEF TextFits
  <2>2. /\ Words \in Seq(Heard) /\ Len(RawWords) = n /\ n \in Nat /\ DOMAIN Words = 1 .. n
        /\ \A i \in 1 .. n : Words[i].start >= RawWords[i].start
    BY <2>1, WordsFacts
  <2>3. \A i \in 1 .. n : Words[i].start \in Nat /\ Words[i].end \in Nat
    <3>1. \A i \in 1 .. n : Words[i] \in Heard
      BY <2>2
    <3> QED BY <3>1 DEF Heard
  <2>4. /\ \A k \in 1 .. n : \E h \in Heads : k \in Line(h)
        /\ \A i, j \in Heads : i < j => LastOf(i) < j
        /\ \A i \in Heads : Line(i) \subseteq 1 .. n
    BY <2>2, LinesFollow
  <2> HIDE DEF n
  <2>5. \A h \in Heads : h \in 1 .. n /\ LastOf(h) \in h .. n /\ LastOf(h) \in 1 .. n
    <3>1. ASSUME NEW h \in Heads PROVE h \in 1 .. n /\ LastOf(h) \in h .. n
      BY <2>2, LineEnds DEF Heads, n
    <3> QED BY <2>2, <3>1
  <2>6. ASSUME NEW k \in 1 .. n
        PROVE  /\ Words[k].end <= speech.rec.file.duration
               /\ k \notin Heads => k - 1 \in 1 .. n /\ Words[k - 1].start <= Words[k].start
    <3>1. PICK h \in Heads : k \in Line(h)
      BY <2>4
    <3>2. LineOrdered(h) /\ Words[LastOf(h)].end <= speech.rec.file.duration
      BY <2>1 DEF StartsFit, EndsFit
    <3>3. \A r \in Recordings : r.file.duration \in Nat
      BY RecordingsAssumption
    <3>4. Words[k].end <= Words[LastOf(h)].end
      BY <3>1, <3>2 DEF LineOrdered
    <3>5. Words[k].end <= speech.rec.file.duration
      BY <2>1, <2>3, <2>5, <3>2, <3>3, <3>4
    <3>6. ASSUME k \notin Heads PROVE k - 1 \in 1 .. n /\ Words[k - 1].start <= Words[k].start
      <4>1. k > h /\ k - 1 \in 1 .. n
        BY <2>2, <2>5, <3>1, <3>6 DEF Line
      <4> QED BY <3>1, <3>2, <4>1 DEF LineOrdered
    <3> QED BY <3>5, <3>6
  <2>7. WordsKept
    <3>1. UNION {Line(i) : i \in Heads} = 1 .. n
      BY <2>4
    <3>2. ASSUME NEW i \in Heads, NEW j \in Heads, i # j PROVE Line(i) \cap Line(j) = {}
      <4>1. i < j => LastOf(i) < j
        BY <2>4
      <4>2. j < i => LastOf(j) < i
        BY <2>4
      <4>3. i < j \/ j < i
        BY <2>2, <2>5, <3>2
      <4> QED BY <2>2, <2>5, <4>1, <4>2, <4>3 DEF Line
    <3> QED BY <2>2, <2>6, <3>1, <3>2 DEF WordsKept, n
  <2>8. LinesInOrder
    <3>1. \A i \in 2 .. n : i \in 1 .. n
      BY <2>2
    <3> QED BY <2>1, <2>6, <3>1 DEF LinesInOrder, StartsFit, EndsFit, n
  <2>9. NobodyIsNearer
    <3>1. speech.rec.turns \subseteq Turns
      BY <2>1, SegmentsTyped
    <3>2. \A i \in DOMAIN Words : Words[i] \in Heard
      BY <2>2
    <3> QED BY <3>1, <3>2, MostHeard DEF NobodyIsNearer, Speaker
  <2> QED BY <2>1, <2>7, <2>8, <2>9
<1> QED BY <1>1 DEF TranscriptFaithful, Transcribed, TextFits, Sound

\* TranscriptFaithful (SpeechEngine.transcribe): whatever the recogniser, the diariser
\* and the role model answer, a transcript holds every recognised word once, in lines
\* in order, under the speaker who talks most during it or is nearest to it, and roles
\* founded on lines of their speakers; and a sound recording is lost only to models that
\* are not ready, to the role model, or to roles that do not cover the parties.
THEOREM TranscriptsAreFaithful == Spec => []TranscriptFaithful
<1>1. RequestKnown /\ TextFits /\ [Next]_vars => TextFits'
  <2> SUFFICES ASSUME RequestKnown, TextFits, [Next]_vars PROVE TextFits'
    OBVIOUS
  <2>1. CASE Transcribing
    <3>1. SpeechFits /\ speech.phase # "ended" /\ SpeechStep
      BY <2>1 DEF Transcribing, RequestKnown, AnalysisFits
    <3> QED BY <3>1, SpeechStepText
  <2>2. CASE UNCHANGED speech
    <3>1. Transcribed' = Transcribed /\ WordsFit' = WordsFit /\ StartsFit' = StartsFit
          /\ EndsFit' = EndsFit /\ Sound' = Sound /\ RolesFounded' = RolesFounded
      BY <2>2, SameText DEF Transcribed
    <3>2. OnlyRolesFail' = OnlyRolesFail
      BY <2>2, SameText DEF OnlyRolesFail
    <3> QED BY <2>2, <3>1, <3>2 DEF TextFits
  <2>3. Transcribing \/ UNCHANGED speech
    BY DEF Next, Receive, Fetching, Reply, Chats, Chat, Names, Reports, Agents, AnalysisFails, vars
  <2> QED BY <2>1, <2>2, <2>3
<1> QED BY <1>1, RequestInit, RequestKeeps, TextInit, TextFaithful, PTL DEF Spec

-----------------------------------------------------------------------------
(* The weight of criteria *)

Criteria == DOMAIN Weights
Picked(s) == CHOOSE x \in s : TRUE
Weighed(s, f) == IF s = {} THEN 0 ELSE Weights[Picked(s)] + f[s \ {Picked(s)}]

LEMMA PickedIn == ASSUME NEW s, s # {} PROVE Picked(s) \in s
BY DEF Picked

\* What holds of the empty set, and of a set if of all with an element less.
Inductive(P, C) ==
    {} \in P /\ \A s \in SUBSET C : s # {} /\ (\A x \in s : s \ {x} \in P) => s \in P

LEMMA SetInduction ==
    ASSUME NEW C, IsFiniteSet(C), NEW P, Inductive(P, C) PROVE SUBSET C \subseteq P
<1> DEFINE n == Cardinality(C)
           Q == {k \in 0 .. n : \A s \in SUBSET C : Cardinality(s) = k => s \in P}
<1>1. n \in Nat
  BY FS_CardinalityType
<1>2. \A s \in SUBSET C : IsFiniteSet(s) /\ Cardinality(s) \in 0 .. n
  BY <1>1, FS_Subset, FS_CardinalityType
<1>3. 0 \in Q
  BY <1>1, <1>2, FS_EmptySet DEF Inductive
<1>4. ASSUME NEW k \in 1 .. n, k - 1 \in Q PROVE k \in Q
  <2>1. ASSUME NEW s \in SUBSET C, Cardinality(s) = k PROVE s \in P
    <3>1. s # {}
      BY <1>2, <2>1, FS_EmptySet
    <3>2. ASSUME NEW x \in s PROVE s \ {x} \in P
      <4>1. Cardinality(s \ {x}) = k - 1 /\ s \ {x} \in SUBSET C
        BY <1>2, <2>1, FS_RemoveElement
      <4> QED BY <1>4, <4>1
    <3> QED BY <3>1, <3>2 DEF Inductive
  <2>2. k \in 0 .. n
    BY <1>1
  <2> QED BY <2>1, <2>2
<1> HIDE DEF Q
<1>5. 0 .. n \subseteq Q
  BY <1>1, <1>3, <1>4, UpTo
<1> QED BY <1>2, <1>5 DEF Q

\* One function weighs all sets of criteria.
LEMMA WeighedExists ==
    \E f \in [SUBSET Criteria -> Nat] : \A s \in SUBSET Criteria : f[s] = Weighed(s, f)
<1> DEFINE V == [SUBSET Criteria -> Nat]
           n == Cardinality(Criteria) + 1
           zero == [s \in SUBSET Criteria |-> 0]
           g == [p \in (1 .. n) \X V |-> [s \in SUBSET Criteria |-> Weighed(s, p[2])]]
<1>1. Cardinality(Criteria) \in Nat /\ n \in Nat /\ IsFiniteSet(Criteria)
      /\ Weights \in [Criteria -> Nat]
  BY FS_CardinalityType, ReportAssumption DEF Criteria
<1>2. ASSUME NEW f \in V, NEW s \in SUBSET Criteria PROVE Weighed(s, f) \in Nat
  <2>1. s # {} => Picked(s) \in Criteria /\ s \ {Picked(s)} \in SUBSET Criteria
    BY PickedIn
  <2> QED BY <1>1, <2>1 DEF Weighed
<1>3. zero \in V
  OBVIOUS
<1>4. \A f \in V : [s \in SUBSET Criteria |-> Weighed(s, f)] \in V
  BY <1>2
<1> HIDE DEF V, n, zero
<1>5. g \in Steps(n, V) /\ \A i \in 1 .. n, f \in V :
         g[<<i, f>>] = [s \in SUBSET Criteria |-> Weighed(s, f)]
  <2>1. \A p \in (1 .. n) \X V : p[1] \in 1 .. n /\ p[2] \in V
    OBVIOUS
  <2>2. \A p \in (1 .. n) \X V : [s \in SUBSET Criteria |-> Weighed(s, p[2])] \in V
    BY <1>4, <2>1
  <2>3. \A i \in 1 .. n, f \in V :
           <<i, f>> \in (1 .. n) \X V /\ <<i, f>>[1] = i /\ <<i, f>>[2] = f
    OBVIOUS
  <2>4. \A i \in 1 .. n, f \in V : g[<<i, f>>] = [s \in SUBSET Criteria |-> Weighed(s, f)]
    BY <2>3
  <2> QED BY <2>2, <2>4 DEF Steps
<1> HIDE DEF g
<1>6. PICK F : MadeBy(F, n, V, zero, g)
  BY <1>1, <1>3, <1>5, Recursion
<1>7. ASSUME NEW i \in 1 .. n
      PROVE  /\ F[i] \in V /\ F[i - 1] \in V
             /\ \A s \in SUBSET Criteria : F[i][s] = Weighed(s, F[i - 1])
  <2>1. F[i] \in V /\ F[i - 1] \in V
    BY <1>1, <1>6 DEF MadeBy
  <2>2. F[i] = [s \in SUBSET Criteria |-> Weighed(s, F[i - 1])]
    BY <1>5, <1>6, <2>1 DEF MadeBy
  <2> QED BY <2>1, <2>2
\* Sets of up to i criteria have their weight after i steps.
<1> DEFINE Small(i) == {s \in SUBSET Criteria : Cardinality(s) < i}
           P == {i \in 0 .. n : i = 0 \/ \A s \in Small(i) : F[i][s] = F[i - 1][s]}
<1>8. 0 \in P
  BY <1>1
<1>9. ASSUME NEW i \in 1 .. n, i - 1 \in P PROVE i \in P
  <2>1. ASSUME NEW s \in Small(i) PROVE F[i][s] = F[i - 1][s]
    <3>1. F[i][s] = Weighed(s, F[i - 1])
      BY <1>7
    <3>2. CASE s = {}
      <4>1. F[i][s] = 0
        BY <3>1, <3>2 DEF Weighed
      <4>2. F[i - 1][s] = 0
        <5>1. CASE i = 1
          <6>1. F[i - 1] = zero
            BY <1>6, <5>1 DEF MadeBy
          <6> QED BY <6>1 DEF zero
        <5>2. CASE i # 1
          <6>1. i - 1 \in 1 .. n
            BY <1>1, <5>2
          <6>2. F[i - 1][s] = Weighed(s, F[(i - 1) - 1])
            BY <1>7, <6>1
          <6> QED BY <3>2, <6>2 DEF Weighed
        <5> QED BY <5>1, <5>2
      <4> QED BY <4>1, <4>2
    <3>3. CASE s # {}
      <4> DEFINE r == s \ {Picked(s)}
      <4>1. IsFiniteSet(s) /\ Cardinality(s) \in Nat /\ Picked(s) \in s
        BY <1>1, <3>3, PickedIn, FS_Subset, FS_CardinalityType
      <4>2. Cardinality(r) = Cardinality(s) - 1 /\ r \in SUBSET Criteria /\ Cardinality(r) \in Nat
        BY <4>1, FS_RemoveElement, FS_CardinalityType
      <4>3. i - 1 \in 1 .. n /\ r \in Small(i - 1)
        BY <1>1, <4>1, <4>2
      <4>4. F[i - 1][r] = F[(i - 1) - 1][r]
        BY <1>9, <4>3
      <4>5. F[i - 1][s] = Weighed(s, F[(i - 1) - 1])
        BY <1>7, <4>3
      <4> QED BY <3>1, <3>3, <4>4, <4>5 DEF Weighed
    <3> QED BY <3>2, <3>3
  <2>2. i \in 0 .. n
    BY <1>1
  <2> QED BY <2>1, <2>2
<1> HIDE DEF P
<1>10. 0 .. n \subseteq P
  BY <1>1, <1>8, <1>9, UpTo
<1>11. n \in 1 .. n /\ n # 0 /\ n \in 0 .. n
  BY <1>1 DEF n
<1>12. ASSUME NEW s \in SUBSET Criteria PROVE F[n][s] = Weighed(s, F[n])
  <2>1. F[n][s] = Weighed(s, F[n - 1])
    BY <1>7, <1>11
  <2>2. \A t \in Small(n) : F[n][t] = F[n - 1][t]
    BY <1>10, <1>11 DEF P
  <2>3. CASE s # {}
    <3> DEFINE r == s \ {Picked(s)}
    <3>1. IsFiniteSet(s) /\ Cardinality(s) \in Nat /\ Picked(s) \in s
          /\ Cardinality(s) <= Cardinality(Criteria)
      BY <1>1, <2>3, PickedIn, FS_Subset, FS_CardinalityType
    <3>2. Cardinality(r) = Cardinality(s) - 1 /\ r \in SUBSET Criteria
      BY <3>1, FS_RemoveElement
    <3>3. r \in Small(n)
      BY <1>1, <3>1, <3>2 DEF n
    <3> QED BY <2>1, <2>2, <2>3, <3>3 DEF Weighed
  <2> QED BY <2>1, <2>3 DEF Weighed
<1>13. F[n] \in V
  BY <1>7, <1>11
<1> QED BY <1>12, <1>13 DEF V

\* Weight is what that function makes of the criteria.
LEMMA WeightIs ==
    ASSUME NEW f \in [SUBSET Criteria -> Nat], \A s \in SUBSET Criteria : f[s] = Weighed(s, f),
           NEW S \in SUBSET Criteria
    PROVE  Weight(S) = f[S]
<1> DEFINE E == CHOOSE iter : iter = [s \in SUBSET S |->
                    IF s = {} THEN 0
                    ELSE Weights[CHOOSE x \in s : TRUE] + iter[s \ {CHOOSE x \in s : TRUE}]]
           h == [s \in SUBSET S |-> f[s]]
<1>1. Weight(S) = E[S]
  BY DEF Weight, MapThenSumSet, MapThenFoldSet
<1>2. h = [s \in SUBSET S |->
              IF s = {} THEN 0
              ELSE Weights[CHOOSE x \in s : TRUE] + h[s \ {CHOOSE x \in s : TRUE}]]
  <2>1. ASSUME NEW s \in SUBSET S
        PROVE  f[s] = IF s = {} THEN 0 ELSE Weights[Picked(s)] + h[s \ {Picked(s)}]
    <3>1. f[s] = Weighed(s, f)
      OBVIOUS
    <3>2. h[s \ {Picked(s)}] = f[s \ {Picked(s)}]
      OBVIOUS
    <3> QED BY <3>1, <3>2 DEF Weighed
  <2> QED BY <2>1 DEF Picked
<1> HIDE DEF h
<1>3. E = [s \in SUBSET S |->
              IF s = {} THEN 0
              ELSE Weights[CHOOSE x \in s : TRUE] + E[s \ {CHOOSE x \in s : TRUE}]]
  BY <1>2
<1> HIDE DEF E
<1>4. \A s \in SUBSET S : E[s] = Weighed(s, E)
  BY <1>3 DEF Weighed, Picked
<1> DEFINE P == {s \in SUBSET S : E[s] = f[s]}
<1>5. {} \in P
  BY <1>4 DEF Weighed
<1>6. ASSUME NEW s \in SUBSET S, s # {}, \A x \in s : s \ {x} \in P PROVE s \in P
  <2>1. E[s \ {Picked(s)}] = f[s \ {Picked(s)}]
    BY <1>6, PickedIn
  <2>2. E[s] = Weighed(s, E) /\ f[s] = Weighed(s, f)
    BY <1>4
  <2> QED BY <2>1, <2>2 DEF Weighed
<1>7. IsFiniteSet(S)
  BY FS_Subset, ReportAssumption DEF Criteria
<1> HIDE DEF P
<1>8. Inductive(P, S)
  BY <1>5, <1>6 DEF Inductive
<1>9. SUBSET S \subseteq P
  BY <1>7, <1>8, SetInduction
<1> QED BY <1>1, <1>9 DEF P

\* In whatever order they are picked: every criterion adds what it weighs.
LEMMA OneMore ==
    ASSUME NEW f \in [SUBSET Criteria -> Nat], \A s \in SUBSET Criteria : f[s] = Weighed(s, f),
           NEW S \in SUBSET Criteria, NEW c \in S
    PROVE  f[S] = Weights[c] + f[S \ {c}]
<1> DEFINE Adds(s) == \A x \in s : f[s] = Weights[x] + f[s \ {x}]
           P == {s \in SUBSET Criteria : Adds(s)}
<1>1. {} \in P
  OBVIOUS
<1>2. ASSUME NEW s \in SUBSET Criteria, s # {}, \A x \in s : s \ {x} \in P PROVE s \in P
  <2>1. ASSUME NEW x \in s PROVE f[s] = Weights[x] + f[s \ {x}]
    <3> DEFINE y == Picked(s)
    <3>1. f[s] = Weights[y] + f[s \ {y}] /\ y \in s
      BY <1>2, PickedIn DEF Weighed
    <3> HIDE DEF y
    <3>2. CASE x = y
      BY <3>1, <3>2
    <3>3. CASE x # y
      <4>1. f[s \ {y}] = Weights[x] + f[(s \ {y}) \ {x}]
        BY <1>2, <3>1, <3>3
      <4>2. f[s \ {x}] = Weights[y] + f[(s \ {x}) \ {y}]
        BY <1>2, <3>1, <3>3
      <4>3. (s \ {y}) \ {x} = (s \ {x}) \ {y}
        OBVIOUS
      <4>4. Weights[x] \in Nat /\ Weights[y] \in Nat /\ f[(s \ {x}) \ {y}] \in Nat
        BY <3>1, ReportAssumption DEF Criteria
      <4>5. ASSUME NEW a \in Nat, NEW b \in Nat, NEW r \in Nat
            PROVE  b + (a + r) = a + (b + r)
        OBVIOUS
      <4>6. Weights[y] + (Weights[x] + f[(s \ {x}) \ {y}])
            = Weights[x] + (Weights[y] + f[(s \ {x}) \ {y}])
        BY <4>4, <4>5
      <4>7. f[s] = Weights[y] + (Weights[x] + f[(s \ {x}) \ {y}])
        BY <3>1, <4>1, <4>3
      <4> QED BY <4>2, <4>6, <4>7
    <3> QED BY <3>2, <3>3
  <2> QED BY <2>1
<1>3. IsFiniteSet(Criteria)
  BY ReportAssumption DEF Criteria
<1> HIDE DEF P
<1>4. Inductive(P, Criteria)
  BY <1>1, <1>2 DEF Inductive
<1>5. SUBSET Criteria \subseteq P
  BY <1>3, <1>4, SetInduction
<1> QED BY <1>5 DEF P

\* Some criteria weigh no more than all.
LEMMA WeightBounded == ASSUME NEW S \in SUBSET Criteria PROVE Weight(S) \in 0 .. 100
<1>1. PICK f \in [SUBSET Criteria -> Nat] : \A s \in SUBSET Criteria : f[s] = Weighed(s, f)
  BY WeighedExists
<1> DEFINE P == {t \in SUBSET Criteria : \A s \in SUBSET t : f[s] <= f[t]}
<1>2. {} \in P
  <2>1. f[{}] \in Nat /\ \A s \in SUBSET {} : s = {}
    BY <1>1
  <2>2. f[{}] <= f[{}]
    BY <2>1
  <2> QED BY <2>1, <2>2, Zenon
<1>3. ASSUME NEW t \in SUBSET Criteria, t # {}, \A x \in t : t \ {x} \in P PROVE t \in P
  <2>1. ASSUME NEW s \in SUBSET t PROVE f[s] <= f[t]
    <3>1. f[s] \in Nat /\ f[t] \in Nat
      BY <1>1
    <3>2. CASE s = t
      BY <3>1, <3>2
    <3>3. CASE s # t
      <4>1. PICK x \in t : x \notin s
        BY <3>3
      <4>2. s \in SUBSET (t \ {x}) /\ t \ {x} \in P
        BY <1>3, <4>1
      <4>3. f[s] <= f[t \ {x}]
        BY <4>2
      <4>4. f[t] = Weights[x] + f[t \ {x}]
        BY <1>1, OneMore
      <4>5. Weights[x] \in Nat /\ f[t \ {x}] \in Nat
        BY <1>1, ReportAssumption DEF Criteria
      <4> QED BY <3>1, <4>3, <4>4, <4>5
    <3> QED BY <3>2, <3>3
  <2> QED BY <2>1
<1>4. IsFiniteSet(Criteria) /\ Weight(Criteria) = 100
  BY ReportAssumption DEF Criteria
<1> HIDE DEF P
<1>5. Inductive(P, Criteria)
  BY <1>2, <1>3 DEF Inductive
<1>6. SUBSET Criteria \subseteq P
  BY <1>4, <1>5, SetInduction
<1>7. f[S] <= f[Criteria] /\ f[S] \in Nat
  BY <1>1, <1>6 DEF P
<1>8. Weight(S) = f[S] /\ Weight(Criteria) = f[Criteria]
  BY <1>1, WeightIs
<1> QED BY <1>4, <1>7, <1>8

-----------------------------------------------------------------------------
(* The trends *)

CallFields  == {"phase", "created", "report"}
QueryFields == {"phase", "by", "topic", "start", "end", "asked", "runs", "evidence", "told"}

\* The calls of a window among the first n that were stored.
CountedOf(n, q) == {saved[i] : i \in {i \in 1 .. n : InWindow(saved[i], q)}}

\* Exactly the calls that were stored have a report, one the policies approved.
CallsFit ==
    /\ DOMAIN call = Calls /\ \A c \in Calls : DOMAIN call[c] = CallFields
    /\ saved \in Seq(Calls)
    /\ \A c \in Calls : call[c].phase = "saved" <=> \E i \in 1 .. Len(saved) : saved[i] = c
    /\ \A c \in Calls : call[c].phase = "saved" =>
          /\ call[c].report.priority \in Taxonomy[call[c].report.topic]
          /\ call[c].report.total \in 0 .. 100

\* The cohort a question was preflighted with is that of one moment since it was asked.
Backed(k) ==
    LET q == query[k] IN
    /\ \E n \in q.asked .. Len(saved) :
          q.runs = CountedOf(n, q) /\ q.evidence = OfTopic(q.runs, q.topic)
    /\ Cardinality(q.runs) \in MinSample .. MaxRecords /\ q.evidence # {}

QueryFits(k) ==
    LET q == query[k] IN
    /\ DOMAIN q = QueryFields
    /\ q.asked \in 0 .. Len(saved)
    /\ q.phase # "ended" => q.told # "trend"
    /\ q.phase = "agent" \/ q.told = "trend" => Backed(k)
    /\ q.told = "trend" /\ q.by = "assistant" => Cardinality(q.evidence) >= MinSample

ReportFits == CallsFit /\ DOMAIN query = Queries /\ \A k \in Queries : QueryFits(k)

\* Calls that are begun or stored change nothing of those already counted.
LEMMA CohortStays ==
    ASSUME CallsFit, NEW k \in Queries, QueryFits(k), query'[k] = query[k],
           saved' \in Seq(Calls), Len(saved') >= Len(saved),
           \A i \in 1 .. Len(saved) : saved'[i] = saved[i] /\ call'[saved[i]] = call[saved[i]]
    PROVE  QueryFits(k)'
<1> DEFINE q == query[k]
           l == Len(saved)
<1>1. l \in Nat /\ Len(saved') \in Nat /\ Len(saved') >= l
  BY DEF CallsFit
<1>2. ASSUME NEW n \in q.asked .. l, q.runs = CountedOf(n, q), q.evidence = OfTopic(q.runs, q.topic)
      PROVE  q.runs = CountedOf(n, q)' /\ q.evidence = OfTopic(q.runs, q.topic)'
  <2>0. q.asked \in 0 .. l
    BY DEF QueryFits
  <2> HIDE DEF l
  <2>1. n \in 0 .. l /\ 1 .. n \subseteq 1 .. l
    BY <1>1, <2>0
  <2>2. \A i \in 1 .. n : saved'[i] = saved[i] /\ call'[saved[i]] = call[saved[i]]
    BY <2>1 DEF l
  <2> PICK p : p = q
    OBVIOUS
  <2>3. \A i \in 1 .. n : InWindow(saved[i], p)' <=> InWindow(saved[i], p)
    BY <2>2 DEF InWindow
  <2>4. CountedOf(n, p)' = CountedOf(n, p)
    BY <2>2, <2>3 DEF CountedOf
  <2>5. \A c \in p.runs : call'[c] = call[c]
    BY <1>2, <2>2 DEF CountedOf
  <2>6. OfTopic(p.runs, p.topic)' = OfTopic(p.runs, p.topic)
    BY <2>5 DEF OfTopic
  <2> QED BY <1>2, <2>4, <2>6
<1>3. Backed(k) => Backed(k)'
  <2> SUFFICES ASSUME Backed(k) PROVE Backed(k)'
    OBVIOUS
  <2>1. PICK n \in q.asked .. l :
           q.runs = CountedOf(n, q) /\ q.evidence = OfTopic(q.runs, q.topic)
    BY DEF Backed
  <2>2. q.runs = CountedOf(n, q)' /\ q.evidence = OfTopic(q.runs, q.topic)'
    BY <1>2, <2>1
  <2>3. q' = q
    OBVIOUS
  <2>4. n \in q.asked .. Len(saved')
    <3>1. q.asked \in 0 .. l
      BY DEF QueryFits
    <3> HIDE DEF q, l
    <3> QED BY <1>1, <2>1, <3>1
  <2>5. Cardinality(q.runs) \in MinSample .. MaxRecords /\ q.evidence # {}
    BY DEF Backed
  <2> QED BY <2>2, <2>3, <2>4, <2>5 DEF Backed, CountedOf, OfTopic, InWindow
<1>4. q.asked \in 0 .. Len(saved')
  <2>1. q.asked \in 0 .. l
    BY DEF QueryFits
  <2> HIDE DEF q, l
  <2> QED BY <1>1, <2>1
<1> QED BY <1>3, <1>4 DEF QueryFits

LEMMA CohortsStay ==
    ASSUME ReportFits, UNCHANGED query, CallsFit',
           saved' \in Seq(Calls), Len(saved') >= Len(saved),
           \A i \in 1 .. Len(saved) : saved'[i] = saved[i] /\ call'[saved[i]] = call[saved[i]]
    PROVE  ReportFits'
BY CohortStays DEF ReportFits

LEMMA BeginFits == ASSUME ReportFits, NEW c \in Calls, Begin(c) PROVE ReportFits'
<1>1. /\ call'[c].phase = "running" /\ DOMAIN call' = Calls /\ DOMAIN call'[c] = CallFields
      /\ call[c].phase = "new" /\ \A d \in Calls \ {c} : call'[d] = call[d]
  BY DEF Begin, ReportFits, CallsFit, CallFields
<1>2. UNCHANGED <<saved, query>>
  BY DEF Begin
<1>3. CallsFit'
  <2>1. \A d \in Calls : DOMAIN call'[d] = CallFields
    BY <1>1 DEF ReportFits, CallsFit
  <2>2. \A d \in Calls : call'[d].phase = "saved" <=> call[d].phase = "saved"
    BY <1>1
  <2>3. \A d \in Calls : call'[d].phase = "saved" => call'[d] = call[d]
    BY <1>1
  <2> QED BY <1>1, <1>2, <2>1, <2>2, <2>3 DEF ReportFits, CallsFit
<1>4. \A i \in 1 .. Len(saved) : call'[saved[i]] = call[saved[i]]
  BY <1>1 DEF ReportFits, CallsFit
<1>5. Len(saved) \in Nat /\ saved \in Seq(Calls)
  BY DEF ReportFits, CallsFit
<1> QED BY <1>2, <1>3, <1>4, <1>5, CohortsStay

LEMMA AggregateFits ==
    ASSUME ReportFits, NEW c \in Calls, NEW transcript, NEW o, Aggregate(c, transcript, o)
    PROVE  ReportFits'
<1> DEFINE l == Len(saved)
<1>1. /\ call[c].phase = "running" /\ UNCHANGED query /\ saved \in Seq(Calls) /\ l \in Nat
      /\ DOMAIN call = Calls /\ DOMAIN call[c] = CallFields
      /\ \A i \in 1 .. l : saved[i] \in Calls \ {c}
  BY DEF Aggregate, ReportFits, CallsFit
<1>2. CASE Approved(transcript, o)
  <2>1. /\ saved' = Append(saved, c)
        /\ call' = [call EXCEPT ![c].phase = "saved", ![c].report = Report(transcript, o)]
    BY <1>2 DEF Aggregate
  <2>2. /\ call'[c].phase = "saved" /\ call'[c].report = Report(transcript, o)
        /\ DOMAIN call' = Calls /\ DOMAIN call'[c] = CallFields
        /\ \A d \in Calls \ {c} : call'[d] = call[d]
    BY <1>1, <2>1 DEF CallFields
  <2>3. /\ saved' \in Seq(Calls) /\ Len(saved') = l + 1 /\ saved'[l + 1] = c
        /\ \A i \in 1 .. l : saved'[i] = saved[i]
    BY <1>1, <2>1
  <2>4. /\ Report(transcript, o).priority \in Taxonomy[Report(transcript, o).topic]
        /\ Report(transcript, o).total \in 0 .. 100
    <3> DEFINE met == {k \in DOMAIN Weights : o.quality[k].passed}
    <3>1. met \in SUBSET Criteria
      BY DEF Criteria
    <3>2. Report(transcript, o).total \in 0 .. 100
      BY <3>1, WeightBounded DEF Report, Total
    <3> QED BY <1>2, <3>2, ReportAssumption DEF Report, Approved, ClassificationApproved
  <2> HIDE DEF l
  <2>5. CallsFit'
    <3>1. \A d \in Calls : call'[d].phase = "saved" <=> \E i \in 1 .. Len(saved') : saved'[i] = d
      <4> TAKE d \in Calls
      <4>1. 1 .. Len(saved') = 1 .. l \cup {l + 1}
        BY <1>1, <2>3
      <4>2. CASE d = c
        BY <2>2, <2>3, <4>1, <4>2
      <4>3. CASE d # c
        <5>1. call[d].phase = "saved" <=> \E i \in 1 .. l : saved[i] = d
          BY DEF ReportFits, CallsFit, l
        <5> QED BY <2>2, <2>3, <4>1, <4>3, <5>1
      <4> QED BY <4>2, <4>3
    <3>2. \A d \in Calls : call'[d].phase = "saved" =>
             /\ call'[d].report.priority \in Taxonomy[call'[d].report.topic]
             /\ call'[d].report.total \in 0 .. 100
      BY <2>2, <2>4 DEF ReportFits, CallsFit
    <3>3. \A d \in Calls : DOMAIN call'[d] = CallFields
      BY <2>2 DEF ReportFits, CallsFit
    <3> QED BY <2>2, <2>3, <3>1, <3>2, <3>3 DEF CallsFit
  <2>6. \A i \in 1 .. l : call'[saved[i]] = call[saved[i]]
    BY <1>1, <2>2 DEF l
  <2> QED BY <1>1, <2>3, <2>5, <2>6, CohortsStay DEF l
<1>3. CASE ~Approved(transcript, o)
  <2>1. UNCHANGED saved /\ call' = [call EXCEPT ![c].phase = "failed"]
    BY <1>3 DEF Aggregate
  <2>2. /\ call'[c].phase = "failed" /\ DOMAIN call' = Calls /\ DOMAIN call'[c] = CallFields
        /\ \A d \in Calls \ {c} : call'[d] = call[d]
    BY <1>1, <2>1 DEF CallFields
  <2>3. CallsFit'
    BY <1>1, <2>1, <2>2 DEF ReportFits, CallsFit
  <2>4. \A i \in 1 .. l : call'[saved[i]] = call[saved[i]]
    BY <1>1, <2>2
  <2> QED BY <1>1, <2>1, <2>3, <2>4, CohortsStay
<1> QED BY <1>2, <1>3

\* A question moves alone.
LEMMA QueryMoves ==
    ASSUME ReportFits, NEW k \in Queries, NEW q, query' = [query EXCEPT ![k] = q],
           UNCHANGED <<call, saved>>, QueryFits(k)'
    PROVE  ReportFits'
<1>1. \A j \in Queries \ {k} : query'[j] = query[j]
  BY DEF ReportFits
<1>2. CallsFit'
  BY DEF ReportFits, CallsFit
<1>3. ASSUME NEW j \in Queries \ {k} PROVE QueryFits(j)'
  BY <1>1, CohortStays DEF ReportFits, CallsFit
<1> QED BY <1>2, <1>3 DEF ReportFits

LEMMA AnswerFits ==
    ASSUME ReportFits, NEW k \in Queries, NEW told, Answer(k, told), UNCHANGED <<call, saved>>,
           told = "trend" =>
              /\ query[k].phase = "agent"
              /\ query[k].by = "assistant" => Cardinality(query[k].evidence) >= MinSample
    PROVE  ReportFits'
<1> DEFINE q == [query[k] EXCEPT !.phase = "ended", !.told = told]
<1>1. QueryFits(k) /\ query' = [query EXCEPT ![k] = q]
  BY DEF Answer, ReportFits
<1>2. /\ query'[k].told = told /\ DOMAIN query'[k] = QueryFields /\ query'[k].phase = "ended"
      /\ query'[k].asked = query[k].asked /\ query'[k].runs = query[k].runs
      /\ query'[k].evidence = query[k].evidence /\ query'[k].topic = query[k].topic
      /\ query'[k].by = query[k].by
      /\ query'[k].start = query[k].start /\ query'[k].end = query[k].end
  BY <1>1 DEF QueryFits, QueryFields, ReportFits
<1>3. Backed(k) => Backed(k)'
  BY <1>2 DEF Backed, CountedOf, OfTopic, InWindow
<1>4. QueryFits(k)'
  BY <1>1, <1>2, <1>3 DEF QueryFits
<1> QED BY <1>1, <1>4, QueryMoves

LEMMA AskFits ==
    ASSUME ReportFits, NEW k \in Queries, NEW topic, NEW by, NEW start, NEW end,
           query[k].phase = "new", UNCHANGED <<call, saved>>,
           query' = [query EXCEPT ![k] =
              [@ EXCEPT !.phase = "asked", !.by = by, !.topic = topic,
                        !.start = start, !.end = end, !.asked = Len(saved)]]
    PROVE  ReportFits'
<1> DEFINE q == [query[k] EXCEPT !.phase = "asked", !.by = by, !.topic = topic,
                                 !.start = start, !.end = end, !.asked = Len(saved)]
<1>1. QueryFits(k) /\ query' = [query EXCEPT ![k] = q]
  BY DEF ReportFits
<1>2. /\ DOMAIN query'[k] = QueryFields /\ query'[k].phase = "asked"
      /\ query'[k].told = query[k].told /\ query'[k].asked = Len(saved)
  BY <1>1 DEF QueryFits, QueryFields, ReportFits
<1>3. Len(saved) \in 0 .. Len(saved) /\ query[k].told # "trend"
  BY <1>1 DEF QueryFits, ReportFits, CallsFit
<1>4. QueryFits(k)'
  BY <1>2, <1>3 DEF QueryFits
<1> QED BY <1>1, <1>4, QueryMoves

LEMMA PreflightFits == ASSUME ReportFits, NEW k \in Queries, Preflight(k) PROVE ReportFits'
<1> DEFINE runs     == Listed(query[k])
           evidence == OfTopic(runs, query[k].topic)
           q        == [query[k] EXCEPT !.phase = "agent", !.runs = runs, !.evidence = evidence]
<1>1. CASE TurnedDown(k)
  BY <1>1, AnswerFits DEF Preflight, TurnedDown
<1>2. CASE /\ query' = [query EXCEPT ![k] = q]
           /\ Cardinality(runs) \in MinSample .. MaxRecords /\ evidence # {}
  <2>1. QueryFits(k) /\ UNCHANGED <<call, saved>> /\ query[k].phase = "asked"
    BY DEF Preflight, ReportFits
  <2>2. /\ DOMAIN query'[k] = QueryFields /\ query'[k].phase = "agent"
        /\ query'[k].told = query[k].told /\ query'[k].asked = query[k].asked
        /\ query'[k].runs = runs /\ query'[k].evidence = evidence
        /\ query'[k].topic = query[k].topic
        /\ query'[k].start = query[k].start /\ query'[k].end = query[k].end
    BY <1>2, <2>1 DEF QueryFits, QueryFields, ReportFits
  <2>3. runs = CountedOf(Len(saved), query[k])
    <3>1. \A c \in Calls : call[c].phase = "saved" <=> \E i \in 1 .. Len(saved) : saved[i] = c
      BY DEF ReportFits, CallsFit
    <3>2. \A i \in 1 .. Len(saved) : saved[i] \in Calls
      BY DEF ReportFits, CallsFit
    <3> QED BY <3>1, <3>2 DEF Listed, CountedOf
  <2>4. Len(saved) \in query[k].asked .. Len(saved)
    <3>1. query[k].asked \in 0 .. Len(saved)
      BY <2>1 DEF QueryFits
    <3>2. Len(saved) \in Nat
      BY DEF ReportFits, CallsFit
    <3> QED BY <3>1, <3>2
  <2>5. CountedOf(Len(saved), query[k])' = CountedOf(Len(saved), query[k])
    BY <2>1, <2>2 DEF CountedOf, InWindow
  <2>6. OfTopic(query[k].runs, query[k].topic)' = evidence
    BY <2>1, <2>2 DEF OfTopic
  <2>7. Backed(k)'
    <3> HIDE DEF runs, evidence
    <3> QED BY <1>2, <2>1, <2>2, <2>3, <2>4, <2>5, <2>6 DEF Backed
  <2>8. query[k].told # "trend"
    BY <2>1 DEF QueryFits
  <2>9. QueryFits(k)'
    BY <2>1, <2>2, <2>7, <2>8 DEF QueryFits
  <2> HIDE DEF q
  <2> QED BY <1>2, <2>1, <2>9, QueryMoves
<1> QED BY <1>1, <1>2 DEF Preflight

LEMMA SubmitsFits ==
    ASSUME ReportFits, NEW k \in Queries, NEW ids, Submits(k, ids) PROVE ReportFits'
<1>1. PICK told : /\ Answer(k, told)
                  /\ told = IF ids = query[k].evidence THEN Shown(query[k]) ELSE "agent_failure"
  BY DEF Submits
<1>2. query[k].phase = "agent" /\ UNCHANGED <<call, saved>>
  BY DEF Submits
<1>3. Cardinality(query[k].evidence) \in Nat /\ MinSample \in Nat
  <2>1. Backed(k)
    BY <1>2 DEF ReportFits, QueryFits
  <2>2. PICK n \in query[k].asked .. Len(saved) :
           /\ query[k].runs = CountedOf(n, query[k])
           /\ query[k].evidence = OfTopic(query[k].runs, query[k].topic)
    BY <2>1 DEF Backed
  <2>3. query[k].asked \in 0 .. Len(saved) /\ saved \in Seq(Calls)
    BY DEF ReportFits, QueryFits, CallsFit
  <2>4. \A i \in 1 .. n : saved[i] \in Calls
    BY <2>2, <2>3
  <2>5. query[k].evidence \subseteq Calls
    BY <2>2, <2>4 DEF CountedOf, OfTopic
  <2> QED BY <2>5, FS_Subset, FS_CardinalityType, ReportAssumption
<1>4. told = "trend" /\ query[k].by = "assistant" => Cardinality(query[k].evidence) >= MinSample
  BY <1>1, <1>3 DEF Shown
<1> QED BY <1>1, <1>2, <1>4, AnswerFits

LEMMA ReportMoves ==
    ASSUME [Next]_vars PROVE ReportStep \/ ReportEnvironment \/ UNCHANGED reportVars
BY DEF Next, vars, Receive, Fetching, Transcribing, Reply, Chats, Chat, Names, Reports, Agents,
       AnalysisFails

LEMMA ReportStepFits == ASSUME ReportFits, ReportStep PROVE ReportFits'
<1>1. ASSUME NEW k \in Queries, AgentFails(k) PROVE ReportFits'
  BY <1>1, AnswerFits DEF AgentFails
<1> QED BY <1>1, AggregateFits, PreflightFits, SubmitsFits DEF ReportStep

LEMMA ReportEnvironmentFits == ASSUME ReportFits, ReportEnvironment PROVE ReportFits'
<1>1. ASSUME NEW k \in Queries, NEW topic \in Topics, AskAssistant(k, topic) PROVE ReportFits'
  BY <1>1, AnswerFits, AskFits DEF AskAssistant
<1>2. ASSUME NEW k \in Queries, NEW topic \in Topics, NEW start, NEW end,
             AskApi(k, topic, start, end)
      PROVE  ReportFits'
  BY <1>2, AnswerFits, AskFits DEF AskApi
<1>3. CASE Pass
  BY <1>3 DEF Pass, ReportFits, CallsFit, QueryFits, Backed, CountedOf, OfTopic, InWindow
<1> QED BY <1>1, <1>2, <1>3, BeginFits DEF ReportEnvironment

\* TrendBacked (TrendsAgent, aggregate_analysis): a trend that is shown counts the
\* calls one moment of the request had stored for its window, as evidence exactly
\* those of its topic, and no cohort below the minimum.
THEOREM TrendsAreBacked == Spec => []TrendBacked
<1>1. Init => ReportFits
  <2> SUFFICES ASSUME Init PROVE ReportFits
    OBVIOUS
  <2>1. /\ call = [c \in Calls |-> [phase |-> "new", created |-> 0, report |-> "none"]]
        /\ saved = <<>>
        /\ query = [k \in Queries |->
              [phase |-> "new", by |-> "none", topic |-> "none", start |-> 0, end |-> 0,
               asked |-> 0, runs |-> {}, evidence |-> {}, told |-> "none"]]
    BY DEF Init, InitReport
  <2>2. CallsFit
    BY <2>1 DEF CallsFit, CallFields
  <2>3. \A k \in Queries : QueryFits(k)
    BY <2>1 DEF QueryFits, QueryFields
  <2> QED BY <2>1, <2>2, <2>3 DEF ReportFits
<1>2. ReportFits /\ [Next]_vars => ReportFits'
  <2>1. ReportFits /\ UNCHANGED reportVars => ReportFits'
    BY DEF reportVars, ReportFits, CallsFit, QueryFits, Backed, CountedOf, OfTopic, InWindow
  <2> QED BY <2>1, ReportMoves, ReportStepFits, ReportEnvironmentFits
<1>3. ReportFits => TrendBacked
  <2> SUFFICES ASSUME ReportFits, NEW k \in Queries, query[k].told = "trend"
               PROVE  LET q == query[k]
                          Counted(n) == {saved[i] : i \in {i \in 1 .. n : InWindow(saved[i], q)}}
                      IN /\ \E n \in q.asked .. Len(saved) :
                               /\ q.runs = Counted(n)
                               /\ q.evidence = {c \in Counted(n) : call[c].report.topic = q.topic}
                         /\ Cardinality(q.runs) \in MinSample .. MaxRecords /\ q.evidence # {}
                         /\ \A c \in q.runs :
                               /\ call[c].report.priority \in Taxonomy[call[c].report.topic]
                               /\ call[c].report.total \in 0 .. 100
                         /\ q.by = "assistant" => Cardinality(q.evidence) >= MinSample
    BY DEF TrendBacked
  <2>1. QueryFits(k) /\ Backed(k)
    BY DEF ReportFits, QueryFits
  <2>2. PICK n \in query[k].asked .. Len(saved) :
           /\ query[k].runs = CountedOf(n, query[k])
           /\ query[k].evidence = OfTopic(query[k].runs, query[k].topic)
    BY <2>1 DEF Backed
  <2>3. query[k].asked \in 0 .. Len(saved) /\ saved \in Seq(Calls)
    BY <2>1 DEF ReportFits, QueryFits, CallsFit
  <2>4. \A i \in 1 .. n : saved[i] \in Calls /\ call[saved[i]].phase = "saved"
    <3>1. \A i \in 1 .. n : i \in 1 .. Len(saved) /\ saved[i] \in Calls
      BY <2>2, <2>3
    <3> QED BY <3>1 DEF ReportFits, CallsFit
  <2>5. \A c \in query[k].runs :
           /\ call[c].report.priority \in Taxonomy[call[c].report.topic]
           /\ call[c].report.total \in 0 .. 100
    <3>1. \A c \in query[k].runs : c \in Calls /\ call[c].phase = "saved"
      BY <2>2, <2>4 DEF CountedOf
    <3> QED BY <3>1 DEF ReportFits, CallsFit
  <2> QED BY <2>1, <2>2, <2>5 DEF QueryFits, Backed, CountedOf, OfTopic
<1> QED BY <1>1, <1>2, <1>3, PTL DEF Spec

=============================================================================
