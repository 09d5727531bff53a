----------------------------- MODULE RemoteFetch -----------------------------
(***************************************************************************)
(* SafeUrlFetcher (workflow/fetch.py): the media of a URL, over several    *)
(* redirects, each hop resolved anew, checked and pinned to one address.   *)
(* DNS may answer differently every time; the far server answers as it     *)
(* likes.  A URL stands for what _normalize_url and the host tests see of  *)
(* it; sizes count chunks.                                                 *)
(***************************************************************************)
EXTENDS Integers, Sequences, FiniteSets, Records

CONSTANTS Hosts, LocalHosts,             \* names refused without a lookup
          Addresses, PublicAddresses,
          MaxRedirects, MaxSize,         \* policy.max_redirects, policy.max_bytes
          Absent

ASSUME FetchAssumption ==
    /\ LocalHosts \subseteq Hosts /\ PublicAddresses \subseteq Addresses /\ Addresses # {}
    /\ MaxRedirects \in Nat /\ MaxSize \in Nat \ {0}
    /\ Absent # "media"

VARIABLES fetch,      \* the call of fetch
          dns,        \* what each host resolves to now
          dialled     \* history: the addresses connected to

fetchVars == <<fetch, dns, dialled>>

Urls      == [host : Hosts, wellFormed : BOOLEAN]
Redirects == [kind : {"redirect"}, to : Urls \cup {Absent}]
Bodies    == [kind : {"ok"}, audio : BOOLEAN, declared : {Absent} \cup 0 .. MaxSize + 1,
              chunks : 0 .. MaxSize + 1]
Replies   == Redirects \cup Bodies \cup {[kind |-> "status"]}
Lookups   == {<<a>> : a \in Addresses} \cup {<<a, b>> : a, b \in Addresses}

NewFetch == [phase |-> "new", url |-> Absent, hop |-> 0, target |-> Absent,
             reply |-> Absent, read |-> 0, result |-> Absent]

InitFetch(bindings) ==
    /\ fetch = NewFetch
    /\ dns \in bindings
    /\ dialled = {}

Set(r) == fetch' = Updated(fetch, r)
Fail(failure) == Set([phase |-> "ended", result |-> failure])

\* _normalize_url, of the source and of every Location.
Go(url, hop) ==
    IF url.wellFormed
    THEN Set([phase |-> "resolving", url |-> url, hop |-> hop])
    ELSE Fail("invalid_url")

Fetch(url) ==
    /\ fetch.phase = "new"
    /\ Go(url, 0)
    /\ UNCHANGED <<dns, dialled>>

\* _is_public_address: one address of another kind blocks the host.
Public(lookup) == \A i \in DOMAIN lookup : lookup[i] \in PublicAddresses

\* _is_metadata_hostname: names that are refused without a lookup.
LocalName(host) == host \in LocalHosts

\* _resolve_pinned_target.
Resolve ==
    /\ fetch.phase = "resolving"
    /\ IF LocalName(fetch.url.host) \/ ~Public(dns[fetch.url.host])
       THEN Fail("blocked_address")
       ELSE Set([phase |-> "connecting",
                 target |-> [host |-> fetch.url.host, address |-> dns[fetch.url.host][1]]])
    /\ UNCHANGED <<dns, dialled>>

\* Mutant: the name is looked up again to connect.
DialledByName(target) == dns[target.host][1]

\* _PinnedNetworkBackend.connect_tcp.
Dialled(target) == target.address

\* PinnedAddressTransport carries requests of its own host only.
SameOrigin(target, url) == target.host = url.host

\* _request: the one connection of a hop, and the head of its answer.
Connect(reply) ==
    /\ fetch.phase = "connecting" /\ SameOrigin(fetch.target, fetch.url)
    /\ Set([phase |-> "answered", reply |-> reply])
    /\ dialled' = dialled \cup {Dialled(fetch.target)}
    /\ UNCHANGED dns

Redirected ==
    /\ fetch.phase = "answered" /\ fetch.reply.kind = "redirect"
    /\ IF fetch.hop >= MaxRedirects \/ fetch.reply.to = Absent
       THEN Fail("redirect_limit")
       ELSE Go(fetch.reply.to, fetch.hop + 1)
    /\ UNCHANGED <<dns, dialled>>

\* The checks of the head, in their order.
Accepted ==
    /\ fetch.phase = "answered" /\ fetch.reply.kind # "redirect"
    /\ IF fetch.reply.kind = "status" THEN Fail("unavailable")
       ELSE IF ~fetch.reply.audio THEN Fail("unsupported_media")
       ELSE IF fetch.reply.declared # Absent /\ fetch.reply.declared > MaxSize
            THEN Fail("payload_too_large")
       ELSE Set([phase |-> "reading", read |-> 0])
    /\ UNCHANGED <<dns, dialled>>

\* _read_bounded: a body may be longer or shorter than it was declared.
ReadChunk ==
    /\ fetch.phase = "reading"
    /\ IF fetch.read < fetch.reply.chunks
       THEN IF fetch.read + 1 > MaxSize
            THEN Fail("payload_too_large")
            ELSE Set([read |-> fetch.read + 1])
       ELSE IF fetch.read = 0 THEN Fail("unsupported_media")
       ELSE Set([phase |-> "ended", result |-> "media"])
    /\ UNCHANGED <<dns, dialled>>

\* A lookup, connection or read that fails, and the timeout over all hops.
Breaks ==
    /\ fetch.phase \in {"resolving", "connecting", "answered", "reading"}
    /\ \E failure \in {"unavailable", "timeout"} : Fail(failure)
    /\ UNCHANGED <<dns, dialled>>

Rebind(host, lookup) ==
    /\ fetch.phase \in {"resolving", "connecting", "answered"}
    /\ dns' = [dns EXCEPT ![host] = lookup]
    /\ UNCHANGED <<fetch, dialled>>

FetchStep ==
    \/ \E url \in Urls : Fetch(url)
    \/ Resolve
    \/ \E reply \in Replies : Connect(reply)
    \/ Redirected \/ Accepted \/ ReadChunk \/ Breaks
FetchEnvironment == \E host \in Hosts, lookup \in Lookups : Rebind(host, lookup)

\* _map_fetch_failure of the workflow.
FetchCode(result) ==
    CASE result \in {"invalid_url", "blocked_address", "redirect_limit"} -> "invalid_url"
      [] result = "payload_too_large" -> "payload_too_large"
      [] result = "unsupported_media" -> "unsupported_media"
      [] result = "timeout"           -> "deadline_exceeded"
      [] OTHER                        -> "service_unavailable"

-----------------------------------------------------------------------------
\* However often the URL redirects and its names are bound anew, connections go
\* to checked addresses only, over no more hops than the policy allows; what
\* comes back is a whole body within the limit.
OnlyCheckedHosts ==
    /\ dialled \subseteq PublicAddresses
    /\ fetch.hop <= MaxRedirects
    /\ fetch.result = "media" =>
          fetch.read = fetch.reply.chunks /\ fetch.read \in 1 .. MaxSize
=============================================================================
