------------------------------ MODULE UrlFetch ------------------------------
(***************************************************************************)
(* The fetch of a page that becomes a document:                            *)
(*   backend/app/services/url_fetch_service.py                             *)
(*                                                                         *)
(* A URL is checked, its host resolved and every address checked before    *)
(* one of them is connected to; each redirect is checked like the first    *)
(* URL.  Name servers and web servers may answer differently every time.   *)
(***************************************************************************)
EXTENDS Integers, Sequences, FiniteSets, SequencesExt

CONSTANTS
    Requests,     \* concurrent requests
    Urls,         \* Urls[u]: form of the URL, answers of the resolver, of the server
    Public,       \* addresses that may be contacted
    MaxRedirects

ASSUME FetchAssumption ==
    /\ MaxRedirects \in Nat
    /\ \A u \in DOMAIN Urls :
         /\ \A addresses \in Urls[u].resolved : addresses \in Seq(Range(addresses))
         /\ \A response \in Urls[u].responses :
              response.kind = "redirect" => response.to \in DOMAIN Urls \cup {0}

VARIABLE
    fetch         \* fetch[r]: where the fetch of request r is, addresses it tried

NotFetching == [pc |-> "none", url |-> 0, addresses |-> <<>>, redirects |-> 0, page |-> <<>>,
                contacted |-> {}]
FetchInit == fetch = [r \in Requests |-> NotFetching]

\* _validate_url: scheme, credentials, host and port, then all addresses.
ValidUrl(u, addresses) ==
    Urls[u].allowed /\ addresses # <<>> /\ Range(addresses) \subseteq Public

\* A request becomes f, after trying the addresses contacted.
Become(r, f, contacted) == fetch' = [fetch EXCEPT ![r] = [f EXCEPT !.contacted = contacted]]
Refuse(r, contacted) == Become(r, [NotFetching EXCEPT !.pc = "refused"], contacted)

\* Checked anew, whether typed in or from a redirect.
Visit(r, u, redirects, contacted) ==
    \E addresses \in Urls[u].resolved :
        IF ValidUrl(u, addresses)
        THEN Become(r, [NotFetching EXCEPT !.pc = "connect", !.url = u, !.addresses = addresses,
                                           !.redirects = redirects], contacted)
        ELSE Refuse(r, contacted)

BeginFetch(r, u) ==
    /\ fetch[r].pc = "none"
    /\ Visit(r, u, 0, {})

\* The loop of fetch: a redirect, a page, or an answer that is refused for its
\* status, its type, its size or what is in it.
Answered(r, response, contacted) ==
    LET redirects == fetch[r].redirects
    IN CASE response.kind = "redirect" ->
              IF redirects >= MaxRedirects \/ response.to = 0 THEN Refuse(r, contacted)
              ELSE Visit(r, response.to, redirects + 1, contacted)
         [] response.kind = "page" ->
              Become(r, [NotFetching EXCEPT !.pc = "fetched", !.page = response.page], contacted)
         [] OTHER -> Refuse(r, contacted)

\* Mutant: the name is resolved once more to connect.
ConnectByName(r) ==
    /\ fetch[r].pc = "connect"
    /\ \E addresses \in Urls[fetch[r].url].resolved, response \in Urls[fetch[r].url].responses :
          Answered(r, response, fetch[r].contacted \cup Range(addresses))

\* _safe_stream: addresses in their order until one accepts the connection.
Connect(r) ==
    LET addresses == fetch[r].addresses
        tried(n) == fetch[r].contacted \cup {addresses[k] : k \in 1..n}
    IN /\ fetch[r].pc = "connect"
       /\ \/ Refuse(r, tried(Len(addresses)))
          \/ \E n \in DOMAIN addresses, response \in Urls[fetch[r].url].responses :
                Answered(r, response, tried(n))

\* The request answers with an error.
GiveUpFetch(r) ==
    /\ fetch[r].pc = "refused"
    /\ fetch' = [fetch EXCEPT ![r] = NotFetching]

-----------------------------------------------------------------------------
\* Only addresses that were checked are connected to, however often name
\* servers change their answers between the check, the connection and the
\* redirects, and redirects come to an end (_validate_url, _safe_stream).
OnlyCheckedContacted ==
    \A r \in Requests :
        fetch[r].contacted \subseteq Public /\ fetch[r].redirects <= MaxRedirects
=============================================================================
