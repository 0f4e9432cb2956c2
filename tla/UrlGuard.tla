------------------------------ MODULE UrlGuard ------------------------------
(***************************************************************************)
(* Which addresses may be scraped (rejection_reason) and which requests    *)
(* the browser may send (request_is_safe), of service/url_guard.py.  Pure  *)
(* definitions, without state.                                             *)
(*                                                                         *)
(* An address is a record of what the two tell apart:                      *)
(*   empty, tooLong, badChars   the string itself                          *)
(*   scheme    what _SCHEME_RE finds, in lower case                        *)
(*   split     the scheme urlsplit() finds; "raises" for a ValueError      *)
(*   userinfo, host, port, colon   the parts; colon: an empty port         *)
(* A host is the labels of a name, or an IP address in its usual spelling  *)
(* or in one of the numeric spellings that browsers take for an address.   *)
(***************************************************************************)
EXTENDS Integers, Sequences, SequencesExt

CONSTANT None    \* Python's None

\* The codes of rejection_reason().
Reasons == {"empty", "too_long", "bad_chars", "no_scheme", "bad_scheme", "bad_url",
            "userinfo", "no_host", "ip_literal", "bad_host", "bad_port"}

ASSUME NoneAssumption == None \notin Reasons

\* ALLOWED_HOSTS, by their first label: site_of() returns it.
Sites == {"olx", "otomoto", "otodom"}

Domain(site) == <<site, "pl">>

DefaultPorts == [http |-> 80, https |-> 443]

Spellings == {"name", "ip", "numeric"}

-----------------------------------------------------------------------------
(* Addresses that may be scraped.                                          *)

\* hostname.endswith("." + suffix).
Below(host, suffix) ==
  /\ Len(host.labels) > Len(suffix)
  /\ \A i \in DOMAIN suffix :
       host.labels[Len(host.labels) - Len(suffix) + i] = suffix[i]

\* allowed_host(): the name of a site or a subdomain of it, without the dot
\* that may end a name.
Belongs(host, site) ==
  /\ host.spelling = "name" /\ ~host.finalDot
  /\ host.labels = Domain(site) \/ Below(host, Domain(site))

\* _is_ip_literal(): with a final dot it is not one here.
IsIpLiteral(host) == host.spelling # "name" /\ ~host.finalDot

\* _HOSTNAME_RE: two labels or more, each of the right characters and length.
IsHostname(host) ==
  /\ host.spelling = "name" /\ ~host.finalDot
  /\ host.wellFormed /\ Len(host.labels) > 1

\* rejection_reason(), in the order of its checks.
RejectionReason(a) ==
  IF a.empty THEN "empty"
  ELSE IF a.tooLong THEN "too_long"
  ELSE IF a.badChars THEN "bad_chars"
  ELSE IF a.scheme = None THEN "no_scheme"
  ELSE IF a.scheme \notin DOMAIN DefaultPorts THEN "bad_scheme"
  ELSE IF a.split # a.scheme THEN "bad_url"
  ELSE IF a.userinfo THEN "userinfo"
  ELSE IF a.host = None THEN "no_host"
  ELSE IF IsIpLiteral(a.host) THEN "ip_literal"
  ELSE IF ~(IsHostname(a.host) /\ \E site \in Sites : Belongs(a.host, site)) THEN "bad_host"
  ELSE IF a.colon \/ a.port \notin {None, DefaultPorts[a.scheme]} THEN "bad_port"
  ELSE None

\* is_allowed_url().
IsAllowed(a) == RejectionReason(a) = None

\* site_of(): None for an address that does not parse or of another host.
SiteOf(a) ==
  IF a.split # "raises" /\ a.host # None /\ \E site \in Sites : Belongs(a.host, site)
    THEN CHOOSE site \in Sites : Belongs(a.host, site)
    ELSE None

-----------------------------------------------------------------------------
(* Requests the browser may send.                                          *)

\* _ip_is_public(): an IPv4 address within an IPv6 one is what counts.
IsPublic(ip) ==
  LET seen == IF ip.v4 # None THEN ip.v4 ELSE ip
  IN seen.global /\ ~seen.multicast

\* _literal_ip() of a host without its final dots: None for a name.  A numeric
\* spelling that cannot be parsed counts as 0.0.0.0.
LiteralIp(host) ==
  IF host.spelling = "name" THEN None
  ELSE IF host.ip = None THEN [global |-> FALSE, multicast |-> FALSE, v4 |-> None]
  ELSE host.ip

InternalSuffixes == {<<"localhost">>, <<"local">>, <<"internal">>, <<"localdomain">>,
                     <<"home", "arpa">>, <<"lan">>}

\* host_is_blocked_statically(): whatever final dots it has.  A single label is
\* looked up in search domains and hosts files.
HostIsBlockedStatically(host) ==
  \/ host = None
  \/ LiteralIp(host) # None /\ ~IsPublic(LiteralIp(host))
  \/ /\ LiteralIp(host) = None
     /\ \/ Len(host.labels) < 2
        \/ \E suffix \in InternalSuffixes : Below(host, suffix)

\* _resolves_only_to_public(), of the addresses that the lookup returns, None
\* if it raises.  (The cache of the answers is left out.)
ResolvesOnlyToPublic(answers) ==
  answers \notin {None, {}} /\ \A ip \in answers : IsPublic(ip)

\* request_is_safe(); behind a proxy nothing is looked up.
RequestIsSafe(a, resolveDns, answers) ==
  \/ a.split \in {"data", "blob", "about"}
  \/ /\ a.split \in {"http", "https", "ws", "wss"}
     /\ ~HostIsBlockedStatically(a.host)
     /\ IsIpLiteral(a.host) \/ ~resolveDns \/ ResolvesOnlyToPublic(answers)

\* _block_unneeded_requests(): whether a request for such a resource goes on.
Continues(a, resource, resolveDns, answers) ==
  /\ RequestIsSafe(a, resolveDns, answers)
  /\ resource \notin {"image", "media", "font"}
=============================================================================
