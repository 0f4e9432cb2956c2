--------------------------- MODULE UrlGuardProofs ---------------------------
(***************************************************************************)
(* The two layers of url_guard agree: an address that rejection_reason()   *)
(* accepts is of one of the sites, and none of its requests is refused     *)
(* before a lookup.                                                        *)
(***************************************************************************)
EXTENDS UrlGuard, TLAPS

\* What rejection_reason() has found out of an address it accepts.
LEMMA Accepted ==
  ASSUME NEW a, IsAllowed(a)
  PROVE  /\ a.scheme \in {"http", "https"} /\ a.split = a.scheme
         /\ a.host # None
         /\ IsHostname(a.host)
         /\ \E site \in Sites : Belongs(a.host, site)
         /\ a.port \in {None, DefaultPorts[a.scheme]}
<1>1. RejectionReason(a) = None
  BY DEF IsAllowed
<1>2. /\ "empty" # None /\ "too_long" # None /\ "bad_chars" # None /\ "no_scheme" # None
      /\ "bad_scheme" # None /\ "bad_url" # None /\ "userinfo" # None /\ "no_host" # None
      /\ "ip_literal" # None /\ "bad_host" # None /\ "bad_port" # None
  BY NoneAssumption DEF Reasons
<1>3. /\ a.scheme \in DOMAIN DefaultPorts /\ a.split = a.scheme
      /\ a.host # None /\ IsHostname(a.host) /\ \E site \in Sites : Belongs(a.host, site)
      /\ a.port \in {None, DefaultPorts[a.scheme]}
  BY <1>1, <1>2 DEF RejectionReason
<1>4. DOMAIN DefaultPorts = {"http", "https"}
  BY DEF DefaultPorts
<1> QED BY <1>3, <1>4

\* A name of a site ends in "pl".
LEMMA LastLabel ==
  ASSUME NEW host, host.labels \in Seq(STRING),
         NEW site \in Sites, Belongs(host, site)
  PROVE  Len(host.labels) >= 2 /\ host.labels[Len(host.labels)] = "pl"
<1>1. Len(Domain(site)) = 2 /\ Domain(site)[2] = "pl" /\ 2 \in DOMAIN Domain(site)
  BY DEF Domain
<1>2. CASE host.labels = Domain(site)
  <2>1. Len(host.labels) = 2 /\ host.labels[2] = "pl"
    BY <1>1, <1>2
  <2> QED BY <2>1
<1>3. CASE Below(host, Domain(site))
  <2>1. host.labels[Len(host.labels) - 2 + 2] = "pl"
    BY <1>1, <1>3 DEF Below
  <2>2. Len(host.labels) \in Nat /\ Len(host.labels) > 2
    BY <1>1, <1>3 DEF Below
  <2> QED BY <2>1, <2>2
<1> QED BY <1>2, <1>3 DEF Belongs

\* A name below an internal suffix ends otherwise.
LEMMA InternalLabel ==
  ASSUME NEW host, host.labels \in Seq(STRING),
         NEW suffix \in InternalSuffixes, Below(host, suffix)
  PROVE  host.labels[Len(host.labels)] # "pl"
<1>1. /\ Len(suffix) \in DOMAIN suffix /\ Len(suffix) \in Nat
      /\ suffix[Len(suffix)] # "pl"
  <2>1. CASE suffix = <<"home", "arpa">>
    BY <2>1
  <2>2. CASE \E name \in {"localhost", "local", "internal", "localdomain", "lan"} :
             suffix = <<name>>
    BY <2>2
  <2> QED BY <2>1, <2>2 DEF InternalSuffixes
<1>2. host.labels[Len(host.labels) - Len(suffix) + Len(suffix)] = suffix[Len(suffix)]
  BY <1>1 DEF Below
<1>3. Len(host.labels) \in Nat
  OBVIOUS
<1> QED BY <1>1, <1>2, <1>3

-----------------------------------------------------------------------------
(* Theorems                                                                *)

\* The browser is allowed to request every address the crawler is allowed to
\* open: behind a proxy at once, otherwise if the lookup finds public
\* addresses only.
THEOREM AcceptedIsRequested ==
  ASSUME NEW a, IsAllowed(a), a.host.labels \in Seq(STRING),
         NEW answers, ResolvesOnlyToPublic(answers), NEW resolveDns \in BOOLEAN
  PROVE  RequestIsSafe(a, resolveDns, answers)
<1>1. /\ a.split \in {"http", "https"} /\ a.host # None
      /\ a.host.spelling = "name" /\ Len(a.host.labels) > 1
      /\ \E site \in Sites : Belongs(a.host, site)
  BY Accepted DEF IsHostname
<1>2. LiteralIp(a.host) = None
  BY <1>1 DEF LiteralIp
<1>3. \A suffix \in InternalSuffixes : ~Below(a.host, suffix)
  BY <1>1, LastLabel, InternalLabel
<1>4. ~HostIsBlockedStatically(a.host)
  BY <1>1, <1>2, <1>3 DEF HostIsBlockedStatically
<1> QED BY <1>1, <1>4 DEF RequestIsSafe

\* An address that is accepted has a site: the crawler never falls back to
\* "olx" for it.
THEOREM AcceptedHasSite ==
  ASSUME NEW a, IsAllowed(a)
  PROVE  SiteOf(a) \in Sites /\ Belongs(a.host, SiteOf(a))
<1>1. /\ a.split # "raises" /\ a.host # None
      /\ \E site \in Sites : Belongs(a.host, site)
  BY Accepted
<1> QED BY <1>1 DEF SiteOf
=============================================================================
