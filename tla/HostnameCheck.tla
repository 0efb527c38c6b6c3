---------------------------- MODULE HostnameCheck ----------------------------
(***************************************************************************)
(* Does the DNS zone of the hostname an identity claims name the identity? *)
(* The check a person asks for, the refresh a stale verdict starts in the  *)
(* background, the cache file both write, and the records they read.       *)
(*                                                                         *)
(* A check asks the resolver several times and reads the cache before it   *)
(* writes it; in between the profile may name another hostname, the zone   *)
(* may change, another check may finish and the node may stop.             *)
(***************************************************************************)
EXTENDS Naturals, Sequences, FiniteSets, SequencesExt

CONSTANTS
    Self,         \* the identity whose hostname is checked
    Hostnames,    \* the hostnames its profile may claim
    NoHost,       \* a profile that claims none
    Names,        \* the names the zones hold
    NoName,
    Label,        \* [Hostnames -> the name _mabel.<hostname>.]
    Zones,        \* the contents DNS may have: [Names -> [txt, cname]]
    Requests,     \* the requests a behaviour makes
    Junk,         \* text that parses neither as an identity nor as an endpoint
    MaxLinks,     \* CNAME links a check follows itself
    MaxEndpoints, \* endpoints one label may name
    FreshFor,     \* how long a verdict is fresh
    MaxClock,
    MaxEdits      \* changes of the profile and of the zones in one behaviour

ASSUME CheckAssumption ==
    /\ Label \in [Hostnames -> Names]
    /\ MaxLinks \in Nat /\ MaxEndpoints \in Nat /\ FreshFor \in Nat
    /\ MaxClock \in Nat /\ MaxEdits \in Nat
    /\ NoHost \notin Hostnames /\ NoName \notin Names
    /\ \A z \in Zones, n \in Names :
          /\ z[n].txt \in Seq(ToSet(z[n].txt))
          /\ z[n].cname \in Names \cup {NoName}

VARIABLES
    clock,
    claim,       \* the hostname the stored profile claims
    zone,
    entry,       \* verification/<identity>.json
    refreshing,  \* a background check is under way, as the service believes
    request,     \* [Requests -> where the request stands]
    edits,       \* how often the profile or the zones changed
    asked,       \* history: hostnames a person asked to check
    published,   \* history: the names at which the zone has named Self
    aliases      \* history: the aliases the zone has held

vars == <<clock, claim, zone, entry, refreshing, request, edits, asked, published, aliases>>

-----------------------------------------------------------------------------
(* The records at one name.                                                *)

Claim(id) == [kind |-> "mabel", id |-> id]
Lists(endpoints) == [kind |-> "endpoints", list |-> endpoints]
Other == [kind |-> "other"]

\* Where the records of one kind stand in the answer.
Of(kind, records) == {i \in DOMAIN records : records[i].kind = kind}
NamesIdentity(records, id) == Claim(id) \in ToSet(records)

Classify(records) ==
    CASE NamesIdentity(records, Self) -> "verified"
      [] ~NamesIdentity(records, Self) /\ Of("mabel", records) # {} -> "mismatched"
      [] OTHER -> "unverified"

\* A record that breaks a rule is discarded whole.
RecordEndpoints(list) ==
    IF Junk \in ToSet(list) \/ ~IsInjective(list) \/ Len(list) > MaxEndpoints
    THEN {} ELSE ToSet(list)

\* Mutant: records are read until the label is full.
EndpointsUntilFull(records) ==
    LET readUpTo[i \in 0 .. Len(records)] ==
            IF i = 0 THEN {}
            ELSE LET more == IF records[i].kind = "endpoints"
                             THEN readUpTo[i - 1] \cup RecordEndpoints(records[i].list)
                             ELSE readUpTo[i - 1]
                 IN  IF Cardinality(more) > MaxEndpoints THEN readUpTo[i - 1] ELSE more
    IN  readUpTo[Len(records)]

\* The union of what the records list, or nothing when it is too large.  It
\* is sorted by rendered id, so a set stands for the list.
EndpointsAtLabel(records) ==
    LET all == UNION {RecordEndpoints(records[i].list) : i \in Of("endpoints", records)}
    IN  IF Cardinality(all) > MaxEndpoints THEN {} ELSE all

\* A hostname the caller typed: the first claim that parses is the identity.
CallerZone(records) ==
    LET parsed == {i \in Of("mabel", records) : records[i].id # Junk}
    IN  [identity |-> IF parsed = {} THEN Junk ELSE records[Min(parsed)].id,
         claims |-> Cardinality(Of("mabel", records)),
         endpoints |-> IF parsed = {} THEN {} ELSE EndpointsAtLabel(records)]

\* A hostname some identity claims: only if the label names the identity too.
EndpointsForClaim(records, id) ==
    IF NamesIdentity(records, id) THEN EndpointsAtLabel(records) ELSE {}

\* What GET /api/resolve answers for a typed hostname whose label was read.
Resolve(records) ==
    LET found == CallerZone(records)
    IN  CASE found.identity # Junk -> "resolved"
          [] found.identity = Junk /\ found.claims = 0 -> "no_record"
          [] OTHER -> "mismatched_records"

-----------------------------------------------------------------------------
(* The cache.                                                              *)

NoEntry == [hostname |-> NoHost, status |-> "none", checked |-> 0, verified |-> <<>>,
            failed |-> <<>>]

Decisive(status) == status \in {"verified", "mismatched"}

\* Mutant: the verdict of another hostname counts.
CoversAny(e, h) == e # NoEntry

Covers(e, h) == e # NoEntry /\ e.hostname = h

First(h, status, now) ==
    [hostname |-> h, status |-> status, checked |-> now,
     verified |-> IF status = "verified" THEN <<now>> ELSE <<>>, failed |-> <<>>]

\* Mutant: a check that failed replaces what was known.
MergeAlways(e, h, status, now) == First(h, status, now)

\* A check that failed is noted beside a decisive verdict on the same hostname.
Merge(e, h, status, now) ==
    IF ~Covers(e, h) THEN First(h, status, now)
    ELSE IF status = "unreachable" /\ Decisive(e.status) THEN [e EXCEPT !.failed = <<now>>]
    ELSE [First(h, status, now) EXCEPT
            !.verified = IF status = "verified" THEN <<now>> ELSE e.verified]

Stale(e) == clock - e.checked > FreshFor

\* The verdict of the identity document: the cache, bound to the claim.
Shown ==
    CASE claim = NoHost -> [status |-> "unclaimed", stale |-> FALSE]
      [] claim # NoHost /\ Covers(entry, claim) ->
            [status |-> entry.status, stale |-> Stale(entry)]
      [] OTHER -> [status |-> "unchecked", stale |-> TRUE]

\* Mutant: any stale document is refreshed.
RefreshesAnyStale(shown) == shown.stale

\* The first sight of a hostname queries nothing.
Refreshes(shown) == shown.stale /\ shown.status # "unchecked"

-----------------------------------------------------------------------------
(* Requests.                                                               *)

Idle == [at |-> "idle", by |-> "document", hostname |-> NoHost, name |-> NoName,
         visited |-> {}, links |-> 0, status |-> "none", seen |-> NoEntry]

Publishes(z) == {n \in Names : NamesIdentity(z[n].txt, Self)}
Aliases(z) == {<<n, z[n].cname>> : n \in {m \in Names : z[m].cname # NoName}}

Init ==
    /\ clock = 0
    /\ claim \in Hostnames
    /\ zone \in Zones
    /\ entry = NoEntry /\ refreshing = FALSE
    /\ request = [r \in Requests |-> Idle]
    /\ edits = 0 /\ asked = {} /\ published = Publishes(zone) /\ aliases = Aliases(zone)

World == UNCHANGED <<clock, claim, zone, edits, asked, published, aliases>>

\* A check of h begins at its label.
Begin(r, by, h) ==
    request' = [request EXCEPT ![r] =
        [Idle EXCEPT !.at = "txt", !.by = by, !.hostname = h, !.name = Label[h],
                     !.visited = {Label[h]}]]

\* POST .../verification: a person asks; a profile with no hostname is refused.
CheckVerification(r) ==
    /\ request[r].at = "idle"
    /\ claim # NoHost
    /\ Begin(r, "person", claim)
    /\ asked' = asked \cup {claim}
    /\ UNCHANGED <<clock, claim, zone, entry, refreshing, edits, published, aliases>>

\* GET .../identities/<id>: the document is read, then the refresh starts.
ReadDocument(r) ==
    /\ request[r].at = "idle"
    /\ request' = [request EXCEPT ![r] =
         IF Refreshes(Shown) THEN [@ EXCEPT !.at = "stale", !.hostname = claim]
         ELSE [@ EXCEPT !.at = "done"]]
    /\ World /\ UNCHANGED <<entry, refreshing>>

\* Mutant: nobody looks whether a refresh is under way.
RefreshAgain(r) ==
    /\ request[r].at = "stale"
    /\ refreshing' = TRUE
    /\ Begin(r, "document", request[r].hostname)
    /\ World /\ UNCHANGED entry

RefreshInBackground(r) ==
    /\ request[r].at = "stale"
    /\ IF refreshing
       THEN request' = [request EXCEPT ![r] = [Idle EXCEPT !.at = "done"]] /\ UNCHANGED refreshing
       ELSE Begin(r, "document", request[r].hostname) /\ refreshing' = TRUE
    /\ World /\ UNCHANGED entry

Outcome(r, status) ==
    request' = [request EXCEPT ![r] = [@ EXCEPT !.at = "read", !.status = status]]

\* The names that aliases L lead to from name n, n included.
Reached(L, n) ==
    {m \in Names : \A S \in SUBSET Names :
        (n \in S /\ \A a \in L : a[1] \in S => a[2] \in S) => m \in S}

\* The resolver fails, times out or is missing.
LookupFails(r) ==
    /\ request[r].at \in {"txt", "cname"}
    /\ Outcome(r, "unreachable")
    /\ World /\ UNCHANGED <<entry, refreshing>>

\* A resolver answers with the records at the name, or, as the system's does,
\* follows aliases on its own and answers with the records where they lead.
LookupTxt(r) ==
    /\ request[r].at = "txt"
    /\ \E m \in Reached(Aliases(zone), request[r].name) :
          LET records == zone[m].txt
          IN  IF records = <<>> THEN request' = [request EXCEPT ![r] = [@ EXCEPT !.at = "cname"]]
              ELSE Outcome(r, Classify(records))
    /\ World /\ UNCHANGED <<entry, refreshing>>

\* Mutant: a chain that returns to itself is followed, without a limit.
FollowForever(r, target) ==
    request' = [request EXCEPT ![r] =
        [@ EXCEPT !.at = "txt", !.name = target, !.visited = @ \cup {target}]]

\* The check itself follows at most MaxLinks links, and none back.
Follow(r, target) ==
    IF request[r].links + 1 > MaxLinks \/ target \in request[r].visited
    THEN Outcome(r, "unreachable")
    ELSE request' = [request EXCEPT ![r] =
            [@ EXCEPT !.at = "txt", !.name = target,
                      !.visited = request[r].visited \cup {target},
                      !.links = request[r].links + 1]]

LookupCname(r) ==
    /\ request[r].at = "cname"
    /\ LET target == zone[request[r].name].cname
       IN  IF target = NoName THEN Outcome(r, "unverified") ELSE Follow(r, target)
    /\ World /\ UNCHANGED <<entry, refreshing>>

\* VerificationStore::record reads the file, then replaces it.
ReadEntry(r) ==
    /\ request[r].at = "read"
    /\ request' = [request EXCEPT ![r] = [@ EXCEPT !.at = "write", !.seen = entry]]
    /\ World /\ UNCHANGED <<entry, refreshing>>

WriteEntry(r) ==
    /\ request[r].at = "write"
    /\ entry' = Merge(request[r].seen, request[r].hostname, request[r].status, clock)
    /\ request' = [request EXCEPT ![r] =
         IF @.by = "person" THEN [Idle EXCEPT !.at = "done"] ELSE [@ EXCEPT !.at = "release"]]
    /\ World /\ UNCHANGED refreshing

Release(r) ==
    /\ request[r].at = "release"
    /\ request' = [request EXCEPT ![r] = [Idle EXCEPT !.at = "done"]]
    /\ refreshing' = FALSE
    /\ World /\ UNCHANGED entry

-----------------------------------------------------------------------------
(* What happens around a check.                                            *)

ReplaceProfile(h) ==
    /\ h # claim /\ edits < MaxEdits
    /\ claim' = h /\ edits' = edits + 1
    /\ UNCHANGED <<clock, zone, entry, refreshing, request, asked, published, aliases>>

ChangeZone(z) ==
    /\ z # zone /\ edits < MaxEdits
    /\ zone' = z /\ edits' = edits + 1
    /\ published' = published \cup Publishes(z)
    /\ aliases' = aliases \cup Aliases(z)
    /\ UNCHANGED <<clock, claim, entry, refreshing, request, asked>>

Tick ==
    /\ clock < MaxClock
    /\ clock' = clock + 1
    /\ UNCHANGED <<claim, zone, entry, refreshing, request, edits, asked, published, aliases>>

\* The node stops: its tasks and the set of running refreshes are memory.
Restart ==
    /\ refreshing' = FALSE
    /\ request' = [r \in Requests |->
         IF request[r].at = "idle" THEN Idle ELSE [Idle EXCEPT !.at = "done"]]
    /\ request' # request
    /\ UNCHANGED <<clock, claim, zone, entry, edits, asked, published, aliases>>

Work(r) ==
    \/ RefreshInBackground(r) \/ LookupFails(r) \/ LookupTxt(r) \/ LookupCname(r)
    \/ ReadEntry(r) \/ WriteEntry(r) \/ Release(r)

Next ==
    \/ \E r \in Requests : CheckVerification(r) \/ ReadDocument(r) \/ Work(r)
    \/ \E h \in Hostnames \cup {NoHost} : ReplaceProfile(h)
    \/ \E z \in Zones : ChangeZone(z)
    \/ Tick \/ Restart

\* The runtime polls a spawned task until it is finished, and the resolver
\* answers or times out; people, profiles and zones need do nothing.
Fairness == \A r \in Requests : WF_vars(Work(r))

Spec == Init /\ [][Next]_vars /\ Fairness

-----------------------------------------------------------------------------
(* Properties.                                                             *)

Statuses == {"verified", "mismatched", "unverified", "unreachable"}

Entries ==
    [hostname : Hostnames, status : Statuses, checked : 0 .. MaxClock,
     verified : {<<>>} \cup {<<t>> : t \in 0 .. MaxClock},
     failed : {<<>>} \cup {<<t>> : t \in 0 .. MaxClock}] \cup {NoEntry}

\* Every variable has its type, and a check asks at most one name more than
\* MaxLinks, none of them twice.
TypeOK ==
    /\ clock \in 0 .. MaxClock /\ claim \in Hostnames \cup {NoHost} /\ zone \in Zones
    /\ entry \in Entries /\ refreshing \in BOOLEAN
    /\ \A r \in Requests :
         /\ request[r].at \in {"idle", "stale", "txt", "cname", "read", "write", "release", "done"}
         /\ request[r].seen \in Entries
         /\ request[r].links <= MaxLinks
         /\ Cardinality(request[r].visited) <= request[r].links + 1
    /\ edits \in 0 .. MaxEdits /\ asked \subseteq Hostnames /\ published \subseteq Names

\* The identity document calls a hostname verified only if the zone of that
\* very hostname has named this identity, at the label or where aliases of it
\* led: never on the strength of another hostname's verdict.  How many aliases
\* is up to the resolver, which the limit of the check does not bind.
ShownVerdictWasPublished ==
    Shown.status = "verified" => Reached(aliases, Label[claim]) \cap published # {}

\* The names at most k of the aliases ever published away from n.
ReachedWithin(k, n) ==
    {m \in Names : \E i \in 0 .. k : \E path \in [0 .. i -> Names] :
        /\ path[0] = n /\ path[i] = m
        /\ \A j \in 1 .. i : <<path[j - 1], path[j]>> \in aliases}

\* What proposals 003 and 006 say of a longer chain of aliases: it is unreachable.
LongChainsAreUnreachable ==
    Shown.status = "verified" => ReachedWithin(MaxLinks, Label[claim]) \cap published # {}

\* Reading a card never announces the reader: the background asks only about
\* hostnames a person has asked to check.
OnlyAskedNamesAreQueried ==
    \A r \in Requests :
        request[r].at \in {"txt", "cname"} => request[r].hostname \in asked

\* However many documents are read, one background check runs at a time.
OneRefreshAtATime ==
    Cardinality({r \in Requests : request[r].by = "document" /\ request[r].at \in
                    {"txt", "cname", "read", "write", "release"}}) <= 1

\* What a label offers does not depend on the order the resolver returns its
\* records in, so two wallets reading one zone derive the same endpoints.
EndpointsIgnoreOrder ==
    \A n \in Names : \A s \in SetToSeqs(ToSet(zone[n].txt)) :
        /\ EndpointsAtLabel(s) = EndpointsAtLabel(zone[n].txt)
        /\ EndpointsForClaim(s, Self) = EndpointsForClaim(zone[n].txt, Self)
        /\ CallerZone(s).endpoints = CallerZone(zone[n].txt).endpoints
        /\ Resolve(s) = Resolve(zone[n].txt)

\* A failed check takes away neither a decisive verdict on its hostname nor
\* the time the hostname last verified, unless another check recorded its
\* verdict between this one's read and write of the file.
FailedChecksOverwriteNothing ==
    [][\A r \in Requests :
        /\ WriteEntry(r) /\ request[r].status = "unreachable"
        /\ Covers(entry, request[r].hostname) /\ request[r].seen = entry
        => /\ Decisive(entry.status) => entry'.status = entry.status
           /\ entry'.verified = entry.verified]_vars

\* The same without the exception: what the comment on `merge` says.
FailedChecksNeverOverwrite ==
    [][\A r \in Requests :
        /\ WriteEntry(r) /\ request[r].status = "unreachable"
        /\ Covers(entry, request[r].hostname) /\ Decisive(entry.status)
        => entry'.status = entry.status]_vars

\* A refresh that began ends, whatever the zone does, so that the next stale
\* document can start another.
RefreshEnds == refreshing ~> ~refreshing

\* What is shown of a zone is what it published, in whatever order it came, and
\* a check asks a bounded number of names.
ZonesAreReadTruly == TypeOK /\ ShownVerdictWasPublished /\ EndpointsIgnoreOrder

\* The background asks about nothing a person has not, one check at a time.
BackgroundIsQuiet == OnlyAskedNamesAreQueried /\ OneRefreshAtATime
=============================================================================
