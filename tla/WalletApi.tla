----------------------------- MODULE WalletApi -----------------------------
(***************************************************************************)
(* The HTTP gate of a node: the loopback rules (loopback.rs), the routes   *)
(* (routes.rs), the readers of bodies and queries (parse.rs) and the       *)
(* conversion of ids on the service's side (wallet/ids.rs).  It ends where *)
(* the service method starts, with the arguments it is called with.        *)
(*                                                                         *)
(* A text is what it means and whether blanks surround it; an id's text is *)
(* also the way it is spelled ("loose": 52 characters whose last one has   *)
(* bits that no 32 bytes have).  A behaviour takes a well-formed request   *)
(* and changes up to two of its parts, beside what WireFormat does.        *)
(***************************************************************************)
EXTENDS WireFormat

CONSTANTS MaxEdits,       \* bound: the changes to one request
          EventLimitCap,  \* the events of one page of a ledger
          KnownDefaultCap \* the identities listed when no limit is sent

-----------------------------------------------------------------------------
(* Texts of a request.                                                     *)

Blank         == [is |-> "blank", pad |-> FALSE]
Word(w)       == [is |-> "word", word |-> w, pad |-> FALSE]
Number(k)     == [is |-> "number", n |-> k, pad |-> FALSE]
IdText(x, sp) == [is |-> "id", id |-> x, spelled |-> sp, pad |-> FALSE]
Base64(k, ok) == [is |-> "base64", bytes |-> k, fine |-> ok, pad |-> FALSE]
Padded(t)     == [t EXCEPT !.pad = TRUE]
Trim(t)       == [t EXCEPT !.pad = FALSE]
Null          == [null |-> TRUE]
List(ts)      == [list |-> ts]

Bad(reason) == [error |-> reason]
Ok(v)       == [ok |-> v]
Failed(r)   == Holds(r, "error")

-----------------------------------------------------------------------------
(* The loopback rules.  A node knows whether it listens on port 80 and     *)
(* which further hosts its operator allowed, as the operator wrote them.   *)

Header(name, spelled) == [name |-> name, spelled |-> spelled]
Normalized(h) == h.name

AllowedHosts(node) == {Normalized(h) : h \in node.allowed} \ {""}
LoopbackHosts == {"127.0.0.1:port", "localhost:port"}
Hosts(node) == LoopbackHosts \cup AllowedHosts(node)

AcceptsHost(node, h) ==
    \/ Normalized(h) \in Hosts(node)
    \/ node.port80 /\ Normalized(h) \in {"127.0.0.1", "localhost"}

(* The mutant: an allowed host is reached over http alone. *)
OriginsHttpOnly(node) == {<<"http", h>> : h \in Hosts(node)}
Origins(node) == {<<"http", h>> : h \in Hosts(node)} \cup {<<"https", h>> : h \in AllowedHosts(node)}

(* The mutant: what the contact route is sent is not counted. *)
IsMutatingPostOnly(method) == method = "POST"
IsMutating(method) == method \notin {"GET", "HEAD", "OPTIONS"}

(* Letters of either case are one header; blanks are forgiven in Host, and *)
(* around the media type, and not in Origin.                               *)
CheckRules(node, req) ==
    CASE req.host = {} -> Bad("host_missing")
      [] \E h \in req.host : ~AcceptsHost(node, h) -> Bad("host_not_loopback")
      [] ~IsMutating(req.method) -> Ok({})
      [] req.origin = {} -> Bad("origin_missing")
      [] \E o \in req.origin : <<o.scheme, o.name>> \notin Origins(node) \/ o.spelled = "padded"
             -> Bad("origin_mismatch")
      [] req.content_type = {} -> Bad("content_type_missing")
      [] req.content_type # {"json"} -> Bad("content_type_not_json")
      [] OTHER -> Ok({})

-----------------------------------------------------------------------------
(* Ids, fields and parameters.                                             *)

(* The mutant: an id keeps the letters it was typed with. *)
ParseIdAsTyped(t) ==
    IF t.is = "id" /\ ~t.pad THEN Ok([id |-> t.id, letters |-> t.spelled]) ELSE Bad("malformed_id")
(* Id::parse: 52 base32 characters, lowercased. *)
ParseId(t) ==
    IF t.is = "id" /\ ~t.pad
    THEN Ok([id |-> t.id, letters |-> IF t.spelled = "loose" THEN "loose" ELSE "lower"])
    ELSE Bad("malformed_id")

OptionOf(body, field) == IF field \in DOMAIN body THEN {body[field]} \ {Null} ELSE {}
Given(body, field) == {Trim(t) : t \in OptionOf(body, field)} \ {Blank}
RequiredField(body, field) ==
    IF Given(body, field) = {} THEN Bad("missing_field")
    ELSE Ok(CHOOSE t \in Given(body, field) : TRUE)

RequiredId(body, field) ==
    LET r == RequiredField(body, field) IN IF Failed(r) THEN r ELSE ParseId(r.ok)
OptionalId(body, field) ==
    IF Given(body, field) = {} THEN Ok({})
    ELSE LET r == RequiredId(body, field) IN IF Failed(r) THEN r ELSE Ok({r.ok})

DeclaredKind(body, field) ==
    LET sent == OptionOf(body, field) \ {Blank} IN
    CASE sent = {} -> Ok("person")
      [] \E t \in sent : t \in {Word("person"), Word("organization")} -> Ok((CHOOSE t \in sent : TRUE).word)
      [] \E t \in sent : t \in {Word("agent"), Word("service")} -> Bad("unsupported_declared_kind")
      [] OTHER -> Bad("unknown_enum_value")
Role(body, field) ==
    LET r == RequiredField(body, field) IN
    CASE Failed(r) -> r
      [] r.ok \in {Word("member"), Word("controller")} -> Ok(r.ok.word)
      [] OTHER -> Bad("unknown_enum_value")

(* The list is counted before it is read, and each entry is compared with  *)
(* the ones before it.                                                     *)
ListEntries(body, field, max) ==
    LET raw == body[field].list
        ids == [i \in 1..Len(raw) |-> ParseId(raw[i])]
        wrong == {i \in 1..Len(raw) : Failed(ids[i]) \/ \E j \in 1..(i - 1) : ids[j] = ids[i]}
    IN  CASE OptionOf(body, field) = {} -> Bad("missing_field")
          [] Len(raw) > max -> Bad("out_of_range")
          [] wrong # {} -> Bad(IF Failed(ids[Min(wrong)]) THEN "malformed_id" ELSE "duplicate")
          [] OTHER -> Ok([i \in 1..Len(raw) |-> ids[i].ok])

(* The mutant: a key that was not sent reads as one sent empty. *)
ReplacedAbsentClears(body, field) == Ok(Given(body, field))
(* The keys of a profile must be sent; null and blank clear. *)
Replaced(body, field) ==
    IF field \notin DOMAIN body THEN Bad("missing_field") ELSE Ok(Given(body, field))

(* contacts.rs: a field over its cap or with a forbidden character is      *)
(* refused, and a blank one is unset.                                      *)
CheckText(t) ==
    CASE t = Word("long") -> Bad("contact_field_too_long")
      [] t = Word("ctl")  -> Bad("invalid_contact_text")
      [] OTHER -> Ok({t})
ContactField(body, field) ==
    IF Given(body, field) = {} THEN Ok({}) ELSE CheckText(CHOOSE t \in Given(body, field) : TRUE)

CharsOf(t) == IF t.is = "base64" THEN 4 * ((t.bytes + 2) \div 3) ELSE 1
(* The mutant: three bytes for four characters, rounded down. *)
EncodedCapRoundedDown(cap) == 4 * (cap \div 3)
EncodedCap(cap) == 4 * ((cap + 2) \div 3)
Artifact(body, field, cap) ==
    LET r == RequiredField(body, field) IN
    CASE Failed(r) -> r
      [] CharsOf(r.ok) > EncodedCap(cap) -> Bad("message_too_large")
      [] r.ok.is # "base64" \/ ~r.ok.fine -> Bad("malformed_base64")
      [] r.ok.bytes > cap -> Bad("message_too_large")
      [] OTHER -> Ok(r.ok.bytes)

(* Query parameters: a repeated name keeps its last value. *)
Present(query, name) ==
    LET hits == {i \in 1..Len(query) : query[i].name = name} IN
    IF hits = {} THEN {} ELSE {Trim(query[Max(hits)].value)} \ {Blank}
Natural(query, name, max) ==
    LET given == Present(query, name) IN
    CASE given = {} -> Ok(0)
      [] \E t \in given : t.is = "number" /\ t.n \in 0..max -> Ok((CHOOSE t \in given : TRUE).n)
      [] OTHER -> Bad("malformed_query_parameter")
Lower(a, b) == IF a <= b THEN a ELSE b
(* The mutant: zero is taken as a limit. *)
LimitZero(query, max) ==
    LET k == Natural(query, "limit", U32Cap) IN
    CASE Present(query, "limit") = {} -> Ok(max)
      [] Failed(k) -> k
      [] OTHER -> Ok(Lower(k.ok, max))
Limit(query, max) ==
    LET k == Natural(query, "limit", U32Cap) IN
    CASE Present(query, "limit") = {} -> Ok(max)
      [] Failed(k) -> k
      [] k.ok = 0 -> Bad("malformed_query_parameter")
      [] OTHER -> Ok(Lower(k.ok, max))
KnownLimit(query) ==
    IF Present(query, "limit") = {} THEN Ok(KnownDefaultCap) ELSE Limit(query, ListCap)
QueryId(query, name) ==
    IF Present(query, name) = {} THEN Ok({})
    ELSE LET r == ParseId(CHOOSE t \in Present(query, name) : TRUE) IN IF Failed(r) THEN r ELSE Ok({r.ok})

(* The mutant: percent-encoding is undone until none is left. *)
DecodeFully(t) == [t EXCEPT !.escaped = 0]
DecodeOnce(t) == [t EXCEPT !.escaped = IF @ = 0 THEN 0 ELSE @ - 1]
(* Input of the resolve route: a form, how often its slashes and blanks    *)
(* are percent-encoded.  The link grammar refuses what is still encoded,   *)
(* and so do an id and a hostname.                                         *)
Resolve(query) ==
    LET t == DecodeOnce(query[1].value) IN
    CASE \E i \in 1..Len(query) : query[i].name # "input" \/ i > 1 -> Bad("unknown_query_parameter")
      [] query = <<>> -> Bad("missing_field")
      [] t.form = "empty" /\ ~t.pad -> Bad("missing_field")
      [] t.form = "link" /\ t.escaped = 0 /\ ~t.pad -> Ok("link")
      [] t.form = "link" \/ (t.form = "other_scheme" /\ t.escaped = 0) -> Bad("invalid_mabel_link")
      [] t.form = "id" /\ t.escaped = 0 /\ ~t.pad -> Ok("identity")
      [] t.form = "hostname" /\ t.escaped = 0 -> Ok("hostname")
      [] OTHER -> Bad("malformed_hostname")

-----------------------------------------------------------------------------
(* The routes: for each resource, whether its path carries an id, and the  *)
(* handler of each method.  A get handler also answers HEAD.               *)

Router ==
    [node         |-> [path |-> FALSE, on |-> [GET |-> "node"]],
     identities   |-> [path |-> FALSE, on |-> [GET |-> "identities", POST |-> "create_identity"]],
     known        |-> [path |-> FALSE, on |-> [GET |-> "known_identities"]],
     identity     |-> [path |-> TRUE,  on |-> [GET |-> "identity"]],
     ledger       |-> [path |-> TRUE,  on |-> [GET |-> "identity_ledger"]],
     keys         |-> [path |-> TRUE,  on |-> [GET |-> "identity_keys"]],
     profile      |-> [path |-> TRUE,  on |-> [POST |-> "replace_profile"]],
     verification |-> [path |-> TRUE,  on |-> [POST |-> "check_verification"]],
     contact      |-> [path |-> TRUE,  on |-> [GET |-> "contact", PUT |-> "set_contact"]],
     set_witness  |-> [path |-> TRUE,  on |-> [POST |-> "set_witnesses"]],
     set_endpoint |-> [path |-> TRUE,  on |-> [POST |-> "set_endpoints"]],
     fetch        |-> [path |-> TRUE,  on |-> [POST |-> "fetch_identity"]],
     lookup       |-> [path |-> TRUE,  on |-> [GET |-> "lookup"]],
     resolve      |-> [path |-> FALSE, on |-> [GET |-> "resolve"]],
     witnesses    |-> [path |-> FALSE, on |-> [GET |-> "witnesses"]],
     holdings     |-> [path |-> TRUE,  on |-> [GET |-> "witness_holdings"]],
     forks        |-> [path |-> FALSE, on |-> [GET |-> "forks"]],
     graph        |-> [path |-> FALSE, on |-> [GET |-> "graph"]],
     graph_sync   |-> [path |-> FALSE, on |-> [POST |-> "sync_graph"]],
     memberships  |-> [path |-> TRUE,  on |-> [GET |-> "memberships"]],
     invitations  |-> [path |-> TRUE,  on |-> [POST |-> "invite"]],
     acceptances  |-> [path |-> TRUE,  on |-> [POST |-> "accept_invitation"]],
     admissions   |-> [path |-> TRUE,  on |-> [POST |-> "admit_acceptance"]],
     removals     |-> [path |-> TRUE,  on |-> [POST |-> "remove_membership"]],
     trust        |-> [path |-> FALSE, on |-> [POST |-> "add_trust"]],
     revoke       |-> [path |-> TRUE,  on |-> [POST |-> "revoke_trust"]],
     push         |-> [path |-> FALSE, on |-> [POST |-> "push"]]]

MethodUsed(method) == IF method = "HEAD" THEN "GET" ELSE method

(* What each body may hold: deny_unknown_fields refuses the rest.  A       *)
(* handler without an entry does not read its body.                        *)
BodyFields ==
    [create_identity   |-> {"alias", "declared_kind", "founder", "display_name", "email"},
     replace_profile   |-> {"display_name", "hostname", "email"},
     set_contact       |-> {"nickname", "note"},
     set_witnesses     |-> {"witnesses"},
     set_endpoints     |-> {"endpoints"},
     fetch_identity    |-> {"from", "from_witness"},
     invite            |-> {"by", "role", "invitee_descriptor_base64"},
     accept_invitation |-> {"invitation_bundle_base64"},
     admit_acceptance  |-> {"by", "acceptance_base64"},
     remove_membership |-> {"by", "target"},
     add_trust         |-> {"issuer", "subject"},
     revoke_trust      |-> {"issuer"},
     push              |-> {"identity_id", "to"}]

(* The fields of each body in the order the parser reads them. *)
ReadBody(handler, b) ==
    CASE handler = "create_identity" ->
             <<RequiredField(b, "alias"), DeclaredKind(b, "declared_kind"), OptionalId(b, "founder"),
               Ok(Given(b, "display_name")), Ok(Given(b, "email"))>>
      [] handler = "replace_profile" ->
             <<Replaced(b, "display_name"), Replaced(b, "hostname"), Replaced(b, "email")>>
      [] handler = "set_contact" -> <<ContactField(b, "nickname"), ContactField(b, "note")>>
      [] handler = "set_witnesses" -> <<ListEntries(b, "witnesses", WitnessesCap)>>
      [] handler = "set_endpoints" -> <<ListEntries(b, "endpoints", EndpointsCap)>>
      [] handler = "fetch_identity" -> <<OptionalId(b, "from"), OptionalId(b, "from_witness")>>
      [] handler = "invite" ->
             <<RequiredId(b, "by"), Role(b, "role"), Artifact(b, "invitee_descriptor_base64", DescriptorCap)>>
      [] handler = "accept_invitation" -> <<Artifact(b, "invitation_bundle_base64", BundleCap)>>
      [] handler = "admit_acceptance" ->
             <<RequiredId(b, "by"), Artifact(b, "acceptance_base64", AcceptanceFileCap)>>
      [] handler = "remove_membership" -> <<RequiredId(b, "by"), RequiredId(b, "target")>>
      [] handler = "add_trust" -> <<RequiredId(b, "issuer"), RequiredId(b, "subject")>>
      [] handler = "revoke_trust" -> <<RequiredId(b, "issuer")>>
      [] handler = "push" -> <<RequiredId(b, "identity_id"), OptionalId(b, "to")>>

Paged == [known_identities |-> {"offset", "limit"}, identity_ledger |-> {"since", "limit"},
          witness_holdings |-> {"offset", "limit"}, forks |-> {"ledger_id", "offset", "limit"},
          lookup |-> {"from"}]
ReadQuery(handler, q) ==
    CASE handler = "known_identities" -> <<Natural(q, "offset", U32Cap), KnownLimit(q)>>
      [] handler = "identity_ledger"  -> <<Natural(q, "since", U64Cap), Limit(q, EventLimitCap)>>
      [] handler = "witness_holdings" -> <<Natural(q, "offset", U32Cap), Limit(q, ListCap)>>
      [] handler = "forks"  -> <<QueryId(q, "ledger_id"), Natural(q, "offset", U32Cap), Limit(q, ForksCap)>>
      [] handler = "lookup" -> <<QueryId(q, "from")>>

(* The first failure, or every value read. *)
Collect(read) ==
    LET bad == {i \in 1..Len(read) : Failed(read[i])} IN
    IF bad = {} THEN Ok([i \in 1..Len(read) |-> read[i].ok]) ELSE read[Min(bad)]

(* What a handler reads of a request besides its path. *)
Parse(handler, req) ==
    CASE handler \in DOMAIN BodyFields ->
             IF ~(DOMAIN req.body \subseteq BodyFields[handler]) THEN Bad("malformed_json")
             ELSE LET args == Collect(ReadBody(handler, req.body)) IN
                  IF handler = "add_trust" /\ ~Failed(args) /\ args.ok[1] = args.ok[2]
                  THEN Bad("subject_equals_ledger") ELSE args
      [] handler \in DOMAIN Paged ->
             IF \E i \in 1..Len(req.query) : req.query[i].name \notin Paged[handler]
             THEN Bad("unknown_query_parameter") ELSE Collect(ReadQuery(handler, req.query))
      [] handler = "resolve" -> Collect(<<Resolve(req.query)>>)
      [] OTHER -> Ok(<<>>)

(* wallet/ids.rs: the service reads the id back into 32 bytes, and an      *)
(* endpoint into a key.                                                    *)
IdsIn(handler, args) ==
    CASE handler \in {"set_witnesses", "set_endpoints"} -> ToSet(args[1])
      [] handler \in {"fetch_identity"} -> args[1] \cup args[2]
      [] handler \in {"push"} -> {args[1]} \cup args[2]
      [] handler \in {"forks", "lookup"} -> args[1]
      [] handler = "create_identity" -> args[3]
      [] handler \in {"remove_membership", "add_trust"} -> {args[1], args[2]}
      [] handler \in {"invite", "admit_acceptance", "revoke_trust"} -> {args[1]}
      [] OTHER -> {}
EndpointsIn(handler, args) ==
    CASE handler = "set_endpoints" -> ToSet(args[1])
      [] handler = "fetch_identity" -> args[1]
      [] handler = "push" -> args[2]
      [] OTHER -> {}
Converted(handler, path, args) ==
    CASE \E x \in path : x.letters = "loose" -> Bad("malformed_id")
      [] handler = "fetch_identity" /\ args[1] # {} /\ args[2] # {} -> Bad("conflicting_source")
      [] \E x \in IdsIn(handler, args) : x.letters = "loose" -> Bad("malformed_id")
      [] \E x \in EndpointsIn(handler, args) : x.id \notin Keys -> Bad("malformed_id")
      [] OTHER -> [call |-> handler, path |-> path, args |-> args]

(* One request: the rules, the route, the path, the body or the query, and *)
(* the service.                                                            *)
Answer(req) ==
    LET resource == Router[req.resource]
        method   == MethodUsed(req.method)
        rules    == CheckRules(req.node, req)
        path     == IF resource.path THEN ParseId(req.path) ELSE Ok({})
    IN  CASE Failed(rules) -> rules
          [] method \notin DOMAIN resource.on -> Bad("method_not_allowed")
          [] Failed(path) -> path
          [] OTHER -> LET handler == resource.on[method]
                          args == Parse(handler, req)
                      IN  IF Failed(args) THEN args
                          ELSE Converted(handler, IF resource.path THEN {path.ok} ELSE {}, args.ok)

-----------------------------------------------------------------------------
(* Requests and their edits.                                               *)

Nodes == [port80 : BOOLEAN,
          allowed : {{}, {Header("wallet.example", "upper"), Header("", "padded")}}]
HostHeaders == {{}} \cup {{Header(n, s)} : n \in {"localhost:port", "localhost", "wallet.example", "other.example"},
                                          s \in {"lower", "padded"}}
OriginHeaders == {{}} \cup {{[scheme |-> s, name |-> n, spelled |-> "upper"]} :
                      s \in {"http", "https"}, n \in {"localhost:port", "localhost", "wallet.example", "other.example"}}
               \cup {{[scheme |-> "http", name |-> "localhost:port", spelled |-> "padded"]}}

Artifacts == {"invitee_descriptor_base64", "invitation_bundle_base64", "acceptance_base64"}
CapOf == [invitee_descriptor_base64 |-> DescriptorCap, invitation_bundle_base64 |-> BundleCap,
          acceptance_base64 |-> AcceptanceFileCap]
IdTexts == {IdText("k1", "lower"), IdText("k2", "upper"), IdText("k1", "upper"), IdText("k1", "loose"),
            IdText("hash", "lower"), Padded(IdText("k1", "lower")), Word("a")}
Lists == UNION {[1..k -> {IdText("k1", "lower"), IdText("k1", "upper"), IdText("k1", "loose"),
                          IdText("k2", "lower"), Word("a")}] : k \in 0..3}

(* What a field may be sent as: the first is what a client would send. *)
Plausible(field) ==
    CASE field \in Artifacts -> Base64(CapOf[field], TRUE)
      [] field \in {"witnesses", "endpoints"} -> List(<<IdText("k1", "lower"), IdText("k2", "lower")>>)
      [] field = "role" -> Word("member")
      [] field = "declared_kind" -> Word("organization")
      [] field \in {"subject", "target"} -> IdText("k3", "lower")
      [] field \in {"by", "founder", "from", "from_witness", "issuer", "identity_id", "to"} -> IdText("k1", "lower")
      [] OTHER -> Word("a")
Values(field) ==
    CASE field \in Artifacts ->
             {Base64(k, ok) : k \in {1, CapOf[field] - 1, CapOf[field] + 1, CapOf[field] + 3}, ok \in BOOLEAN}
             \cup {Padded(Base64(CapOf[field], TRUE)), Null, Blank, Word("a")}
      [] field \in {"witnesses", "endpoints"} -> {List(ts) : ts \in Lists} \cup {Null}
      [] field = "role" -> {Word("controller"), Word("a"), Padded(Word("member")), Null}
      [] field = "declared_kind" -> {Word("agent"), Word("a"), Padded(Word("person")), Blank, Padded(Blank), Null}
      [] OTHER -> IdTexts \cup {Word("long"), Word("ctl"), Null, Blank, Padded(Blank)}

QueryTexts == {Number(k) : k \in 0..(U64Cap + 1)} \cup {Word("a"), Blank, Padded(Number(1)), IdText("k1", "lower")}
Inputs == [form : {"id", "hostname", "link", "other_scheme", "empty"}, escaped : 0..2, pad : BOOLEAN]
Pairs(resource) ==
    IF resource = "resolve"
    THEN {[name |-> n, value |-> v] : n \in {"input", "x"}, v \in Inputs}
    ELSE {[name |-> n, value |-> v] : n \in {"since", "offset", "limit", "ledger_id", "from", "x"}, v \in QueryTexts}

Built(node, resource, method) ==
    LET handler == Router[resource].on[method]
        host == IF node.allowed = {} THEN "localhost:port" ELSE "wallet.example"
    IN  [resource |-> resource, method |-> method, node |-> node,
         host |-> {Header(host, "lower")},
         origin |-> {[scheme |-> "http", name |-> host, spelled |-> "lower"]},
         content_type |-> {"json"},
         path |-> IdText("k1", "lower"),
         body |-> [f \in IF handler \in DOMAIN BodyFields THEN BodyFields[handler] \ {"from_witness"} ELSE {}
                     |-> Plausible(f)],
         query |-> <<>>]

ApiInit ==
    \/ Init
    \/ \E node \in Nodes, resource \in DOMAIN Router : \E method \in DOMAIN Router[resource].on :
          input = [request |-> Built(node, resource, method)] /\ left = MaxEdits

Drop(f, key) == [k \in DOMAIN f \ {key} |-> f[k]]
Edited(req) ==
    {[req EXCEPT !.method = m] : m \in {"GET", "HEAD", "POST", "PUT", "DELETE"}}
    \cup {[req EXCEPT !.host = h] : h \in HostHeaders}
    \cup {[req EXCEPT !.origin = o] : o \in OriginHeaders}
    \cup {[req EXCEPT !.content_type = c] : c \in {{}, {"form"}}}
    \cup {[req EXCEPT !.path = t] : t \in IdTexts}
    \cup {[req EXCEPT !.body = Drop(@, f)] : f \in DOMAIN req.body}
    \cup {[req EXCEPT !.body = @ @@ (f :> IdText("k1", "lower"))] : f \in {"from_witness", "unknown"}}
    \cup UNION {{[req EXCEPT !.body[f] = v] : v \in Values(f)} : f \in DOMAIN req.body}
    \cup {[req EXCEPT !.query = Append(@, p)] : p \in Pairs(req.resource)}

(* The client sends something else. *)
EditRequest ==
    /\ left > 0 /\ Holds(input, "request")
    /\ \E req \in Edited(input.request) : input' = [request |-> req]
    /\ left' = left - 1

ApiNext == Next \/ EditRequest
ApiSpec == ApiInit /\ [][ApiNext]_vars

-----------------------------------------------------------------------------
(* The service methods that change the home or the network's copies.  One  *)
(* of them answers a GET: reading an identity whose cached verdict is      *)
(* stale starts a background check, which writes the verification cache.   *)
Refreshes == {"identity"}
Writes == {"create_identity", "replace_profile", "check_verification", "set_contact", "set_witnesses",
           "set_endpoints", "fetch_identity", "sync_graph", "invite", "accept_invitation", "admit_acceptance",
           "remove_membership", "add_trust", "revoke_trust", "push"} \cup Refreshes
Sent == input.request
Calls == IF Holds(input, "request") THEN {a \in {Answer(Sent)} : Holds(a, "call")} ELSE {}

(* A page of another site makes this node write nothing but a refreshed    *)
(* verdict: every call came with a Host the node answers to, and a call of *)
(* any other writing method came with the Origin of such a name and a JSON *)
(* body type, whatever its method and route.                               *)
OnlyOwnPagesWrite ==
    \A a \in Calls :
        /\ Sent.host # {} /\ \A h \in Sent.host :
               h.name \in Hosts(Sent.node) \cup (IF Sent.node.port80 THEN {"127.0.0.1", "localhost"} ELSE {})
        /\ a.call \in Writes \ Refreshes =>
              /\ Sent.origin # {} /\ \A o \in Sent.origin : o.name \in LoopbackHosts \cup {"wallet.example"}
              /\ Sent.node.allowed = {} => \A o \in Sent.origin : o.scheme = "http" /\ o.name \in LoopbackHosts
              /\ Sent.content_type = {"json"}

(* The other way round: a page loaded from a host this node accepts may    *)
(* post to it from its own origin, http or, behind a proxy, https.  The    *)
(* bare loopback names that are accepted on port 80 alone are left out:    *)
(* the Origin rule does not know them.                                     *)
OwnPagesMayWrite ==
    Holds(input, "request") =>
        \A h \in Sent.host : (h.name \notin {"127.0.0.1", "localhost"} /\ AcceptsHost(Sent.node, h)) =>
            \A scheme \in IF h.name \in LoopbackHosts THEN {"http"} ELSE {"http", "https"} :
                ~Failed(CheckRules(Sent.node,
                    [Sent EXCEPT !.origin = {[scheme |-> scheme, name |-> h.name, spelled |-> "lower"]},
                                 !.content_type = {"json"}]))

(* An artifact is refused for its size exactly when it is over its cap:    *)
(* the check of the encoded length never turns away one that fits.         *)
ArtifactCapIsExact ==
    Holds(input, "request") =>
        \A f \in Artifacts \cap DOMAIN Sent.body :
            LET t == Sent.body[f]
                r == Artifact(Sent.body, f, CapOf[f])
            IN  (t \notin {Null, Blank} /\ t.is = "base64" /\ t.fine) =>
                    IF t.bytes <= CapOf[f] THEN r = Ok(t.bytes) ELSE r = Bad("message_too_large")

(* Replacing the profile or a list clears nothing the client did not       *)
(* mention: what is empty in the call was sent, as null, blank or empty.   *)
NothingIsClearedUnsaid(a) ==
    a.call \in {"replace_profile", "set_witnesses", "set_endpoints"} =>
        DOMAIN Sent.body = BodyFields[a.call]

(* The payloads that lists of ids are written as. *)
WrittenAs == [set_witnesses |-> "WitnessSet", set_endpoints |-> "EndpointAdvertisement"]

(* What the parsers and the id conversion let through, the field table     *)
(* takes: a list of witnesses or endpoints is short and without repeats as *)
(* bytes, however its ids were spelled, and no identity trusts itself.     *)
AcceptedRequestsEncode(a) ==
    /\ a.call \in DOMAIN WrittenAs =>
          LET name == WrittenAs[a.call]
              ids == [i \in 1..Len(a.args[1]) |-> Id(a.args[1][i].id)]
          IN  Verdict(name, Encode(name, 1 :> ids)) = "ok"
    /\ a.call = "add_trust" => a.args[1].id # a.args[2].id

(* Every page asked of the home or of a witness is at least one entry and  *)
(* at most the route's cap: a client that walks by its limit always        *)
(* advances, and zero, which on the wire means no limit, never passes.     *)
PagesAdvance(a) ==
    a.call \in {"known_identities", "identity_ledger", "witness_holdings", "forks"} =>
        Last(a.args) \in
            1..(IF a.call = "identity_ledger" THEN EventLimitCap ELSE Max({ListCap, ForksCap}))

(* The resolve route reads its input once: one input, decoded one time,    *)
(* and what is still percent-encoded after that is refused.                *)
ResolveReadsOnce(a) ==
    a.call = "resolve" =>
        /\ Len(Sent.query) = 1
        /\ Sent.query[1].value.escaped <= 1
        /\ Sent.query[1].value.pad => Sent.query[1].value.form = "hostname"

(* The pages this node serves may write, and no others, but for the        *)
(* refresh of a stale verdict, which any page may start.                   *)
ExactlyOwnPagesWrite == OnlyOwnPagesWrite /\ OwnPagesMayWrite

(* The service is called only with what it can carry out: artifacts within *)
(* their caps, documents replaced on purpose, lists that encode, pages that*)
(* advance, inputs read once.                                              *)
CallsAreSound ==
    /\ ArtifactCapIsExact
    /\ \A a \in Calls : /\ NothingIsClearedUnsaid(a) /\ AcceptedRequestsEncode(a)
                        /\ PagesAdvance(a) /\ ResolveReadsOnce(a)
=============================================================================
