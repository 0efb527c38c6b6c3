---------------------------- MODULE WireFormat ----------------------------
(***************************************************************************)
(* The stateless gate of mabel: validate.rs scans the records of a         *)
(* message against its descriptor, sign.rs and wire.rs write messages, and *)
(* reject_code of wire.rs turns a refusal into an answer.  A message is    *)
(* the sequence of its records; a record is a field number, a wire type,   *)
(* how its varints are spelled and a value.  Ids, keys, hashes and         *)
(* signatures are tokens of the right size.                                *)
(*                                                                         *)
(* Three text grammars that the same inputs carry are modelled beside it:  *)
(* the varint (byte by byte), the hostname (its two checkers, character by *)
(* character) and the mabel:// link (token by token).                      *)
(*                                                                         *)
(* A behaviour takes one built message and damages it by up to two edits,  *)
(* or grows one text by one symbol at a time.                              *)
(***************************************************************************)
EXTENDS Integers, Sequences, FiniteSets, SequencesExt, FiniteSetsExt

CONSTANTS NestingCap, IdCap, SigCap, NonceCap, IdTextCap, EventCap, EmbeddedCap, AcceptanceCap,
          WitnessesCap, EndpointsCap, NameCap, HostnameCap, EmailCap, LabelCap, SmallCap, PushCap,
          PushEventsCap, GetCap, ListCap, ForksCap, RejectMsgCap, FrameCap, BundleCap, BundleEventsCap,
          AcceptanceFileCap, DescriptorCap, U32Cap, U64Cap, TimestampCap,
          LinkEndpointsCap   \* the named size and count limits of the two crates

CONSTANTS Keys,         \* the ids that are curve points
          GroupBits,    \* payload bits of a varint byte: 7 in the code
          Width,        \* bits of a varint's value: 64 in the code
          MaxBytes,     \* bound: the bytes of a varint
          MaxChars,     \* bound: the characters of a hostname
          MaxParts,     \* bound: the keys and elements of the query of a link
          Messages      \* the built messages edits start from: name, recs, edits

ASSUME CapAssumption ==
    {NestingCap, IdCap, SigCap, NonceCap, IdTextCap, EventCap, EmbeddedCap, AcceptanceCap,
     WitnessesCap, EndpointsCap, NameCap, HostnameCap, EmailCap, LabelCap, SmallCap, PushCap,
     PushEventsCap, GetCap, ListCap, ForksCap, RejectMsgCap, FrameCap, BundleCap, BundleEventsCap,
     AcceptanceFileCap, DescriptorCap, U32Cap, U64Cap, TimestampCap, LinkEndpointsCap} \subseteq Nat
ASSUME VarintAssumption == GroupBits \in Nat \ {0} /\ Width \in Nat /\ Width > GroupBits

VARIABLES input, left
vars == <<input, left>>

-----------------------------------------------------------------------------
(* Values and records.                                                     *)

Num(k)    == [int |-> k]
Id(x)     == [raw |-> x, size |-> IdCap]
Key(k)    == [raw |-> k, size |-> IdCap]
Hash(b)   == [hash |-> b, size |-> IdCap]
Sig(k, b) == [key |-> k, over |-> b, size |-> SigCap]
Text(cs)  == [chars |-> cs]
Msg(recs) == [msg |-> recs]

Holds(v, tag) == tag \in DOMAIN v

RECURSIVE SizeOf(_)
Size(v) == CASE Holds(v, "int")   -> 1
             [] Holds(v, "chars") -> Len(v.chars)
             [] Holds(v, "msg")   -> SizeOf(v.msg)
             [] OTHER             -> v.size
SizeOf(recs) == IF recs = <<>> THEN 0 ELSE 1 + Size(recs[1].v) + SizeOf(Tail(recs))

(* Bytes read as what they were not written as: an id is no message, and   *)
(* neither an id nor a message is text.                                    *)
AsMsg(v)  == IF Holds(v, "msg") THEN v.msg
             ELSE <<[n |-> 0, wire |-> 2, form |-> "plain", v |-> v]>>
AsText(v) == IF Holds(v, "chars") THEN v.chars ELSE <<"bad">>

Ascending(S) == [k \in 1..Cardinality(S) |-> CHOOSE x \in S : Cardinality({y \in S : y < x}) = k - 1]

Rec(n, v) == [n |-> n, wire |-> IF Holds(v, "int") THEN 0 ELSE 2, form |-> "plain", v |-> v]

-----------------------------------------------------------------------------
(* Descriptors (MessageDescriptor, FieldDescriptor and their helpers).     *)

Required(kind) == [card |-> "required", kind |-> kind]
Optional(kind) == [card |-> "optional", kind |-> kind]
Forbidden(kind) == [card |-> "forbidden", kind |-> kind]
Variant(of) == [card |-> "variant", kind |-> [is |-> "message", of |-> of]]
Repeated(min, max, distinct, kind) ==
    [card |-> "repeated", min |-> min, max |-> max, distinct |-> distinct, kind |-> kind]

Varint(min, max) == [is |-> "varint", min |-> min, max |-> max]
Enum(last)       == [is |-> "enum", values |-> 1..last]
Exactly(n)       == [is |-> "bytes", exact |-> {n}, max |-> n]
UpTo(n)          == [is |-> "bytes", exact |-> {}, max |-> n]
String(max, rule) == [is |-> "string", max |-> max, rule |-> rule]
Nested(of, max)  == [is |-> "nested", of |-> of, max |-> max]
Message(of)      == [is |-> "message", of |-> of]
Detached(of)     == [is |-> "detached", of |-> of]

ID    == Exactly(IdCap)
SIG   == Exactly(SigCap)
NONCE == Exactly(NonceCap)
EMBEDDED_INCEPTION == UpTo(EmbeddedCap)
VERSION   == Varint(1, U32Cap)
COUNT32   == Varint(1, U32Cap)
COUNT64   == Varint(1, U64Cap)
TIMESTAMP == Varint(1, TimestampCap)
FLAG  == Varint(1, 1)
EVENT == Detached("SignedEvent")

NoOneof == 0
Descriptor(max, fields, oneof, check) ==
    [max |-> max, fields |-> fields, oneof |-> oneof, check |-> check]
Plain(max, fields) == Descriptor(max, fields, NoOneof, "none")

RootTables ==
    [RawRoot      |-> Descriptor(EventCap, 1 :> Required(ID) @@ 2 :> Required(ID), NoOneof, "raw_root"),
     IdentityRoot |-> Descriptor(EventCap,
                        1 :> Required(ID) @@ 2 :> Required(ID) @@ 3 :> Required(EMBEDDED_INCEPTION),
                        NoOneof, "identity_root"),
     Inception    |-> Descriptor(EventCap,
                        1 :> Required(Enum(4)) @@ 2 :> Required(NONCE)
                        @@ 10 :> Variant("RawRoot") @@ 11 :> Variant("IdentityRoot"), 10, "none")]

ListTables ==
    [WitnessConfig         |-> Plain(EventCap, 1 :> Repeated(1, WitnessesCap, TRUE, ID)),
     EndpointAdvertisement |-> Plain(EventCap, 1 :> Repeated(0, EndpointsCap, TRUE, ID)),
     WitnessSet            |-> Plain(EventCap, 1 :> Repeated(0, WitnessesCap, TRUE, ID))]

PayloadTables ==
    [TrustAttestation  |-> Plain(EventCap, 1 :> Required(ID)),
     TrustRevocation   |-> Plain(EventCap, 1 :> Required(ID)),
     MembershipRemoval |-> Plain(EventCap, 1 :> Required(ID)),
     MembershipInvitation |-> Descriptor(EventCap,
          1 :> Required(ID) @@ 2 :> Required(ID) @@ 3 :> Required(Enum(2))
          @@ 4 :> Required(EMBEDDED_INCEPTION), NoOneof, "invitation"),
     Acceptance |-> Plain(AcceptanceCap,
          1 :> Forbidden(VERSION) @@ 2 :> Required(ID) @@ 3 :> Required(ID)
          @@ 4 :> Required(ID) @@ 5 :> Required(ID)),
     MembershipAcceptance |-> Descriptor(EventCap,
          1 :> Required(Nested("Acceptance", AcceptanceCap)) @@ 2 :> Required(SIG),
          NoOneof, "acceptance"),
     ProfileUpdate |-> Plain(EventCap,
          1 :> Optional(String(NameCap, "display_name"))
          @@ 2 :> Optional(String(HostnameCap, "hostname"))
          @@ 3 :> Optional(String(EmailCap, "email")))]

EventTables ==
    [EventBody |-> Descriptor(EventCap,
          1 :> Forbidden(VERSION) @@ 2 :> Optional(ID) @@ 3 :> Optional(COUNT64) @@ 4 :> Optional(ID)
          @@ 5 :> Required(TIMESTAMP) @@ 6 :> Required(ID)
          @@ 10 :> Variant("Inception") @@ 11 :> Variant("WitnessConfig")
          @@ 12 :> Variant("TrustAttestation") @@ 13 :> Variant("TrustRevocation")
          @@ 14 :> Variant("MembershipInvitation") @@ 15 :> Variant("MembershipAcceptance")
          @@ 16 :> Variant("MembershipRemoval") @@ 17 :> Variant("ProfileUpdate")
          @@ 18 :> Variant("EndpointAdvertisement") @@ 19 :> Variant("WitnessSet"), 10, "event_body"),
     SignedEvent |-> Plain(EventCap,
          1 :> Required(Nested("EventBody", EventCap)) @@ 2 :> Required(SIG))]

RequestTables ==
    [HeadReq  |-> Plain(SmallCap, 1 :> Required(ID)),
     GetReq   |-> Plain(SmallCap, 1 :> Required(ID) @@ 2 :> Optional(COUNT64) @@ 3 :> Optional(COUNT32)),
     PushReq  |-> Plain(PushCap, 1 :> Required(ID) @@ 2 :> Repeated(1, PushEventsCap, FALSE, EVENT)),
     ListReq  |-> Plain(SmallCap, 1 :> Optional(COUNT32) @@ 2 :> Optional(COUNT32)),
     ForksReq |-> Plain(SmallCap, 1 :> Optional(ID) @@ 2 :> Optional(COUNT32) @@ 3 :> Optional(COUNT32)),
     Request  |-> Descriptor(FrameCap,
          1 :> Variant("HeadReq") @@ 2 :> Variant("GetReq") @@ 3 :> Variant("PushReq")
          @@ 4 :> Variant("ListReq") @@ 5 :> Variant("ForksReq"), 1, "none")]

ResponseTables ==
    [HeadResp     |-> Plain(SmallCap, 1 :> Optional(COUNT64) @@ 2 :> Required(ID) @@ 3 :> Optional(TIMESTAMP)),
     EventsResp   |-> Plain(FrameCap, 1 :> Repeated(0, GetCap, FALSE, EVENT)
                                          @@ 2 :> Optional(COUNT64) @@ 3 :> Optional(FLAG)),
     AcceptedResp |-> Plain(SmallCap, 1 :> Optional(COUNT64) @@ 2 :> Optional(COUNT32)),
     NotFoundResp |-> Plain(0, [n \in {} |-> 0]),
     RejectedResp |-> Plain(SmallCap + RejectMsgCap,
          1 :> Required(Enum(7)) @@ 2 :> Optional(COUNT64)
          @@ 3 :> Optional(String(RejectMsgCap, "utf8"))),
     Response |-> Descriptor(FrameCap,
          1 :> Variant("HeadResp") @@ 2 :> Variant("EventsResp") @@ 3 :> Variant("AcceptedResp")
          @@ 4 :> Variant("LedgersResp") @@ 5 :> Variant("ForksResp")
          @@ 6 :> Variant("NotFoundResp") @@ 7 :> Variant("RejectedResp"), 1, "none")]

EntryTables ==
    [LedgerSummary |-> Plain(SmallCap,
          1 :> Required(ID) @@ 2 :> Required(Enum(4)) @@ 3 :> Optional(COUNT64) @@ 4 :> Required(ID)
          @@ 5 :> Optional(COUNT64) @@ 6 :> Optional(TIMESTAMP) @@ 7 :> Optional(TIMESTAMP)
          @@ 8 :> Optional(COUNT32) @@ 9 :> Optional(FLAG)),
     LedgersResp |-> Plain(FrameCap,
          1 :> Repeated(0, ListCap, FALSE, Message("LedgerSummary")) @@ 2 :> Optional(FLAG)),
     ForkRecord |-> Plain(2 * EventCap + SmallCap,
          1 :> Required(ID) @@ 2 :> Required(COUNT64) @@ 3 :> Required(EVENT) @@ 4 :> Required(EVENT)
          @@ 5 :> Optional(TIMESTAMP) @@ 6 :> Optional(ID)),
     ForksResp |-> Plain(FrameCap,
          1 :> Repeated(0, ForksCap, FALSE, Message("ForkRecord")) @@ 2 :> Optional(FLAG))]

ArtifactTables ==
    [InvitationBundle |-> Plain(BundleCap, 1 :> Repeated(1, BundleEventsCap, FALSE, EVENT)),
     AcceptanceFile   |-> Descriptor(AcceptanceFileCap,
          1 :> Required(Nested("Acceptance", AcceptanceCap)) @@ 2 :> Required(SIG),
          NoOneof, "acceptance"),
     IdentityDescriptor |-> Plain(DescriptorCap,
          1 :> Required(EVENT) @@ 2 :> Repeated(0, WitnessesCap, TRUE, ID))]

Schema == RootTables @@ ListTables @@ PayloadTables @@ EventTables
          @@ RequestTables @@ ResponseTables @@ EntryTables @@ ArtifactTables
-----------------------------------------------------------------------------
(* The characters of published text: "a" stands for a base32 letter or     *)
(* digit, "A" for an uppercase one, "_" for any other printable ASCII,     *)
(* "e" for a letter outside ASCII, "ctl" for a control, bidi or invisible  *)
(* character and "bad" for a byte that is no UTF-8.                        *)

Chars == {"a", "A", "-", ".", "_", "e", " ", "@", "ctl", "bad"}
In(text, c) == \E i \in 1..Len(text) : text[i] = c

CheckCodepoints(text) == IF In(text, "ctl") THEN "control" ELSE "ok"

ParsesAsId(text) == Len(text) = IdTextCap /\ \A i \in 1..Len(text) : text[i] \in {"a", "A"}

CheckDisplayName(text) ==
    CASE CheckCodepoints(text) # "ok" -> "invalid_display_name"
      [] text[1] = " " \/ text[Len(text)] = " " -> "invalid_display_name"
      [] ParsesAsId(text) -> "invalid_display_name"
      [] OTHER -> "ok"

(* text.split(sep): the pieces between separators, in order. *)
Split(text, sep) ==
    LET cuts == Ascending({0, Len(text) + 1} \cup {i \in 1..Len(text) : text[i] = sep})
    IN  [k \in 1..(Len(cuts) - 1) |-> SubSeq(text, cuts[k] + 1, cuts[k + 1] - 1)]

LabelReason(label) ==
    CASE label = <<>> -> "empty label"
      [] Len(label) > LabelCap -> "long label"
      [] label[1] \notin {"a", "A"} \/ label[Len(label)] \notin {"a", "A"} -> "label edge"
      [] \E i \in 1..Len(label) : label[i] \notin {"a", "A", "-"} -> "label character"
      [] OTHER -> "ok"

FirstReason(labels) ==
    LET bad == {k \in 1..Len(labels) : LabelReason(labels[k]) # "ok"}
    IN  IF bad = {} THEN "ok" ELSE LabelReason(labels[Min(bad)])

CheckHostname(text) ==
    CASE In(text, "e") -> "outside ASCII"
      [] In(text, "A") -> "uppercase"
      [] text[Len(text)] = "." -> "ends with a dot"
      [] ~In(text, ".") -> "no dot"
      [] OTHER -> FirstReason(Split(text, "."))

(* The mutant: the second copy forgets the rule about the last dot. *)
CheckClaimedHostnameLoosely(text) ==
    CASE text = <<>> -> "empty"
      [] Len(text) > HostnameCap -> "long"
      [] In(text, "e") -> "outside ASCII"
      [] In(text, "A") -> "uppercase"
      [] ~In(text, ".") -> "no dot"
      [] OTHER -> FirstReason(Front(Split(text, ".")))

(* verification/verify.rs checks a cached claim once more, with its caps. *)
CheckClaimedHostname(text) ==
    CASE text = <<>> -> "empty"
      [] Len(text) > HostnameCap -> "long"
      [] In(text, "e") -> "outside ASCII"
      [] In(text, "A") -> "uppercase"
      [] text[Len(text)] = "." -> "ends with a dot"
      [] ~In(text, ".") -> "no dot"
      [] OTHER -> FirstReason(Split(text, "."))

CheckEmail(text) ==
    LET parts == Split(text, "@")
    IN  IF CheckCodepoints(text) = "ok" /\ Len(parts) = 2 /\ parts[1] # <<>> /\ parts[2] # <<>>
        THEN "ok" ELSE "invalid_email"

(* The mutant: the reason is handed on instead of the class. *)
CheckStringByReason(rule, text) ==
    CASE In(text, "bad") -> "invalid_utf8"
      [] rule = "display_name" -> CheckDisplayName(text)
      [] rule = "hostname" -> CheckHostname(text)
      [] rule = "email" -> CheckEmail(text)
      [] OTHER -> "ok"

CheckString(rule, text) ==
    CASE In(text, "bad") -> "invalid_utf8"
      [] rule = "display_name" -> CheckDisplayName(text)
      [] rule = "hostname" -> IF CheckHostname(text) = "ok" THEN "ok" ELSE "invalid_hostname"
      [] rule = "email" -> CheckEmail(text)
      [] OTHER -> "ok"

-----------------------------------------------------------------------------
(* The scanner and the field table.                                        *)

Codes == {"ok", "message_too_large", "truncated", "non_minimal_varint", "varint_overflow", "unknown_field",
    "unknown_oneof_variant", "wrong_wire_type", "duplicate_field", "field_out_of_order",
    "default_value_encoded", "field_forbidden", "missing_field", "missing_oneof",
    "multiple_oneof_variants", "unspecified_enum", "enum_value", "wrong_length", "field_too_long",
    "invalid_utf8", "invalid_display_name", "invalid_hostname", "invalid_email",
    "value_out_of_range", "repeated_count", "too_many", "repeated_duplicate", "fields_must_differ",
    "fields_must_match", "set_at_seq_zero", "missing_chain_field", "inception_past_seq_zero",
    "non_inception_at_seq_zero", "embedded_inception_not_raw_rooted", "inception_id_mismatch",
    "inception_key_mismatch", "invalid_public_key", "bad_signature", "too_deeply_nested"}

Count(recs, n) == Cardinality({i \in 1..Len(recs) : recs[i].n = n})

(* Scanned::bytes, wire::bytes: the first value of a field, if any. *)
ValuesOf(recs, n) == LET hits == SelectSeq(recs, LAMBDA r : r.n = n)
                     IN  [i \in 1..Len(hits) |-> hits[i].v]
ValueOf(recs, n) == ValuesOf(recs, n)[1]

Variants(d) == {n \in DOMAIN d.fields : d.fields[n].card = "variant"}
VariantOf(numbers, recs) == SelectSeq(recs, LAMBDA r : r.n \in numbers)[1]

WireOf(kind) == IF kind.is \in {"varint", "enum"} THEN 0 ELSE 2

CheckVarint(kind, value) ==
    IF kind.is = "enum"
    THEN CASE value = 0 -> "unspecified_enum"
           [] value \notin kind.values -> "enum_value"
           [] OTHER -> "ok"
    ELSE CASE value = 0 -> "default_value_encoded"
           [] value < kind.min \/ value > kind.max -> "value_out_of_range"
           [] OTHER -> "ok"

RECURSIVE Validate(_, _, _)

(* The mutant: the container is counted. *)
DetachedDepthInherited(depth) == depth + 1

(* A detached object restarts the nesting budget. *)
DetachedDepth(depth) == 0

CheckBytes(kind, v, depth) ==
    LET size == Size(v) IN
    CASE kind.is = "message"  -> Validate(kind.of, AsMsg(v), depth + 1)
      [] kind.is = "detached" -> Validate(kind.of, AsMsg(v), DetachedDepth(depth))
      [] kind.is = "bytes" /\ kind.exact # {} /\ size \notin kind.exact -> "wrong_length"
      [] size = 0 -> "default_value_encoded"
      [] size > kind.max -> "field_too_long"
      [] kind.is = "string" -> CheckString(kind.rule, AsText(v))
      [] kind.is = "nested" -> Validate(kind.of, AsMsg(v), depth + 1)
      [] OTHER -> "ok"

UnknownField(d, n) ==
    IF d.oneof # NoOneof /\ n >= d.oneof THEN "unknown_oneof_variant" ELSE "unknown_field"

(* The mutant: fields in any order. *)
OutOfOrderNever(recs, i) == FALSE

(* Whether the record at i breaks the canonical order of what precedes it. *)
OutOfOrder(recs, i) ==
    LET n == recs[i].n
        last == IF i = 1 THEN 0 ELSE recs[i - 1].n
        seen == \E j \in 1..(i - 1) : recs[j].n = n
    IN  n < last \/ (seen /\ n # last)

(* What the scan says of record i, all earlier ones being fine. *)
ScanRecord(d, recs, i, depth) ==
    LET r == recs[i]
        f == d.fields[r.n]
        before == Count(SubSeq(recs, 1, i - 1), r.n)
    IN  CASE r.form = "padded_key" -> "non_minimal_varint"
          [] r.form = "wide_key" -> "varint_overflow"
          [] r.n \notin DOMAIN d.fields -> UnknownField(d, r.n)
          [] before > 0 /\ f.card # "repeated" -> "duplicate_field"
          [] OutOfOrder(recs, i) -> "field_out_of_order"
          [] r.wire # WireOf(f.kind) -> "wrong_wire_type"
          [] f.card = "repeated" /\ before >= f.max -> "too_many"
          [] r.form = "padded_value" -> "non_minimal_varint"
          [] r.form = "cut" -> "truncated"
          [] r.wire = 0 -> CheckVarint(f.kind, r.v.int)
          [] OTHER -> CheckBytes(f.kind, r.v, depth)

(* The first refusal; later records are never looked at. *)
RECURSIVE ScanFrom(_, _, _, _)
ScanFrom(d, recs, i, depth) ==
    IF i > Len(recs) THEN "ok"
    ELSE LET code == ScanRecord(d, recs, i, depth)
         IN  IF code = "ok" THEN ScanFrom(d, recs, i + 1, depth) ELSE code

Scan(d, recs, depth) ==
    IF depth > NestingCap THEN "too_deeply_nested" ELSE ScanFrom(d, recs, 1, depth)

FieldCardinality(f, recs, n) ==
    LET count == Count(recs, n)
        entries == ValuesOf(recs, n)
    IN  CASE f.card = "forbidden" /\ count > 0 -> "field_forbidden"
          [] f.card = "required" /\ count = 0 ->
                 IF f.kind.is = "enum" THEN "unspecified_enum" ELSE "missing_field"
          [] f.card = "repeated" /\ count < f.min -> "repeated_count"
          [] f.card = "repeated" /\ f.distinct /\ Cardinality({entries[i] : i \in 1..count}) < count ->
                 "repeated_duplicate"
          [] OTHER -> "ok"

CheckCardinality(d, recs) ==
    LET bad == {n \in DOMAIN d.fields : FieldCardinality(d.fields[n], recs, n) # "ok"}
        named == {n \in Variants(d) : Count(recs, n) > 0}
    IN  CASE bad # {} -> FieldCardinality(d.fields[Min(bad)], recs, Min(bad))
          [] d.oneof # NoOneof /\ named = {} -> "missing_oneof"
          [] d.oneof # NoOneof /\ Cardinality(named) > 1 -> "multiple_oneof_variants"
          [] OTHER -> "ok"
-----------------------------------------------------------------------------
(* The cross-field checks.                                                 *)

Body(signed) == AsMsg(ValueOf(signed, 1))
Payload(body) == VariantOf(10..19, body)
RootOf(inception) == VariantOf({10, 11}, inception)

Verifies(sig, key, over) == Holds(sig, "key") /\ sig.key = key /\ sig.over = over
IsPoint(v) == Holds(v, "raw") /\ v.raw \in Keys

(* inception_standalone: the embedded event on its own. *)
InceptionStandalone(recs, depth) ==
    LET code == Validate("SignedEvent", recs, depth)
        payload == Payload(Body(recs))
        root == RootOf(payload.v.msg)
        key == ValueOf(root.v.msg, 1)
    IN  CASE code # "ok" -> code
          [] payload.n # 10 \/ (payload.n = 10 /\ root.n # 10) -> "embedded_inception_not_raw_rooted"
          [] ~IsPoint(key) -> "invalid_public_key"
          [] ~Verifies(ValueOf(recs, 2), key, [sign |-> Body(recs)]) -> "bad_signature"
          [] OTHER -> "ok"

ActiveKey(recs) == ValueOf(RootOf(Payload(Body(recs)).v.msg).v.msg, 1)

(* The mutant: the recorded id is taken on trust. *)
CheckEmbeddedInceptionKeyOnly(recs, at, depth) ==
    LET embedded == AsMsg(ValueOf(recs, at))
        code == InceptionStandalone(embedded, depth + 1)
    IN  CASE code # "ok" -> code
          [] ValueOf(recs, 2) # ActiveKey(embedded) -> "inception_key_mismatch"
          [] OTHER -> "ok"

CheckEmbeddedInception(recs, at, depth) ==
    LET embedded == AsMsg(ValueOf(recs, at))
        code == InceptionStandalone(embedded, depth + 1)
    IN  CASE code # "ok" -> code
          [] ValueOf(recs, 1) # Hash(Body(embedded)) -> "inception_id_mismatch"
          [] ValueOf(recs, 2) # ActiveKey(embedded) -> "inception_key_mismatch"
          [] OTHER -> "ok"

(* detached_acceptance: the invitee's signature over the blob beside it. *)
DetachedAcceptance(recs) ==
    LET blob == AsMsg(ValueOf(recs, 1))
        key == ValueOf(blob, 5)
    IN  CASE ~IsPoint(key) -> "invalid_public_key"
          [] ~Verifies(ValueOf(recs, 2), key, [accept |-> blob]) -> "bad_signature"
          [] OTHER -> "ok"

CheckEventBody(recs) ==
    LET past == Count(recs, 3) > 0
        payload == Payload(recs)
        inner == payload.v.msg
        root == RootOf(inner)
    IN  CASE ~past /\ Count(recs, 2) + Count(recs, 4) > 0 -> "set_at_seq_zero"
          [] past /\ (Count(recs, 2) = 0 \/ Count(recs, 4) = 0) -> "missing_chain_field"
          [] payload.n = 10 /\ past -> "inception_past_seq_zero"
          [] payload.n # 10 /\ ~past -> "non_inception_at_seq_zero"
          [] payload.n = 10 /\ ValueOf(root.v.msg, IF root.n = 10 THEN 1 ELSE 2) # ValueOf(recs, 6) ->
                 "fields_must_match"
          [] payload.n \in {12, 14} /\ ValueOf(inner, 1) = ValueOf(recs, 2) -> "fields_must_differ"
          [] OTHER -> "ok"

CrossCheck(check, recs, depth) ==
    CASE check = "raw_root" -> IF ValueOf(recs, 1) = ValueOf(recs, 2) THEN "fields_must_differ" ELSE "ok"
      [] check = "identity_root" -> CheckEmbeddedInception(recs, 3, depth)
      [] check = "invitation" -> CheckEmbeddedInception(recs, 4, depth)
      [] check = "acceptance" -> DetachedAcceptance(recs)
      [] check = "event_body" -> CheckEventBody(recs)
      [] OTHER -> "ok"

Validate(name, recs, depth) ==
    LET d == Schema[name] IN
    IF SizeOf(recs) > d.max THEN "message_too_large"
    ELSE LET scanned == Scan(d, recs, depth) IN
         IF scanned # "ok" THEN scanned
         ELSE LET counted == CheckCardinality(d, recs) IN
              IF counted # "ok" THEN counted ELSE CrossCheck(d.check, recs, depth)

Verdict(name, recs) == Validate(name, recs, 0)

-----------------------------------------------------------------------------
(* Writing.  The encoders of sign.rs (prost) and of wire.rs emit fields in *)
(* ascending order, a repeated field entry by entry, no default value, and *)
(* a submessage even when it is empty.                                     *)

(* The mutant: put_bytes where put_message is meant. *)
IsDefaultOrEmpty(f, v) == IF Holds(v, "int") THEN v.int = 0 ELSE Size(v) = 0

IsDefault(f, v) == f.kind.is \notin {"message", "detached"} /\
    (IF Holds(v, "int") THEN v.int = 0 ELSE Size(v) = 0)

Encode(name, m) ==
    LET f == Schema[name].fields
        Records(n) == IF f[n].card = "repeated" THEN [i \in 1..Len(m[n]) |-> Rec(n, m[n][i])]
                      ELSE IF IsDefault(f[n], m[n]) THEN <<>> ELSE <<Rec(n, m[n])>>
        numbers == Ascending(DOMAIN m)
    IN  FlattenSeq([i \in 1..Len(numbers) |-> Records(numbers[i])])

(* What a reader takes from a message: the last of a field, every entry of *)
(* a repeated one (prost; wire::fields, uint, bytes and repeated).         *)
Decode(name, recs) ==
    [n \in {recs[i].n : i \in 1..Len(recs)} |->
        IF Schema[name].fields[n].card = "repeated" THEN ValuesOf(recs, n) ELSE Last(ValuesOf(recs, n))]

Seal(k, body) == Encode("SignedEvent", 1 :> Msg(body) @@ 2 :> Sig(Key(k), [sign |-> body]))

BuildInception(k, kind, root, nonce, now) ==
    Seal(k, Encode("EventBody", 5 :> Num(now) @@ 6 :> Key(k)
              @@ 10 :> Msg(Encode("Inception", 1 :> Num(kind) @@ 2 :> nonce @@ root))))

RawRoot(k, reserve) ==
    10 :> Msg(Encode("RawRoot", 1 :> Key(k) @@ 2 :> [reserve |-> reserve, size |-> IdCap]))
IdentityRoot(k, inception) ==
    11 :> Msg(Encode("IdentityRoot", 1 :> Hash(Body(inception)) @@ 2 :> Key(k) @@ 3 :> Msg(inception)))

BuildAppend(k, at, now, payload) ==
    Seal(k, Encode("EventBody", 2 :> at.ledger @@ 3 :> Num(at.seq) @@ 4 :> at.prev
              @@ 5 :> Num(Max({now, at.prev_ms})) @@ 6 :> Key(k) @@ payload))

BuildList(tag, name, entries) == tag :> Msg(Encode(name, 1 :> entries))
BuildTarget(tag, name, target) == tag :> Msg(Encode(name, 1 :> target))
BuildRemoval(target) == BuildTarget(16, "MembershipRemoval", target)
BuildInvitation(inception, role) ==
    14 :> Msg(Encode("MembershipInvitation", 1 :> Hash(Body(inception)) @@ 2 :> ActiveKey(inception)
                @@ 3 :> Num(role) @@ 4 :> Msg(inception)))
BuildAcceptance(k, ledger, invitation, invitee) ==
    LET blob == Encode("Acceptance", 2 :> ledger @@ 3 :> invitation @@ 4 :> invitee @@ 5 :> Key(k))
    IN  1 :> Msg(blob) @@ 2 :> Sig(Key(k), [accept |-> blob])
BuildAdmission(acceptance) == 15 :> Msg(Encode("MembershipAcceptance", acceptance))
BuildProfile(name, host, email) ==
    17 :> Msg(Encode("ProfileUpdate", 1 :> Text(name) @@ 2 :> Text(host) @@ 3 :> Text(email)))

(* envelope: a Request or Response around one of its variants. *)
Frame(name, n, inner) ==
    Encode(name, n :> Msg(Encode(Schema[name].fields[n].kind.of, inner)))

-----------------------------------------------------------------------------
(* Reading a request, and the answer to one that is refused.               *)

Uint(recs, n) == IF Count(recs, n) = 0 THEN 0 ELSE ValueOf(recs, n).int
Bytes(recs, n) == IF Count(recs, n) = 0 THEN {} ELSE {ValueOf(recs, n)}

IsUnknownVariant(recs) ==
    /\ Len(recs) = 1
    /\ recs[1].wire = 2 /\ recs[1].form \in {"plain", "padded_key", "padded_value"}
    /\ recs[1].n \notin 1..5

(* The mutant: every unknown number is a newer version's request. *)
RejectCodeByVariant(recs, code) ==
    CASE code \in {"message_too_large", "field_too_long", "too_many"} -> "too_large"
      [] code = "unknown_oneof_variant" -> "unsupported"
      [] OTHER -> "malformed"

RejectCode(recs, code) ==
    CASE code \in {"message_too_large", "field_too_long", "too_many"} -> "too_large"
      [] code = "unknown_oneof_variant" /\ IsUnknownVariant(recs) -> "unsupported"
      [] OTHER -> "malformed"

ParseRequest(recs) ==
    LET code == Verdict("Request", recs)
        n == recs[1].n
        inner == recs[1].v.msg
    IN  CASE code # "ok" -> [rejected |-> RejectCode(recs, code)]
          [] n = 1 -> [head |-> Bytes(inner, 1)]
          [] n = 2 -> [get |-> Bytes(inner, 1), since |-> Uint(inner, 2), limit |-> Uint(inner, 3)]
          [] n = 3 -> [push |-> Bytes(inner, 1), events |-> ValuesOf(inner, 2)]
          [] n = 4 -> [list |-> Uint(inner, 1), limit |-> Uint(inner, 2)]
          [] n = 5 -> [forks |-> Bytes(inner, 1), offset |-> Uint(inner, 2), limit |-> Uint(inner, 3)]

(* Reading a response.  A field table that passed leaves one variant. *)
ReadSummary(e) ==
    [ledger |-> ValueOf(e, 1), kind |-> Uint(e, 2), head_seq |-> Uint(e, 3), head_event |-> ValueOf(e, 4),
     events |-> Uint(e, 5), first_seen |-> Uint(e, 6), updated |-> Uint(e, 7),
     forks |-> Uint(e, 8), truncated |-> Uint(e, 9) # 0]
ReadFork(e) ==
    [ledger |-> ValueOf(e, 1), seq |-> Uint(e, 2), kept |-> ValueOf(e, 3), conflicting |-> ValueOf(e, 4),
     observed |-> Uint(e, 5), source |-> Bytes(e, 6)]
Entries(inner) == LET vs == ValuesOf(inner, 1) IN [i \in 1..Len(vs) |-> vs[i].msg]
IsBroken(n, inner) == n = 5 /\ \E i \in 1..Len(Entries(inner)) :
                          \E s \in Bytes(Entries(inner)[i], 6) : ~IsPoint(s)

ParseResponse(recs) ==
    LET n == recs[1].n
        inner == recs[1].v.msg
    IN  CASE Verdict("Response", recs) # "ok" -> [broken |-> TRUE]
          [] IsBroken(n, inner) -> [broken |-> TRUE]
          [] n = 1 -> [head |-> ValueOf(inner, 2), seq |-> Uint(inner, 1), updated |-> Uint(inner, 3)]
          [] n = 2 -> [events |-> ValuesOf(inner, 1), seq |-> Uint(inner, 2), more |-> Uint(inner, 3) # 0]
          [] n = 3 -> [accepted |-> Uint(inner, 1), stored |-> Uint(inner, 2)]
          [] n = 4 -> [ledgers |-> [i \in 1..Count(inner, 1) |-> ReadSummary(Entries(inner)[i])],
                       more |-> Uint(inner, 2) # 0]
          [] n = 5 -> [forks |-> [i \in 1..Count(inner, 1) |-> ReadFork(Entries(inner)[i])],
                       more |-> Uint(inner, 2) # 0]
          [] n = 6 -> [not_found |-> TRUE]
          [] n = 7 -> [rejected |-> Uint(inner, 1), at_seq |-> Uint(inner, 2), msg |-> Bytes(inner, 3)]

-----------------------------------------------------------------------------
(* Varints.  A byte is its continuation bit times 2^GroupBits plus its     *)
(* payload.  LastShift is the shift at which the value is nearly full: 63. *)

Base == 2 ^ GroupBits
LastShift == GroupBits * ((Width - 1) \div GroupBits)
Continues(b) == b >= Base
PayloadBits(b) == b % Base

RECURSIVE PutVarint(_)
PutVarint(value) == IF value >= Base THEN <<Base + (value % Base)>> \o PutVarint(value \div Base) ELSE <<value>>

(* validate.rs: padding and width are refused. *)
RECURSIVE ReadVarintAt(_, _, _, _)
ReadVarintAt(bytes, pos, shift, value) ==
    IF pos > Len(bytes) THEN [error |-> "truncated"]
    ELSE LET payload == PayloadBits(bytes[pos])
             grown == value + payload * 2 ^ shift
         IN  CASE shift = LastShift /\ payload > 2 ^ (Width - LastShift) - 1 -> [error |-> "varint_overflow"]
               [] ~Continues(bytes[pos]) /\ payload = 0 /\ shift > 0 -> [error |-> "non_minimal_varint"]
               [] ~Continues(bytes[pos]) -> [value |-> grown, end |-> pos]
               [] shift + GroupBits > LastShift -> [error |-> "varint_overflow"]
               [] OTHER -> ReadVarintAt(bytes, pos + 1, shift + GroupBits, grown)
(* The mutant: the width is not checked, and what does not fit is lost. *)
ReadVarintWrapping(bytes) ==
    LET wide == {i \in 1..Len(bytes) : ~Continues(bytes[i])} IN
    IF wide = {} THEN [error |-> "truncated"]
    ELSE [value |-> FoldLeft(LAMBDA v, i : (v + PayloadBits(bytes[i]) * 2 ^ (GroupBits * (i - 1))) % (2 ^ Width),
                             0, [i \in 1..Min(wide) |-> i]),
          end |-> Min(wide)]

ReadVarint(bytes) == ReadVarintAt(bytes, 1, 0, 0)

(* wire.rs: the reader of frames that passed the field table drops the     *)
(* bits that do not fit and accepts padding.                               *)
RECURSIVE ReadLenientAt(_, _, _, _)
ReadLenientAt(bytes, pos, shift, value) ==
    IF pos > Len(bytes) THEN [error |-> "none"]
    ELSE LET grown == (value + PayloadBits(bytes[pos]) * 2 ^ shift) % (2 ^ Width)
         IN  CASE ~Continues(bytes[pos]) -> [value |-> grown, end |-> pos]
               [] shift + GroupBits > LastShift -> [error |-> "none"]
               [] OTHER -> ReadLenientAt(bytes, pos + 1, shift + GroupBits, grown)
ReadLenient(bytes) == ReadLenientAt(bytes, 1, 0, 0)

-----------------------------------------------------------------------------
(* Links.  A link is cut where parse cuts it: the scheme, the authority,   *)
(* the path, whether a "?" follows, and the pairs of the query, each a key *)
(* and the elements of its value.  Texts in capitals are the same texts    *)
(* with their letters in the other case; "bad" is no id, "" is empty.      *)

Endpoints == {"ep1", "ep2", "ep3"}
Capitals == [ep1 |-> "EP1", ep2 |-> "EP2", mabel |-> "MABEL", id |-> "ID", endpoints |-> "ENDPOINTS"]
Lowered(text) ==
    IF \E t \in DOMAIN Capitals : Capitals[t] = text
    THEN CHOOSE t \in DOMAIN Capitals : Capitals[t] = text ELSE text
Elements == Endpoints \cup {"EP1", "EP2", "bad", ""}
QueryKeys == {"endpoints", "ENDPOINTS", "other"}
Heads == [scheme : {"mabel", "MABEL", "other"}, authority : {"id", "ID", "bad"}, path : {"", "/", "/x"},
          asks : BOOLEAN, query : {<<>>}]

(* The mutant: one endpoint in two spellings is two endpoints. *)
ParseEndpointsAsTyped(value) ==
    CASE value = <<>> \/ In(value, "") -> [error |-> "empty"]
      [] \E k \in 1..Len(value) : Lowered(value[k]) \notin Endpoints -> [error |-> "codec"]
      [] ~IsInjective(value) -> [error |-> "twice"]
      [] Len(value) > LinkEndpointsCap -> [error |-> "too many"]
      [] OTHER -> [endpoints |-> [k \in 1..Len(value) |-> Lowered(value[k])]]

(* Each element is compared as the key it decodes to. *)
ParseEndpoints(value) ==
    LET decoded == [k \in 1..Len(value) |-> Lowered(value[k])]
    IN  CASE value = <<>> \/ In(value, "") -> [error |-> "empty"]
          [] \E k \in 1..Len(value) : decoded[k] \notin Endpoints -> [error |-> "codec"]
          [] ~IsInjective(decoded) -> [error |-> "twice"]
          [] Len(value) > LinkEndpointsCap -> [error |-> "too many"]
          [] OTHER -> [endpoints |-> decoded]

(* The mutant: a second list of endpoints replaces the first. *)
ParseQueryLastWins(query) ==
    CASE query = <<>> -> [error |-> "empty query"]
      [] \E k \in 1..Len(query) : Lowered(query[k].key) # "endpoints" -> [error |-> "query key"]
      [] OTHER -> ParseEndpoints(Last(query).value)

ParseQuery(query) ==
    LET Keyed(k) == Lowered(query[k].key) = "endpoints"
    IN  CASE query = <<>> -> [error |-> "empty query"]
          [] ~Keyed(1) -> [error |-> "query key"]
          [] Holds(ParseEndpoints(query[1].value), "error") -> ParseEndpoints(query[1].value)
          [] Len(query) > 1 -> [error |-> IF Keyed(2) THEN "repeated key" ELSE "query key"]
          [] OTHER -> ParseEndpoints(query[1].value)

ParseLink(link) ==
    CASE Lowered(link.scheme) # "mabel" -> [error |-> "scheme"]
      [] Lowered(link.authority) # "id" -> [error |-> "authority"]
      [] link.path \notin {"", "/"} -> [error |-> "path segment"]
      [] ~link.asks -> [endpoints |-> <<>>]
      [] OTHER -> ParseQuery(link.query)

(* Display: lowercase, no path, and a query when there is an endpoint. *)
RenderLink(endpoints) ==
    [scheme |-> "mabel", authority |-> "id", path |-> "", asks |-> endpoints # <<>>,
     query |-> IF endpoints = <<>> THEN <<>> ELSE <<[key |-> "endpoints", value |-> endpoints]>>]

(* A link with every letter in lower case. *)
LoweredLink(link) ==
    [link EXCEPT !.scheme = Lowered(@), !.authority = Lowered(@),
                 !.query = [k \in DOMAIN @ |-> [key |-> Lowered(@[k].key),
                                                value |-> [i \in DOMAIN @[k].value |-> Lowered(@[k].value[i])]]]]

-----------------------------------------------------------------------------
(* Every way one record of a message, at any depth, can be damaged.        *)

Inflated == FrameCap + 1
OtherValues(v) ==
    CASE Holds(v, "int")   -> {Num(k) : k \in {0, v.int - 1, v.int + 1} \ {-1}}
      [] Holds(v, "chars") -> {Text(<<>>), Text(<<"bad">>), Text(<<"ctl">> \o v.chars), Text(v.chars \o v.chars)}
      [] Holds(v, "msg")   -> {Msg(<<>>)}
      [] OTHER -> {[v EXCEPT !.size = s] : s \in {0, v.size + 1, Inflated}} \cup {Id("other"), Key("k1")}

Replace(recs, i, r) == [recs EXCEPT ![i] = r]

RECURSIVE Damaged(_)
Damaged(recs) == UNION {
    {RemoveAt(recs, i), InsertAt(recs, i, recs[i])}
    \cup {Replace(Replace(recs, i, recs[i + 1]), i + 1, recs[i]) : j \in {i} \cap 1..(Len(recs) - 1)}
    \cup {Replace(recs, i, [recs[i] EXCEPT !.n = k]) : k \in {recs[i].n - 1, recs[i].n + 1, 20}}
    \cup {Replace(recs, i, [recs[i] EXCEPT !.wire = 5])}
    \cup {Replace(recs, i, [recs[i] EXCEPT !.form = f]) : f \in {"padded_key", "padded_value", "wide_key"}}
    \cup {Replace(recs, i, [recs[i] EXCEPT !.form = "cut"]) : j \in {i} \cap {Len(recs)}}
    \cup {Replace(recs, i, [recs[i] EXCEPT !.v = v]) : v \in OtherValues(recs[i].v)}
    \cup (IF Holds(recs[i].v, "msg")
          THEN {Replace(recs, i, [recs[i] EXCEPT !.v = Msg(m)]) : m \in Damaged(recs[i].v.msg)} ELSE {})
    : i \in 1..Len(recs)}

Init ==
    \/ \E m \in Messages : input = [frame |-> m.recs, of |-> m.name, means |-> m.means, built |-> TRUE]
                           /\ left = m.edits
    \/ input = [varint |-> <<>>] /\ left = MaxBytes
    \/ input = [host |-> <<>>] /\ left = MaxChars
    \/ \E head \in Heads : input = [link |-> head] /\ left = MaxParts

(* Somebody changes one record of the message. *)
Damage ==
    /\ left > 0 /\ Holds(input, "frame")
    /\ \E recs \in Damaged(input.frame) : input' = [input EXCEPT !.frame = recs, !.built = FALSE]
    /\ left' = left - 1

(* One more byte, character, or key or element of a query. *)
Extend ==
    /\ left > 0 /\ left' = left - 1
    /\ \/ /\ Holds(input, "varint")
          /\ \E b \in 0..(2 * Base - 1) : input' = [varint |-> Append(input.varint, b)]
       \/ /\ Holds(input, "host")
          /\ \E c \in Chars \ {"ctl", "bad", "@", " "} : input' = [host |-> Append(input.host, c)]
       \/ /\ Holds(input, "link")
          /\ input.link.asks
          /\ \/ \E key \in QueryKeys :
                   input' = [input EXCEPT !.link.query = Append(@, [key |-> key, value |-> <<>>])]
             \/ /\ input.link.query # <<>>
                /\ \E e \in Elements :
                      input' = [input EXCEPT !.link.query[Len(input.link.query)].value = Append(@, e)]

Next == Damage \/ Extend
Spec == Init /\ [][Next]_vars

-----------------------------------------------------------------------------
(* The verdict on a frame is one of the rejection classes of WireError,    *)
(* whatever was done to it: the gate is total.                             *)
TypeOK ==
    /\ left \in 0..Max({MaxBytes, MaxChars, MaxParts, 2})
    /\ Holds(input, "frame") => Verdict(input.of, input.frame) \in Codes

(* What the builders of sign.rs, the encoders of wire.rs and the artifacts *)
(* write passes the gate, and the reader of wire.rs hands back exactly     *)
(* what was asked or answered, absent and zero fields included.            *)
BuiltIsReadBack ==
    Holds(input, "frame") /\ input.built =>
        CASE input.of = "Request"  -> ParseRequest(input.frame) = input.means
          [] input.of = "Response" -> ParseResponse(input.frame) = input.means
          [] OTHER -> Verdict(input.of, input.frame) = "ok"

(* Every message, and every message inside it, that the gate accepts is    *)
(* the one canonical encoding of what it says: no second byte string       *)
(* carries the same event under another id.                                *)
RECURSIVE Canonical(_, _)
Canonical(name, recs) ==
    /\ Encode(name, Decode(name, recs)) = recs
    /\ \A i \in 1..Len(recs) :
          LET kind == Schema[name].fields[recs[i].n].kind
          IN  kind.is \in {"message", "detached", "nested"} => Canonical(kind.of, recs[i].v.msg)
OneEncoding ==
    Holds(input, "frame") =>
        (Verdict(input.of, input.frame) = "ok" => Canonical(input.of, input.frame))

(* An event the gate accepts on its own is accepted wherever it is         *)
(* carried: in a push, in a page, in a fork record and in an invitation    *)
(* bundle.  An event's nesting is counted from its own outermost message,  *)
(* so no container makes a stored event undeliverable.                     *)
EventTravels ==
    (Holds(input, "frame") /\ input.of = "SignedEvent" /\ Verdict("SignedEvent", input.frame) = "ok") =>
        LET e == Msg(input.frame)
            fork == Encode("ForkRecord", 1 :> Id("ledger") @@ 2 :> Num(1) @@ 3 :> e @@ 4 :> e)
            carried == {<<"Request", 3, 1 :> Id("ledger") @@ 2 :> <<e>>>>,
                        <<"Response", 2, 1 :> <<e>>>>, <<"Response", 5, 1 :> <<Msg(fork)>>>>}
        IN  \A m \in {<<c[1], Frame(c[1], c[2], c[3])>> : c \in carried}
                     \cup {<<"InvitationBundle", Encode("InvitationBundle", 1 :> <<e>>)>>} :
                Verdict(m[1], m[2]) = "ok"

(* A request with a variant this version knows is never answered           *)
(* UNSUPPORTED: only a lone record with a number of its own can come from  *)
(* a newer version, and damage is answered MALFORMED.                      *)
DamageIsNeverUnsupported ==
    (Holds(input, "frame") /\ input.of = "Request") =>
        (ParseRequest(input.frame) = [rejected |-> "unsupported"] =>
            Len(input.frame) = 1 /\ input.frame[1].n \notin 1..5)

(* The id and the key recorded are those of the inception embedded at "at". *)
BoundTo(recs, at) ==
    LET e == ValueOf(recs, at).msg
    IN  /\ ValueOf(recs, 1) = Hash(Body(e))
        /\ ValueOf(e, 2) = Sig(ValueOf(recs, 2), [sign |-> Body(e)])

(* In an accepted event, an identity recorded beside an embedded inception *)
(* is the one that inception makes, and the key recorded with it signed    *)
(* that inception: nobody is invited, or made a founder, under a borrowed  *)
(* id or key.                                                              *)
NobodyIsBorrowed ==
    (Holds(input, "frame") /\ input.of = "SignedEvent" /\ Verdict("SignedEvent", input.frame) = "ok") =>
        \A payload \in {Payload(Body(input.frame))} :
            /\ payload.n = 14 => BoundTo(payload.v.msg, 4)
            /\ payload.n = 10 => \A root \in {RootOf(payload.v.msg)} : root.n = 11 => BoundTo(root.v.msg, 3)

(* A number has one spelling: what the scanner accepts is what put_varint  *)
(* writes for the value it read, and the lenient reader of wire.rs agrees. *)
VarintHasOneForm ==
    Holds(input, "varint") =>
        LET read == ReadVarint(input.varint) IN
        /\ Holds(read, "value") => /\ SubSeq(input.varint, 1, read.end) = PutVarint(read.value)
                                   /\ ReadLenient(input.varint) = read
        /\ input.varint = <<>> => \A n \in 0..(2 ^ Width - 1) :
               ReadVarint(PutVarint(n)) = [value |-> n, end |-> Len(PutVarint(n))]

(* The wire validator and the verification code accept the same hostnames  *)
(* for the same reasons, and these are the LDH names: dots and hyphens are *)
(* never at an edge of the name or of a label.                             *)
IsLDH(text) ==
    /\ \A i \in 1..Len(text) : text[i] \in {"a", "-", "."}
    /\ \A i \in 1..Len(text) : text[i] # "a" =>
           /\ i \in 2..(Len(text) - 1)
           /\ text[i] = "." => text[i - 1] = "a" /\ text[i + 1] = "a"
    /\ In(text, ".")
    /\ \A i \in 1..Len(text) : i + LabelCap <= Len(text) =>
           \E j \in i..(i + LabelCap) : text[j] = "."
HostnameCheckersAgree ==
    Holds(input, "host") =>
        LET text == input.host
            claim == CheckClaimedHostname(text)
        IN  \A field \in {Verdict("ProfileUpdate", <<Rec(2, Text(text))>>)} :
              /\ (field = "ok") <=> (claim = "ok")
              /\ (claim = "ok") <=> IsLDH(text) /\ Len(text) \in 1..HostnameCap
              /\ field = "invalid_hostname" => claim = CheckHostname(text)

(* A link that is accepted reads back as itself: what it names, rendered,  *)
(* is the link, but for the case of its letters and the one optional       *)
(* slash.  Nothing is dropped, merged or taken twice, neither beyond the   *)
(* cap nor in two spellings, and case never decides what a link means.     *)
LinkHasOneReading ==
    Holds(input, "link") =>
        LET link == ParseLink(input.link) IN
        /\ ParseLink(LoweredLink(input.link)) = link
        /\ Holds(link, "endpoints") =>
              /\ RenderLink(link.endpoints) = [LoweredLink(input.link) EXCEPT !.path = ""]
              /\ ParseLink(RenderLink(link.endpoints)) = link
              /\ Len(link.endpoints) <= LinkEndpointsCap /\ IsInjective(link.endpoints)

(* What is accepted has one spelling: messages, numbers, hostnames, links. *)
OneSpelling ==
    TypeOK /\ OneEncoding /\ VarintHasOneForm /\ HostnameCheckersAgree /\ LinkHasOneReading

(* Messages carry what was meant: what is built is read back, an event is  *)
(* accepted in every container, an embedded inception proves its identity, *)
(* and damage is told from a newer version.                                *)
MessagesCarryWhatWasMeant ==
    BuiltIsReadBack /\ EventTravels /\ NobodyIsBorrowed /\ DamageIsNeverUnsupported
=============================================================================
