----------------------------- MODULE KafkaCodec -----------------------------
(***************************************************************************)
(* The bytes under the Kafka protocol: the writer and the reader of        *)
(* wire.hh in both shapes of the protocol, records, and record batches.    *)
(*                                                                         *)
(* An item is encoded and decoded again, whole, cut short by the fetch     *)
(* limit, or with one value changed on the way.  A byte has Group + 1 bits *)
(* and an int16, int32 and int64 as many bytes as the constants say, so    *)
(* that every number of a width can be tried.  In a batch each field of    *)
(* fixed size is one symbol; CRC-32C is taken to tell any two contents     *)
(* apart, and what compress() makes is one symbol that only decompress()   *)
(* of the same codec undoes.                                               *)
(***************************************************************************)
EXTENDS Integers, FiniteSets, SequencesExt, FiniteSetsExt

CONSTANTS
    Group,             \* value bits in a byte of a varint; in the code 7
    Short, Word, Long, \* bytes of an int16, int32 and int64; in the code 2, 4, 8
    Items,             \* the values of each kind that are encoded
    Null               \* std::nullopt

VARIABLES item, wire, fate, got

vars == <<item, wire, fate, got>>

Byte    == 2 ^ (Group + 1)
Bits(n) == n * (Group + 1)
-----------------------------------------------------------------------------
(* writer *)

\* i16, i32, i64 and their unsigned kin: the top byte first.
BigEndian(v, n) == [k \in 1 .. n |-> ((v % 2 ^ Bits(n)) \div 2 ^ Bits(n - k)) % Byte]

Groups(v) == Min({k \in 1 .. Bits(Long) : v < 2 ^ (Group * k)})

\* uvarint, uvarlong
UVar(v) ==
    [k \in 1 .. Groups(v) |->
        ((v \div 2 ^ (Group * (k - 1))) % 2 ^ Group) + (IF k < Groups(v) THEN 2 ^ Group ELSE 0)]

\* varint, varlong: zigzag
Var(v) == UVar(IF v >= 0 THEN 2 * v ELSE -2 * v - 1)

\* The length of a string, of bytes or of an array, or null.
Length(n, flexible, width) == IF flexible THEN UVar(n + 1) ELSE BigEndian(n, width)

Sized(x, flexible, width) ==
    IF x = Null THEN Length(-1, flexible, width) ELSE Length(Len(x), flexible, width) \o x
-----------------------------------------------------------------------------
(* reader: what is left of the buffer; Bad is a protocol_error *)

Bad       == [ok |-> FALSE]
Got(v, s) == [ok |-> TRUE, v |-> v, rest |-> s]

Then(r, F(_, _)) == IF r.ok THEN F(r.v, r.rest) ELSE Bad

Raw(s, n) == IF n > Len(s) THEN Bad ELSE Got(SubSeq(s, 1, n), SubSeq(s, n + 1, Len(s)))

Number(s) == FoldLeft(LAMBDA a, x : a * Byte + x, 0, s)

Signed(u, width) == IF u >= 2 ^ (Bits(width) - 1) THEN u - 2 ^ Bits(width) ELSE u

ReadInt(s, width) == Then(Raw(s, width), LAMBDA x, t : Got(Signed(Number(x), width), t))

\* As many groups as cover the width; bits above it are shifted out.
MaxGroups(width) == (Bits(width) + Group - 1) \div Group

ReadUVar(s, width) ==
    LET ends == {k \in 1 .. Min({Len(s), MaxGroups(width)}) : s[k] < 2 ^ Group}
        k    == Min(ends)
        v    == FoldRight(LAMBDA x, a : a * 2 ^ Group + (x % 2 ^ Group), SubSeq(s, 1, k), 0)
    IN IF ends = {} THEN Bad ELSE Got(v % 2 ^ Bits(width), SubSeq(s, k + 1, Len(s)))

ReadVar(s, width) ==
    Then(ReadUVar(s, width),
         LAMBDA u, t : Got(IF u % 2 = 0 THEN u \div 2 ELSE -((u + 1) \div 2), t))

ReadLength(s, flexible, width) ==
    IF flexible THEN Then(ReadUVar(s, Word), LAMBDA u, t : Got(u - 1, t)) ELSE ReadInt(s, width)

\* nullable_string and nullable_bytes
ReadSized(s, flexible, width) ==
    Then(ReadLength(s, flexible, width),
         LAMBDA n, t : IF n < 0 THEN Got(Null, t) ELSE Raw(t, n))

\* array_len refuses more elements than bytes are left.
ReadArrayLen(s, flexible) ==
    Then(ReadLength(s, flexible, Word), LAMBDA n, t : IF n > Len(t) THEN Bad ELSE Got(n, t))

Repeat(n, r, Step(_, _)) == FoldLeft(LAMBDA a, i : Then(a, Step), r, [i \in 1 .. n |-> i])

\* Tags of a newer broker are passed over.
SkipTag(seen, s) ==
    Then(ReadUVar(s, Word), LAMBDA tag, t :
        Then(ReadUVar(t, Word), LAMBDA size, u : Then(Raw(u, size), LAMBDA x, w : Got(seen, w))))

SkipTags(s) == Then(ReadUVar(s, Word), LAMBDA n, t : Repeat(n, Got(Null, t), SkipTag))
-----------------------------------------------------------------------------
(* records.cc *)

Optional(x) == IF x = Null THEN Var(-1) ELSE Var(Len(x)) \o x

ReadOptional(s) ==
    Then(ReadVar(s, Word), LAMBDA n, t : IF n < 0 THEN Got(Null, t) ELSE Raw(t, n))

EncodeRecord(r) ==
    LET body == <<0>> \o Var(r.timestamp) \o Var(r.offset) \o Optional(r.key) \o Optional(r.value)
                \o Var(Len(r.headers))
                \o FlattenSeq([i \in DOMAIN r.headers |->
                     Var(Len(r.headers[i].key)) \o r.headers[i].key \o Optional(r.headers[i].value)])
    IN Var(Len(body)) \o body

ReadHeader(seen, s) ==
    Then(ReadOptional(s), LAMBDA k, t :
        IF k = Null THEN Bad
        ELSE Then(ReadOptional(t), LAMBDA v, u : Got(Append(seen, [key |-> k, value |-> v]), u)))

\* Without the length prefix; the first byte is the attributes.
ReadBody(s) ==
    Then(Raw(s, 1), LAMBDA a, s1 :
    Then(ReadVar(s1, Long), LAMBDA ts, s2 :
    Then(ReadVar(s2, Word), LAMBDA off, s3 :
    Then(ReadOptional(s3), LAMBDA k, s4 :
    Then(ReadOptional(s4), LAMBDA v, s5 :
    Then(ReadVar(s5, Word), LAMBDA n, s6 :
    Then(Repeat(n, Got(<<>>, s6), ReadHeader), LAMBDA hs, s7 :
        Got([timestamp |-> ts, offset |-> off, key |-> k, value |-> v, headers |-> hs], s7))))))))

\* A record's own length bounds what is read of it.
DecodeRecord(s) ==
    Then(ReadVar(s, Word), LAMBDA n, t :
        IF n < 0 THEN Bad
        ELSE Then(Raw(t, n), LAMBDA body, u : Then(ReadBody(body), LAMBDA r, left : Got(r, u))))

compress(codec, bytes) == IF codec = 0 THEN bytes ELSE <<[codec |-> codec, of |-> bytes]>>

decompress(codec, s) ==
    IF codec = 0 THEN Got(s, <<>>)
    ELSE IF codec \in 1 .. 4 /\ Len(s) = 1 THEN Got(s[1].of, <<>>) ELSE Bad

Magic == 2

Attributes(b) == b.codec + (IF b.appended THEN 8 ELSE 0) + (IF b.control THEN 32 ELSE 0)

\* base_offset, batch_length, partition_leader_epoch, magic and CRC, then what the
\* CRC covers: attributes, last_offset_delta, base_timestamp, producer_id, the
\* number of records, and the records.
EncodeBatch(b) ==
    LET last    == IF b.records = <<>> THEN 0 ELSE b.records[Len(b.records)].offset
        covered == <<Attributes(b), last, b.timestamp, b.producer, Len(b.records)>>
                   \o compress(b.codec, FlattenSeq([i \in DOMAIN b.records |-> EncodeRecord(b.records[i])]))
    IN <<b.base, 3 + Len(covered), b.epoch, Magic, covered>> \o covered

HeaderSize == 10

ReadRecord(seen, s) == Then(DecodeRecord(s), LAMBDA r, t : Got(Append(seen, r), t))

Intact(crc, covered) == crc = covered

\* `s` is one batch, as its length bounds it.
DecodeBatch(s) ==
    LET covered == SubSeq(s, 6, Len(s))
        attrs   == covered[1]
        codec   == attrs % 8
        count   == covered[5]
    IN IF s[4] # Magic \/ ~Intact(s[5], covered) \/ count < 0 THEN Bad
       ELSE Then(decompress(codec, SubSeq(covered, 6, Len(covered))), LAMBDA plain, t :
              IF count > Len(plain) THEN Bad
              ELSE Then(Repeat(count, Got(<<>>, plain), ReadRecord), LAMBDA rs, u :
                Got([base |-> s[1], epoch |-> s[3], codec |-> codec, appended |-> (attrs \div 8) % 2 = 1,
                     control |-> (attrs \div 32) % 2 = 1, timestamp |-> covered[3],
                     producer |-> covered[4], records |-> rs], u)))

\* The length of the next batch is within what is left: otherwise the fetch limit
\* has cut it, and the broker expects it to be fetched again.
Complete(n, s) == n >= 0 /\ n + 2 <= Len(s)

NextBatch(seen, s) ==
    IF Len(s) < HeaderSize \/ ~Complete(s[2], s) THEN Got(seen, s)
    ELSE Then(Raw(s, s[2] + 2), LAMBDA one, t :
           Then(DecodeBatch(one), LAMBDA b, u : Got(Append(seen, b), t)))

\* decode_batches: no blob holds more batches than it has symbols.
DecodeBatches(s) == Repeat(Len(s) \div HeaderSize, Got(<<>>, s), NextBatch)
-----------------------------------------------------------------------------
\* What is read next, and must not be taken for a part of the item.
Following == <<1, 1, 1>>

Encoded ==
    LET x == item.value IN
    CASE item.kind = "int"     -> BigEndian(x, Word)
      [] item.kind = "uvarint" -> UVar(x)
      [] item.kind = "varint"  -> Var(x)
      [] item.kind = "string"  -> Sized(x, item.flexible, Short)
      [] item.kind = "bytes"   -> Sized(x, item.flexible, Word)
      [] item.kind = "array"   -> Length(x, item.flexible, Word)
      [] item.kind = "tags"    -> UVar(Len(x)) \o FlattenSeq([i \in DOMAIN x |-> UVar(i) \o UVar(Len(x[i])) \o x[i]])
      [] item.kind = "record"  -> EncodeRecord(x)
      [] item.kind = "batches" -> FlattenSeq([i \in DOMAIN x |-> EncodeBatch(x[i])])

Decoded(s) ==
    CASE item.kind = "int"     -> ReadInt(s, Word)
      [] item.kind = "uvarint" -> ReadUVar(s, Word)
      [] item.kind = "varint"  -> ReadVar(s, Word)
      [] item.kind = "string"  -> ReadSized(s, item.flexible, Short)
      [] item.kind = "bytes"   -> ReadSized(s, item.flexible, Word)
      [] item.kind = "array"   -> ReadArrayLen(s, item.flexible)
      [] item.kind = "tags"    -> SkipTags(s)
      [] item.kind = "record"  -> DecodeRecord(s)
      [] item.kind = "batches" -> DecodeBatches(s)

\* Only lengths have two shapes.
Shapes(k) == IF k \in {"string", "bytes", "array"} THEN BOOLEAN ELSE {TRUE}

Init ==
    /\ \E k \in DOMAIN Items : \E f \in Shapes(k), x \in Items[k] :
        item = [kind |-> k, flexible |-> f, value |-> x]
    /\ wire = <<>> /\ fate = "new" /\ got = Null

Encode ==
    /\ fate = "new" /\ fate' = "whole"
    /\ wire' = Encoded \o IF item.kind = "batches" THEN <<>> ELSE Following
    /\ UNCHANGED <<item, got>>

\* The answer of a broker ends where its size limit says; the item with it.
Cut ==
    /\ fate = "whole" /\ got = Null /\ fate' = "cut"
    /\ \E n \in 0 .. Len(Encoded) - 1 : wire' = SubSeq(wire, 1, n)
    /\ UNCHANGED <<item, got>>

\* One field or record byte of a batch changes on the way, or its CRC is lost.
Corrupt ==
    /\ fate = "whole" /\ got = Null /\ item.kind = "batches" /\ wire # <<>> /\ fate' = "corrupt"
    /\ \E i \in 6 .. wire[2] + 2 :
        wire' = [wire EXCEPT ![i] =
            IF i > HeaderSize /\ item.value[1].codec # 0
            THEN [@ EXCEPT !.of = Append(@, 0)]
            ELSE IF @ = 7 THEN 6 ELSE 7]
    /\ UNCHANGED <<item, got>>

Decode ==
    /\ fate # "new" /\ got = Null
    /\ got' = Decoded(wire)
    /\ UNCHANGED <<item, wire, fate>>

Next == Encode \/ Cut \/ Corrupt \/ Decode

Spec == Init /\ [][Next]_vars
-----------------------------------------------------------------------------
WholeBatches == Cardinality({n \in 1 .. Len(item.value) :
    Len(FlattenSeq([i \in 1 .. n |-> EncodeBatch(item.value[i])])) <= Len(wire)})

\* What was written is read back, and nothing of what follows; a value that is cut
\* short is an error, never a shorter value; of batches that are cut short the
\* whole ones remain; and a batch changed under its CRC is an error.
RoundTrip ==
    got # Null =>
        CASE fate = "whole" /\ item.kind = "tags"  -> got = Got(Null, Following)
          [] fate = "whole" /\ item.kind = "batches" -> got = Got(item.value, <<>>)
          [] fate = "whole" /\ item.kind \notin {"tags", "batches"} -> got = Got(item.value, Following)
          [] fate = "cut" /\ item.kind = "batches" ->
               got.ok /\ got.v = SubSeq(item.value, 1, WholeBatches)
          [] fate = "cut" /\ item.kind # "batches" -> ~got.ok
          [] fate = "corrupt" -> ~got.ok
=============================================================================
