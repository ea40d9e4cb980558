----------------------------- MODULE BitMessage -----------------------------
(***************************************************************************)
(* A bit-addressed message: every field is a run of bits on one cursor.    *)
(*                                                                         *)
(* A field is always there, or is gated by a presence bit of its own just  *)
(* before it, or by bits of an earlier field.  Encode writes the fields in *)
(* order and learns only on the way which gated fields there are, so it    *)
(* marks where each flag field was written and patches the flags at the    *)
(* end.  Decode reads the same run, and the segment table publishes where  *)
(* each field starts.                                                      *)
(*                                                                         *)
(* The cursor is the bit stream that BitCursor is shown to implement, in   *)
(* either bit order: the bits of a field are listed lowest first.  A value *)
(* is the set of the bits it has in a u64, sign-extended if it is signed;  *)
(* a #[var] value is {k}, the k-th of the codec's.                         *)
(***************************************************************************)
EXTENDS Integers, Sequences, FiniteSets

CONSTANTS
    W,          \* bits of a byte
    MaxBits,    \* bits of a u64
    Messages,   \* the messages a run declares
    Codes,      \* the bits of each value of a BitCodec, none a prefix of another
    Caps,       \* the Buffer's room in bytes
    Bodies      \* the wires a run decodes first

Kinds  == {"u", "i", "bool", "codec", "var"}
Whens  == [gate : {"always", "present", "mask"}, flag : Nat, mask : SUBSET Nat, set : BOOLEAN]
Fields == [kind : Kinds, bits : Nat, when : Whens]

(* A code stands in the bits after a position.                             *)
Stands(code, bits, pos) ==
    pos + Len(code) <= Len(bits) /\ SubSeq(bits, pos + 1, pos + Len(code)) = code

ASSUME BitMessageAssumption ==
    /\ Messages \subseteq Seq(Fields)
    /\ W \in Nat \ {0} /\ MaxBits \in Nat \ {0} /\ Caps \subseteq Nat
    /\ Codes \in Seq(Seq(BOOLEAN))
    /\ \A k \in DOMAIN Codes : Codes[k] # <<>>
    /\ \A k, n \in DOMAIN Codes : Stands(Codes[k], Codes[n], 0) => k = n
    /\ \A body \in Bodies : body \in Seq(BOOLEAN) /\ Len(body) % W = 0

VARIABLES
    msg,        \* the fields in wire order
    phase,
    i,          \* the field the generator or the code is at
    tally,      \* segment and at: the last field of unknown width, and the bits since
    rows,       \* where the rows of the table start
    value,      \* the value encoded: one per field, Absent where there is none
    cap,        \* the Buffer's room
    out,        \* the bits written
    marks,      \* where each flag field was written
    body,       \* the bits decode is given
    origin,     \* the body a value was first decoded from, if it was
    at,         \* the reader's position
    read,       \* the values read
    met         \* where each field's own bits began and ended

table == <<tally, rows>>
vars  == <<msg, phase, i, table, value, cap, out, marks, body, origin, at, read, met>>

Absent == {-1}
None   == <<>>

----------------------------------------------------------------------------
(* Fields: kind "u", "i", "bool", "codec" or "var"; gate "always",         *)
(* "present", or "mask" with the flag's place, the mask and whether set    *)
(* bits mean present.                                                      *)
Always  == [gate |-> "always", flag |-> 0, mask |-> {}, set |-> TRUE]
Present == [gate |-> "present", flag |-> 0, mask |-> {}, set |-> TRUE]
Mask(flag, mask, set) == [gate |-> "mask", flag |-> flag, mask |-> mask, set |-> set]

Field(kind, bits, when) == [kind |-> kind, bits |-> bits, when |-> when]

Optional(f) == f.when.gate # "always"
Governs(m, flag) == {j \in DOMAIN m : m[j].when.gate = "mask" /\ m[j].when.flag = flag}
Flags(m) == {j \in DOMAIN m : Governs(m, j) # {}}
Governed(m, flag) == UNION {m[j].when.mask : j \in Governs(m, flag)}

(* bit_field: a readable width.                                            *)
Readable(f) == f.kind # "var" => f.bits \in 1 .. MaxBits

(* bit_flag, bit_mask, bit_bool: a flag is an earlier field that is always *)
(* there, and a mask lies within it.                                       *)
FlagOk(m, j) ==
    LET when == m[j].when
        flag == m[when.flag]
    IN  when.gate = "mask" =>
        /\ when.flag \in 1 .. j - 1
        /\ ~Optional(flag)
        /\ flag.kind # "var"
        /\ when.mask # {} /\ when.mask \subseteq 0 .. flag.bits - 1

(* Mutant: any two fields may share a presence bit.                        *)
AloneUnchecked(m, j) == TRUE

(* bit_alone: no earlier field is gated by the same bit.                   *)
Alone(m, j) ==
    m[j].when.gate = "mask" =>
        \A k \in Governs(m, m[j].when.flag) : k < j => m[k].when.mask \cap m[j].when.mask = {}

(* validate_bits.                                                          *)
Validated(m) == m # <<>> /\ \A j \in DOMAIN m : Readable(m[j]) /\ FlagOk(m, j) /\ Alone(m, j)

(* Values.  A caller may hold one that its field cannot carry, within a    *)
(* u64.                                                                    *)
Extended(set, n) == IF n - 1 \in set THEN set \cup n .. MaxBits - 1 ELSE set

Holds(f) ==
    CASE f.kind = "bool" -> SUBSET {0}
      [] f.kind = "var"  -> {{k} : k \in DOMAIN Codes}
      [] f.kind = "i"    -> {Extended(s, f.bits) : s \in SUBSET (0 .. f.bits - 1)} \cup {{f.bits - 1}}
      [] OTHER           -> (SUBSET (0 .. f.bits - 1)) \cup {{f.bits} \cap 0 .. MaxBits - 1}

Values(m) ==
    LET held(j) == Holds(m[j]) \cup IF Optional(m[j]) THEN {Absent} ELSE {}
    IN  {v \in [DOMAIN m -> UNION {held(j) : j \in DOMAIN m}] : \A j \in DOMAIN m : v[j] \in held(j)}

(* The assertion bit_write emits before a field of fixed width.            *)
Fits(f, v) ==
    \/ f.kind = "var" \/ f.bits >= MaxBits
    \/ IF f.kind = "i" THEN \E s \in SUBSET (0 .. f.bits - 1) : v = Extended(s, f.bits)
       ELSE v \subseteq 0 .. f.bits - 1

(* bit_encode and the cursor's write: the low bits, lowest first.          *)
Coded(f, v) ==
    IF f.kind = "var" THEN Codes[CHOOSE k \in v : TRUE] ELSE [k \in 1 .. f.bits |-> k - 1 \in v]

Unsigned(f, raw) == raw

(* bit_decode: a signed field is sign-extended.                            *)
Decoded(f, raw) == IF f.kind = "i" THEN Extended(raw, f.bits) ELSE raw

Bytes(n) == (n + W - 1) \div W

Room(n) == Bytes(n) <= cap

Init ==
    /\ msg \in Messages /\ phase = "validate" /\ i = 1
    /\ tally = [after |-> 0, bits |-> 0] /\ rows = <<>>
    /\ value = None /\ cap = 0 /\ out = <<>> /\ marks = <<>>
    /\ body = <<>> /\ origin = None /\ at = 0 /\ read = <<>> /\ met = <<>>

Validate ==
    /\ phase = "validate"
    /\ phase' = IF Validated(msg) THEN "table" ELSE "refused"
    /\ UNCHANGED <<msg, i, table, value, cap, out, marks, body, origin, at, read, met>>

field == msg[i]

----------------------------------------------------------------------------
(* The table.  Bits are counted from the last optional or variable field.  *)
GateBits(f) == IF f.when.gate = "present" THEN 1 ELSE 0

(* Mutant: the presence bit belongs to the field it gates.                 *)
RowStartAtGate(f, count) == count

(* The start of a field's row: the field begins after its presence bit.    *)
RowStart(f, count) == [count EXCEPT !.bits = @ + GateBits(f)]

(* What a row leaves of the count for the next one.                        *)
Counted(f, j, count) ==
    IF Optional(f) \/ f.kind = "var" THEN [after |-> j, bits |-> 0]
    ELSE [count EXCEPT !.bits = @ + f.bits]

PushRow ==
    /\ phase = "table" /\ i <= Len(msg)
    /\ rows' = Append(rows, RowStart(field, tally))
    /\ tally' = Counted(field, i, tally)
    /\ i' = i + 1
    /\ UNCHANGED <<msg, phase, value, cap, out, marks, body, origin, at, read, met>>

(* The generated code is called, with a value or with a wire.              *)
Called ==
    /\ phase = "table" /\ i = Len(msg) + 1
    /\ i' = 1 /\ cap' \in Caps
    /\ \/ /\ value' \in Values(msg) /\ phase' = "encode"
          /\ UNCHANGED <<body, origin>>
       \/ /\ origin' \in Bodies /\ body' = origin' /\ phase' = "decode"
          /\ UNCHANGED value
    /\ UNCHANGED <<msg, table, out, marks, at, read, met>>

----------------------------------------------------------------------------
(* encode_into_with.                                                       *)
(* The presence bit, which is written before the field.                    *)
Gate == IF field.when.gate # "present" THEN <<>> ELSE <<value[i] # Absent>>

Encoding == phase = "encode" /\ i <= Len(msg)

Written(bits) ==
    /\ out' = out \o bits
    /\ UNCHANGED <<msg, table, value, cap, body, origin, at, read, met>>

EncodeField ==
    LET bits == Gate \o IF value[i] = Absent THEN <<>> ELSE Coded(field, value[i])
    IN  /\ Encoding
        /\ value[i] # Absent => Fits(field, value[i])
        /\ Room(Len(out) + Len(bits))
        /\ Written(bits)
        /\ marks' = Append(marks, Len(out))
        /\ i' = i + 1
        /\ UNCHANGED phase

(* A write that the Buffer refuses: `?' leaves, with the presence bit      *)
(* written if there was room for it.                                       *)
EncodeOverflows ==
    LET code == IF value[i] = Absent THEN <<>> ELSE Coded(field, value[i])
        gate == Room(Len(out) + Len(Gate))
    IN  /\ Encoding
        /\ ~gate \/ (value[i] # Absent => Fits(field, value[i]))
        /\ ~Room(Len(out) + Len(Gate) + Len(code))
        /\ Written(IF gate THEN Gate ELSE <<>>)
        /\ phase' = "overflow"
        /\ UNCHANGED <<i, marks>>

EncodePanics ==
    /\ Encoding
    /\ value[i] # Absent /\ ~Fits(field, value[i])
    /\ Room(Len(out) + Len(Gate))
    /\ Written(Gate)
    /\ phase' = "panicked"
    /\ UNCHANGED <<i, marks>>

(* The presence bits that the gated fields of the value set.               *)
Marked(flag) ==
    UNION {msg[j].when.mask : j \in {k \in Governs(msg, flag) :
                                        msg[k].when.set <=> value[k] # Absent}}

(* What a flag is patched to: the bits no field is gated by stand, the     *)
(* others say which gated fields there are.                                *)
Patched(flag) == (value[flag] \ Governed(msg, flag)) \cup Marked(flag)

(* The loop over the flags: BitWriter::patch at the mark.                  *)
PatchFlags ==
    LET flagged(n) == {flag \in Flags(msg) : n - marks[flag] \in 1 .. msg[flag].bits}
        flagAt(n)  == CHOOSE flag \in flagged(n) : TRUE
    IN  /\ phase = "encode" /\ i = Len(msg) + 1
        /\ out' = [n \in DOMAIN out |->
                    IF flagged(n) = {} THEN out[n]
                    ELSE n - marks[flagAt(n)] - 1 \in Patched(flagAt(n))]
        /\ phase' = "sent"
        /\ UNCHANGED <<msg, i, table, value, cap, marks, body, origin, at, read, met>>

(* The bytes the Buffer holds, the last one padded with zeros.             *)
Sent == out \o [k \in 1 .. W * Bytes(Len(out)) - Len(out) |-> FALSE]

(* The message arrives: as it was sent, followed by a byte of something    *)
(* else, or without its last byte.                                         *)
Arrives ==
    /\ phase = "sent"
    /\ \/ body' = Sent
       \/ body' = Sent \o [k \in 1 .. W |-> TRUE]
       \/ Len(Sent) > 0 /\ body' = SubSeq(Sent, 1, Len(Sent) - W)
    /\ phase' = "decode" /\ i' = 1 /\ at' = 0 /\ read' = <<>> /\ met' = <<>>
    /\ UNCHANGED <<msg, table, value, cap, out, marks, origin>>

----------------------------------------------------------------------------
(* decode_with_nested.                                                     *)
Decoding == phase = "decode" /\ i <= Len(msg)

(* bit_flag_test, over the flag already read.                              *)
Flagged == (read[field.when.flag] \cap field.when.mask # {}) <=> field.when.set

Bit(n) == n <= Len(body) /\ body[n]

Gated ==
    CASE field.when.gate = "always"  -> TRUE
      [] field.when.gate = "present" -> Bit(at + 1)
      [] field.when.gate = "mask"    -> Flagged

Own == at + GateBits(field)

(* The values whose code stands at the field's bits: one at most.          *)
Standing == {k \in DOMAIN Codes : Stands(Codes[k], body, Own)}

(* BitReader::read past the last byte is Short; a code that is none, or is *)
(* cut short, is the codec's error.  No code is empty, so the error of a   *)
(* read that took no bits does not occur.                                  *)
Reads ==
    /\ Own <= Len(body)
    /\ Gated => IF field.kind = "var" THEN Standing # {} ELSE Own + field.bits <= Len(body)

DecodeField ==
    LET raw  == {k \in 0 .. field.bits - 1 : body[Own + k + 1]}
        here == IF field.kind = "var" THEN Standing ELSE Decoded(field, raw)
        end  == Own + IF Gated THEN Len(Coded(field, here)) ELSE 0
    IN  /\ Decoding /\ Reads
        /\ read' = Append(read, IF Gated THEN here ELSE Absent)
        /\ met' = Append(met, [begin |-> Own, end |-> end])
        /\ at' = end
        /\ i' = i + 1
        /\ UNCHANGED <<msg, phase, table, value, cap, out, marks, body, origin>>

DecodeShort ==
    /\ Decoding /\ ~Reads
    /\ phase' = "short"
    /\ UNCHANGED <<msg, i, table, value, cap, out, marks, body, origin, at, read, met>>

(* A value decoded from a wire of somebody else's is encoded again.        *)
Decodes ==
    /\ phase = "decode" /\ i = Len(msg) + 1
    /\ IF value = None THEN phase' = "encode" /\ i' = 1 /\ value' = read
       ELSE phase' = "done" /\ UNCHANGED <<i, value>>
    /\ UNCHANGED <<msg, table, cap, out, marks, body, origin, at, read, met>>

Next ==
    \/ Validate \/ PushRow \/ Called
    \/ EncodeField \/ EncodeOverflows \/ EncodePanics \/ PatchFlags
    \/ Arrives \/ DecodeField \/ DecodeShort \/ Decodes

Spec == Init /\ [][Next]_vars

----------------------------------------------------------------------------
(* The bits a field takes with a value, and where the fields end.          *)
Size(f, v) == GateBits(f) + IF v = Absent THEN 0 ELSE Len(Coded(f, v))

Ends(m, v) ==
    LET end[n \in 0 .. Len(m)] == IF n = 0 THEN 0 ELSE end[n - 1] + Size(m[n], v[n])
    IN  end

(* Encode fails only for want of room, and writes as many bits as the      *)
(* value needs: `?' carries no Overflow of a message that fits.            *)
OverflowIsExact ==
    LET total == Ends(msg, value)[Len(msg)]
    IN  /\ phase = "overflow" => total > W * cap
        /\ phase = "sent" => total <= W * cap /\ Len(out) = total

(* What encode did with the message: decode of all of it restores every    *)
(* field, a flag up to the bits that gate others, and those say which      *)
(* fields there are; decode of less is Short.  Validation is what makes it *)
(* so: two fields that share a presence bit, or a flag that is itself      *)
(* absent, would be lost (bits_parts, bit_flags, bit_alone).               *)
RoundTrip ==
    /\ OverflowIsExact
    /\ phase = "done" =>
        /\ \A j \in DOMAIN msg \ Flags(msg) : read[j] = value[j]
        /\ \A j \in Flags(msg) : \A bit \in (0 .. msg[j].bits - 1) \ Governed(msg, j) :
                bit \in read[j] <=> bit \in value[j]
        /\ at = Len(out)
    /\ phase = "short" /\ value # None => Len(body) < Len(Sent)

(* SEGMENTS: the bit each row's start stands for is the bit at which       *)
(* decode read the field, whatever the gated and the variable fields       *)
(* before it took (bit_start, and the counting around it).                 *)
TableIsRead ==
    \A j \in 1 .. Len(met) :
        met[j].begin = (IF rows[j].after = 0 THEN 0 ELSE met[rows[j].after].end) + rows[j].bits

(* A wire that decodes is written back bit for bit when every gate is one  *)
(* bit: encode neither cuts a value that decode made nor moves a field,    *)
(* and panics on none.                                                     *)
WireIsKept ==
    origin # None =>
        /\ phase # "panicked"
        /\ phase \in {"sent", "done"} /\ (\A j \in DOMAIN msg : Cardinality(msg[j].when.mask) <= 1)
             => out = SubSeq(origin, 1, Len(out))
=============================================================================
