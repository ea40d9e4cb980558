------------------------------ MODULE MCLayout ------------------------------
(***************************************************************************)
(* Layouts of bytes of three bits, so that a field can start at every bit  *)
(* of a byte but the last few bits do not multiply the values; four bytes  *)
(* stand for a u64 and eight for a u128.                                   *)
(***************************************************************************)
EXTENDS Layout

Field(reading, bits, prim, len) ==
    [reading |-> reading, bits |-> bits, prim |-> prim, len |-> len, at |-> 0,
     magic |-> <<>>, over |-> <<>>, range |-> {}]

U(bits)         == Field("uint", bits, IF bits <= U64 THEN U64 ELSE Wide * Byte, 0)
I(bits)         == Field("int", bits, U64, 0)
N(n)            == Field("native", n * Byte, n * Byte, 0)
Array(n, len)   == Field("native", n * Byte, n * Byte, len)
Codec(n)        == Field("uint", n * Byte, U64, 0)
Nested(n)       == Field("nested", n * Byte, n * Byte, 0)

Magic(f, bytes) == [f EXCEPT !.magic = bytes]
Over(f, over)   == [f EXCEPT !.over = over]
Ranged(f, vs)    == [f EXCEPT !.range = vs]

Base(mode, size, endian, order, fields) ==
    [mode |-> mode, size |-> size, endian |-> endian, order |-> order, prefix |-> 0,
     pinned |-> {}, truncate |-> FALSE, view |-> TRUE, fields |-> fields]

Both(mode, size, fields) ==
    {Base(mode, size, e, o, fields) : e \in {"le", "be"}, o \in {"lsb", "msb"}}

(* Widths that start, end and cross at every bit of a byte, in a register, *)
(* in a u128 and in a container too wide for either.                       *)
Splits ==
    Both("bits", 1, <<U(1), U(2)>>)
        \cup Both("bits", 2, <<I(2), U(3), U(1)>>)
        \cup Both("bits", 3, <<U(4), I(5)>>)
        \cup Both("bits", 4, <<U(12)>>)
        \cup Both("bits", 5, <<U(4), I(11)>>)
        \cup Both("bits", 8, <<U(1), U(22), I(1)>>)
        \cup Both("bits", 9, <<U(2), U(23), I(2)>>)
        \cup Both("bits", 9, <<U(1), U(24), U(2)>>)
        \cup Both("bits", 9, <<I(8), I(12), U(7)>>)
        \cup Both("bits", 10, <<U(3), U(13), I(11), U(3)>>)

(* A prefix the dispatch owns, with and without a value of its own.        *)
Prefixed ==
    UNION {{[l EXCEPT !.prefix = 2, !.pinned = pinned] :
            l \in Both("bits", 2, <<U(3), I(1)>>) \cup Both("bits", 5, <<U(1), I(12)>>)
                    \cup Both("bits", 9, <<U(20), U(5)>>)} :
           pinned \in {{}, {{1}}}}

Truncating == {[l EXCEPT !.truncate = TRUE] : l \in {m \in Splits : m.order = "lsb" /\ m.size \in {2, 5, 9}}}

Words ==
    Both("words", 4, <<U(2), I(4), U(6)>>)
        \cup Both("words", 4, <<Array(2, 1), I(3), U(3)>>)
        \cup Both("words", 4, <<U(6), Array(1, 2)>>)
        \cup Both("words", 6, <<U(1), U(5), Nested(4)>>)
        \cup Both("words", 4, <<U(4), U(4), U(4)>>)                   \* crosses a word
        \cup Both("words", 4, <<U(2), Array(2, 1), U(4)>>)            \* not word-aligned
        \cup {Base("words", 2, "le", "lsb", <<U(3), Array(1, 1)>>),
              Base("words", 2, "le", "msb", <<U(3), Array(1, 1)>>)}   \* overlapping rows

(* Byte records: magics, checksums that cover one another, ranges.         *)
BytesOf(size, fields) == {Base("bytes", size, e, "lsb", fields) : e \in {"le", "be"}}

Sum(from, how, to) == Over(N(1), <<from, how, to>>)

Bytes ==
    BytesOf(5, <<N(2), Codec(1), Nested(2)>>)
        \cup BytesOf(5, <<Array(2, 2), Array(1, 1)>>)
        \cup BytesOf(4, <<Magic(N(2), <<{0}, {1}>>), N(1), Sum(0, "here", 0)>>)
        \cup BytesOf(5, <<Magic(Array(1, 2), <<{0, 1}, {2}>>), Sum(0, "after", 3), N(1), Sum(1, "here", 0)>>)
        \cup BytesOf(4, <<Sum(0, "after", 3), N(1), N(2)>>)
        \cup BytesOf(4, <<N(1), Sum(3, "after", 3), Sum(1, "here", 0), N(1)>>)    \* a later checksum
        \cup BytesOf(4, <<N(1), Sum(1, "here", 0), Sum(1, "after", 4), N(1)>>)
        \cup BytesOf(3, <<N(1), Sum(3, "before", 1), N(1)>>)                      \* backwards
        \cup BytesOf(2, <<Sum(0, "here", 0), N(1)>>)                              \* no bytes
        \cup BytesOf(3, <<N(1), Sum(0, "before", 2), N(1)>>)                      \* itself
        \cup BytesOf(3, <<N(2)>>)                                                 \* short
        \cup {[l EXCEPT !.view = FALSE] : l \in BytesOf(3, <<N(1), Ranged(N(1), {{}, {0}}), Sum(0, "here", 0)>>)}
        \cup BytesOf(2, <<Ranged(N(1), {{}, {0}}), N(1)>>)                         \* a view of a range

Records == Splits \cup Prefixed \cup Truncating \cup Words \cup Bytes

(* A bit field and a byte array that share a big-endian word.              *)
SharedWord == {Base("words", 2, "be", "lsb", <<U(3), Array(1, 1)>>)}

Ones     == 0 .. 23
Stripes  == {b \in 0 .. 47 : b % 4 \in {0, 3}}
Ends     == {b \in 0 .. 47 : b % 12 = 0}
FourWords == {{}, Ones, Stripes, Ends}
=============================================================================
