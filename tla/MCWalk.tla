------------------------------- MODULE MCWalk -------------------------------
(***************************************************************************)
(* Families of message definitions for Walk.  Every definition opens with a *)
(* block, and the segments that follow it come in every order.              *)
(***************************************************************************)
EXTENDS Walk

Bytes1(names) == Block([k \in 1 .. Len(names) |-> Field(names[k], <<>>)])
Nested1(names) == Block(<<Field("id", <<>>), Field("hdr", names)>>)

\* A header that states two numbers, plain or in a nested layout, and how it is named.
Headers == {"plain", "nested"}
HeaderBlock(h) == IF h = "plain" THEN Bytes1(<<"id", "len", "off">>) ELSE Nested1(<<"len", "off">>)
Ref(h, name) == IF h = "plain" THEN <<name>> ELSE <<"hdr", name>>

\* The segment that holds the data.
Payloads(h) ==
  {Repeat("data", count, Ref(h, "len"), where) :
     count \in {"field", "window"}, where \in {NoRef, Ref(h, "off")}}
    \cup {Repeat("data", "fill", NoRef, where) : where \in {NoRef, Ref(h, "off")}}
    \cup {Placed("data", Ref(h, "off"), absent, NoRef) : absent \in {"never", "offset"}}
    \cup {Placed("data", Ref(h, "off"), "length", Ref(h, "len")), Opt("data", Ref(h, "len"), 1, TRUE)}

\* Ranges over the names a definition may hold; Validated keeps those that resolve.
Ranges(name, names) ==
  {Checksum(name, from, "here", name) : from \in {"start"} \cup names}
    \cup {Checksum(name, from, to, end) :
            from \in {"start"} \cup names, to \in {"before", "after"}, end \in names}

Orders(set) == {s \in [1 .. Cardinality(set) -> set] : ToSet(s) = set}

\* One checksum, one payload, a trailing field.
OneCheck ==
  UNION {{<<HeaderBlock(h)>> \o s :
            s \in UNION {Orders({p, c, Bytes1(<<"tail">>)}) :
                           p \in Payloads(h), c \in Ranges("crc", {"len", "hdr", "data", "tail"})}} :
           h \in Headers}

\* Two checksums and one counted payload.
TwoChecks ==
  {<<Bytes1(<<"id", "len">>)>> \o s :
     s \in UNION {Orders({Repeat("data", "window", <<"len">>, NoRef), c, d}) :
                    c \in Ranges("crc", {"len", "data", "sum"}),
                    d \in Ranges("sum", {"len", "data", "crc"})}}

\* Two payloads that may state their numbers in one field.
TwoPayloads ==
  UNION {{<<HeaderBlock(h), p, q, Checksum("crc", "start", "here", "crc")>> :
            p \in Payloads(h), q \in {[x EXCEPT !.name = "more"] : x \in Payloads(h)}} : h \in Headers}
    \cup {<<Bytes1(<<"id", "flags">>), Opt("data", <<"flags">>, a, s), Opt("more", <<"flags">>, b, t)>> :
            a \in {1, 2}, b \in {1, 2}, s \in BOOLEAN, t \in BOOLEAN}

\* One checksum and no trailing field.
NoTail ==
  UNION {{<<HeaderBlock(h)>> \o s :
            s \in UNION {Orders({p, c}) : p \in Payloads(h), c \in Ranges("crc", {"len", "hdr", "data"})}} :
           h \in Headers}

\* The payloads of the other counts, with scales, caps and padding, and the switches.
Runs(h) ==
  LET len == Ref(h, "len")
      off == Ref(h, "off")
  IN  {[Repeat("data", "strided", len, NoRef) EXCEPT !.stride = off],
       [Repeat("data", "strided", len, NoRef) EXCEPT !.stride = len],
       Repeat("data", "squared", len, NoRef),
       [Repeat("data", "squared", len, off) EXCEPT !.offset = 1, !.most = {1}],
       [Repeat("data", "field", len, off) EXCEPT !.scale = 2, !.offset = -1],
       [Repeat("data", "field", len, NoRef) EXCEPT !.offset = 1, !.most = {1}],
       [Repeat("data", "window", len, off) EXCEPT !.scale = 2, !.align = 3],
       [Repeat("data", "window", len, NoRef) EXCEPT !.align = 2, !.most = {1}],
       [Repeat("data", "bytes", NoRef, NoRef) EXCEPT !.key = 2],
       [Repeat("data", "bytes", NoRef, off) EXCEPT !.key = 1],
       [Repeat("data", "until", NoRef, off) EXCEPT !.key = 3],
       [Repeat("data", "marked", NoRef, NoRef) EXCEPT !.key = 1],
       [Repeat("data", "fill", NoRef, off) EXCEPT !.most = {1}],
       [Placed("data", off, "length", len) EXCEPT !.align = 2]}

Arms == {<<Arm(1, 1), Arm(2, 2)>>, <<Arm(2, 2), Arm(Held, 2)>>, <<Arm(1, 0), Arm(2, 1)>>}
Opens == {"closed", "fixed", "rest"}
Switches(h) ==
  {Switch("data", on, "none", NoRef, arms, open) :
     on \in {Ref(h, "len"), NoRef}, arms \in Arms, open \in Opens}
    \cup {[Switch("data", Ref(h, "len"), "bytes", NoRef, <<Arm(1, 2), Arm(n, 2)>>, open) EXCEPT !.key = 2] :
             n \in {2, Held}, open \in Opens}
    \cup {[Switch("data", Ref(h, "len"), "field", Ref(h, "off"), arms, open) EXCEPT !.align = a] :
             arms \in Arms, open \in Opens, a \in {1, 2}}

\* Each of them last, before a checksum over all, before a tail, before a tail and a checksum
\* over both, and after a checksum over it.
MorePayloads ==
  LET tail == Bytes1(<<"tail">>)
      all == Checksum("crc", "start", "here", "crc")
  IN  UNION {UNION {{<<HeaderBlock(h), p>>, <<HeaderBlock(h), p, all>>, <<HeaderBlock(h), p, tail>>,
                     <<HeaderBlock(h), p, tail, all>>,
                     <<HeaderBlock(h), p, Checksum("crc", "data", "here", "crc")>>,
                     <<HeaderBlock(h), Checksum("crc", "data", "after", "data"), p>>} :
                      p \in Runs(h) \cup Switches(h)} : h \in Headers}

\* Where the numbers come from: a block, a variable-length number or a parameter first.
Stating(source) ==
  CASE source = "block" -> Bytes1(<<"id", "len">>)
    [] source = "var" -> Var("len")
    [] source = "needs" -> Needs("len")
Stated1(s) ==
  LET len == <<"len">>
  IN  {[Repeat("data", count, len, NoRef) EXCEPT !.most = most, !.borrowed = borrowed] :
         count \in {"field", "window"}, most \in {{}, {1}}, borrowed \in BOOLEAN}
        \cup {Repeat("data", "squared", len, NoRef), Opt("data", len, 1, FALSE), Opt("data", NoRef, 0, TRUE),
              [Repeat("data", "strided", <<"off">>, NoRef) EXCEPT !.stride = len],
              Placed("data", len, "offset", NoRef), Repeat("data", "nested", len, NoRef),
              [Repeat("data", "nested", len, NoRef) EXCEPT !.offset = -1],
              [Repeat("data", "bytes", NoRef, NoRef) EXCEPT !.key = 1, !.borrowed = TRUE]}
        \cup {[Repeat("data", "padded", NoRef, NoRef) EXCEPT !.key = k, !.nul = nul] :
                 k \in {1, 3}, nul \in BOOLEAN}
        \cup {Switch("data", len, "none", NoRef, arms, open) : arms \in Arms, open \in Opens}
        \cup {[Switch("data", <<"off">>, "field", len, arms, open) EXCEPT !.most = most] :
                 arms \in Arms, open \in Opens, most \in {{}, {1}}}
FromAnySource ==
  LET tail == Bytes1(<<"tail">>)
      all == Checksum("crc", "start", "here", "crc")
  IN  UNION {UNION {{<<Stating(s), Bytes1(<<"off">>), p>>, <<Stating(s), Bytes1(<<"off">>), p, all>>,
                     <<Stating(s), Bytes1(<<"off">>), p, tail>>,
                     <<Stating(s), Bytes1(<<"off">>), p, Repeat("more", "window", <<"len">>, NoRef)>>,
                     <<Stating(s), Bytes1(<<"off">>), p, [Repeat("more", "nested", <<"len">>, NoRef) EXCEPT !.offset = -1]>>} :
                      p \in Stated1(s)} : s \in {"block", "var", "needs"}}

MCBodies == FromAnySource \cup MorePayloads \cup OneCheck \cup NoTail \cup TwoChecks \cup TwoPayloads

\* Damaged: every definition of up to three segments, and of four those that end in a
\* checksum over all before it.
MCFragile(b) ==
  \A k \in 4 .. Len(b) : b[k].kind = "checksum" /\ b[k].from = "start" /\ b[k].to = "here"
MCIntact(b) == FALSE

\* A checksum over another.
MCOverChecks == TwoChecks
=============================================================================
