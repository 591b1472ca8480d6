----------------------------- MODULE PacketKeys -----------------------------
(***************************************************************************)
(* How "tc filter ... u32 match" and "tc action pedit munge" turn the      *)
(* fields a user names into 32-bit keys (tc/f_u32.c, tc/m_pedit.c and the  *)
(* header tables tc/p_*.c).                                                *)
(*                                                                         *)
(* A word is the set of its one bits, bit 0 the most significant.  It is   *)
(* the word as the packet carries it, so htonl() leaves it alone, and a    *)
(* shift left by one byte takes 8 from every bit.  A bit of the packet is  *)
(* <<base, position>>, where base names the header offsets count from.     *)
(* What packing returns is a set: the new list of keys alone, or nothing   *)
(* where the code returns -1.                                              *)
(***************************************************************************)
EXTENDS Integers, Sequences, FiniteSets

CONSTANTS MaxKeys,      \* the keys a selector holds (128 in the code)
          MaxFields     \* fields given in one command

VARIABLES tool,         \* "u32", "pedit" or "pedit ex"
          keys,         \* sel->keys[0 .. nkeys - 1]
          fields,        \* the fields given so far, in their order
          packing            \* "parsing" or "refused"
keyVars == <<tool, keys, fields, packing>>

Bits32 == 0..31
Shl(x, bytes) == {b - 8 * bytes : b \in x} \cap Bits32
\* A value of n bytes as a host integer; off & ~3.
Host(n, x) == {b + 32 - 8 * n : b \in x}
WordOf(off) == off - (off % 4)

\* n bytes at an offset, counted from a header; "first" is its first bit.
At(n, off, base) == [n |-> n, off |-> off, base |-> base, first |-> 8 * off]
Fits(f, x) == x \subseteq 0..(8 * f.n - 1)
\* Apply a packing step to each word or byte i = 1 .. n in turn.
EachPart(sel, n, Step(_, _)) ==
  LET upto[i \in 0..n] == IF i = 0 THEN {sel} ELSE UNION {Step(s, i) : s \in upto[i - 1]}
  IN upto[n]
\* The i-th run of w bits of x, numbered from 0.
Slice(x, i, w) == {b - w * (i - 1) : b \in x} \cap 0..(w - 1)

-----------------------------------------------------------------------------
(* f_u32.c *)

\* A key takes in the bits of another match on its word; the mutant leaves
\* its mask as it was.
merged_value(k, key, mask) == [k EXCEPT !.val = @ \cup key]
merged(k, key, mask) == [k EXCEPT !.val = @ \cup key, !.mask = @ \cup mask]

\* pack_key(): merge into the key of the same word, or append one.
u32_pack_key(sel, key, mask, off, base) ==
  LET k == key \cap mask
      same == {i \in DOMAIN sel : sel[i].off = off /\ sel[i].base = base}
      differ(i) == (k \ sel[i].val) \cup (sel[i].val \ k)
  IN IF same # {}
     THEN {[sel EXCEPT ![i] = merged(@, k, mask)] :
             i \in {i \in same : differ(i) \cap mask \cap sel[i].mask = {}}}
     ELSE IF Len(sel) >= MaxKeys \/ off % 4 # 0 THEN {}
     ELSE {Append(sel, [val |-> k, mask |-> mask, off |-> off, base |-> base])}

u32_pack_key32(sel, f, key, mask) == u32_pack_key(sel, key, mask, f.off, f.base)

u32_pack_key16(sel, f, key, mask) ==
  LET up == IF f.off % 4 = 0 THEN 2 ELSE 0
  IN IF ~Fits(f, key \cup mask) THEN {}
     ELSE u32_pack_key(sel, Shl(Host(2, key), up), Shl(Host(2, mask), up), WordOf(f.off), f.base)

u32_pack_key8(sel, f, key, mask) ==
  LET up == 3 - (f.off % 4)
  IN IF ~Fits(f, key \cup mask) THEN {}
     ELSE u32_pack_key(sel, Shl(Host(1, key), up), Shl(Host(1, mask), up), WordOf(f.off), f.base)

parse_ether_addr(sel, f, key) ==
  EachPart(sel, 6, LAMBDA s, i : u32_pack_key8(s, At(1, f.off + i - 1, f.base), Slice(key, i, 8), 0..7))

parse_ip6_addr(sel, f, key, mask) ==
  LET plen == Cardinality(mask)
  IN EachPart(sel, (plen + 31) \div 32,
          LAMBDA s, i : u32_pack_key(s, Slice(key, i, 32), Slice(0..(plen - 1), i, 32),
                                     f.off + 4 * (i - 1), f.base))

parse_ip6_class(sel, f, key, mask) ==
  IF ~Fits(f, key \cup mask) THEN {}
  ELSE u32_pack_key(sel, {b + 4 : b \in key}, {b + 4 : b \in mask}, 0, f.base)

\* The fields by name; icmp_code of ip6 has an offset mask of 1.
parse_ip == {At(4, 12, "net"), At(4, 16, "net"), At(1, 1, "net"), At(1, 0, "net"), At(1, 9, "net"),
             At(2, 22, "net"), At(2, 20, "net"), At(1, 20, "net"), At(1, 21, "net"), At(2, 6, "net")}
parse_ip6 == {At(16, 8, "net"), At(16, 24, "net"), [At(1, 0, "net") EXCEPT !.first = 4], At(1, 6, "net"),
              At(4, 0, "net"), At(2, 42, "net"), At(2, 40, "net"), At(1, 40, "net"), At(1, 41, "mask 1")}
parse_ether == {At(6, -8, "net"), At(6, -14, "net")}
parse_udp == {At(2, 0, "next"), At(2, 2, "next")}
parse_icmp == {At(1, 0, "next"), At(1, 1, "next")}
\* u32, u16 and u8 with parse_at(): any offset, from either header.
parse_at == {At(n, off, base) : n \in {1, 2, 4}, off \in 0..3, base \in {"net", "next"}}

\* parse_selector(): the keys after one more match.
parse_selector(sel, f, key, mask) ==
  CASE f.n = 16      -> parse_ip6_addr(sel, f, key, mask)
    [] f.n = 6       -> parse_ether_addr(sel, f, key)
    [] f.first = 4   -> parse_ip6_class(sel, f, key, mask)
    [] f.n = 4       -> u32_pack_key32(sel, f, key, mask)
    [] f.n = 2       -> u32_pack_key16(sel, f, key, mask)
    [] OTHER         -> u32_pack_key8(sel, f, key, mask)

u32_fields == parse_ip \cup parse_ip6 \cup parse_ether \cup parse_udp \cup parse_icmp \cup parse_at

-----------------------------------------------------------------------------
(* m_pedit.c.  A pedit key keeps the bits of mask and then flips those of    *)
(* val; "add" keys add val instead.                                          *)

\* pack_key(): always a key of its own.
pack_key(sel, ext, f, val, mask, off, op) ==
  IF \/ Len(sel) >= MaxKeys
     \/ off % 4 # 0
     \/ ~ext /\ (f.base # "net" \/ op = "add")
  THEN {}
  ELSE {Append(sel, [val |-> val, mask |-> mask, off |-> off, base |-> f.base, cmd |-> op])}

\* m | ~retain; the mutant forgets what is retained.
retained_none(m, r) == m
retained(m, r) == m \cup (Bits32 \ r)

\* (v & retain) << stride and ((m | ~retain) << stride) | m[ind].
pack_shifted(sel, ext, f, v, m, retain, op, up) ==
  LET field == Shl(Host(f.n, 0..(8 * f.n - 1)), up)
      r == Host(f.n, retain)
  IN pack_key(sel, ext, f, Shl(Host(f.n, v) \cap r, up),
              Shl(retained(Host(f.n, m), r), up) \cup (Bits32 \ field), WordOf(f.off), op)

pack_key32(sel, ext, f, v, m, retain, op) ==
  IF f.off % 4 # 0 THEN {} ELSE pack_shifted(sel, ext, f, v, m, retain, op, 0)
pack_key16(sel, ext, f, v, m, retain, op) ==
  IF ~Fits(f, v \cup m) \/ f.off % 4 = 3 THEN {}
  ELSE pack_shifted(sel, ext, f, v, m, retain, op, 2 - (f.off % 4))
pack_key8(sel, ext, f, v, m, retain, op) ==
  IF ~Fits(f, v \cup m) THEN {} ELSE pack_shifted(sel, ext, f, v, m, retain, op, 3 - (f.off % 4))

\* Four bytes and then two, or two and then four.
pack_mac(sel, ext, f, mac, op) ==
  LET four(s, from) == pack_key32(s, ext, At(4, f.off + from, f.base),
                                  {b - 8 * from : b \in mac} \cap Bits32, {}, Bits32, op)
      two(s, from) == pack_key16(s, ext, At(2, f.off + from, f.base),
                                 {b - 8 * from : b \in mac} \cap 0..15, {}, 0..15, op)
  IN CASE f.off % 4 = 0 -> UNION {two(s, 4) : s \in four(sel, 0)}
       [] f.off % 4 = 2 -> UNION {four(s, 2) : s \in two(sel, 0)}
       [] OTHER         -> {}

pack_ipv6(sel, ext, f, addr, op) ==
  EachPart(sel, 4, LAMBDA s, i : pack_key32(s, ext, At(4, f.off + 4 * (i - 1), f.base),
                                        Slice(addr, i, 32), {}, Bits32, op))

\* parse_cmd(): what the command word makes of value and mask.  A field longer
\* than a word is not inverted: 0xFF lands in the first byte of its value.
parse_cmd(sel, ext, f, op, val, retain) ==
  LET all == 0..(8 * f.n - 1)
      v == CASE op = "invert" -> (IF f.n > 4 THEN 0..7 ELSE all)
             [] op \in {"set", "add"} -> val
             [] OTHER -> {}
      m == IF op = "invert" THEN all ELSE {}
      r == IF op = "preserve" THEN {} ELSE retain
      kcmd == IF op = "add" THEN "add" ELSE "set"
  IN IF (~ext /\ op = "add") \/ (f.n > 4 /\ r # all) THEN {}
     ELSE CASE f.n = 6  -> pack_mac(sel, ext, f, v, kcmd)
            [] f.n = 16 -> pack_ipv6(sel, ext, f, v, kcmd)
            [] f.n = 4  -> pack_key32(sel, ext, f, v, m, r, kcmd)
            [] f.n = 2  -> pack_key16(sel, ext, f, v, m, r, kcmd)
            [] OTHER    -> pack_key8(sel, ext, f, v, m, r, kcmd)

\* The header tables: fields and the bits they may change.
Part(f, retain) == [f |-> f, retain |-> retain]
Full(f) == Part(f, 0..(8 * f.n - 1))
p_ip(ext) ==
  LET b == IF ext THEN "ip4" ELSE "net"
  IN {Full(At(4, 12, b)), Full(At(4, 16, b)), Full(At(1, 1, b)), Part(At(1, 0, b), 4..7), Full(At(1, 8, b)),
      Full(At(1, 9, b)), Part(At(1, 6, b), 2..7), Part(At(1, 6, b), 3..7), Part(At(1, 6, b), {0}),
      Part(At(1, 6, b), {1}), Part(At(1, 6, b), {2})}
     \cup (IF ext THEN {} ELSE {Full(At(2, 22, b)), Full(At(2, 20, b)), Full(At(1, 20, b))})
p_tcp == {Full(At(2, 0, "tcp")), Full(At(2, 2, "tcp")), Full(At(1, 13, "tcp"))}
p_udp == {Full(At(2, 0, "udp")), Full(At(2, 2, "udp"))}
p_eth == {Full(At(2, 12, "eth")), Full(At(6, 0, "eth")), Full(At(6, 6, "eth"))}
p_ip6 == {Full(At(16, 8, "ip6")), Full(At(16, 24, "ip6")), Part(At(4, 0, "ip6"), 13..31), Full(At(2, 4, "ip6")),
          Full(At(1, 6, "ip6")), Full(At(1, 7, "ip6"))}
\* p_icmp.c accepts nothing: its body is compiled out.
p_icmp == {}
\* parse_offset(): raw offsets, on their own or relative ("at").
parse_offset == {Full(At(n, off, "net")) : n \in {1, 2, 4}, off \in 0..3}

\* parse_munge(): without "ex" only ip and raw offsets are known.
parse_munge(ext) ==
  p_ip(ext) \cup parse_offset \cup p_icmp
  \cup (IF ext THEN p_tcp \cup p_udp \cup p_eth \cup p_ip6 ELSE {})

-----------------------------------------------------------------------------
(* One field after another, until one is refused.                            *)

Extended == tool = "pedit ex"
Samples(f) == {{0}, 0..(8 * f.n - 1)} \cup (IF f.n < 4 THEN {{-1}} ELSE {})
Masks(f) == IF f.n = 6 THEN {0..47} ELSE {0..(8 * f.n - 1), 0..(4 * f.n - 1)}

More == packing = "parsing" /\ Len(fields) < MaxFields

KeysInit == tool \in {"u32", "pedit", "pedit ex"} /\ keys = <<>> /\ fields = <<>> /\ packing = "parsing"

\* The packing of one field: the command goes on, or it is refused whole.
GivenField(field, packed) ==
  /\ fields' = Append(fields, field)
  /\ IF packed = {} THEN packing' = "refused" /\ UNCHANGED keys
     ELSE keys' \in packed /\ UNCHANGED packing
  /\ UNCHANGED tool

Match ==
  /\ tool = "u32" /\ More
  /\ \E f \in u32_fields : \E key \in Samples(f), mask \in Masks(f) :
       GivenField([f |-> f, cmd |-> "match", val |-> key, on |-> mask], parse_selector(keys, f, key, mask))

Munge ==
  /\ tool # "u32" /\ More
  /\ \E p \in parse_munge(Extended), op \in {"set", "add", "invert", "preserve", "clear"} :
     \E val \in IF op \in {"set", "add"} THEN Samples(p.f) ELSE {{}}, retain \in {p.retain, 0..(4 * p.f.n - 1)} :
       GivenField([f |-> p.f, cmd |-> op, val |-> val, on |-> retain],
             parse_cmd(keys, Extended, p.f, op, val, retain))

KeysNext == Match \/ Munge

-----------------------------------------------------------------------------
(* Properties                                                                *)

\* The bits of the packet a u32 field wants, and those the keys compare.
Wanted(a) == {<<a.f.base, a.f.first + b, b \in a.val>> : b \in a.on}
Compared(k) == {<<k.base, 8 * k.off + b, b \in k.val>> : b \in k.mask}
Contradicts(S) == \E x \in S : <<x[1], x[2], ~x[3]>> \in S
\* A 16-bit match at an odd offset compares the low half of the word instead.
Straddles(a) == a.f.n = 2 /\ a.f.off % 2 = 1
AskedBits == UNION {Wanted(fields[i]) : i \in DOMAIN fields}

\* The keys that pack_key() has merged compare exactly the bits the matches
\* name, whatever shares a word with whatever: the filter selects the packets
\* all of its matches select.  A match is refused only where no packet can meet
\* it together with the earlier ones, or for its form: a number too large for
\* its field, a word off its boundary, or no key left.
SelectsExactly ==
  (tool = "u32" /\ \A i \in DOMAIN fields : ~Straddles(fields[i])) =>
    /\ packing = "parsing" => UNION {Compared(keys[i]) : i \in DOMAIN keys} = AskedBits
    /\ packing = "refused" =>
         LET last == fields[Len(fields)]
         IN \/ Contradicts(AskedBits)
            \/ ~Fits(last.f, last.val \cup last.on)
            \/ (last.f.n \in {4, 16} /\ last.f.off % 4 # 0)
            \/ Len(keys) + ((last.f.n + 5) \div 4) > MaxKeys

\* What is done to a bit of the packet, in order, by the edits asked for and
\* by the keys.
Edit(a, b) ==
  CASE a.cmd = "invert" -> "flip"
    [] a.cmd = "clear"  -> <<"set", FALSE>>
    [] OTHER            -> <<a.cmd, b \in a.val>>
Edited(a) == IF a.cmd = "preserve" THEN {} ELSE a.on
AskedOf(bit) ==
  LET on(a) == a.f.base = bit[1] /\ bit[2] - a.f.first \in Edited(a)
      s == SelectSeq(fields, on)
  IN [i \in DOMAIN s |-> Edit(s[i], bit[2] - s[i].f.first)]
KeyEdit(k, b) == IF b \in k.mask THEN "flip" ELSE <<k.cmd, b \in k.val>>
Changed(k) == k.val \cup (Bits32 \ k.mask)
DoneTo(bit) ==
  LET on(k) == k.base = bit[1] /\ bit[2] - 8 * k.off \in Changed(k)
      s == SelectSeq(keys, on)
  IN [i \in DOMAIN s |-> KeyEdit(s[i], bit[2] - 8 * s[i].off)]
Touched == UNION {{<<k.base, 8 * k.off + b>> : b \in Changed(k)} : k \in {keys[i] : i \in DOMAIN keys}}
           \cup UNION {{<<a.f.base, a.f.first + b>> : b \in Edited(a)} : a \in {fields[i] : i \in DOMAIN fields}}
LongInvert(a) == a.cmd = "invert" /\ a.f.n > 4

\* Every bit of the packet undergoes exactly the edits asked for, in their
\* order: a key leaves the rest of its word alone whatever the offset, the
\* retained bits and the command.
EditsExactly ==
  (tool # "u32" /\ packing = "parsing" /\ \A i \in DOMAIN fields : ~LongInvert(fields[i]))
  => \A bit \in Touched : DoneTo(bit) = AskedOf(bit)
=============================================================================
