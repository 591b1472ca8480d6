------------------------------ MODULE SsProofs ------------------------------
(***************************************************************************)
(* Proof about the output buffer of ss (SsBuffer), for chunks of any size  *)
(* that holds the longest token: render() finds every field, as it was     *)
(* printed and in its order, however often out() had to move a token.      *)
(***************************************************************************)
EXTENDS SsBuffer, SequenceTheorems, TLAPS

Chunk == [lens : [Offsets -> Nat \cup {NoLen}], text : [Offsets -> Nat], end : Nat]
Place == (Nat \ {0}) \X Nat
Field == [text : Seq(Nat), at : Place]

BufferType ==
  /\ chunks \in Seq(Chunk) /\ cur \in Nat /\ pieces \in Nat
  /\ phase \in {"print", "render", "done", "astray"}
  /\ token \in Place /\ rendered \in Seq(Seq(Nat))
  /\ pending \in Seq(Nat) /\ fields \in Seq(Field)

(* The token at o of chunk c holds field f: all of it, unless f is too     *)
(* long for a token.                                                       *)
Short(f) == Len(f) <= MaxField
Holds(c, o, f) ==
  /\ o \in Offsets /\ c.lens[o] \in Nat
  /\ TextEnd(c, o) <= ChunkBytes /\ c.lens[o] <= MaxField
  /\ Short(f) => c.lens[o] = Len(f) /\ \A j \in 1..Len(f) : c.text[o + 1 + j] = f[j]

(* buf_token_next() leads from place p to place q.                         *)
Follows(cs, p, q) ==
  LET c == cs[p[1]] IN
  \/ After(c, p[2]) # c.end /\ q = <<p[1], After(c, p[2])>>
  \/ After(c, p[2]) = c.end /\ p[1] < Len(cs) /\ q = <<p[1] + 1, 0>>

(* The place of field i, where q is the place of the current one.          *)
PlaceOf(fs, i, q) == IF i <= Len(fs) THEN fs[i].at ELSE q

Kept(cs, fs) ==
  \A i \in 1..Len(fs) :
    fs[i].at[1] \in 1..Len(cs) /\ Holds(cs[fs[i].at[1]], fs[i].at[2], fs[i].text)
Chained(cs, fs, q) ==
  /\ PlaceOf(fs, 1, q) = <<1, 0>>
  /\ \A i \in 1..Len(fs) : Follows(cs, fs[i].at, PlaceOf(fs, i + 1, q))
Behind(cs, fs, o) ==
  \A i \in 1..Len(fs) : fs[i].at[1] = Len(cs) => After(cs[Len(cs)], fs[i].at[2]) <= o

Current == <<Len(chunks), cur>>

(* Only a token that is still empty may end where its chunk ends.          *)
Spare(c, o) == c.end < ChunkBytes \/ c.lens[o] = 0

Stored ==
  /\ Kept(chunks, fields) /\ Chained(chunks, fields, Current) /\ Behind(chunks, fields, cur)
  /\ Holds(LastChunk, cur, pending)
  /\ LastChunk.end = IF phase = "print" THEN TextEnd(LastChunk, cur) ELSE After(LastChunk, cur)
  /\ phase = "print" => Spare(LastChunk, cur)

Walk ==
  /\ phase = "print" => rendered = << >> /\ token = <<1, 0>>
  /\ phase = "render" => Len(rendered) <= Len(fields) /\ token = PlaceOf(fields, Len(rendered) + 1, Current)

(* The inductive invariant.                                                *)
BufferInv ==
  /\ BufferType
  /\ chunks = << >> => cur = 0 /\ phase = "print" /\ fields = << >> /\ pending = << >>
  /\ chunks # << >> => Stored
  /\ Walk /\ SsFieldsKept

-----------------------------------------------------------------------------
(* Two chunks that agree before an offset.                                 *)
SameBelow(c, d, m) == \A p \in Offsets : p < m => d.lens[p] = c.lens[p] /\ d.text[p] = c.text[p]

(* What out() writes is behind the token and becomes part of it.           *)
LEMMA WriteFacts ==
    ASSUME NEW c \in Chunk, NEW o, NEW f \in Seq(Nat), NEW text \in Seq(Nat),
           Holds(c, o, f), c.end = TextEnd(c, o), buf_fits(c, o, Len(text)),
           NEW d, d = buf_update(c, o, text)
    PROVE  d \in Chunk /\ Holds(d, o, f \o text) /\ d.end = TextEnd(d, o) /\ d.end > o
           /\ SameBelow(c, d, o) /\ d.end < ChunkBytes
<1> DEFINE len == c.lens[o]
           size == Len(text)
           room == buf_chunk_avail(c)
           from == TextEnd(c, o)
           n == Smaller(Smaller(size, room), MaxField - len)
           zero == from + (IF size < room THEN size ELSE room - 1)
           w == vsnprintf(c, o, text)
<1>0. /\ o \in Offsets /\ o \in Nat /\ len \in Nat /\ ChunkBytes \in Nat /\ MaxField \in Nat
      /\ size \in Nat /\ Len(f) \in Nat /\ len <= MaxField /\ MaxField < ChunkBytes - 2
  BY BufferAssumption DEF Holds, Offsets, Descriptor
<1>a. /\ c.lens \in [Offsets -> Nat \cup {NoLen}] /\ c.text \in [Offsets -> Nat] /\ c.end \in Nat
  BY Zenon DEF Chunk
<1>b. from = o + 2 + len /\ room = ChunkBytes - from /\ from <= ChunkBytes /\ c.end = from
  BY Zenon DEF Holds, TextEnd, Descriptor, buf_chunk_avail
<1> HIDE DEF len, size, room, from
<1>1. room \in Nat /\ MaxField - len \in Nat /\ from \in Nat
  BY <1>0, <1>b
<1>2. n \in Nat /\ n <= room /\ n <= size /\ n <= MaxField - len
      /\ (size <= room /\ size <= MaxField - len => n = size)
  BY <1>1, <1>0 DEF Smaller
<1>c. zero \in Int /\ zero <= from + size /\ (room > 0 => zero >= from) /\ (size < room => zero = from + size)
  BY <1>0, <1>1
<1>3. d = [lens |-> [c.lens EXCEPT ![o] = len + n], text |-> w, end |-> from + n]
  BY Zenon, <1>b DEF buf_update, len, size, room
<1>d. w = [p \in Offsets |-> IF p >= from /\ p < zero THEN text[p - from + 1]
                             ELSE IF room > 0 /\ p = zero THEN 0 ELSE c.text[p]]
  BY Zenon DEF vsnprintf, size, room, from
<1> HIDE DEF n, zero, w
<1>4. /\ w \in [Offsets -> Nat]
      /\ \A p \in Offsets : p < from => w[p] = c.text[p]
      /\ size < room => \A p \in Offsets : p >= from /\ p < from + size => w[p] = text[p - from + 1]
  <2>4. ASSUME NEW p \in Offsets PROVE w[p] \in Nat
    <3>1. p \in Nat
      BY <1>0 DEF Offsets
    <3>2. (p >= from /\ p < zero) => p - from + 1 \in 1..Len(text)
      BY <3>1, <1>c, <1>0, <1>1 DEF size
    <3> QED BY SMTT(60), <1>d, <3>2, <1>a
  <2>5. ASSUME NEW p \in Offsets, p < from PROVE w[p] = c.text[p]
    <3>1. p \in Nat
      BY <1>0 DEF Offsets
    <3> QED BY <1>c, <1>d, <2>5, <3>1, <1>1
  <2>6. ASSUME size < room, NEW p \in Offsets, p >= from, p < from + size PROVE w[p] = text[p - from + 1]
    BY Zenon, <1>c, <1>d, <2>6
  <2> QED BY Zenon, <1>d, <2>4, <2>5, <2>6
<1>5. /\ d.lens = [c.lens EXCEPT ![o] = len + n] /\ d.text = w /\ d.end = from + n
  BY <1>3
<1>e. d.lens[o] = len + n
  BY Zenon, <1>0, <1>a, <1>5
<1>6. d \in Chunk
  <2>1. len + n \in Nat /\ from + n \in Nat
    BY <1>0, <1>1, <1>2
  <2>2. [c.lens EXCEPT ![o] = len + n] \in [Offsets -> Nat \cup {NoLen}]
    BY Zenon, <1>0, <1>a, <2>1
  <2> QED BY <1>3, <1>4, <2>1, <2>2 DEF Chunk
<1>7. TextEnd(d, o) = from + n /\ d.end = TextEnd(d, o) /\ d.end > o /\ TextEnd(d, o) <= ChunkBytes
  <2>1. TextEnd(d, o) = o + 2 + (len + n)
    BY Zenon, <1>e DEF TextEnd, Descriptor
  <2> QED BY SMTT(60), <2>1, <1>0, <1>1, <1>2, <1>5, <1>b
<1>8. SameBelow(c, d, o)
  <2> SUFFICES ASSUME NEW p \in Offsets, p < o PROVE d.lens[p] = c.lens[p] /\ d.text[p] = c.text[p]
    BY Zenon DEF SameBelow
  <2>1. p < from /\ p # o
    <3>1. p \in Nat
      BY <1>0 DEF Offsets
    <3> QED BY <3>1, <1>0, <1>b
  <2>2. d.lens[p] = c.lens[p]
    BY Zenon, <1>5, <1>a, <2>1
  <2> QED BY Zenon, <2>1, <2>2, <1>4, <1>5
<1>9. ASSUME Short(f \o text)
      PROVE  d.lens[o] = Len(f \o text) /\ \A j \in 1..Len(f \o text) : d.text[o + 1 + j] = (f \o text)[j]
  <2>1. f \o text \in Seq(Nat) /\ Len(f \o text) = Len(f) + size
        /\ \A j \in 1..(Len(f) + size) : (f \o text)[j] = IF j <= Len(f) THEN f[j] ELSE text[j - Len(f)]
    BY Zenon, ConcatProperties DEF size
  <2>0. Len(f) + size <= MaxField
    BY Zenon, <1>9, <2>1 DEF Short
  <2>2. Short(f)
    BY <2>0, <1>0 DEF Short
  <2>3. len = Len(f) /\ \A j \in 1..Len(f) : c.text[o + 1 + j] = f[j]
    BY Zenon, <2>2 DEF Holds, len
  <2>4. size < room
    <3>2. CASE o = 0
      BY <2>0, <3>2, <1>0, <1>1, <1>b, <2>3
    <3>3. CASE o # 0
      BY Zenon, <3>3 DEF buf_fits, room, size
    <3> QED BY Zenon, <3>2, <3>3
  <2>5. n = size
    BY <2>0, <1>0, <1>1, <1>2, <2>3, <2>4
  <2>6. ASSUME NEW j \in 1..(Len(f) + size) PROVE d.text[o + 1 + j] = (f \o text)[j]
    <3>0. j \in Nat /\ 1 <= j /\ j <= Len(f) + size
      BY <1>0
    <3>1. o + 1 + j \in Offsets
      BY <3>0, <1>0, <1>1, <1>b, <2>3, <2>4 DEF Offsets
    <3>2. CASE j <= Len(f)
      <4>1. o + 1 + j < from /\ j \in 1..Len(f)
        BY SMTT(60), <3>0, <1>0, <1>b, <2>3, <3>2
      <4>2. (f \o text)[j] = f[j] /\ w[o + 1 + j] = c.text[o + 1 + j]
        BY Zenon, <4>1, <3>1, <3>2, <1>4, <2>1
      <4> QED BY Zenon, <4>1, <4>2, <1>5, <2>3
    <3>3. CASE ~(j <= Len(f))
      <4>1. o + 1 + j >= from /\ o + 1 + j < from + size
        BY <3>0, <1>0, <1>b, <2>3, <3>3
      <4> DEFINE p == o + 1 + j
      <4>2. w[p] = text[p - from + 1]
        <5>1. p \in Offsets /\ p >= from /\ p < from + size
          BY Zenon, <3>1, <4>1
        <5> HIDE DEF p
        <5> QED BY Zenon, <5>1, <1>4, <2>4
      <4>3. (f \o text)[j] = text[j - Len(f)]
        BY Zenon, <2>1, <3>3
      <4>4. d.text[p] = text[j - Len(f)]
        <5>1. p - from + 1 = j - Len(f)
          BY <3>0, <1>0, <1>1, <1>b, <2>3
        <5> HIDE DEF p
        <5> QED BY Zenon, <5>1, <4>2, <1>5
      <4> QED BY Zenon, <4>3, <4>4
    <3> QED BY Zenon, <3>2, <3>3
  <2>7. d.lens[o] = Len(f) + size
    BY Zenon, <1>e, <2>3, <2>5
  <2> QED BY Zenon, <2>1, <2>6, <2>7
<1>10. Holds(d, o, f \o text)
  <2>1. d.lens[o] \in Nat /\ d.lens[o] <= MaxField
    BY SMTT(60), <1>0, <1>1, <1>2, <1>e
  <2> QED BY Zenon, <1>0, <2>1, <1>7, <1>9 DEF Holds
<1>11. d.end < ChunkBytes
  <2>1. CASE o = 0
    BY <2>1, <1>0, <1>1, <1>2, <1>5, <1>b
  <2>2. CASE o # 0
    <3>1. size < room
      BY Zenon, <2>2 DEF buf_fits, room, size
    <3> QED BY <3>1, <1>0, <1>1, <1>2, <1>5, <1>b
  <2> QED BY Zenon, <2>1, <2>2
<1> QED BY Zenon, <1>6, <1>7, <1>8, <1>10, <1>11

(* A token that moves keeps its text.                                      *)
LEMMA MovedFacts ==
    ASSUME NEW c \in Chunk, NEW o, NEW f \in Seq(Nat), Holds(c, o, f), NEW d, d = Moved(c, o)
    PROVE  d \in Chunk /\ Holds(d, 0, f) /\ d.end = TextEnd(d, 0)
<1> DEFINE len == c.lens[o]
<1>0. /\ o \in Nat /\ len \in Nat /\ ChunkBytes \in Nat /\ MaxField \in Nat
      /\ Len(f) \in Nat /\ len <= MaxField /\ 0 \in Offsets /\ o + 2 + len <= ChunkBytes
  BY BufferAssumption DEF Holds, Offsets, TextEnd, Descriptor
<1>a. c.text \in [Offsets -> Nat] /\ buf_chunk_new.lens \in [Offsets -> Nat \cup {NoLen}]
  BY Zenon DEF Chunk, buf_chunk_new
<1>1. d = [lens |-> [buf_chunk_new.lens EXCEPT ![0] = len],
           text |-> [p \in Offsets |-> IF p >= 2 /\ p < 2 + len THEN c.text[o + p] ELSE 0],
           end  |-> 2 + len]
  BY Zenon DEF Moved, Descriptor
<1>b. Short(f) => len = Len(f) /\ \A j \in 1..Len(f) : c.text[o + 1 + j] = f[j]
  BY Zenon DEF Holds
<1> HIDE DEF len
<1>2. \A p \in Offsets : (p >= 2 /\ p < 2 + len) => c.text[o + p] \in Nat
  <2> SUFFICES ASSUME NEW p \in Offsets, p >= 2, p < 2 + len PROVE c.text[o + p] \in Nat
    OBVIOUS
  <2>1. o + p \in Offsets
    BY <1>0 DEF Offsets
  <2> QED BY Zenon, <2>1, <1>a
<1>3. d.lens[0] = len /\ d.end = 2 + len
      /\ d.text = [p \in Offsets |-> IF p >= 2 /\ p < 2 + len THEN c.text[o + p] ELSE 0]
  BY <1>0, <1>1, <1>a
<1>4. d \in Chunk
  <2>1. [buf_chunk_new.lens EXCEPT ![0] = len] \in [Offsets -> Nat \cup {NoLen}]
    BY Zenon, <1>0, <1>a
  <2>2. [p \in Offsets |-> IF p >= 2 /\ p < 2 + len THEN c.text[o + p] ELSE 0] \in [Offsets -> Nat]
    BY Zenon, <1>2
  <2>3. 2 + len \in Nat
    BY <1>0
  <2> QED BY <1>1, <2>1, <2>2, <2>3 DEF Chunk
<1>5. TextEnd(d, 0) = 2 + len
  <2>1. TextEnd(d, 0) = 0 + 2 + len
    BY Zenon, <1>3 DEF TextEnd, Descriptor
  <2> QED BY <2>1, <1>0
<1>6. TextEnd(d, 0) <= ChunkBytes
  BY <1>5, <1>0
<1>7. ASSUME Short(f), NEW j \in 1..Len(f) PROVE d.text[0 + 1 + j] = f[j]
  <2>1. len = Len(f) /\ c.text[o + 1 + j] = f[j] /\ j \in Nat /\ 1 <= j /\ j <= Len(f)
    BY <1>7, <1>b, <1>0
  <2>2. 1 + j \in Offsets /\ 1 + j >= 2 /\ 1 + j < 2 + len /\ o + (1 + j) = o + 1 + j /\ 0 + 1 + j = 1 + j
    BY <2>1, <1>0 DEF Offsets
  <2>3. d.text[1 + j] = c.text[o + (1 + j)]
    BY Zenon, <2>2, <1>3
  <2> QED BY Zenon, <2>1, <2>2, <2>3
<1> QED BY Zenon, <1>0, <1>3, <1>4, <1>5, <1>6, <1>7, <1>b DEF Holds

(* What it leaves behind ends where it began.                              *)
LEMMA LeftFacts ==
    ASSUME NEW c \in Chunk, NEW o, NEW f \in Seq(Nat), NEW text \in Seq(Nat),
           Holds(c, o, f), c.end = TextEnd(c, o), NEW d, d = Left(c, o, text)
    PROVE  d \in Chunk /\ d.end = o /\ SameBelow(c, d, o)
<1> DEFINE from == TextEnd(c, o)
           len == c.lens[o]
           size == Len(text)
           room == buf_chunk_avail(c)
           zero == from + (IF size < room THEN size ELSE room - 1)
           w == vsnprintf(c, o, text)
<1>0. o \in Nat /\ o \in Offsets /\ len \in Nat /\ ChunkBytes \in Nat /\ size \in Nat
  BY BufferAssumption DEF Holds, Offsets
<1>1. from = o + 2 + len /\ c.end = from /\ from <= ChunkBytes /\ room = ChunkBytes - from
  BY Zenon DEF TextEnd, Descriptor, Holds, buf_chunk_avail
<1>2. d = [c EXCEPT !.text = w, !.end = from - (len + 2)]
  BY Zenon, <1>1 DEF Left, Descriptor
<1>3. w = [p \in Offsets |-> IF p >= from /\ p < zero THEN text[p - from + 1]
                             ELSE IF room > 0 /\ p = zero THEN 0 ELSE c.text[p]]
  BY Zenon DEF vsnprintf
<1> HIDE DEF from, size, room, len
<1>4. from \in Nat /\ room \in Nat /\ from - (len + 2) = o /\ from > o
  BY <1>0, <1>1
<1>5. zero \in Int /\ zero <= from + size /\ (room > 0 => zero >= from)
  BY <1>0, <1>4
<1> HIDE DEF zero, w
<1>6. ASSUME NEW p \in Offsets PROVE w[p] \in Nat /\ (p < from => w[p] = c.text[p])
  <2>1. p \in Nat /\ c.text[p] \in Nat
    BY <1>0 DEF Offsets, Chunk
  <2>2. (p >= from /\ p < zero) => p - from + 1 \in 1..Len(text)
    BY <2>1, <1>5, <1>0, <1>4 DEF size
  <2>3. (p >= from /\ p < zero) => text[p - from + 1] \in Nat
    BY <2>2
  <2>4. p < from => ~(p >= from) /\ ~(room > 0 /\ p = zero)
    BY <2>1, <1>4, <1>5
  <2> QED BY Zenon, <1>3, <2>1, <2>3, <2>4
<1>7. w \in [Offsets -> Nat]
  BY Zenon, <1>3, <1>6
<1>8. d.lens = c.lens /\ d.text = w /\ d.end = o /\ d \in Chunk
  BY Zenon, <1>0, <1>2, <1>4, <1>7 DEF Chunk
<1>9. SameBelow(c, d, o)
  <2> SUFFICES ASSUME NEW p \in Offsets, p < o PROVE d.lens[p] = c.lens[p] /\ d.text[p] = c.text[p]
    BY Zenon DEF SameBelow
  <2>1. p < from
    <3>1. p \in Nat
      BY <1>0 DEF Offsets
    <3> QED BY <3>1, <1>0, <1>4
  <2> QED BY Zenon, <2>1, <1>6, <1>8
<1> QED BY Zenon, <1>8, <1>9

-----------------------------------------------------------------------------
(* Chain ds is chain cs changed from offset o of its last chunk on.        *)
Grows(cs, ds, o) ==
  /\ Len(ds) >= Len(cs) /\ \A k \in 1..Len(cs) : k # Len(cs) => ds[k] = cs[k]
  /\ SameBelow(cs[Len(cs)], ds[Len(cs)], o) /\ ds[Len(cs)].end >= o

(* The tokens before o are where they were, and lead where they led.       *)
LEMMA AlignFacts ==
    ASSUME NEW n \in Nat
    PROVE  Align(n) \in Nat /\ n <= Align(n) /\ n % 2 \in 0..1 /\ Align(n) = n + (n % 2)
<1>1. n % 2 \in 0..1
  OBVIOUS
<1>2. Align(n) = n + (n % 2)
  BY Zenon DEF Align
<1> HIDE DEF Align
<1> QED BY <1>1, <1>2

LEMMA OldToken ==
    ASSUME NEW cs \in Seq(Chunk), NEW ds \in Seq(Chunk), NEW fs \in Seq(Field), NEW o \in Nat,
           Kept(cs, fs), Behind(cs, fs, o), Grows(cs, ds, o), NEW i \in 1..Len(fs)
    PROVE  LET k == fs[i].at[1]
               p == fs[i].at[2]
           IN /\ k \in 1..Len(ds) /\ Holds(ds[k], p, fs[i].text) /\ After(ds[k], p) = After(cs[k], p)
              /\ k # Len(cs) => ds[k] = cs[k]
<1> DEFINE k == fs[i].at[1]
           p == fs[i].at[2]
<1>0. k \in 1..Len(cs) /\ Holds(cs[k], p, fs[i].text) /\ (k = Len(cs) => After(cs[k], p) <= o)
  BY Zenon DEF Kept, Behind
<1>1. Len(cs) \in Nat /\ Len(ds) \in Nat /\ Len(ds) >= Len(cs)
  BY Zenon, LenProperties DEF Grows
<1>2. k \in 1..Len(ds)
  BY SMTT(60), <1>0, <1>1
<1>3. CASE k # Len(cs)
  <2>1. ds[k] = cs[k]
    BY Zenon, <1>0, <1>3 DEF Grows
  <2> QED BY Zenon, <1>0, <1>2, <2>1
<1>4. CASE k = Len(cs)
  <2> DEFINE c == cs[k]
             d == ds[k]
             f == fs[i].text
  <2>1. SameBelow(c, d, o) /\ Holds(c, p, f) /\ After(c, p) <= o
    BY Zenon, <1>0, <1>4 DEF Grows
  <2>2. f \in Seq(Nat) /\ Len(f) \in Nat
    <3>1. fs[i] \in Field
      OBVIOUS
    <3> QED BY Zenon, <3>1, LenProperties DEF Field
  <2> HIDE DEF c, d, f, p
  <2> DEFINE len == c.lens[p]
  <2>3. p \in Offsets /\ p \in Nat /\ len \in Nat /\ ChunkBytes \in Nat /\ p + 2 + len <= ChunkBytes
    BY <2>1, BufferAssumption DEF Holds, Offsets, TextEnd, Descriptor
  <2>a. p + 2 + Align(len) <= o
    BY Zenon, <2>1 DEF After, Descriptor
  <2> HIDE DEF len
  <2>4. p + 2 + len <= o
    <3>1. Align(len) \in Nat /\ len <= Align(len)
      BY Zenon, <2>3, AlignFacts
    <3> QED BY SMTT(60), <3>1, <2>a, <2>3
  <2>5. d.lens[p] = c.lens[p]
    <3>1. p < o
      BY <2>3, <2>4
    <3> QED BY Zenon, <3>1, <2>1, <2>3 DEF SameBelow, len
  <2>6. ASSUME Short(f), NEW j \in 1..Len(f) PROVE d.text[p + 1 + j] = f[j]
    <3>1. len = Len(f) /\ c.text[p + 1 + j] = f[j]
      BY Zenon, <2>1, <2>6 DEF Holds, len
    <3>2. p + 1 + j \in Offsets /\ p + 1 + j < o
      BY <2>2, <2>3, <2>4, <3>1 DEF Offsets
    <3> QED BY Zenon, <3>1, <3>2, <2>1 DEF SameBelow
  <2>7. TextEnd(d, p) = TextEnd(c, p) /\ After(d, p) = After(c, p)
    BY Zenon, <2>5 DEF TextEnd, After
  <2>8. Holds(d, p, f)
    BY Zenon, <2>1, <2>3, <2>5, <2>6, <2>7 DEF Holds
  <2> QED BY Zenon, <1>2, <1>4, <2>7, <2>8 DEF c, d, f, p
<1> QED BY Zenon, <1>3, <1>4

LEMMA OldChain ==
    ASSUME NEW cs \in Seq(Chunk), NEW ds \in Seq(Chunk), NEW fs \in Seq(Field), NEW o \in Nat,
           Kept(cs, fs), Behind(cs, fs, o), Grows(cs, ds, o),
           NEW i \in 1..Len(fs), i # Len(fs), Follows(cs, fs[i].at, fs[i + 1].at)
    PROVE  Follows(ds, fs[i].at, fs[i + 1].at)
<1>0. i \in Nat /\ Len(fs) \in Nat /\ i + 1 \in 1..Len(fs) /\ i + 1 <= Len(fs)
  BY LenProperties
<1> DEFINE k == fs[i].at[1]
           p == fs[i].at[2]
           r == fs[i + 1].at
           nx == After(cs[k], p)
<1>2. Follows(cs, fs[i].at, r)
  OBVIOUS
<1>3. k \in 1..Len(ds) /\ After(ds[k], p) = nx /\ (k # Len(cs) => ds[k] = cs[k])
  BY ZenonT(60), OldToken
<1>4. k \in 1..Len(cs) /\ Len(cs) \in Nat /\ Len(ds) \in Nat /\ Len(ds) >= Len(cs)
  BY Zenon, LenProperties DEF Kept, Grows
<1>5. \/ nx # cs[k].end /\ r = <<k, nx>>
      \/ nx = cs[k].end /\ k < Len(cs) /\ r = <<k + 1, 0>>
  BY Zenon, <1>2 DEF Follows
<1>6. CASE k # Len(cs)
  <2>1. k < Len(ds) /\ ds[k].end = cs[k].end
    BY SMTT(60), <1>3, <1>4, <1>6
  <2> QED BY Zenon, <1>3, <1>5, <2>1 DEF Follows
<1>7. CASE k = Len(cs)
  <2>1. nx # cs[k].end /\ r = <<k, nx>>
    BY SMTT(60), <1>5, <1>7, <1>4
  <2>2. r[1] = Len(cs) /\ r[2] = nx
    BY <2>1, <1>7
  <2>3. After(cs[Len(cs)], nx) <= o /\ Holds(cs[Len(cs)], nx, fs[i + 1].text)
    BY Zenon, <2>2, <1>0 DEF Behind, Kept
  <2>4. nx < o
    <3> DEFINE len == cs[Len(cs)].lens[nx]
    <3>1. len \in Nat /\ nx \in Offsets /\ nx + 2 + Align(len) <= o
      BY Zenon, <2>3 DEF Holds, After, Descriptor
    <3> HIDE DEF nx, len
    <3>2. nx \in Nat
      BY <3>1 DEF Offsets
    <3>3. Align(len) \in Nat /\ len <= Align(len)
      BY Zenon, <3>1, AlignFacts
    <3> QED BY SMTT(60), <3>1, <3>2, <3>3
  <2>5. ds[k].end >= o
    BY Zenon, <1>7 DEF Grows
  <2> HIDE DEF nx, k
  <2>6. ds[k].end \in Nat
    <3>1. ds[k] \in Chunk
      BY <1>3
    <3> QED BY Zenon, <3>1 DEF Chunk
  <2>7. nx \in Nat
    BY <2>3 DEF Holds, Offsets
  <2>8. nx # ds[k].end
    BY <2>4, <2>5, <2>6, <2>7
  <2> QED BY Zenon, <1>3, <2>1, <2>8 DEF Follows, k, nx
<1> QED BY Zenon, <1>6, <1>7

(* The last of them leads to o, or to a new chunk when the old one ends    *)
(* at o.                                                                   *)
LEMMA LastChain ==
    ASSUME NEW cs \in Seq(Chunk), NEW ds \in Seq(Chunk), NEW fs \in Seq(Field), NEW o \in Nat,
           Kept(cs, fs), Behind(cs, fs, o), Grows(cs, ds, o), Chained(cs, fs, <<Len(cs), o>>),
           NEW i \in 1..Len(fs), i = Len(fs)
    PROVE  /\ ds[Len(cs)].end > o => Follows(ds, fs[i].at, <<Len(cs), o>>)
           /\ ds[Len(cs)].end = o /\ o # 0 /\ Len(ds) > Len(cs) => Follows(ds, fs[i].at, <<Len(cs) + 1, 0>>)
<1> DEFINE k == fs[i].at[1]
           p == fs[i].at[2]
           q == <<Len(cs), o>>
           nx == After(cs[k], p)
<1>0. ~(i + 1 <= Len(fs))
  BY LenProperties
<1>1. PlaceOf(fs, i + 1, q) = q
  BY Zenon, <1>0 DEF PlaceOf
<1>2. Follows(cs, fs[i].at, q)
  BY Zenon, <1>1 DEF Chained
<1>3. k \in 1..Len(ds) /\ After(ds[k], p) = nx /\ (k # Len(cs) => ds[k] = cs[k])
  BY ZenonT(60), OldToken
<1>4. k \in 1..Len(cs) /\ Len(cs) \in Nat /\ Len(ds) \in Nat /\ Len(ds) >= Len(cs)
  BY Zenon, LenProperties DEF Kept, Grows
<1>5. \/ nx # cs[k].end /\ q = <<k, nx>>
      \/ nx = cs[k].end /\ k < Len(cs) /\ q = <<k + 1, 0>>
  BY Zenon, <1>2 DEF Follows
<1>6. CASE k # Len(cs)
  <2>1. k < Len(ds) /\ ds[k].end = cs[k].end /\ nx = cs[k].end /\ q = <<k + 1, 0>> /\ o = 0
    <3>1. q[1] = Len(cs) /\ q[2] = o /\ <<k, nx>>[1] = k /\ <<k + 1, 0>>[2] = 0
      OBVIOUS
    <3>2. nx = cs[k].end /\ q = <<k + 1, 0>> /\ o = 0
      BY Zenon, <1>5, <1>6, <3>1
    <3> HIDE DEF k
    <3>3. k < Len(ds)
      BY <1>4, <1>6
    <3> QED BY Zenon, <1>3, <1>6, <3>2, <3>3
  <2> QED BY Zenon, <1>3, <2>1 DEF Follows
<1>7. CASE k = Len(cs)
  <2>1. q = <<k, nx>> /\ nx = o
    BY SMTT(60), <1>5, <1>7, <1>4
  <2>2. ASSUME ds[Len(cs)].end > o PROVE Follows(ds, fs[i].at, q)
    <3>1. ds[k] \in Chunk
      BY SMTT(60), <1>3
    <3>2. ds[k].end \in Nat
      BY Zenon, <3>1 DEF Chunk
    <3>3. nx # ds[k].end
      BY <3>2, <2>1, <2>2, <1>7
    <3> QED BY Zenon, <1>3, <2>1, <3>3 DEF Follows
  <2>3. ASSUME ds[Len(cs)].end = o, Len(ds) > Len(cs) PROVE Follows(ds, fs[i].at, <<k + 1, 0>>)
    <3>1. k < Len(ds)
      BY Zenon, <2>3, <1>4, <1>7
    <3>2. nx = ds[k].end
      BY Zenon, <2>1, <2>3, <1>7
    <3> QED BY Zenon, <1>3, <3>1, <3>2 DEF Follows
  <2> QED BY Zenon, <2>2, <2>3, <1>7
<1> QED BY Zenon, <1>6, <1>7

(* After a step that leaves the current token where it is.                 *)
LEMMA SameToken ==
    ASSUME NEW cs \in Seq(Chunk), NEW ds \in Seq(Chunk), NEW fs \in Seq(Field), NEW o \in Nat,
           Kept(cs, fs), Behind(cs, fs, o), Grows(cs, ds, o), Chained(cs, fs, <<Len(cs), o>>),
           Len(ds) = Len(cs), ds[Len(cs)].end > o
    PROVE  Kept(ds, fs) /\ Behind(ds, fs, o) /\ Chained(ds, fs, <<Len(cs), o>>)
<1>1. Kept(ds, fs)
  <2> SUFFICES ASSUME NEW i \in 1..Len(fs)
               PROVE  fs[i].at[1] \in 1..Len(ds) /\ Holds(ds[fs[i].at[1]], fs[i].at[2], fs[i].text)
    BY Zenon DEF Kept
  <2> QED BY Zenon, OldToken
<1>2. Behind(ds, fs, o)
  <2> SUFFICES ASSUME NEW i \in 1..Len(fs), fs[i].at[1] = Len(ds) PROVE After(ds[Len(ds)], fs[i].at[2]) <= o
    BY Zenon DEF Behind
  <2>1. After(ds[fs[i].at[1]], fs[i].at[2]) = After(cs[fs[i].at[1]], fs[i].at[2])
    BY ZenonT(60), OldToken
  <2>2. After(cs[Len(cs)], fs[i].at[2]) <= o
    BY Zenon DEF Behind
  <2> QED BY Zenon, <2>1, <2>2
<1>3. Chained(ds, fs, <<Len(cs), o>>)
  <2> DEFINE q == <<Len(cs), o>>
  <2>1. PlaceOf(fs, 1, q) = <<1, 0>>
    BY Zenon DEF Chained
  <2>2. ASSUME NEW i \in 1..Len(fs) PROVE Follows(ds, fs[i].at, PlaceOf(fs, i + 1, q))
    <3>1. CASE i # Len(fs)
      <4>1. PlaceOf(fs, i + 1, q) = fs[i + 1].at
        BY <3>1, LenProperties DEF PlaceOf
      <4> QED BY ZenonT(60), <3>1, <4>1, OldChain DEF Chained
    <3>2. CASE i = Len(fs)
      <4>1. ~(i + 1 <= Len(fs))
        BY <3>2, LenProperties
      <4>2. PlaceOf(fs, i + 1, q) = q
        BY Zenon, <4>1 DEF PlaceOf
      <4> QED BY Zenon, <3>2, <4>2, LastChain
    <3> QED BY Zenon, <3>1, <3>2
  <2> QED BY Zenon, <2>1, <2>2 DEF Chained
<1> QED BY Zenon, <1>1, <1>2, <1>3

(* After one that puts it first in a new chunk.                            *)
LEMMA NewChunkToken ==
    ASSUME NEW cs \in Seq(Chunk), NEW ds \in Seq(Chunk), NEW fs \in Seq(Field), NEW o \in Nat,
           Kept(cs, fs), Behind(cs, fs, o), Grows(cs, ds, o), Chained(cs, fs, <<Len(cs), o>>),
           Len(ds) = Len(cs) + 1, ds[Len(cs)].end = o, o # 0
    PROVE  Kept(ds, fs) /\ Behind(ds, fs, 0) /\ Chained(ds, fs, <<Len(ds), 0>>)
<1>0. Len(cs) \in Nat /\ Len(ds) > Len(cs) /\ Len(ds) # Len(cs) /\ Len(fs) \in Nat
  BY LenProperties
<1>1. Kept(ds, fs)
  <2> SUFFICES ASSUME NEW i \in 1..Len(fs)
               PROVE  fs[i].at[1] \in 1..Len(ds) /\ Holds(ds[fs[i].at[1]], fs[i].at[2], fs[i].text)
    BY Zenon DEF Kept
  <2> QED BY Zenon, OldToken
<1>2. Behind(ds, fs, 0)
  <2> SUFFICES ASSUME NEW i \in 1..Len(fs), fs[i].at[1] = Len(ds) PROVE FALSE
    BY Zenon DEF Behind
  <2>1. fs[i].at[1] \in 1..Len(cs)
    BY Zenon DEF Kept
  <2> QED BY <2>1, <1>0
<1>3. Chained(ds, fs, <<Len(ds), 0>>)
  <2> DEFINE q == <<Len(cs), o>>
             r == <<Len(ds), 0>>
  <2>0. fs # << >> /\ 1 <= Len(fs)
    <3>1. PlaceOf(fs, 1, q) = <<1, 0>>
      BY Zenon DEF Chained
    <3>2. CASE ~(1 <= Len(fs))
      <4>1. q = <<1, 0>>
        BY Zenon, <3>1, <3>2 DEF PlaceOf
      <4> QED BY Zenon, <4>1
    <3> QED BY <3>2
  <2>1. PlaceOf(fs, 1, r) = <<1, 0>>
    BY Zenon, <2>0 DEF Chained, PlaceOf
  <2>2. ASSUME NEW i \in 1..Len(fs) PROVE Follows(ds, fs[i].at, PlaceOf(fs, i + 1, r))
    <3>1. CASE i # Len(fs)
      <4>1. i + 1 <= Len(fs)
        BY <3>1, <1>0
      <4>2. PlaceOf(fs, i + 1, r) = fs[i + 1].at /\ PlaceOf(fs, i + 1, q) = fs[i + 1].at
        BY Zenon, <4>1 DEF PlaceOf
      <4>3. Follows(ds, fs[i].at, fs[i + 1].at)
        BY ZenonT(60), <3>1, <4>2, OldChain DEF Chained
      <4> QED BY Zenon, <4>2, <4>3
    <3>2. CASE i = Len(fs)
      <4>1. ~(i + 1 <= Len(fs))
        BY <3>2, LenProperties
      <4>2. PlaceOf(fs, i + 1, r) = r
        BY Zenon, <4>1 DEF PlaceOf
      <4>3. Follows(ds, fs[i].at, <<Len(cs) + 1, 0>>)
        BY Zenon, <3>2, <1>0, LastChain
      <4> QED BY Zenon, <4>2, <4>3
    <3> QED BY Zenon, <3>1, <3>2
  <2> QED BY Zenon, <2>1, <2>2 DEF Chained
<1> QED BY Zenon, <1>1, <1>2, <1>3

-----------------------------------------------------------------------------
LEMMA AppendChunk ==
    ASSUME NEW cs \in Seq(Chunk), NEW d \in Chunk
    PROVE  /\ Append(cs, d) \in Seq(Chunk) /\ Len(Append(cs, d)) = Len(cs) + 1
           /\ \A k \in 1..Len(cs) : Append(cs, d)[k] = cs[k]
           /\ Append(cs, d)[Len(cs) + 1] = d
BY SMT, AppendProperties

(* An empty token, at the start of a new chunk.                            *)
LEMMA NewChunkFacts ==
    /\ buf_chunk_new \in Chunk /\ Holds(buf_chunk_new, 0, << >>) /\ Spare(buf_chunk_new, 0)
    /\ buf_chunk_new.end = TextEnd(buf_chunk_new, 0)
<1>1. ChunkBytes \in Nat /\ ChunkBytes >= 2 /\ MaxField \in Nat /\ 0 \in Offsets
  BY BufferAssumption DEF Offsets, Descriptor
<1>2. buf_chunk_new.lens[0] = 0 /\ buf_chunk_new.end = 2
  BY Zenon, <1>1 DEF buf_chunk_new, Descriptor
<1>3. buf_chunk_new \in Chunk
  BY Zenon DEF buf_chunk_new, Chunk, Descriptor
<1>4. TextEnd(buf_chunk_new, 0) = 2
  BY <1>2 DEF TextEnd, Descriptor
<1>5. Holds(buf_chunk_new, 0, << >>)
  BY <1>1, <1>2, <1>4 DEF Holds
<1> QED BY Zenon, <1>2, <1>3, <1>4, <1>5 DEF Spare

(* The chain out() prints to.                                              *)
LEMMA ChainFacts ==
    ASSUME BufferInv, phase = "print", NEW cs, cs = IF chunks = << >> THEN <<buf_chunk_new>> ELSE chunks
    PROVE  /\ cs \in Seq(Chunk) /\ Len(cs) \in Nat /\ Len(cs) >= 1
           /\ Kept(cs, fields) /\ Behind(cs, fields, cur) /\ Chained(cs, fields, <<Len(cs), cur>>)
           /\ Holds(cs[Len(cs)], cur, pending) /\ cs[Len(cs)].end = TextEnd(cs[Len(cs)], cur)
           /\ Spare(cs[Len(cs)], cur)
<1>1. CASE chunks = << >>
  <2>1. cs \in Seq(Chunk) /\ Len(cs) = 1 /\ cs[1] = buf_chunk_new
    BY <1>1, NewChunkFacts
  <2>2. cur = 0 /\ fields = << >> /\ pending = << >>
    BY Zenon, <1>1 DEF BufferInv
  <2>3. ~(1 <= Len(fields)) /\ 1..Len(fields) = {}
    BY <2>2
  <2>4. Kept(cs, fields) /\ Behind(cs, fields, cur)
    BY Zenon, <2>3 DEF Kept, Behind
  <2>5. Chained(cs, fields, <<Len(cs), cur>>)
    <3>1. PlaceOf(fields, 1, <<Len(cs), cur>>) = <<1, 0>>
      BY Zenon, <2>1, <2>2, <2>3 DEF PlaceOf
    <3> QED BY Zenon, <2>3, <3>1 DEF Chained
  <2>6. Len(cs) \in Nat /\ Len(cs) >= 1
    BY <2>1
  <2>7. Holds(cs[Len(cs)], cur, pending) /\ cs[Len(cs)].end = TextEnd(cs[Len(cs)], cur) /\ Spare(cs[Len(cs)], cur)
    BY Zenon, <2>1, <2>2, NewChunkFacts
  <2> QED BY Zenon, <2>1, <2>4, <2>5, <2>6, <2>7
<1>2. CASE chunks # << >>
  <2>1. cs = chunks /\ Stored /\ chunks \in Seq(Chunk)
    BY Zenon, <1>2 DEF BufferInv, BufferType
  <2>2. Len(cs) \in Nat /\ Len(cs) >= 1
    BY <1>2, <2>1, EmptySeq, LenProperties
  <2> QED BY Zenon, <2>1, <2>2 DEF Stored, Current, LastChunk
<1> QED BY Zenon, <1>1, <1>2

(* A step that prints.                                                     *)
LEMMA FromPrint ==
    ASSUME BufferInv, phase = "print", UNCHANGED <<phase, token, rendered>>,
           chunks' \in Seq(Chunk), Len(chunks') >= 1, cur' \in Nat, pieces' \in Nat, pending' \in Seq(Nat),
           fields' \in Seq(Field),
           Kept(chunks', fields'), Behind(chunks', fields', cur'), Chained(chunks', fields', <<Len(chunks'), cur'>>),
           Holds(chunks'[Len(chunks')], cur', pending'),
           chunks'[Len(chunks')].end = TextEnd(chunks'[Len(chunks')], cur'), Spare(chunks'[Len(chunks')], cur')
    PROVE  BufferInv'
<1>1. BufferType'
  BY Zenon DEF BufferInv, BufferType
<1>2. chunks' # << >>
  OBVIOUS
<1>3. Stored'
  BY Zenon DEF Stored, Current, LastChunk
<1>4. phase' = "print" /\ rendered' = << >> /\ token' = <<1, 0>>
  BY Zenon DEF BufferInv, Walk
<1>5. Walk'
  BY Zenon, <1>4 DEF Walk
<1>6. SsFieldsKept'
  BY <1>4 DEF SsFieldsKept
<1> QED BY Zenon, <1>1, <1>2, <1>3, <1>5, <1>6 DEF BufferInv

(* out().                                                                  *)
LEMMA OutKeeps == BufferInv /\ Out => BufferInv'
<1> SUFFICES ASSUME BufferInv, Out PROVE BufferInv'
  OBVIOUS
<1> DEFINE cs == IF chunks = << >> THEN <<buf_chunk_new>> ELSE chunks
           tail == Len(cs)
           c == cs[tail]
           text(n) == [i \in 1..n |-> (MaxText + 1) * pieces + i]
<1>0. phase = "print" /\ pieces' = pieces + 1 /\ UNCHANGED <<phase, token, rendered, fields>>
  BY Zenon DEF Out
<1>1. PICK n \in 0..MaxText :
        /\ IF buf_fits(c, cur, n)
           THEN chunks' = [cs EXCEPT ![tail] = buf_update(@, cur, text(n))] /\ cur' = cur
           ELSE /\ chunks' = Append([cs EXCEPT ![tail] = Left(@, cur, text(n))],
                                    buf_update(Moved(c, cur), 0, text(n)))
                /\ cur' = 0
        /\ pending' = pending \o text(n)
  BY Zenon DEF Out
<1> DEFINE t == text(n)
<1>2. /\ cs \in Seq(Chunk) /\ tail \in Nat /\ tail >= 1
      /\ Kept(cs, fields) /\ Behind(cs, fields, cur) /\ Chained(cs, fields, <<tail, cur>>)
      /\ Holds(c, cur, pending) /\ c.end = TextEnd(c, cur)
  <2>1. cs = IF chunks = << >> THEN <<buf_chunk_new>> ELSE chunks
    OBVIOUS
  <2> HIDE DEF cs
  <2> QED BY Zenon, <2>1, <1>0, ChainFacts
<1>3. /\ cur \in Nat /\ pieces \in Nat /\ pending \in Seq(Nat) /\ fields \in Seq(Field)
      /\ pieces' \in Nat
  BY <1>0 DEF BufferInv, BufferType
<1>4. t \in Seq(Nat) /\ Len(t) = n
  <2>1. MaxText \in Nat /\ n \in Nat
    BY BufferAssumption
  <2>2. \A i \in 1..n : (MaxText + 1) * pieces + i \in Nat
    BY <2>1, <1>3
  <2> QED BY <2>1, <2>2
<1> HIDE DEF cs, text
<1>5. c \in Chunk /\ tail \in 1..Len(cs)
  BY <1>2
<1>6. pending' = pending \o t /\ pending' \in Seq(Nat)
  BY <1>1, <1>3, <1>4
<1> HIDE DEF t
<1>7. CASE buf_fits(c, cur, n)
  <2> DEFINE d == buf_update(c, cur, t)
  <2>0. chunks' = [cs EXCEPT ![tail] = d] /\ cur' = cur
    BY Zenon, <1>1, <1>7 DEF t
  <2>1. d \in Chunk /\ Holds(d, cur, pending') /\ d.end = TextEnd(d, cur) /\ d.end > cur /\ SameBelow(c, d, cur)
        /\ Spare(d, cur)
    <3>1. buf_fits(c, cur, Len(t))
      BY Zenon, <1>4, <1>7
    <3>2. d = buf_update(c, cur, t)
      OBVIOUS
    <3> HIDE DEF d
    <3>3. d \in Chunk /\ Holds(d, cur, pending \o t) /\ d.end = TextEnd(d, cur) /\ d.end > cur /\ SameBelow(c, d, cur)
          /\ d.end < ChunkBytes
      BY SMTT(60), <3>1, <3>2, <1>2, <1>3, <1>4, <1>5, WriteFacts
    <3> QED BY Zenon, <3>3, <1>6 DEF Spare
  <2> HIDE DEF d
  <2>2. /\ chunks' \in Seq(Chunk) /\ Len(chunks') = tail /\ chunks'[tail] = d
        /\ \A k \in 1..tail : k # tail => chunks'[k] = cs[k]
    <3> HIDE DEF c
    <3> QED BY <1>2, <1>5, <2>0, <2>1
  <2>3. d.end \in Nat /\ d.end >= cur
    BY <2>1, <1>3 DEF Chunk
  <2>a. Len(chunks') >= Len(cs) /\ Len(chunks') >= 1
    BY <1>2, <2>2
  <2>4. Grows(cs, chunks', cur)
    BY Zenon, <2>1, <2>2, <2>3, <2>a DEF Grows
  <2>5. Kept(chunks', fields) /\ Behind(chunks', fields, cur) /\ Chained(chunks', fields, <<tail, cur>>)
    BY Zenon, <1>2, <1>3, <2>1, <2>2, <2>4, SameToken
  <2> QED BY Zenon, <1>0, <1>3, <1>6, <2>0, <2>1, <2>2, <2>5, <2>a, FromPrint
<1>8. CASE ~buf_fits(c, cur, n)
  <2> DEFINE e == Left(c, cur, t)
             m == Moved(c, cur)
             d == buf_update(m, 0, t)
             es == [cs EXCEPT ![tail] = e]
  <2>0. chunks' = Append(es, d) /\ cur' = 0 /\ cur # 0
    BY Zenon, <1>1, <1>8 DEF t, buf_fits
  <2>1. e \in Chunk /\ e.end = cur /\ SameBelow(c, e, cur)
    BY ZenonT(60), <1>2, <1>3, <1>4, <1>5, LeftFacts
  <2>2. m \in Chunk /\ Holds(m, 0, pending) /\ m.end = TextEnd(m, 0)
    BY Zenon, <1>2, <1>3, <1>5, MovedFacts
  <2>3. d \in Chunk /\ Holds(d, 0, pending') /\ d.end = TextEnd(d, 0) /\ Spare(d, 0)
    <3>1. buf_fits(m, 0, Len(t))
      BY Zenon DEF buf_fits
    <3>2. d = buf_update(m, 0, t)
      OBVIOUS
    <3> HIDE DEF m, d
    <3>3. d \in Chunk /\ Holds(d, 0, pending \o t) /\ d.end = TextEnd(d, 0) /\ d.end < ChunkBytes
      BY SMT, <3>1, <3>2, <1>3, <1>4, <2>2, WriteFacts
    <3> QED BY Zenon, <3>3, <1>6 DEF Spare
  <2> HIDE DEF d, e, m
  <2>4. /\ chunks' \in Seq(Chunk) /\ Len(chunks') = tail + 1 /\ chunks'[tail] = e /\ chunks'[tail + 1] = d
        /\ \A k \in 1..tail : k # tail => chunks'[k] = cs[k]
    <3> HIDE DEF c
    <3>1. es \in Seq(Chunk) /\ Len(es) = tail /\ es[tail] = e /\ \A k \in 1..tail : k # tail => es[k] = cs[k]
      BY <1>2, <1>5, <2>1
    <3> HIDE DEF es
    <3>2. /\ Append(es, d) \in Seq(Chunk) /\ Len(Append(es, d)) = Len(es) + 1
          /\ \A k \in 1..Len(es) : Append(es, d)[k] = es[k]
          /\ Append(es, d)[Len(es) + 1] = d
      BY Zenon, <2>3, <3>1, AppendChunk
    <3> QED BY Zenon, <1>5, <2>0, <3>1, <3>2
  <2>5. e.end >= cur
    BY <2>1, <1>3
  <2>a. Len(chunks') >= Len(cs) /\ Len(chunks') >= 1
    BY <1>2, <2>4
  <2>6. Grows(cs, chunks', cur)
    BY Zenon, <2>1, <2>4, <2>5, <2>a DEF Grows
  <2>7. Kept(chunks', fields) /\ Behind(chunks', fields, 0) /\ Chained(chunks', fields, <<Len(chunks'), 0>>)
    BY ZenonT(60), <1>2, <1>3, <2>0, <2>1, <2>4, <2>6, NewChunkToken
  <2>8. cur' \in Nat
    BY Zenon, <2>0
  <2> QED BY ZenonT(60), <1>0, <1>3, <1>6, <2>0, <2>3, <2>4, <2>7, <2>8, <2>a, FromPrint
<1> QED BY Zenon, <1>7, <1>8

-----------------------------------------------------------------------------
(* The tokens gs, each of which leads to the next.                         *)
Linked(cs, gs) == gs[1].at = <<1, 0>> /\ \A i \in 1..Len(gs) : i # Len(gs) => Follows(cs, gs[i].at, gs[i + 1].at)

(* The fields gs, where the last one is the one at o.                      *)
Complete(cs, o, gs) ==
  /\ gs \in Seq(Field) /\ Len(gs) \in Nat \ {0} /\ gs[Len(gs)].at = <<Len(cs), o>>
  /\ Kept(cs, gs) /\ Behind(cs, gs, After(cs[Len(cs)], o)) /\ Linked(cs, gs)
  /\ After(cs[Len(cs)], o) \in Nat /\ After(cs[Len(cs)], o) > o

(* The fields with the current one as the last.                            *)
LEMMA WithCurrent ==
    ASSUME NEW cs \in Seq(Chunk), NEW fs \in Seq(Field), NEW o \in Nat, NEW f \in Seq(Nat), Len(cs) \in Nat \ {0},
           Kept(cs, fs), Behind(cs, fs, o), Chained(cs, fs, <<Len(cs), o>>), Holds(cs[Len(cs)], o, f),
           NEW gs, gs = Append(fs, [text |-> f, at |-> <<Len(cs), o>>])
    PROVE  Complete(cs, o, gs)
<1> DEFINE g == [text |-> f, at |-> <<Len(cs), o>>]
           q == <<Len(cs), o>>
           c == cs[Len(cs)]
           len == c.lens[o]
<1>0. g \in Field /\ g.text = f /\ g.at = q /\ q[1] = Len(cs) /\ q[2] = o
  BY Zenon DEF Field, Place
<1>1. gs = Append(fs, g)
  OBVIOUS
<1> HIDE DEF g
<1>2. /\ gs \in Seq(Field) /\ Len(gs) = Len(fs) + 1 /\ Len(fs) \in Nat /\ gs[Len(fs) + 1] = g
      /\ \A i \in 1..Len(fs) : gs[i] = fs[i]
  BY SMTT(60), <1>0, <1>1, AppendProperties
<1>3. ASSUME NEW i \in 1..Len(gs) PROVE (i \in 1..Len(fs) /\ gs[i] = fs[i]) \/ (i = Len(fs) + 1 /\ gs[i] = g)
  <2>1. i \in 1..Len(fs) \/ i = Len(fs) + 1
    BY <1>2
  <2> QED BY Zenon, <1>2, <2>1
<1>4. After(c, o) \in Nat /\ After(c, o) > o
  <2>1. len \in Nat /\ After(c, o) = o + 2 + Align(len)
    BY Zenon DEF Holds, After, Descriptor
  <2>2. Align(len) \in Nat
    BY Zenon, <2>1, AlignFacts
  <2> QED BY SMTT(60), <2>1, <2>2
<1>5. Kept(cs, gs)
  <2> SUFFICES ASSUME NEW i \in 1..Len(gs)
               PROVE  gs[i].at[1] \in 1..Len(cs) /\ Holds(cs[gs[i].at[1]], gs[i].at[2], gs[i].text)
    BY Zenon DEF Kept
  <2>1. Len(cs) \in 1..Len(cs)
    OBVIOUS
  <2> QED BY ZenonT(60), <1>0, <1>3, <2>1 DEF Kept
<1>6. Behind(cs, gs, After(c, o))
  <2> SUFFICES ASSUME NEW i \in 1..Len(gs), gs[i].at[1] = Len(cs) PROVE After(c, gs[i].at[2]) <= After(c, o)
    BY ZenonT(60) DEF Behind
  <2>1. CASE i \in 1..Len(fs) /\ gs[i] = fs[i]
    <3>1. After(c, gs[i].at[2]) <= o
      BY Zenon, <2>1 DEF Behind
    <3>2. After(c, gs[i].at[2]) \in Nat
      <4> DEFINE p == gs[i].at[2]
      <4>1. Holds(c, p, fs[i].text)
        BY Zenon, <2>1 DEF Kept
      <4>2. p \in Offsets /\ c.lens[p] \in Nat /\ After(c, p) = p + 2 + Align(c.lens[p])
        BY Zenon, <4>1 DEF Holds, After, Descriptor
      <4>3. Align(c.lens[p]) \in Nat
        BY ZenonT(60), <4>2, AlignFacts
      <4> HIDE DEF p
      <4>4. p \in Nat
        BY SMTT(60), <4>2, BufferAssumption DEF Offsets
      <4>5. After(c, p) \in Nat
        BY SMTT(60), <4>2, <4>3, <4>4
      <4> QED BY Zenon, <4>5 DEF p
    <3> QED BY SMTT(60), <1>4, <3>1, <3>2
  <2>2. CASE gs[i] = g
    <3>1. After(c, gs[i].at[2]) = After(c, o)
      BY Zenon, <1>0, <2>2
    <3> QED BY SMTT(60), <3>1, <1>4
  <2> QED BY Zenon, <1>3, <2>1, <2>2
<1>7. gs[1].at = <<1, 0>>
  <2>1. PlaceOf(fs, 1, q) = <<1, 0>>
    BY ZenonT(60) DEF Chained
  <2>2. 1 \in 1..Len(gs)
    BY <1>2
  <2>3. CASE 1 \in 1..Len(fs) /\ gs[1] = fs[1]
    <3>1. 1 <= Len(fs)
      BY <2>3, <1>2
    <3> QED BY ZenonT(60), <2>1, <2>3, <3>1 DEF PlaceOf
  <2>4. CASE 1 = Len(fs) + 1 /\ gs[1] = g
    <3>1. ~(1 <= Len(fs))
      BY <2>4, <1>2
    <3> QED BY ZenonT(60), <1>0, <2>1, <2>4, <3>1 DEF PlaceOf
  <2> QED BY Zenon, <1>3, <2>2, <2>3, <2>4
<1>8. ASSUME NEW i \in 1..Len(gs), i # Len(gs) PROVE Follows(cs, gs[i].at, gs[i + 1].at)
  <2>1. i \in 1..Len(fs) /\ gs[i] = fs[i] /\ i + 1 \in 1..Len(gs)
    BY SMTT(60), <1>2, <1>8
  <2>2. PlaceOf(fs, i + 1, q) = gs[i + 1].at
    <3>1. CASE i + 1 \in 1..Len(fs) /\ gs[i + 1] = fs[i + 1]
      <4>1. i + 1 <= Len(fs)
        BY <3>1, <1>2
      <4> QED BY ZenonT(60), <3>1, <4>1 DEF PlaceOf
    <3>2. CASE i + 1 = Len(fs) + 1 /\ gs[i + 1] = g
      <4>1. ~(i + 1 <= Len(fs))
        BY <3>2, <1>2
      <4> QED BY ZenonT(60), <1>0, <3>2, <4>1 DEF PlaceOf
    <3> QED BY Zenon, <1>3, <2>1, <3>1, <3>2
  <2> QED BY Zenon, <2>1, <2>2 DEF Chained
<1>9. gs[Len(gs)].at = q
  BY ZenonT(60), <1>0, <1>2
<1>10. Len(gs) \in Nat \ {0}
  BY <1>2
<1> QED BY Zenon, <1>2, <1>4, <1>5, <1>6, <1>7, <1>8, <1>9, <1>10 DEF Complete, Linked

(* A step that ends the current token and begins the next at q.            *)
LEMMA NextToken ==
    ASSUME NEW cs \in Seq(Chunk), NEW ds \in Seq(Chunk), NEW gs \in Seq(Field), NEW o \in Nat, NEW q,
           Len(gs) \in Nat \ {0}, Kept(cs, gs), Behind(cs, gs, o), Grows(cs, ds, o), Linked(cs, gs),
           Follows(ds, gs[Len(gs)].at, q)
    PROVE  Kept(ds, gs) /\ Chained(ds, gs, q)
<1>1. Kept(ds, gs)
  <2> SUFFICES ASSUME NEW i \in 1..Len(gs)
               PROVE  gs[i].at[1] \in 1..Len(ds) /\ Holds(ds[gs[i].at[1]], gs[i].at[2], gs[i].text)
    BY Zenon DEF Kept
  <2> QED BY Zenon, OldToken
<1>2. ASSUME NEW i \in 1..Len(gs) PROVE Follows(ds, gs[i].at, PlaceOf(gs, i + 1, q))
  <2>1. CASE i # Len(gs)
    <3>1. i + 1 <= Len(gs)
      BY <2>1
    <3>2. PlaceOf(gs, i + 1, q) = gs[i + 1].at
      BY Zenon, <3>1 DEF PlaceOf
    <3> QED BY Zenon, <2>1, <3>2, OldChain DEF Linked
  <2>2. CASE i = Len(gs)
    <3>1. ~(i + 1 <= Len(gs))
      BY <2>2
    <3>2. PlaceOf(gs, i + 1, q) = q
      BY Zenon, <3>1 DEF PlaceOf
    <3> QED BY Zenon, <2>2, <3>2
  <2> QED BY Zenon, <2>1, <2>2
<1>3. PlaceOf(gs, 1, q) = <<1, 0>>
  <2>1. 1 <= Len(gs)
    OBVIOUS
  <2> QED BY Zenon, <2>1 DEF PlaceOf, Linked
<1> QED BY Zenon, <1>1, <1>2, <1>3 DEF Chained

(* field_next().                                                           *)
LEMMA FieldNextKeeps == BufferInv /\ FieldNext => BufferInv'
<1> SUFFICES ASSUME BufferInv, FieldNext PROVE BufferInv'
  OBVIOUS
<1> DEFINE cs == chunks
           tail == Len(cs)
           c == cs[tail]
           len == c.lens[cur]
           next == After(c, cur)
           pad == len % 2
           gs == fields'
<1>0. /\ phase = "print" /\ chunks # << >> /\ UNCHANGED <<phase, token, rendered, pieces>> /\ pending' = << >>
      /\ gs = Append(fields, [text |-> pending, at |-> <<tail, cur>>])
  BY Zenon DEF FieldNext
<1>1. /\ cs \in Seq(Chunk) /\ tail \in Nat /\ tail >= 1
      /\ Kept(cs, fields) /\ Behind(cs, fields, cur) /\ Chained(cs, fields, <<tail, cur>>)
      /\ Holds(c, cur, pending) /\ c.end = TextEnd(c, cur) /\ Spare(c, cur)
  BY Zenon, <1>0, ChainFacts
<1>2. cur \in Nat /\ pieces' \in Nat /\ pending \in Seq(Nat) /\ fields \in Seq(Field)
  BY Zenon, <1>0 DEF BufferInv, BufferType
<1>3. c \in Chunk /\ tail \in 1..Len(cs) /\ Len(cs) \in Nat \ {0}
  BY <1>1
<1>4. /\ gs \in Seq(Field) /\ Len(gs) \in Nat \ {0} /\ gs[Len(gs)].at = <<tail, cur>>
      /\ Kept(cs, gs) /\ Behind(cs, gs, next) /\ Linked(cs, gs)
      /\ next \in Nat /\ next > cur
  <2>1. gs = Append(fields, [text |-> pending, at |-> <<Len(cs), cur>>])
    BY Zenon, <1>0
  <2> HIDE DEF gs, cs
  <2>2. Complete(cs, cur, gs)
    BY Zenon, <2>1, <1>1, <1>2, <1>3, WithCurrent
  <2> QED BY Zenon, <2>2 DEF Complete
<1>5. len \in Nat /\ c.end = cur + 2 + len /\ pad \in 0..1 /\ next = cur + 2 + Align(len) /\ Align(len) = len + pad
  <2>1. len \in Nat /\ c.end = cur + 2 + len /\ next = cur + 2 + Align(len)
    BY Zenon, <1>1 DEF Holds, TextEnd, After, Descriptor
  <2> QED BY Zenon, <2>1, AlignFacts
<1>6. IF ChunkBytes - c.end - pad \in 0..(2 - 1)
      THEN chunks' = Append([chunks EXCEPT ![tail].end = @ + pad], buf_chunk_new) /\ cur' = 0
      ELSE chunks' = [chunks EXCEPT ![tail] = NewToken(@, next)] /\ cur' = next
  BY Zenon DEF FieldNext, field_flush, LastChunk, buf_chunk_avail, Descriptor
<1>8. After(c, cur) = next /\ ChunkBytes \in Nat
  BY Zenon, BufferAssumption
<1>a. c.lens \in [Offsets -> Nat \cup {NoLen}] /\ c.text \in [Offsets -> Nat] /\ c.end \in Nat
  BY Zenon, <1>3 DEF Chunk
<1>b. c.end + pad = next
  <2>1. \A x, y, z \in Nat : (x + 2 + y) + z = x + 2 + (y + z)
    OBVIOUS
  <2>2. pad \in Nat
    BY <1>5
  <2> HIDE DEF len, pad, next, c
  <2>3. (cur + 2 + len) + pad = cur + 2 + (len + pad)
    BY Zenon, <1>2, <1>5, <2>1, <2>2
  <2> QED BY Zenon, <1>5, <2>3
<1>9. CASE ChunkBytes - c.end - pad \in 0..(2 - 1)
  <2> DEFINE d == [c EXCEPT !.end = next]
             es == [cs EXCEPT ![tail] = d]
  <2>0. chunks' = Append(es, buf_chunk_new) /\ cur' = 0
    <3>1. chunks' = Append([chunks EXCEPT ![tail].end = @ + pad], buf_chunk_new) /\ cur' = 0
      BY Zenon, <1>6, <1>9
    <3>2. [chunks EXCEPT ![tail].end = @ + pad] = es
      BY Zenon, <1>b
    <3> QED BY Zenon, <3>1, <3>2
  <2>1. d \in Chunk /\ d.end = next /\ d.lens = c.lens /\ d.text = c.text
    <3> HIDE DEF next, c
    <3> QED BY Zenon, <1>3, <1>4 DEF Chunk
  <2> HIDE DEF d, next
  <2>2. /\ chunks' \in Seq(Chunk) /\ Len(chunks') = tail + 1 /\ chunks'[tail] = d /\ chunks'[tail + 1] = buf_chunk_new
        /\ \A k \in 1..tail : k # tail => chunks'[k] = cs[k]
    <3> HIDE DEF c
    <3>1. es \in Seq(Chunk) /\ Len(es) = tail /\ es[tail] = d /\ \A k \in 1..tail : k # tail => es[k] = cs[k]
      BY <1>1, <1>3, <2>1
    <3> HIDE DEF es
    <3>2. /\ Append(es, buf_chunk_new) \in Seq(Chunk) /\ Len(Append(es, buf_chunk_new)) = Len(es) + 1
          /\ \A k \in 1..Len(es) : Append(es, buf_chunk_new)[k] = es[k]
          /\ Append(es, buf_chunk_new)[Len(es) + 1] = buf_chunk_new
      BY Zenon, <3>1, NewChunkFacts, AppendChunk
    <3> QED BY Zenon, <1>3, <2>0, <3>1, <3>2
  <2>3. Len(chunks') >= Len(cs) /\ Len(chunks') >= 1 /\ tail < Len(chunks') /\ d.end >= next /\ cur' \in Nat
    BY <1>1, <1>4, <2>0, <2>1, <2>2
  <2>4. Grows(cs, chunks', next)
    BY Zenon, <2>1, <2>2, <2>3 DEF Grows, SameBelow
  <2>5. Follows(chunks', <<tail, cur>>, <<tail + 1, 0>>)
    <3>1. After(d, cur) = d.end
      BY Zenon, <1>8, <2>1 DEF After
    <3>2. <<tail, cur>>[1] = tail /\ <<tail, cur>>[2] = cur
      OBVIOUS
    <3> QED BY Zenon, <2>2, <2>3, <3>1, <3>2 DEF Follows
  <2>6. Kept(chunks', gs) /\ Chained(chunks', gs, <<tail + 1, 0>>)
    <3>1. Follows(chunks', gs[Len(gs)].at, <<tail + 1, 0>>)
      BY ZenonT(60), <1>4, <2>5
    <3> HIDE DEF gs, cs
    <3> QED BY ZenonT(60), <1>1, <1>4, <2>2, <2>4, <3>1, NextToken
  <2>7. Behind(chunks', gs, 0)
    <3> SUFFICES ASSUME NEW i \in 1..Len(gs), gs[i].at[1] = Len(chunks') PROVE FALSE
      BY Zenon DEF Behind
    <3>1. gs[i].at[1] \in 1..tail
      BY Zenon, <1>4 DEF Kept
    <3> QED BY <3>1, <1>1, <2>2
  <2>8. << >> \in Seq(Nat)
    OBVIOUS
  <2> QED BY Zenon, <1>0, <1>2, <1>4, <2>0, <2>2, <2>3, <2>6, <2>7, <2>8, NewChunkFacts, FromPrint
<1>10. CASE ~(ChunkBytes - c.end - pad \in 0..(2 - 1))
  <2> DEFINE d == NewToken(c, next)
  <2>0. chunks' = [cs EXCEPT ![tail] = d] /\ cur' = next
    BY ZenonT(60), <1>6, <1>10
  <2>1. next + 2 <= ChunkBytes /\ next \in Offsets
    <3> HIDE DEF len, pad, next
    <3>1. pad \in Nat
      BY <1>5
    <3>2. next + 2 <= ChunkBytes
      <4> DEFINE e == c.end
      <4>1. ~(ChunkBytes - e - pad \in 0..(2 - 1)) /\ e \in Nat /\ e + pad = next /\ ChunkBytes \in Nat
        BY Zenon, <1>10, <1>8, <1>a, <1>b
      <4>2. e <= ChunkBytes /\ (e < ChunkBytes \/ pad = 0)
        <5>1. len = 0 => pad = 0
          BY DEF pad
        <5> QED BY Zenon, <1>1, <5>1 DEF Holds, Spare, len
      <4> HIDE DEF e
      <4> QED BY SMTT(60), <4>1, <4>2, <1>5
    <3> QED BY <3>2, <1>4, <1>8 DEF Offsets
  <2>2. /\ d \in Chunk /\ d.end = next + 2 /\ d.lens[next] = 0 /\ d.text = c.text
        /\ \A p \in Offsets : p # next => d.lens[p] = c.lens[p]
    <3> HIDE DEF next, c
    <3>1. [c.lens EXCEPT ![next] = 0] \in [Offsets -> Nat \cup {NoLen}] /\ next + 2 \in Nat
      BY SMTT(60), <1>a, <1>4, <2>1
    <3>2. d = [c EXCEPT !.lens = [c.lens EXCEPT ![next] = 0], !.end = next + 2]
      BY Zenon DEF NewToken, Descriptor
    <3> QED BY ZenonT(60), <1>3, <1>a, <2>1, <3>1, <3>2 DEF Chunk
  <2> HIDE DEF d, next
  <2>3. /\ chunks' \in Seq(Chunk) /\ Len(chunks') = tail /\ chunks'[tail] = d
        /\ \A k \in 1..tail : k # tail => chunks'[k] = cs[k]
    <3> HIDE DEF c
    <3> QED BY SMTT(60), <1>1, <1>3, <2>0, <2>2
  <2>4. Len(chunks') >= Len(cs) /\ Len(chunks') >= 1 /\ d.end >= next /\ d.end # next
    BY <1>1, <1>4, <2>2, <2>3
  <2>5. Grows(cs, chunks', next)
    <3>1. \A p \in Offsets : p < next => p # next
      BY <1>4, <1>8 DEF Offsets
    <3> QED BY ZenonT(60), <2>2, <2>3, <2>4, <3>1 DEF Grows, SameBelow
  <2>6. Follows(chunks', <<tail, cur>>, <<tail, next>>)
    <3>1. cur \in Offsets /\ cur # next
      BY <1>1, <1>2, <1>4 DEF Holds
    <3>2. After(d, cur) = next
      BY Zenon, <1>8, <2>2, <3>1 DEF After
    <3>3. <<tail, cur>>[1] = tail /\ <<tail, cur>>[2] = cur
      OBVIOUS
    <3> QED BY ZenonT(60), <2>3, <2>4, <3>2, <3>3 DEF Follows
  <2>7. Kept(chunks', gs) /\ Chained(chunks', gs, <<tail, next>>)
    <3>1. Follows(chunks', gs[Len(gs)].at, <<tail, next>>)
      BY Zenon, <1>4, <2>6
    <3> HIDE DEF gs, cs
    <3> QED BY ZenonT(60), <1>1, <1>4, <2>3, <2>5, <3>1, NextToken
  <2>8. Behind(chunks', gs, next)
    <3> SUFFICES ASSUME NEW i \in 1..Len(gs), gs[i].at[1] = Len(chunks') PROVE After(d, gs[i].at[2]) <= next
      BY Zenon, <2>3 DEF Behind
    <3>1. After(chunks'[gs[i].at[1]], gs[i].at[2]) = After(cs[gs[i].at[1]], gs[i].at[2])
      BY ZenonT(60), <1>1, <1>4, <2>3, <2>5, OldToken
    <3>2. After(cs[gs[i].at[1]], gs[i].at[2]) <= next
      BY Zenon, <1>4, <2>3 DEF Behind
    <3> QED BY Zenon, <2>3, <3>1, <3>2
  <2>9. Holds(d, next, << >>) /\ d.end = TextEnd(d, next) /\ Spare(d, next)
    <3>1. TextEnd(d, next) = next + 2
      BY <1>4, <2>2 DEF TextEnd, Descriptor
    <3>2. 0 <= MaxField /\ Len(<< >>) = 0 /\ 1..0 = {}
      BY BufferAssumption
    <3>3. Holds(d, next, << >>)
      BY <2>1, <2>2, <3>1, <3>2 DEF Holds
    <3> QED BY Zenon, <2>2, <3>1, <3>3 DEF Spare
  <2>10. << >> \in Seq(Nat)
    OBVIOUS
  <2> QED BY ZenonT(60), <1>0, <1>2, <1>4, <2>0, <2>3, <2>4, <2>7, <2>8, <2>9, <2>10, FromPrint
<1> QED BY Zenon, <1>9, <1>10

(* render() up to its first token.                                         *)
LEMMA RenderKeeps == BufferInv /\ render => BufferInv'
<1> SUFFICES ASSUME BufferInv, render PROVE BufferInv'
  OBVIOUS
<1> DEFINE cs == chunks
           tail == Len(cs)
           c == cs[tail]
           len == c.lens[cur]
           next == After(c, cur)
           pad == len % 2
           d == [c EXCEPT !.end = next]
<1>0. /\ phase = "print" /\ chunks # << >> /\ phase' = "render"
      /\ chunks' = [chunks EXCEPT ![tail].end = @ + pad]
      /\ UNCHANGED <<cur, token, rendered, pieces, pending, fields>>
  BY Zenon DEF render, LastChunk
<1>1. /\ cs \in Seq(Chunk) /\ tail \in Nat /\ tail >= 1
      /\ Kept(cs, fields) /\ Behind(cs, fields, cur) /\ Chained(cs, fields, <<tail, cur>>)
      /\ Holds(c, cur, pending) /\ c.end = TextEnd(c, cur)
  BY Zenon, <1>0, ChainFacts
<1>2. cur \in Nat /\ pieces \in Nat /\ pending \in Seq(Nat) /\ fields \in Seq(Field)
  BY Zenon, <1>0 DEF BufferInv, BufferType
<1>3. c \in Chunk /\ tail \in 1..Len(cs)
  BY <1>1
<1>4. len \in Nat /\ c.end = cur + 2 + len /\ pad \in 0..1 /\ next = cur + 2 + Align(len) /\ Align(len) = len + pad
  <2>1. len \in Nat /\ c.end = cur + 2 + len /\ next = cur + 2 + Align(len)
    BY Zenon, <1>1 DEF Holds, TextEnd, After, Descriptor
  <2> QED BY Zenon, <2>1, AlignFacts
<1>5. c.end + pad = next /\ next \in Nat /\ next > cur /\ next >= cur
  <2> HIDE DEF len, pad, next
  <2> QED BY <1>2, <1>4
<1>6. chunks' = [cs EXCEPT ![tail] = d]
  BY Zenon, <1>0, <1>5
<1>7. d \in Chunk /\ d.end = next /\ d.lens = c.lens /\ d.text = c.text
  <2> HIDE DEF next, c
  <2> QED BY Zenon, <1>3, <1>5 DEF Chunk
<1> HIDE DEF d
<1>8. /\ chunks' \in Seq(Chunk) /\ Len(chunks') = tail /\ chunks'[tail] = d
      /\ \A k \in 1..tail : k # tail => chunks'[k] = cs[k]
  <2> HIDE DEF c, next
  <2> QED BY <1>1, <1>3, <1>6, <1>7
<1>9. Grows(cs, chunks', cur)
  <2>1. Len(chunks') >= Len(cs)
    BY <1>1, <1>8
  <2> QED BY ZenonT(60), <1>5, <1>7, <1>8, <2>1 DEF Grows, SameBelow
<1>10. Kept(chunks', fields) /\ Behind(chunks', fields, cur) /\ Chained(chunks', fields, <<tail, cur>>)
  <2>1. chunks'[Len(cs)].end > cur
    BY Zenon, <1>5, <1>7, <1>8
  <2> QED BY Zenon, <1>1, <1>2, <1>8, <1>9, <2>1, SameToken
<1>11. Holds(d, cur, pending) /\ d.end = After(d, cur)
  BY Zenon, <1>1, <1>7 DEF Holds, After, TextEnd
<1>12. BufferType'
  BY Zenon, <1>0, <1>8 DEF BufferInv, BufferType
<1>13. Stored'
  <2>1. phase' # "print"
    BY Zenon, <1>0
  <2> QED BY Zenon, <1>0, <1>8, <1>10, <1>11, <2>1 DEF Stored, Current, LastChunk
<1>14. rendered = << >> /\ token = <<1, 0>> /\ Len(rendered) = 0
  <2>1. rendered = << >> /\ token = <<1, 0>>
    BY Zenon, <1>0 DEF BufferInv, Walk
  <2> QED BY Zenon, <2>1
<1>15. Walk'
  <2>1. phase' # "print" /\ Len(rendered') = 0 /\ 0 <= Len(fields') /\ 0 + 1 = 1
    BY <1>0, <1>2, <1>14, LenProperties
  <2>2. token' = PlaceOf(fields', 1, Current')
    BY Zenon, <1>0, <1>1, <1>8, <1>14 DEF Current, Chained
  <2> QED BY Zenon, <2>1, <2>2 DEF Walk
<1>16. SsFieldsKept'
  BY <1>0, <1>14 DEF SsFieldsKept
<1>17. chunks' # << >>
  BY <1>1, <1>8
<1> QED BY Zenon, <1>12, <1>13, <1>15, <1>16, <1>17 DEF BufferInv

(* The token of every field is in its place.                               *)
LEMMA TokenOf ==
    ASSUME BufferInv, chunks # << >>, NEW i \in 1..(Len(fields) + 1), NEW p, p = PlaceOf(fields, i, Current)
    PROVE  /\ p[1] \in 1..Len(chunks) /\ chunks[p[1]] \in Chunk /\ Printed(i) \in Seq(Nat)
           /\ Holds(chunks[p[1]], p[2], Printed(i))
<1>0. /\ chunks \in Seq(Chunk) /\ fields \in Seq(Field) /\ pending \in Seq(Nat)
      /\ Kept(chunks, fields) /\ Holds(LastChunk, cur, pending) /\ Len(fields) \in Nat
  BY Zenon, LenProperties DEF BufferInv, BufferType, Stored
<1>1. CASE i <= Len(fields)
  <2>1. i \in 1..Len(fields) /\ p = fields[i].at /\ Printed(i) = fields[i].text
    BY <1>0, <1>1 DEF PlaceOf, Printed
  <2>2. p[1] \in 1..Len(chunks) /\ Holds(chunks[p[1]], p[2], Printed(i))
    BY Zenon, <1>0, <2>1 DEF Kept
  <2>3. fields[i] \in Field
    BY <1>0, <2>1
  <2>4. Printed(i) \in Seq(Nat)
    BY Zenon, <2>1, <2>3 DEF Field
  <2>5. chunks[p[1]] \in Chunk
    BY SMTT(60), <1>0, <2>2
  <2> QED BY Zenon, <2>2, <2>4, <2>5
<1>2. CASE ~(i <= Len(fields))
  <2>1. p = Current /\ Printed(i) = pending
    BY Zenon, <1>2 DEF PlaceOf, Printed
  <2>2. p[1] = Len(chunks) /\ p[2] = cur
    BY <2>1 DEF Current
  <2>3. Len(chunks) \in 1..Len(chunks)
    BY <1>0, EmptySeq, LenProperties
  <2>4. chunks[Len(chunks)] \in Chunk
    BY <1>0, <2>3
  <2> QED BY Zenon, <1>0, <2>1, <2>2, <2>3, <2>4 DEF LastChunk
<1> QED BY Zenon, <1>1, <1>2

(* What is rendered is what the token holds.                               *)
LEMMA Rendering ==
    ASSUME NEW c \in Chunk, NEW o, NEW f \in Seq(Nat), Holds(c, o, f),
           NEW r, r = TokenText(c, o)
    PROVE  /\ r \in Seq(Nat) /\ Len(r) <= MaxField
           /\ Short(f) => r = f
<1> DEFINE len == c.lens[o]
<1>0. /\ o \in Offsets /\ o \in Nat /\ len \in Nat /\ ChunkBytes \in Nat /\ o + 2 + len <= ChunkBytes
      /\ len <= MaxField /\ Len(f) \in Nat /\ c.text \in [Offsets -> Nat]
  BY SMTT(60), BufferAssumption DEF Holds, Offsets, TextEnd, Descriptor, Chunk
<1>1. r = [i \in 1..len |-> c.text[o + 2 + i - 1]]
  BY Zenon DEF TokenText, Descriptor
<1>2. Short(f) => len = Len(f) /\ \A j \in 1..Len(f) : c.text[o + 1 + j] = f[j]
  BY Zenon DEF Holds
<1> HIDE DEF len
<1>3. ASSUME NEW i \in 1..len PROVE o + 2 + i - 1 \in Offsets /\ o + 2 + i - 1 = o + 1 + i
  BY <1>0 DEF Offsets
<1>4. \A i \in 1..len : c.text[o + 2 + i - 1] \in Nat
  BY Zenon, <1>0, <1>3
<1>5. r \in Seq(Nat) /\ Len(r) = len
  <2>1. r \in [1..len -> Nat]
    BY Zenon, <1>1, <1>4
  <2>2. \A m \in Nat : \A s \in [1..m -> Nat] : s \in Seq(Nat) /\ Len(s) = m
    OBVIOUS
  <2> QED BY Zenon, <1>0, <2>1, <2>2
<1>6. len <= ChunkBytes - 2
  BY <1>0
<1>7. ASSUME Short(f) PROVE r = f
  <2>1. \A i \in 1..len : r[i] = f[i]
    BY Zenon, <1>1, <1>2, <1>3, <1>7
  <2>2. Len(r) = Len(f)
    BY Zenon, <1>2, <1>5, <1>7
  <2> QED BY Zenon, <1>5, <2>1, <2>2, SeqEqual
<1> QED BY ZenonT(60), <1>0, <1>5, <1>6, <1>7 DEF Descriptor

(* render() and buf_token_next(): the token to render is that of the next  *)
(* field.                                                                  *)
LEMMA TokenNextKeeps == BufferInv /\ buf_token_next => BufferInv'
<1> SUFFICES ASSUME BufferInv, buf_token_next PROVE BufferInv'
  OBVIOUS
<1> DEFINE c == chunks[token[1]]
           o == token[2]
           next == After(c, o)
           r == TokenText(c, o)
           n == Len(rendered)
<1>0. /\ phase = "render" /\ rendered' = Append(rendered, r)
      /\ \/ /\ next # c.end
            /\ phase' = IF next \in Offsets /\ c.lens[next] # NoLen THEN "render" ELSE "astray"
            /\ token' = <<token[1], next>>
         \/ next = c.end /\ token[1] < Len(chunks) /\ token' = <<token[1] + 1, 0>> /\ phase' = phase
         \/ next = c.end /\ token[1] = Len(chunks) /\ phase' = "done" /\ token' = token
      /\ UNCHANGED <<chunks, cur, pieces, pending, fields>>
  BY Zenon DEF buf_token_next
<1>1. chunks # << >> /\ Stored /\ BufferType /\ SsFieldsKept
  <2>1. phase # "print"
    BY Zenon, <1>0
  <2> QED BY Zenon, <2>1 DEF BufferInv
<1>2. /\ rendered \in Seq(Seq(Nat)) /\ n \in Nat /\ Len(fields) \in Nat /\ n <= Len(fields) /\ Len(chunks) \in Nat
      /\ token = PlaceOf(fields, n + 1, Current)
  BY Zenon, <1>0, <1>1, LenProperties DEF BufferInv, BufferType, Walk
<1>3. n + 1 \in 1..(Len(fields) + 1) /\ n + 1 \in Nat
  BY <1>2
<1>4. /\ token[1] \in 1..Len(chunks) /\ c \in Chunk /\ Printed(n + 1) \in Seq(Nat)
      /\ Holds(c, o, Printed(n + 1))
  BY ZenonT(60), <1>1, <1>2, <1>3, TokenOf
<1>5. /\ r \in Seq(Nat) /\ Len(r) <= MaxField
      /\ Short(Printed(n + 1)) => r = Printed(n + 1)
  <2>1. r = TokenText(c, o)
    OBVIOUS
  <2> HIDE DEF r, c, o
  <2>2. c \in Chunk /\ Printed(n + 1) \in Seq(Nat) /\ Holds(c, o, Printed(n + 1))
    BY ZenonT(60), <1>4
  <2> QED BY SMT, <2>1, <2>2, Rendering
<1> HIDE DEF r
<1>6. /\ rendered' \in Seq(Seq(Nat)) /\ Len(rendered') = n + 1 /\ rendered'[n + 1] = r
      /\ \A i \in 1..n : rendered'[i] = rendered[i]
  BY <1>0, <1>2, <1>5, AppendProperties
<1>7. /\ Stored' /\ chunks' # << >>
      /\ \A i : PlaceOf(fields', i, Current') = PlaceOf(fields, i, Current)
  <2>1. phase # "print" /\ phase' # "print"
    BY Zenon, <1>0
  <2>2. chunks' # << >> /\ Current' = Current /\ fields' = fields
    BY Zenon, <1>0, <1>1 DEF Current
  <2>3. Stored'
    <3>1. LastChunk' = LastChunk
      BY Zenon, <1>0 DEF LastChunk
    <3> QED BY ZenonT(60), <1>0, <1>1, <2>1, <2>2, <3>1 DEF Stored
  <2> QED BY Zenon, <2>2, <2>3
<1>8. \A i \in 1..Len(rendered') :
        /\ i <= Len(fields') + 1
        /\ Len(rendered'[i]) <= MaxField
        /\ Len(Printed(i)') <= MaxField => rendered'[i] = Printed(i)'
  <2> SUFFICES ASSUME NEW i \in 1..Len(rendered')
               PROVE  /\ i <= Len(fields') + 1
                      /\ Len(rendered'[i]) <= MaxField
                      /\ Len(Printed(i)') <= MaxField
                           => rendered'[i] = Printed(i)'
    OBVIOUS
  <2>0. Printed(i)' = Printed(i) /\ fields' = fields
    BY Zenon, <1>0 DEF Printed
  <2>1. CASE i \in 1..n
    BY Zenon, <1>1, <1>6, <2>0, <2>1 DEF SsFieldsKept
  <2>2. CASE i = n + 1
    <3>1. i <= Len(fields) + 1
      BY <1>2, <2>2
    <3> QED BY ZenonT(60), <1>5, <1>6, <2>0, <2>2, <3>1 DEF Short
  <2>3. i \in 1..n \/ i = n + 1
    BY <1>2, <1>6
  <2> QED BY Zenon, <2>1, <2>2, <2>3
<1>9. CASE n + 1 <= Len(fields)
  <2> DEFINE q == PlaceOf(fields, n + 2, Current)
             k == token[1]
  <2>0. n + 1 \in 1..Len(fields) /\ n + 2 \in 1..(Len(fields) + 1) /\ (n + 1) + 1 = n + 2 /\ Len(rendered') <= Len(fields)
    BY <1>2, <1>6, <1>9
  <2>1. token = fields[n + 1].at
    BY Zenon, <1>2, <1>9 DEF PlaceOf
  <2>2. Follows(chunks, token, q)
    BY Zenon, <1>1, <2>0, <2>1 DEF Stored, Chained
  <2>3. q[1] \in 1..Len(chunks) /\ Holds(chunks[q[1]], q[2], Printed(n + 2))
    BY Zenon, <1>1, <2>0, TokenOf
  <2>4. phase' = "render" /\ token' = q
    <3>1. CASE next # c.end /\ q = <<k, next>>
      <4>1. q[1] = k /\ q[2] = next
        BY <3>1
      <4>2. next \in Offsets /\ c.lens[next] \in Nat
        BY ZenonT(60), <2>3, <4>1 DEF Holds
      <4>3. c.lens[next] # NoLen
        BY <4>2 DEF NoLen
      <4> QED BY ZenonT(60), <1>0, <3>1, <4>2, <4>3
    <3>2. CASE next = c.end /\ k < Len(chunks) /\ q = <<k + 1, 0>>
      <4>1. k # Len(chunks)
        BY <1>2, <3>2
      <4> QED BY ZenonT(60), <1>0, <3>2, <4>1
    <3> QED BY Zenon, <2>2, <3>1, <3>2 DEF Follows
  <2>5. token' \in Place
    <3>1. Place = (Nat \ {0}) \X Nat /\ token \in Place
      BY Zenon, <1>1 DEF BufferType, Place
    <3>2. q = <<k, next>> \/ q = <<k + 1, 0>>
      BY Zenon, <2>2 DEF Follows
    <3>3. q = <<k, next>> => next \in Nat
      <4> SUFFICES ASSUME q = <<k, next>> PROVE next \in Nat
        OBVIOUS
      <4>1. q[2] = next
        OBVIOUS
      <4>2. next \in Offsets
        BY ZenonT(60), <2>3, <4>1 DEF Holds
      <4> HIDE DEF next
      <4> QED BY SMTT(60), <4>2, BufferAssumption DEF Offsets
    <3>4. k \in Nat \ {0} /\ k + 1 \in Nat \ {0}
      BY SMTT(60), <1>2, <1>4
    <3> HIDE DEF q, k, next
    <3> QED BY <2>4, <3>2, <3>3, <3>4 DEF Place
  <2>6. BufferType'
    BY Zenon, <1>0, <1>1, <1>6, <2>4, <2>5 DEF BufferType
  <2>7. Walk'
    <3>1. phase' # "print" /\ Len(rendered') + 1 = n + 2
      BY <1>2, <1>6, <2>4
    <3> QED BY ZenonT(60), <1>0, <1>7, <2>0, <2>4, <3>1 DEF Walk
  <2>8. SsFieldsKept'
    <3>1. phase' # "astray" /\ phase' # "done"
      BY ZenonT(60), <2>4
    <3> QED BY Zenon, <1>8, <3>1 DEF SsFieldsKept
  <2> QED BY ZenonT(60), <1>7, <2>6, <2>7, <2>8 DEF BufferInv
<1>10. CASE ~(n + 1 <= Len(fields))
  <2>1. token = Current /\ n = Len(fields)
    <3>1. token = Current
      BY Zenon, <1>2, <1>10 DEF PlaceOf
    <3> QED BY <3>1, <1>2, <1>10
  <2>2. token[1] = Len(chunks) /\ token[2] = cur
    BY Zenon, <2>1 DEF Current
  <2>3. next = c.end
    <3>1. phase # "print"
      BY Zenon, <1>0
    <3> QED BY Zenon, <1>1, <2>2, <3>1 DEF Stored, LastChunk
  <2>4. phase' = "done" /\ token' = token
    <3>1. ~(token[1] < Len(chunks))
      BY <1>2, <2>2
    <3> QED BY Zenon, <1>0, <2>3, <3>1
  <2>5. BufferType'
    BY Zenon, <1>0, <1>1, <1>6, <2>4 DEF BufferType
  <2>6. Walk'
    BY Zenon, <2>4 DEF Walk
  <2>7. SsFieldsKept'
    <3>1. phase' # "astray" /\ Len(rendered') = Len(fields') + 1
      BY Zenon, <1>0, <1>6, <2>1, <2>4
    <3> QED BY Zenon, <1>8, <3>1 DEF SsFieldsKept
  <2> QED BY Zenon, <1>7, <2>5, <2>6, <2>7 DEF BufferInv
<1> QED BY Zenon, <1>9, <1>10

(* The buffer's inductive invariant: the places of the tokens of the       *)
(* fields lead from one to the next, each token holds its field, and the   *)
(* walk of render() is at the token of the next field.                     *)
THEOREM BufferInvariance == BufferSpec => []BufferInv
<1>1. BufferInit => BufferInv
  <2> SUFFICES ASSUME BufferInit PROVE BufferInv
    OBVIOUS
  <2>1. BufferType
    BY DEF BufferInit, BufferType, Place
  <2>2. Walk /\ SsFieldsKept
    BY DEF BufferInit, Walk, SsFieldsKept
  <2> QED BY Zenon, <2>1, <2>2 DEF BufferInv, BufferInit
<1>3. buf_free_all => BufferInit'
  BY Zenon DEF buf_free_all, BufferInit
<1>4. BufferInit' => BufferInv'
  BY <1>1, PTL
<1>2. BufferInv /\ [BufferNext]_bufferVars => BufferInv'
  <2> SUFFICES ASSUME BufferInv, UNCHANGED bufferVars PROVE BufferInv'
    BY Zenon, <1>3, <1>4, OutKeeps, FieldNextKeeps, RenderKeeps, TokenNextKeeps DEF BufferNext
  <2> QED BY Zenon DEF bufferVars, BufferInv, BufferType, Stored, Walk, SsFieldsKept, LastChunk, Current, Printed
<1> QED BY <1>1, <1>2, PTL DEF BufferSpec

(* Every field ss prints comes out of the buffer as it was printed, in its *)
(* order, wherever the chunks end (misc/ss.c, out() to render()): for      *)
(* chunks of any size, any longest token and fields of any length; only a  *)
(* field longer than the longest token is cut.                             *)
THEOREM SsFieldsKeptHolds == BufferSpec => []SsFieldsKept
BY BufferInvariance, PTL DEF BufferInv

=============================================================================
