----------------------------- MODULE FlushLemmas -----------------------------
(***************************************************************************)
(* What the proofs about Flush rest on: what deleting and sending do to a  *)
(* table and to the queue of the socket, for any table, and the types of   *)
(* every step.                                                             *)
(***************************************************************************)
EXTENDS Flush, SequenceTheorems, FiniteSetTheorems, WellFoundedInduction, TLAPS

(* The least number with a property, which stands in for an induction.     *)
LEMMA Smallest ==
    ASSUME NEW T \in SUBSET Nat, T # {}
    PROVE  \E x \in T : \A y \in T : x <= y
<1>1. PICK x \in T : \A y \in T : ~(<<y, x>> \in OpToRel(<, Nat))
  BY Zenon, NatLessThanWellFounded, WFMin
<1>2. ASSUME NEW y \in T PROVE x <= y
  <2>1. <<y, x>> \notin OpToRel(<, Nat)
    BY Zenon, <1>1
  <2>2. ~(y < x)
    BY Zenon, <2>1 DEF OpToRel
  <2> QED BY <2>2
<1> QED BY Zenon, <1>2

(* The prefixes of a table that Keep has been through                      *)
KeepStep(f, t, E, n) == IF n = 0 THEN << >>
                        ELSE IF t[n] \in E THEN Append(f[n - 1], t[n])
                        ELSE f[n - 1]

LEMMA KeepDefined ==
    ASSUME NEW S, NEW t \in Seq(S), NEW E
    PROVE  \E f : f = [n \in 0..Len(t) |-> KeepStep(f, t, E, n)]
<1> DEFINE Def(m) == \E f : f = [n \in 0..m |-> KeepStep(f, t, E, n)]
           T == {m \in Nat : ~Def(m)}
<1>0. Len(t) \in Nat
  OBVIOUS
<1>1. T = {}
  <2> SUFFICES ASSUME T # {} PROVE FALSE
    OBVIOUS
  <2>1. PICK m \in T : \A y \in T : m <= y
    BY Zenon, Smallest
  <2>2. m # 0
    <3> DEFINE f == [n \in 0..0 |-> << >>]
    <3>1. f = [n \in 0..0 |-> KeepStep(f, t, E, n)]
      BY DEF KeepStep
    <3> QED BY Zenon, <3>1
  <2>3. m - 1 \in Nat /\ m - 1 \notin T
    BY SMTT(60), <2>1, <2>2
  <2>4. PICK f : f = [n \in 0..(m - 1) |-> KeepStep(f, t, E, n)]
    BY Zenon, <2>3
  <2> DEFINE g == [n \in 0..m |-> IF n = m THEN KeepStep(f, t, E, m) ELSE f[n]]
  <2>5. ASSUME NEW n \in 0..m PROVE g[n] = KeepStep(g, t, E, n)
    <3>1. CASE n = m
      <4>1. g[m - 1] = f[m - 1]
        BY <2>1, <2>2
      <4> QED BY Zenon, <3>1, <4>1 DEF KeepStep
    <3>2. CASE n # m
      <4>1. n \in 0..(m - 1) /\ g[n] = f[n] /\ f[n] = KeepStep(f, t, E, n)
        BY SMTT(60), <3>2, <2>4
      <4>2. n # 0 => g[n - 1] = f[n - 1]
        BY <4>1
      <4> QED BY Zenon, <4>1, <4>2 DEF KeepStep
    <3> QED BY Zenon, <3>1, <3>2
  <2>6. g = [n \in 0..m |-> KeepStep(g, t, E, n)]
    BY Zenon, <2>5
  <2> QED BY Zenon, <2>1, <2>6
<1> QED BY Zenon, <1>0, <1>1

(* k holds, in their order, those of the first n entries of t that are in  *)
(* E, and nothing else.                                                    *)
KeptOf(k, t, E, n) ==
    /\ Len(k) <= n
    /\ \A i \in 1..Len(k) : \E j \in i..n : k[i] = t[j] /\ t[j] \in E
    /\ \A i1, i2 \in 1..Len(k) : i1 < i2 =>
          \E j1, j2 \in 1..n : j1 < j2 /\ k[i1] = t[j1] /\ k[i2] = t[j2]
    /\ \A p \in 1..n : t[p] \in E => \E i \in 1..Len(k) : k[i] = t[p]

LEMMA KeepFacts ==
    ASSUME NEW S, NEW t \in Seq(S), NEW E
    PROVE  Keep(t, E) \in Seq(S) /\ KeptOf(Keep(t, E), t, E, Len(t))
<1> DEFINE f == CHOOSE g : g = [n \in 0..Len(t) |-> KeepStep(g, t, E, n)]
           Good(k, n) == k \in Seq(S) /\ KeptOf(k, t, E, n)
           T == {n \in 0..Len(t) : ~Good(f[n], n)}
<1>0. Len(t) \in Nat /\ \A p \in 1..Len(t) : t[p] \in S
  BY ElementOfSeq
<1>1. f = [n \in 0..Len(t) |-> KeepStep(f, t, E, n)]
  BY SMTT(60), KeepDefined
<1>2. Keep(t, E) = f[Len(t)]
  BY Zenon DEF Keep, KeepStep
<1> HIDE DEF f, Good
<1>3. \A n \in 0..Len(t) : f[n] = KeepStep(f, t, E, n)
  BY Zenon, <1>1
<1>4. T = {}
  <2> SUFFICES ASSUME T # {} PROVE FALSE
    OBVIOUS
  <2>0. T \in SUBSET Nat
    BY <1>0
  <2>1. PICK m \in T : \A y \in T : m <= y
    BY Zenon, <2>0, Smallest
  <2>2. m \in 0..Len(t) /\ m \in Nat /\ ~Good(f[m], m)
    BY <2>1, <1>0
  <2>3. m # 0
    <3>1. CASE m = 0
      <4>1. f[m] = << >>
        BY Zenon, <2>2, <1>3, <3>1 DEF KeepStep
      <4> QED BY <2>2, <3>1, <4>1 DEF Good, KeptOf
    <3> QED BY Zenon, <3>1
  <2>4. m - 1 \in 0..Len(t) /\ m - 1 \notin T /\ m \in 1..Len(t)
    BY <2>1, <2>2, <2>3, <1>0
  <2> DEFINE k == f[m - 1]
  <2>5. Good(k, m - 1)
    BY Zenon, <2>4
  <2>6. f[m] = IF t[m] \in E THEN Append(k, t[m]) ELSE k
    BY Zenon, <1>3, <2>2, <2>3 DEF KeepStep
  <2> HIDE DEF k, T
  <2>7. k \in Seq(S) /\ Len(k) \in Nat /\ Len(k) <= m - 1
    BY <2>5 DEF Good, KeptOf
  <2>8. CASE t[m] \notin E
    <3>1. f[m] = k
      BY Zenon, <2>6, <2>8
    <3>2. \A i \in 1..Len(k) : \E j \in i..m : k[i] = t[j] /\ t[j] \in E
      <4> TAKE i \in 1..Len(k)
      <4>1. PICK j \in i..(m - 1) : k[i] = t[j] /\ t[j] \in E
        BY Zenon, <2>5 DEF Good, KeptOf
      <4>2. j \in i..m
        BY <2>2, <2>7
      <4> QED BY Zenon, <4>1, <4>2
    <3>3. \A i1, i2 \in 1..Len(k) : i1 < i2 =>
             \E j1, j2 \in 1..m : j1 < j2 /\ k[i1] = t[j1] /\ k[i2] = t[j2]
      BY <2>5, <2>2, <2>7 DEF Good, KeptOf
    <3>4. \A p \in 1..m : t[p] \in E => \E i \in 1..Len(k) : k[i] = t[p]
      <4> TAKE p \in 1..m
      <4>1. p = m \/ p \in 1..(m - 1)
        BY <2>2
      <4>2. p \in 1..(m - 1) /\ t[p] \in E => \E i \in 1..Len(k) : k[i] = t[p]
        BY Zenon, <2>5 DEF Good, KeptOf
      <4> QED BY Zenon, <4>1, <4>2, <2>8
    <3>5. Len(k) <= m
      BY <2>7, <2>2
    <3>6. Good(k, m)
      BY ZenonT(60), <3>2, <3>3, <3>4, <3>5, <2>7 DEF Good, KeptOf
    <3> QED BY Zenon, <3>1, <3>6, <2>2
  <2>9. CASE t[m] \in E
    <3> DEFINE kk == Append(k, t[m])
    <3>1. f[m] = kk /\ t[m] \in S
      BY ZenonT(60), <2>6, <2>9, <1>0, <2>4
    <3>2. /\ kk \in Seq(S) /\ Len(kk) = Len(k) + 1
          /\ \A i \in 1..Len(k) : kk[i] = k[i]
          /\ kk[Len(k) + 1] = t[m]
      BY <2>7, <3>1, AppendProperties
    <3> HIDE DEF kk
    <3>3. ASSUME NEW i \in 1..Len(kk) PROVE \E j \in i..m : kk[i] = t[j] /\ t[j] \in E
      <4>1. CASE i = Len(k) + 1
        BY <4>1, <3>2, <2>7, <2>2, <2>9
      <4>2. CASE i \in 1..Len(k)
        <5>1. PICK j \in i..(m - 1) : k[i] = t[j] /\ t[j] \in E
          BY Zenon, <4>2, <2>5 DEF Good, KeptOf
        <5>2. j \in i..m
          BY <2>2
        <5> QED BY Zenon, <5>1, <5>2, <4>2, <3>2
      <4> QED BY SMTT(60), <4>1, <4>2, <3>2, <2>7
    <3>4. ASSUME NEW i1 \in 1..Len(kk), NEW i2 \in 1..Len(kk), i1 < i2
          PROVE \E j1, j2 \in 1..m : j1 < j2 /\ kk[i1] = t[j1] /\ kk[i2] = t[j2]
      <4>0. i1 \in 1..Len(k)
        BY <3>2, <3>4, <2>7
      <4>1. CASE i2 = Len(k) + 1
        <5>1. PICK j \in i1..(m - 1) : k[i1] = t[j]
          BY ZenonT(60), <4>0, <2>5 DEF Good, KeptOf
        <5>2. j \in 1..m /\ m \in 1..m /\ j < m
          BY SMTT(60), <5>1, <4>0, <2>2, <2>3
        <5> QED BY ZenonT(60), <4>1, <4>0, <5>1, <5>2, <3>2
      <4>2. CASE i2 \in 1..Len(k)
        <5>1. PICK j1 \in 1..(m - 1), j2 \in 1..(m - 1) : j1 < j2 /\ k[i1] = t[j1] /\ k[i2] = t[j2]
          BY ZenonT(60), <4>0, <4>2, <2>5, <3>4 DEF Good, KeptOf
        <5>2. j1 \in 1..m /\ j2 \in 1..m
          BY <2>2
        <5> QED BY ZenonT(60), <4>0, <4>2, <5>1, <5>2, <3>2
      <4> QED BY SMTT(60), <4>1, <4>2, <3>2, <2>7
    <3>5. ASSUME NEW p \in 1..m, t[p] \in E PROVE \E i \in 1..Len(kk) : kk[i] = t[p]
      <4>1. CASE p = m
        BY SMTT(60), <4>1, <3>2, <2>7
      <4>2. CASE p \in 1..(m - 1)
        BY SMTT(60), <4>2, <3>5, <3>2, <2>5, <2>7 DEF Good, KeptOf
      <4> QED BY SMTT(60), <4>1, <4>2, <2>2
    <3>6. Len(kk) <= m
      BY <3>2, <2>7, <2>2
    <3>7. Good(kk, m)
      BY ZenonT(60), <3>2, <3>3, <3>4, <3>5, <3>6 DEF Good, KeptOf
    <3> QED BY Zenon, <3>1, <3>7, <2>2
  <2> QED BY Zenon, <2>8, <2>9
<1>5. Good(f[Len(t)], Len(t))
  BY <1>4, <1>0
<1> QED BY Zenon, <1>5, <1>2 DEF Good

(* The requests of a buffer are processed one by one: what holds before    *)
(* the first (K[0]) and is carried over each holds after the last.         *)
ProcessStep(f, k, b, n) == IF n = 0 THEN k ELSE Process(f[n - 1], b[n])

LEMMA ProcessDefined ==
    ASSUME NEW S, NEW b \in Seq(S), NEW k
    PROVE  \E f : f = [n \in 0..Len(b) |-> ProcessStep(f, k, b, n)]
<1> DEFINE Def(m) == \E f : f = [n \in 0..m |-> ProcessStep(f, k, b, n)]
           T == {m \in Nat : ~Def(m)}
<1>0. Len(b) \in Nat
  OBVIOUS
<1>1. T = {}
  <2> SUFFICES ASSUME T # {} PROVE FALSE
    OBVIOUS
  <2>1. PICK m \in T : \A y \in T : m <= y
    BY Zenon, Smallest
  <2>2. m # 0
    <3> DEFINE f == [n \in 0..0 |-> k]
    <3>1. f = [n \in 0..0 |-> ProcessStep(f, k, b, n)]
      BY DEF ProcessStep
    <3> QED BY Zenon, <3>1
  <2>3. m - 1 \in Nat /\ m - 1 \notin T
    BY SMTT(60), <2>1, <2>2
  <2>4. PICK f : f = [n \in 0..(m - 1) |-> ProcessStep(f, k, b, n)]
    BY Zenon, <2>3
  <2> DEFINE g == [n \in 0..m |-> IF n = m THEN Process(f[m - 1], b[m]) ELSE f[n]]
  <2>5. ASSUME NEW n \in 0..m
        PROVE  g[n] = ProcessStep(g, k, b, n)
    <3>1. CASE n = m
      <4>1. g[m - 1] = f[m - 1] /\ g[m] = Process(f[m - 1], b[m])
        BY <2>1, <2>2
      <4> QED BY Zenon, <3>1, <4>1, <2>2 DEF ProcessStep
    <3>2. CASE n # m
      <4>1. n \in 0..(m - 1) /\ g[n] = f[n]
            /\ f[n] = ProcessStep(f, k, b, n)
        BY SMTT(60), <3>2, <2>4
      <4>2. n # 0 => g[n - 1] = f[n - 1]
        BY <4>1
      <4> QED BY Zenon, <4>1, <4>2 DEF ProcessStep
    <3> QED BY Zenon, <3>1, <3>2
  <2>6. g = [n \in 0..m |-> ProcessStep(g, k, b, n)]
    BY Zenon, <2>5
  <2> QED BY Zenon, <2>1, <2>6
<1> QED BY Zenon, <1>0, <1>1

LEMMA ProcessInduction ==
    ASSUME NEW S, NEW b \in Seq(S), NEW k, NEW K,
           k \in K[0],
           \A n \in 1..Len(b) : \A j \in K[n - 1] : Process(j, b[n]) \in K[n]
    PROVE  ProcessAll(k, b) \in K[Len(b)]
<1> DEFINE f == CHOOSE g : g = [n \in 0..Len(b) |-> ProcessStep(g, k, b, n)]
           T == {n \in 0..Len(b) : f[n] \notin K[n]}
<1>0. Len(b) \in Nat
  OBVIOUS
<1>1. f = [n \in 0..Len(b) |-> ProcessStep(f, k, b, n)]
  BY SMTT(60), ProcessDefined
<1>2. ProcessAll(k, b) = f[Len(b)]
  BY Zenon DEF ProcessAll, ProcessStep
<1> HIDE DEF f
<1>3. \A n \in 0..Len(b) : f[n] = ProcessStep(f, k, b, n)
  BY Zenon, <1>1
<1>4. T = {}
  <2> SUFFICES ASSUME T # {} PROVE FALSE
    OBVIOUS
  <2>0. T \in SUBSET Nat
    BY <1>0
  <2>1. PICK m \in T : \A y \in T : m <= y
    BY Zenon, <2>0, Smallest
  <2>2. m \in 0..Len(b) /\ f[m] \notin K[m]
    BY Zenon, <2>1
  <2>3. m # 0
    BY ZenonT(60), <2>2, <1>3 DEF ProcessStep
  <2>4. m \in 1..Len(b) /\ m - 1 \in 0..Len(b) /\ m - 1 \notin T
    BY <2>1, <2>2, <2>3, <1>0
  <2>5. f[m - 1] \in K[m - 1]
    BY Zenon, <2>4
  <2> QED BY Zenon, <2>2, <2>3, <2>4, <2>5, <1>3 DEF ProcessStep
<1> QED BY <1>0, <1>2, <1>4

-----------------------------------------------------------------------------
(* Types.                                                                  *)
Entry == [o : Objs, st : {"pri", "sec", "live", "failed"}]
Msg == [type : {"chunk", "nack", "ack"}, seq : Nat, objs : Seq(Entry), done : BOOLEAN,
        err : {"none", "refused", "notavail"}]
Req == [o : Objs, seq : Nat]
System == [promote : BOOLEAN, deny : SUBSET Objs, held : SUBSET Objs]

(* The kernel deletes entries: what is left of a table.                    *)
LEMMA RangeFacts ==
    ASSUME NEW S, NEW t \in Seq(S)
    PROVE  /\ \A e : e \in Range(t) <=> \E p \in 1..Len(t) : e = t[p]
           /\ Range(t) \subseteq S
<1>1. DOMAIN t = 1..Len(t)
  BY Zenon, LenProperties
<1>2. \A p \in 1..Len(t) : t[p] \in S
  BY Zenon, ElementOfSeq
<1>3. Range(t) = {t[p] : p \in 1..Len(t)}
  BY Zenon, <1>1 DEF Range
<1> QED BY Zenon, <1>2, <1>3

LEMMA RemoveFacts ==
    ASSUME NEW t \in Seq(Entry), NEW x
    PROVE  LET r == Remove1(t, x) IN
           /\ r \in Seq(Entry)
           /\ \A i \in 1..Len(r) : \E j \in i..Len(t) : r[i] = t[j] /\ t[j].o # x
           /\ \A i1, i2 \in 1..Len(r) : i1 < i2 =>
                 \E j1, j2 \in 1..Len(t) : j1 < j2 /\ r[i1] = t[j1] /\ r[i2] = t[j2]
           /\ \A p \in 1..Len(t) : t[p].o # x => \E i \in 1..Len(r) : r[i] = t[p]
<1> DEFINE E == {e \in Range(t) : e.o # x}
           k == Keep(t, E)
<1>0. \A p \in 1..Len(t) : t[p] \in Range(t)
  BY Zenon, RangeFacts
<1>1. \A p \in 1..Len(t) : t[p] \in E <=> t[p].o # x
  BY Zenon, <1>0
<1>2. Remove1(t, x) = k
  BY Zenon DEF Remove1
<1> HIDE DEF E
<1>3. /\ k \in Seq(Entry)
      /\ \A i \in 1..Len(k) : \E j \in i..Len(t) : k[i] = t[j] /\ t[j] \in E
      /\ \A i1, i2 \in 1..Len(k) : i1 < i2 =>
            \E j1, j2 \in 1..Len(t) : j1 < j2 /\ k[i1] = t[j1] /\ k[i2] = t[j2]
      /\ \A p \in 1..Len(t) : t[p] \in E => \E i \in 1..Len(k) : k[i] = t[p]
  <2>1. k \in Seq(Entry) /\ KeptOf(k, t, E, Len(t))
    BY Zenon, KeepFacts
  <2> HIDE DEF k
  <2> QED BY Zenon, <2>1 DEF KeptOf
<1> HIDE DEF k
<1>4. ASSUME NEW i \in 1..Len(k) PROVE \E j \in i..Len(t) : k[i] = t[j] /\ t[j].o # x
  <2>1. PICK j \in i..Len(t) : k[i] = t[j] /\ t[j] \in E
    BY Zenon, <1>3
  <2>2. j \in 1..Len(t)
    OBVIOUS
  <2> QED BY Zenon, <2>1, <2>2, <1>1
<1>5. \A p \in 1..Len(t) : t[p].o # x => \E i \in 1..Len(k) : k[i] = t[p]
  BY Zenon, <1>1, <1>3
<1> QED BY Zenon, <1>3, <1>4, <1>5 DEF k, E, Remove1

LEMMA DelAddrFacts ==
    ASSUME NEW t \in Seq(Entry), NEW x
    PROVE  LET d == DelAddr(t, x) IN
           /\ d \in Seq(Entry)
           /\ \A i \in 1..Len(d) : \E p \in 1..Len(t) : t[p].o # x /\ d[i].o = t[p].o
<1> DEFINE p == CHOOSE q \in 1..Len(t) : t[q].o = x
           rest == Remove1(t, x)
           same == {e \in Range(rest) : Subnet[e.o] = Subnet[x] /\ e.st = "sec"}
           heir == Keep(rest, same)[1]
           up == [heir EXCEPT !.st = "pri"]
           E1 == {e \in Range(rest) : e.st = "pri"}
           E2 == {e \in Range(rest) \ {heir} : e.st = "sec"}
           From(d) == \A i \in 1..Len(d) : \E q \in 1..Len(t) : t[q].o # x /\ d[i].o = t[q].o
<1>1. DelAddr(t, x) = IF t[p].st = "sec" \/ same = {} THEN rest
                      ELSE IF ~sys.promote THEN Keep(rest, Range(rest) \ same)
                      ELSE Keep(rest, E1) \o << up >> \o Keep(rest, E2)
  BY Zenon DEF DelAddr
<1>2. rest \in Seq(Entry) /\ Len(rest) \in Nat /\ From(rest)
  <2>1. rest \in Seq(Entry) /\ \A i \in 1..Len(rest) : \E j \in i..Len(t) : rest[i] = t[j] /\ t[j].o # x
    BY ZenonT(60), RemoveFacts
  <2>2. ASSUME NEW i \in 1..Len(rest) PROVE \E q \in 1..Len(t) : t[q].o # x /\ rest[i].o = t[q].o
    <3>1. PICK j \in i..Len(t) : rest[i] = t[j] /\ t[j].o # x
      BY Zenon, <2>1
    <3>2. j \in 1..Len(t)
      OBVIOUS
    <3> QED BY Zenon, <3>1, <3>2
  <2> QED BY <2>1, <2>2
<1>3. same \subseteq Range(rest)
  OBVIOUS
<1> HIDE DEF rest, same, p, E1, E2
<1>4. ASSUME NEW E PROVE Keep(rest, E) \in Seq(Entry) /\ From(Keep(rest, E))
  <2>1. /\ Keep(rest, E) \in Seq(Entry)
        /\ \A i \in 1..Len(Keep(rest, E)) : \E j \in i..Len(rest) : Keep(rest, E)[i] = rest[j]
    BY <1>2, KeepFacts DEF KeptOf
  <2>2. ASSUME NEW i \in 1..Len(Keep(rest, E))
        PROVE \E q \in 1..Len(t) : t[q].o # x /\ Keep(rest, E)[i].o = t[q].o
    <3>1. PICK j \in i..Len(rest) : Keep(rest, E)[i] = rest[j]
      BY ZenonT(60), <2>1
    <3>2. j \in 1..Len(rest)
      BY <1>2
    <3> QED BY Zenon, <3>1, <3>2, <1>2
  <2> QED BY Zenon, <2>1, <2>2
<1>5. ASSUME same # {} PROVE up \in Entry /\ \E q \in 1..Len(t) : t[q].o # x /\ up.o = t[q].o
  <2>1. PICK q \in 1..Len(rest) : rest[q] \in same
    <3>1. PICK e : e \in same /\ e \in Range(rest)
      BY Zenon, <1>3, <1>5
    <3>2. \E q \in 1..Len(rest) : e = rest[q]
      BY ZenonT(60), <3>1, <1>2, RangeFacts
    <3> QED BY Zenon, <3>1, <3>2
  <2>2. \E i \in 1..Len(Keep(rest, same)) : Keep(rest, same)[i] = rest[q]
    BY SMTT(60), <1>2, <2>1, KeepFacts DEF KeptOf
  <2>3. Keep(rest, same) \in Seq(Entry) /\ 1 \in 1..Len(Keep(rest, same))
    BY SMTT(60), <1>4, <2>2, LenProperties
  <2>4. heir \in Entry /\ \E r \in 1..Len(t) : t[r].o # x /\ heir.o = t[r].o
    BY ZenonT(60), <1>4, <2>3, ElementOfSeq
  <2> HIDE DEF heir
  <2>5. up.o = heir.o /\ up \in Entry
    BY Zenon, <2>4 DEF Entry
  <2> QED BY Zenon, <2>4, <2>5
<1>6. CASE t[p].st = "sec" \/ same = {}
  BY ZenonT(60), <1>1, <1>2, <1>6
<1>7. CASE ~(t[p].st = "sec" \/ same = {}) /\ ~sys.promote
  <2> DEFINE d == Keep(rest, Range(rest) \ same)
  <2>1. DelAddr(t, x) = d
    BY ZenonT(60), <1>1, <1>7
  <2>2. d \in Seq(Entry) /\ From(d)
    BY Zenon, <1>4
  <2> HIDE DEF d
  <2> QED BY ZenonT(60), <2>1, <2>2
<1>8. CASE ~(t[p].st = "sec" \/ same = {}) /\ sys.promote
  <2> DEFINE a == Keep(rest, E1)
             c == Keep(rest, E2)
             d == a \o << up >> \o c
  <2>1. a \in Seq(Entry) /\ From(a) /\ c \in Seq(Entry) /\ From(c)
    BY Zenon, <1>4
  <2>2. up \in Entry /\ \E q \in 1..Len(t) : t[q].o # x /\ up.o = t[q].o
    BY ZenonT(60), <1>5, <1>8
  <2>3. DelAddr(t, x) = d
    BY ZenonT(60), <1>1, <1>8
  <2> HIDE DEF a, c, up
  <2>4. /\ d \in Seq(Entry) /\ Len(d) = Len(a) + 1 + Len(c) /\ Len(a) \in Nat /\ Len(c) \in Nat
        /\ \A i \in 1..Len(d) : d[i] = IF i <= Len(a) THEN a[i]
                                       ELSE IF i = Len(a) + 1 THEN up ELSE c[i - Len(a) - 1]
    BY SMTT(60), <2>1, <2>2, LenProperties
  <2> HIDE DEF d
  <2>5. ASSUME NEW i \in 1..Len(d) PROVE \E q \in 1..Len(t) : t[q].o # x /\ d[i].o = t[q].o
    <3>1. CASE i <= Len(a)
      <4>1. i \in 1..Len(a) /\ d[i] = a[i]
        BY SMTT(60), <2>4, <3>1
      <4> QED BY ZenonT(60), <4>1, <2>1
    <3>2. CASE i = Len(a) + 1
      BY SMTT(60), <2>2, <2>4, <3>2
    <3>3. CASE i > Len(a) + 1
      <4>1. i - Len(a) - 1 \in 1..Len(c) /\ d[i] = c[i - Len(a) - 1]
        BY SMTT(60), <2>4, <3>3
      <4> QED BY ZenonT(60), <4>1, <2>1
    <3> QED BY SMTT(60), <3>1, <3>2, <3>3, <2>4
  <2> QED BY ZenonT(60), <2>3, <2>4, <2>5
<1> QED BY Zenon, <1>6, <1>7, <1>8

(* The objects a flush still has to turn into something it need not touch: *)
(* all but the neighbours in use that have failed already.                 *)
Active(t) == {t[p].o : p \in {q \in 1..Len(t) : t[q].st # "failed" \/ t[q].o \notin sys.held}}

(* d is what is left of t when the objects X were deleted one by one: what *)
(* is left moved to the front or not at all, and only X was touched.       *)
Thinned(d, t, X) ==
    /\ \A i \in 1..Len(d) : \E j \in i..Len(t) : d[i].o = t[j].o
    /\ \A p \in 1..Len(t) : t[p].o \notin X => \E i \in 1..Len(d) : d[i] = t[p]

Distinct(t) == \A p, q \in 1..Len(t) : t[p].o = t[q].o => p = q

Deleted(d, t, x) ==
    /\ d \in Seq(Entry)
    /\ Active(d) \subseteq Active(t) \ {x}
    /\ Thinned(d, t, {x})
    /\ Distinct(t) => Distinct(d)

LEMMA RemoveThins ==
    ASSUME NEW t \in Seq(Entry), NEW x
    PROVE  Deleted(Remove1(t, x), t, x)
<1> DEFINE r == Remove1(t, x)
<1>1. /\ r \in Seq(Entry)
      /\ \A i \in 1..Len(r) : \E j \in i..Len(t) : r[i] = t[j] /\ t[j].o # x
      /\ \A i1, i2 \in 1..Len(r) : i1 < i2 =>
            \E j1, j2 \in 1..Len(t) : j1 < j2 /\ r[i1] = t[j1] /\ r[i2] = t[j2]
      /\ \A p \in 1..Len(t) : t[p].o # x => \E i \in 1..Len(r) : r[i] = t[p]
  BY RemoveFacts
<1> HIDE DEF r
<1>2. Len(r) \in Nat /\ Len(t) \in Nat
  BY Zenon, <1>1, LenProperties
<1>3. Active(r) \subseteq Active(t) \ {x}
  <2> SUFFICES ASSUME NEW i \in 1..Len(r), r[i].st # "failed" \/ r[i].o \notin sys.held
               PROVE  r[i].o \in Active(t) \ {x}
    BY Zenon DEF Active
  <2>1. PICK j \in i..Len(t) : r[i] = t[j] /\ t[j].o # x
    BY ZenonT(60), <1>1
  <2>2. j \in 1..Len(t)
    BY <1>2
  <2> QED BY Zenon, <2>1, <2>2 DEF Active
<1>4. Thinned(r, t, {x})
  <2>1. ASSUME NEW i \in 1..Len(r) PROVE \E j \in i..Len(t) : r[i].o = t[j].o
    BY ZenonT(60), <1>1
  <2> QED BY ZenonT(60), <2>1, <1>1 DEF Thinned
<1>5. ASSUME Distinct(t) PROVE Distinct(r)
  <2> SUFFICES ASSUME NEW i1 \in 1..Len(r), NEW i2 \in 1..Len(r), i1 < i2, r[i1].o = r[i2].o
               PROVE  FALSE
    BY <1>2 DEF Distinct
  <2>1. PICK j1 \in 1..Len(t), j2 \in 1..Len(t) : j1 < j2 /\ r[i1] = t[j1] /\ r[i2] = t[j2]
    BY Zenon, <1>1
  <2> QED BY SMTT(60), <2>1, <1>2, <1>5 DEF Distinct
<1>6. Deleted(r, t, x)
  BY ZenonT(60), <1>1, <1>3, <1>4, <1>5 DEF Deleted
<1> QED BY Zenon, <1>6 DEF r

LEMMA DelNeighThins ==
    ASSUME NEW t \in Seq(Entry), NEW x
    PROVE  Deleted(DelNeigh(t, x), t, x)
<1>1. CASE x \notin sys.held
  <2>1. DelNeigh(t, x) = Remove1(t, x)
    BY ZenonT(60), <1>1 DEF DelNeigh
  <2> QED BY Zenon, <2>1, RemoveThins
<1>2. CASE x \in sys.held
  <2> DEFINE d == [p \in 1..Len(t) |-> IF t[p].o = x THEN [t[p] EXCEPT !.st = "failed"] ELSE t[p]]
  <2>1. DelNeigh(t, x) = d
    BY Zenon, <1>2 DEF DelNeigh
  <2>2. Len(t) \in Nat /\ \A p \in 1..Len(t) : t[p] \in Entry
    BY ZenonT(60), ElementOfSeq, LenProperties
  <2>3. \A p \in 1..Len(t) : t[p].o = x => LET e == [t[p] EXCEPT !.st = "failed"] IN
                                           e \in Entry /\ e.o = x /\ e.st = "failed"
    BY ZenonT(60), <2>2 DEF Entry
  <2>4. \A p \in 1..Len(t) : d[p] \in Entry /\ d[p].o = t[p].o /\ (t[p].o # x => d[p] = t[p])
                             /\ (t[p].o = x => d[p].st = "failed")
    BY ZenonT(60), <2>2, <2>3
  <2>5. d \in Seq(Entry) /\ Len(d) = Len(t)
    BY <2>2, <2>4
  <2> HIDE DEF d
  <2>6. Active(d) \subseteq Active(t) \ {x}
    <3> SUFFICES ASSUME NEW i \in 1..Len(d), d[i].st # "failed" \/ d[i].o \notin sys.held
                 PROVE  d[i].o \in Active(t) \ {x}
      BY Zenon DEF Active
    <3>1. i \in 1..Len(t) /\ t[i].o # x
      BY ZenonT(60), <2>4, <2>5, <1>2
    <3> QED BY Zenon, <3>1, <2>4 DEF Active
  <2>7. Thinned(d, t, {x})
    <3>1. ASSUME NEW i \in 1..Len(d) PROVE \E j \in i..Len(t) : d[i].o = t[j].o
      <4>1. i \in i..Len(t)
        BY <2>2, <2>5
      <4> QED BY ZenonT(60), <4>1, <2>4, <2>5
    <3> QED BY ZenonT(60), <3>1, <2>4, <2>5 DEF Thinned
  <2>8. Distinct(t) => Distinct(d)
    BY Zenon, <2>4, <2>5 DEF Distinct
  <2> QED BY ZenonT(60), <2>1, <2>5, <2>6, <2>7, <2>8 DEF Deleted
<1> QED BY ZenonT(60), <1>1, <1>2

(* Every delete keeps the type of the table and takes its object out of    *)
(* Active; outside the address flush it touches nothing else.              *)
ObjDeleted(d, t, x) ==
    /\ d \in Seq(Entry)
    /\ Active(d) \subseteq Active(t) \ {x}
    /\ Kind # "addr" => /\ Thinned(d, t, {x})
                        /\ Distinct(t) => Distinct(d)

LEMMA DelObjFacts ==
    ASSUME NEW t \in Seq(Entry), NEW x, Kind \in {"addr", "neigh", "route"},
           Kind = "addr" => sys.held = {}
    PROVE  ObjDeleted(DelObj(t, x), t, x)
<1>1. CASE Kind = "addr"
  <2> DEFINE d == DelAddr(t, x)
  <2>1. DelObj(t, x) = d
    BY ZenonT(60), <1>1 DEF DelObj
  <2>2. /\ d \in Seq(Entry)
        /\ \A i \in 1..Len(d) : \E p \in 1..Len(t) : t[p].o # x /\ d[i].o = t[p].o
    BY DelAddrFacts
  <2> HIDE DEF d
  <2>3. Active(d) \subseteq Active(t) \ {x}
    BY Zenon, <2>2, <1>1 DEF Active
  <2> QED BY ZenonT(60), <2>1, <2>2, <2>3, <1>1 DEF ObjDeleted
<1>2. CASE Kind = "neigh"
  <2>1. DelObj(t, x) = DelNeigh(t, x)
    BY Zenon, <1>2 DEF DelObj
  <2>2. Deleted(DelObj(t, x), t, x)
    BY ZenonT(60), <2>1, DelNeighThins
  <2> QED BY ZenonT(60), <2>2 DEF Deleted, ObjDeleted
<1>3. CASE Kind = "route"
  <2>1. DelObj(t, x) = Remove1(t, x)
    BY Zenon, <1>3 DEF DelObj
  <2>2. Deleted(DelObj(t, x), t, x)
    BY ZenonT(60), <2>1, RemoveThins
  <2> QED BY Zenon, <2>2 DEF Deleted, ObjDeleted
<1> QED BY ZenonT(60), <1>1, <1>2, <1>3

-----------------------------------------------------------------------------
TypeInv ==
    /\ cmd \in Commands
    /\ pc \in {"request", "dump", "object", "over", "next"}
    /\ tab \in Seq(Entry)
    /\ sys \in System
    /\ Kind # "neigh" => sys.held = {}
    /\ kdump \in [on : BOOLEAN, next : Nat \ {0}]
    /\ rcvq \in Seq(Msg)
    /\ seq \in Nat /\ dump \in Nat
    /\ cur \in Msg
    /\ flushb \in Seq(Req)
    /\ flushed \in Nat
    /\ round \in Nat
    /\ failedToo \in BOOLEAN
    /\ ret \in [flush : {"none", "ok", "failed", "terminated", "incomplete"},
                next : {"none", "ok", "refused", "notavail"}]
    /\ env \in [left : 0..MaxEnv, added : BOOLEAN, disturbed : BOOLEAN]

(* No number on the socket or in the buffer is larger than the last one.   *)
Numbered ==
    /\ \A i \in 1..Len(rcvq) : rcvq[i].seq <= seq
    /\ \A i \in 1..Len(flushb) : flushb[i].seq <= seq
    /\ dump <= seq

(* The only error answer there is says that the object is gone.            *)
OnlyGone(q) == \A i \in 1..Len(q) : q[i].type = "nack" => q[i].err = "notavail"

KState == [t : Seq(Entry), q : Seq(Msg)]

NamesOf(b, n) == {b[m].o : m \in 1..n}

LEMMA KindType ==
    ASSUME cmd \in Commands
    PROVE  /\ Kind \in {"addr", "neigh", "route"} /\ Primary \in BOOLEAN /\ MaxRounds \in Nat
           /\ Kind = "neigh" => MaxRounds > 0
BY Zenon, FlushAssumption DEF Kind, Primary, MaxRounds

LEMMA ReplyType ==
    ASSUME NEW s \in Nat, NEW ty \in {"nack", "ack"}, NEW e \in {"none", "refused", "notavail"}
    PROVE  /\ ReplyMsg(s, ty, e) \in Msg
           /\ ReplyMsg(s, ty, e).seq = s /\ ReplyMsg(s, ty, e).type = ty
           /\ ReplyMsg(s, ty, e).err = e
BY DEF ReplyMsg, Msg

(* One request: what it adds to the queue, what it does to the table.      *)
LEMMA ProcessFacts ==
    ASSUME NEW k \in KState, NEW m \in Req, cmd \in Commands, sys \in System,
           Kind # "neigh" => sys.held = {}
    PROVE  /\ Process(k, m) \in KState
           /\ \A n \in Nat : (\A i \in 1..Len(k.q) : k.q[i].seq <= n) /\ m.seq <= n
                 => \A i \in 1..Len(Process(k, m).q) : Process(k, m).q[i].seq <= n
           /\ sys.deny = {} =>
                 /\ OnlyGone(k.q) => OnlyGone(Process(k, m).q)
                 /\ Active(Process(k, m).t) \subseteq Active(k.t) \ {m.o}
           /\ sys.deny = {} /\ Kind # "addr" /\ m.o \in Names(k.t) =>
                 /\ Process(k, m).q = k.q
                 /\ Thinned(Process(k, m).t, k.t, {m.o})
                 /\ Distinct(k.t) => Distinct(Process(k, m).t)
<1>0. k.t \in Seq(Entry) /\ k.q \in Seq(Msg) /\ m.seq \in Nat /\ Len(k.q) \in Nat
      /\ k = [t |-> k.t, q |-> k.q]
  BY DEF KState, Req
<1>1. Kind \in {"addr", "neigh", "route"}
  BY Zenon, KindType
<1>2. ASSUME NEW e \in {"refused", "notavail"},
             Process(k, m) = [k EXCEPT !.q = Append(@, ReplyMsg(m.seq, "nack", e))],
             m.o \notin Active(k.t) \/ sys.deny # {},
             sys.deny = {} => e = "notavail" /\ m.o \notin Names(k.t)
      PROVE  /\ Process(k, m) \in KState
             /\ \A n \in Nat : (\A i \in 1..Len(k.q) : k.q[i].seq <= n) /\ m.seq <= n
                   => \A i \in 1..Len(Process(k, m).q) : Process(k, m).q[i].seq <= n
             /\ sys.deny = {} =>
                   /\ OnlyGone(k.q) => OnlyGone(Process(k, m).q)
                   /\ Active(Process(k, m).t) \subseteq Active(k.t) \ {m.o}
  <2> DEFINE r == ReplyMsg(m.seq, "nack", e)
             q == Append(k.q, r)
             p == Process(k, m)
  <2>1. r \in Msg /\ r.seq = m.seq /\ r.type = "nack" /\ r.err = e
    BY <1>0, ReplyType
  <2> HIDE DEF r
  <2>2. /\ q \in Seq(Msg) /\ Len(q) = Len(k.q) + 1
        /\ \A i \in 1..Len(k.q) : q[i] = k.q[i]
        /\ q[Len(k.q) + 1] = r
    BY <1>0, <2>1, AppendProperties
  <2>3. p = [t |-> k.t, q |-> q]
    BY Zenon, <1>0, <1>2 DEF r
  <2> HIDE DEF q, p
  <2>4. p \in KState /\ p.q = q /\ p.t = k.t
    BY ZenonT(60), <1>0, <2>2, <2>3 DEF KState
  <2>5. \A i \in 1..Len(q) : i \in 1..Len(k.q) \/ i = Len(k.q) + 1
    BY <2>2, <1>0
  <2>6. ASSUME NEW n \in Nat, \A i \in 1..Len(k.q) : k.q[i].seq <= n, m.seq <= n
        PROVE  \A i \in 1..Len(q) : q[i].seq <= n
    BY SMTT(60), <2>1, <2>2, <2>5, <2>6
  <2>7. ASSUME sys.deny = {}, OnlyGone(k.q) PROVE OnlyGone(q)
    BY ZenonT(60), <2>1, <2>2, <2>5, <2>7, <1>2 DEF OnlyGone
  <2>8. sys.deny = {} => Active(k.t) \subseteq Active(k.t) \ {m.o}
    BY Zenon, <1>2
  <2> QED BY ZenonT(60), <2>4, <2>6, <2>7, <2>8 DEF p
<1>3. CASE m.o \in sys.deny
  <2>1. Process(k, m) = [k EXCEPT !.q = Append(@, ReplyMsg(m.seq, "nack", "refused"))]
    BY ZenonT(60), <1>3 DEF Process
  <2> QED BY Zenon, <1>2, <1>3, <2>1
<1>4. CASE m.o \notin sys.deny /\ m.o \notin Names(k.t)
  <2>1. Process(k, m) = [k EXCEPT !.q = Append(@, ReplyMsg(m.seq, "nack", "notavail"))]
    BY ZenonT(60), <1>4 DEF Process
  <2>2. m.o \notin Active(k.t)
    BY Zenon, <1>4 DEF Active, Names
  <2> QED BY ZenonT(60), <1>2, <1>4, <2>1, <2>2
<1>5. CASE m.o \notin sys.deny /\ m.o \in Names(k.t)
  <2> DEFINE d == DelObj(k.t, m.o)
             p == Process(k, m)
  <2>1. p = [k EXCEPT !.t = DelObj(@, m.o)]
    BY ZenonT(60), <1>5 DEF Process
  <2>2. p = [t |-> d, q |-> k.q]
    BY ZenonT(60), <2>1, <1>0
  <2>3. /\ d \in Seq(Entry)
        /\ Active(d) \subseteq Active(k.t) \ {m.o}
        /\ Kind # "addr" => /\ Thinned(d, k.t, {m.o})
                            /\ Distinct(k.t) => Distinct(d)
    <3>1. Kind = "addr" => sys.held = {}
      OBVIOUS
    <3>2. ObjDeleted(d, k.t, m.o)
      BY SMTT(60), <1>0, <1>1, <3>1, DelObjFacts
    <3> QED BY ZenonT(60), <3>2 DEF ObjDeleted
  <2> HIDE DEF d, p
  <2>4. p \in KState /\ p.t = d /\ p.q = k.q
    BY ZenonT(60), <2>2, <2>3, <1>0 DEF KState
  <2> QED BY ZenonT(60), <2>3, <2>4 DEF p
<1> QED BY ZenonT(60), <1>3, <1>4, <1>5

(* rtnl_send_check as a whole.                                             *)
SendOk(t, q) ==
    /\ t \in Seq(Entry) /\ q \in Seq(Msg)
    /\ \A i \in 1..Len(q) : q[i].seq <= seq
    /\ sys.deny = {} => /\ OnlyGone(rcvq) => OnlyGone(q)
                        /\ Active(t) \subseteq Active(tab) \ NamesOf(flushb, Len(flushb))

LEMMA SendFacts ==
    ASSUME TypeInv, Numbered
    PROVE  SendOk(SendCheck.t, SendCheck.q)
<1> DEFINE K == [n \in 0..Len(flushb) |->
                   {k \in KState :
                      /\ \A i \in 1..Len(k.q) : k.q[i].seq <= seq
                      /\ sys.deny = {} => /\ OnlyGone(rcvq) => OnlyGone(k.q)
                                          /\ Active(k.t) \subseteq Active(tab) \ NamesOf(flushb, n)}]
           k0 == [t |-> tab, q |-> rcvq]
<1>0. /\ flushb \in Seq(Req) /\ Len(flushb) \in Nat /\ seq \in Nat
      /\ cmd \in Commands /\ sys \in System /\ (Kind # "neigh" => sys.held = {})
      /\ \A n \in 1..Len(flushb) : flushb[n] \in Req /\ flushb[n].seq <= seq
  BY SMTT(60), ElementOfSeq DEF TypeInv, Numbered
<1>1. k0 \in K[0]
  <2>1. k0 \in KState /\ k0.t = tab /\ k0.q = rcvq
    BY Zenon DEF KState, TypeInv
  <2>2. NamesOf(flushb, 0) = {}
    BY DEF NamesOf
  <2> QED BY SMTT(60), <2>1, <2>2, <1>0 DEF Numbered
<1>2. ASSUME NEW n \in 1..Len(flushb), NEW k \in K[n - 1] PROVE Process(k, flushb[n]) \in K[n]
  <2> DEFINE p == Process(k, flushb[n])
  <2>1. n \in 0..Len(flushb) /\ n - 1 \in 0..Len(flushb)
    BY <1>0
  <2>2. /\ k \in KState
        /\ \A i \in 1..Len(k.q) : k.q[i].seq <= seq
        /\ sys.deny = {} => /\ OnlyGone(rcvq) => OnlyGone(k.q)
                            /\ Active(k.t) \subseteq Active(tab) \ NamesOf(flushb, n - 1)
    BY Zenon, <2>1
  <2>3. /\ p \in KState
        /\ \A i \in 1..Len(p.q) : p.q[i].seq <= seq
        /\ sys.deny = {} => /\ OnlyGone(k.q) => OnlyGone(p.q)
                            /\ Active(p.t) \subseteq Active(k.t) \ {flushb[n].o}
    BY ZenonT(60), <1>0, <2>2, ProcessFacts
  <2>4. NamesOf(flushb, n) = NamesOf(flushb, n - 1) \cup {flushb[n].o}
    <3>1. \A m : m \in 1..n <=> m \in 1..(n - 1) \/ m = n
      BY <1>0
    <3> QED BY ZenonT(60), <3>1 DEF NamesOf
  <2> HIDE DEF p
  <2>5. sys.deny = {} => /\ OnlyGone(rcvq) => OnlyGone(p.q)
                         /\ Active(p.t) \subseteq Active(tab) \ NamesOf(flushb, n)
    BY ZenonT(60), <2>2, <2>3, <2>4
  <2>6. p \in K[n]
    BY ZenonT(60), <2>1, <2>3, <2>5
  <2> QED BY ZenonT(60), <2>6 DEF p
<1>3. ProcessAll(k0, flushb) \in K[Len(flushb)]
  <2> HIDE DEF K, k0
  <2> QED BY ZenonT(60), <1>0, <1>1, <1>2, ProcessInduction
<1>4. SendCheck.t = ProcessAll(k0, flushb).t /\ SendCheck.q = ProcessAll(k0, flushb).q
  BY SMTT(60) DEF SendCheck
<1> HIDE DEF k0
<1> DEFINE k == ProcessAll(k0, flushb)
<1> HIDE DEF k
<1>5. k \in K[Len(flushb)] /\ Len(flushb) \in 0..Len(flushb)
  BY <1>3, <1>0 DEF k
<1>6. k.t \in Seq(Entry) /\ k.q \in Seq(Msg) /\ SendOk(k.t, k.q)
  BY Zenon, <1>5 DEF SendOk, KState
<1> QED BY ZenonT(60), <1>4, <1>6 DEF k

(* What it returns: the error of a refusal at the head of the queue.       *)
LEMMA SendError ==
    ASSUME TypeInv, Numbered
    PROVE  /\ SendCheck.err \in {"none", "refused", "notavail"}
           /\ sys.deny = {} /\ OnlyGone(rcvq) => SendCheck.err \in {"none", "notavail"}
           /\ SendCheck.q = rcvq /\ (\A i \in 1..Len(rcvq) : rcvq[i].type # "nack")
                 => SendCheck.err = "none"
<1> DEFINE q == SendCheck.q
<1>1. q \in Seq(Msg) /\ (sys.deny = {} /\ OnlyGone(rcvq) => OnlyGone(q))
  BY Zenon, SendFacts DEF SendOk
<1>2. SendCheck.err = IF q # << >> /\ Head(q).type = "nack" THEN Head(q).err ELSE "none"
  BY Zenon DEF SendCheck
<1> HIDE DEF q
<1>3. q # << >> => Head(q) = q[1] /\ 1 \in 1..Len(q) /\ q[1] \in Msg
  BY <1>1, ElementOfSeq
<1>4. q # << >> => q[1].err \in {"none", "refused", "notavail"}
  BY Zenon, <1>3 DEF Msg
<1> QED BY ZenonT(60), <1>1, <1>2, <1>3, <1>4 DEF q, OnlyGone

(* Neighbours and routes: when every request names another entry of the    *)
(* table, none is refused.                                                 *)
LEMMA SendThins ==
    ASSUME TypeInv, Numbered, Kind # "addr", sys.deny = {}, Distinct(tab), Distinct(flushb),
           NamesOf(flushb, Len(flushb)) \subseteq Names(tab)
    PROVE  /\ SendCheck.q = rcvq
           /\ Distinct(SendCheck.t)
           /\ Thinned(SendCheck.t, tab, NamesOf(flushb, Len(flushb)))
<1> DEFINE K == [n \in 0..Len(flushb) |->
                   {k \in KState : k.q = rcvq /\ Distinct(k.t) /\ Thinned(k.t, tab, NamesOf(flushb, n))}]
           k0 == [t |-> tab, q |-> rcvq]
<1>0. /\ flushb \in Seq(Req) /\ Len(flushb) \in Nat /\ Len(tab) \in Nat
      /\ cmd \in Commands /\ sys \in System /\ (Kind # "neigh" => sys.held = {})
      /\ \A n \in 1..Len(flushb) : flushb[n] \in Req
  BY ZenonT(60), ElementOfSeq, LenProperties DEF TypeInv
<1>1. k0 \in K[0]
  <2>1. k0 \in KState /\ k0.t = tab /\ k0.q = rcvq
    BY Zenon DEF KState, TypeInv
  <2>2. ASSUME NEW i \in 1..Len(tab) PROVE i \in i..Len(tab)
    BY <1>0
  <2>3. Thinned(tab, tab, NamesOf(flushb, 0))
    BY Zenon, <2>2 DEF Thinned
  <2> QED BY <2>1, <2>3, <1>0
<1>2. ASSUME NEW n \in 1..Len(flushb), NEW k \in K[n - 1] PROVE Process(k, flushb[n]) \in K[n]
  <2> DEFINE p == Process(k, flushb[n])
             x == flushb[n].o
  <2>1. n \in 0..Len(flushb) /\ n - 1 \in 0..Len(flushb)
    BY <1>0
  <2>2. k \in KState /\ k.q = rcvq /\ Distinct(k.t) /\ Thinned(k.t, tab, NamesOf(flushb, n - 1))
    BY Zenon, <2>1
  <2>3. x \notin NamesOf(flushb, n - 1)
    <3>1. \A m \in 1..(n - 1) : m \in 1..Len(flushb) /\ m # n
      BY <1>0
    <3> QED BY ZenonT(60), <3>1 DEF NamesOf, Distinct
  <2>4. PICK r \in 1..Len(tab) : tab[r].o = x
    BY ZenonT(60) DEF NamesOf, Names
  <2>5. x \in Names(k.t)
    <3>1. PICK i \in 1..Len(k.t) : k.t[i] = tab[r]
      BY ZenonT(60), <2>2, <2>3, <2>4 DEF Thinned
    <3> QED BY ZenonT(60), <2>4, <3>1 DEF Names
  <2>6. p \in KState /\ p.q = k.q /\ Thinned(p.t, k.t, {x}) /\ Distinct(p.t)
    BY ZenonT(60), <1>0, <2>2, <2>5, ProcessFacts
  <2>7. NamesOf(flushb, n) = NamesOf(flushb, n - 1) \cup {x}
    <3>1. \A m : m \in 1..n <=> m \in 1..(n - 1) \/ m = n
      BY <1>0
    <3> QED BY ZenonT(60), <3>1 DEF NamesOf
  <2>8. Len(k.t) \in Nat
    BY ZenonT(60), <2>2, LenProperties DEF KState
  <2> HIDE DEF p, x
  <2>9. Thinned(p.t, tab, NamesOf(flushb, n))
    <3>1. ASSUME NEW i \in 1..Len(p.t) PROVE \E j \in i..Len(tab) : p.t[i].o = tab[j].o
      <4>1. PICK l \in i..Len(k.t) : p.t[i].o = k.t[l].o
        BY ZenonT(60), <2>6 DEF Thinned
      <4>2. l \in 1..Len(k.t)
        BY <2>8
      <4>3. PICK j \in l..Len(tab) : k.t[l].o = tab[j].o
        BY ZenonT(60), <4>2, <2>2 DEF Thinned
      <4>4. j \in i..Len(tab)
        BY SMTT(60), <1>0
      <4> QED BY ZenonT(60), <4>1, <4>3, <4>4
    <3>2. ASSUME NEW q \in 1..Len(tab), tab[q].o \notin NamesOf(flushb, n)
          PROVE  \E i \in 1..Len(p.t) : p.t[i] = tab[q]
      <4>1. PICK l \in 1..Len(k.t) : k.t[l] = tab[q]
        BY Zenon, <3>2, <2>2, <2>7 DEF Thinned
      <4> QED BY SMTT(60), <4>1, <3>2, <2>6, <2>7 DEF Thinned
    <3> QED BY ZenonT(60), <3>1, <3>2 DEF Thinned
  <2>10. p \in K[n]
    BY SMTT(60), <2>1, <2>2, <2>6, <2>9
  <2> QED BY ZenonT(60), <2>10 DEF p
<1>3. ProcessAll(k0, flushb) \in K[Len(flushb)]
  <2> HIDE DEF K, k0
  <2> QED BY ZenonT(60), <1>0, <1>1, <1>2, ProcessInduction
<1>4. SendCheck.t = ProcessAll(k0, flushb).t /\ SendCheck.q = ProcessAll(k0, flushb).q
  BY ZenonT(60) DEF SendCheck
<1> HIDE DEF k0
<1> DEFINE k == ProcessAll(k0, flushb)
<1> HIDE DEF k
<1>5. k \in K[Len(flushb)] /\ Len(flushb) \in 0..Len(flushb)
  BY <1>3, <1>0 DEF k
<1>6. k.q = rcvq /\ Distinct(k.t) /\ Thinned(k.t, tab, NamesOf(flushb, Len(flushb)))
  BY Zenon, <1>5
<1> QED BY Zenon, <1>4, <1>6 DEF k

-----------------------------------------------------------------------------
LEMMA HeadTail ==
    ASSUME NEW S, NEW q \in Seq(S), q # << >>
    PROVE  /\ Head(q) = q[1] /\ Head(q) \in S /\ 1 \in 1..Len(q)
           /\ Tail(q) \in Seq(S) /\ Len(Tail(q)) = Len(q) - 1 /\ Len(q) \in Nat
           /\ \A i \in 1..Len(Tail(q)) : Tail(q)[i] = q[i + 1] /\ i + 1 \in 1..Len(q)
           /\ \A i \in 1..Len(q) : i = 1 \/ (i - 1 \in 1..Len(Tail(q)) /\ Tail(q)[i - 1] = q[i])
<1>1. Len(q) \in Nat /\ Len(q) > 0
  OBVIOUS
<1>2. Head(q) = q[1] /\ Head(q) \in S /\ 1 \in 1..Len(q)
  BY <1>1, ElementOfSeq
<1>3. Tail(q) \in Seq(S) /\ Len(Tail(q)) = Len(q) - 1
  OBVIOUS
<1>4. \A i \in 1..Len(Tail(q)) : Tail(q)[i] = q[i + 1] /\ i + 1 \in 1..Len(q)
  BY <1>1, <1>3
<1>5. \A i \in 1..Len(q) : i # 1 => i - 1 \in 1..Len(Tail(q)) /\ (i - 1) + 1 = i
  BY SMTT(60), <1>1, <1>3
<1> QED BY ZenonT(60), <1>1, <1>2, <1>3, <1>4, <1>5

LEMMA AppendFacts ==
    ASSUME NEW S, NEW q \in Seq(S), NEW e \in S
    PROVE  /\ Append(q, e) \in Seq(S) /\ Len(Append(q, e)) = Len(q) + 1 /\ Len(q) \in Nat
           /\ Append(q, e)[Len(q) + 1] = e
           /\ \A i \in 1..Len(q) : Append(q, e)[i] = q[i]
           /\ \A i \in 1..Len(Append(q, e)) : i = Len(q) + 1 \/ i \in 1..Len(q)
<1>1. Len(q) \in Nat /\ Append(q, e) \in Seq(S) /\ Len(Append(q, e)) = Len(q) + 1
  BY AppendProperties
<1> QED BY SMTT(60), <1>1, AppendProperties

LEMMA InitType == Init => TypeInv /\ Numbered
<1> SUFFICES ASSUME Init PROVE TypeInv /\ Numbered
  OBVIOUS
<1>1. Cardinality(Objs) \in Nat
  BY Zenon, FlushAssumption, FS_CardinalityType
<1>2. cmd \in Commands
  BY Zenon DEF Init
<1>3. Kind \in {"addr", "neigh", "route"} /\ States \subseteq {"pri", "sec", "live", "failed"}
  BY ZenonT(60), <1>2, KindType DEF States
<1>4. tab \in Seq(Entry)
  <2>1. tab \in [1..Cardinality(Objs) -> [o : Objs, st : States]]
    BY Zenon DEF Init, Tables
  <2>2. [o : Objs, st : States] \subseteq Entry
    BY Zenon, <1>3 DEF Entry
  <2>3. tab \in [1..Cardinality(Objs) -> Entry]
    BY ZenonT(60), <2>1, <2>2
  <2> QED BY ZenonT(60), <2>3, <1>1, SeqDef
<1>5. sys \in System /\ (Kind # "neigh" => sys.held = {})
  <2>1. /\ sys.promote \in (IF Kind = "addr" THEN BOOLEAN ELSE {FALSE})
        /\ sys.deny \in SUBSET Objs
        /\ sys.held \in (IF Kind = "neigh" THEN SUBSET Objs ELSE {{}})
        /\ sys = [promote |-> sys.promote, deny |-> sys.deny, held |-> sys.held]
    BY Zenon DEF Init
  <2>2. sys.promote \in BOOLEAN /\ sys.held \in SUBSET Objs
    BY ZenonT(60), <2>1
  <2> QED BY ZenonT(60), <2>1, <2>2 DEF System
<1>6. NoMsg \in Msg
  BY DEF NoMsg, ChunkMsg, Msg
<1>7. MaxEnv \in 0..MaxEnv
  BY SMTT(60), FlushAssumption
<1>8. /\ kdump \in [on : BOOLEAN, next : Nat \ {0}] /\ rcvq \in Seq(Msg) /\ flushb \in Seq(Req)
      /\ seq \in Nat /\ dump \in Nat /\ flushed \in Nat /\ round \in Nat
      /\ cur \in Msg /\ pc = "request" /\ failedToo \in BOOLEAN
  BY <1>6 DEF Init
<1>9. /\ ret \in [flush : {"none", "ok", "failed", "terminated", "incomplete"},
                  next : {"none", "ok", "refused", "notavail"}]
      /\ env \in [left : 0..MaxEnv, added : BOOLEAN, disturbed : BOOLEAN]
  BY ZenonT(60), <1>7 DEF Init
<1>10. Numbered
  BY DEF Numbered, Init
<1> QED BY ZenonT(60), <1>2, <1>4, <1>5, <1>8, <1>9, <1>10 DEF TypeInv

LEMMA MsgTypes ==
    ASSUME TypeInv
    PROVE  /\ \A i \in 1..Len(rcvq) : /\ rcvq[i] \in Msg /\ rcvq[i].seq \in Nat
                                       /\ rcvq[i].objs \in Seq(Entry)
           /\ \A i \in 1..Len(flushb) : flushb[i] \in Req /\ flushb[i].seq \in Nat
           /\ cur.objs \in Seq(Entry) /\ cur.seq \in Nat
           /\ Len(rcvq) \in Nat /\ Len(flushb) \in Nat /\ Len(tab) \in Nat
           /\ \A p \in 1..Len(tab) : tab[p] \in Entry
<1>1. /\ rcvq \in Seq(Msg) /\ flushb \in Seq(Req) /\ tab \in Seq(Entry) /\ cur \in Msg
  BY Zenon DEF TypeInv
<1>2. \A i \in 1..Len(rcvq) : rcvq[i] \in Msg
  BY Zenon, <1>1, ElementOfSeq
<1>3. \A i \in 1..Len(flushb) : flushb[i] \in Req
  BY ZenonT(60), <1>1, ElementOfSeq
<1>4. \A p \in 1..Len(tab) : tab[p] \in Entry
  BY ZenonT(60), <1>1, ElementOfSeq
<1>5. Len(rcvq) \in Nat /\ Len(flushb) \in Nat /\ Len(tab) \in Nat
  BY ZenonT(60), <1>1, LenProperties
<1>6. \A m \in Msg : m.seq \in Nat /\ m.objs \in Seq(Entry)
  BY Zenon DEF Msg
<1>7. \A m \in Req : m.seq \in Nat
  BY SMTT(60) DEF Req
<1> QED BY ZenonT(60), <1>1, <1>2, <1>3, <1>4, <1>5, <1>6, <1>7

(* The steps that receive, pass over and end: no request is sent.          *)
LEMMA QuietStepType ==
    ASSUME TypeInv, Numbered,
           Request \/ OutOfRounds \/ DumpRecv \/ PassOver \/ MoreToCome \/ NothingFlushed
    PROVE  TypeInv' /\ Numbered'
<1> USE DEF TypeInv, Numbered, Kind
<1>1. CASE Request
  <2>0. /\ seq' = seq + 1 /\ dump' = seq + 1
        /\ kdump' = [on |-> TRUE, next |-> 1] /\ flushed' = 0 /\ pc' = "dump"
        /\ env' = [env EXCEPT !.disturbed = FALSE]
        /\ UNCHANGED <<cmd, tab, sys, rcvq, cur, flushb, round, failedToo, ret>>
    BY Zenon, <1>1 DEF Request
  <2>1. /\ seq' \in Nat /\ dump' \in Nat
        /\ kdump' \in [on : BOOLEAN, next : Nat \ {0}] /\ flushed' \in Nat
    BY SMTT(60), <2>0
  <2>7. env' \in [left : 0..MaxEnv, added : BOOLEAN, disturbed : BOOLEAN]
    BY ZenonT(40), <2>0, Zenon
  <2>2. \A i \in 1..Len(rcvq) : rcvq[i].seq \in Nat
    BY Zenon, MsgTypes
  <2>3. \A i \in 1..Len(flushb) : flushb[i].seq \in Nat
    BY ZenonT(60), MsgTypes
  <2>4. \A n \in Nat : n <= seq => n <= seq + 1
    OBVIOUS
  <2>5. TypeInv'
    BY ZenonT(60), <2>0, <2>1, <2>7
  <2>6. Numbered'
    BY SMTT(60), <2>0, <2>2, <2>3, <2>4
  <2> QED BY Zenon, <2>5, <2>6
<1>2. CASE OutOfRounds
  <2>1. /\ ret' \in [flush : {"none", "ok", "failed", "terminated", "incomplete"},
                     next : {"none", "ok", "refused", "notavail"}]
        /\ pc' = "over"
        /\ UNCHANGED <<cmd, tab, sys, kdump, rcvq, seq, dump, cur, flushb, flushed, round,
                       failedToo, env>>
    BY ZenonT(60), <1>2 DEF OutOfRounds
  <2> QED BY Zenon, <2>1
<1>3. CASE DumpRecv
  <2>1. rcvq # << >> /\ rcvq' = Tail(rcvq)
    BY ZenonT(60), <1>3 DEF DumpRecv
  <2>2. /\ Head(rcvq) \in Msg /\ rcvq' \in Seq(Msg)
        /\ \A i \in 1..Len(rcvq') : rcvq'[i] = rcvq[i + 1] /\ i + 1 \in 1..Len(rcvq)
    BY <2>1, HeadTail
  <2>3. cur' \in Msg /\ pc' \in {"dump", "object"}
        /\ UNCHANGED <<cmd, tab, sys, kdump, seq, dump, flushb, flushed, round, failedToo, ret, env>>
    BY ZenonT(60), <1>3, <2>2 DEF DumpRecv
  <2>4. TypeInv'
    BY ZenonT(60), <2>2, <2>3
  <2>5. Numbered'
    BY ZenonT(60), <2>2, <2>3
  <2> QED BY Zenon, <2>4, <2>5
<1>4. CASE PassOver
  <2>1. cur.objs \in Seq(Entry) /\ cur.objs # << >>
        /\ UNCHANGED <<cmd, pc, tab, sys, kdump, rcvq, seq, dump, flushb, flushed, round,
                       failedToo, ret, env>>
    BY Zenon, <1>4 DEF PassOver, Msg
  <2>2. Tail(cur.objs) \in Seq(Entry)
    BY Zenon, <2>1, HeadTail
  <2>3. cur' \in Msg
    BY ZenonT(60), <1>4, <2>2 DEF PassOver, Msg
  <2>4. TypeInv'
    BY ZenonT(60), <2>1, <2>3
  <2>5. Numbered'
    BY Zenon, <2>1, <2>3
  <2> QED BY Zenon, <2>4, <2>5
<1>5. CASE MoreToCome
  BY ZenonT(60), <1>5 DEF MoreToCome
<1>6. CASE NothingFlushed
  <2>1. /\ ret' \in [flush : {"none", "ok", "failed", "terminated", "incomplete"},
                     next : {"none", "ok", "refused", "notavail"}]
        /\ pc' = "over"
        /\ UNCHANGED <<cmd, tab, sys, kdump, rcvq, seq, dump, cur, flushb, flushed, round,
                       failedToo, env>>
    BY Zenon, <1>6 DEF NothingFlushed
  <2> QED BY Zenon, <2>1
<1> QED BY SMTT(60), <1>1, <1>2, <1>3, <1>4, <1>5, <1>6

LEMMA CollectType ==
    ASSUME TypeInv, Numbered, Collect
    PROVE  TypeInv' /\ Numbered'
<1> DEFINE m == [o |-> Head(cur.objs).o, seq |-> seq + 1]
           NextCur == [cur EXCEPT !.objs = Tail(@)]
<1>0. /\ UNCHANGED <<cmd, sys, kdump, dump, round, failedToo, env>>
      /\ cur.objs # << >> /\ pc = "object"
  BY Zenon DEF Collect
<1>1. cur.objs \in Seq(Entry) /\ cur \in Msg
  BY Zenon, MsgTypes DEF TypeInv
<1>2. Head(cur.objs) \in Entry /\ Tail(cur.objs) \in Seq(Entry)
  BY Zenon, <1>0, <1>1, HeadTail
<1>3. m \in Req /\ m.seq = seq + 1 /\ seq \in Nat
  BY <1>2 DEF Entry, Req, TypeInv
<1>4. NextCur \in Msg
  BY SMTT(60), <1>1, <1>2 DEF Msg
<1>5. \A n \in Nat : n <= seq => n <= seq + 1
  BY <1>3
<1>6. CASE /\ Len(flushb) < BufCap
           /\ flushb' = Append(flushb, m)
           /\ seq' = seq + 1
           /\ flushed' = flushed + 1
           /\ cur' = NextCur
           /\ UNCHANGED <<pc, tab, rcvq, ret>>
  <2> HIDE DEF m, NextCur
  <2>1. /\ flushb' \in Seq(Req) /\ Len(flushb') = Len(flushb) + 1
        /\ flushb'[Len(flushb) + 1] = m
        /\ \A i \in 1..Len(flushb) : flushb'[i] = flushb[i]
        /\ \A i \in 1..Len(flushb') : i = Len(flushb) + 1 \/ i \in 1..Len(flushb)
    BY SMTT(60), <1>3, <1>6, AppendFacts DEF TypeInv
  <2>2. TypeInv'
    BY SMTT(60), <1>0, <1>4, <1>6, <2>1 DEF TypeInv, Kind
  <2>3. \A i \in 1..Len(rcvq') : rcvq'[i].seq <= seq'
    BY ZenonT(60), <1>5, <1>6, MsgTypes DEF Numbered
  <2>4. \A i \in 1..Len(flushb') : flushb'[i].seq <= seq'
    <3>1. \A i \in 1..Len(flushb) : flushb[i].seq <= seq + 1
      BY ZenonT(60), <1>5, MsgTypes DEF Numbered
    <3>2. m.seq <= seq + 1
      BY SMTT(60), <1>3
    <3> QED BY ZenonT(60), <1>6, <2>1, <3>1, <3>2
  <2>5. dump' <= seq'
    BY SMTT(60), <1>0, <1>3, <1>6 DEF Numbered, TypeInv
  <2> QED BY Zenon, <2>2, <2>3, <2>4, <2>5 DEF Numbered
<1>7. CASE /\ Len(flushb) = BufCap
           /\ tab' = SendCheck.t /\ rcvq' = SendCheck.q
           /\ IF FlushUpdateFails(SendCheck.err)
              THEN /\ pc' = "over"
                   /\ ret' = [ret EXCEPT !.flush = IF Kind = "route" THEN "failed"
                                                   ELSE "terminated"]
                   /\ UNCHANGED <<flushb, seq, flushed, cur>>
              ELSE /\ flushb' = << m >>
                   /\ seq' = seq + 1
                   /\ flushed' = flushed + 1
                   /\ cur' = NextCur
                   /\ UNCHANGED <<pc, ret>>
  <2>1. tab' \in Seq(Entry) /\ rcvq' \in Seq(Msg) /\ \A i \in 1..Len(rcvq') : rcvq'[i].seq <= seq
    BY ZenonT(60), <1>7, SendFacts DEF SendOk
  <2>2. \A i \in 1..Len(rcvq') : rcvq'[i].seq \in Nat
    <3>1. \A i \in 1..Len(rcvq') : rcvq'[i] \in Msg
      BY ZenonT(60), <2>1, ElementOfSeq
    <3> QED BY ZenonT(60), <3>1 DEF Msg
  <2> HIDE DEF m, NextCur
  <2>3. CASE FlushUpdateFails(SendCheck.err)
    <3>1. /\ pc' = "over"
          /\ ret' = [ret EXCEPT !.flush = IF Kind = "route" THEN "failed" ELSE "terminated"]
          /\ UNCHANGED <<flushb, seq, flushed, cur>>
      BY ZenonT(60), <1>7, <2>3
    <3>2. ret' \in [flush : {"none", "ok", "failed", "terminated", "incomplete"},
                    next : {"none", "ok", "refused", "notavail"}]
      BY Zenon, <3>1 DEF TypeInv
    <3>3. TypeInv'
      BY ZenonT(60), <1>0, <3>1, <3>2, <2>1 DEF TypeInv, Kind
    <3>4. Numbered'
      BY ZenonT(60), <1>0, <3>1, <2>1 DEF Numbered
    <3> QED BY ZenonT(60), <3>3, <3>4
  <2>4. CASE ~FlushUpdateFails(SendCheck.err)
    <3>1. flushb' = << m >> /\ seq' = seq + 1 /\ flushed' = flushed + 1 /\ cur' = NextCur
          /\ UNCHANGED <<pc, ret>>
      BY ZenonT(60), <1>7, <2>4
    <3>2. flushb' \in Seq(Req) /\ Len(flushb') = 1 /\ flushb'[1] = m
      BY SMTT(60), <3>1, <1>3
    <3>3. TypeInv'
      BY SMTT(60), <1>0, <1>4, <3>1, <3>2, <2>1 DEF TypeInv, Kind
    <3>4. Numbered'
      BY SMTT(60), <1>0, <1>3, <1>5, <3>1, <3>2, <2>1, <2>2 DEF Numbered, TypeInv
    <3> QED BY Zenon, <3>3, <3>4
  <2> QED BY ZenonT(60), <2>3, <2>4
<1> QED BY Zenon, <1>6, <1>7 DEF Collect

LEMMA RoundType ==
    ASSUME TypeInv, Numbered, AddrRound \/ NeighRound \/ RouteRound
    PROVE  TypeInv' /\ Numbered'
<1>1. RoundSend
  BY Zenon DEF AddrRound, NeighRound, RouteRound
<1>2. /\ tab' \in Seq(Entry) /\ rcvq' \in Seq(Msg)
      /\ \A i \in 1..Len(rcvq') : rcvq'[i].seq <= seq
  BY ZenonT(60), <1>1, SendFacts DEF SendOk, RoundSend
<1>3. /\ round' = round + 1 /\ UNCHANGED <<cmd, sys, kdump, seq, dump, cur, flushed, env>>
  BY Zenon, <1>1 DEF RoundSend
<1>4. /\ flushb' = flushb \/ flushb' = << >>
      /\ failedToo' \in {failedToo, FALSE}
      /\ \/ pc' = "request" /\ ret' = ret
         \/ pc' = "over" /\ \E r \in {"ok", "failed", "terminated", "incomplete"} :
                               ret' = [ret EXCEPT !.flush = r]
  BY Zenon DEF AddrRound, NeighRound, RouteRound, Stop
<1>5. ret' \in [flush : {"none", "ok", "failed", "terminated", "incomplete"},
                next : {"none", "ok", "refused", "notavail"}]
  BY Zenon, <1>4 DEF TypeInv
<1>8. flushb' \in Seq(Req) /\ failedToo' \in BOOLEAN /\ round' \in Nat
      /\ pc' \in {"request", "dump", "object", "over", "next"}
  <2>1. failedToo' \in BOOLEAN
    BY ZenonT(60), <1>4 DEF TypeInv
  <2>2. flushb' \in Seq(Req) /\ round' \in Nat
    <3>1. flushb \in Seq(Req) /\ << >> \in Seq(Req) /\ round \in Nat
      BY DEF TypeInv
    <3>2. flushb' \in {flushb, << >>}
      BY ZenonT(60), <1>4
    <3>3. round' = round + 1
      BY ZenonT(60), <1>3
    <3>4. CASE flushb' = flushb
      BY SMTT(60), <3>1, <3>3, <3>4
    <3>5. CASE flushb' = << >>
      BY SMTT(60), <3>1, <3>3, <3>5
    <3> QED BY ZenonT(60), <3>2, <3>4, <3>5
  <2> QED BY ZenonT(60), <1>4, <2>1, <2>2
<1>6. TypeInv'
  BY ZenonT(60), <1>2, <1>3, <1>5, <1>8 DEF TypeInv, Kind
<1>7. Numbered'
  <2>1. \A i \in 1..Len(flushb') : flushb'[i].seq <= seq
    BY SMTT(60), <1>4 DEF Numbered
  <2> QED BY ZenonT(60), <1>2, <1>3, <2>1 DEF Numbered
<1> QED BY ZenonT(60), <1>6, <1>7

(* The first message with one of the last two numbers: there is one, the   *)
(* answer to the command itself.                                           *)
LEMMA NextCommandType ==
    ASSUME TypeInv, Numbered, NextCommand
    PROVE  /\ TypeInv' /\ Numbered'
           /\ \A i \in 1..Len(rcvq') : \/ rcvq'[i].type = "ack"
                                         \/ \E j \in 1..Len(rcvq) : rcvq'[i] = rcvq[j]
<1> DEFINE a == ReplyMsg(seq + 1, "ack", "none")
           q == Append(rcvq, a)
           Mine == {i \in 1..Len(q) : q[i].seq \in {seq, seq + 1}}
           IsFirst(i) == /\ q[i].seq \in {seq, seq + 1}
                         /\ \A j \in 1..(i - 1) : q[j].seq \notin {seq, seq + 1}
           p == CHOOSE i \in 1..Len(q) : IsFirst(i)
<1>0. /\ seq \in Nat /\ rcvq \in Seq(Msg) /\ seq' = seq + 1 /\ pc' = "next"
      /\ UNCHANGED <<cmd, tab, sys, kdump, dump, cur, flushb, flushed, round, failedToo, env>>
  BY ZenonT(40) DEF NextCommand, TypeInv
<1>1. rcvq' = SubSeq(q, p + 1, Len(q))
      /\ ret' = [ret EXCEPT !.next = IF q[p].type = "nack" THEN q[p].err ELSE "ok"]
  BY Zenon DEF NextCommand
<1>2. a \in Msg /\ a.seq = seq + 1 /\ a.type = "ack"
  BY SMTT(60), <1>0, ReplyType
<1> HIDE DEF a
<1>3. /\ q \in Seq(Msg) /\ Len(q) = Len(rcvq) + 1 /\ Len(rcvq) \in Nat
      /\ q[Len(rcvq) + 1] = a
      /\ \A i \in 1..Len(rcvq) : q[i] = rcvq[i]
  BY SMTT(60), <1>0, <1>2, AppendFacts
<1> HIDE DEF q
<1>4. p \in 1..Len(q)
  <2>1. Mine \in SUBSET Nat /\ Len(rcvq) + 1 \in Mine
    BY SMTT(60), <1>2, <1>3
  <2>2. PICK i \in Mine : \A j \in Mine : i <= j
    BY ZenonT(60), <2>1, Smallest
  <2>3. i \in 1..Len(q) /\ \A j \in 1..(i - 1) : j \in 1..Len(q) /\ j \notin Mine
    BY <2>2, <1>3
  <2>4. IsFirst(i)
    BY ZenonT(60), <2>2, <2>3
  <2> QED BY ZenonT(60), <2>3, <2>4
<1> HIDE DEF p
<1>5. q[p] \in Msg
  BY ZenonT(60), <1>3, <1>4, ElementOfSeq
<1>6. ret' \in [flush : {"none", "ok", "failed", "terminated", "incomplete"},
                next : {"none", "ok", "refused", "notavail"}]
  <2>1. (IF q[p].type = "nack" THEN q[p].err ELSE "ok") \in {"none", "ok", "refused", "notavail"}
    BY Zenon, <1>5 DEF Msg
  <2> QED BY SMTT(60), <1>1, <2>1 DEF TypeInv
<1>7. /\ rcvq' \in Seq(Msg) /\ Len(rcvq') = Len(q) - p
      /\ \A i \in 1..Len(rcvq') : rcvq'[i] = q[p + i] /\ p + i \in 1..Len(q)
  <2>1. p + 1 \in 1..(Len(q) + 1) /\ Len(q) \in 0..Len(q) /\ p \in Nat /\ Len(q) \in Nat
    BY <1>3, <1>4
  <2>2. rcvq' \in Seq(Msg)
    BY <1>1, <1>3, <2>1, SubSeqProperties
  <2>3. Len(rcvq') = Len(q) - p
    BY SMTT(60), <1>1, <1>3, <1>4, <2>1, SubSeqProperties
  <2>4. ASSUME NEW i \in 1..Len(rcvq') PROVE rcvq'[i] = q[p + i] /\ p + i \in 1..Len(q)
    BY SMTT(60), <1>1, <1>3, <1>4, <2>1, <2>3, SubSeqProperties
  <2> QED BY Zenon, <2>2, <2>3, <2>4
<1>8. ASSUME NEW i \in 1..Len(rcvq')
      PROVE  \/ rcvq'[i].type = "ack"
             \/ \E j \in 1..Len(rcvq) : rcvq'[i] = rcvq[j]
  <2>1. p + i \in 1..Len(rcvq) \/ p + i = Len(rcvq) + 1
    BY SMTT(60), <1>3, <1>7
  <2> QED BY SMTT(60), <2>1, <1>2, <1>3, <1>7
<1>9. TypeInv'
  BY SMTT(60), <1>0, <1>6, <1>7 DEF TypeInv, Kind
<1>10. Numbered'
  <2>1. \A i \in 1..Len(rcvq) : rcvq[i].seq <= seq + 1
    BY SMTT(60), <1>0, MsgTypes DEF Numbered
  <2>2. \A i \in 1..Len(q) : i \in 1..Len(rcvq) \/ i = Len(rcvq) + 1
    BY SMTT(60), <1>3
  <2>3. \A i \in 1..Len(q) : q[i].seq <= seq + 1
    BY SMTT(60), <1>0, <1>2, <1>3, <2>1, <2>2
  <2>4. \A i \in 1..Len(flushb) : flushb[i].seq <= seq + 1
    BY SMTT(60), <1>0, MsgTypes DEF Numbered
  <2>5. dump <= seq + 1
    BY SMTT(60), <1>0 DEF Numbered, TypeInv
  <2> QED BY SMTT(60), <1>0, <1>7, <2>3, <2>4, <2>5 DEF Numbered
<1> QED BY SMTT(60), <1>8, <1>9, <1>10

LEMMA SubSeqFacts ==
    ASSUME NEW S, NEW t \in Seq(S), NEW lo \in Nat \ {0}, NEW hi \in Int, hi <= Len(t), lo <= hi
    PROVE  /\ SubSeq(t, lo, hi) \in Seq(S) /\ Len(SubSeq(t, lo, hi)) = hi - lo + 1
           /\ \A i \in 1..(hi - lo + 1) : SubSeq(t, lo, hi)[i] = t[lo + i - 1]
<1>1. \A i \in lo..hi : i \in 1..Len(t)
  BY LenProperties
<1>2. \A i \in lo..hi : t[i] \in S
  BY ZenonT(60), <1>1, ElementOfSeq
<1>3. lo \in Int /\ hi \in Int
  OBVIOUS
<1> QED BY SMTT(60), <1>2, <1>3, SubSeqProperties

(* The piece c that the kernel makes of the next n entries of its dump.    *)
Piece(n, c) ==
    /\ kdump.next + n - 1 <= Len(tab) \/ n = 0
    /\ c.type = "chunk" /\ c.seq = dump /\ c.done = (kdump.next + n - 1 >= Len(tab))
    /\ Len(c.objs) = n
    /\ \A i \in 1..n : c.objs[i] = tab[kdump.next + i - 1] /\ kdump.next + i - 1 \in 1..Len(tab)
    /\ rcvq' = Append(rcvq, c)
    /\ kdump' = [on |-> ~(kdump.next + n - 1 >= Len(tab)), next |-> kdump.next + n - 1 + 1]

LEMMA KernelChunkFacts ==
    ASSUME TypeInv, KernelChunk
    PROVE  \E n \in 0..Len(tab), c \in Msg : Piece(n, c)
<1>0. kdump.next \in Nat \ {0} /\ tab \in Seq(Entry) /\ Len(tab) \in Nat /\ dump \in Nat
  BY Zenon, LenProperties DEF TypeInv
<1>1. PICK n \in 0..Len(tab) :
        /\ kdump.next + n - 1 <= Len(tab) \/ n = 0
        /\ rcvq' = Append(rcvq, ChunkMsg(dump, SubSeq(tab, kdump.next, kdump.next + n - 1),
                                         kdump.next + n - 1 >= Len(tab)))
        /\ kdump' = [on |-> ~(kdump.next + n - 1 >= Len(tab)), next |-> kdump.next + n - 1 + 1]
  BY Zenon DEF KernelChunk
<1> DEFINE hi == kdump.next + n - 1
           s == SubSeq(tab, kdump.next, hi)
           c == ChunkMsg(dump, s, hi >= Len(tab))
<1>2. s \in Seq(Entry) /\ Len(s) = n /\ \A i \in 1..n : s[i] = tab[kdump.next + i - 1]
  <2>1. CASE n = 0
    <3>1. s = << >>
      BY <2>1, <1>0
    <3> HIDE DEF s
    <3> QED BY SMTT(60), <3>1, <2>1
  <2>2. CASE n # 0
    <3>1. hi \in Int /\ hi <= Len(tab) /\ kdump.next <= hi /\ hi - kdump.next + 1 = n
      BY <2>2, <1>0, <1>1
    <3> HIDE DEF hi
    <3> QED BY ZenonT(60), <1>0, <3>1, SubSeqFacts
  <2> QED BY ZenonT(60), <2>1, <2>2
<1>3. ASSUME NEW i \in 1..n
      PROVE  kdump.next + i - 1 \in kdump.next..hi /\ kdump.next + i - 1 \in 1..Len(tab)
  BY SMTT(60), <1>0, <1>1
<1>4. (hi >= Len(tab)) \in BOOLEAN
  BY <1>0
<1>5. c \in Msg /\ c.type = "chunk" /\ c.seq = dump /\ c.done = (hi >= Len(tab)) /\ c.objs = s
  <2> HIDE DEF s, hi
  <2> QED BY Zenon, <1>0, <1>2, <1>4 DEF ChunkMsg, Msg
<1> HIDE DEF s, c
<1>6. rcvq' = Append(rcvq, c) /\ kdump' = [on |-> ~(hi >= Len(tab)), next |-> hi + 1]
  BY ZenonT(60), <1>1, <1>4 DEF c, s
<1>7. Len(c.objs) = n /\ \A i \in 1..n : c.objs[i] = tab[kdump.next + i - 1]
  BY ZenonT(60), <1>2, <1>5
<1>8. Piece(n, c)
  BY ZenonT(60), <1>1, <1>3, <1>5, <1>6, <1>7 DEF Piece
<1> QED BY ZenonT(60), <1>5, <1>8

LEMMA KernelChunkType ==
    ASSUME TypeInv, Numbered, KernelChunk
    PROVE  TypeInv' /\ Numbered'
<1>0. /\ UNCHANGED <<cmd, pc, tab, sys, seq, dump, cur, flushb, flushed, round, failedToo, ret, env>>
      /\ kdump.next \in Nat \ {0} /\ Len(tab) \in Nat /\ rcvq \in Seq(Msg)
  BY ZenonT(60), MsgTypes DEF KernelChunk, TypeInv
<1>a. PICK n \in 0..Len(tab), c \in Msg : Piece(n, c)
  BY ZenonT(60), KernelChunkFacts
<1>1. /\ c.seq = dump /\ rcvq' = Append(rcvq, c)
      /\ kdump' = [on |-> ~(kdump.next + n - 1 >= Len(tab)), next |-> kdump.next + n - 1 + 1]
  BY ZenonT(60), <1>a DEF Piece
<1>2. /\ rcvq' \in Seq(Msg) /\ Len(rcvq') = Len(rcvq) + 1 /\ rcvq'[Len(rcvq) + 1] = c
      /\ \A i \in 1..Len(rcvq) : rcvq'[i] = rcvq[i]
      /\ \A i \in 1..Len(rcvq') : i = Len(rcvq) + 1 \/ i \in 1..Len(rcvq)
  BY SMTT(60), <1>0, <1>1, AppendFacts
<1>3. kdump' \in [on : BOOLEAN, next : Nat \ {0}]
  <2> DEFINE b == ~(kdump.next + n - 1 >= Len(tab))
  <2>1. b \in BOOLEAN
    OBVIOUS
  <2>2. kdump.next + n - 1 + 1 \in Nat \ {0}
    BY <1>0
  <2> HIDE DEF b
  <2>3. kdump' = [on |-> b, next |-> kdump.next + n - 1 + 1]
    BY ZenonT(60), <1>1 DEF b
  <2> QED BY ZenonT(60), <2>1, <2>2, <2>3
<1>4. TypeInv'
  BY SMTT(60), <1>0, <1>2, <1>3 DEF TypeInv, Kind
<1>5. Numbered'
  BY ZenonT(60), <1>0, <1>1, <1>2 DEF Numbered
<1> QED BY SMTT(60), <1>4, <1>5

LEMMA OtherProgramType ==
    ASSUME TypeInv, Numbered, OtherProgram
    PROVE  TypeInv' /\ Numbered' /\ env'.disturbed /\ env'.left # MaxEnv
<1>0. /\ UNCHANGED <<cmd, pc, sys, kdump, rcvq, seq, dump, cur, flushb, flushed, round, failedToo, ret>>
      /\ env.left > 0 /\ env \in [left : 0..MaxEnv, added : BOOLEAN, disturbed : BOOLEAN]
      /\ MaxEnv \in Nat /\ tab \in Seq(Entry)
      /\ Kind \in {"addr", "neigh", "route"} /\ (Kind = "addr" => sys.held = {})
  BY ZenonT(60), KindType, FlushAssumption DEF OtherProgram, TypeInv
<1>1. tab' \in Seq(Entry)
  <2>1. CASE \E x \in Names(tab) : tab' = DelObj(tab, x)
    <3>1. PICK x \in Names(tab) : tab' = DelObj(tab, x)
      BY Zenon, <2>1
    <3>2. ObjDeleted(DelObj(tab, x), tab, x)
      BY <1>0, DelObjFacts
    <3> QED BY Zenon, <3>1, <3>2 DEF ObjDeleted
  <2>2. CASE \E x \in Objs \ Names(tab) :
               tab' = IF Kind = "addr"
                      THEN IF \E e \in Range(tab) : Subnet[e.o] = Subnet[x]
                           THEN Append(tab, [o |-> x, st |-> "sec"])
                           ELSE << [o |-> x, st |-> "pri"] >> \o tab
                      ELSE Append(tab, [o |-> x, st |-> "live"])
    <3>1. PICK x \in Objs :
            \/ tab' = Append(tab, [o |-> x, st |-> "sec"])
            \/ tab' = << [o |-> x, st |-> "pri"] >> \o tab
            \/ tab' = Append(tab, [o |-> x, st |-> "live"])
      BY ZenonT(60), <2>2
    <3>2. [o |-> x, st |-> "sec"] \in Entry /\ [o |-> x, st |-> "pri"] \in Entry
          /\ [o |-> x, st |-> "live"] \in Entry
      BY ZenonT(60) DEF Entry
    <3>3. ASSUME NEW e \in Entry PROVE Append(tab, e) \in Seq(Entry) /\ << e >> \o tab \in Seq(Entry)
      BY <1>0
    <3> QED BY ZenonT(60), <3>1, <3>2, <3>3
  <2> QED BY SMTT(60), <2>1, <2>2 DEF OtherProgram
<1>2. /\ env' \in [left : 0..MaxEnv, added : BOOLEAN, disturbed : BOOLEAN]
      /\ env'.disturbed /\ env'.left = env.left - 1
  <2>1. \/ env' = [env EXCEPT !.left = @ - 1, !.disturbed = TRUE]
        \/ env' = [env EXCEPT !.left = @ - 1, !.added = TRUE, !.disturbed = TRUE]
    BY ZenonT(60) DEF OtherProgram
  <2>2. env.left \in 0..MaxEnv /\ env.left - 1 \in 0..MaxEnv
    BY <1>0
  <2> QED BY ZenonT(60), <1>0, <2>1, <2>2
<1>3. TypeInv'
  BY ZenonT(60), <1>0, <1>1, <1>2 DEF TypeInv, Kind
<1>4. Numbered'
  BY Zenon, <1>0 DEF Numbered
<1>5. env'.left # MaxEnv
  BY <1>0, <1>2
<1> QED BY ZenonT(60), <1>2, <1>3, <1>4, <1>5

LEMMA TypeStep ==
    ASSUME TypeInv, Numbered, [Next]_vars
    PROVE  TypeInv' /\ Numbered'
<1>1. CASE UNCHANGED vars
  BY <1>1 DEF vars, TypeInv, Numbered, Kind
<1>2. CASE Next
  BY ZenonT(60), <1>2, QuietStepType, CollectType, RoundType, NextCommandType, KernelChunkType,
     OtherProgramType DEF Next, Program
<1> QED BY ZenonT(60), <1>1, <1>2

=============================================================================
