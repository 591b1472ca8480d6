----------------------------- MODULE FlushProofs -----------------------------
(***************************************************************************)
(* Proofs about Flush for tables, buffers and socket queues of any size    *)
(* and any number of changes made by other programs.                       *)
(***************************************************************************)
EXTENDS FlushLemmas

(* The flush has not returned yet; every round starts with an empty buffer. *)
Flushing == pc \in {"request", "dump", "object"}
InRound == pc \in {"dump", "object"}

RoundStart ==
    /\ Flushing => ret.flush = "none"
    /\ pc = "request" => flushb = << >>
    /\ InRound /\ flushed = 0 => flushb = << >>

(* Nothing follows the last piece of the dump, as long as no request was   *)
(* sent.                                                                   *)
LastPiece ==
    InRound /\ flushed = 0 =>
        /\ \A i \in 1..Len(rcvq) : rcvq[i].seq = dump /\ rcvq[i].done =>
              ~kdump.on /\ \A j \in (i + 1)..Len(rcvq) : rcvq[j].seq # dump
        /\ pc = "object" /\ cur.done => ~kdump.on /\ \A j \in 1..Len(rcvq) : rcvq[j].seq # dump

(* An entry of the table that this round has still to show the callback.   *)
ToCome(p) ==
    \/ kdump.on /\ p >= kdump.next
    \/ \E i \in 1..Len(rcvq) : /\ rcvq[i].seq = dump
                               /\ \E j \in 1..Len(rcvq[i].objs) : rcvq[i].objs[j] = tab[p]
    \/ pc = "object" /\ \E j \in 1..Len(cur.objs) : cur.objs[j] = tab[p]

(* A round in which nothing matched so far, and nobody interfered, has all *)
(* that matches still before it.                                           *)
Covered ==
    InRound /\ flushed = 0 /\ ~env.disturbed =>
        \A p \in 1..Len(tab) : Matches(tab[p]) => ToCome(p)

CInv == TypeInv /\ Numbered /\ RoundStart /\ LastPiece /\ Covered /\ FlushComplete

(* Left alone by refusals and other programs.                              *)
Quiet == sys.deny = {} /\ env.left = MaxEnv

ErrorsGone == sys.deny = {} => OnlyGone(rcvq)

(* Neighbours and routes: every object is on its way through the round at  *)
(* most once, and still in the table t.  It is in the buffer b, in hand    *)
(* (c), in a queued piece of the dump d or still before the index of k.    *)
Flow(t, b, c, q, d, k) ==
    /\ Distinct(b) /\ Names(b) \subseteq Names(t)
    /\ Distinct(c) /\ Names(c) \subseteq Names(t) \ Names(b)
    /\ \A i \in 1..Len(q) : q[i].seq = d =>
         /\ Distinct(q[i].objs)
         /\ Names(q[i].objs) \subseteq Names(t) \ (Names(b) \cup Names(c))
         /\ \A j \in 1..Len(q) : q[j].seq = d /\ j # i =>
               Names(q[i].objs) \cap Names(q[j].objs) = {}
         /\ k.on => \A p \in k.next..Len(t) : t[p].o \notin Names(q[i].objs)
    /\ k.on => \A p \in k.next..Len(t) : t[p].o \notin Names(b) \cup Names(c)

InHand == IF pc = "object" THEN cur.objs ELSE << >>

Pipeline ==
    Kind # "addr" /\ Quiet =>
        /\ Distinct(tab)
        /\ \A i \in 1..Len(rcvq) : rcvq[i].type # "nack"
        /\ InRound => Flow(tab, flushb, InHand, rcvq, dump, kdump)

(* Every round that flushes something makes Active smaller.                *)
Left == Cardinality(Active(tab))

Untouched ==
    /\ pc = "object" => \A j \in 1..Len(cur.objs) : cur.objs[j] \in Range(tab)
    /\ \A i \in 1..Len(rcvq) : rcvq[i].seq = dump =>
          \A j \in 1..Len(rcvq[i].objs) : rcvq[i].objs[j] \in Range(tab)
    /\ \A i \in 1..Len(flushb) : flushb[i].o \in Active(tab)
    /\ flushed > 0 => flushb # << >>
    /\ failedToo => Active(tab) = Names(tab)

Progress ==
    Quiet /\ Flushing =>
        /\ round + Left <= Cardinality(Objs)
        /\ Kind = "neigh" /\ failedToo => round = 0
        /\ InRound => round + 1 + Left <= Cardinality(Objs) \/ Untouched

SInv == TypeInv /\ Numbered /\ RoundStart /\ ErrorsGone /\ Pipeline /\ Progress /\ FlushSucceeds

-----------------------------------------------------------------------------
(* A round that finds nothing to delete has seen all that matches.         *)
LEMMA InitComplete == Init => CInv
<1> SUFFICES ASSUME Init PROVE CInv
  OBVIOUS
<1>1. TypeInv /\ Numbered
  BY Zenon, InitType
<1>2. pc = "request" /\ flushb = << >> /\ ret.flush = "none"
  BY ZenonT(60) DEF Init
<1> QED BY ZenonT(60), <1>1, <1>2 DEF CInv, RoundStart, LastPiece, Covered, FlushComplete, Flushing, InRound

LEMMA RoundStartStep ==
    ASSUME TypeInv, RoundStart, [Next]_vars
    PROVE  RoundStart'
<1> USE DEF RoundStart, Flushing, InRound
<1>1. CASE Request
  BY ZenonT(60), <1>1 DEF Request
<1>2. CASE OutOfRounds
  BY ZenonT(60), <1>2 DEF OutOfRounds
<1>3. CASE DumpRecv
  BY ZenonT(60), <1>3 DEF DumpRecv
<1>4. CASE PassOver
  BY ZenonT(60), <1>4 DEF PassOver
<1>5. CASE Collect
  <2>1. flushed \in Nat /\ ~(pc' = "request") /\ ((pc' = pc /\ ret' = ret) \/ pc' = "over")
        /\ (pc' = pc => flushed' = flushed + 1)
    BY ZenonT(60), <1>5 DEF Collect, TypeInv
  <2> QED BY SMTT(60), <2>1, <1>5 DEF Collect
<1>6. CASE MoreToCome
  BY ZenonT(60), <1>6 DEF MoreToCome
<1>7. CASE NothingFlushed
  BY ZenonT(60), <1>7 DEF NothingFlushed
<1>8. CASE AddrRound \/ NeighRound \/ RouteRound
  BY SMTT(60), <1>8 DEF AddrRound, NeighRound, RouteRound, RoundSend, Stop, DumpDone
<1>9. CASE NextCommand
  BY ZenonT(60), <1>9 DEF NextCommand
<1>10. CASE KernelChunk
  BY ZenonT(60), <1>10 DEF KernelChunk
<1>11. CASE OtherProgram
  BY Zenon, <1>11 DEF OtherProgram
<1>12. CASE UNCHANGED vars
  BY ZenonT(60), <1>12 DEF vars
<1> QED BY SMTT(60), <1>1, <1>2, <1>3, <1>4, <1>5, <1>6, <1>7, <1>8, <1>9, <1>10, <1>11, <1>12 DEF Next, Program

LEMMA LastPieceStep ==
    ASSUME TypeInv, Numbered, LastPiece, [Next]_vars
    PROVE  LastPiece'
<1> USE DEF InRound
<1>0. /\ \A i \in 1..Len(rcvq) : rcvq[i].seq \in Nat
      /\ Len(rcvq) \in Nat /\ seq \in Nat /\ flushed \in Nat
  BY ZenonT(60), MsgTypes DEF TypeInv
<1>1. CASE Request
  <2>1. rcvq' = rcvq /\ dump' = seq + 1 /\ pc' = "dump"
    BY ZenonT(60), <1>1 DEF Request
  <2>2. \A i \in 1..Len(rcvq) : rcvq[i].seq # seq + 1
    BY SMTT(60), <1>0 DEF Numbered
  <2> QED BY ZenonT(60), <2>1, <2>2 DEF LastPiece
<1>2. CASE OutOfRounds \/ NothingFlushed \/ NextCommand
  BY ZenonT(60), <1>2 DEF OutOfRounds, NothingFlushed, NextCommand, LastPiece
<1>3. CASE DumpRecv
  <2>1. /\ rcvq # << >> /\ rcvq' = Tail(rcvq) /\ pc = "dump" /\ rcvq \in Seq(Msg)
        /\ UNCHANGED <<kdump, dump, flushed>>
        /\ IF Head(rcvq).seq = dump THEN cur' = Head(rcvq) /\ pc' = "object"
           ELSE UNCHANGED <<cur, pc>>
    BY ZenonT(60), <1>3 DEF DumpRecv, TypeInv
  <2>2. /\ Head(rcvq) = rcvq[1] /\ 1 \in 1..Len(rcvq) /\ Len(rcvq') = Len(rcvq) - 1
        /\ \A i \in 1..Len(rcvq') : rcvq'[i] = rcvq[i + 1] /\ i + 1 \in 1..Len(rcvq)
    BY ZenonT(60), <2>1, HeadTail
  <2> SUFFICES ASSUME flushed = 0
               PROVE  /\ \A i \in 1..Len(rcvq') : rcvq'[i].seq = dump /\ rcvq'[i].done =>
                            ~kdump.on /\ \A j \in (i + 1)..Len(rcvq') : rcvq'[j].seq # dump
                      /\ pc' = "object" /\ cur'.done =>
                            ~kdump.on /\ \A j \in 1..Len(rcvq') : rcvq'[j].seq # dump
    BY ZenonT(60), <2>1 DEF LastPiece
  <2>3. \A i \in 1..Len(rcvq) : rcvq[i].seq = dump /\ rcvq[i].done =>
              ~kdump.on /\ \A j \in (i + 1)..Len(rcvq) : rcvq[j].seq # dump
    BY ZenonT(60), <2>1 DEF LastPiece
  <2>4. ASSUME NEW i \in 1..Len(rcvq'), rcvq'[i].seq = dump, rcvq'[i].done
        PROVE  ~kdump.on /\ \A j \in (i + 1)..Len(rcvq') : rcvq'[j].seq # dump
    <3>1. i + 1 \in 1..Len(rcvq) /\ rcvq[i + 1].seq = dump /\ rcvq[i + 1].done
      BY ZenonT(60), <2>2, <2>4
    <3>2. ~kdump.on /\ \A j \in (i + 2)..Len(rcvq) : rcvq[j].seq # dump
      BY SMTT(60), <3>1, <2>3
    <3>3. \A j \in (i + 1)..Len(rcvq') : j \in 1..Len(rcvq') /\ j + 1 \in (i + 2)..Len(rcvq)
      BY SMTT(60), <1>0, <2>2
    <3> QED BY ZenonT(60), <3>2, <3>3, <2>2
  <2>5. ASSUME pc' = "object", cur'.done
        PROVE  ~kdump.on /\ \A j \in 1..Len(rcvq') : rcvq'[j].seq # dump
    <3>1. rcvq[1].seq = dump /\ rcvq[1].done
      BY ZenonT(60), <2>1, <2>2, <2>5
    <3>2. ~kdump.on /\ \A j \in 2..Len(rcvq) : rcvq[j].seq # dump
      BY SMTT(60), <3>1, <2>2, <2>3
    <3>3. \A j \in 1..Len(rcvq') : j + 1 \in 2..Len(rcvq)
      BY SMTT(60), <1>0, <2>2
    <3> QED BY ZenonT(60), <3>2, <3>3, <2>2
  <2> QED BY ZenonT(60), <2>4, <2>5
<1>4. CASE PassOver
  <2>1. /\ UNCHANGED <<pc, kdump, rcvq, dump, flushed>> /\ cur' = [cur EXCEPT !.objs = Tail(@)]
        /\ cur \in Msg
    BY ZenonT(60), <1>4 DEF PassOver, TypeInv
  <2>2. cur'.done = cur.done
    BY ZenonT(60), <2>1 DEF Msg
  <2> QED BY ZenonT(60), <2>1, <2>2 DEF LastPiece
<1>5. CASE Collect
  <2>1. flushed' = flushed + 1 \/ pc' = "over"
    BY ZenonT(60), <1>5 DEF Collect
  <2> QED BY SMTT(60), <2>1, <1>0 DEF LastPiece
<1>6. CASE MoreToCome
  BY ZenonT(60), <1>6 DEF MoreToCome, LastPiece
<1>7. CASE AddrRound \/ NeighRound \/ RouteRound
  <2>1. pc' \in {"request", "over"}
    BY ZenonT(60), <1>7 DEF AddrRound, NeighRound, RouteRound, Stop
  <2> QED BY ZenonT(60), <2>1 DEF LastPiece
<1>8. CASE KernelChunk
  <2>1. kdump.on /\ UNCHANGED <<pc, dump, cur, flushed>> /\ rcvq \in Seq(Msg)
    BY ZenonT(60), <1>8 DEF KernelChunk, TypeInv
  <2>a. PICK n \in 0..Len(tab), c \in Msg : Piece(n, c)
    BY ZenonT(60), <1>8, KernelChunkFacts
  <2>2. /\ c.seq = dump /\ rcvq' = Append(rcvq, c) /\ c.done = (kdump.next + n - 1 >= Len(tab))
        /\ kdump' = [on |-> ~(kdump.next + n - 1 >= Len(tab)), next |-> kdump.next + n - 1 + 1]
    BY ZenonT(60), <2>a DEF Piece
  <2>3. c.done => ~kdump'.on
    BY ZenonT(60), <2>2
  <2>4. /\ Len(rcvq') = Len(rcvq) + 1 /\ rcvq'[Len(rcvq) + 1] = c
        /\ \A i \in 1..Len(rcvq) : rcvq'[i] = rcvq[i]
        /\ \A i \in 1..Len(rcvq') : i = Len(rcvq) + 1 \/ i \in 1..Len(rcvq)
    BY SMTT(60), <2>1, <2>2, AppendFacts
  <2> SUFFICES ASSUME InRound, flushed = 0
               PROVE  /\ \A i \in 1..Len(rcvq') : rcvq'[i].seq = dump /\ rcvq'[i].done =>
                            ~kdump'.on /\ \A j \in (i + 1)..Len(rcvq') : rcvq'[j].seq # dump
                      /\ pc = "object" /\ cur.done =>
                            ~kdump'.on /\ \A j \in 1..Len(rcvq') : rcvq'[j].seq # dump
    BY ZenonT(60), <2>1 DEF LastPiece
  <2>5. /\ \A i \in 1..Len(rcvq) : ~(rcvq[i].seq = dump /\ rcvq[i].done)
        /\ ~(pc = "object" /\ cur.done)
    BY ZenonT(60), <2>1 DEF LastPiece
  <2>6. ASSUME NEW i \in 1..Len(rcvq'), rcvq'[i].seq = dump, rcvq'[i].done
        PROVE  ~kdump'.on /\ \A j \in (i + 1)..Len(rcvq') : rcvq'[j].seq # dump
    <3>1. i = Len(rcvq) + 1
      BY ZenonT(60), <2>4, <2>5, <2>6
    <3>2. (i + 1)..Len(rcvq') = {}
      BY SMTT(60), <3>1, <2>4, <1>0
    <3> QED BY ZenonT(60), <3>1, <3>2, <2>3, <2>4, <2>6
  <2> QED BY ZenonT(60), <2>5, <2>6
<1>9. CASE OtherProgram
  BY ZenonT(60), <1>9 DEF OtherProgram, LastPiece
<1>10. CASE UNCHANGED vars
  BY ZenonT(60), <1>10 DEF vars, LastPiece
<1> QED BY ZenonT(60), <1>1, <1>2, <1>3, <1>4, <1>5, <1>6, <1>7, <1>8, <1>9, <1>10 DEF Next, Program

LEMMA CoveredStep ==
    ASSUME TypeInv, Numbered, RoundStart, Covered, [Next]_vars
    PROVE  Covered'
<1> USE DEF InRound
<1>0. /\ Len(rcvq) \in Nat /\ Len(tab) \in Nat /\ flushed \in Nat /\ cur.objs \in Seq(Entry)
      /\ kdump.next \in Nat \ {0}
  BY ZenonT(60), MsgTypes DEF TypeInv
<1>1. CASE Request
  <2>1. kdump' = [on |-> TRUE, next |-> 1] /\ tab' = tab
    BY ZenonT(60), <1>1 DEF Request
  <2>2. \A p \in 1..Len(tab) : kdump'.on /\ p >= kdump'.next
    BY SMTT(60), <2>1
  <2> QED BY ZenonT(60), <2>1, <2>2 DEF Covered, ToCome
<1>2. CASE OutOfRounds \/ NothingFlushed \/ NextCommand
  BY ZenonT(60), <1>2 DEF OutOfRounds, NothingFlushed, NextCommand, Covered
<1>3. CASE DumpRecv
  <2>1. /\ rcvq # << >> /\ rcvq' = Tail(rcvq) /\ pc = "dump" /\ rcvq \in Seq(Msg)
        /\ UNCHANGED <<cmd, kdump, dump, flushed, tab, env, failedToo>>
        /\ IF Head(rcvq).seq = dump THEN cur' = Head(rcvq) /\ pc' = "object"
           ELSE UNCHANGED <<cur, pc>>
    BY ZenonT(60), <1>3 DEF DumpRecv, TypeInv
  <2>2. /\ Head(rcvq) = rcvq[1]
        /\ \A i \in 1..Len(rcvq) : i = 1 \/ (i - 1 \in 1..Len(rcvq') /\ rcvq'[i - 1] = rcvq[i])
    BY ZenonT(60), <2>1, HeadTail
  <2> SUFFICES ASSUME flushed = 0, ~env.disturbed, NEW p \in 1..Len(tab), Matches(tab[p])
               PROVE  ToCome(p)'
    BY ZenonT(60), <2>1 DEF Covered, Matches, Primary
  <2>3. ToCome(p)
    BY ZenonT(60), <2>1 DEF Covered
  <2>4. CASE kdump.on /\ p >= kdump.next
    BY ZenonT(60), <2>1, <2>4 DEF ToCome
  <2>5. ASSUME NEW i \in 1..Len(rcvq), rcvq[i].seq = dump,
               NEW j \in 1..Len(rcvq[i].objs), rcvq[i].objs[j] = tab[p]
        PROVE  ToCome(p)'
    <3>1. CASE i = 1
      BY ZenonT(60), <3>1, <2>1, <2>2, <2>5 DEF ToCome
    <3>2. CASE i # 1
      <4>1. i - 1 \in 1..Len(rcvq') /\ rcvq'[i - 1] = rcvq[i]
        BY Zenon, <3>2, <2>2
      <4> QED BY Zenon, <4>1, <2>1, <2>5 DEF ToCome
    <3> QED BY ZenonT(60), <3>1, <3>2
  <2> QED BY ZenonT(60), <2>1, <2>3, <2>4, <2>5 DEF ToCome
<1>4. CASE PassOver
  <2>1. /\ UNCHANGED <<cmd, pc, kdump, rcvq, dump, flushed, tab, env, failedToo>>
        /\ cur' = [cur EXCEPT !.objs = Tail(@)] /\ cur \in Msg
        /\ cur.objs # << >> /\ ~Matches(Head(cur.objs)) /\ pc = "object"
    BY Zenon, <1>4 DEF PassOver, TypeInv
  <2>2. cur'.objs = Tail(cur.objs)
    BY ZenonT(60), <2>1 DEF Msg
  <2>3. /\ Head(cur.objs) = cur.objs[1]
        /\ \A j \in 1..Len(cur.objs) : j = 1 \/ (j - 1 \in 1..Len(cur'.objs) /\ cur'.objs[j - 1] = cur.objs[j])
    BY SMTT(60), <1>0, <2>1, <2>2, HeadTail
  <2> SUFFICES ASSUME flushed = 0, ~env.disturbed, NEW p \in 1..Len(tab), Matches(tab[p])
               PROVE  ToCome(p)'
    BY ZenonT(60), <2>1 DEF Covered, Matches, Primary
  <2>4. ToCome(p)
    BY ZenonT(60), <2>1 DEF Covered
  <2>5. ASSUME NEW j \in 1..Len(cur.objs), cur.objs[j] = tab[p]
        PROVE  \E l \in 1..Len(cur'.objs) : cur'.objs[l] = tab[p]
    <3>1. j # 1
      BY ZenonT(60), <2>1, <2>3, <2>5
    <3> QED BY ZenonT(60), <3>1, <2>3, <2>5
  <2> QED BY ZenonT(60), <2>1, <2>4, <2>5 DEF ToCome
<1>5. CASE Collect
  <2>1. flushed' = flushed + 1 \/ pc' = "over"
    BY ZenonT(60), <1>5 DEF Collect
  <2> QED BY SMTT(60), <2>1, <1>0 DEF Covered
<1>6. CASE MoreToCome
  <2>1. /\ UNCHANGED <<cmd, kdump, rcvq, dump, flushed, tab, env, failedToo>>
        /\ pc = "object" /\ pc' = "dump" /\ cur.objs = << >>
    BY ZenonT(60), <1>6 DEF MoreToCome
  <2>2. \A p \in 1..Len(tab) : ToCome(p) => ToCome(p)'
    BY <2>1 DEF ToCome
  <2>3. \A p \in 1..Len(tab) : Matches(tab[p])' <=> Matches(tab[p])
    BY ZenonT(60), <2>1 DEF Matches, Primary
  <2> QED BY ZenonT(60), <2>1, <2>2, <2>3 DEF Covered
<1>7. CASE AddrRound \/ NeighRound \/ RouteRound
  <2>1. pc' \in {"request", "over"}
    BY ZenonT(60), <1>7 DEF AddrRound, NeighRound, RouteRound, Stop
  <2> QED BY ZenonT(60), <2>1 DEF Covered
<1>8. CASE KernelChunk
  <2>1. UNCHANGED <<cmd, pc, dump, cur, flushed, tab, env, failedToo>> /\ rcvq \in Seq(Msg)
    BY ZenonT(60), <1>8 DEF KernelChunk, TypeInv
  <2>a. PICK n \in 0..Len(tab), c \in Msg : Piece(n, c)
    BY ZenonT(60), <1>8, KernelChunkFacts
  <2>2. /\ c.seq = dump /\ rcvq' = Append(rcvq, c)
        /\ Len(c.objs) = n /\ \A i \in 1..n : c.objs[i] = tab[kdump.next + i - 1]
        /\ kdump' = [on |-> ~(kdump.next + n - 1 >= Len(tab)), next |-> kdump.next + n - 1 + 1]
    BY ZenonT(60), <2>a DEF Piece
  <2>4. /\ Len(rcvq') = Len(rcvq) + 1 /\ rcvq'[Len(rcvq) + 1] = c
        /\ \A i \in 1..Len(rcvq) : rcvq'[i] = rcvq[i]
        /\ Len(rcvq) + 1 \in 1..Len(rcvq')
        /\ \A i \in 1..Len(rcvq) : i \in 1..Len(rcvq')
    <3>1. /\ Len(rcvq') = Len(rcvq) + 1 /\ rcvq'[Len(rcvq) + 1] = c
          /\ \A i \in 1..Len(rcvq) : rcvq'[i] = rcvq[i]
      BY SMTT(60), <2>1, <2>2, AppendFacts
    <3> QED BY SMTT(60), <3>1, <1>0
  <2> SUFFICES ASSUME InRound, flushed = 0, ~env.disturbed, NEW p \in 1..Len(tab), Matches(tab[p])
               PROVE  ToCome(p)'
    BY ZenonT(60), <2>1 DEF Covered, Matches, Primary
  <2>5. ToCome(p)
    BY ZenonT(60), <2>1 DEF Covered
  <2>6. CASE kdump.on /\ p >= kdump.next
    <3>1. CASE p <= kdump.next + n - 1
      <4>1. p - kdump.next + 1 \in 1..n /\ kdump.next + (p - kdump.next + 1) - 1 = p
        BY SMTT(60), <3>1, <2>6, <1>0
      <4>2. c.objs[p - kdump.next + 1] = tab[p]
        BY Zenon, <4>1, <2>2
      <4> QED BY ZenonT(60), <4>1, <4>2, <2>1, <2>2, <2>4 DEF ToCome
    <3>2. CASE p > kdump.next + n - 1
      <4>1. kdump'.on /\ p >= kdump'.next
        <5>1. ~(kdump.next + n - 1 >= Len(tab)) /\ p >= kdump.next + n - 1 + 1
          BY SMTT(60), <3>2, <1>0
        <5> QED BY ZenonT(60), <5>1, <2>2
      <4> QED BY ZenonT(60), <4>1, <2>1 DEF ToCome
    <3> QED BY SMTT(60), <3>1, <3>2, <1>0
  <2>7. CASE \E i \in 1..Len(rcvq) : /\ rcvq[i].seq = dump
                                     /\ \E j \in 1..Len(rcvq[i].objs) : rcvq[i].objs[j] = tab[p]
    BY ZenonT(60), <2>7, <2>1, <2>4 DEF ToCome
  <2>8. CASE pc = "object" /\ \E j \in 1..Len(cur.objs) : cur.objs[j] = tab[p]
    BY ZenonT(60), <2>8, <2>1 DEF ToCome
  <2> QED BY ZenonT(60), <2>5, <2>6, <2>7, <2>8 DEF ToCome
<1>9. CASE OtherProgram
  BY ZenonT(60), <1>9, OtherProgramType DEF Covered
<1>10. CASE UNCHANGED vars
  BY ZenonT(60), <1>10 DEF vars, Covered, Matches, Primary, ToCome
<1> QED BY SMTT(60), <1>1, <1>2, <1>3, <1>4, <1>5, <1>6, <1>7, <1>8, <1>9, <1>10 DEF Next, Program

LEMMA CompleteStep ==
    ASSUME CInv, [Next]_vars
    PROVE  FlushComplete'
<1> USE DEF FlushComplete
<1>1. CASE NothingFlushed
  <2>1. /\ UNCHANGED <<cmd, tab, failedToo, env>> /\ pc = "object" /\ cur.objs = << >> /\ cur.done
        /\ flushed = 0
    BY ZenonT(60), <1>1 DEF NothingFlushed, DumpDone
  <2>2. ~kdump.on /\ \A j \in 1..Len(rcvq) : rcvq[j].seq # dump
    BY ZenonT(60), <2>1 DEF CInv, LastPiece, InRound
  <2>3. \A p \in 1..Len(tab) : ~ToCome(p)
    BY SMTT(60), <2>1, <2>2 DEF ToCome
  <2> QED BY ZenonT(60), <2>1, <2>3 DEF CInv, Covered, InRound, Matches, Primary
<1>2. CASE AddrRound \/ NeighRound \/ RouteRound
  <2>1. \/ ret' = ret /\ pc = "object"
        \/ ret' = [ret EXCEPT !.flush = "ok"] /\ Primary
        \/ \E r \in {"failed", "terminated", "incomplete"} : ret' = [ret EXCEPT !.flush = r]
    BY ZenonT(60), <1>2 DEF AddrRound, NeighRound, RouteRound, RoundSend, Stop, DumpDone
  <2>2. cmd' = cmd /\ ret \in [flush : {"none", "ok", "failed", "terminated", "incomplete"},
                               next : {"none", "ok", "refused", "notavail"}]
    BY ZenonT(60), <1>2 DEF AddrRound, NeighRound, RouteRound, RoundSend, CInv, TypeInv
  <2>3. pc = "object" => ret.flush = "none"
    BY Zenon DEF CInv, RoundStart, Flushing
  <2>4. Primary' = Primary
    BY ZenonT(60), <2>2 DEF Primary
  <2> QED BY ZenonT(60), <2>1, <2>2, <2>3, <2>4
<1>3. CASE Request \/ OutOfRounds \/ DumpRecv \/ PassOver \/ Collect \/ MoreToCome
  <2>1. ret.flush = "none"
    BY SMTT(60), <1>3 DEF CInv, RoundStart, Flushing, Request, OutOfRounds, DumpRecv, PassOver, Collect, MoreToCome
  <2>2. ret'.flush \in {"none", "incomplete", "failed", "terminated"}
    BY ZenonT(60), <1>3, <2>1 DEF CInv, TypeInv, Request, OutOfRounds, DumpRecv, PassOver, Collect, MoreToCome
  <2> QED BY ZenonT(60), <2>2
<1>4. CASE NextCommand
  <2>1. UNCHANGED <<cmd, tab, failedToo, env>> /\ ret'.flush = ret.flush
    BY ZenonT(60), <1>4 DEF NextCommand, CInv, TypeInv
  <2> QED BY SMTT(60), <2>1 DEF CInv, Matches, Primary
<1>5. CASE KernelChunk
  BY ZenonT(60), <1>5 DEF KernelChunk, CInv, Matches, Primary
<1>6. CASE OtherProgram
  BY ZenonT(60), <1>6, OtherProgramType DEF CInv
<1>7. CASE UNCHANGED vars
  BY ZenonT(60), <1>7 DEF vars, CInv, Matches, Primary
<1> QED BY SMTT(40), <1>1, <1>2, <1>3, <1>4, <1>5, <1>6, <1>7 DEF Next, Program

LEMMA CompleteInvariance == Spec => []CInv
<1>1. CInv /\ [Next]_vars => CInv'
  BY ZenonT(60), TypeStep, RoundStartStep, LastPieceStep, CoveredStep, CompleteStep DEF CInv
<1> QED BY InitComplete, <1>1, PTL DEF Spec

(* ip flush reports success only when nothing that matches is left, in     *)
(* tables and buffers of any size: the round of ipaddr_flush, neigh's      *)
(* do_show_or_flush or iproute_flush that matched nothing saw all of it,   *)
(* unless another program changed the table meanwhile.                     *)
THEOREM FlushCompleteHolds == Spec => []FlushComplete
<1>1. CInv => FlushComplete
  BY Zenon DEF CInv
<1> QED BY <1>1, CompleteInvariance, PTL

-----------------------------------------------------------------------------
(* Left alone, every request succeeds and every round makes progress.      *)
LEMMA NamesAppend ==
    ASSUME NEW S, NEW t \in Seq(S), NEW e \in S
    PROVE  /\ Names(Append(t, e)) = Names(t) \cup {e.o}
           /\ Distinct(t) /\ e.o \notin Names(t) => Distinct(Append(t, e))
<1> DEFINE a == Append(t, e)
<1>1. /\ Len(a) = Len(t) + 1 /\ Len(t) \in Nat /\ a[Len(t) + 1] = e
      /\ \A i \in 1..Len(t) : a[i] = t[i]
      /\ \A i \in 1..Len(a) : i = Len(t) + 1 \/ i \in 1..Len(t)
  BY SMTT(60), AppendFacts
<1> HIDE DEF a
<1>2. \A i : i \in 1..Len(a) <=> i = Len(t) + 1 \/ i \in 1..Len(t)
  BY <1>1
<1>3. Names(a) = Names(t) \cup {e.o}
  BY ZenonT(60), <1>1, <1>2 DEF Names
<1>4. ASSUME Distinct(t), e.o \notin Names(t) PROVE Distinct(a)
  <2> SUFFICES ASSUME NEW i \in 1..Len(a), NEW j \in 1..Len(a), a[i].o = a[j].o PROVE i = j
    BY ZenonT(60) DEF Distinct
  <2>1. \A l \in 1..Len(t) : t[l].o # e.o
    BY ZenonT(60), <1>4 DEF Names
  <2> QED BY ZenonT(60), <1>1, <1>4, <2>1 DEF Distinct
<1> QED BY ZenonT(60), <1>3, <1>4 DEF a

LEMMA NamesTail ==
    ASSUME NEW S, NEW t \in Seq(S), t # << >>
    PROVE  /\ Names(Tail(t)) \subseteq Names(t) /\ Head(t).o \in Names(t)
           /\ Distinct(t) => Distinct(Tail(t)) /\ Head(t).o \notin Names(Tail(t))
<1> DEFINE a == Tail(t)
<1>1. /\ Head(t) = t[1] /\ 1 \in 1..Len(t) /\ Len(a) = Len(t) - 1 /\ Len(t) \in Nat
      /\ \A i \in 1..Len(a) : a[i] = t[i + 1] /\ i + 1 \in 1..Len(t)
  BY ZenonT(60), HeadTail
<1> HIDE DEF a
<1>2. Names(a) \subseteq Names(t) /\ Head(t).o \in Names(t)
  BY ZenonT(60), <1>1 DEF Names
<1>3. ASSUME Distinct(t) PROVE Distinct(a) /\ Head(t).o \notin Names(a)
  <2>1. ASSUME NEW i \in 1..Len(a), NEW j \in 1..Len(a), a[i].o = a[j].o PROVE i = j
    <3>1. i + 1 = j + 1
      BY SMTT(60), <1>1, <1>3, <2>1 DEF Distinct
    <3> QED BY SMTT(60), <3>1, <1>1
  <2>2. ASSUME NEW i \in 1..Len(a) PROVE a[i].o # t[1].o
    <3>1. i + 1 # 1
      OBVIOUS
    <3> QED BY ZenonT(60), <3>1, <1>1, <1>3 DEF Distinct
  <2> QED BY Zenon, <2>1, <2>2, <1>1 DEF Distinct, Names
<1> QED BY ZenonT(60), <1>2, <1>3 DEF a

LEMMA EmptyNames ==
    /\ Names(<< >>) = {} /\ Distinct(<< >>)
    /\ \A e : Names(<< e >>) = {e.o} /\ Distinct(<< e >>)
<1>1. Names(<< >>) = {} /\ Distinct(<< >>)
  BY DEF Names, Distinct
<1>2. ASSUME NEW e PROVE Names(<< e >>) = {e.o} /\ Distinct(<< e >>)
  <2>1. Len(<< e >>) = 1 /\ << e >>[1] = e
    OBVIOUS
  <2>2. \A i : i \in 1..1 <=> i = 1
    OBVIOUS
  <2> QED BY SMTT(60), <2>1, <2>2 DEF Names, Distinct
<1> QED BY ZenonT(60), <1>1, <1>2

(* Quiet ends with the first step of another program.                      *)
LEMMA QuietStep ==
    ASSUME TypeInv, Numbered, [Next]_vars, Quiet'
    PROVE  Quiet /\ ~OtherProgram /\ cmd' = cmd /\ Kind' = Kind /\ MaxRounds' = MaxRounds
           /\ sys' = sys
<1>1. ~OtherProgram
  BY ZenonT(60), OtherProgramType DEF Quiet
<1>2. sys' = sys /\ cmd' = cmd /\ env'.left = env.left
  <2>1. CASE Request
    BY ZenonT(60), <2>1 DEF Request, TypeInv
  <2>2. CASE OutOfRounds \/ DumpRecv \/ PassOver \/ Collect \/ MoreToCome \/ NothingFlushed
    BY ZenonT(60), <2>2 DEF OutOfRounds, DumpRecv, PassOver, Collect, MoreToCome, NothingFlushed
  <2>3. CASE AddrRound \/ NeighRound \/ RouteRound
    BY SMTT(60), <2>3 DEF AddrRound, NeighRound, RouteRound, RoundSend
  <2>4. CASE NextCommand \/ KernelChunk
    BY ZenonT(60), <2>4 DEF NextCommand, KernelChunk
  <2>5. CASE UNCHANGED vars
    BY SMTT(60), <2>5 DEF vars
  <2> QED BY ZenonT(60), <1>1, <2>1, <2>2, <2>3, <2>4, <2>5 DEF Next, Program
<1> QED BY ZenonT(60), <1>1, <1>2 DEF Quiet, Kind, MaxRounds

LEMMA ErrorsGoneStep ==
    ASSUME TypeInv, Numbered, ErrorsGone, [Next]_vars
    PROVE  ErrorsGone'
<1> SUFFICES ASSUME sys'.deny = {} PROVE OnlyGone(rcvq')
  BY SMTT(60) DEF ErrorsGone
<1>1. sys' = sys
  BY ZenonT(60) DEF Next, Program, vars, Request, OutOfRounds, DumpRecv, PassOver, Collect, MoreToCome,
         NothingFlushed, AddrRound, NeighRound, RouteRound, RoundSend, NextCommand, KernelChunk,
         OtherProgram
<1>2. sys.deny = {} /\ OnlyGone(rcvq)
  BY ZenonT(60), <1>1 DEF ErrorsGone
<1>3. CASE rcvq' = rcvq
  BY ZenonT(60), <1>2, <1>3
<1>4. CASE DumpRecv
  <2>1. \A i \in 1..Len(rcvq') : rcvq'[i] = rcvq[i + 1] /\ i + 1 \in 1..Len(rcvq)
    BY SMTT(60), <1>4, HeadTail DEF DumpRecv, TypeInv
  <2> QED BY ZenonT(60), <2>1, <1>2 DEF OnlyGone
<1>5. CASE rcvq' = SendCheck.q
  BY ZenonT(60), <1>2, <1>5, SendFacts DEF SendOk
<1>6. CASE KernelChunk
  <2>a. PICK n \in 0..Len(tab), c \in Msg : Piece(n, c)
    BY ZenonT(60), <1>6, KernelChunkFacts
  <2>1. c.type = "chunk" /\ rcvq' = Append(rcvq, c)
    BY ZenonT(60), <2>a DEF Piece
  <2>2. /\ rcvq'[Len(rcvq) + 1] = c
        /\ \A i \in 1..Len(rcvq) : rcvq'[i] = rcvq[i]
        /\ \A i \in 1..Len(rcvq') : i = Len(rcvq) + 1 \/ i \in 1..Len(rcvq)
    BY SMTT(60), <2>1, AppendFacts DEF TypeInv
  <2> QED BY ZenonT(60), <1>2, <2>1, <2>2 DEF OnlyGone
<1>7. CASE NextCommand
  BY ZenonT(60), <1>2, <1>7, NextCommandType DEF OnlyGone
<1> QED BY SMTT(60), <1>3, <1>4, <1>5, <1>6, <1>7 DEF Next, Program, vars, Request, OutOfRounds, PassOver,
      Collect, MoreToCome, NothingFlushed, AddrRound, NeighRound, RouteRound, RoundSend, OtherProgram

(* What a send leaves of the table, for what is still on its way.          *)
LEMMA AfterSend ==
    ASSUME TypeInv, Numbered, Kind # "addr", Quiet, Pipeline, InRound
    PROVE  /\ SendCheck.q = rcvq /\ Distinct(SendCheck.t)
           /\ Names(tab) \ Names(flushb) \subseteq Names(SendCheck.t)
           /\ \A p \in kdump.next..Len(SendCheck.t) :
                 \E j \in kdump.next..Len(tab) : SendCheck.t[p].o = tab[j].o
           /\ SendCheck.err = "none"
<1> DEFINE t == SendCheck.t
<1>1. /\ Distinct(tab) /\ Distinct(flushb) /\ Names(flushb) \subseteq Names(tab)
      /\ \A i \in 1..Len(rcvq) : rcvq[i].type # "nack"
  BY Zenon DEF Pipeline, Flow
<1>2. NamesOf(flushb, Len(flushb)) = Names(flushb)
  BY Zenon DEF NamesOf, Names
<1>3. SendCheck.q = rcvq /\ Distinct(t) /\ Thinned(t, tab, Names(flushb))
  BY ZenonT(60), <1>1, <1>2, SendThins DEF Quiet
<1>4. SendCheck.err = "none"
  BY ZenonT(60), <1>1, <1>3, SendError
<1>5. t \in Seq(Entry) /\ Len(t) \in Nat /\ Len(tab) \in Nat /\ kdump.next \in Nat \ {0}
  BY ZenonT(60), SendFacts, LenProperties DEF SendOk, TypeInv
<1> HIDE DEF t
<1>6. Names(tab) \ Names(flushb) \subseteq Names(t)
  <2> SUFFICES ASSUME NEW p \in 1..Len(tab), tab[p].o \notin Names(flushb) PROVE tab[p].o \in Names(t)
    BY ZenonT(60) DEF Names
  <2>1. PICK i \in 1..Len(t) : t[i] = tab[p]
    BY ZenonT(60), <1>3 DEF Thinned
  <2> QED BY ZenonT(60), <2>1 DEF Names
<1>7. ASSUME NEW p \in kdump.next..Len(t)
      PROVE  \E j \in kdump.next..Len(tab) : t[p].o = tab[j].o
  <2>1. p \in 1..Len(t)
    BY <1>5
  <2>2. PICK j \in p..Len(tab) : t[p].o = tab[j].o
    BY ZenonT(60), <2>1, <1>3 DEF Thinned
  <2>3. j \in kdump.next..Len(tab)
    BY SMTT(60), <1>5, <2>1
  <2> QED BY ZenonT(60), <2>2, <2>3
<1> QED BY SMTT(60), <1>3, <1>4, <1>6, <1>7 DEF t

LEMMA PipelineQuiet ==
    ASSUME TypeInv, Numbered, RoundStart, Pipeline, Quiet,
           \/ Request \/ OutOfRounds \/ DumpRecv \/ PassOver \/ MoreToCome \/ NothingFlushed
           \/ NextCommand \/ UNCHANGED vars
    PROVE  Pipeline'
<1> SUFFICES ASSUME Kind # "addr", Kind' # "addr" PROVE Pipeline'
  <2>1. Kind' = Kind
    BY ZenonT(60) DEF Kind, Request, OutOfRounds, DumpRecv, PassOver, MoreToCome, NothingFlushed, NextCommand, vars
  <2> QED BY SMTT(60), <2>1 DEF Pipeline
<1>1. Distinct(tab) /\ \A i \in 1..Len(rcvq) : rcvq[i].type # "nack"
  BY ZenonT(60) DEF Pipeline
<1>2. CASE Request
  <2>1. /\ flushb' = << >> /\ tab' = tab /\ rcvq' = rcvq /\ pc' = "dump" /\ dump' = seq + 1
        /\ InHand' = << >>
    BY ZenonT(60), <1>2 DEF Request, RoundStart, InHand
  <2>2. \A i \in 1..Len(rcvq) : rcvq[i].seq # seq + 1
    <3>1. \A i \in 1..Len(rcvq) : rcvq[i].seq \in Nat /\ rcvq[i].seq <= seq
      BY ZenonT(60), MsgTypes DEF Numbered
    <3>2. seq \in Nat
      BY Zenon DEF TypeInv
    <3> QED BY SMTT(60), <3>1, <3>2
  <2> QED BY ZenonT(60), <1>1, <2>1, <2>2, EmptyNames DEF Pipeline, Flow
<1>3. CASE OutOfRounds \/ NothingFlushed
  BY ZenonT(60), <1>1, <1>3 DEF OutOfRounds, NothingFlushed, Pipeline, InRound
<1>4. CASE MoreToCome
  <2>1. /\ tab' = tab /\ flushb' = flushb /\ rcvq' = rcvq /\ dump' = dump /\ kdump' = kdump
        /\ InHand' = InHand /\ InRound
    BY ZenonT(60), <1>4 DEF MoreToCome, InHand, InRound
  <2> QED BY ZenonT(60), <1>1, <2>1 DEF Pipeline
<1>5. CASE UNCHANGED vars
  BY SMTT(60), <1>1, <1>5 DEF vars, Pipeline, InRound, InHand
<1>6. CASE NextCommand
  <2>1. pc' = "next" /\ tab' = tab
    BY ZenonT(60), <1>6 DEF NextCommand
  <2>2. \A i \in 1..Len(rcvq') : rcvq'[i].type # "nack"
    BY ZenonT(60), <1>1, <1>6, NextCommandType
  <2> QED BY SMTT(60), <1>1, <2>1, <2>2 DEF Pipeline, InRound
<1>7. CASE DumpRecv
  <2>1. /\ \A i \in 1..Len(rcvq') : rcvq'[i] = rcvq[i + 1] /\ i + 1 \in 1..Len(rcvq) /\ i + 1 # 1
        /\ \A i, j \in 1..Len(rcvq') : i # j => i + 1 # j + 1
        /\ Head(rcvq) = rcvq[1] /\ 1 \in 1..Len(rcvq)
    BY SMTT(60), <1>7, HeadTail DEF DumpRecv, TypeInv
  <2>2. /\ tab' = tab /\ flushb' = flushb /\ dump' = dump /\ kdump' = kdump /\ pc = "dump"
        /\ InHand = << >>
        /\ \/ rcvq[1].seq = dump /\ InHand' = rcvq[1].objs
           \/ InHand' = << >>
    BY ZenonT(60), <1>7, <2>1 DEF DumpRecv, InHand
  <2>3. Flow(tab, flushb, << >>, rcvq, dump, kdump)
    BY ZenonT(60), <2>2 DEF InRound, Pipeline
  <2>4. Flow(tab, flushb, InHand', rcvq', dump, kdump)
    <3> DEFINE c == InHand'
    <3>1. /\ Distinct(c) /\ Names(c) \subseteq Names(tab) \ Names(flushb)
          /\ kdump.on => \A p \in kdump.next..Len(tab) : tab[p].o \notin Names(c)
          /\ \A i \in 1..Len(rcvq) : rcvq[i].seq = dump /\ i # 1 =>
                Names(rcvq[i].objs) \cap Names(c) = {}
      <4>1. CASE c = << >>
        BY ZenonT(60), <4>1, EmptyNames
      <4>2. CASE rcvq[1].seq = dump /\ c = rcvq[1].objs
        BY ZenonT(60), <4>2, <2>1, <2>3 DEF Flow
      <4> QED BY ZenonT(60), <4>1, <4>2, <2>2
    <3> HIDE DEF c
    <3>2. \A i \in 1..Len(rcvq') : rcvq'[i].seq = dump =>
             /\ Distinct(rcvq'[i].objs)
             /\ Names(rcvq'[i].objs) \subseteq Names(tab) \ (Names(flushb) \cup Names(c))
             /\ \A j \in 1..Len(rcvq') : rcvq'[j].seq = dump /\ j # i =>
                  Names(rcvq'[i].objs) \cap Names(rcvq'[j].objs) = {}
             /\ kdump.on => \A p \in kdump.next..Len(tab) : tab[p].o \notin Names(rcvq'[i].objs)
      <4> TAKE i \in 1..Len(rcvq')
      <4> HAVE rcvq'[i].seq = dump
      <4>1. PICK s \in 1..Len(rcvq) : s = i + 1 /\ s # 1 /\ rcvq'[i] = rcvq[s]
        BY ZenonT(60), <2>1
      <4>2. /\ Distinct(rcvq[s].objs)
            /\ Names(rcvq[s].objs) \subseteq Names(tab) \ Names(flushb)
            /\ \A j \in 1..Len(rcvq) : rcvq[j].seq = dump /\ j # s =>
                  Names(rcvq[s].objs) \cap Names(rcvq[j].objs) = {}
            /\ kdump.on => \A p \in kdump.next..Len(tab) : tab[p].o \notin Names(rcvq[s].objs)
        BY ZenonT(60), <2>3, <4>1 DEF Flow
      <4>3. Names(rcvq[s].objs) \cap Names(c) = {}
        BY ZenonT(60), <3>1, <4>1
      <4>4. ASSUME NEW j \in 1..Len(rcvq'), rcvq'[j].seq = dump, j # i
            PROVE  Names(rcvq[s].objs) \cap Names(rcvq'[j].objs) = {}
        <5>1. j + 1 \in 1..Len(rcvq) /\ rcvq'[j] = rcvq[j + 1] /\ j + 1 # s
          BY SMTT(60), <2>1, <4>1, <4>4
        <5> QED BY ZenonT(60), <4>2, <4>4, <5>1
      <4> QED BY ZenonT(60), <4>1, <4>2, <4>3, <4>4
    <3>3. Flow(tab, flushb, c, rcvq', dump, kdump)
      BY ZenonT(60), <2>3, <3>1, <3>2 DEF Flow
    <3> QED BY ZenonT(60), <3>3 DEF c
  <2> QED BY ZenonT(60), <1>1, <2>1, <2>2, <2>4 DEF Pipeline
<1>8. CASE PassOver
  <2>1. /\ tab' = tab /\ flushb' = flushb /\ dump' = dump /\ kdump' = kdump /\ rcvq' = rcvq
        /\ InHand = cur.objs /\ InHand' = Tail(cur.objs) /\ cur.objs # << >>
        /\ cur.objs \in Seq(Entry) /\ InRound
    BY ZenonT(60), <1>8, MsgTypes DEF PassOver, TypeInv, Msg, InHand, InRound
  <2>2. /\ Names(InHand') \subseteq Names(InHand)
        /\ Distinct(InHand) => Distinct(InHand')
    BY ZenonT(60), <2>1, NamesTail
  <2>3. Flow(tab, flushb, InHand, rcvq, dump, kdump)
    BY SMTT(60), <2>1 DEF Pipeline
  <2>4. Flow(tab, flushb, InHand', rcvq, dump, kdump)
    BY ZenonT(60), <2>2, <2>3 DEF Flow
  <2> QED BY ZenonT(60), <1>1, <2>1, <2>4 DEF Pipeline
<1> QED BY SMTT(60), <1>2, <1>3, <1>4, <1>5, <1>6, <1>7, <1>8

LEMMA PipelineCollect ==
    ASSUME TypeInv, Numbered, Pipeline, Quiet, Collect
    PROVE  Pipeline'
<1> SUFFICES ASSUME Kind # "addr", Kind' # "addr" PROVE Pipeline'
  <2>1. Kind' = Kind
    BY ZenonT(60) DEF Kind, Collect
  <2> QED BY ZenonT(60), <2>1 DEF Pipeline
<1> DEFINE h == Head(cur.objs)
           m == [o |-> h.o, seq |-> seq + 1]
<1>1. /\ dump' = dump /\ kdump' = kdump /\ pc = "object" /\ cur.objs # << >>
      /\ InHand = cur.objs /\ InRound /\ [cur EXCEPT !.objs = Tail(@)].objs = Tail(cur.objs)
  BY ZenonT(60) DEF Collect, InHand, InRound, TypeInv, Msg
<1>2. cur.objs \in Seq(Entry) /\ flushb \in Seq(Req) /\ m \in Req /\ m.o = h.o
  <2>1. cur.objs \in Seq(Entry) /\ cur.objs # << >>
    BY ZenonT(60), <1>1, MsgTypes
  <2>2. h \in Entry
    BY ZenonT(60), <2>1, HeadTail
  <2>3. h.o \in Objs /\ seq + 1 \in Nat /\ flushb \in Seq(Req)
    BY SMTT(60), <2>2 DEF Entry, TypeInv
  <2> QED BY ZenonT(60), <2>1, <2>3 DEF Req
<1>3. Flow(tab, flushb, cur.objs, rcvq, dump, kdump) /\ Distinct(tab)
      /\ \A i \in 1..Len(rcvq) : rcvq[i].type # "nack"
  BY ZenonT(60), <1>1 DEF Pipeline
<1>4. /\ Names(Tail(cur.objs)) \subseteq Names(cur.objs) /\ h.o \in Names(cur.objs)
      /\ Distinct(Tail(cur.objs)) /\ h.o \notin Names(Tail(cur.objs))
  <2>1. Distinct(cur.objs)
    BY ZenonT(60), <1>3 DEF Flow
  <2> QED BY SMTT(60), <1>1, <1>2, <2>1, NamesTail
<1> HIDE DEF h, m
<1>5. CASE /\ flushb' = Append(flushb, m) /\ InHand' = Tail(cur.objs)
           /\ tab' = tab /\ rcvq' = rcvq
  <2>1. Names(flushb') = Names(flushb) \cup {h.o} /\ Distinct(flushb')
    <3>1. Distinct(flushb) /\ h.o \notin Names(flushb)
      BY SMTT(60), <1>3, <1>4 DEF Flow
    <3> QED BY SMTT(60), <1>2, <1>5, <3>1, NamesAppend
  <2>2. Flow(tab, flushb', Tail(cur.objs), rcvq, dump, kdump)
    BY ZenonT(60), <1>3, <1>4, <2>1 DEF Flow
  <2> QED BY SMTT(60), <1>1, <1>3, <1>5, <2>2 DEF Pipeline
<1>6. ASSUME tab' = SendCheck.t, rcvq' = SendCheck.q
      PROVE  /\ Distinct(tab') /\ rcvq' = rcvq
             /\ Names(tab) \ Names(flushb) \subseteq Names(tab')
             /\ \A p \in kdump.next..Len(tab') : \E j \in kdump.next..Len(tab) : tab'[p].o = tab[j].o
  BY Zenon, <1>1, <1>6, AfterSend
<1>7. CASE tab' = SendCheck.t /\ rcvq' = SendCheck.q /\ pc' = "over"
  BY ZenonT(60), <1>3, <1>6, <1>7 DEF Pipeline, InRound
<1>8. CASE /\ tab' = SendCheck.t /\ rcvq' = SendCheck.q
           /\ flushb' = << m >> /\ InHand' = Tail(cur.objs)
  <2>1. Names(flushb') = {h.o} /\ Distinct(flushb')
    BY SMTT(60), <1>2, <1>8, EmptyNames
  <2>2. /\ Distinct(tab') /\ rcvq' = rcvq
        /\ Names(tab) \ Names(flushb) \subseteq Names(tab')
        /\ \A p \in kdump.next..Len(tab') : \E j \in kdump.next..Len(tab) : tab'[p].o = tab[j].o
    BY SMTT(60), <1>6, <1>8
  <2>3. Flow(tab', flushb', Tail(cur.objs), rcvq, dump, kdump)
    BY ZenonT(60), <1>3, <1>4, <2>1, <2>2 DEF Flow
  <2> QED BY SMTT(60), <1>1, <1>3, <1>8, <2>2, <2>3 DEF Pipeline
<1> QED BY ZenonT(60), <1>1, <1>5, <1>7, <1>8 DEF Collect, InHand, h, m

LEMMA PipelineRound ==
    ASSUME TypeInv, Numbered, Pipeline, Quiet, NeighRound \/ RouteRound \/ AddrRound
    PROVE  Pipeline'
<1>1. CASE AddrRound
  BY ZenonT(60), <1>1 DEF AddrRound, RoundSend, Pipeline, Kind
<1>2. CASE NeighRound \/ RouteRound
  <2>1. Kind # "addr" /\ InRound /\ tab' = SendCheck.t /\ rcvq' = SendCheck.q
    BY ZenonT(60), <1>2 DEF NeighRound, RouteRound, RoundSend, DumpDone, InRound
  <2>2. pc' \in {"over", "request"}
    BY SMTT(60), <1>2 DEF NeighRound, RouteRound, Stop
  <2>3. Distinct(tab') /\ rcvq' = rcvq /\ \A i \in 1..Len(rcvq) : rcvq[i].type # "nack"
    BY ZenonT(60), <2>1, AfterSend DEF Pipeline
  <2> QED BY SMTT(60), <2>2, <2>3 DEF Pipeline, InRound
<1> QED BY ZenonT(60), <1>1, <1>2

LEMMA PipelineKernel ==
    ASSUME TypeInv, Numbered, Pipeline, Quiet, KernelChunk
    PROVE  Pipeline'
<1> SUFFICES ASSUME Kind # "addr", Kind' # "addr" PROVE Pipeline'
  <2>1. Kind' = Kind
    BY ZenonT(60) DEF Kind, KernelChunk
  <2> QED BY Zenon, <2>1 DEF Pipeline
<1>0. /\ kdump.on /\ tab' = tab /\ flushb' = flushb /\ dump' = dump /\ InHand' = InHand /\ InRound' = InRound
      /\ kdump.next \in Nat \ {0} /\ Len(tab) \in Nat /\ Len(rcvq) \in Nat
  BY ZenonT(60), LenProperties DEF KernelChunk, InHand, InRound, TypeInv
<1>a. PICK n \in 0..Len(tab), c \in Msg : Piece(n, c)
  BY ZenonT(60), KernelChunkFacts
<1>b. kdump' = [on |-> ~(kdump.next + n - 1 >= Len(tab)), next |-> kdump.next + n - 1 + 1]
  BY ZenonT(60), <1>a DEF Piece
<1>1. /\ c.type = "chunk" /\ c.seq = dump /\ rcvq' = Append(rcvq, c)
      /\ Len(c.objs) = n
      /\ \A i \in 1..n : c.objs[i] = tab[kdump.next + i - 1]
                         /\ kdump.next + i - 1 \in 1..Len(tab)
  BY SMTT(60), <1>a DEF Piece
<1>2. /\ Len(rcvq') = Len(rcvq) + 1 /\ rcvq'[Len(rcvq) + 1] = c
      /\ \A i \in 1..Len(rcvq) : rcvq'[i] = rcvq[i] /\ i # Len(rcvq) + 1
      /\ \A i \in 1..Len(rcvq') : i = Len(rcvq) + 1 \/ i \in 1..Len(rcvq)
  BY SMTT(60), <1>0, <1>1, AppendFacts DEF TypeInv
<1>3. Distinct(tab') /\ \A i \in 1..Len(rcvq') : rcvq'[i].type # "nack"
  BY ZenonT(60), <1>0, <1>1, <1>2 DEF Pipeline
<1>4. ASSUME InRound PROVE Flow(tab, flushb, InHand, rcvq', dump, kdump')
  <2> DEFINE K == kdump.next..Len(tab)
             K2 == kdump'.next..Len(tab)
  <2>1. Flow(tab, flushb, InHand, rcvq, dump, kdump) /\ Distinct(tab)
    BY ZenonT(60), <1>4 DEF Pipeline
  <2>2. /\ \A i \in 1..n : kdump.next + i - 1 \in K /\ kdump.next + i - 1 \in 1..Len(tab)
        /\ \A i \in 1..n : kdump.next + i - 1 \notin K2
        /\ \A p \in K2 : p \in K /\ p \in 1..Len(tab)
    <3>1. kdump'.next = kdump.next + n
      <4> DEFINE more == ~(kdump.next + n - 1 >= Len(tab))
                 pos == kdump.next + n - 1 + 1
      <4>1. kdump' = [on |-> more, next |-> pos]
        BY ZenonT(60), <1>b
      <4>2. pos = kdump.next + n
        BY SMTT(60), <1>0
      <4> HIDE DEF more, pos
      <4>3. kdump'.next = pos
        BY ZenonT(60), <4>1
      <4> QED BY ZenonT(60), <4>2, <4>3
    <3>2. \A i \in 1..n : kdump.next + i - 1 \in 1..Len(tab)
      BY ZenonT(60), <1>1
    <3>3. \A i \in 1..n : kdump.next + i - 1 \in K
      BY SMTT(60), <1>0, <3>2
    <3>4. \A i \in 1..n : kdump.next + i - 1 \notin K2
      BY SMTT(60), <1>0, <3>1
    <3>5. \A p \in K2 : p \in K /\ p \in 1..Len(tab)
      BY SMTT(60), <1>0, <3>1
    <3> QED BY ZenonT(60), <3>2, <3>3, <3>4, <3>5
  <2>3. Distinct(c.objs)
    <3> SUFFICES ASSUME NEW i \in 1..n, NEW j \in 1..n, c.objs[i].o = c.objs[j].o PROVE i = j
      BY ZenonT(60), <1>1 DEF Distinct
    <3> DEFINE a == kdump.next + i - 1
               b == kdump.next + j - 1
    <3>1. a \in 1..Len(tab) /\ b \in 1..Len(tab) /\ tab[a].o = tab[b].o
      <4>1. a \in 1..Len(tab) /\ c.objs[i] = tab[a]
        BY ZenonT(60), <1>1
      <4>2. b \in 1..Len(tab) /\ c.objs[j] = tab[b]
        BY ZenonT(60), <1>1
      <4> QED BY ZenonT(60), <4>1, <4>2
    <3>2. (a = b) => (i = j)
      BY SMTT(60), <1>0
    <3> HIDE DEF a, b
    <3>3. a = b
      BY ZenonT(60), <2>1, <3>1 DEF Distinct
    <3> QED BY ZenonT(60), <3>2, <3>3
  <2>4. \A x \in Names(c.objs) : \E p \in K : p \in 1..Len(tab) /\ p \notin K2 /\ tab[p].o = x
    BY ZenonT(60), <1>1, <2>2 DEF Names
  <2>5. Names(c.objs) \subseteq Names(tab) /\ \A p \in K2 : tab[p].o \notin Names(c.objs)
    <3> HIDE DEF K, K2
    <3>1. Names(c.objs) \subseteq Names(tab)
      BY ZenonT(60), <2>4 DEF Names
    <3>2. ASSUME NEW p \in K2, tab[p].o \in Names(c.objs) PROVE FALSE
      <4>1. PICK r \in 1..Len(tab) : r \notin K2 /\ tab[r].o = tab[p].o
        BY ZenonT(60), <2>4, <3>2
      <4> QED BY ZenonT(60), <2>1, <2>2, <4>1 DEF Distinct
    <3> QED BY ZenonT(60), <3>1, <3>2
  <2>6. Names(c.objs) \cap (Names(flushb) \cup Names(InHand)) = {}
    BY SMTT(60), <2>1, <2>4, <1>0 DEF Flow
  <2>7. \A i \in 1..Len(rcvq) : rcvq[i].seq = dump => Names(rcvq[i].objs) \cap Names(c.objs) = {}
    BY SMTT(60), <2>1, <2>4, <1>0 DEF Flow
  <2> HIDE DEF K, K2
  <2>8. /\ \A p \in K2 : tab[p].o \notin Names(flushb) \cup Names(InHand)
        /\ \A i \in 1..Len(rcvq) : rcvq[i].seq = dump => \A p \in K2 : tab[p].o \notin Names(rcvq[i].objs)
    BY SMTT(60), <2>1, <2>2, <1>0 DEF Flow, K
  <2>9. \A i \in 1..Len(rcvq') : rcvq'[i].seq = dump =>
         /\ Distinct(rcvq'[i].objs)
         /\ Names(rcvq'[i].objs) \subseteq Names(tab) \ (Names(flushb) \cup Names(InHand))
         /\ \A p \in K2 : tab[p].o \notin Names(rcvq'[i].objs)
    BY SMTT(60), <1>2, <2>1, <2>3, <2>5, <2>6, <2>8 DEF Flow
  <2>10. \A i, j \in 1..Len(rcvq') : rcvq'[i].seq = dump /\ rcvq'[j].seq = dump /\ j # i =>
               Names(rcvq'[i].objs) \cap Names(rcvq'[j].objs) = {}
    BY ZenonT(60), <1>2, <2>1, <2>7 DEF Flow
  <2> QED BY ZenonT(60), <2>1, <2>8, <2>9, <2>10 DEF Flow, K2
<1> QED BY SMTT(60), <1>0, <1>3, <1>4 DEF Pipeline

LEMMA PipelineStep ==
    ASSUME TypeInv, Numbered, RoundStart, Pipeline, [Next]_vars
    PROVE  Pipeline'
<1> SUFFICES ASSUME Quiet' PROVE Pipeline'
  BY ZenonT(60) DEF Pipeline
<1>1. Quiet /\ ~OtherProgram
  BY ZenonT(60), QuietStep
<1> QED BY ZenonT(60), <1>1, PipelineQuiet, PipelineCollect, PipelineRound, PipelineKernel DEF Next, Program

LEMMA Smaller ==
    ASSUME NEW B, IsFiniteSet(B), NEW A \in SUBSET B
    PROVE  /\ IsFiniteSet(A) /\ Cardinality(A) \in Nat /\ Cardinality(B) \in Nat
           /\ Cardinality(A) <= Cardinality(B)
           /\ \A x \in B : x \notin A => Cardinality(A) + 1 <= Cardinality(B)
<1>1. /\ IsFiniteSet(A) /\ Cardinality(A) \in Nat /\ Cardinality(B) \in Nat
      /\ Cardinality(A) <= Cardinality(B)
  BY ZenonT(60), FS_Subset, FS_CardinalityType
<1>2. ASSUME NEW x \in B, x \notin A PROVE Cardinality(A) + 1 <= Cardinality(B)
  <2>1. Cardinality(A) <= Cardinality(B) /\ (Cardinality(A) = Cardinality(B) => A = B)
    BY ZenonT(60), FS_Subset
  <2> QED BY SMTT(60), <2>1, <1>1, <1>2
<1> QED BY ZenonT(60), <1>1, <1>2

LEMMA ActiveFacts ==
    ASSUME NEW t \in Seq(Entry)
    PROVE  /\ Active(t) \subseteq Names(t) /\ Names(t) \subseteq Objs
           /\ IsFiniteSet(Active(t)) /\ Cardinality(Active(t)) \in Nat /\ Cardinality(Objs) \in Nat
           /\ Cardinality(Active(t)) <= Cardinality(Objs)
           /\ \A x \in Names(t) : x \notin Active(t) => Cardinality(Active(t)) + 1 <= Cardinality(Objs)
<1>1. \A p \in 1..Len(t) : t[p].o \in Objs
  <2>1. \A p \in 1..Len(t) : t[p] \in Entry
    BY ZenonT(60), ElementOfSeq
  <2> QED BY ZenonT(60), <2>1 DEF Entry
<1>2. Active(t) \subseteq Names(t) /\ Names(t) \subseteq Objs
  BY ZenonT(60), <1>1 DEF Active, Names
<1> HIDE DEF Active
<1> QED BY ZenonT(60), <1>2, Smaller, FlushAssumption

(* What a send does to Active: never more, and less if the buffer holds    *)
(* something that counts.                                                  *)
LEMMA SendLeft ==
    ASSUME TypeInv, Numbered, Quiet, tab' = SendCheck.t, sys' = sys
    PROVE  /\ Left' \in Nat /\ Left \in Nat /\ Left' <= Left
           /\ flushb # << >> /\ (\A i \in 1..Len(flushb) : flushb[i].o \in Active(tab)) => Left' + 1 <= Left
<1>1. tab' \in Seq(Entry) /\ Active(SendCheck.t) \subseteq Active(tab) \ NamesOf(flushb, Len(flushb))
  BY ZenonT(60), SendFacts DEF SendOk, Quiet
<1>2. Active(tab)' = Active(SendCheck.t)
  BY Zenon DEF Active
<1>3. IsFiniteSet(Active(tab))
  BY ZenonT(60), ActiveFacts DEF TypeInv
<1>4. /\ Left' \in Nat /\ Left \in Nat /\ Left' <= Left
      /\ \A x \in Active(tab) : x \notin Active(tab)' => Left' + 1 <= Left
  BY ZenonT(60), <1>1, <1>2, <1>3, Smaller DEF Left
<1>5. ASSUME flushb # << >>, \A i \in 1..Len(flushb) : flushb[i].o \in Active(tab)
      PROVE  Left' + 1 <= Left
  <2>1. 1 \in 1..Len(flushb)
    BY ZenonT(60), <1>5, HeadTail DEF TypeInv
  <2>2. flushb[1].o \in NamesOf(flushb, Len(flushb))
    BY ZenonT(60), <2>1 DEF NamesOf
  <2> QED BY ZenonT(60), <2>1, <2>2, <1>1, <1>2, <1>4, <1>5
<1> QED BY ZenonT(60), <1>4, <1>5

LEMMA ProgressQuiet ==
    ASSUME TypeInv, Numbered, RoundStart, Progress, Quiet,
           \/ Request \/ OutOfRounds \/ DumpRecv \/ PassOver \/ MoreToCome \/ NothingFlushed
           \/ NextCommand \/ UNCHANGED vars
    PROVE  Progress'
<1>0. sys' = sys /\ tab' = tab /\ Kind' = Kind /\ round' = round /\ failedToo' = failedToo
  BY ZenonT(60) DEF Kind, Request, OutOfRounds, DumpRecv, PassOver, MoreToCome, NothingFlushed, NextCommand, vars
<1>1. Active(tab)' = Active(tab) /\ Left' = Left /\ Names(tab)' = Names(tab) /\ Range(tab)' = Range(tab)
  BY SMTT(60), <1>0 DEF Active, Left
<1>2. CASE OutOfRounds \/ NothingFlushed \/ NextCommand
  BY ZenonT(60), <1>2 DEF OutOfRounds, NothingFlushed, NextCommand, Progress, Flushing
<1>3. CASE Request
  <2>1. Flushing /\ flushb' = << >> /\ rcvq' = rcvq /\ pc' = "dump" /\ dump' = seq + 1 /\ flushed' = 0
    BY ZenonT(60), <1>3 DEF Request, RoundStart, Flushing
  <2>2. \A i \in 1..Len(rcvq) : rcvq[i].seq # seq + 1
    <3>1. \A i \in 1..Len(rcvq) : rcvq[i].seq \in Nat /\ rcvq[i].seq <= seq
      BY ZenonT(60), MsgTypes DEF Numbered
    <3>2. seq \in Nat
      BY ZenonT(60) DEF TypeInv
    <3> QED BY SMTT(60), <3>1, <3>2
  <2>3. round + Left <= Cardinality(Objs) /\ (Kind = "neigh" /\ failedToo => round = 0)
    BY ZenonT(60), <2>1 DEF Progress
  <2>4. (failedToo => Active(tab) = Names(tab)) \/ round + 1 + Left <= Cardinality(Objs)
    <3>1. CASE Active(tab) = Names(tab) \/ ~failedToo
      BY ZenonT(60), <3>1
    <3>2. CASE Active(tab) # Names(tab) /\ failedToo
      <4>1. tab \in Seq(Entry)
        BY ZenonT(60) DEF TypeInv
      <4>2. PICK x \in Names(tab) : x \notin Active(tab)
        BY ZenonT(60), <3>2, <4>1, ActiveFacts
      <4>3. sys.held # {}
        BY ZenonT(60), <4>2 DEF Names, Active
      <4>4. Kind = "neigh"
        BY ZenonT(60), <4>3 DEF TypeInv
      <4>5. round = 0
        BY ZenonT(60), <3>2, <4>4, <2>3
      <4>6. Left + 1 <= Cardinality(Objs) /\ Left \in Nat /\ Cardinality(Objs) \in Nat
        BY ZenonT(60), <4>1, <4>2, ActiveFacts DEF Left
      <4> QED BY SMTT(60), <4>5, <4>6
    <3> QED BY ZenonT(60), <3>1, <3>2
  <2>5. Untouched' \/ round + 1 + Left <= Cardinality(Objs)
    <3>1. \A i \in 1..Len(flushb') : flushb'[i].o \in Active(tab)
      BY SMTT(60), <2>1
    <3>2. ASSUME failedToo => Active(tab) = Names(tab) PROVE Untouched'
      <4>1. \A i \in 1..Len(rcvq') : rcvq'[i].seq # dump'
        BY ZenonT(60), <2>1, <2>2
      <4>2. pc' # "object" /\ ~(flushed' > 0)
        BY SMTT(60), <2>1
      <4>3. failedToo' => Active(tab)' = Names(tab)'
        BY ZenonT(60), <3>2, <1>0, <1>1
      <4> QED BY ZenonT(60), <3>1, <4>1, <4>2, <4>3, <1>1 DEF Untouched
    <3> QED BY ZenonT(60), <2>4, <3>2
  <2> QED BY ZenonT(60), <1>0, <1>1, <2>3, <2>5 DEF Progress
<1>4. CASE MoreToCome \/ PassOver \/ DumpRecv \/ UNCHANGED vars
  <2>1. flushb' = flushb /\ dump' = dump /\ flushed' = flushed
    BY ZenonT(60), <1>4 DEF MoreToCome, PassOver, DumpRecv, vars
  <2>2. (Flushing' => Flushing) /\ (InRound' => InRound)
    BY SMTT(60), <1>4 DEF MoreToCome, PassOver, DumpRecv, vars, Flushing, InRound
  <2>3. ASSUME Untouched, InRound, InRound' PROVE Untouched'
    <3>1. pc' = "object" => \A j \in 1..Len(cur'.objs) : cur'.objs[j] \in Range(tab)
      <4>1. CASE MoreToCome \/ UNCHANGED vars
        BY SMTT(60), <4>1, <2>3 DEF MoreToCome, vars, Untouched
      <4>2. CASE DumpRecv
        <5>1. Head(rcvq) = rcvq[1] /\ 1 \in 1..Len(rcvq)
          BY SMTT(60), <4>2, HeadTail DEF DumpRecv, TypeInv
        <5> QED BY SMTT(60), <4>2, <2>3, <5>1 DEF DumpRecv, Untouched
      <4>3. CASE PassOver
        <5>1. /\ pc = "object" /\ cur.objs # << >> /\ cur.objs \in Seq(Entry)
              /\ cur'.objs = Tail(cur.objs)
          BY ZenonT(60), <4>3, MsgTypes DEF PassOver, TypeInv, Msg
        <5>2. \A j \in 1..Len(cur'.objs) : cur'.objs[j] = cur.objs[j + 1] /\ j + 1 \in 1..Len(cur.objs)
          BY SMTT(60), <5>1, HeadTail
        <5> QED BY ZenonT(60), <2>3, <5>1, <5>2 DEF Untouched
      <4> QED BY ZenonT(60), <1>4, <4>1, <4>2, <4>3
    <3>2. \A i \in 1..Len(rcvq') : \E k \in 1..Len(rcvq) : rcvq'[i] = rcvq[k]
      <4>1. CASE rcvq' = rcvq
        BY ZenonT(60), <4>1
      <4>2. CASE DumpRecv
        <5>1. \A i \in 1..Len(rcvq') : rcvq'[i] = rcvq[i + 1] /\ i + 1 \in 1..Len(rcvq)
          BY SMTT(60), <4>2, HeadTail DEF DumpRecv, TypeInv
        <5> QED BY ZenonT(60), <5>1
      <4> QED BY ZenonT(60), <1>4, <4>1, <4>2 DEF MoreToCome, PassOver, vars
    <3>3. \A i \in 1..Len(rcvq') : rcvq'[i].seq = dump =>
             \A j \in 1..Len(rcvq'[i].objs) : rcvq'[i].objs[j] \in Range(tab)
      BY ZenonT(60), <3>2, <2>3 DEF Untouched
    <3> QED BY ZenonT(60), <1>0, <1>1, <2>1, <2>3, <3>1, <3>3 DEF Untouched
  <2> QED BY SMTT(60), <1>0, <1>1, <2>2, <2>3 DEF Progress
<1> QED BY SMTT(60), <1>2, <1>3, <1>4

LEMMA RoundCount ==
    ASSUME NEW r \in Nat, NEW a \in Nat, NEW b \in Nat, NEW c \in Nat, r + a <= c, b + 1 <= a
    PROVE  r + 1 + b <= c
OBVIOUS

LEMMA ProgressCollect ==
    ASSUME TypeInv, Numbered, Progress, Quiet, Collect
    PROVE  Progress'
<1> DEFINE h == Head(cur.objs)
           m == [o |-> h.o, seq |-> seq + 1]
<1>0. /\ sys' = sys /\ Kind' = Kind /\ round' = round /\ failedToo' = failedToo /\ dump' = dump
      /\ pc = "object" /\ cur.objs # << >> /\ Matches(h) /\ InRound /\ Flushing
      /\ [cur EXCEPT !.objs = Tail(@)].objs = Tail(cur.objs)
  BY ZenonT(60) DEF Collect, Kind, InRound, Flushing, TypeInv, Msg
<1>1. /\ cur.objs \in Seq(Entry) /\ flushb \in Seq(Req) /\ tab \in Seq(Entry)
      /\ round \in Nat /\ flushed \in Nat /\ Left \in Nat /\ Cardinality(Objs) \in Nat
  BY ZenonT(60), MsgTypes, ActiveFacts DEF TypeInv, Left
<1>2. /\ h = cur.objs[1] /\ 1 \in 1..Len(cur.objs) /\ h \in Entry
      /\ \A j \in 1..Len(Tail(cur.objs)) : Tail(cur.objs)[j] = cur.objs[j + 1] /\ j + 1 \in 1..Len(cur.objs)
  BY ZenonT(60), <1>0, <1>1, HeadTail
<1>3. m \in Req /\ m.o = h.o
  <2>1. h.o \in Objs /\ seq + 1 \in Nat
    BY SMTT(60), <1>2 DEF Entry, TypeInv
  <2> QED BY ZenonT(60), <2>1 DEF Req
<1>4. /\ round + Left <= Cardinality(Objs)
      /\ Kind = "neigh" /\ failedToo => round = 0
      /\ round + 1 + Left <= Cardinality(Objs) \/ Untouched
  BY ZenonT(60), <1>0 DEF Progress
<1>5. CASE /\ flushb' = Append(flushb, m) /\ flushed' = flushed + 1
           /\ cur'.objs = Tail(cur.objs) /\ pc' = pc /\ tab' = tab /\ rcvq' = rcvq
  <2>1. Active(tab)' = Active(tab) /\ Left' = Left /\ Names(tab)' = Names(tab) /\ Range(tab)' = Range(tab)
    BY ZenonT(60), <1>0, <1>5 DEF Active, Left
  <2>2. ASSUME Untouched PROVE Untouched'
    <3>1. h \in Range(tab)
      BY ZenonT(60), <1>0, <1>2, <2>2 DEF Untouched
    <3>2. PICK p \in 1..Len(tab) : tab[p] = h
      BY SMTT(60), <3>1, <1>1, RangeFacts
    <3>3. h.o \in Active(tab)
      <4>1. CASE failedToo
        BY ZenonT(60), <4>1, <2>2, <3>2 DEF Untouched, Names
      <4>2. CASE h.st # "failed"
        BY SMTT(60), <4>2, <3>2 DEF Active
      <4> QED BY Zenon, <4>1, <4>2, <1>0 DEF Matches
    <3>4. /\ flushb' # << >> /\ \A i \in 1..Len(flushb') : flushb'[i].o \in Active(tab)
      <4> HIDE DEF m
      <4>1. /\ Len(flushb') = Len(flushb) + 1 /\ Len(flushb) \in Nat /\ flushb'[Len(flushb) + 1] = m
            /\ \A i \in 1..Len(flushb) : flushb'[i] = flushb[i]
            /\ \A i \in 1..Len(flushb') : i = Len(flushb) + 1 \/ i \in 1..Len(flushb)
        BY SMTT(60), <1>1, <1>3, <1>5, AppendFacts
      <4>2. flushb' # << >>
        BY SMTT(60), <4>1
      <4> QED BY SMTT(60), <4>1, <4>2, <1>3, <2>2, <3>3 DEF Untouched
    <3>5. \A j \in 1..Len(cur'.objs) : cur'.objs[j] \in Range(tab)
      BY ZenonT(60), <1>0, <1>2, <1>5, <2>2 DEF Untouched
    <3> HIDE DEF h, m
    <3> QED BY SMTT(60), <1>0, <1>5, <2>1, <2>2, <3>4, <3>5 DEF Untouched
  <2> HIDE DEF h, m
  <2> QED BY ZenonT(60), <1>0, <1>4, <2>1, <2>2 DEF Progress
<1>6. CASE /\ tab' = SendCheck.t /\ Len(flushb) = BufCap
  <2>1. flushb # << >>
    BY ZenonT(60), <1>6, FlushAssumption
  <2>2. Left' \in Nat /\ Left' <= Left /\ (Untouched => Left' + 1 <= Left)
    BY ZenonT(60), <1>0, <1>6, <2>1, SendLeft DEF Untouched
  <2>3. round + 1 + Left' <= Cardinality(Objs)
    <3>1. CASE round + 1 + Left <= Cardinality(Objs)
      <4>1. Left' <= Left /\ Left' \in Nat
        BY ZenonT(60), <2>2
      <4> QED BY SMTT(60), <3>1, <4>1, <1>1
    <3>2. CASE Untouched
      <4>1. Left' + 1 <= Left /\ Left' \in Nat /\ round + Left <= Cardinality(Objs)
        BY ZenonT(60), <2>2, <3>2, <1>4
      <4> QED BY ZenonT(60), <4>1, <1>1, RoundCount
    <3> QED BY ZenonT(60), <3>1, <3>2, <1>4
  <2> HIDE DEF h, m
  <2> QED BY SMTT(60), <1>0, <1>1, <1>4, <2>2, <2>3 DEF Progress
<1> QED BY Zenon, <1>0, <1>5, <1>6 DEF Collect

LEMMA ProgressRound ==
    ASSUME TypeInv, Numbered, Progress, Quiet, NeighRound \/ RouteRound \/ AddrRound
    PROVE  Progress'
<1>1. /\ sys' = sys /\ Kind' = Kind /\ round' = round + 1 /\ tab' = SendCheck.t
      /\ InRound /\ Flushing /\ flushed > 0
  BY ZenonT(60) DEF NeighRound, RouteRound, AddrRound, RoundSend, DumpDone, InRound, Flushing, Kind
<1>2. pc' \in {"over", "request"}
  BY ZenonT(60) DEF NeighRound, RouteRound, AddrRound, Stop
<1>3. ASSUME Flushing' PROVE ~(Kind = "neigh" /\ failedToo')
  <2>1. pc' = "request"
    BY SMTT(60), <1>2, <1>3 DEF Flushing
  <2> QED BY ZenonT(60), <2>1 DEF NeighRound, RouteRound, AddrRound, Stop
<1>4. /\ round + Left <= Cardinality(Objs)
      /\ round + 1 + Left <= Cardinality(Objs) \/ Untouched
      /\ round \in Nat /\ Left \in Nat /\ Cardinality(Objs) \in Nat
  BY ZenonT(60), <1>1, ActiveFacts DEF Progress, TypeInv, Left
<1>5. Left' \in Nat /\ Left' <= Left /\ (Untouched => Left' + 1 <= Left)
  BY ZenonT(60), <1>1, SendLeft DEF Untouched
<1>6. round' + Left' <= Cardinality(Objs)
  <2>1. round \in Nat /\ Left \in Nat /\ Cardinality(Objs) \in Nat /\ Left' \in Nat /\ round' = round + 1
    BY ZenonT(60), <1>1, <1>4, <1>5
  <2>2. CASE round + 1 + Left <= Cardinality(Objs)
    <3>1. Left' <= Left
      BY ZenonT(60), <1>5
    <3> QED BY SMTT(60), <2>1, <2>2, <3>1
  <2>3. CASE Untouched
    <3>1. Left' + 1 <= Left /\ round + Left <= Cardinality(Objs)
      BY ZenonT(60), <1>4, <1>5, <2>3
    <3>2. round + 1 + Left' <= Cardinality(Objs)
      BY ZenonT(60), <2>1, <3>1, RoundCount
    <3> QED BY ZenonT(60), <2>1, <3>2
  <2> QED BY ZenonT(60), <2>2, <2>3, <1>4
<1> QED BY ZenonT(60), <1>1, <1>2, <1>3, <1>6 DEF Progress, InRound

LEMMA ProgressKernel ==
    ASSUME TypeInv, Numbered, Progress, Quiet, KernelChunk
    PROVE  Progress'
<1>0. /\ sys' = sys /\ Kind' = Kind /\ round' = round /\ failedToo' = failedToo /\ dump' = dump
      /\ tab' = tab /\ pc' = pc /\ cur' = cur /\ flushb' = flushb /\ flushed' = flushed
  BY ZenonT(60) DEF KernelChunk, Kind
<1>1. /\ Active(tab)' = Active(tab) /\ Left' = Left /\ Names(tab)' = Names(tab) /\ Range(tab)' = Range(tab)
      /\ InRound' = InRound /\ Flushing' = Flushing
  BY SMTT(60), <1>0 DEF Active, Left, InRound, Flushing
<1>2. ASSUME Untouched PROVE Untouched'
  <2>a. PICK n \in 0..Len(tab), c \in Msg : Piece(n, c)
    BY SMTT(60), KernelChunkFacts
  <2>1. /\ rcvq' = Append(rcvq, c)
        /\ \A i \in 1..Len(c.objs) : \E p \in 1..Len(tab) : c.objs[i] = tab[p]
    BY ZenonT(60), <2>a DEF Piece
  <2>2. /\ rcvq'[Len(rcvq) + 1] = c
        /\ \A i \in 1..Len(rcvq) : rcvq'[i] = rcvq[i]
        /\ \A i \in 1..Len(rcvq') : i = Len(rcvq) + 1 \/ i \in 1..Len(rcvq)
    BY SMTT(60), <2>1, AppendFacts DEF TypeInv
  <2>3. \A i \in 1..Len(c.objs) : c.objs[i] \in Range(tab)
    BY ZenonT(60), <2>1, RangeFacts DEF TypeInv
  <2>4. \A i \in 1..Len(rcvq') : rcvq'[i].seq = dump =>
             \A j \in 1..Len(rcvq'[i].objs) : rcvq'[i].objs[j] \in Range(tab)
    BY Zenon, <1>2, <2>2, <2>3 DEF Untouched
  <2> QED BY ZenonT(60), <1>0, <1>1, <1>2, <2>4 DEF Untouched
<1> QED BY ZenonT(60), <1>0, <1>1, <1>2 DEF Progress

LEMMA ProgressStep ==
    ASSUME TypeInv, Numbered, RoundStart, Progress, [Next]_vars
    PROVE  Progress'
<1> SUFFICES ASSUME Quiet' PROVE Progress'
  BY ZenonT(60) DEF Progress
<1>1. Quiet /\ ~OtherProgram
  BY Zenon, QuietStep
<1> QED BY Zenon, <1>1, ProgressQuiet, ProgressCollect, ProgressRound, ProgressKernel DEF Next, Program

(* Nobody else refuses or interferes: the verdict on a buffer is no error. *)
LEMMA VerdictFine ==
    ASSUME TypeInv, Numbered, ErrorsGone, Pipeline, Quiet, InRound
    PROVE  ~FlushUpdateFails(SendCheck.err)
<1>1. CASE Kind = "addr"
  BY SMTT(60), <1>1, SendError DEF ErrorsGone, Quiet, FlushUpdateFails
<1>2. CASE Kind # "addr"
  BY ZenonT(60), <1>2, AfterSend DEF FlushUpdateFails
<1> QED BY SMTT(60), <1>1, <1>2

LEMMA SucceedsStep ==
    ASSUME TypeInv, Numbered, RoundStart, ErrorsGone, Pipeline, Progress, FlushSucceeds, [Next]_vars
    PROVE  FlushSucceeds'
<1> SUFFICES ASSUME Quiet' PROVE FlushSucceeds'
  BY ZenonT(60) DEF FlushSucceeds, Quiet
<1>1. Quiet /\ ~OtherProgram /\ Kind' = Kind /\ MaxRounds' = MaxRounds
  BY ZenonT(60), QuietStep
<1>2. /\ ret.flush \notin {"failed", "terminated"}
      /\ ret.flush = "incomplete" => Kind = "route" \/ MaxRounds \in 1..Cardinality(Objs)
  BY SMTT(60), <1>1 DEF FlushSucceeds, Quiet
<1>3. CASE ret'.flush = ret.flush
  BY SMTT(60), <1>1, <1>2, <1>3 DEF FlushSucceeds
<1>4. CASE ret'.flush = "ok" \/ (ret'.flush = "incomplete" /\ Kind = "route")
  BY ZenonT(60), <1>1, <1>4 DEF FlushSucceeds
<1>5. CASE OutOfRounds
  <2>1. ret'.flush = "incomplete"
    BY ZenonT(60), <1>5 DEF OutOfRounds, TypeInv
  <2>2. round >= MaxRounds /\ MaxRounds > 0 /\ MaxRounds \in Nat /\ round \in Nat
    BY ZenonT(60), <1>5, KindType DEF OutOfRounds, TypeInv
  <2>3. round + Left <= Cardinality(Objs)
    BY SMTT(60), <1>1, <1>5 DEF Progress, OutOfRounds, Flushing
  <2>4. Left \in Nat /\ Cardinality(Objs) \in Nat
    BY ZenonT(60), ActiveFacts DEF Left, TypeInv
  <2>5. MaxRounds \in 1..Cardinality(Objs)
    BY SMTT(60), <2>2, <2>3, <2>4
  <2> QED BY ZenonT(60), <1>1, <2>1, <2>5 DEF FlushSucceeds
<1>6. CASE Collect \/ AddrRound \/ NeighRound \/ RouteRound
  <2>1. InRound
    BY ZenonT(60), <1>6 DEF Collect, AddrRound, NeighRound, RouteRound, RoundSend, DumpDone, InRound
  <2>2. ~FlushUpdateFails(SendCheck.err)
    BY ZenonT(60), <1>1, <2>1, VerdictFine
  <2>3. \/ ret' = ret \/ ret' = [ret EXCEPT !.flush = "ok"]
        \/ ret' = [ret EXCEPT !.flush = "incomplete"] /\ Kind = "route"
    BY ZenonT(60), <1>6, <2>2 DEF Collect, AddrRound, NeighRound, RouteRound, Stop
  <2>4. ret'.flush = ret.flush \/ ret'.flush = "ok" \/ (ret'.flush = "incomplete" /\ Kind = "route")
    BY ZenonT(60), <2>3 DEF TypeInv
  <2> QED BY ZenonT(60), <1>3, <1>4, <2>4
<1>7. CASE NothingFlushed \/ NextCommand
  <2>1. ret'.flush = ret.flush \/ ret'.flush = "ok"
    BY ZenonT(60), <1>7 DEF NothingFlushed, NextCommand, TypeInv
  <2> QED BY SMTT(60), <1>3, <1>4, <2>1
<1>8. CASE Request \/ DumpRecv \/ PassOver \/ MoreToCome \/ KernelChunk \/ UNCHANGED vars
  BY ZenonT(60), <1>3, <1>8 DEF Request, DumpRecv, PassOver, MoreToCome, KernelChunk, vars
<1> QED BY SMTT(60), <1>1, <1>5, <1>6, <1>7, <1>8 DEF Next, Program

LEMMA InitSucceeds == Init => SInv
<1> SUFFICES ASSUME Init PROVE SInv
  OBVIOUS
<1>1. TypeInv /\ Numbered
  BY Zenon, InitType
<1>2. RoundStart /\ ErrorsGone /\ FlushSucceeds
  BY SMTT(60) DEF Init, RoundStart, ErrorsGone, OnlyGone, FlushSucceeds
<1>3. Pipeline
  <2>1. DOMAIN tab = 1..Len(tab)
    BY SMTT(60), <1>1, LenProperties DEF TypeInv
  <2>2. Distinct(tab)
    BY ZenonT(60), <2>1 DEF Init, Tables, Distinct
  <2> QED BY SMTT(60), <2>2 DEF Init, Pipeline, InRound
<1>4. Progress
  <2>1. Left \in Nat /\ Left <= Cardinality(Objs)
    BY ZenonT(60), <1>1, ActiveFacts DEF TypeInv, Left
  <2> QED BY SMTT(60), <2>1 DEF Init, Progress, InRound
<1> QED BY SMTT(60), <1>1, <1>2, <1>3, <1>4 DEF SInv

(* The inductive invariant for success: the queue holds no error but of    *)
(* what is gone, every object is on its way at most once, and every round  *)
(* that sends deletes makes what a flush counts smaller.                   *)
LEMMA SucceedsInvariance == Spec => []SInv
<1>1. SInv /\ [Next]_vars => SInv'
  <2> SUFFICES ASSUME SInv, [Next]_vars PROVE SInv'
    OBVIOUS
  <2>1. TypeInv /\ Numbered /\ RoundStart /\ ErrorsGone /\ Pipeline /\ Progress /\ FlushSucceeds
    BY ZenonT(60) DEF SInv
  <2>2. TypeInv' /\ Numbered'
    BY ZenonT(60), <2>1, TypeStep
  <2>3. RoundStart'
    BY ZenonT(60), <2>1, RoundStartStep
  <2> QED BY SMTT(60), <2>1, <2>2, <2>3, ErrorsGoneStep, PipelineStep, ProgressStep, SucceedsStep DEF SInv
<1> QED BY <1>1, InitSucceeds, PTL DEF Spec

(* Left alone by other programs and by refusals, ip address, neighbour and *)
(* route flush (flush_update and the loops of ipaddr_flush,                *)
(* do_show_or_flush and iproute_flush) succeed, for every table, buffer    *)
(* size and way the kernel cuts its dumps: no answer to a delete makes     *)
(* them fail, and a limit on the rounds larger than the number of objects  *)
(* is never reached.                                                       *)
THEOREM FlushSucceedsHolds == Spec => []FlushSucceeds
<1>1. SInv => FlushSucceeds
  BY Zenon DEF SInv
<1> QED BY <1>1, SucceedsInvariance, PTL

=============================================================================
