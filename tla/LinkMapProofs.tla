---------------------------- MODULE LinkMapProofs ----------------------------
(***************************************************************************)
(* Proofs about LinkMap for any set of names, any hash function and any    *)
(* number of interfaces, renames and lost notifications.                   *)
(***************************************************************************)
EXTENDS LinkMap, SequenceTheorems, TLAPS

(* A message that announces an interface carries its name (IFLA_IFNAME).   *)
Named(m) == m.type = "new" => m.name \in Names

QueueNamed == \A p \in 1..Len(rcvq) : Named(rcvq[p])

(* An entry has the name of the last message of its index, or it hangs in  *)
(* the bucket of that name.                                                *)
Filed(e, n) ==
    e.in => /\ e.name \in Names
            /\ n \in Names
            /\ e.name = n \/ e.bucket = Hash[n]

CacheFiled == \A i \in Idx : Filed(cache[i], seen[i])

(* The inductive invariant.                                                *)
IInv == TypeOK /\ QueueNamed /\ CacheFiled

-----------------------------------------------------------------------------
Entry == [in : BOOLEAN, name : Names \cup {None}, bucket : Nat, flags : BOOLEAN]

(* ll_remember_index keeps an entry well formed and filed under the name   *)
(* of the message it handled.                                              *)
LEMMA RememberFiles ==
    ASSUME NEW c \in Entry, NEW m \in Message, NEW n \in Names \cup {None},
           Named(m), Filed(c, n), m.type # "done"
    PROVE  /\ Remember(c, m) \in Entry
           /\ Filed(Remember(c, m), IF m.type = "del" THEN None ELSE m.name)
<1>0. m.type \in {"new", "del", "done"} /\ m.name \in Names \cup {None} /\ m.flags \in BOOLEAN
  BY Zenon DEF Message
<1>1. CASE m.type = "del"
  <2>1. Remember(c, m) = NoEntry
    BY Zenon, <1>1 DEF Remember
  <2> QED BY <1>1, <2>1 DEF NoEntry, Entry, Filed
<1>2. CASE m.type = "new" /\ c.in
  <2>1. Remember(c, m) = [c EXCEPT !.bucket = IF c.name = m.name THEN c.bucket ELSE Hash[m.name],
                                   !.flags = m.flags]
    BY Zenon, <1>2 DEF Remember
  <2>2. m.name \in Names /\ Hash[m.name] \in Nat
    BY Zenon, <1>2, LinkMapAssumption DEF Named
  <2> QED BY ZenonT(60), <1>0, <1>2, <2>1, <2>2 DEF Entry, Filed
<1>3. CASE m.type = "new" /\ ~c.in
  <2>1. Remember(c, m) = [in |-> TRUE, name |-> m.name, bucket |-> Hash[m.name], flags |-> m.flags]
    BY Zenon, <1>3 DEF Remember
  <2>2. m.name \in Names /\ Hash[m.name] \in Nat
    BY Zenon, <1>3, LinkMapAssumption DEF Named
  <2> QED BY <1>0, <1>3, <2>1, <2>2 DEF Entry, Filed
<1> QED BY Zenon, <1>0, <1>1, <1>2, <1>3

(* The messages left after recvmsg took the first one.                     *)
LEMMA Received ==
    ASSUME rcvq \in Seq(Message), QueueNamed, rcvq # << >>
    PROVE  /\ Msg \in Message /\ Named(Msg)
           /\ Tail(rcvq) \in Seq(Message)
           /\ \A p \in 1..Len(Tail(rcvq)) : Named(Tail(rcvq)[p])
<1>1. Len(rcvq) \in Nat /\ Len(rcvq) >= 1 /\ Msg = rcvq[1] /\ rcvq[1] \in Message
  BY EmptySeq, LenProperties, HeadTailProperties, ElementOfSeq DEF Msg
<1>2. Named(Msg)
  BY <1>1 DEF QueueNamed
<1>3. /\ Tail(rcvq) \in Seq(Message)
      /\ Len(Tail(rcvq)) = Len(rcvq) - 1
      /\ \A p \in 1..Len(Tail(rcvq)) : Tail(rcvq)[p] = rcvq[p + 1]
  BY Zenon, <1>1, HeadTailProperties
<1>4. ASSUME NEW p \in 1..Len(Tail(rcvq))  PROVE Named(Tail(rcvq)[p])
  BY <1>1, <1>3 DEF QueueNamed
<1> QED BY Zenon, <1>1, <1>2, <1>3, <1>4

(* A message put on the socket.                                            *)
LEMMA Queued ==
    ASSUME rcvq \in Seq(Message), QueueNamed, NEW m \in Message, Named(m)
    PROVE  /\ Append(rcvq, m) \in Seq(Message)
           /\ \A p \in 1..Len(Append(rcvq, m)) : Named(Append(rcvq, m)[p])
<1>1. /\ Append(rcvq, m) \in Seq(Message)
      /\ Len(Append(rcvq, m)) = Len(rcvq) + 1
      /\ \A p \in 1..Len(rcvq) : Append(rcvq, m)[p] = rcvq[p]
      /\ Append(rcvq, m)[Len(rcvq) + 1] = m
  BY AppendProperties
<1>2. Len(rcvq) \in Nat
  BY Zenon, LenProperties
<1>3. ASSUME NEW p \in 1..Len(Append(rcvq, m))  PROVE Named(Append(rcvq, m)[p])
  BY <1>1, <1>2 DEF QueueNamed
<1> QED BY Zenon, <1>1, <1>3

-----------------------------------------------------------------------------
LEMMA InitInv == Init => IInv
<1> SUFFICES ASSUME Init PROVE IInv
  OBVIOUS
<1>1. TypeOK
  <2>1. rcvq \in Seq(Message)
    BY Zenon, EmptySeq DEF Init
  <2>2. cache \in [Idx -> Entry]
    BY Zenon DEF Init, NoEntry, Entry
  <2>3. kdump \in 0..(MaxIdx + 1)
    BY LinkMapAssumption DEF Init
  <2>4. /\ name \in [Idx -> Names \cup {None}]
        /\ up \in [Idx -> BOOLEAN]
        /\ seen \in [Idx -> Names \cup {None}]
        /\ changes \in Nat
    BY Zenon DEF Init
  <2>5. phase \in {"dump", "listen"} /\ lost \in BOOLEAN
    BY Zenon DEF Init
  <2> QED BY Zenon, <2>1, <2>2, <2>3, <2>4, <2>5 DEF TypeOK, Entry
<1>2. QueueNamed
  BY EmptySeq DEF Init, QueueNamed
<1>3. CacheFiled
  BY Zenon DEF Init, CacheFiled, Filed, NoEntry
<1> QED BY Zenon, <1>1, <1>2, <1>3 DEF IInv

(* ll_remember_index on the cache as a whole.                              *)
LEMMA RememberKeeps ==
    ASSUME TypeOK, CacheFiled, NEW m \in Message, Named(m), LlRememberIndex(m)
    PROVE  /\ cache' \in [Idx -> Entry]
           /\ seen' \in [Idx -> Names \cup {None}]
           /\ CacheFiled'
<1>0. /\ m.idx \in Idx /\ m.type \in {"new", "del", "done"} /\ m.name \in Names \cup {None}
      /\ cache \in [Idx -> Entry] /\ seen \in [Idx -> Names \cup {None}]
  BY Zenon DEF Message, TypeOK, Entry
<1>1. CASE m.type = "done"
  <2>1. cache' = cache /\ seen' = seen
    BY Zenon, <1>0, <1>1 DEF LlRememberIndex, Remember
  <2> QED BY Zenon, <1>0, <2>1 DEF CacheFiled
<1>2. CASE m.type # "done"
  <2> DEFINE c == cache[m.idx]
             n == IF m.type = "del" THEN None ELSE m.name
  <2>1. c \in Entry /\ Filed(c, seen[m.idx]) /\ seen[m.idx] \in Names \cup {None}
    BY Zenon, <1>0 DEF CacheFiled
  <2>2. Remember(c, m) \in Entry /\ Filed(Remember(c, m), n)
    BY Zenon, <1>2, <2>1, RememberFiles
  <2>3. cache' = [cache EXCEPT ![m.idx] = Remember(c, m)]
    BY Zenon DEF LlRememberIndex
  <2>4. seen' = [seen EXCEPT ![m.idx] = n]
    BY Zenon, <1>0, <1>2 DEF LlRememberIndex
  <2>5. n \in Names \cup {None}
    BY Zenon, <1>0
  <2>6. ASSUME NEW i \in Idx PROVE Filed(cache'[i], seen'[i])
    <3>1. CASE i = m.idx
      BY Zenon, <1>0, <2>2, <2>3, <2>4, <3>1
    <3>2. CASE i # m.idx
      BY Zenon, <1>0, <2>3, <2>4, <3>2 DEF CacheFiled
    <3> QED BY Zenon, <3>1, <3>2
  <2> QED BY Zenon, <1>0, <2>2, <2>3, <2>4, <2>5, <2>6 DEF CacheFiled
<1> QED BY Zenon, <1>1, <1>2

LEMMA StepInv == IInv /\ [Next]_vars => IInv'
<1> SUFFICES ASSUME IInv, [Next]_vars PROVE IInv'
  OBVIOUS
<1> USE DEF IInv
<1>0. /\ rcvq \in Seq(Message)
      /\ cache \in [Idx -> Entry]
      /\ MaxIdx \in Nat \ {0}
  BY Zenon, LinkMapAssumption DEF TypeOK, Entry
<1>1. CASE KernelLink
  <2>1. PICK i \in Idx :
          \/ \E n \in Names, f \in BOOLEAN :
               /\ name' = [name EXCEPT ![i] = n]
               /\ up' = [up EXCEPT ![i] = f]
               /\ Notify([type |-> "new", dump |-> FALSE, idx |-> i, name |-> n, flags |-> f])
          \/ /\ name[i] # None
             /\ name' = [name EXCEPT ![i] = None]
             /\ up' = [up EXCEPT ![i] = FALSE]
             /\ Notify([type |-> "del", dump |-> FALSE, idx |-> i, name |-> name[i],
                        flags |-> FALSE])
    BY ZenonT(60), <1>1 DEF KernelLink
  <2>2. /\ changes' \in Nat
        /\ UNCHANGED <<kdump, phase, cache, seen>>
    BY <1>1 DEF KernelLink, TypeOK
  <2>3. /\ name' \in [Idx -> Names \cup {None}]
        /\ up' \in [Idx -> BOOLEAN]
    BY ZenonT(60), <2>1 DEF TypeOK
  <2>4. PICK m \in Message : Named(m) /\ Notify(m)
    <3>1. name[i] \in Names \cup {None}
      BY Zenon DEF TypeOK
    <3>2. ASSUME NEW n \in Names, NEW f \in BOOLEAN
          PROVE  LET m == [type |-> "new", dump |-> FALSE, idx |-> i, name |-> n, flags |-> f]
                 IN  m \in Message /\ Named(m)
      BY Zenon DEF Message, Named
    <3>3. LET m == [type |-> "del", dump |-> FALSE, idx |-> i, name |-> name[i], flags |-> FALSE]
          IN  m \in Message /\ Named(m)
      BY Zenon, <3>1 DEF Message, Named
    <3> QED BY Zenon, <2>1, <3>2, <3>3
  <2>5. /\ rcvq' \in Seq(Message)
        /\ QueueNamed'
        /\ lost' \in BOOLEAN
    <3>1. CASE rcvq' = Append(rcvq, m) /\ UNCHANGED lost
      BY Zenon, <1>0, <2>4, <3>1, Queued DEF QueueNamed, TypeOK
    <3>2. CASE lost' = TRUE /\ UNCHANGED rcvq
      BY Zenon, <1>0, <3>2 DEF QueueNamed
    <3> QED BY Zenon, <2>4, <3>1, <3>2 DEF Notify
  <2>6. TypeOK'
    BY Zenon, <2>2, <2>3, <2>5 DEF TypeOK
  <2>7. CacheFiled'
    BY Zenon, <2>2 DEF CacheFiled
  <2> QED BY Zenon, <2>5, <2>6, <2>7
<1>2. CASE KernelDump
  <2>1. UNCHANGED <<name, up, changes, phase, cache, seen, lost>>
    BY Zenon, <1>2 DEF KernelDump
  <2>2. kdump' \in 0..(MaxIdx + 1)
    BY <1>0, <1>2 DEF KernelDump, Idx
  <2>3. rcvq' \in Seq(Message) /\ QueueNamed'
    <3>1. CASE UNCHANGED rcvq
      BY Zenon, <1>0, <3>1 DEF QueueNamed
    <3>2. CASE /\ kdump \in Idx /\ name[kdump] # None
               /\ rcvq' = Append(rcvq, [type |-> "new", dump |-> TRUE, idx |-> kdump,
                                        name |-> name[kdump], flags |-> up[kdump]])
      <4> DEFINE m == [type |-> "new", dump |-> TRUE, idx |-> kdump,
                       name |-> name[kdump], flags |-> up[kdump]]
      <4>1. m \in Message /\ Named(m)
        BY Zenon, <3>2 DEF TypeOK, Message, Named
      <4> HIDE DEF m
      <4>2. rcvq' = Append(rcvq, m)
        BY Zenon, <3>2 DEF m
      <4> QED BY Zenon, <1>0, <4>1, <4>2, Queued DEF QueueNamed
    <3>3. CASE /\ kdump = MaxIdx + 1
               /\ rcvq' = Append(rcvq, [type |-> "done", dump |-> TRUE, idx |-> 1,
                                        name |-> None, flags |-> FALSE])
      <4> DEFINE m == [type |-> "done", dump |-> TRUE, idx |-> 1, name |-> None, flags |-> FALSE]
      <4>1. m \in Message /\ Named(m)
        BY <1>0 DEF Message, Named, Idx
      <4> HIDE DEF m
      <4>2. rcvq' = Append(rcvq, m)
        BY Zenon, <3>3 DEF m
      <4> QED BY Zenon, <1>0, <4>1, <4>2, Queued DEF QueueNamed
    <3> QED BY Zenon, <1>2, <3>1, <3>2, <3>3 DEF KernelDump
  <2>4. TypeOK'
    BY Zenon, <2>1, <2>2, <2>3 DEF TypeOK
  <2>5. CacheFiled'
    BY Zenon, <2>1 DEF CacheFiled
  <2> QED BY Zenon, <2>3, <2>4, <2>5
<1>3. CASE InitMap
  <2>1. /\ rcvq # << >> /\ rcvq' = Tail(rcvq)
        /\ UNCHANGED <<name, up, changes, kdump>>
    BY Zenon, <1>3 DEF InitMap
  <2>2. Msg \in Message /\ Named(Msg) /\ rcvq' \in Seq(Message) /\ QueueNamed'
    BY Zenon, <1>0, <2>1, Received DEF QueueNamed
  <2>3. phase' \in {"dump", "listen"} /\ lost' \in BOOLEAN
    BY Zenon, <1>3 DEF InitMap, TypeOK
  <2>4. /\ cache' \in [Idx -> Entry]
        /\ seen' \in [Idx -> Names \cup {None}]
        /\ CacheFiled'
    <3>1. CASE LlRememberIndex(Msg)
      BY Zenon, <2>2, <3>1, RememberKeeps
    <3>2. CASE UNCHANGED <<cache, seen>>
      BY Zenon, <1>0, <3>2 DEF TypeOK, CacheFiled
    <3> QED BY Zenon, <1>3, <3>1, <3>2 DEF InitMap
  <2>5. TypeOK'
    BY Zenon, <2>1, <2>2, <2>3, <2>4 DEF TypeOK, Entry
  <2> QED BY Zenon, <2>2, <2>4, <2>5
<1>4. CASE Listen
  <2>1. /\ rcvq # << >> /\ rcvq' = Tail(rcvq)
        /\ LlRememberIndex(Msg)
        /\ UNCHANGED <<name, up, changes, kdump, phase, lost>>
    BY Zenon, <1>4 DEF Listen
  <2>2. Msg \in Message /\ Named(Msg) /\ rcvq' \in Seq(Message) /\ QueueNamed'
    BY Zenon, <1>0, <2>1, Received DEF QueueNamed
  <2>3. /\ cache' \in [Idx -> Entry]
        /\ seen' \in [Idx -> Names \cup {None}]
        /\ CacheFiled'
    BY Zenon, <2>1, <2>2, RememberKeeps
  <2>4. TypeOK'
    BY Zenon, <2>1, <2>2, <2>3 DEF TypeOK, Entry
  <2> QED BY Zenon, <2>2, <2>3, <2>4
<1>5. CASE UNCHANGED vars
  BY Zenon, <1>5 DEF vars, TypeOK, QueueNamed, CacheFiled
<1> QED BY Zenon, <1>1, <1>2, <1>3, <1>4, <1>5 DEF Next

LEMMA Invariance == Spec => []IInv
BY InitInv, StepInv, PTL DEF Spec

(* Every variable of the monitor keeps its type, for every sequence of     *)
(* messages ll_remember_index (lib/ll_map.c) may be given.                 *)
THEOREM TypeCorrect == Spec => []TypeOK
<1>1. IInv => TypeOK
  BY Zenon DEF IInv
<1> QED BY <1>1, Invariance, PTL

(* ll_name_to_index never answers from the cache with an interface whose   *)
(* last message carried another name, if no two names share a bucket:      *)
(* moving the entry to the bucket of its new name makes up for the old     *)
(* name left in it.                                                        *)
THEOREM NameLookupSound == Spec => []HitsAreSeen
<1>1. IInv => HitsAreSeen
  <2> SUFFICES ASSUME IInv, NoCollision, NEW n \in Names, NEW i \in Hits(n)
               PROVE  seen[i] = n
    BY Zenon DEF HitsAreSeen
  <2>1. /\ i \in Idx /\ cache[i].in
        /\ cache[i].bucket = Hash[n] /\ cache[i].name = n
    BY Zenon DEF Hits
  <2>2. Filed(cache[i], seen[i])
    BY Zenon, <2>1 DEF IInv, CacheFiled
  <2>3. seen[i] \in Names /\ (n = seen[i] \/ Hash[n] = Hash[seen[i]])
    BY Zenon, <2>1, <2>2 DEF Filed
  <2> QED BY Zenon, <2>3 DEF NoCollision
<1> QED BY <1>1, Invariance, PTL

-----------------------------------------------------------------------------
(* The cache once everything has been handled.                             *)

(* A message about an interface, and what it says of it                    *)
About(m, i) == m.idx = i /\ m.type # "done"

Says(m, i) ==
    IF name[i] = None THEN m.type = "del"
    ELSE m.type = "new" /\ m.name = name[i] /\ m.flags = up[i]

Pending(i) == \E p \in 1..Len(rcvq) : About(rcvq[p], i)

Last(p, i) ==
    About(rcvq[p], i) /\ \A q \in 1..Len(rcvq) : q > p => ~About(rcvq[q], i)

(* The cache holds what the kernel has.                                    *)
Shows(i) ==
    /\ seen[i] = name[i]
    /\ cache[i].in <=> name[i] # None
    /\ name[i] # None => cache[i].flags = up[i]

(* The dump has passed an interface.                                       *)
Covered(i) == kdump = 0 \/ i < kdump

(* The last message waiting about an interface is up to date, or the cache *)
(* is if none is waiting; nothing is known of what the dump will get to.   *)
Told(i) ==
    \/ /\ Covered(i)
       /\ \A p \in 1..Len(rcvq) : Last(p, i) => Says(rcvq[p], i)
       /\ ~Pending(i) => Shows(i)
    \/ ~Covered(i) /\ ~Pending(i) /\ ~cache[i].in /\ seen[i] = None

(* The dump loop will meet a notification and skip it.                     *)
WillSkip ==
    /\ phase = "dump"
    /\ \E p \in 1..Len(rcvq) : /\ ~rcvq[p].dump
                               /\ \A q \in 1..Len(rcvq) : q < p => rcvq[q].type # "done"

(* One NLMSG_DONE, after the dump and before the monitor listens           *)
DoneOnce ==
    /\ \A p \in 1..Len(rcvq) : rcvq[p].type = "done" => phase = "dump" /\ kdump = 0
    /\ \A p, q \in 1..Len(rcvq) : rcvq[p].type = "done" /\ rcvq[q].type = "done" => p = q
    /\ phase = "listen" => kdump = 0

UpToDate == lost \/ WillSkip \/ \A i \in Idx : Told(i)

NInv == IInv /\ DoneOnce /\ UpToDate

LEMMA InitUpToDate == Init => DoneOnce /\ UpToDate
<1> SUFFICES ASSUME Init PROVE DoneOnce /\ UpToDate
  OBVIOUS
<1>1. Len(rcvq) = 0 /\ kdump = 1 /\ phase = "dump"
  BY Zenon, EmptySeq DEF Init
<1>2. ASSUME NEW i \in Idx PROVE Told(i)
  <2>1. ~Covered(i) /\ ~Pending(i)
    BY <1>1, LinkMapAssumption DEF Covered, Pending, Idx
  <2> QED BY Zenon, <2>1 DEF Told, Init, NoEntry
<1> QED BY <1>1, <1>2 DEF DoneOnce, UpToDate

(* A message joins the queue: it is the last about its interface, and the  *)
(* last ones about the others stay.                                        *)
LEMMA LastAppended ==
    ASSUME rcvq \in Seq(Message), NEW m \in Message, rcvq' = Append(rcvq, m)
    PROVE  /\ Len(rcvq) \in Nat /\ Len(rcvq') = Len(rcvq) + 1
           /\ rcvq'[Len(rcvq) + 1] = m /\ \A p \in 1..Len(rcvq) : rcvq'[p] = rcvq[p]
           /\ \A i \in Idx : Pending(i)' <=> Pending(i) \/ About(m, i)
           /\ \A i \in Idx, p \in 1..Len(rcvq) : Last(p, i)' <=> Last(p, i) /\ ~About(m, i)
<1>1. /\ Len(rcvq) \in Nat /\ Len(rcvq') = Len(rcvq) + 1
      /\ rcvq'[Len(rcvq) + 1] = m /\ \A p \in 1..Len(rcvq) : rcvq'[p] = rcvq[p]
  BY AppendProperties, LenProperties
<1>2. ASSUME NEW i \in Idx PROVE Pending(i)' <=> Pending(i) \/ About(m, i)
  <2>1. \A p \in 1..Len(rcvq) : p \in 1..Len(rcvq')
    BY <1>1
  <2>2. \A p \in 1..Len(rcvq') : p \in 1..Len(rcvq) \/ p = Len(rcvq) + 1
    BY <1>1
  <2>3. Len(rcvq) + 1 \in 1..Len(rcvq')
    BY <1>1
  <2> QED BY ZenonT(60), <1>1, <2>1, <2>2, <2>3 DEF Pending, About
<1>3. ASSUME NEW i \in Idx, NEW p \in 1..Len(rcvq)
      PROVE  Last(p, i)' <=> Last(p, i) /\ ~About(m, i)
  <2>1. \A q \in 1..Len(rcvq') : q \in 1..Len(rcvq) \/ q = Len(rcvq) + 1
    BY <1>1
  <2>2. \A q \in 1..Len(rcvq) : q \in 1..Len(rcvq')
    BY <1>1
  <2>3. Len(rcvq) + 1 \in 1..Len(rcvq') /\ Len(rcvq) + 1 > p
    BY <1>1
  <2> QED BY ZenonT(60), <1>1, <2>1, <2>2, <2>3 DEF Last, About
<1> QED BY Zenon, <1>1, <1>2, <1>3

(* The first message leaves the queue.                                     *)
LEMMA LastReceived ==
    ASSUME rcvq \in Seq(Message), rcvq # << >>, rcvq' = Tail(rcvq)
    PROVE  /\ Len(rcvq) \in Nat \ {0} /\ Len(rcvq') = Len(rcvq) - 1
           /\ Msg = rcvq[1] /\ \A p \in 1..Len(rcvq') : rcvq'[p] = rcvq[p + 1]
           /\ \A i \in Idx : Pending(i) <=> Pending(i)' \/ About(Msg, i)
           /\ \A i \in Idx, p \in 1..Len(rcvq') : Last(p, i)' => Last(p + 1, i)
           /\ \A i \in Idx : About(Msg, i) /\ ~Pending(i)' => Last(1, i)
<1>1. /\ Len(rcvq) \in Nat \ {0} /\ Len(rcvq') = Len(rcvq) - 1
      /\ Msg = rcvq[1] /\ \A p \in 1..Len(rcvq') : rcvq'[p] = rcvq[p + 1]
  BY EmptySeq, LenProperties, HeadTailProperties DEF Msg
<1>2. \A q \in 1..Len(rcvq) : q = 1 \/ (q - 1 \in 1..Len(rcvq') /\ rcvq[q] = rcvq'[q - 1])
  BY <1>1
<1>3. \A p \in 1..Len(rcvq') : p + 1 \in 1..Len(rcvq) /\ p + 1 > 1
  BY <1>1
<1>4. 1 \in 1..Len(rcvq)
  BY <1>1
<1>5. ASSUME NEW i \in Idx PROVE Pending(i) <=> Pending(i)' \/ About(Msg, i)
  BY ZenonT(60), <1>1, <1>2, <1>3, <1>4 DEF Pending, About
<1>6. ASSUME NEW i \in Idx, NEW p \in 1..Len(rcvq'), Last(p, i)' PROVE Last(p + 1, i)
  <2>1. About(rcvq[p + 1], i)
    BY Zenon, <1>1, <1>6 DEF Last, About
  <2>2. ASSUME NEW q \in 1..Len(rcvq), q > p + 1 PROVE ~About(rcvq[q], i)
    <3>1. q - 1 \in 1..Len(rcvq') /\ q - 1 > p /\ rcvq[q] = rcvq'[q - 1]
      BY <1>1, <1>2, <2>2
    <3> QED BY Zenon, <1>6, <3>1 DEF Last, About
  <2> QED BY Zenon, <2>1, <2>2 DEF Last
<1>7. ASSUME NEW i \in Idx, About(Msg, i), ~Pending(i)' PROVE Last(1, i)
  <2>1. ASSUME NEW q \in 1..Len(rcvq), q > 1 PROVE ~About(rcvq[q], i)
    <3>1. q # 1
      BY <1>1, <2>1
    <3>2. q - 1 \in 1..Len(rcvq') /\ rcvq[q] = rcvq'[q - 1]
      BY Zenon, <1>2, <3>1
    <3>3. ~About(rcvq'[q - 1], i)
      BY Zenon, <1>7, <3>2 DEF Pending, About
    <3> QED BY Zenon, <3>2, <3>3
  <2>2. About(rcvq[1], i)
    BY Zenon, <1>1, <1>7
  <2> QED BY Zenon, <2>1, <2>2 DEF Last
<1> QED BY Zenon, <1>1, <1>5, <1>6, <1>7

(* A change of an interface: its notification says how it is now, unless   *)
(* it is lost or will be skipped.                                          *)
LEMMA LinkUpToDate ==
    ASSUME NInv, KernelLink
    PROVE  DoneOnce' /\ UpToDate'
<1> USE DEF NInv, IInv
<1>0. rcvq \in Seq(Message) /\ UNCHANGED <<kdump, phase, cache, seen>>
  BY Zenon DEF TypeOK, KernelLink
<1>1. PICK i \in Idx, m \in Message :
        /\ Notify(m) /\ ~m.dump /\ About(m, i) /\ Says(m, i)'
        /\ \A j \in Idx : j # i => name'[j] = name[j] /\ up'[j] = up[j]
  <2>1. PICK i \in Idx :
          \/ \E n \in Names, f \in BOOLEAN :
               /\ name' = [name EXCEPT ![i] = n]
               /\ up' = [up EXCEPT ![i] = f]
               /\ Notify([type |-> "new", dump |-> FALSE, idx |-> i, name |-> n, flags |-> f])
          \/ /\ name' = [name EXCEPT ![i] = None]
             /\ up' = [up EXCEPT ![i] = FALSE]
             /\ Notify([type |-> "del", dump |-> FALSE, idx |-> i, name |-> name[i],
                        flags |-> FALSE])
    BY ZenonT(60) DEF KernelLink
  <2>2. ASSUME NEW n \in Names, NEW f \in BOOLEAN,
               name' = [name EXCEPT ![i] = n], up' = [up EXCEPT ![i] = f],
               Notify([type |-> "new", dump |-> FALSE, idx |-> i, name |-> n, flags |-> f])
        PROVE  \E m \in Message :
                 /\ Notify(m) /\ ~m.dump /\ About(m, i) /\ Says(m, i)'
                 /\ \A j \in Idx : j # i => name'[j] = name[j] /\ up'[j] = up[j]
    <3> DEFINE m == [type |-> "new", dump |-> FALSE, idx |-> i, name |-> n, flags |-> f]
    <3>1. m \in Message /\ ~m.dump /\ About(m, i)
      BY Zenon DEF Message, About
    <3>2. name'[i] = n /\ up'[i] = f /\ n # None
      BY Zenon, <2>2, LinkMapAssumption DEF TypeOK
    <3>3. m.type = "new" /\ m.name = n /\ m.flags = f
      OBVIOUS
    <3>4. Notify(m)
      BY Zenon, <2>2
    <3>5. \A j \in Idx : j # i => name'[j] = name[j] /\ up'[j] = up[j]
      BY Zenon, <2>2 DEF TypeOK
    <3> HIDE DEF m
    <3>6. Says(m, i)'
      BY Zenon, <3>2, <3>3 DEF Says
    <3> QED BY Zenon, <3>1, <3>4, <3>5, <3>6
  <2>3. ASSUME name' = [name EXCEPT ![i] = None], up' = [up EXCEPT ![i] = FALSE],
               Notify([type |-> "del", dump |-> FALSE, idx |-> i, name |-> name[i],
                       flags |-> FALSE])
        PROVE  \E m \in Message :
                 /\ Notify(m) /\ ~m.dump /\ About(m, i) /\ Says(m, i)'
                 /\ \A j \in Idx : j # i => name'[j] = name[j] /\ up'[j] = up[j]
    <3> DEFINE m == [type |-> "del", dump |-> FALSE, idx |-> i, name |-> name[i], flags |-> FALSE]
    <3>1. m \in Message /\ ~m.dump /\ About(m, i)
      BY Zenon DEF Message, About, TypeOK
    <3>2. name'[i] = None /\ m.type = "del"
      BY Zenon, <2>3 DEF TypeOK
    <3>3. Notify(m)
      BY Zenon, <2>3
    <3>4. \A j \in Idx : j # i => name'[j] = name[j] /\ up'[j] = up[j]
      BY Zenon, <2>3 DEF TypeOK
    <3> HIDE DEF m
    <3>5. PICK d \in Message : d = m
      BY Zenon, <3>1
    <3>6. Says(d, i)'
      BY Zenon, <3>2, <3>5 DEF Says
    <3> QED BY Zenon, <3>1, <3>3, <3>4, <3>5, <3>6
  <2> QED BY Zenon, <2>1, <2>2, <2>3
<1>2. CASE lost' /\ UNCHANGED rcvq
  BY Zenon, <1>0, <1>2 DEF DoneOnce, UpToDate
<1>3. CASE rcvq' = Append(rcvq, m) /\ UNCHANGED lost
  <2>1. /\ Len(rcvq) \in Nat /\ Len(rcvq') = Len(rcvq) + 1
        /\ rcvq'[Len(rcvq) + 1] = m /\ \A p \in 1..Len(rcvq) : rcvq'[p] = rcvq[p]
        /\ \A j \in Idx : Pending(j)' <=> Pending(j) \/ About(m, j)
        /\ \A j \in Idx, p \in 1..Len(rcvq) : Last(p, j)' <=> Last(p, j) /\ ~About(m, j)
    BY Zenon, <1>0, <1>1, <1>3, LastAppended
  <2>2. m.type # "done" /\ (\A j \in Idx : About(m, j) <=> j = i)
    BY Zenon, <1>1 DEF About
  <2>3. \A p \in 1..Len(rcvq') : p \in 1..Len(rcvq) \/ p = Len(rcvq) + 1
    BY <2>1
  <2>4. DoneOnce'
    BY Zenon, <1>0, <2>1, <2>2, <2>3 DEF DoneOnce
  <2>5. CASE lost
    <3>1. lost'
      BY Zenon, <1>3, <2>5
    <3> QED BY Zenon, <2>4, <3>1 DEF UpToDate
  <2>6. CASE WillSkip
    <3>1. PICK p \in 1..Len(rcvq) : /\ ~rcvq[p].dump
                                   /\ \A q \in 1..Len(rcvq) : q < p => rcvq[q].type # "done"
      BY Zenon, <2>6 DEF WillSkip
    <3>2. p \in 1..Len(rcvq') /\ ~rcvq'[p].dump
      BY <2>1, <3>1
    <3>3. \A q \in 1..Len(rcvq') : q < p => rcvq'[q].type # "done"
      BY Zenon, <2>1, <2>2, <2>3, <3>1
    <3>4. WillSkip'
      BY Zenon, <1>0, <2>6, <3>2, <3>3 DEF WillSkip
    <3> QED BY Zenon, <2>4, <3>4 DEF UpToDate
  <2>7. CASE kdump # 0
    <3>1. phase = "dump" /\ \A p \in 1..Len(rcvq) : rcvq[p].type # "done"
      BY Zenon, <2>7 DEF DoneOnce, TypeOK
    <3>2. Len(rcvq) + 1 \in 1..Len(rcvq') /\ ~rcvq'[Len(rcvq) + 1].dump
      BY <1>1, <2>1
    <3>3. \A q \in 1..Len(rcvq') : q < Len(rcvq) + 1 => rcvq'[q].type # "done"
      BY <2>1, <2>3, <3>1
    <3>4. WillSkip'
      BY Zenon, <1>0, <3>1, <3>2, <3>3 DEF WillSkip
    <3> QED BY Zenon, <2>4, <3>4 DEF UpToDate
  <2>8. CASE kdump = 0 /\ \A j \in Idx : Told(j)
    <3>1. ASSUME NEW j \in Idx PROVE Told(j)'
      <4>1. Covered(j)' /\ Covered(j)
        BY Zenon, <1>0, <2>8 DEF Covered
      <4>2. CASE j = i
        <5>1. Pending(j)' /\ \A p \in 1..Len(rcvq') : Last(p, j)' => p = Len(rcvq) + 1
          BY Zenon, <2>1, <2>2, <2>3, <4>2
        <5> QED BY Zenon, <1>1, <2>1, <4>1, <4>2, <5>1 DEF Told, Says
      <4>3. CASE j # i
        <5>1. Pending(j)' <=> Pending(j)
          BY Zenon, <2>1, <2>2, <4>3
        <5>2. \A p \in 1..Len(rcvq') : Last(p, j)' => p \in 1..Len(rcvq) /\ Last(p, j)
          <6>1. \A p : p = Len(rcvq) + 1 => ~Last(p, j)'
            BY Zenon, <2>1, <2>2, <4>3 DEF Last
          <6> QED BY Zenon, <2>1, <2>3, <6>1
        <5>3. name'[j] = name[j] /\ up'[j] = up[j]
          BY Zenon, <1>1, <4>3
        <5>4. \A p \in 1..Len(rcvq) : Says(rcvq[p], j) => Says(rcvq[p], j)'
          BY Zenon, <2>1, <5>3 DEF Says
        <5>5. Shows(j) => Shows(j)'
          BY Zenon, <1>0, <5>3 DEF Shows
        <5> QED BY ZenonT(60), <2>8, <4>1, <5>1, <5>2, <5>4, <5>5 DEF Told, Says
      <4> QED BY Zenon, <4>2, <4>3
    <3> QED BY Zenon, <2>4, <3>1 DEF UpToDate
  <2> QED BY Zenon, <2>4, <2>5, <2>6, <2>7, <2>8 DEF UpToDate
<1> QED BY Zenon, <1>1, <1>2, <1>3 DEF Notify

(* The dump reaches the next interface, or its end.                        *)
LEMMA DumpUpToDate ==
    ASSUME NInv, KernelDump
    PROVE  DoneOnce' /\ UpToDate'
<1> USE DEF NInv, IInv
<1>0. /\ rcvq \in Seq(Message) /\ kdump \in 1..(MaxIdx + 1) /\ MaxIdx \in Nat \ {0}
      /\ UNCHANGED <<name, up, phase, cache, seen, lost>>
      /\ phase = "dump" /\ \A p \in 1..Len(rcvq) : rcvq[p].type # "done"
  BY SMTT(60), LinkMapAssumption DEF TypeOK, KernelDump, DoneOnce
<1>1. \A i \in Idx : Covered(i) <=> i < kdump
  BY <1>0 DEF Covered
<1>2. CASE kdump \in Idx /\ kdump' = kdump + 1 /\ name[kdump] = None /\ rcvq' = rcvq
  <2>1. DoneOnce' /\ (WillSkip => WillSkip') /\ (lost => lost')
    BY Zenon, <1>0, <1>2 DEF DoneOnce, WillSkip
  <2>2. ASSUME NEW i \in Idx, Told(i) PROVE Told(i)'
    <3>1. Covered(i)' <=> (Covered(i) \/ i = kdump)
      BY <1>0, <1>1, <1>2 DEF Covered, Idx
    <3>2. i = kdump => ~Covered(i) /\ name[i] = None
      BY <1>1, <1>2 DEF Idx
    <3> QED BY Zenon, <1>0, <1>2, <2>2, <3>1, <3>2 DEF Told, Pending, Last, Says, Shows
  <2> QED BY Zenon, <2>1, <2>2 DEF UpToDate
<1>3. ASSUME NEW m \in Message, m.dump, rcvq' = Append(rcvq, m),
             \/ \E k \in Idx : /\ kdump = k /\ kdump' = k + 1
                               /\ About(m, k) /\ Says(m, k)'
             \/ kdump = MaxIdx + 1 /\ kdump' = 0 /\ m.type = "done"
      PROVE  DoneOnce' /\ UpToDate'
  <2>1. /\ Len(rcvq) \in Nat /\ Len(rcvq') = Len(rcvq) + 1
        /\ rcvq'[Len(rcvq) + 1] = m /\ \A p \in 1..Len(rcvq) : rcvq'[p] = rcvq[p]
        /\ \A j \in Idx : Pending(j)' <=> Pending(j) \/ About(m, j)
        /\ \A j \in Idx, p \in 1..Len(rcvq) : Last(p, j)' <=> Last(p, j) /\ ~About(m, j)
    BY Zenon, <1>0, <1>3, LastAppended
  <2>2. \A p \in 1..Len(rcvq') : p \in 1..Len(rcvq) \/ p = Len(rcvq) + 1
    BY <2>1
  <2>3. DoneOnce'
    BY <1>0, <1>3, <2>1, <2>2 DEF DoneOnce, About
  <2>4. CASE lost
    <3>1. lost'
      BY Zenon, <1>0, <2>4
    <3> QED BY Zenon, <2>3, <3>1 DEF UpToDate
  <2>5. CASE WillSkip
    <3>1. PICK p \in 1..Len(rcvq) : ~rcvq[p].dump
      BY Zenon, <2>5 DEF WillSkip
    <3>2. p \in 1..Len(rcvq') /\ ~rcvq'[p].dump
      BY <2>1, <3>1
    <3>3. \A q \in 1..Len(rcvq') : q < p => rcvq'[q].type # "done"
      BY <1>0, <2>1, <2>2
    <3>4. WillSkip'
      BY Zenon, <1>0, <3>2, <3>3 DEF WillSkip
    <3> QED BY Zenon, <2>3, <3>4 DEF UpToDate
  <2>6. ASSUME NEW i \in Idx, Told(i) PROVE Told(i)'
    <3>1. \A p \in 1..Len(rcvq) : Says(rcvq[p], i) => Says(rcvq[p], i)'
      BY Zenon, <1>0, <2>1 DEF Says
    <3>2. Shows(i) => Shows(i)'
      BY Zenon, <1>0 DEF Shows
    <3>3. CASE About(m, i)
      <4>1. i = kdump /\ kdump' = kdump + 1 /\ Says(m, i)'
        BY Zenon, <1>3, <3>3 DEF About
      <4>2. Covered(i)'
        BY <1>0, <4>1 DEF Covered, Idx
      <4>3. Pending(i)' /\ \A p \in 1..Len(rcvq') : Last(p, i)' => p = Len(rcvq) + 1
        BY Zenon, <2>1, <2>2, <3>3
      <4>4. \A p : p = Len(rcvq) + 1 => Says(rcvq[p], i)'
        BY Zenon, <2>1, <4>1 DEF Says
      <4> QED BY Zenon, <4>2, <4>3, <4>4 DEF Told
    <3>4. CASE ~About(m, i)
      <4>1. Pending(i)' <=> Pending(i)
        BY Zenon, <2>1, <3>4
      <4>2. \A p \in 1..Len(rcvq') : Last(p, i)' => p \in 1..Len(rcvq) /\ Last(p, i)
        <5>1. \A p : p = Len(rcvq) + 1 => ~Last(p, i)'
          BY Zenon, <2>1, <3>4 DEF Last
        <5> QED BY Zenon, <2>1, <2>2, <5>1
      <4>3. Covered(i)' <=> Covered(i)
        BY <1>0, <1>1, <1>3, <3>4 DEF Covered, About, Idx
      <4> QED BY Zenon, <1>0, <2>6, <3>1, <3>2, <4>1, <4>2, <4>3 DEF Told
    <3> QED BY Zenon, <3>3, <3>4
  <2> QED BY Zenon, <2>3, <2>4, <2>5, <2>6 DEF UpToDate
<1>4. CASE kdump \in Idx /\ name[kdump] # None
  <2> DEFINE m == [type |-> "new", dump |-> TRUE, idx |-> kdump,
                   name |-> name[kdump], flags |-> up[kdump]]
  <2>1. m \in Message /\ m.dump /\ About(m, kdump) /\ m.type # "done"
    BY ZenonT(60), <1>4 DEF TypeOK, Message, About
  <2>2. rcvq' = Append(rcvq, m) /\ kdump' = kdump + 1
    BY <1>0, <1>4 DEF KernelDump, Idx
  <2>3. m.type = "new" /\ m.name = name[kdump] /\ m.flags = up[kdump]
    OBVIOUS
  <2> HIDE DEF m
  <2>4. PICK d \in Message : d = m
    BY Zenon, <2>1
  <2>5. PICK i \in Idx : i = kdump
    BY Zenon, <1>4
  <2>6. Says(d, i)'
    BY Zenon, <1>0, <1>4, <2>3, <2>4, <2>5 DEF Says
  <2> QED BY Zenon, <1>3, <2>1, <2>2, <2>4, <2>5, <2>6
<1>5. CASE kdump = MaxIdx + 1
  <2> DEFINE m == [type |-> "done", dump |-> TRUE, idx |-> 1, name |-> None, flags |-> FALSE]
  <2>1. m \in Message /\ m.dump /\ m.type = "done"
    BY <1>0 DEF Message, Idx
  <2>2. rcvq' = Append(rcvq, m) /\ kdump' = 0
    BY <1>0, <1>5 DEF KernelDump, Idx
  <2> HIDE DEF m
  <2> QED BY Zenon, <1>3, <1>5, <2>1, <2>2
<1> QED BY Zenon, <1>0, <1>2, <1>4, <1>5 DEF KernelDump, Idx

(* ll_remember_index takes over what the message says of its interface,    *)
(* and touches no other.                                                   *)
LEMMA RememberShows ==
    ASSUME TypeOK, NEW m \in Message, LlRememberIndex(m), UNCHANGED <<name, up>>, NEW i \in Idx
    PROVE  /\ About(m, i) /\ Says(m, i) => Shows(i)'
           /\ ~About(m, i) => cache'[i] = cache[i] /\ seen'[i] = seen[i]
<1>1. /\ m.idx \in Idx /\ m.type \in {"new", "del", "done"}
      /\ cache \in [Idx -> Entry] /\ seen \in [Idx -> Names \cup {None}]
  BY Zenon DEF Message, TypeOK, Entry
<1>2. /\ cache' = [cache EXCEPT ![m.idx] = Remember(cache[m.idx], m)]
      /\ m.type = "new" => seen' = [seen EXCEPT ![m.idx] = m.name]
      /\ m.type = "del" => seen' = [seen EXCEPT ![m.idx] = None]
      /\ m.type = "done" => seen' = [seen EXCEPT ![m.idx] = seen[m.idx]]
  BY Zenon, <1>1 DEF LlRememberIndex
<1>3. CASE m.idx # i \/ m.type = "done"
  <2>1. m.type = "done" => Remember(cache[m.idx], m) = cache[m.idx]
    BY Zenon DEF Remember
  <2> QED BY Zenon, <1>1, <1>2, <1>3, <2>1 DEF About
<1>4. CASE m.idx = i /\ m.type = "del"
  <2>1. cache'[i] = NoEntry /\ seen'[i] = None
    BY Zenon, <1>1, <1>2, <1>4 DEF Remember
  <2>2. ~cache'[i].in
    BY <2>1 DEF NoEntry
  <2>3. Says(m, i) => name[i] = None
    BY Zenon, <1>4 DEF Says
  <2> QED BY Zenon, <1>4, <2>1, <2>2, <2>3 DEF About, Shows
<1>5. CASE m.idx = i /\ m.type = "new"
  <2>1. seen'[i] = m.name /\ cache'[i] = Remember(cache[i], m) /\ cache[i] \in Entry
    BY Zenon, <1>1, <1>2, <1>5
  <2>2. Remember(cache[i], m).in /\ Remember(cache[i], m).flags = m.flags
    <3>1. CASE cache[i].in
      <4>1. Remember(cache[i], m) =
              [cache[i] EXCEPT !.bucket = IF cache[i].name = m.name THEN cache[i].bucket
                                          ELSE Hash[m.name],
                               !.flags = m.flags]
        BY Zenon, <1>5, <3>1 DEF Remember
      <4> QED BY Zenon, <2>1, <3>1, <4>1 DEF Entry
    <3>2. CASE ~cache[i].in
      BY Zenon, <1>5, <3>2 DEF Remember
    <3> QED BY Zenon, <3>1, <3>2
  <2>3. Says(m, i) => name[i] # None /\ m.name = name[i] /\ m.flags = up[i]
    BY Zenon, <1>5 DEF Says
  <2> QED BY Zenon, <1>5, <2>1, <2>2, <2>3 DEF About, Shows
<1> QED BY Zenon, <1>1, <1>3, <1>4, <1>5

(* A message is handled: the cache catches up with the kernel.             *)
LEMMA ReceiveTold ==
    ASSUME TypeOK, rcvq # << >>, rcvq' = Tail(rcvq), UNCHANGED <<name, up, kdump>>,
           \/ LlRememberIndex(Msg)
           \/ Msg.type = "done" /\ UNCHANGED <<cache, seen>>,
           NEW i \in Idx, Told(i)
    PROVE  Told(i)'
<1>1. /\ Len(rcvq) \in Nat \ {0} /\ Len(rcvq') = Len(rcvq) - 1
      /\ Msg = rcvq[1] /\ \A p \in 1..Len(rcvq') : rcvq'[p] = rcvq[p + 1]
      /\ Pending(i) <=> Pending(i)' \/ About(Msg, i)
      /\ \A p \in 1..Len(rcvq') : Last(p, i)' => Last(p + 1, i)
      /\ About(Msg, i) /\ ~Pending(i)' => Last(1, i)
  BY ZenonT(60), LastReceived DEF TypeOK
<1>2. Msg \in Message
  BY <1>1, ElementOfSeq DEF TypeOK
<1>3. /\ About(Msg, i) /\ Says(Msg, i) => Shows(i)'
      /\ ~About(Msg, i) => cache'[i] = cache[i] /\ seen'[i] = seen[i]
  <2>1. PICK m \in Message : m = Msg
    BY Zenon, <1>2
  <2>2. CASE LlRememberIndex(Msg)
    BY Zenon, <2>1, <2>2, RememberShows
  <2>3. CASE Msg.type = "done" /\ UNCHANGED <<cache, seen>>
    BY Zenon, <2>3 DEF About
  <2> QED BY Zenon, <2>2, <2>3
<1>4. Covered(i)' <=> Covered(i)
  BY Zenon DEF Covered
<1>5. CASE Covered(i)
  <2>1. ASSUME NEW p \in 1..Len(rcvq'), Last(p, i)' PROVE Says(rcvq[p], i)'
    <3>1. p + 1 \in 1..Len(rcvq) /\ rcvq'[p] = rcvq[p + 1]
      BY <1>1
    <3>2. Says(rcvq[p + 1], i)
      BY Zenon, <1>1, <1>5, <2>1, <3>1 DEF Told
    <3> QED BY Zenon, <3>1, <3>2 DEF Says
  <2>2. ASSUME ~Pending(i)' PROVE Shows(i)'
    <3>1. CASE About(Msg, i)
      <4>1. Says(Msg, i)
        BY <1>1, <1>5, <2>2, <3>1 DEF Told
      <4> QED BY ZenonT(60), <1>3, <3>1, <4>1
    <3>2. CASE ~About(Msg, i)
      BY Zenon, <1>1, <1>3, <1>5, <2>2, <3>2 DEF Told, Shows
    <3> QED BY Zenon, <3>1, <3>2
  <2> QED BY Zenon, <1>4, <1>5, <2>1, <2>2 DEF Told
<1>6. CASE ~Covered(i)
  BY Zenon, <1>1, <1>3, <1>4, <1>6 DEF Told
<1> QED BY Zenon, <1>5, <1>6

(* The dump loop and the monitor's loop.                                   *)
LEMMA ReceiveUpToDate ==
    ASSUME NInv, InitMap \/ Listen
    PROVE  DoneOnce' /\ UpToDate'
<1> USE DEF NInv, IInv
<1>1. /\ rcvq # << >> /\ rcvq' = Tail(rcvq) /\ UNCHANGED <<name, up, kdump>>
      /\ rcvq \in Seq(Message)
  BY Zenon DEF InitMap, Listen, TypeOK
<1>2. /\ Len(rcvq) \in Nat \ {0} /\ Len(rcvq') = Len(rcvq) - 1
      /\ Msg = rcvq[1] /\ \A p \in 1..Len(rcvq') : rcvq'[p] = rcvq[p + 1]
  BY Zenon, <1>1, LastReceived
<1>3. /\ 1 \in 1..Len(rcvq)
      /\ \A p \in 1..Len(rcvq') : p + 1 \in 1..Len(rcvq) /\ p + 1 # 1
  BY <1>2
<1>4. phase' = phase \/ (phase' = "listen" /\ Msg.type = "done")
  BY Zenon DEF InitMap, Listen
<1>5. DoneOnce'
  <2>1. \A p \in 1..Len(rcvq') : rcvq'[p].type = "done" =>
           phase = "dump" /\ kdump = 0 /\ Msg.type # "done"
    BY Zenon, <1>2, <1>3 DEF DoneOnce
  <2>2. ASSUME NEW p \in 1..Len(rcvq'), NEW q \in 1..Len(rcvq'),
               rcvq'[p].type = "done", rcvq'[q].type = "done"
        PROVE  p = q
    <3>1. p + 1 = q + 1
      BY Zenon, <1>2, <1>3, <2>2 DEF DoneOnce
    <3> QED BY <1>2, <3>1
  <2>3. phase' = "listen" => kdump = 0
    BY Zenon, <1>2, <1>3, <1>4 DEF DoneOnce
  <2> QED BY Zenon, <1>1, <1>4, <2>1, <2>2, <2>3 DEF DoneOnce
<1>6. CASE lost'
  BY Zenon, <1>5, <1>6 DEF UpToDate
<1>7. CASE ~lost'
  <2>1. /\ ~lost
        /\ \/ LlRememberIndex(Msg)
           \/ Msg.type = "done" /\ UNCHANGED <<cache, seen>>
    BY <1>7 DEF InitMap, Listen
  <2>2. CASE \A i \in Idx : Told(i)
    <3>1. \A i \in Idx : Told(i)'
      BY Zenon, <1>1, <2>1, <2>2, ReceiveTold
    <3> QED BY Zenon, <1>5, <3>1 DEF UpToDate
  <2>3. CASE WillSkip
    <3>1. PICK p \in 1..Len(rcvq) : /\ ~rcvq[p].dump
                                   /\ \A q \in 1..Len(rcvq) : q < p => rcvq[q].type # "done"
      BY Zenon, <2>3 DEF WillSkip
    <3>2. Msg.dump /\ p # 1 /\ phase = "dump"
      BY Zenon, <1>2, <1>7, <2>3, <3>1 DEF InitMap, Listen, WillSkip
    <3>3. Msg.type # "done" /\ phase' = phase
      BY <1>2, <1>3, <1>4, <3>1, <3>2
    <3>4. p - 1 \in 1..Len(rcvq') /\ rcvq'[p - 1] = rcvq[p]
      BY <1>2, <3>2
    <3>5. ASSUME NEW q \in 1..Len(rcvq'), q < p - 1 PROVE rcvq'[q].type # "done"
      <4>1. q + 1 \in 1..Len(rcvq) /\ q + 1 < p
        BY <1>2, <3>5
      <4> QED BY Zenon, <1>2, <3>1, <4>1
    <3>6. WillSkip'
      BY Zenon, <3>1, <3>2, <3>3, <3>4, <3>5 DEF WillSkip
    <3> QED BY Zenon, <1>5, <3>6 DEF UpToDate
  <2> QED BY Zenon, <2>1, <2>2, <2>3 DEF UpToDate
<1> QED BY Zenon, <1>6, <1>7

LEMMA NStepInv == NInv /\ [Next]_vars => NInv'
<1> SUFFICES ASSUME NInv, [Next]_vars PROVE NInv'
  OBVIOUS
<1>1. IInv'
  BY ZenonT(60), StepInv DEF NInv
<1>2. CASE UNCHANGED vars
  BY <1>1, <1>2 DEF vars, NInv, DoneOnce, UpToDate, WillSkip, Told, Covered, Pending, Last,
                    Says, Shows
<1> QED BY Zenon, <1>1, <1>2, LinkUpToDate, DumpUpToDate, ReceiveUpToDate DEF Next, NInv

(* Once the monitor has handled every notification and lost none, the      *)
(* cache ll_init_map and ll_remember_index (lib/ll_map.c) built agrees     *)
(* with the kernel: ll_name_to_index finds every interface under its       *)
(* present name, and the flags are the present ones.                       *)
THEOREM CacheCatchesUp == Spec => []NamesResolve
<1>1. NInv => NamesResolve
  <2> SUFFICES ASSUME NInv, Settled PROVE NamesResolve
    BY Zenon DEF NamesResolve
  <2>1. Len(rcvq) = 0 /\ ~lost /\ phase = "listen" /\ kdump = 0
    BY Zenon, EmptySeq DEF Settled, NInv, DoneOnce
  <2>2. \A i \in Idx : Shows(i)
    BY <2>1 DEF NInv, UpToDate, WillSkip, Told, Covered, Pending
  <2>3. ASSUME NEW i \in Idx
        PROVE  LlIndexToFlags(i) = IF name[i] = None THEN {} ELSE {up[i]}
    BY Zenon, <2>2 DEF Shows, LlIndexToFlags
  <2>4. ASSUME NoCollision, NEW n \in Names, NEW i \in LlNameToIndex(n)
        PROVE  IF i = 0 THEN \A j \in Idx : name[j] # n ELSE name[i] = n
    <3>1. CASE Hits(n) # {}
      <4>1. i \in Hits(n) /\ i \in Idx
        BY Zenon, <2>4, <3>1 DEF LlNameToIndex, Hits
      <4>2. seen[i] = n
        <5>1. cache[i].in /\ cache[i].bucket = Hash[n] /\ cache[i].name = n
          BY Zenon, <4>1 DEF Hits
        <5>2. seen[i] \in Names /\ (n = seen[i] \/ Hash[n] = Hash[seen[i]])
          BY Zenon, <4>1, <5>1 DEF NInv, IInv, CacheFiled, Filed
        <5> QED BY Zenon, <2>4, <5>2 DEF NoCollision
      <4> QED BY <2>2, <4>1, <4>2, LinkMapAssumption DEF Shows, Idx
    <3>2. CASE Hits(n) = {}
      BY <2>4, <3>2, LinkMapAssumption DEF LlNameToIndex, Idx
    <3> QED BY Zenon, <3>1, <3>2
  <2> QED BY Zenon, <2>3, <2>4 DEF NamesResolve
<1>2. Init => NInv
  BY Zenon, InitInv, InitUpToDate DEF NInv
<1> QED BY <1>1, <1>2, NStepInv, PTL DEF Spec

=============================================================================
