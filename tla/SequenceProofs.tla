--------------------------- MODULE SequenceProofs ---------------------------
(***************************************************************************)
(* Proofs about three programs that work through a file.                   *)
(*                                                                         *)
(* batch() of tc/tc.c (TcBatch), for every MSG_IOV_MAX and every file: its *)
(* three invariants follow from one that says where the loop stands, which *)
(* lines wait in the buffers and which were sent.                          *)
(*                                                                         *)
(* ip route restore (RouteRestore) puts every route after those it rests   *)
(* on, for files of any length with routes of any kind, over any table of  *)
(* the kernel.  RestoreInOrder is not inductive: it speaks of the end of   *)
(* the command only.  Passes says what the passes have achieved up to any  *)
(* position in the file, and Verdict what is known at either end.          *)
(*                                                                         *)
(* The list commands of ip, tc and bridge (ListFilters), for batch files   *)
(* of any length.  What the invariant needs of the tables of the words is  *)
(* proved for each command in turn (Covers).                               *)
(***************************************************************************)
EXTENDS TcBatch, RouteRestore, ListFilters, SequenceTheorems, WellFoundedInduction, TLAPS

Types ==
    /\ file \in Seq(Line) /\ Len(file) >= 1
    /\ force \in BOOLEAN /\ lastline \in BOOLEAN /\ send \in BOOLEAN
    /\ pc \in {"read", "cmd", "send", "end"}
    /\ pos \in Nat /\ cmdlineno \in Nat /\ batchsize \in Nat /\ pool \in Nat
    /\ ret \in {0, 1, 2}
    /\ bufs \in Seq(Nat) /\ sent \in Seq(Nat) /\ reported \in Seq(Int)

(* The line the loop is at, and the number it would report: one more than  *)
(* that line as soon as the next one has been read.                        *)
Place ==
    /\ pc # "end" => pos \in Lines
    /\ pc = "read" => ~lastline /\ cmdlineno = pos
    /\ pc \in {"cmd", "send"} =>
         /\ file[pos].k # "blank"
         /\ lastline = (pos = Len(file))
         /\ cmdlineno = IF lastline THEN pos ELSE pos + 1
         /\ send = ~(pos # Len(file) /\ Enabled(pos) /\ Enabled(pos + 1)
                     /\ batchsize # MsgIovMax)

(* The buffers hold the lines up to the current one without a gap; between *)
(* two lines something waits only if the next line goes into the same      *)
(* batch and there is room for it.                                         *)
LastInBuffer == IF pc = "read" THEN pos - 1 ELSE pos

Waiting ==
    /\ batchsize = Len(bufs)
    /\ pool + Len(bufs) <= MsgIovMax
    /\ pc = "read" /\ bufs # << >> => Enabled(pos) /\ Len(bufs) < MsgIovMax
    /\ pc \in {"cmd", "send"} => (bufs # << >> <=> Enabled(pos))
    /\ pc = "send" => Enabled(pos)
    /\ pc # "end" => \A i \in 1..Len(bufs) :
         /\ bufs[i] = LastInBuffer - Len(bufs) + i
         /\ bufs[i] \in Commands

(* The first line that has not been dealt with                             *)
FirstOpen == IF bufs = << >> THEN pos ELSE bufs[1]

Sent ==
    /\ \A i, j \in 1..Len(sent) : i < j => sent[i] < sent[j]
    /\ pc # "end" => \A i \in 1..Len(sent) : sent[i] < FirstOpen
    /\ pc # "end" /\ ~force =>
         /\ ret = 0 /\ failed = {}
         /\ Range(sent) = {l \in Commands : l < FirstOpen}
    /\ pc = "end" /\ ret = 0 /\ ~force => Range(sent) = Commands /\ failed = {}

BatchIInv == Types /\ Place /\ Waiting /\ Sent /\ LineReported

-----------------------------------------------------------------------------
LEMMA RangeOfAppend ==
    ASSUME NEW s \in Seq(Nat), NEW e \in Nat
    PROVE  Range(Append(s, e)) = Range(s) \cup {e}
<1>1. /\ Append(s, e) \in Seq(Nat) /\ Len(Append(s, e)) = Len(s) + 1 /\ Len(s) \in Nat
      /\ \A i \in 1..Len(s) : Append(s, e)[i] = s[i]
      /\ Append(s, e)[Len(s) + 1] = e
  BY AppendProperties, LenProperties
<1>2. /\ Range(Append(s, e)) = {Append(s, e)[i] : i \in 1..(Len(s) + 1)}
      /\ Range(s) = {s[i] : i \in 1..Len(s)}
  BY ZenonT(60), <1>1, RangeEquality
<1>3. ASSUME NEW x \in Range(Append(s, e)) PROVE x \in Range(s) \cup {e}
  <2>1. PICK i \in 1..(Len(s) + 1) : x = Append(s, e)[i]
    BY Zenon, <1>2
  <2>2. i \in 1..Len(s) \/ i = Len(s) + 1
    BY <1>1
  <2> QED BY Zenon, <2>1, <2>2, <1>1, <1>2
<1>4. ASSUME NEW x \in Range(s) \cup {e} PROVE x \in Range(Append(s, e))
  <2>1. CASE x = e
    BY <2>1, <1>1, <1>2
  <2>2. CASE x \in Range(s)
    <3>1. PICK i \in 1..Len(s) : x = s[i]
      BY Zenon, <2>2, <1>2
    <3>2. i \in 1..(Len(s) + 1) /\ Append(s, e)[i] = x
      BY <3>1, <1>1
    <3> QED BY Zenon, <3>2, <1>2
  <2> QED BY Zenon, <2>1, <2>2
<1> QED BY Zenon, <1>3, <1>4

LEMMA LineTypes ==
    ASSUME Types
    PROVE  /\ Len(file) \in Nat /\ Lines \subseteq Nat
           /\ \A l \in Lines : file[l] \in Line
           /\ Commands \subseteq Lines
           /\ Len(bufs) \in Nat /\ Len(sent) \in Nat /\ Len(reported) \in Nat
           /\ \A i \in 1..Len(bufs) : bufs[i] \in Nat
           /\ \A i \in 1..Len(sent) : sent[i] \in Nat
           /\ bufs = << >> <=> Len(bufs) = 0
<1>1. /\ Len(file) \in Nat /\ Len(bufs) \in Nat /\ Len(sent) \in Nat /\ Len(reported) \in Nat
  BY Zenon, LenProperties DEF Types
<1>2. \A l \in Lines : file[l] \in Line
  BY Zenon, ElementOfSeq DEF Types, Lines
<1>3. /\ \A i \in 1..Len(bufs) : bufs[i] \in Nat
      /\ \A i \in 1..Len(sent) : sent[i] \in Nat
  BY Zenon, ElementOfSeq DEF Types
<1>4. bufs = << >> <=> Len(bufs) = 0
  BY Zenon, EmptySeq DEF Types
<1> QED BY <1>1, <1>2, <1>3, <1>4 DEF Lines, Commands

LEMMA BatchInitInv == Init => BatchIInv
<1> SUFFICES ASSUME Init PROVE BatchIInv
  OBVIOUS
<1>1. PICK n \in 1..MaxLines : file \in [1..n -> Line]
  BY Zenon DEF Init
<1>2. n \in Nat /\ n >= 1
  BY TcBatchAssumption
<1>3. file \in Seq(Line) /\ Len(file) = n
  BY <1>1, <1>2
<1>4. /\ << >> \in Seq(Nat) /\ << >> \in Seq(Int) /\ Len(<< >>) = 0
      /\ Range(<< >>) = {}
  <2>1. << >> \in Seq(Nat) /\ << >> \in Seq(Int) /\ Len(<< >>) = 0
    BY Zenon, EmptySeq
  <2>2. Range(<< >>) = {<< >>[i] : i \in 1..0}
    BY Zenon, <2>1, RangeEquality
  <2> QED BY <2>1, <2>2
<1>5. Types
  BY Zenon, <1>2, <1>3, <1>4 DEF Init, Types
<1>6. Place
  BY <1>2, <1>3 DEF Init, Place, Lines
<1>7. Waiting
  BY <1>4, TcBatchAssumption DEF Init, Waiting
<1>8. Sent
  <2>1. {l \in Commands : l < FirstOpen} = {}
    BY <1>2, <1>3 DEF Init, FirstOpen, Commands, Lines
  <2> QED BY <2>1, <1>4 DEF Init, Sent
<1>9. LineReported
  BY <1>4 DEF Init, LineReported
<1> QED BY Zenon, <1>5, <1>6, <1>7, <1>8, <1>9 DEF BatchIInv

-----------------------------------------------------------------------------
(* Reading ahead: a line that goes into the batch is the next one after    *)
(* those that wait.                                                        *)
LEMMA ReadAheadInv ==
    ASSUME BatchIInv, ReadAhead
    PROVE  BatchIInv'
<1> USE DEF BatchIInv
<1>0. /\ Len(file) \in Nat /\ Lines \subseteq Nat /\ Commands \subseteq Lines
      /\ Len(bufs) \in Nat /\ Len(sent) \in Nat
      /\ \A i \in 1..Len(bufs) : bufs[i] \in Nat
      /\ bufs = << >> <=> Len(bufs) = 0
      /\ MsgIovMax \in Nat \ {0}
  BY Zenon, LineTypes, TcBatchAssumption
<1>1. /\ pc = "read" /\ pos \in Lines /\ pos \in Nat /\ cmdlineno = pos
      /\ UNCHANGED <<file, force, ret, sent, reported, failed>>
      /\ (lastline' <=> (pos = Len(file)))
      /\ cmdlineno' = IF pos = Len(file) THEN pos ELSE pos + 1
  BY Zenon, <1>0 DEF Place, ReadAhead
<1>2. /\ Lines' = Lines /\ Commands' = Commands
      /\ \A l \in Nat : Enabled(l)' <=> Enabled(l)
  BY Zenon, <1>1 DEF Lines, Commands, Enabled
<1>3. \/ /\ file[pos].k = "blank" /\ pos' = pos + 1
         /\ pc' = IF pos = Len(file) THEN "end" ELSE "read"
      \/ /\ file[pos].k # "blank" /\ pos' = pos /\ pc' = "cmd"
  BY Zenon DEF ReadAhead
<1>4. CASE Enabled(pos)
  <2>1. /\ bufs' = Append(bufs, pos) /\ batchsize' = batchsize + 1
        /\ pool' = IF pool = 0 THEN 0 ELSE pool - 1
    BY Zenon, <1>4 DEF ReadAhead, GetBatchBuf
  <2>2. /\ bufs' \in Seq(Nat) /\ Len(bufs') = Len(bufs) + 1 /\ bufs' # << >>
        /\ \A i \in 1..Len(bufs) : bufs'[i] = bufs[i]
        /\ bufs'[Len(bufs) + 1] = pos
    <3>1. bufs \in Seq(Nat) /\ pos \in Nat
      BY Zenon, <1>1 DEF Types
    <3> HIDE DEF BatchIInv
    <3> QED BY <3>1, <2>1, AppendProperties
  <2>3. pos' = pos /\ pc' = "cmd" /\ file[pos].k = "bs" /\ pos \in Commands
    BY Zenon, <1>1, <1>3, <1>4 DEF Enabled, Commands
  <2>4. Len(bufs) < MsgIovMax
    BY SMTT(60), <1>0, <1>1 DEF Waiting
  <2>5. Types'
    BY SMTT(60), <1>1, <2>1, <2>2, <2>3 DEF Types, ReadAhead
  <2>6. Place'
    BY <1>1, <1>2, <2>3 DEF Place, ReadAhead
  <2>7. Waiting'
    <3>1. batchsize' = Len(bufs') /\ pool' + Len(bufs') <= MsgIovMax
      BY <1>0, <2>1, <2>2, <2>4 DEF Waiting, Types
    <3>2. ASSUME NEW i \in 1..Len(bufs')
          PROVE  bufs'[i] = pos - Len(bufs') + i /\ bufs'[i] \in Commands
      <4>1. CASE i = Len(bufs) + 1
        BY SMTT(60), <4>1, <1>0, <1>1, <2>2, <2>3
      <4>2. CASE i \in 1..Len(bufs)
        BY <4>2, <1>0, <1>1, <2>2 DEF Waiting, LastInBuffer
      <4> QED BY <4>1, <4>2, <1>0, <2>2
    <3> QED BY ZenonT(60), <3>1, <3>2, <1>1, <1>2, <1>4, <2>2, <2>3 DEF Waiting, LastInBuffer
  <2>8. FirstOpen' = FirstOpen
    BY SMTT(60), <1>0, <2>2, <2>3 DEF FirstOpen
  <2>9. Sent'
    BY Zenon, <2>8, <1>1, <1>2, <2>3 DEF Sent
  <2> QED BY Zenon, <2>5, <2>6, <2>7, <2>9, <1>1 DEF LineReported, Place
<1>5. CASE ~Enabled(pos)
  <2>1. UNCHANGED <<bufs, pool, batchsize>> /\ bufs = << >>
    BY ZenonT(60), <1>1, <1>5 DEF ReadAhead, Waiting
  <2>2. Types'
    BY SMTT(60), <1>1, <1>3, <2>1 DEF Types, ReadAhead
  <2>3. Place'
    BY SMTT(60), <1>0, <1>1, <1>2, <1>3, <2>1 DEF Place, ReadAhead, Lines
  <2>4. Waiting'
    BY SMTT(60), <1>0, <1>1, <1>2, <1>3, <1>5, <2>1 DEF Waiting
  <2>5. Sent'
    <3>1. CASE file[pos].k = "blank"
      <4>1. {l \in Commands : l < pos + 1} = {l \in Commands : l < pos}
        <5>1. pos \notin Commands /\ Commands \subseteq Nat /\ pos \in Nat
          BY Zenon, <3>1, <1>0, <1>1 DEF Commands
        <5>2. \A l \in Commands : l < pos + 1 <=> l < pos
          BY <5>1
        <5> QED BY Zenon, <5>2
      <4>2. pos = Len(file) => {l \in Commands : l < pos + 1} = Commands
        BY <1>0 DEF Commands, Lines
      <4>3. FirstOpen = pos /\ FirstOpen' = pos + 1
        BY Zenon, <2>1, <1>3, <3>1 DEF FirstOpen
      <4>4. \A i \in 1..Len(sent) : sent[i] \in Nat
        BY Zenon, LineTypes
      <4>5. /\ \A i, j \in 1..Len(sent) : i < j => sent[i] < sent[j]
            /\ \A i \in 1..Len(sent) : sent[i] < pos + 1
            /\ ~force => ret = 0 /\ failed = {} /\ Range(sent) = {l \in Commands : l < pos + 1}
        BY <4>1, <4>3, <4>4, <1>1 DEF Sent
      <4>6. pc' # "end" \/ pos = Len(file)
        BY Zenon, <1>3, <3>1
      <4> HIDE DEF BatchIInv
      <4> QED BY ZenonT(60), <4>2, <4>3, <4>5, <4>6, <1>1, <1>2 DEF Sent
    <3>2. CASE file[pos].k # "blank"
      BY ZenonT(60), <3>2, <1>1, <1>2, <1>3, <2>1 DEF Sent, FirstOpen
    <3> QED BY Zenon, <3>1, <3>2
  <2> QED BY Zenon, <2>2, <2>3, <2>4, <2>5, <1>1 DEF LineReported, Place
<1> QED BY Zenon, <1>4, <1>5

-----------------------------------------------------------------------------
Increasing(s) == \A i, j \in 1..Len(s) : i < j => s[i] < s[j]

(* What is sent behind everything that was sent keeps the order.           *)
LEMMA IncreasingAppend ==
    ASSUME NEW s \in Seq(Nat), NEW e \in Nat, Increasing(s),
           \A i \in 1..Len(s) : s[i] < e
    PROVE  /\ Append(s, e) \in Seq(Nat) /\ Increasing(Append(s, e))
           /\ \A i \in 1..Len(Append(s, e)) : Append(s, e)[i] < e + 1
<1>1. /\ Append(s, e) \in Seq(Nat) /\ Len(Append(s, e)) = Len(s) + 1 /\ Len(s) \in Nat
      /\ \A i \in 1..Len(s) : Append(s, e)[i] = s[i] /\ s[i] \in Nat
      /\ Append(s, e)[Len(s) + 1] = e
  BY AppendProperties, LenProperties, ElementOfSeq
<1>2. \A i \in 1..(Len(s) + 1) : i \in 1..Len(s) \/ i = Len(s) + 1
  BY <1>1
<1>3. \A i \in 1..(Len(s) + 1) : Append(s, e)[i] < e + 1
  BY <1>1, <1>2
<1>4. ASSUME NEW i \in 1..(Len(s) + 1), NEW j \in 1..(Len(s) + 1), i < j
      PROVE  Append(s, e)[i] < Append(s, e)[j]
  <2>1. i \in 1..Len(s)
    BY <1>4, <1>1
  <2>2. CASE j \in 1..Len(s)
    BY ZenonT(60), <2>1, <2>2, <1>1, <1>4 DEF Increasing
  <2>3. CASE j = Len(s) + 1
    BY Zenon, <2>1, <2>3, <1>1
  <2> QED BY ZenonT(60), <2>2, <2>3, <1>2
<1> QED BY ZenonT(60), <1>1, <1>3, <1>4 DEF Increasing

LEMMA IncreasingConcat ==
    ASSUME NEW s \in Seq(Nat), NEW t \in Seq(Nat), Increasing(s), Increasing(t),
           \A i \in 1..Len(s), j \in 1..Len(t) : s[i] < t[j]
    PROVE  s \o t \in Seq(Nat) /\ Increasing(s \o t)
<1>1. /\ s \o t \in Seq(Nat) /\ Len(s \o t) = Len(s) + Len(t)
      /\ Len(s) \in Nat /\ Len(t) \in Nat
      /\ \A i \in 1..(Len(s) + Len(t)) :
           (s \o t)[i] = IF i <= Len(s) THEN s[i] ELSE t[i - Len(s)]
  BY ZenonT(60), ConcatProperties, LenProperties
<1>2. ASSUME NEW i \in 1..(Len(s) + Len(t)), NEW j \in 1..(Len(s) + Len(t)), i < j
      PROVE  (s \o t)[i] < (s \o t)[j]
  <2>1. CASE j <= Len(s)
    <3>1. i \in 1..Len(s) /\ j \in 1..Len(s) /\ (s \o t)[i] = s[i] /\ (s \o t)[j] = s[j]
      BY <2>1, <1>1, <1>2
    <3> QED BY Zenon, <3>1, <1>2 DEF Increasing
  <2>2. CASE i <= Len(s) /\ ~(j <= Len(s))
    <3>1. /\ i \in 1..Len(s) /\ j - Len(s) \in 1..Len(t)
          /\ (s \o t)[i] = s[i] /\ (s \o t)[j] = t[j - Len(s)]
      BY <2>2, <1>1
    <3> QED BY Zenon, <3>1
  <2>3. CASE ~(i <= Len(s))
    <3>1. /\ i - Len(s) \in 1..Len(t) /\ j - Len(s) \in 1..Len(t) /\ i - Len(s) < j - Len(s)
          /\ (s \o t)[i] = t[i - Len(s)] /\ (s \o t)[j] = t[j - Len(s)]
      BY SMTT(60), <2>3, <1>1, <1>2
    <3> QED BY Zenon, <3>1 DEF Increasing
  <2> QED BY Zenon, <2>1, <2>2, <2>3, <1>1, <1>2
<1> QED BY Zenon, <1>1, <1>2 DEF Increasing

LEMMA Smallest ==
    ASSUME NEW T \in SUBSET Nat, T # {}
    PROVE  \E x \in T : \A y \in T : x <= y
<1>1. PICK x \in T : \A y \in T : ~(<<y, x>> \in OpToRel(<, Nat))
  BY Zenon, NatLessThanWellFounded, WFMin
<1>2. ASSUME NEW y \in T PROVE x <= y
  <2>1. <<y, x>> \notin OpToRel(<, Nat)
    BY Zenon, <1>1
  <2>2. ~(y < x)
    BY Zenon, <2>1 DEF OpToRel
  <2> QED BY <2>2
<1> QED BY Zenon, <1>2

-----------------------------------------------------------------------------
(* A command, alone or into its buffer                                     *)
LEMMA CommandInv ==
    ASSUME BatchIInv, Command
    PROVE  BatchIInv'
<1> USE DEF BatchIInv
<1>0. /\ Len(file) \in Nat /\ Lines \subseteq Nat /\ Commands \subseteq Lines
      /\ Len(bufs) \in Nat /\ Len(sent) \in Nat
      /\ \A i \in 1..Len(bufs) : bufs[i] \in Nat
      /\ bufs = << >> <=> Len(bufs) = 0
      /\ bufs \in Seq(Nat) /\ sent \in Seq(Nat) /\ reported \in Seq(Int)
  BY Zenon, LineTypes DEF Types
<1>1. /\ pc = "cmd" /\ pos \in Lines /\ pos \in Nat /\ pos \in Commands
      /\ UNCHANGED <<file, force, lastline, cmdlineno, send, bufs, batchsize, pool>>
      /\ (lastline <=> pos = Len(file))
      /\ cmdlineno = IF lastline THEN pos ELSE pos + 1
      /\ (bufs # << >> <=> Enabled(pos))
  BY Zenon, <1>0 DEF Place, Command, Waiting, Commands
<1>2. /\ Lines' = Lines /\ Commands' = Commands
      /\ \A l \in Nat : Enabled(l)' <=> Enabled(l)
  BY Zenon, <1>1 DEF Lines, Commands, Enabled
<1>3. /\ DoCmd(pos) => ret' = 0 /\ failed' = failed /\ reported' = reported
      /\ ~DoCmd(pos) => /\ ret' = 1 /\ failed' = failed \cup {pos}
                        /\ reported' = Append(reported, cmdlineno - 1)
  BY Zenon DEF Command
<1>4. /\ sent' = IF bufs = << >> /\ file[pos].parse THEN Append(sent, pos) ELSE sent
      /\ bufs = << >> /\ DoCmd(pos) => file[pos].parse
  BY Zenon DEF Command, DoCmd
<1>5. \/ pc' = "end" /\ pos' = pos /\ ~DoCmd(pos) /\ ~force
      \/ pc' = "end" /\ pos' = pos /\ lastline /\ ~Enabled(pos) /\ (force \/ DoCmd(pos))
      \/ pc' = "send" /\ pos' = pos /\ Enabled(pos) /\ (force \/ DoCmd(pos))
      \/ /\ pc' = "read" /\ pos' = pos + 1 /\ ~lastline /\ (force \/ DoCmd(pos))
         /\ Enabled(pos) => Enabled(pos + 1) /\ batchsize # MsgIovMax
  <2>1. /\ pc' = CASE ~DoCmd(pos) /\ ~force -> "end"
                   [] send /\ Enabled(pos) /\ (DoCmd(pos) \/ force) -> "send"
                   [] OTHER -> IF lastline THEN "end" ELSE "read"
        /\ pos' = IF pc' = "read" THEN pos + 1 ELSE pos
    BY Zenon DEF Command
  <2>2. send \/ (~lastline /\ Enabled(pos + 1) /\ batchsize # MsgIovMax)
    BY Zenon, <1>1 DEF Place
  <2>3. lastline => send
    BY Zenon, <1>1 DEF Place
  <2> HIDE DEF BatchIInv
  <2> QED BY Zenon, <2>1, <2>2, <2>3
<1>6. cmdlineno - 1 \in Int /\ (~lastline => cmdlineno - 1 = pos)
  BY <1>1 DEF Types
<1>7. Types'
  <2>1. sent' \in Seq(Nat)
    BY Zenon, <1>0, <1>1, <1>4, AppendProperties
  <2>2. reported' \in Seq(Int)
    <3>1. Append(reported, cmdlineno - 1) \in Seq(Int)
      BY ZenonT(60), <1>0, <1>6, AppendProperties
    <3> QED BY Zenon, <3>1, <1>0, <1>3
  <2>3. pos' \in Nat /\ pc' \in {"read", "cmd", "send", "end"}
    BY <1>1, <1>5
  <2> QED BY ZenonT(60), <1>1, <1>3, <2>1, <2>2, <2>3 DEF Types
<1>8. Place'
  <2>1. ~lastline => pos + 1 \in Lines
    BY <1>0, <1>1 DEF Lines
  <2> QED BY ZenonT(60), <2>1, <1>0, <1>1, <1>2, <1>5 DEF Place
<1>9. Waiting'
  <2>1. batchsize' = Len(bufs') /\ pool' + Len(bufs') <= MsgIovMax
    BY Zenon, <1>1 DEF Waiting
  <2>2. \A i \in 1..Len(bufs) : bufs[i] = pos - Len(bufs) + i /\ bufs[i] \in Commands
    BY ZenonT(60), <1>1 DEF Waiting, LastInBuffer
  <2>3. pc' = "read" /\ bufs # << >> => Enabled(pos') /\ Len(bufs) < MsgIovMax
    BY SMTT(60), <1>0, <1>1, <1>5, TcBatchAssumption DEF Waiting, Types
  <2>4. pc' # "end" => LastInBuffer' = pos
    BY SMTT(60), <1>1, <1>5 DEF LastInBuffer
  <2>5. pos' \in Nat /\ pc' # "cmd" /\ (pc' = "send" => Enabled(pos) /\ pos' = pos)
    BY <1>1, <1>5
  <2> HIDE DEF BatchIInv
  <2> QED BY ZenonT(60), <2>1, <2>2, <2>3, <2>4, <2>5, <1>1, <1>2 DEF Waiting
<1>10. LineReported'
  <2> SUFFICES ASSUME ~lastline, NEW i \in 1..Len(reported')
               PROVE  reported'[i] \in failed'
    BY Zenon, <1>1 DEF LineReported
  <2>1. CASE DoCmd(pos)
    BY Zenon, <2>1, <1>3 DEF LineReported
  <2>2. CASE ~DoCmd(pos)
    <3>1. /\ Len(reported') = Len(reported) + 1 /\ Len(reported) \in Nat
          /\ \A k \in 1..Len(reported) : reported'[k] = reported[k]
          /\ reported'[Len(reported) + 1] = pos
      BY SMTT(60), <2>2, <1>0, <1>3, <1>6, AppendProperties, LenProperties
    <3>2. i \in 1..Len(reported) \/ i = Len(reported) + 1
      BY <3>1
    <3> QED BY ZenonT(60), <3>1, <3>2, <2>2, <1>3 DEF LineReported
  <2> QED BY Zenon, <2>1, <2>2
<1>11. Sent'
  <2>0. /\ Increasing(sent) /\ \A i \in 1..Len(sent) : sent[i] < FirstOpen
        /\ ~force => /\ ret = 0 /\ failed = {}
                     /\ Range(sent) = {l \in Commands : l < FirstOpen}
        /\ \A i \in 1..Len(sent) : sent[i] \in Nat
    BY ZenonT(60), <1>1, LineTypes DEF Sent, Increasing
  <2>1. CASE bufs # << >>
    <3>1. sent' = sent /\ Enabled(pos)
      BY Zenon, <2>1, <1>1, <1>4
    <3>2. pc' # "end" => FirstOpen' = FirstOpen /\ (force \/ DoCmd(pos))
      BY Zenon, <2>1, <1>1, <1>5 DEF FirstOpen
    <3>3. pc' = "end" => ret' = 1
      BY Zenon, <3>1, <1>3, <1>5
    <3> HIDE DEF BatchIInv
    <3> QED BY SMTT(60), <2>0, <3>1, <3>2, <3>3, <1>1, <1>2, <1>3 DEF Sent, Increasing
  <2>2. CASE bufs = << >>
    <3>1. FirstOpen = pos
      BY Zenon, <2>2 DEF FirstOpen
    <3>2. /\ sent' \in Seq(Nat) /\ Increasing(sent')
          /\ \A i \in 1..Len(sent') : sent'[i] < pos + 1
      <4>1. CASE file[pos].parse
        BY ZenonT(60), <4>1, <3>1, <2>0, <2>2, <1>0, <1>1, <1>4, IncreasingAppend
      <4>2. CASE ~file[pos].parse
        BY SMTT(60), <4>2, <3>1, <2>0, <2>2, <1>0, <1>1, <1>4
      <4> QED BY Zenon, <4>1, <4>2
    <3>3. ASSUME ~force, DoCmd(pos)
          PROVE  ret' = 0 /\ failed' = {} /\ Range(sent') = {l \in Commands : l < pos + 1}
      <4>1. Range(sent') = {l \in Commands : l < pos} \cup {pos}
        BY ZenonT(60), <3>1, <3>3, <2>0, <2>2, <1>0, <1>1, <1>4, RangeOfAppend
      <4>2. {l \in Commands : l < pos} \cup {pos} = {l \in Commands : l < pos + 1}
        <5>1. \A l \in Commands : l < pos + 1 <=> l < pos \/ l = pos
          BY <1>0, <1>1
        <5> QED BY ZenonT(60), <5>1, <1>1
      <4> QED BY ZenonT(60), <4>1, <4>2, <3>3, <2>0, <1>3
    <3>4. lastline => {l \in Commands : l < pos + 1} = Commands
      <4>1. lastline => \A l \in Commands : l < pos + 1
        BY <1>0, <1>1 DEF Lines
      <4> QED BY ZenonT(60), <4>1
    <3>5. pc' # "end" => pc' = "read" /\ FirstOpen' = pos + 1 /\ (force \/ DoCmd(pos))
      BY ZenonT(60), <2>2, <1>1, <1>5 DEF FirstOpen
    <3>6. pc' = "end" /\ ret' = 0 /\ ~force => lastline /\ DoCmd(pos)
      BY <1>3, <1>5
    <3> HIDE DEF BatchIInv
    <3> QED BY ZenonT(60), <3>2, <3>3, <3>4, <3>5, <3>6, <1>1, <1>2 DEF Sent, Increasing
  <2> QED BY Zenon, <2>1, <2>2
<1> QED BY ZenonT(60), <1>7, <1>8, <1>9, <1>10, <1>11

(* The batch is sent: the lines in the buffers follow those sent before.   *)
LEMMA SendBatchInv ==
    ASSUME BatchIInv, SendBatch
    PROVE  BatchIInv'
<1> USE DEF BatchIInv
<1>0. /\ Len(file) \in Nat /\ Lines \subseteq Nat /\ Commands \subseteq Lines
      /\ Len(bufs) \in Nat /\ Len(sent) \in Nat
      /\ \A i \in 1..Len(bufs) : bufs[i] \in Nat
      /\ bufs = << >> <=> Len(bufs) = 0
      /\ bufs \in Seq(Nat) /\ sent \in Seq(Nat) /\ reported \in Seq(Int)
      /\ << >> \in Seq(Nat) /\ Len(<< >>) = 0
  BY Zenon, LineTypes, EmptySeq DEF Types
<1>1. /\ pc = "send" /\ pos \in Lines /\ pos \in Nat
      /\ UNCHANGED <<file, force, lastline, cmdlineno, send>>
      /\ (lastline <=> pos = Len(file))
      /\ cmdlineno = IF lastline THEN pos ELSE pos + 1
      /\ bufs # << >> /\ Len(bufs) >= 1 /\ batchsize = Len(bufs)
      /\ \A i \in 1..Len(bufs) : bufs[i] = pos - Len(bufs) + i /\ bufs[i] \in Commands
      /\ FirstOpen = pos - Len(bufs) + 1
  <2>1. /\ pc = "send" /\ pos \in Lines /\ pos \in Nat
        /\ UNCHANGED <<file, force, lastline, cmdlineno, send>>
        /\ (lastline <=> pos = Len(file))
        /\ cmdlineno = IF lastline THEN pos ELSE pos + 1
    BY ZenonT(60), <1>0 DEF Place, SendBatch
  <2>2. bufs # << >> /\ Len(bufs) >= 1 /\ batchsize = Len(bufs)
    BY <2>1, <1>0 DEF Waiting
  <2>3. \A i \in 1..Len(bufs) : bufs[i] = pos - Len(bufs) + i /\ bufs[i] \in Commands
    BY ZenonT(60), <2>1 DEF Waiting, LastInBuffer
  <2>4. FirstOpen = pos - Len(bufs) + 1
    BY <2>2, <2>3, <1>0 DEF FirstOpen
  <2> QED BY ZenonT(60), <2>1, <2>2, <2>3, <2>4
<1>2. /\ Lines' = Lines /\ Commands' = Commands
      /\ \A l \in Nat : Enabled(l)' <=> Enabled(l)
  BY Zenon, <1>1 DEF Lines, Commands, Enabled
<1>3. /\ sent' = sent \o bufs
      /\ failed' = failed \cup {bufs[i] : i \in Refused}
  BY Zenon DEF SendBatch
<1>4. \/ /\ TalkIov < 0 /\ pc' = "end" /\ ret' = 2
         /\ reported' = Append(reported, cmdlineno - (batchsize + TalkIov) - 1)
         /\ UNCHANGED <<pos, bufs, batchsize, pool>>
      \/ /\ TalkIov = 0 /\ ret' = 0 /\ pool' = pool + Len(bufs) /\ bufs' = << >>
         /\ batchsize' = 0 /\ reported' = reported
         /\ \/ lastline /\ pc' = "end" /\ pos' = pos
            \/ ~lastline /\ pc' = "read" /\ pos' = pos + 1
  BY Zenon DEF SendBatch
<1>5. \/ Refused = {} /\ TalkIov = 0
      \/ \E p \in Refused : TalkIov = -p /\ p \in 1..Len(bufs)
  <2>1. CASE Refused # {}
    <3>1. Refused \in SUBSET Nat /\ Refused \subseteq 1..Len(bufs)
      BY <1>0 DEF Refused
    <3>2. \E i \in Refused : \A j \in Refused : i <= j
      BY ZenonT(60), <2>1, <3>1, Smallest
    <3>3. (CHOOSE i \in Refused : \A j \in Refused : i <= j) \in Refused
      BY ZenonT(60), <3>2
    <3> QED BY ZenonT(60), <2>1, <3>1, <3>3 DEF TalkIov
  <2> QED BY ZenonT(60), <2>1 DEF TalkIov
<1>6. /\ sent' \in Seq(Nat) /\ Increasing(sent')
      /\ \A i \in 1..Len(sent') : sent'[i] < pos + 1
  <2>1. /\ Increasing(sent) /\ \A i \in 1..Len(sent) : sent[i] < pos - Len(bufs) + 1
        /\ \A i \in 1..Len(sent) : sent[i] \in Nat
    BY ZenonT(60), <1>1, LineTypes DEF Sent, Increasing
  <2>2. Increasing(bufs)
    BY SMTT(60), <1>0, <1>1 DEF Increasing
  <2>3. ASSUME NEW i \in 1..Len(sent), NEW j \in 1..Len(bufs) PROVE sent[i] < bufs[j]
    <3>1. sent[i] \in Nat /\ sent[i] < pos - Len(bufs) + 1 /\ bufs[j] = pos - Len(bufs) + j
      BY ZenonT(60), <2>1, <1>1
    <3>2. j \in Nat /\ j >= 1 /\ Len(bufs) \in Nat /\ pos \in Nat
      BY <1>0, <1>1
    <3> HIDE DEF BatchIInv
    <3> QED BY SMTT(60), <3>1, <3>2
  <2>4. sent' \in Seq(Nat) /\ Increasing(sent')
    BY ZenonT(60), <2>1, <2>2, <2>3, <1>0, <1>3, IncreasingConcat
  <2>5. ASSUME NEW i \in 1..Len(sent') PROVE sent'[i] < pos + 1
    <3>1. /\ Len(sent') = Len(sent) + Len(bufs)
          /\ sent'[i] = IF i <= Len(sent) THEN sent[i] ELSE bufs[i - Len(sent)]
      BY SMTT(60), <1>0, <1>3, ConcatProperties
    <3>2. CASE i <= Len(sent)
      BY SMTT(60), <3>1, <3>2, <2>1, <1>0, <1>1
    <3>3. CASE ~(i <= Len(sent))
      <4>1. i - Len(sent) \in 1..Len(bufs)
        BY <3>1, <3>3, <1>0
      <4> QED BY SMTT(60), <4>1, <3>1, <3>3, <1>0, <1>1
    <3> QED BY ZenonT(60), <3>2, <3>3
  <2> QED BY ZenonT(60), <2>4, <2>5
<1>7. ~force => Range(sent') = {l \in Commands : l < pos + 1}
  <2> SUFFICES ASSUME ~force PROVE Range(sent') = {l \in Commands : l < pos + 1}
    OBVIOUS
  <2>1. Range(sent) = {l \in Commands : l < pos - Len(bufs) + 1}
    BY Zenon, <1>1 DEF Sent
  <2>2. Range(sent') = Range(sent) \cup Range(bufs)
    BY <1>0, <1>3, RangeConcatenation
  <2>3. Range(bufs) = {bufs[i] : i \in 1..Len(bufs)}
    BY Zenon, <1>0, RangeEquality
  <2>4. ASSUME NEW l \in Commands, l < pos + 1, ~(l < pos - Len(bufs) + 1)
        PROVE  l \in Range(bufs)
    <3>1. l - pos + Len(bufs) \in 1..Len(bufs) /\ l \in Nat
      BY SMTT(60), <2>4, <1>0, <1>1
    <3>2. bufs[l - pos + Len(bufs)] = l
      BY SMTT(60), <3>1, <1>0, <1>1
    <3> QED BY ZenonT(60), <3>1, <3>2, <2>3
  <2>5. ASSUME NEW l \in Range(bufs) PROVE l \in Commands /\ l < pos + 1
    BY SMTT(60), <2>3, <1>0, <1>1
  <2>6. \A l \in Commands : l < pos - Len(bufs) + 1 => l < pos + 1
    BY <1>0, <1>1
  <2> QED BY Zenon, <2>1, <2>2, <2>4, <2>5, <2>6
<1>8. /\ cmdlineno - (batchsize + TalkIov) - 1 \in Int
      /\ TalkIov < 0 /\ ~lastline => cmdlineno - (batchsize + TalkIov) - 1 \in failed'
  <2>1. cmdlineno \in Nat /\ batchsize \in Nat /\ TalkIov \in Int
    BY <1>0, <1>5 DEF Types
  <2>2. ASSUME TalkIov < 0, ~lastline
        PROVE  cmdlineno - (batchsize + TalkIov) - 1 \in failed'
    <3>1. PICK p \in Refused : TalkIov = -p /\ p \in 1..Len(bufs)
      BY SMTT(60), <1>5, <2>2
    <3>2. cmdlineno - (batchsize + TalkIov) - 1 = bufs[p]
      BY <3>1, <2>2, <1>0, <1>1
    <3> QED BY ZenonT(60), <3>1, <3>2, <1>3
  <2> QED BY <2>1, <2>2
<1>9. Types'
  <2>1. reported' \in Seq(Int)
    <3>1. Append(reported, cmdlineno - (batchsize + TalkIov) - 1) \in Seq(Int)
      BY ZenonT(60), <1>0, <1>8, AppendProperties
    <3> QED BY ZenonT(60), <3>1, <1>0, <1>4
  <2>2. /\ pos' \in Nat /\ pc' \in {"read", "cmd", "send", "end"} /\ ret' \in {0, 1, 2}
        /\ bufs' \in Seq(Nat) /\ batchsize' \in Nat /\ pool' \in Nat
    <3>1. batchsize \in Nat /\ pool \in Nat /\ pool + Len(bufs) \in Nat
      BY <1>0 DEF Types
    <3>2. pos \in Nat /\ pos + 1 \in Nat /\ bufs \in Seq(Nat) /\ << >> \in Seq(Nat)
      BY <1>0, <1>1
    <3> HIDE DEF BatchIInv
    <3>3. pos' \in Nat /\ pc' \in {"read", "cmd", "send", "end"} /\ ret' \in {0, 1, 2}
      BY Zenon, <3>2, <1>4
    <3>4. /\ bufs' = bufs \/ bufs' = << >>
          /\ batchsize' = batchsize \/ batchsize' = 0
          /\ pool' = pool \/ pool' = pool + Len(bufs)
      BY Zenon, <1>4
    <3>5. bufs' \in Seq(Nat)
      BY Zenon, <3>2, <3>4
    <3>6. batchsize' \in Nat /\ pool' \in Nat
      BY <3>1, <3>4
    <3> QED BY ZenonT(60), <3>3, <3>5, <3>6
  <2> QED BY ZenonT(60), <1>1, <1>6, <2>1, <2>2 DEF Types
<1>10. Place'
  <2>1. ~lastline => pos + 1 \in Lines
    BY SMTT(60), <1>0, <1>1 DEF Lines
  <2> QED BY ZenonT(60), <2>1, <1>0, <1>1, <1>2, <1>4 DEF Place
<1>11. Waiting'
  <2>1. batchsize' = Len(bufs') /\ pool' + Len(bufs') <= MsgIovMax
    BY SMTT(60), <1>0, <1>1, <1>4, TcBatchAssumption DEF Waiting, Types
  <2>2. pc' # "end" => pc' = "read" /\ bufs' = << >>
    BY Zenon, <1>4
  <2> HIDE DEF BatchIInv
  <2> QED BY SMTT(60), <2>1, <2>2, <1>0 DEF Waiting
<1>12. Sent'
  <2>1. pc' # "end" => FirstOpen' = pos + 1
    BY Zenon, <1>4 DEF FirstOpen
  <2>2. ret' = 0 => failed' = failed
    BY SMTT(60), <1>3, <1>4, <1>5
  <2>3. ~force => failed = {}
    BY ZenonT(60), <1>1 DEF Sent
  <2>4. lastline => {l \in Commands : l < pos + 1} = Commands
    <3>1. lastline => \A l \in Commands : l < pos + 1
      BY <1>0, <1>1 DEF Lines
    <3> QED BY Zenon, <3>1
  <2>5. /\ pc' # "end" => ret' = 0
        /\ pc' = "end" /\ ret' = 0 => lastline
    BY <1>4
  <2> HIDE DEF BatchIInv
  <2> QED BY Zenon, <2>1, <2>2, <2>3, <2>4, <2>5, <1>1, <1>2, <1>6, <1>7 DEF Sent, Increasing
<1>13. LineReported'
  <2> SUFFICES ASSUME ~lastline, NEW i \in 1..Len(reported')
               PROVE  reported'[i] \in failed'
    BY Zenon, <1>1 DEF LineReported
  <2>1. CASE reported' = reported
    BY Zenon, <2>1, <1>3 DEF LineReported
  <2>2. CASE /\ TalkIov < 0
             /\ reported' = Append(reported, cmdlineno - (batchsize + TalkIov) - 1)
    <3>1. /\ Len(reported') = Len(reported) + 1 /\ Len(reported) \in Nat
          /\ \A k \in 1..Len(reported) : reported'[k] = reported[k]
          /\ reported'[Len(reported) + 1] = cmdlineno - (batchsize + TalkIov) - 1
      BY SMTT(60), <2>2, <1>0, <1>8, AppendProperties, LenProperties
    <3>2. i \in 1..Len(reported) \/ i = Len(reported) + 1
      BY <3>1
    <3> QED BY ZenonT(60), <3>1, <3>2, <2>2, <1>3, <1>8 DEF LineReported
  <2> QED BY ZenonT(60), <2>1, <2>2, <1>4
<1> QED BY ZenonT(60), <1>9, <1>10, <1>11, <1>12, <1>13

LEMMA BatchStepInv == BatchIInv /\ [Next]_vars => BatchIInv'
<1> SUFFICES ASSUME BatchIInv, [Next]_vars PROVE BatchIInv'
  OBVIOUS
<1>1. CASE UNCHANGED vars
  BY ZenonT(60), <1>1 DEF vars, BatchIInv, Types, Place, Waiting, Sent, LineReported, FirstOpen, LastInBuffer,
              Enabled, Lines, Commands
<1> QED BY ZenonT(60), <1>1, ReadAheadInv, CommandInv, SendBatchInv DEF Next

LEMMA BatchInvariance == Spec => []BatchIInv
BY BatchInitInv, BatchStepInv, PTL DEF Spec

-----------------------------------------------------------------------------
(* batchsize, from which batch() allocates the iovec array of the sendmsg, *)
(* is the number of the buffers the array is filled from, and no more than *)
(* MSG_IOV_MAX buffers are ever allocated: for every file and every        *)
(* MSG_IOV_MAX.                                                            *)
THEOREM BatchSizesAgree == Spec => []BatchSizeMatches
<1>1. BatchIInv => BatchSizeMatches
  BY Zenon DEF BatchIInv, Waiting, BatchSizeMatches
<1> QED BY <1>1, BatchInvariance, PTL

(* The look-ahead of batch() loses, repeats and reorders no command of any *)
(* file: messages go to the kernel in the order of the lines, none is      *)
(* waiting when a command talks to the kernel itself, and without -force   *)
(* the result 0 means that every command was sent and accepted.            *)
THEOREM NothingForgotten == Spec => []EverythingSent
<1>1. BatchIInv => EverythingSent
  BY Zenon DEF BatchIInv, Waiting, Sent, EverythingSent
<1> QED BY <1>1, BatchInvariance, PTL

(* "Command failed %s:%d" of batch() names a line that failed, for every   *)
(* file, as long as the number is printed before the end of the file has   *)
(* been met: also for a message in the middle of a batch.                  *)
THEOREM LineNumberRight == Spec => []LineReported
<1>1. BatchIInv => LineReported
  BY Zenon DEF BatchIInv
<1> QED BY <1>1, BatchInvariance, PTL

-----------------------------------------------------------------------------
(* ip route restore.                                                       *)

\* The state of the command.
Restore ==
  [of : {"restore"}, file : Seq(RouteTable), kernel : SUBSET RouteTable, prio : 0..2, pos : Nat \ {0},
   ret : {"none", "ok", "error"}, fault : BOOLEAN]

\* What the passes have left behind: the routes of the earlier passes, and
\* those of this one that lie before the position in the file, are in the
\* table; the command ends well after the last pass, and otherwise with a
\* route of this pass that the table is not ready for.
Passes ==
  \A i \in 1..Len(trial.file) : \A q \in 0..trial.prio :
    (restored(trial.file[i], q) /\ (q < trial.prio \/ i < trial.pos)) => trial.file[i] \in trial.kernel
Verdict ==
  /\ trial.ret = "ok" => (trial.prio = 2 /\ trial.pos > Len(trial.file))
  /\ (trial.ret = "error" /\ ~trial.fault) =>
       /\ trial.pos \in 1..Len(trial.file)
       /\ restored(trial.file[trial.pos], trial.prio)
       /\ ~kernel_accepts(trial.file[trial.pos], trial.kernel)

RestoreInv == trial = NotYet \/ (trial \in Restore /\ Passes /\ Verdict)

\* The three conditions of restore_handler() leave out no route.
LEMMA EveryRouteHasItsPass == ASSUME NEW r PROVE \E q \in 0..2 : restored(r, q)
<1>1. r.gateway # {} => restored(r, 2)
  BY Zenon DEF restored
<1>2. r.gateway = {} /\ (r.prefsrc = "" \/ ~rtattr_cmp(r.prefsrc, r.dst)) => restored(r, 0)
  BY Zenon DEF restored
<1>3. r.gateway = {} /\ r.prefsrc # "" /\ rtattr_cmp(r.prefsrc, r.dst) => restored(r, 1)
  BY Zenon DEF restored
<1>4. 0 \in 0..2 /\ 1 \in 0..2 /\ 2 \in 0..2
  OBVIOUS
<1> QED
  BY ZenonT(60), <1>1, <1>2, <1>3, <1>4

\* A route whose source is the address of another route is not sent in the
\* first pass.
LEMMA SourceComesFirst ==
  ASSUME NEW r, NEW q \in 0..2
  PROVE  (restored(r, q) /\ r.prefsrc \notin {"", r.dst}) => 0 < q
<1>1. 0 < q \/ (q = 0 /\ q # 1 /\ q # 2)
  OBVIOUS
<1> QED
  BY ZenonT(60), <1>1 DEF restored, rtattr_cmp

\* What a route rests on is sent in an earlier pass: when a route of a file
\* without multipath routes is refused in its own pass, something that it
\* rests on is neither in the file nor in the table.
LEMMA RefusedForGoodReason ==
  ASSUME trial \in Restore, Passes, trial.pos \in 1..Len(trial.file),
         restored(trial.file[trial.pos], trial.prio),
         \A r \in Range(trial.file) : r.multipath = {},
         SelfContained(trial.file, trial.kernel)
  PROVE  kernel_accepts(trial.file[trial.pos], trial.kernel)
<1> DEFINE r == trial.file[trial.pos]
           all == Range(trial.file) \cup trial.kernel
<1>1. /\ trial.file \in Seq(RouteTable) /\ trial.kernel \subseteq RouteTable /\ trial.prio \in 0..2
      /\ DOMAIN trial.file = 1..Len(trial.file)
  BY DEF Restore
<1>2. r \in Range(trial.file) /\ Range(trial.file) \subseteq RouteTable
  BY <1>1 DEF Range
<1>3. kernel_accepts(r, all) /\ r.multipath = {}
  BY Zenon, <1>2 DEF SelfContained
<1>4. ASSUME NEW k \in all, NEW q \in 0..2, restored(k, q), q < trial.prio
      PROVE  k \in trial.kernel
  <2>1. CASE k \in trial.kernel
    BY ZenonT(60), <2>1
  <2>2. CASE k \in Range(trial.file)
    <3>1. PICK i \in 1..Len(trial.file) : k = trial.file[i]
      BY Zenon, <2>2, <1>1 DEF Range
    <3> QED
      BY <3>1, <1>1, <1>4 DEF Passes
  <2> QED
    BY Zenon, <2>1, <2>2
<1>5. r.prefsrc \in {"", r.dst} \cup {k.dst : k \in {x \in trial.kernel : x.prefsrc = x.dst}}
  <2>1. CASE r.prefsrc \in {"", r.dst}
    BY Zenon, <2>1
  <2>2. CASE r.prefsrc \notin {"", r.dst}
    <3>1. PICK k \in all : k.prefsrc = k.dst /\ k.dst = r.prefsrc
      <4>1. r.prefsrc \in {"", r.dst} \cup {k.dst : k \in {x \in all : x.prefsrc = x.dst}}
        BY Zenon, <1>3 DEF kernel_accepts
      <4> QED
        BY Zenon, <4>1, <2>2
    <3>2. k.gateway = {}
      BY ZenonT(60), <3>1, <2>2, <1>1, <1>2, RouteAssumption
    <3>3. restored(k, 0)
      BY ZenonT(60), <3>1, <3>2, <2>2 DEF restored, rtattr_cmp
    <3>4. 0 < trial.prio
      BY ZenonT(60), <2>2, <1>1, SourceComesFirst
    <3>5. k \in trial.kernel
      BY <3>3, <3>4, <1>4
    <3> QED
      BY Zenon, <3>5, <3>1
  <2> QED
    BY Zenon, <2>1, <2>2
<1>6. ASSUME NEW n \in r.gateway
      PROVE  \E k \in trial.kernel : k.dst = n /\ k.gateway \cup k.multipath = {}
  <2>1. PICK k \in all : k.dst = n /\ k.gateway \cup k.multipath = {}
    BY Zenon, <1>3, <1>6 DEF kernel_accepts
  <2>2. trial.prio = 2
    BY Zenon, <1>6, <1>1 DEF restored
  <2>3. restored(k, 0) \/ restored(k, 1)
    BY ZenonT(60), <2>1 DEF restored
  <2>4. k \in trial.kernel
    BY <2>2, <2>3, <1>4
  <2> QED
    BY Zenon, <2>1, <2>4
<1> QED
  BY ZenonT(60), <1>3, <1>5, <1>6 DEF kernel_accepts

\* One step of restore_handler(): the route is not for this pass, is there
\* already, is taken, or is refused.
LEMMA HandlerInv ==
  ASSUME trial \in Restore, Passes, Verdict, restore_handler
  PROVE  RestoreInv'
<1> DEFINE r == trial.file[trial.pos]
<1>1. /\ trial.file \in Seq(RouteTable) /\ trial.kernel \subseteq RouteTable /\ trial.prio \in 0..2
      /\ trial.pos \in 1..Len(trial.file) /\ Len(trial.file) \in Nat /\ trial.ret = "none"
      /\ r \in RouteTable
  BY DEF Restore, restore_handler, Restoring
<1>2. CASE trial' = [trial EXCEPT !.ret = "error"] /\ restored(r, trial.prio) /\ ~kernel_accepts(r, trial.kernel)
  <2>1. /\ trial' \in Restore /\ trial'.file = trial.file /\ trial'.kernel = trial.kernel
        /\ trial'.prio = trial.prio /\ trial'.pos = trial.pos /\ trial'.ret = "error"
    BY Zenon, <1>2 DEF Restore
  <2>2. Passes'
    BY Zenon, <2>1 DEF Passes
  <2>3. Verdict'
    BY ZenonT(60), <2>1, <1>1, <1>2 DEF Verdict
  <2> QED
    BY ZenonT(60), <2>1, <2>2, <2>3 DEF RestoreInv
<1>3. CASE /\ \/ trial' = [trial EXCEPT !.pos = @ + 1]
              \/ trial' = [[trial EXCEPT !.pos = @ + 1] EXCEPT !.kernel = @ \cup {r}]
           /\ restored(r, trial.prio) => r \in trial'.kernel
  <2>1. /\ trial' \in Restore /\ trial'.file = trial.file /\ trial.kernel \subseteq trial'.kernel
        /\ trial'.prio = trial.prio /\ trial'.pos = trial.pos + 1 /\ trial'.ret = "none"
    <3>1. trial.pos + 1 \in Nat \ {0} /\ trial.kernel \cup {r} \subseteq RouteTable
      BY <1>1
    <3>2. CASE trial' = [trial EXCEPT !.pos = @ + 1]
      BY Zenon, <3>1, <3>2, <1>1 DEF Restore
    <3>3. CASE trial' = [[trial EXCEPT !.pos = @ + 1] EXCEPT !.kernel = @ \cup {r}]
      <4> HIDE DEF r
      <4> QED
        BY ZenonT(60), <3>1, <3>3, <1>1 DEF Restore
    <3> QED
      BY ZenonT(60), <3>2, <3>3, <1>3
  <2>2. Passes'
    <3> SUFFICES ASSUME NEW i \in 1..Len(trial.file), NEW q \in 0..trial.prio, restored(trial.file[i], q),
                        q < trial.prio \/ i < trial.pos + 1
                 PROVE  trial.file[i] \in trial'.kernel
      BY Zenon, <2>1 DEF Passes
    <3>1. CASE q < trial.prio \/ i < trial.pos
      BY Zenon, <3>1, <2>1 DEF Passes
    <3>2. CASE q = trial.prio /\ i = trial.pos
      BY Zenon, <3>2, <1>3
    <3> QED
      BY <3>1, <3>2, <1>1
  <2>3. Verdict'
    BY Zenon, <2>1 DEF Verdict
  <2> QED
    BY ZenonT(60), <2>1, <2>2, <2>3 DEF RestoreInv
<1>4. CASE ~restored(r, trial.prio) \/ r \in trial.kernel
  <2>1. trial' = [trial EXCEPT !.pos = @ + 1]
    BY Zenon, <1>4 DEF restore_handler
  <2>2. trial'.kernel = trial.kernel
    BY Zenon, <2>1 DEF Restore
  <2> QED
    BY ZenonT(60), <2>1, <2>2, <1>4, <1>3
<1>5. CASE restored(r, trial.prio) /\ r \notin trial.kernel /\ kernel_accepts(r, trial.kernel)
  <2>1. trial' = [[trial EXCEPT !.pos = @ + 1] EXCEPT !.kernel = @ \cup {r}]
    BY Zenon, <1>5 DEF restore_handler
  <2>2. r \in trial'.kernel
    BY Zenon, <2>1 DEF Restore
  <2> QED
    BY ZenonT(60), <2>1, <2>2, <1>3
<1>6. CASE restored(r, trial.prio) /\ r \notin trial.kernel /\ ~kernel_accepts(r, trial.kernel)
  <2>1. trial' = [trial EXCEPT !.ret = "error"]
    BY Zenon, <1>6 DEF restore_handler
  <2> QED
    BY ZenonT(60), <2>1, <1>6, <1>2
<1> QED
  BY ZenonT(60), <1>4, <1>5, <1>6

\* restore_fails and restore_pass: the end of a pass is the beginning of the
\* next one.
LEMMA PassInv ==
  ASSUME trial \in Restore, Passes, Verdict, restore_fails \/ restore_pass
  PROVE  RestoreInv'
<1>1. trial.file \in Seq(RouteTable) /\ Len(trial.file) \in Nat /\ trial.prio \in 0..2 /\ trial.pos \in Nat
  BY DEF Restore
<1>2. CASE restore_fails
  <2>1. /\ trial' \in Restore /\ trial'.file = trial.file /\ trial'.kernel = trial.kernel
        /\ trial'.prio = trial.prio /\ trial'.pos = trial.pos /\ trial'.ret = "error" /\ trial'.fault = TRUE
    BY Zenon, <1>2 DEF restore_fails, Restore
  <2>2. Passes' /\ Verdict'
    BY Zenon, <2>1 DEF Passes, Verdict
  <2> QED
    BY Zenon, <2>1, <2>2 DEF RestoreInv
<1>3. CASE restore_pass /\ trial.prio < 2
  <2>1. trial' = [trial EXCEPT !.prio = @ + 1, !.pos = 1] /\ trial.ret = "none" /\ trial.pos > Len(trial.file)
    BY Zenon, <1>3 DEF restore_pass, Restoring
  <2>2. /\ trial' \in Restore /\ trial'.file = trial.file /\ trial'.kernel = trial.kernel
        /\ trial'.prio = trial.prio + 1 /\ trial'.pos = 1 /\ trial'.ret = "none"
    <3>1. trial.prio + 1 \in 0..2 /\ 1 \in Nat \ {0}
      BY <1>1, <1>3
    <3> QED
      BY Zenon, <3>1, <2>1 DEF Restore
  <2>3. Passes'
    <3> SUFFICES ASSUME NEW i \in 1..Len(trial.file), NEW q \in 0..(trial.prio + 1), restored(trial.file[i], q),
                        q < trial.prio + 1 \/ i < 1
                 PROVE  trial.file[i] \in trial.kernel
      BY Zenon, <2>2 DEF Passes
    <3> QED
      BY <2>1, <1>1 DEF Passes
  <2>4. Verdict'
    BY Zenon, <2>2 DEF Verdict
  <2> QED
    BY Zenon, <2>2, <2>3, <2>4 DEF RestoreInv
<1>4. CASE restore_pass /\ ~(trial.prio < 2)
  <2>1. trial' = [trial EXCEPT !.ret = "ok"] /\ trial.pos > Len(trial.file)
    BY Zenon, <1>4 DEF restore_pass
  <2>2. /\ trial' \in Restore /\ trial'.file = trial.file /\ trial'.kernel = trial.kernel
        /\ trial'.prio = trial.prio /\ trial'.pos = trial.pos /\ trial'.ret = "ok"
    BY Zenon, <2>1 DEF Restore
  <2>3. Passes'
    BY Zenon, <2>2 DEF Passes
  <2>4. Verdict'
    BY <2>1, <2>2, <1>1, <1>4 DEF Verdict
  <2> QED
    BY ZenonT(60), <2>2, <2>3, <2>4 DEF RestoreInv
<1> QED
  BY ZenonT(60), <1>2, <1>3, <1>4

\* A step of the command keeps the invariant.
LEMMA RestoreStep == RestoreInv /\ [RestoreNext]_trial => RestoreInv'
<1> SUFFICES ASSUME RestoreInv, [RestoreNext]_trial PROVE RestoreInv'
  OBVIOUS
<1>1. CASE UNCHANGED trial
  BY Zenon, <1>1 DEF RestoreInv, Passes, Verdict
<1>2. CASE iproute_restore
  <2>1. PICK n \in 0..MaxRoutes : \E saved \in [1..n -> RouteTable] : \E kernel \in SUBSET RouteTable :
          trial' = [of |-> "restore", file |-> saved, kernel |-> kernel, prio |-> 0, pos |-> 1, ret |-> "none", fault |-> FALSE]
    BY Zenon, <1>2 DEF iproute_restore
  <2>2. PICK saved \in [1..n -> RouteTable], kernel \in SUBSET RouteTable :
          trial' = [of |-> "restore", file |-> saved, kernel |-> kernel, prio |-> 0, pos |-> 1, ret |-> "none", fault |-> FALSE]
    BY Zenon, <2>1
  <2>3. n \in Nat
    <3>1. MaxRoutes \in Nat
      BY Zenon, RouteAssumption
    <3> QED
      BY <3>1
  <2>4. saved \in Seq(RouteTable)
    BY SMTT(60), <2>3
  <2>5. /\ trial' \in Restore /\ trial'.file = saved /\ trial'.prio = 0 /\ trial'.pos = 1 /\ trial'.ret = "none"
    BY SMTT(60), <2>2, <2>4 DEF Restore
  <2>6. Passes' /\ Verdict'
    BY <2>5 DEF Passes, Verdict
  <2> QED
    BY Zenon, <2>5, <2>6 DEF RestoreInv
<1>3. CASE restore_handler \/ restore_fails \/ restore_pass
  <2>1. trial.of = "restore"
    BY ZenonT(60), <1>3 DEF restore_handler, restore_fails, restore_pass, Restoring
  <2>2. trial # NotYet
    BY <2>1 DEF NotYet
  <2> QED
    BY ZenonT(60), <1>3, <2>2, HandlerInv, PassInv DEF RestoreInv
<1> QED
  BY Zenon, <1>1, <1>2, <1>3 DEF RestoreNext

\* ip route restore of any file over any table: when it succeeds every route
\* of the file is in the table, and it gives up by itself only on a file with
\* a multipath route or with a route that rests on something which is neither
\* in the file nor in the table.
THEOREM RestoreOrderRight == RestoreSpec => []RestoreInOrder
<1>1. TrialInit => RestoreInv
  BY Zenon DEF TrialInit, RestoreInv
<1>2. RestoreInv => RestoreInOrder
  <2> SUFFICES ASSUME trial \in Restore, Passes, Verdict PROVE RestoreInOrder
    BY DEF RestoreInv, RestoreInOrder, NotYet
  <2>1. /\ trial.file \in Seq(RouteTable) /\ Len(trial.file) \in Nat /\ trial.prio \in 0..2 /\ trial.pos \in Nat
        /\ DOMAIN trial.file = 1..Len(trial.file)
    BY SMTT(60) DEF Restore
  <2>2. ASSUME trial.ret = "ok", NEW r \in Range(trial.file) PROVE r \in trial.kernel
    <3>1. PICK i \in 1..Len(trial.file) : r = trial.file[i]
      BY Zenon, <2>1, <2>2 DEF Range
    <3>2. PICK q \in 0..2 : restored(r, q)
      BY Zenon, EveryRouteHasItsPass
    <3>3. trial.prio = 2 /\ trial.pos > Len(trial.file)
      BY Zenon, <2>2 DEF Verdict
    <3> QED
      BY SMTT(60), <3>1, <3>2, <3>3, <2>1 DEF Passes
  <2>3. ASSUME trial.ret = "error", ~trial.fault, SelfContained(trial.file, trial.kernel)
        PROVE  \E r \in Range(trial.file) : r.multipath # {}
    BY ZenonT(60), <2>3, RefusedForGoodReason DEF Verdict
  <2> QED
    BY ZenonT(60), <2>2, <2>3 DEF RestoreInOrder
<1> QED
  BY <1>1, <1>2, RestoreStep, PTL DEF RestoreSpec

-----------------------------------------------------------------------------
(* The list commands.                                                      *)

\* What holds of the row of a word, where a command resets the fields R and
\* looks up those in L late: only the words for "state" of bridge fdb widen
\* what no command resets.
Row(k, row, R, L) ==
  /\ row.clears \cap L = {} /\ "state" \notin row.clears
  /\ \A x \in DOMAIN row.sets : row.sets[x] = "unread" => k = x
  /\ \A x \in DOMAIN row.sets \ R : IF x = "state" THEN row.adds /\ row.sets[x] = "present" ELSE ~row.adds
Rows(words, R, L) == \A k \in DOMAIN words : Row(k, words[k], R, L)

LEMMA RowsJoin ==
  ASSUME NEW a, NEW b, NEW R, NEW L, Rows(a, R, L), Rows(b, R, L)
  PROVE  Rows(a ++ b, R, L)
BY ZenonT(60) DEF Rows, ++

LEMMA FieldsJoin ==
  ASSUME NEW a, NEW b, NEW F, Fields(a) \subseteq F, Fields(b) \subseteq F
  PROVE  Fields(a ++ b) \subseteq F
BY Zenon DEF Fields, ++

LEMMA PlainWord ==
  ASSUME NEW k, NEW x, NEW how, NEW R, NEW L, x # "state", how = "unread" => k = x
  PROVE  Row(k, Word(One(x, how)), R, L)
BY Zenon DEF Row, Word, One

LEMMA PlainRow ==
  ASSUME NEW k, NEW x, NEW how, NEW R, NEW L, x # "state", how # "unread"
  PROVE  Rows(One(k, Word(One(x, how))), R, L)
BY ZenonT(60), PlainWord DEF Rows, One

LEMMA PlainFields ==
  ASSUME NEW k, NEW x, NEW how, NEW F, x \in F
  PROVE  Fields(One(k, Word(One(x, how)))) \subseteq F
BY Zenon DEF Fields, Word, One

LEMMA PlainRows ==
  ASSUME NEW K, NEW how, NEW R, NEW L, "state" \notin K
  PROVE  /\ Rows(Words(K, how), R, L) /\ Fields(Words(K, how)) = K
         /\ Rows(OnceWords(Words(K, how)), R, L) /\ Fields(OnceWords(Words(K, how))) = K
<1>1. ASSUME NEW k \in K PROVE Row(k, Word(One(k, how)), R, L) /\ Row(k, [Word(One(k, how)) EXCEPT !.once = TRUE], R, L)
  BY Zenon DEF Row, Word, One
<1>2. ASSUME NEW k \in K PROVE DOMAIN Word(One(k, how)).sets = {k} /\ DOMAIN [Word(One(k, how)) EXCEPT !.once = TRUE].sets = {k}
  BY Zenon DEF Word, One
<1> DEFINE a == Words(K, how)
           b == OnceWords(Words(K, how))
<1>3. /\ DOMAIN a = K /\ \A k \in K : a[k] = Word(One(k, how))
      /\ DOMAIN b = K /\ \A k \in K : b[k] = [Word(One(k, how)) EXCEPT !.once = TRUE]
  BY Zenon DEF Words, OnceWords
<1> HIDE DEF a, b
<1>4. Rows(a, R, L) /\ Rows(b, R, L)
  BY Zenon, <1>1, <1>3 DEF Rows
<1>5. Fields(a) = K
  BY <1>2, <1>3 DEF Fields
<1>6. Fields(b) = K
  <2>1. \A k \in K : DOMAIN b[k].sets = {k}
    BY Zenon, <1>2, <1>3
  <2> QED BY <1>3, <2>1 DEF Fields
<1> QED BY Zenon, <1>4, <1>5, <1>6 DEF a, b

LEMMA AddingRows ==
  ASSUME NEW k, NEW R, NEW L, k = "state" \/ k \in R
  PROVE  Rows(Adding(Words({k}, "present")), R, L) /\ Fields(Adding(Words({k}, "present"))) = {k}
<1>1. Row(k, [Word(One(k, "present")) EXCEPT !.adds = TRUE], R, L)
  BY Zenon DEF Row, Word, One
<1>2. DOMAIN [Word(One(k, "present")) EXCEPT !.adds = TRUE].sets = {k}
  BY Zenon DEF Word, One
<1> QED BY Zenon, <1>1, <1>2 DEF Rows, Words, Adding, Fields

\* Two fields at once.
LEMMA PairRow ==
  ASSUME NEW k, NEW x, NEW y, NEW how, NEW hoy, NEW R, NEW L, x # "state", y # "state", how # "unread", hoy # "unread"
  PROVE  Rows(One(k, Word(One(x, how) ++ One(y, hoy))), R, L)
<1> DEFINE both == One(x, how) ++ One(y, hoy)
<1>1. DOMAIN both = {x, y} /\ both[x] # "unread" /\ both[y] # "unread"
  BY Zenon DEF ++, One
<1> HIDE DEF both
<1>2. Row(k, Word(both), R, L)
  BY Zenon, <1>1 DEF Row, Word
<1> QED BY ZenonT(60), <1>2 DEF Rows, One, both

LEMMA PairFields ==
  ASSUME NEW k, NEW x, NEW y, NEW how, NEW hoy
  PROVE  Fields(One(k, Word(One(x, how) ++ One(y, hoy)))) = {x, y}
<1> DEFINE both == One(x, how) ++ One(y, hoy)
<1>1. DOMAIN both = {x, y}
  BY Zenon DEF ++, One
<1> HIDE DEF both
<1>2. Word(both).sets = both
  BY ZenonT(60) DEF Word
<1> QED BY ZenonT(60), <1>1, <1>2 DEF One, Fields, both

-----------------------------------------------------------------------------
\* The fields of a file's filter.
FileFields(f) ==
  CASE f = "iproute" -> DOMAIN iproute_reset_filter
    [] f = "iprule" -> Fields(iprule_list_flush_or_save.words)
    [] f = "ipneigh" -> DOMAIN ipneigh_reset_filter
    [] f = "ipaddress" -> DOMAIN ipaddr_reset_filter \cup {"do_link"}
    [] f = "ipntable" -> Fields(ipntable_show.words)
    [] f = "ipnetconf" -> Fields(do_show_netconf.words)
    [] f = "ipmroute" -> DOMAIN mroute_list.resets
    [] f = "ipmaddr" -> Fields(multiaddr_list.words)
    [] f = "tc_qdisc" -> Fields(tc_qdisc_list.words)
    [] f = "tc_class" -> Fields(tc_class_list.words)
    [] f = "tc_filter" -> Fields(tc_filter_list.words)
    [] f = "fdb" -> Fields(fdb_show.words)
    [] f = "link" -> Fields(brlink_show.words)
    [] f = "mdb" -> Fields(mdb_show.words)
    [] f = "vlan" -> Fields(vlan_show.words)

\* A command that resets anything resets all fields of its file but for those
\* that SameAsAlone sets apart.
SetApart(c) == {"do_link"} \cup (IF c = "tc filter" THEN {"chain"} ELSE {})
Covers(c, com) ==
  /\ Rows(com.words, DOMAIN com.resets, com.late)
  /\ Fields(com.words) \subseteq FileFields(com.file) /\ DOMAIN com.resets \subseteq FileFields(com.file)
  /\ DOMAIN com.resets # {} => FileFields(com.file) \subseteq DOMAIN com.resets \cup SetApart(c)
CoverAll(T) == \A c \in DOMAIN T : Covers(c, T[c])

LEMMA CoverJoin ==
  ASSUME NEW a, NEW b, CoverAll(a), CoverAll(b)
  PROVE  CoverAll(a ++ b)
BY Zenon DEF CoverAll, ++

LEMMA OneCovers ==
  ASSUME NEW c, NEW com, Covers(c, com)
  PROVE  CoverAll(One(c, com))
BY Zenon DEF CoverAll, One

\* The commands whose resets are made from their words.
LEMMA MadeFromWords ==
  ASSUME NEW c, NEW f, NEW words, FileFields(f) = Fields(words)
  PROVE  /\ (\A R : Rows(words, R, {"dev"})) => Covers(c, ResetList(f, words))
         /\ Rows(words, {}, {"dev"}) => Covers(c, NotReset(f, words))
<1>1. /\ ResetList(f, words).words = words /\ DOMAIN ResetList(f, words).resets = Fields(words)
      /\ ResetList(f, words).late = {"dev"} /\ ResetList(f, words).file = f
      /\ NotReset(f, words).words = words /\ DOMAIN NotReset(f, words).resets = {}
      /\ NotReset(f, words).late = {"dev"} /\ NotReset(f, words).file = f
  BY DEF ResetList, NotReset, List, Clear
<1> QED BY ZenonT(60), <1>1 DEF Covers

LEMMA RouteCommand == Covers("ip route", iproute_list_flush_or_save)
<1> DEFINE com == iproute_list_flush_or_save
           words == filter_nlmsg ++ Words({"table"}, "present")
                      ++ One("table all", Word(One("table", "any")))
                      ++ [k \in {"table cache", "cached"} |-> Word(One("cloned", "equal"))]
                      ++ One("vrf", Word(One("table", "present") ++ One("type", "clear")))
                      ++ One("protocol all", Word(One("protocol", "any"))) ++ One("scope all", Word(One("scope", "any")))
           F == DOMAIN iproute_reset_filter
           L == {"oif", "iif", "mark"}
<1>1. com.words = words /\ com.resets = iproute_reset_filter /\ com.late = L /\ com.file = "iproute"
  BY ZenonT(60) DEF iproute_list_flush_or_save, List
<1>2. DOMAIN filter_nlmsg \subseteq F /\ {"tos", "protocol", "scope", "mark", "metric", "realms", "type", "oif", "iif", "via", "src",
                                         "table", "cloned"} \subseteq F
  BY ZenonT(60) DEF iproute_reset_filter, filter_nlmsg, Words, ++
<1> DEFINE lot == [k \in {"table cache", "cached"} |-> Word(One("cloned", "equal"))]
<1>7. "table" \in F /\ "protocol" \in F /\ "scope" \in F /\ "type" \in F /\ "cloned" \in F
  BY Zenon, <1>2
<1>3. Rows(lot, F, L) /\ Fields(lot) = {"cloned"}
  <2>1. Rows(lot, F, L)
    BY ZenonT(60), PlainWord DEF Rows
  <2> QED BY Zenon, <2>1 DEF Fields, Word, One
<1>4. Rows(filter_nlmsg, F, L) /\ Fields(filter_nlmsg) \subseteq F
  BY SMTT(60), <1>2, PlainRows, RowsJoin, FieldsJoin DEF filter_nlmsg
<1>0. words = filter_nlmsg ++ Words({"table"}, "present") ++ One("table all", Word(One("table", "any"))) ++ lot
                ++ One("vrf", Word(One("table", "present") ++ One("type", "clear")))
                ++ One("protocol all", Word(One("protocol", "any"))) ++ One("scope all", Word(One("scope", "any")))
  OBVIOUS
<1> HIDE DEF F, L, lot, words
<1>5. Rows(words, F, L)
  BY ZenonT(60), <1>0, <1>3, <1>4, PlainRows, PlainRow, PairRow, RowsJoin
<1>6. Fields(words) \subseteq F
  <2>1. Fields(Words({"table"}, "present")) \subseteq F
    BY <1>2, PlainRows
  <2>2. Fields(One("table all", Word(One("table", "any")))) \subseteq F
    BY Zenon, <1>7, PlainFields
  <2>3. Fields(One("vrf", Word(One("table", "present") ++ One("type", "clear")))) \subseteq F
    BY <1>7, PairFields
  <2>4. Fields(One("protocol all", Word(One("protocol", "any")))) \subseteq F
        /\ Fields(One("scope all", Word(One("scope", "any")))) \subseteq F
    BY Zenon, <1>7, PlainFields
  <2>5. Fields(lot) \subseteq F
    BY Zenon, <1>2, <1>3
  <2>6. Fields(filter_nlmsg ++ Words({"table"}, "present") ++ One("table all", Word(One("table", "any"))) ++ lot) \subseteq F
    <3> HIDE DEF lot
    <3> DEFINE a == filter_nlmsg ++ Words({"table"}, "present")
               b == a ++ One("table all", Word(One("table", "any")))
    <3>1. Fields(a) \subseteq F
      BY ZenonT(60), <1>4, <2>1, FieldsJoin
    <3> HIDE DEF a
    <3>2. Fields(b) \subseteq F
      BY ZenonT(60), <2>2, <3>1, FieldsJoin
    <3> HIDE DEF b
    <3>3. Fields(b ++ lot) \subseteq F
      BY ZenonT(60), <2>5, <3>2, FieldsJoin
    <3> QED BY Zenon, <3>3, Zenon DEF a, b
  <2> DEFINE a == filter_nlmsg ++ Words({"table"}, "present") ++ One("table all", Word(One("table", "any"))) ++ lot
             b == a ++ One("vrf", Word(One("table", "present") ++ One("type", "clear")))
             c == b ++ One("protocol all", Word(One("protocol", "any")))
  <2>7. words = c ++ One("scope all", Word(One("scope", "any"))) /\ Fields(a) \subseteq F
    BY ZenonT(60), <1>0, <2>6
  <2> HIDE DEF a
  <2>8. Fields(b) \subseteq F
    BY ZenonT(60), <2>3, <2>7, FieldsJoin
  <2> HIDE DEF b
  <2>9. Fields(c) \subseteq F
    BY ZenonT(60), <2>4, <2>8, FieldsJoin
  <2> HIDE DEF c
  <2> QED BY ZenonT(60), <2>4, <2>7, <2>9, FieldsJoin
<1> HIDE DEF com
<1> QED BY ZenonT(60), <1>1, <1>5, <1>6 DEF Covers, FileFields, com, F, L

LEMMA AddressRows ==
  ASSUME NEW R
  PROVE  LET F == DOMAIN ipaddr_reset_filter
         IN /\ Rows(linkinfo_words, R, {"dev"}) /\ Fields(linkinfo_words) \subseteq F
            /\ Rows(addrinfo_words, R, {"dev"}) /\ Fields(addrinfo_words) \subseteq F
            /\ Rows(get_filter, R, {"dev"}) /\ Fields(get_filter) \subseteq F
<1> DEFINE F == DOMAIN ipaddr_reset_filter
           L == {"dev"}
           minus == [k \in {"-tentative", "-deprecated"} |->
                       LET x == IF k = "-tentative" THEN "tentative" ELSE "deprecated" IN
                       [Word(One(x, "clear")) EXCEPT !.clears = ifa_flag_names \ {x}]]
<1>1. {"dev", "up", "type", "master", "group", "scope", "label", "to",
       "secondary", "tentative", "deprecated", "permanent"} \subseteq F
  BY Zenon DEF ipaddr_reset_filter, Clear, ifa_flag_names
<1> HIDE DEF F
<1>7. "master" \in F /\ "scope" \in F /\ "permanent" \in F /\ "secondary" \in F
  BY Zenon, <1>1
<1>2. Rows(minus, R, L) /\ Fields(minus) \subseteq F
  <2>1. ASSUME NEW k \in {"-tentative", "-deprecated"}
        PROVE  Row(k, minus[k], R, L) /\ DOMAIN minus[k].sets \subseteq F
    <3>1. PICK x \in {"tentative", "deprecated"} : minus[k] = [Word(One(x, "clear")) EXCEPT !.clears = ifa_flag_names \ {x}]
      OBVIOUS
    <3> HIDE DEF minus
    <3>2. DOMAIN minus[k].sets = {x} /\ minus[k].sets[x] = "clear" /\ minus[k].adds = FALSE
          /\ minus[k].clears = ifa_flag_names \ {x}
      BY ZenonT(60), <3>1 DEF Word, One
    <3> QED BY ZenonT(60), <1>1, <3>2 DEF Row, ifa_flag_names
  <2>2. DOMAIN minus = {"-tentative", "-deprecated"}
    OBVIOUS
  <2> HIDE DEF minus
  <2> QED BY ZenonT(60), <2>1, <2>2 DEF Rows, Fields
<1> HIDE DEF L
<1>3. Rows(linkinfo_words, R, L) /\ Rows(addrinfo_words, R, L)
  BY Zenon, PlainRows, PlainRow, RowsJoin DEF linkinfo_words, addrinfo_words
<1>4. Fields(linkinfo_words) \subseteq F
  <2>1. Fields(Words({"up"}, "equal")) \subseteq F /\ Fields(Words({"type", "master", "group"}, "present")) \subseteq F
        /\ Fields(OnceWords(Words({"dev"}, "present"))) \subseteq F
    BY <1>1, PlainRows
  <2>2. Fields(One("vrf", Word(One("master", "present")))) \subseteq F
    BY Zenon, <1>7, PlainFields
  <2> QED BY <2>1, <2>2, FieldsJoin DEF linkinfo_words
<1>5. Fields(addrinfo_words) \subseteq F
  <2>1. Fields(Words({"scope"}, "equal")) \subseteq F /\ Fields(Words({"label", "to"}, "present")) \subseteq F
    BY <1>1, PlainRows
  <2>2. Fields(One("scope all", Word(One("scope", "any")))) \subseteq F
    BY Zenon, <1>7, PlainFields
  <2> QED BY ZenonT(60), <2>1, <2>2, FieldsJoin DEF addrinfo_words
<1>6. Rows(get_filter, R, L) /\ Fields(get_filter) \subseteq F
  <2>1. Rows(Words(ifa_flag_names, "equal"), R, L) /\ Fields(Words(ifa_flag_names, "equal")) \subseteq F
    BY <1>1, PlainRows DEF ifa_flag_names
  <2>2. /\ Rows(One("dynamic", Word(One("permanent", "clear"))), R, L)
        /\ Fields(One("dynamic", Word(One("permanent", "clear")))) \subseteq F
        /\ Rows(One("primary", Word(One("secondary", "clear"))), R, L)
        /\ Fields(One("primary", Word(One("secondary", "clear")))) \subseteq F
    BY Zenon, <1>7, PlainRow, PlainFields
  <2>3. get_filter = Words(ifa_flag_names, "equal") ++ One("dynamic", Word(One("permanent", "clear")))
                       ++ One("primary", Word(One("secondary", "clear"))) ++ minus
    BY Zenon DEF get_filter
  <2> HIDE DEF minus
  <2> QED BY <1>2, <2>1, <2>2, <2>3, RowsJoin, FieldsJoin
<1> QED BY ZenonT(60), <1>3, <1>4, <1>5, <1>6 DEF F, L

LEMMA AddressCommands == Covers("ip address", ipaddr_list_flush_or_save) /\ Covers("ip link", ipaddr_list_link)
<1> DEFINE F == DOMAIN ipaddr_reset_filter
           a == ipaddr_list_flush_or_save
           b == ipaddr_list_link
<1>1. a.words = linkinfo_words ++ addrinfo_words ++ get_filter /\ a.resets = ipaddr_reset_filter
      /\ a.late = {"dev"} /\ a.file = "ipaddress"
  BY Zenon DEF ipaddr_list_flush_or_save, List
<1>2. b.words = linkinfo_words /\ b.resets = One("do_link", Equal(1)) ++ ipaddr_reset_filter
      /\ b.late = {"dev"} /\ b.file = "ipaddress"
  BY Zenon DEF ipaddr_list_link, List
<1>3. DOMAIN b.resets = F \cup {"do_link"}
  BY ZenonT(60), <1>2 DEF ++, One
<1>4. Rows(a.words, F, {"dev"}) /\ Fields(a.words) \subseteq F
  BY SMTT(60), <1>1, AddressRows, RowsJoin, FieldsJoin
<1>5. Rows(b.words, F \cup {"do_link"}, {"dev"}) /\ Fields(b.words) \subseteq F
  BY Zenon, <1>2, AddressRows
<1>6. FileFields("ipaddress") = F \cup {"do_link"}
  BY Zenon DEF FileFields
<1> HIDE DEF F, a, b
<1>7. Covers("ip address", a)
  BY ZenonT(60), <1>1, <1>4, <1>6 DEF Covers, SetApart, F
<1>8. Covers("ip link", b)
  BY ZenonT(60), <1>2, <1>3, <1>5, <1>6 DEF Covers, SetApart
<1> QED BY Zenon, <1>7, <1>8 DEF a, b

LEMMA RuleCommand == Covers("ip rule", iprule_list_flush_or_save)
<1> DEFINE words == rule_filter_nlmsg ++ Words({"protocol"}, "unread")
                      ++ One("fwmark/mask", Word(One("fwmark", "nonzero") ++ One("fwmask", "nonzero")))
<1>1. iprule_list_flush_or_save = ResetList("iprule", words) /\ ResetList("iprule", words).words = words
  BY Zenon DEF iprule_list_flush_or_save, ResetList, List
<1>2. ASSUME NEW R PROVE Rows(words, R, {"dev"})
  <2>1. Rows(rule_filter_nlmsg, R, {"dev"})
    BY Zenon, PlainRows, RowsJoin DEF rule_filter_nlmsg
  <2>2. Rows(Words({"protocol"}, "unread"), R, {"dev"})
    BY Zenon, PlainRows
  <2>3. Rows(One("fwmark/mask", Word(One("fwmark", "nonzero") ++ One("fwmask", "nonzero"))), R, {"dev"})
    BY Zenon, PairRow
  <2> QED BY ZenonT(60), <2>1, <2>2, <2>3, RowsJoin
<1> HIDE DEF words
<1>3. FileFields("iprule") = Fields(words)
  BY Zenon, <1>1 DEF FileFields
<1> QED BY ZenonT(60), <1>1, <1>2, <1>3, MadeFromWords

LEMMA NeighCommand == Covers("ip neigh", do_show_or_flush)
<1> DEFINE F == {"dev", "unused", "to", "master", "nud"}
           L == {"dev"}
           a == Adding(Words({"nud"}, "present"))
           b == One("vrf", Word(One("master", "present")))
           d == One("nud all", Word(One("nud", "any")))
           com == do_show_or_flush
<1>1. com.words = neigh_words ++ a ++ b ++ d /\ DOMAIN com.resets = F /\ com.late = L /\ com.file = "ipneigh"
  BY Zenon DEF do_show_or_flush, List, ipneigh_reset_filter
<1>2. FileFields("ipneigh") = F
  BY Zenon DEF FileFields, ipneigh_reset_filter
<1>3. Rows(neigh_words, F, L)
  BY Zenon, PlainRows, RowsJoin DEF neigh_words
<1>4. Fields(neigh_words) \subseteq F
  <2>1. Fields(OnceWords(Words({"dev"}, "present"))) \subseteq F /\ Fields(Words({"unused"}, "clear")) \subseteq F
        /\ Fields(Words({"to", "master"}, "present")) \subseteq F
    BY PlainRows
  <2> HIDE DEF F
  <2> DEFINE e == OnceWords(Words({"dev"}, "present")) ++ Words({"unused"}, "clear")
  <2>2. Fields(e) \subseteq F
    BY Zenon, <2>1, FieldsJoin, Zenon
  <2>3. neigh_words = e ++ Words({"to", "master"}, "present")
    BY Zenon DEF neigh_words
  <2> HIDE DEF e
  <2> QED BY ZenonT(60), <2>1, <2>2, <2>3, FieldsJoin
<1>5. "nud" \in F /\ "master" \in F
  OBVIOUS
<1> HIDE DEF F, L
<1>6. Rows(a, F, L) /\ Fields(a) \subseteq F
  BY <1>5, AddingRows
<1>7. Rows(b, F, L) /\ Fields(b) \subseteq F
  BY ZenonT(60), <1>5, PlainRow, PlainFields
<1>8. Rows(d, F, L) /\ Fields(d) \subseteq F
  BY ZenonT(60), <1>5, PlainRow, PlainFields
<1> HIDE DEF a, b, d, com
<1>9. Rows(com.words, F, L) /\ Fields(com.words) \subseteq F
  BY SMTT(60), <1>1, <1>3, <1>4, <1>6, <1>7, <1>8, RowsJoin, FieldsJoin
<1>10. Covers("ip neigh", com)
  BY ZenonT(60), <1>1, <1>2, <1>9 DEF Covers
<1> QED BY Zenon, <1>10 DEF com

LEMMA MrouteCommand == Covers("ip mroute", mroute_list)
<1> DEFINE F == {"table", "iif", "from", "to"}
           L == {"dev"}
           a == Words({"table", "iif"}, "present")
           b == One("table all", Word(One("table", "any")))
           d == Words({"from", "to"}, "lax")
           com == mroute_list
<1>1. com.words = a ++ b ++ d /\ DOMAIN com.resets = F /\ com.late = L /\ com.file = "ipmroute"
  BY Zenon DEF mroute_list, List
<1>2. FileFields("ipmroute") = F
  BY ZenonT(60), <1>1 DEF FileFields
<1>3. Rows(a, F, L) /\ Fields(a) \subseteq F /\ Rows(d, F, L) /\ Fields(d) \subseteq F
  BY PlainRows
<1>4. Rows(b, F, L) /\ Fields(b) \subseteq F
  <2>1. "table" \in F
    OBVIOUS
  <2> HIDE DEF F
  <2> QED BY ZenonT(60), <2>1, PlainRow, PlainFields
<1> HIDE DEF a, b, d, com, F, L
<1>5. Rows(com.words, F, L) /\ Fields(com.words) \subseteq F
  BY SMTT(60), <1>1, <1>3, <1>4, RowsJoin, FieldsJoin
<1>6. Covers("ip mroute", com)
  BY ZenonT(60), <1>1, <1>2, <1>5 DEF Covers
<1> QED BY Zenon, <1>6 DEF com

LEMMA OtherIpCommands ==
  Covers("ip ntable", ipntable_show) /\ Covers("ip netconf", do_show_netconf) /\ Covers("ip maddress", multiaddr_list)
<1>1. Covers("ip ntable", ipntable_show)
  <2> DEFINE words == Words({"dev", "name"}, "lax") ++ One("dev none", Word(One("dev", "lax")))
  <2>1. ipntable_show = ResetList("ipntable", words) /\ ResetList("ipntable", words).words = words
    BY Zenon DEF ipntable_show, ResetList, List
  <2>2. ASSUME NEW R PROVE Rows(words, R, {"dev"})
    BY ZenonT(60), PlainRows, PlainRow, RowsJoin
  <2> HIDE DEF words
  <2>3. FileFields("ipntable") = Fields(words)
    BY Zenon, <2>1 DEF FileFields
  <2> QED BY ZenonT(60), <2>1, <2>2, <2>3, MadeFromWords
<1>2. Covers("ip netconf", do_show_netconf)
  <2> DEFINE words == Words({"dev"}, "present")
  <2>1. do_show_netconf = ResetList("ipnetconf", words) /\ ResetList("ipnetconf", words).words = words
    BY Zenon DEF do_show_netconf, ResetList, List
  <2>2. ASSUME NEW R PROVE Rows(words, R, {"dev"})
    BY Zenon, PlainRows
  <2> HIDE DEF words
  <2>3. FileFields("ipnetconf") = Fields(words)
    BY Zenon, <2>1 DEF FileFields
  <2> QED BY ZenonT(60), <2>1, <2>2, <2>3, MadeFromWords
<1>3. Covers("ip maddress", multiaddr_list)
  <2> DEFINE words == OnceWords(Words({"dev"}, "present"))
             com == multiaddr_list
  <2>1. com.words = words /\ DOMAIN com.resets = {} /\ com.late = {} /\ com.file = "ipmaddr"
    BY DEF multiaddr_list, NotReset, List
  <2>2. Rows(words, {}, {})
    BY Zenon, PlainRows
  <2> HIDE DEF words
  <2>3. FileFields("ipmaddr") = Fields(words)
    BY Zenon, <2>1 DEF FileFields
  <2> HIDE DEF com
  <2>4. Covers("ip maddress", com)
    BY ZenonT(60), <2>1, <2>2, <2>3 DEF Covers
  <2> QED BY Zenon, <2>4 DEF com
<1> QED BY ZenonT(60), <1>1, <1>2, <1>3

LEMMA TcCommands ==
  Covers("tc qdisc", tc_qdisc_list) /\ Covers("tc class", tc_class_list) /\ Covers("tc filter", tc_filter_list)
<1>1. Covers("tc qdisc", tc_qdisc_list)
  <2> DEFINE words == Words({"dev"}, "present")
  <2>1. tc_qdisc_list = NotReset("tc_qdisc", words) /\ NotReset("tc_qdisc", words).words = words
    BY Zenon DEF tc_qdisc_list, NotReset, List
  <2>2. Rows(words, {}, {"dev"})
    BY Zenon, PlainRows
  <2> HIDE DEF words
  <2>3. FileFields("tc_qdisc") = Fields(words)
    BY Zenon, <2>1 DEF FileFields
  <2> QED BY ZenonT(60), <2>1, <2>2, <2>3, MadeFromWords
<1>2. Covers("tc class", tc_class_list)
  <2> DEFINE words == OnceWords(Words({"dev", "qdisc", "classid", "parent"}, "present"))
  <2>1. tc_class_list = ResetList("tc_class", words) /\ ResetList("tc_class", words).words = words
    BY Zenon DEF tc_class_list, ResetList, List
  <2>2. ASSUME NEW R PROVE Rows(words, R, {"dev"})
    BY Zenon, PlainRows
  <2> HIDE DEF words
  <2>3. FileFields("tc_class") = Fields(words)
    BY Zenon, <2>1 DEF FileFields
  <2> QED BY ZenonT(60), <2>1, <2>2, <2>3, MadeFromWords
<1>3. Covers("tc filter", tc_filter_list)
  <2> DEFINE words == OnceWords(Words({"dev", "block", "parent", "priority", "protocol", "chain"}, "present"))
             com == tc_filter_list
  <2>1. com.words = words /\ DOMAIN com.resets = Fields(words) \ {"chain"} /\ com.late = {"dev"} /\ com.file = "tc_filter"
    BY Zenon DEF tc_filter_list, List, Clear
  <2>2. ASSUME NEW R PROVE Rows(words, R, {"dev"})
    BY Zenon, PlainRows
  <2> HIDE DEF words
  <2>3. FileFields("tc_filter") = Fields(words)
    BY Zenon, <2>1 DEF FileFields
  <2> HIDE DEF com
  <2>4. Covers("tc filter", com)
    BY ZenonT(60), <2>1, <2>2, <2>3 DEF Covers, SetApart
  <2> QED BY Zenon, <2>4 DEF com
<1> QED BY ZenonT(60), <1>1, <1>2, <1>3

LEMMA BridgeCommands ==
  /\ Covers("bridge fdb", fdb_show) /\ Covers("bridge link", brlink_show)
  /\ Covers("bridge mdb", mdb_show) /\ Covers("bridge vlan", vlan_show)
<1>1. Covers("bridge fdb", fdb_show)
  <2> DEFINE words == Words({"dev"}, "present") ++ OnceWords(Words({"vlan"}, "nonzero")) ++ Adding(Words({"state"}, "present"))
  <2>1. fdb_show = NotReset("fdb", words) /\ NotReset("fdb", words).words = words
    BY Zenon DEF fdb_show, NotReset, List
  <2>2. Rows(words, {}, {"dev"})
    BY Zenon, PlainRows, AddingRows, RowsJoin
  <2> HIDE DEF words
  <2>3. FileFields("fdb") = Fields(words)
    BY Zenon, <2>1 DEF FileFields
  <2> QED BY ZenonT(60), <2>1, <2>2, <2>3, MadeFromWords
<1>2. Covers("bridge link", brlink_show)
  <2> DEFINE words == OnceWords(Words({"dev"}, "present"))
  <2>1. brlink_show = NotReset("link", words) /\ NotReset("link", words).words = words
    BY Zenon DEF brlink_show, NotReset, List
  <2>2. Rows(words, {}, {"dev"})
    BY Zenon, PlainRows
  <2> HIDE DEF words
  <2>3. FileFields("link") = Fields(words)
    BY Zenon, <2>1 DEF FileFields
  <2> QED BY ZenonT(60), <2>1, <2>2, <2>3, MadeFromWords
<1> DEFINE vids == OnceWords(Words({"dev"}, "present")) ++ OnceWords(Words({"vid"}, "nonzero"))
<1>3. Rows(vids, {}, {"dev"})
  BY Zenon, PlainRows, RowsJoin
<1>4. mdb_show = NotReset("mdb", vids) /\ vlan_show = NotReset("vlan", vids)
      /\ NotReset("mdb", vids).words = vids /\ NotReset("vlan", vids).words = vids
  BY Zenon DEF mdb_show, vlan_show, NotReset, List
<1> HIDE DEF vids
<1>5. FileFields("mdb") = Fields(vids) /\ FileFields("vlan") = Fields(vids)
  BY Zenon, <1>4 DEF FileFields
<1>6. Covers("bridge mdb", mdb_show) /\ Covers("bridge vlan", vlan_show)
  BY ZenonT(60), <1>3, <1>4, <1>5, MadeFromWords
<1> QED BY ZenonT(60), <1>1, <1>2, <1>6

LEMMA AllCommands == CoverAll(ListCommands)
<1>1. CoverAll(ip_cmds)
  BY ZenonT(60), RouteCommand, RuleCommand, NeighCommand, MrouteCommand, AddressCommands, OtherIpCommands, OneCovers, CoverJoin
  DEF ip_cmds
<1>2. CoverAll(tc_cmds)
  BY ZenonT(60), TcCommands, OneCovers, CoverJoin DEF tc_cmds
<1>3. CoverAll(bridge_cmds)
  BY ZenonT(60), BridgeCommands, OneCovers, CoverJoin DEF bridge_cmds
<1> QED BY ZenonT(60), <1>1, <1>2, <1>3, CoverJoin DEF ListCommands

-----------------------------------------------------------------------------
\* What the process knows about its tables and about the command that runs.
ListTypes ==
  /\ prog \subseteq DOMAIN ListCommands /\ cmd \in prog
  /\ DOMAIN filter = {ListCommands[c].file : c \in prog}
  /\ \A f \in DOMAIN filter : DOMAIN filter[f] = Statics(prog, f)
  /\ DOMAIN alone = Statics(prog, C.file) /\ DOMAIN asked = Statics(prog, C.file)

\* Its filter is the one it would have alone, but for the fields it will look
\* up when the words are over.
Unspoilt ==
  stage \in {"words", "listed"} /\ DOMAIN C.resets # {} =>
    \A x \in DOMAIN alone \ SetApart(cmd) :
      stage = "listed" \/ x \notin C.late \/ x \notin seen => filter[C.file][x] = alone[x]

\* Words that widen what no command resets are told by the field being set.
State(x) == IF x \in seen THEN alone[x] \subseteq {0, 1} ELSE alone[x] = Every
Meant(x) ==
  \/ alone[x] = asked[x]
  \/ \E k \in DOMAIN C.words : x \in C.words[k].clears /\ DOMAIN C.words[k].sets \subseteq seen
  \/ \E k \in DOMAIN C.words : k \in seen /\ C.words[k].sets[k] = "unread"
Meaning ==
  /\ "state" \in DOMAIN alone \ DOMAIN C.resets => State("state")
  /\ \A x \in DOMAIN alone : Meant(x)

ListInv == ListTypes /\ Unspoilt /\ Meaning

LEMMA CoverFacts ==
  ASSUME NEW c \in DOMAIN ListCommands
  PROVE  Covers(c, ListCommands[c])
BY ZenonT(60), AllCommands DEF CoverAll

LEMMA StaticsFacts ==
  ASSUME NEW p \in SUBSET DOMAIN ListCommands, NEW c \in p, DOMAIN ListCommands[c].resets # {}
  PROVE  Statics(p, ListCommands[c].file) \subseteq DOMAIN ListCommands[c].resets \cup SetApart(c)
<1> DEFINE f == ListCommands[c].file
<1>1. ASSUME NEW d \in p, ListCommands[d].file = f
      PROVE  Fields(ListCommands[d].words) \subseteq FileFields(f) /\ DOMAIN ListCommands[d].resets \subseteq FileFields(f)
  BY ZenonT(60), <1>1, CoverFacts DEF Covers
<1>2. FileFields(f) \subseteq DOMAIN ListCommands[c].resets \cup SetApart(c)
  BY Zenon, CoverFacts DEF Covers
<1>3. Statics(p, f) \subseteq FileFields(f)
  BY ZenonT(60), <1>1 DEF Statics
<1> QED BY ZenonT(60), <1>2, <1>3

\* A command begins with the filter flt.
LEMMA Begins ==
  ASSUME NEW p \in SUBSET DOMAIN ListCommands, NEW c \in p, NEW flt,
         DOMAIN flt = {ListCommands[d].file : d \in p}, \A f \in DOMAIN flt : DOMAIN flt[f] = Statics(p, f),
         prog' = p, cmd' = c, filter' = [flt EXCEPT ![ListCommands[c].file] = Reset(c, @)],
         alone' = Reset(c, Clear(DOMAIN flt[ListCommands[c].file])), asked' = alone', seen' = {}
  PROVE  ListInv'
<1> DEFINE com == ListCommands[c]
           f == com.file
<1>1. f \in DOMAIN flt /\ DOMAIN flt[f] = Statics(p, f) /\ C' = com
  BY Zenon DEF C
<1>2. /\ DOMAIN filter' = DOMAIN flt /\ filter'[f] = Reset(c, flt[f])
      /\ \A g \in DOMAIN flt : g # f => filter'[g] = flt[g]
  BY Zenon, <1>1
<1>3. /\ DOMAIN filter'[f] = Statics(p, f) /\ DOMAIN alone' = Statics(p, f)
      /\ \A x \in Statics(p, f) : /\ x \in DOMAIN com.resets => filter'[f][x] = com.resets[x] /\ alone'[x] = com.resets[x]
                                  /\ x \notin DOMAIN com.resets => alone'[x] = Every
  BY ZenonT(60), <1>1, <1>2 DEF Reset, Clear
<1>4. ListTypes'
  BY ZenonT(60), <1>1, <1>2, <1>3 DEF ListTypes
<1>5. Unspoilt'
  <2> SUFFICES ASSUME DOMAIN com.resets # {}, NEW x \in DOMAIN alone' \ SetApart(c)
               PROVE  filter'[f][x] = alone'[x]
    BY Zenon, <1>1 DEF Unspoilt
  <2>1. x \in DOMAIN com.resets
    BY ZenonT(60), <1>3, StaticsFacts
  <2> QED BY ZenonT(60), <1>3, <2>1
<1>6. Meaning'
  <2>1. \A x \in DOMAIN alone' : Meant(x)'
    BY Zenon DEF Meant
  <2>2. "state" \in DOMAIN alone' \ DOMAIN com.resets => State("state")'
    BY Zenon, <1>3 DEF State
  <2> QED BY ZenonT(60), <1>1, <2>1, <2>2 DEF Meaning
<1> QED BY ZenonT(60), <1>4, <1>5, <1>6 DEF ListInv

LEMMA ListInitInv == ListInit => ListInv
<1> SUFFICES ASSUME ListInit PROVE ListInv
  OBVIOUS
<1> DEFINE com == ListCommands[cmd]
           f == com.file
           blank == [g \in {ListCommands[c].file : c \in prog} |-> Clear(Statics(prog, g))]
<1>1. prog \in SUBSET DOMAIN ListCommands /\ cmd \in prog /\ seen = {} /\ asked = alone /\ alone = filter[f]
      /\ filter = [blank EXCEPT ![f] = Reset(cmd, @)] /\ stage = "words"
  BY Zenon, ListAssumption DEF ListInit
<1>2. f \in DOMAIN blank /\ DOMAIN filter = DOMAIN blank /\ DOMAIN blank = {ListCommands[c].file : c \in prog}
      /\ filter[f] = Reset(cmd, blank[f]) /\ C = com /\ \A g \in DOMAIN blank : g # f => filter[g] = blank[g]
  BY Zenon, <1>1 DEF C
<1>3. \A g \in DOMAIN blank : DOMAIN blank[g] = Statics(prog, g) /\ \A x \in Statics(prog, g) : blank[g][x] = Every
  BY Zenon DEF Clear
<1> HIDE DEF blank
<1>4. DOMAIN filter[f] = Statics(prog, f) /\ \A x \in Statics(prog, f) : x \notin DOMAIN com.resets => filter[f][x] = Every
  BY ZenonT(60), <1>2, <1>3 DEF Reset
<1>5. ListTypes
  BY Zenon, <1>1, <1>2, <1>3, <1>4 DEF ListTypes
<1>6. Unspoilt
  BY Zenon, <1>1, <1>2 DEF Unspoilt
<1>7. Meaning
  <2>1. \A x \in DOMAIN alone : Meant(x)
    BY Zenon, <1>1 DEF Meant
  <2>2. "state" \in DOMAIN alone \ DOMAIN com.resets => State("state")
    BY ZenonT(60), <1>1, <1>4 DEF State
  <2> QED BY Zenon, <1>2, <2>1, <2>2 DEF Meaning
<1> QED BY ZenonT(60), <1>5, <1>6, <1>7 DEF ListInv

LEMMA WordInv ==
  ASSUME ListInv, NEW k \in DOMAIN C.words, NEW v \in 0 .. 1, GiveWord(k, v)
  PROVE  ListInv'
<1> DEFINE row == C.words[k]
           mine == filter[C.file]
<1>1. cmd' = cmd /\ prog' = prog /\ C' = C /\ stage = "words"
  BY Zenon DEF GiveWord, C
<1>2. cmd \in DOMAIN ListCommands /\ C = ListCommands[cmd] /\ C.file \in DOMAIN filter /\ DOMAIN mine = Statics(prog, C.file)
      /\ DOMAIN alone = Statics(prog, C.file) /\ DOMAIN asked = Statics(prog, C.file)
  BY Zenon DEF ListInv, ListTypes, C
<1>3. Row(k, row, DOMAIN C.resets, C.late)
  BY ZenonT(60), <1>2, CoverFacts DEF Covers, Rows
<1>4. CASE stage' = "ended" /\ UNCHANGED <<filter, alone, asked, seen>>
  <2>1. ListTypes' /\ Unspoilt'
    BY ZenonT(60), <1>1, <1>4 DEF ListInv, ListTypes, Unspoilt
  <2>2. Meaning'
    BY ZenonT(60), <1>1, <1>4 DEF ListInv, Meaning, Meant, State
  <2> QED BY Zenon, <2>1, <2>2 DEF ListInv
<1>5. CASE /\ filter' = [filter EXCEPT ![C.file] =
                           [x \in DOMAIN mine |-> IF x \in C.late THEN mine[x] ELSE Store(mine, row, v)[x]]]
           /\ alone' = Store(alone, row, v) /\ asked' = Mean(asked, row, v)
           /\ seen' = seen \cup DOMAIN row.sets /\ UNCHANGED stage
  <2>1. DOMAIN alone' = DOMAIN alone /\ DOMAIN asked' = DOMAIN asked
    BY Zenon, <1>5 DEF Store, Mean
  <2>2. /\ DOMAIN filter' = DOMAIN filter /\ \A g \in DOMAIN filter : DOMAIN filter'[g] = DOMAIN filter[g]
        /\ \A x \in DOMAIN mine : filter'[C.file][x] = IF x \in C.late THEN mine[x] ELSE Store(mine, row, v)[x]
    BY ZenonT(60), <1>2, <1>5
  <2>3. ListTypes'
    BY ZenonT(60), <1>1, <2>1, <2>2 DEF ListInv, ListTypes
  <2>4. Unspoilt'
    <3> SUFFICES ASSUME DOMAIN C.resets # {}, NEW x \in DOMAIN alone \ SetApart(cmd), x \notin C.late \/ x \notin seen'
                 PROVE  filter'[C.file][x] = alone'[x]
      BY ZenonT(60), <1>1, <1>5, <2>1 DEF Unspoilt
    <3>1. x \in DOMAIN mine /\ (x \notin C.late \/ x \notin seen => mine[x] = alone[x])
      BY ZenonT(60), <1>1, <1>2 DEF ListInv, Unspoilt
    <3>2. CASE x \in C.late
      <4>1. x \notin DOMAIN row.sets /\ x \notin seen /\ x \notin row.clears
        BY ZenonT(60), <1>3, <1>5, <3>2 DEF Row
      <4>2. alone'[x] = alone[x]
        BY ZenonT(60), <1>5, <4>1 DEF Store
      <4> QED BY ZenonT(60), <2>2, <3>1, <3>2, <4>1, <4>2
    <3>3. CASE x \notin C.late
      <4>1. mine[x] = alone[x]
        BY ZenonT(60), <3>1, <3>3
      <4>2. Store(mine, row, v)[x] = Store(alone, row, v)[x]
        BY ZenonT(60), <3>1, <4>1 DEF Store
      <4> QED BY ZenonT(60), <1>5, <2>2, <3>1, <3>3, <4>2
    <3> QED BY ZenonT(60), <3>2, <3>3
  <2>5. "state" \in DOMAIN alone \ DOMAIN C.resets => State("state")'
    <3> SUFFICES ASSUME "state" \in DOMAIN alone, "state" \notin DOMAIN C.resets
                 PROVE  State("state")'
      OBVIOUS
    <3>1. State("state")
      BY Zenon DEF ListInv, Meaning
    <3>2. CASE "state" \in DOMAIN row.sets
      <4>1. row.adds /\ row.sets["state"] = "present"
        BY ZenonT(60), <1>3, <3>2 DEF Row
      <4>2. Admits(row.sets["state"], v) = {v}
        BY Zenon, <4>1 DEF Admits
      <4>3. alone'["state"] = IF alone["state"] # Every THEN alone["state"] \cup {v} ELSE {v}
        BY ZenonT(60), <1>5, <3>2, <4>1, <4>2 DEF Store
      <4>4. alone["state"] \subseteq {0, 1} \/ alone["state"] = Every
        BY ZenonT(60), <3>1 DEF State
      <4>5. alone'["state"] \subseteq {0, 1}
        BY SMTT(60), <4>3, <4>4
      <4>6. "state" \in seen'
        BY ZenonT(60), <1>5, <3>2
      <4> QED BY ZenonT(60), <4>5, <4>6 DEF State
    <3>3. CASE "state" \notin DOMAIN row.sets
      <4>1. "state" \notin row.clears
        BY Zenon, <1>3 DEF Row
      <4>2. alone'["state"] = alone["state"]
        BY ZenonT(60), <1>5, <3>3, <4>1 DEF Store
      <4>3. "state" \in seen' <=> "state" \in seen
        BY ZenonT(60), <1>5, <3>3
      <4> QED BY ZenonT(60), <3>1, <4>2, <4>3 DEF State
    <3> QED BY ZenonT(60), <3>2, <3>3
  <2>6. ASSUME NEW x \in DOMAIN alone PROVE Meant(x)'
    <3>1. seen \subseteq seen' /\ DOMAIN row.sets \subseteq seen'
      BY ZenonT(60), <1>5
    <3>2. CASE ~(alone[x] = asked[x])
      <4>1. \/ \E h \in DOMAIN C.words : x \in C.words[h].clears /\ DOMAIN C.words[h].sets \subseteq seen
            \/ \E h \in DOMAIN C.words : h \in seen /\ C.words[h].sets[h] = "unread"
        BY ZenonT(60), <3>2 DEF ListInv, Meaning, Meant
      <4>2. CASE \E h \in DOMAIN C.words : x \in C.words[h].clears /\ DOMAIN C.words[h].sets \subseteq seen
        BY ZenonT(60), <1>1, <3>1, <4>2 DEF Meant
      <4>3. CASE \E h \in DOMAIN C.words : h \in seen /\ C.words[h].sets[h] = "unread"
        BY ZenonT(60), <1>1, <3>1, <4>3 DEF Meant
      <4> QED BY ZenonT(60), <4>1, <4>2, <4>3
    <3>3. CASE alone[x] = asked[x] /\ x \in DOMAIN row.sets
      <4>1. CASE row.sets[x] = "unread"
        <5>1. k = x
          BY ZenonT(60), <1>3, <3>3, <4>1 DEF Row
        <5>2. k \in seen' /\ row.sets[k] = "unread"
          BY ZenonT(60), <3>1, <3>3, <4>1, <5>1
        <5> QED BY ZenonT(60), <1>1, <5>2 DEF Meant
      <4>2. CASE row.sets[x] # "unread"
        <5> DEFINE new == Admits(row.sets[x], v)
        <5>1. asked'[x] = IF row.adds /\ x \in seen THEN alone[x] \cup new ELSE new
          BY ZenonT(60), <1>2, <1>5, <3>3, <4>2 DEF Mean
        <5>2. alone'[x] = IF row.adds /\ (IF x \in DOMAIN C.resets THEN x \in seen ELSE alone[x] # Every)
                          THEN alone[x] \cup new ELSE new
          BY ZenonT(60), <1>5, <3>3 DEF Store
        <5>3. row.adds /\ x \notin DOMAIN C.resets => (alone[x] # Every <=> x \in seen)
          <6> SUFFICES ASSUME row.adds, x \notin DOMAIN C.resets PROVE alone[x] # Every <=> x \in seen
            OBVIOUS
          <6>1. x = "state"
            BY ZenonT(60), <1>3, <3>3 DEF Row
          <6>2. State(x)
            BY ZenonT(60), <6>1 DEF ListInv, Meaning
          <6>3. ~(Every \subseteq {0, 1})
            BY DEF Every, NoAttr
          <6> QED BY ZenonT(60), <6>2, <6>3 DEF State
        <5> HIDE DEF new
        <5>4. alone'[x] = asked'[x]
          BY ZenonT(60), <5>1, <5>2, <5>3
        <5> QED BY ZenonT(60), <5>4 DEF Meant
      <4> QED BY ZenonT(60), <4>1, <4>2
    <3>4. CASE alone[x] = asked[x] /\ x \notin DOMAIN row.sets
      <4>1. asked'[x] = asked[x]
        BY ZenonT(60), <1>2, <1>5, <3>4 DEF Mean
      <4>2. CASE x \in row.clears
        BY ZenonT(60), <1>1, <3>1, <4>2 DEF Meant
      <4>3. CASE x \notin row.clears
        <5>1. alone'[x] = alone[x]
          BY ZenonT(60), <1>5, <3>4, <4>3 DEF Store
        <5> QED BY ZenonT(60), <3>4, <4>1, <5>1 DEF Meant
      <4> QED BY ZenonT(60), <4>2, <4>3
    <3> QED BY ZenonT(60), <3>2, <3>3, <3>4
  <2>7. Meaning'
    BY ZenonT(60), <1>1, <2>1, <2>5, <2>6 DEF Meaning
  <2> QED BY ZenonT(60), <2>3, <2>4, <2>7 DEF ListInv
<1> QED BY ZenonT(60), <1>4, <1>5 DEF GiveWord

LEMMA ShowInv == ListInv /\ ShowList => ListInv'
<1> SUFFICES ASSUME ListInv, ShowList PROVE ListInv'
  OBVIOUS
<1> DEFINE mine == filter[C.file]
           found == [x \in DOMAIN alone |-> IF x \in C.late \cap seen THEN alone[x] ELSE mine[x]]
<1>1. /\ cmd' = cmd /\ prog' = prog /\ alone' = alone /\ asked' = asked /\ seen' = seen /\ C' = C /\ stage = "words"
      /\ stage' \in {"ended", "listed"}
  BY Zenon DEF ShowList, C
<1>2. C.file \in DOMAIN filter /\ DOMAIN mine = DOMAIN alone
  BY Zenon DEF ListInv, ListTypes, C
<1>3. PICK g : /\ filter' = [filter EXCEPT ![C.file] = g]
               /\ g \in IF StaleChain THEN {[found EXCEPT !["chain"] = {v}] : v \in 0 .. 1} ELSE {found}
  BY Zenon DEF ShowList
<1>4. DOMAIN g = DOMAIN alone /\ \A x \in DOMAIN alone : g[x] = found[x] \/ (cmd = "tc filter" /\ x = "chain")
  <2>1. CASE StaleChain
    <3>1. PICK v \in 0 .. 1 : g = [found EXCEPT !["chain"] = {v}]
      BY ZenonT(60), <1>3, <2>1
    <3>2. cmd = "tc filter"
      BY Zenon, <2>1 DEF StaleChain
    <3> QED BY ZenonT(60), <3>1, <3>2
  <2>2. CASE ~StaleChain
    BY ZenonT(60), <1>3, <2>2
  <2> QED BY ZenonT(60), <2>1, <2>2
<1>5. /\ DOMAIN filter' = DOMAIN filter /\ filter'[C.file] = g
      /\ \A f \in DOMAIN filter : DOMAIN filter'[f] = DOMAIN filter[f]
  BY ZenonT(60), <1>2, <1>3, <1>4
<1>6. ListTypes'
  BY ZenonT(60), <1>1, <1>5 DEF ListInv, ListTypes
<1>7. Unspoilt'
  <2> SUFFICES ASSUME DOMAIN C.resets # {}, NEW x \in DOMAIN alone \ SetApart(cmd)
               PROVE  filter'[C.file][x] = alone[x]
    BY ZenonT(60), <1>1 DEF Unspoilt
  <2>1. x \notin C.late \/ x \notin seen => mine[x] = alone[x]
    BY Zenon, <1>1 DEF ListInv, Unspoilt
  <2>2. found[x] = alone[x]
    BY ZenonT(60), <2>1
  <2>3. ~(cmd = "tc filter" /\ x = "chain")
    BY Zenon DEF SetApart
  <2> QED BY ZenonT(60), <1>4, <1>5, <2>2, <2>3
<1>8. Meaning'
  BY Zenon, <1>1 DEF ListInv, Meaning, Meant, State
<1> QED BY ZenonT(60), <1>6, <1>7, <1>8 DEF ListInv

LEMMA FailInv == ListInv /\ ListFails => ListInv'
<1> SUFFICES ASSUME ListInv, ListFails PROVE ListInv'
  OBVIOUS
<1>1. /\ UNCHANGED <<prog, cmd, filter, alone, asked, seen>> /\ C' = C /\ stage' = "failed"
  BY Zenon DEF ListFails, C
<1>2. ListTypes' /\ Unspoilt'
  BY ZenonT(60), <1>1 DEF ListInv, ListTypes, Unspoilt
<1>3. Meaning'
  BY ZenonT(60), <1>1 DEF ListInv, Meaning, Meant, State
<1> QED BY ZenonT(60), <1>2, <1>3 DEF ListInv

LEMMA LineInv ==
  ASSUME ListInv, NEW c \in prog, NextLine(c)
  PROVE  ListInv'
<1>1. prog \in SUBSET DOMAIN ListCommands /\ DOMAIN filter = {ListCommands[d].file : d \in prog}
      /\ \A f \in DOMAIN filter : DOMAIN filter[f] = Statics(prog, f)
  BY Zenon DEF ListInv, ListTypes
<1>2. prog' = prog /\ cmd' = c /\ filter' = [filter EXCEPT ![ListCommands[c].file] = Reset(c, @)]
      /\ alone' = Reset(c, Clear(DOMAIN filter[ListCommands[c].file])) /\ asked' = alone' /\ seen' = {}
  BY Zenon DEF NextLine, BeginList
<1> QED BY ZenonT(60), <1>1, <1>2, Begins

LEMMA ListStepInv == ListInv /\ [ListNext]_listVars => ListInv'
<1> SUFFICES ASSUME ListInv, [ListNext]_listVars PROVE ListInv'
  OBVIOUS
<1>1. CASE UNCHANGED listVars
  <2>1. UNCHANGED <<prog, cmd, filter, alone, asked, seen, stage>> /\ C' = C
    BY ZenonT(60), <1>1 DEF listVars, C
  <2>2. ListTypes' /\ Unspoilt'
    BY Zenon, <2>1 DEF ListInv, ListTypes, Unspoilt
  <2>3. Meaning'
    BY ZenonT(60), <2>1 DEF ListInv, Meaning, Meant, State
  <2> QED BY ZenonT(60), <2>2, <2>3 DEF ListInv
<1> QED BY ZenonT(60), <1>1, WordInv, ShowInv, FailInv, LineInv DEF ListNext

\* The list commands of ip, tc and bridge in any batch file: what the filter of
\* the command that runs is, next to the one it would have alone and to the
\* one its words mean.
THEOREM ListInvariance == ListSpec => []ListInv
BY ListInitInv, ListStepInv, PTL DEF ListSpec

LEMMA AloneFollows == ListInv => SameAsAlone
BY Zenon DEF ListInv, Unspoilt, SameAsAlone, SetApart

\* iproute_reset_filter(), ipaddr_reset_filter() and their like forget nothing:
\* a command that resets its filter lists what it would list in a process of
\* its own, after any number of commands with any number of words.
THEOREM SameAsAloneHolds == ListSpec => []SameAsAlone
BY ListInvariance, AloneFollows, PTL

LEMMA AskedFollows == ListInv => ListsWhatWasAsked
BY ZenonT(60) DEF ListInv, Meaning, Meant, ListsWhatWasAsked

\* The loops over the words of the list commands: each field is filtered by
\* the last word for it, or by all of them where they widen the list, for any
\* number of words.
THEOREM ListsWhatWasAskedHolds == ListSpec => []ListsWhatWasAsked
BY ListInvariance, AskedFollows, PTL
=============================================================================
