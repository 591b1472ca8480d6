--------------------------- MODULE ArpdBpfProofs ----------------------------
(***************************************************************************)
(* Proofs about programs that share their state with others.               *)
(*                                                                         *)
(* arpd: its main loop for any number of signals and any number of changes *)
(* to the database (ArpdSignals), and what it keeps about hosts and how it *)
(* meters its probes for any hosts, addresses, rates and limits            *)
(* (ArpdProbe).                                                            *)
(*                                                                         *)
(* Commands that load BPF objects (BpfLoad), for any number of them and    *)
(* any objects.  What a command knows of its own maps (Local) is not       *)
(* enough to compare two commands: Shared ties the maps of a command that  *)
(* no other one overlaps to the file system, and says that what it pinned  *)
(* stays there.  Every step is shown to be of one shape (Moves), and that  *)
(* shape to keep the invariant.                                            *)
(***************************************************************************)
EXTENDS ArpdSignals, ArpdProbe, BpfLoad, SequenceTheorems, TLAPS

(* in_poll is set from the top of the loop to poll() and, since nothing    *)
(* clears it, on the whole way out.                                        *)
InPoll ==
    pc \in {"exit?", "sync?", "stats?", "stats", "poll", "ready", "undo", "close", "leave"}
        => in_poll

(* Once do_exit was tested, a SIGTERM either jumps back to the test or was *)
(* caught inside the sync.                                                 *)
ExitSeen ==
    /\ pc = "sync?" => ~do_exit
    /\ pc \in {"sync", "clear", "stats?", "stats", "poll"} => (do_exit => insync)
    /\ pc = "poll" => ~do_stats

(* The kernel has arpd's settings only while sysctl_adjusted is set.       *)
Adjusted ==
    /\ sysctl = "arpd" => adjusted
    /\ pc \in {"close", "leave", "gone"} => ~adjusted
    /\ pc \in {"leave", "gone"} => disk = mem

(* The inductive invariant.                                                *)
LoopIInv == TypeOK /\ InPoll /\ ExitSeen /\ Adjusted

LEMMA LoopInitInv == Init => LoopIInv
<1> SUFFICES ASSUME Init PROVE LoopIInv
  OBVIOUS
<1>1. TypeOK
  <2>1. mem \in 0..MaxVer /\ disk \in 0..MaxVer /\ asked \in 0..MaxVer /\ closed \in 0..2
        /\ signals \in 0..MaxSignals
    BY ArpdSignalsAssumption DEF Init
  <2>2. pc \in Labels /\ sysctl \in {"found", "arpd", "default"}
    BY Zenon DEF Init, Labels
  <2>3. /\ in_poll \in BOOLEAN /\ do_exit \in BOOLEAN /\ do_sync \in BOOLEAN
        /\ do_stats \in BOOLEAN /\ adjusted \in BOOLEAN /\ ifnum \in BOOLEAN /\ insync \in BOOLEAN
    BY Zenon DEF Init
  <2> QED BY Zenon, <2>1, <2>2, <2>3 DEF TypeOK
<1>2. InPoll /\ ExitSeen /\ Adjusted
  BY Zenon DEF Init, InPoll, ExitSeen, Adjusted
<1> QED BY Zenon, <1>1, <1>2 DEF LoopIInv

(* The statements of the loop that touch neither the database nor the      *)
(* kernel: they move on and set or clear flags.                            *)
LEMMA LoopInv ==
    ASSUME LoopIInv, \/ Top \/ TestExit \/ TestSync \/ Clear \/ TestStats \/ SendStats
                 \/ Poll \/ Ready \/ Leave
    PROVE  LoopIInv'
<1> USE DEF LoopIInv, flags, kernel, base, history
<1>1. UNCHANGED <<kernel, base, history>> /\ pc' \in Labels
  BY Zenon DEF Top, TestExit, TestSync, Clear, TestStats, SendStats, Poll, Ready, Leave, Labels
<1>2. in_poll' \in BOOLEAN /\ do_exit' \in BOOLEAN /\ do_sync' \in BOOLEAN /\ do_stats' \in BOOLEAN
  BY Zenon DEF Top, TestExit, TestSync, Clear, TestStats, SendStats, Poll, Ready, Leave, TypeOK
<1>3. TypeOK'
  BY Zenon, <1>1, <1>2 DEF TypeOK
<1>4. InPoll'
  BY Zenon DEF Top, TestExit, TestSync, Clear, TestStats, SendStats, Poll, Ready, Leave, InPoll
<1>5. ExitSeen'
  <2> USE <1>1 DEF ExitSeen
  <2>1. CASE Top
    BY Zenon, <2>1 DEF Top
  <2>2. CASE TestExit
    BY Zenon, <2>2 DEF TestExit
  <2>3. CASE TestSync
    BY Zenon, <2>3 DEF TestSync
  <2>4. CASE Clear
    BY <2>4 DEF Clear
  <2>5. CASE TestStats
    BY <2>5 DEF TestStats
  <2>6. CASE SendStats
    BY <2>6 DEF SendStats
  <2>7. CASE Poll \/ Ready \/ Leave
    BY Zenon, <2>7 DEF Poll, Ready, Leave
  <2> QED BY Zenon, <2>1, <2>2, <2>3, <2>4, <2>5, <2>6, <2>7
<1>6. Adjusted'
  BY Zenon, <1>1 DEF Top, TestExit, TestSync, Clear, TestStats, SendStats, Poll, Ready, Leave, Adjusted
<1> QED BY Zenon, <1>3, <1>4, <1>5, <1>6

LEMMA SyncInv == LoopIInv /\ Sync => LoopIInv'
BY DEF LoopIInv, Sync, TypeOK, Labels, InPoll, ExitSeen, Adjusted, flags, kernel, history

LEMMA InputInv == LoopIInv /\ Input => LoopIInv'
<1> SUFFICES ASSUME LoopIInv, Input PROVE LoopIInv'
  OBVIOUS
<1> USE DEF LoopIInv, flags, kernel, base, history
<1>1. /\ pc = "input" /\ pc' = "top"
      /\ UNCHANGED <<flags, ifnum, closed, history>>
  BY Zenon DEF Input
<1>2. mem' \in 0..MaxVer /\ disk' \in 0..MaxVer
  <2>1. mem \in 0..MaxVer /\ disk \in 0..MaxVer
    BY Zenon DEF TypeOK
  <2>2. PICK m \in mem..MaxVer : mem' = m /\ (disk' = disk \/ disk' \in mem..m)
    BY Zenon DEF Input
  <2> QED BY <2>1, <2>2, ArpdSignalsAssumption
<1>3. /\ adjusted' \in BOOLEAN
      /\ sysctl' \in {"found", "arpd", "default"}
      /\ sysctl' = "arpd" => adjusted'
  BY DEF Input, TypeOK, Adjusted
<1>4. TypeOK'
  BY Zenon, <1>1, <1>2, <1>3 DEF TypeOK, Labels
<1>5. InPoll' /\ ExitSeen' /\ Adjusted'
  BY Zenon, <1>1, <1>3 DEF InPoll, ExitSeen, Adjusted
<1> QED BY Zenon, <1>4, <1>5

LEMMA UndoInv == LoopIInv /\ Undo => LoopIInv'
<1> SUFFICES ASSUME LoopIInv, Undo PROVE LoopIInv'
  OBVIOUS
<1> USE DEF LoopIInv, flags, base, history
<1>1. /\ pc = "undo" /\ pc' = "close"
      /\ sysctl' = IF adjusted THEN "default" ELSE sysctl
      /\ adjusted' = FALSE
      /\ UNCHANGED <<flags, ifnum, base, history>>
  BY Zenon DEF Undo
<1>2. sysctl' \in {"found", "arpd", "default"} /\ sysctl' # "arpd"
  BY Zenon, <1>1 DEF TypeOK, Adjusted
<1>3. TypeOK'
  BY Zenon, <1>1, <1>2 DEF TypeOK, Labels
<1>4. InPoll' /\ ExitSeen' /\ Adjusted'
  BY Zenon, <1>1, <1>2 DEF InPoll, ExitSeen, Adjusted
<1> QED BY Zenon, <1>3, <1>4

LEMMA CloseInv == LoopIInv /\ Close => LoopIInv'
<1> SUFFICES ASSUME LoopIInv, Close PROVE LoopIInv'
  OBVIOUS
<1> USE DEF LoopIInv, flags, kernel, history
<1>1. /\ pc = "close" /\ pc' \in {"leave", "gone"} /\ disk' = mem /\ closed' \in {1, 2}
      /\ UNCHANGED <<flags, kernel, mem, history>>
  BY Zenon DEF Close
<1>2. TypeOK'
  BY <1>1 DEF TypeOK, Labels
<1>3. InPoll' /\ ExitSeen' /\ Adjusted'
  BY Zenon, <1>1 DEF InPoll, ExitSeen, Adjusted
<1> QED BY Zenon, <1>2, <1>3

(* A signal, wherever it comes.                                            *)
LEMMA SignalInv == LoopIInv /\ (SigExit \/ SigSync \/ SigStats) => LoopIInv'
<1> SUFFICES ASSUME LoopIInv, SigExit \/ SigSync \/ SigStats PROVE LoopIInv'
  OBVIOUS
<1> USE DEF LoopIInv, kernel, base
<1>1. /\ pc # "gone" /\ pc' = IF in_poll THEN "top" ELSE pc
      /\ signals < MaxSignals /\ signals' = signals + 1
      /\ UNCHANGED <<kernel, base, in_poll>>
  BY Zenon DEF SigExit, SigSync, SigStats, Signal
<1>2. /\ do_exit' \in BOOLEAN /\ do_sync' \in BOOLEAN /\ do_stats' \in BOOLEAN
      /\ insync' \in BOOLEAN
  BY Zenon DEF SigExit, SigSync, SigStats, TypeOK
<1>3. asked' \in 0..MaxVer /\ signals' \in 0..MaxSignals
  BY <1>1, ArpdSignalsAssumption DEF SigExit, SigSync, SigStats, TypeOK
<1>4. TypeOK'
  BY Zenon, <1>1, <1>2, <1>3 DEF TypeOK, Labels
<1>5. InPoll' /\ Adjusted'
  BY Zenon, <1>1 DEF InPoll, Adjusted
<1>6. ExitSeen'
  <2>1. CASE in_poll
    BY Zenon, <1>1, <2>1 DEF ExitSeen
  <2>2. CASE ~in_poll
    <3>1. pc' = pc /\ pc \notin {"sync?", "stats?", "stats", "poll"}
      BY Zenon, <1>1, <2>2 DEF InPoll
    <3>2. ASSUME pc \in {"sync", "clear"}, do_exit' PROVE insync'
      <4>1. CASE SigExit
        BY Zenon, <3>2, <4>1 DEF SigExit
      <4>2. CASE SigSync \/ SigStats
        BY Zenon, <3>2, <4>2 DEF SigSync, SigStats, ExitSeen
      <4> QED BY Zenon, <4>1, <4>2
    <3> QED BY Zenon, <3>1, <3>2 DEF ExitSeen
  <2> QED BY Zenon, <2>1, <2>2
<1> QED BY Zenon, <1>4, <1>5, <1>6

LEMMA LoopInvariance == Spec => []LoopIInv
<1>1. LoopIInv /\ UNCHANGED vars => LoopIInv'
  BY DEF vars, LoopIInv, TypeOK, InPoll, ExitSeen, Adjusted
<1>2. LoopIInv /\ [Next]_vars => LoopIInv'
  BY Zenon, <1>1, LoopInv, SyncInv, InputInv, UndoInv, CloseInv, SignalInv DEF Next, Step
<1> QED BY <1>2, LoopInitInv, PTL DEF Spec

(* The flags and the database of misc/arpd.c keep their types.             *)
THEOREM TypeCorrect == Spec => []TypeOK
<1>1. LoopIInv => TypeOK
  BY Zenon DEF LoopIInv
<1> QED BY <1>1, LoopInvariance, PTL

(* in_poll and siglongjmp do what they are there for: main() does not      *)
(* sleep in poll() over a signal, except for a SIGTERM inside the sync.    *)
THEOREM NoLostWakeupHolds == Spec => []NoLostWakeup
<1>1. LoopIInv => NoLostWakeup
  BY Zenon DEF LoopIInv, ExitSeen, NoLostWakeup
<1> QED BY <1>1, LoopInvariance, PTL

(* However many signals interrupt the way out, a daemon that has ended has *)
(* synced the database and left none of its settings in the kernel.        *)
THEOREM CleanExitHolds == Spec => []CleanExit
<1>1. LoopIInv => CleanExit
  BY Zenon DEF LoopIInv, Adjusted, CleanExit
<1> QED BY <1>1, LoopInvariance, PTL

-----------------------------------------------------------------------------
(* The database and the probes.                                            *)

NegEntry == [kind : {"neg"}, time : Nat, cnt : 0 .. active_probing]

(* An entry of the database is free, an address, or negative; and agrees   *)
(* with what was learnt and, unless option -a is beyond what the counter   *)
(* of a negative entry can hold, with what was asked in vain.              *)
Entry(h) ==
    \/ db[h] = Empty /\ known[h] = None
    \/ \E m \in Macs : db[h] = Mac(m) /\ known[h] = m
    \/ /\ db[h] \in NegEntry /\ known[h] = None
       /\ active_probing < CntMod => unanswered[h] = db[h].cnt

Entries ==
    /\ DOMAIN db = Hosts /\ DOMAIN known = Hosts
    /\ unanswered \in [Hosts -> Nat]
    /\ \A h \in Hosts : Entry(h)

(* The clock has left zero, which queue_active_probe takes for "never";    *)
(* the bucket never holds more than a burst, and every probe of this       *)
(* instant was paid for out of it.                                         *)
Bucket ==
    /\ now \in Nat \ {0} /\ prev \in 0 .. now
    /\ buckets \in 0 .. broadcast_burst
    /\ sent \in Seq(Nat)
    /\ prev = 0 => sent = << >>
    /\ \A i \in DOMAIN sent : sent[i] <= prev
    /\ \A i \in DOMAIN sent : sent[i] = now =>
        buckets + (Len(sent) - i + 1) * broadcast_rate <= broadcast_burst

ProbeIInv == Entries /\ Bucket /\ BucketBound

-----------------------------------------------------------------------------
LEMMA Division ==
    ASSUME NEW a \in Nat, NEW b \in Nat \ {0}
    PROVE  a \div b \in Nat /\ b * (a \div b) <= a /\ a < b * (a \div b) + b
  OBVIOUS

LEMMA Remainder ==
    ASSUME NEW a \in Nat, NEW b \in Nat \ {0}
    PROVE  a % b \in 0 .. a /\ (a < b => a % b = a)
  OBVIOUS

LEMMA Constants ==
    broadcast_rate \in Nat \ {0} /\ broadcast_burst \in Nat
  BY ArpdProbeAssumption DEF broadcast_rate, broadcast_burst

LEMMA ProbeInitInv == ProbeInit => ProbeIInv
  BY ArpdProbeAssumption, Constants
     DEF ProbeInit, ProbeIInv, Entries, Entry, Bucket, BucketBound

(* A host's entry changes alone.                                           *)
LEMMA EntriesStep ==
    ASSUME Entries, Bucket, NEW h \in Hosts,
           Failed(h) \/ Reprobe(h) \/ Resolve(h) \/ \E m \in Macs : Learn(h, m)
    PROVE  Entries'
  <1>1. time \in Nat
    BY Zenon, ArpdProbeAssumption, Division DEF Bucket, time
  <1>2. CASE \E m \in Macs : Learn(h, m)
    BY <1>2 DEF Entries, Entry, Learn
  <1>3. CASE Failed(h)
    BY <1>1, <1>3, ArpdProbeAssumption DEF Entries, Entry, Failed, Neg, NegEntry, NegValid, Mac, Empty
  <1>4. CASE Reprobe(h)
    BY Zenon, <1>4 DEF Entries, Entry, Reprobe
  <1>5. CASE Resolve(h)
    <2>1. CASE UNCHANGED <<db, unanswered>>
      BY Zenon, <1>5, <2>1 DEF Entries, Entry, Resolve
    <2>2. CASE /\ NegValid(db[h])
               /\ db' = [db EXCEPT ![h].cnt = (@ + 1) % CntMod]
               /\ unanswered' = [unanswered EXCEPT ![h] = @ + 1]
      <3>1. db[h] \in NegEntry /\ db[h].cnt < active_probing /\ known' = known
        BY <1>5, <2>2, ArpdProbeAssumption DEF Resolve, Entries, Entry, NegValid, NegEntry, Mac, Empty
      <3> DEFINE c == (db[h].cnt + 1) % CntMod
      <3>2. c \in 0 .. active_probing /\ (active_probing < CntMod => c = db[h].cnt + 1)
        <4>1. /\ active_probing \in Nat /\ CntMod \in Nat \ {0}
              /\ db[h].cnt + 1 \in Nat /\ db[h].cnt + 1 <= active_probing
          BY <3>1, ArpdProbeAssumption DEF NegEntry
        <4> QED
          BY <4>1, Remainder
      <3>3. [db[h] EXCEPT !.cnt = c] \in NegEntry /\ [db[h] EXCEPT !.cnt = c].cnt = c
        BY Zenon, <3>1, <3>2 DEF NegEntry
      <3>4. db' = [db EXCEPT ![h] = [db[h] EXCEPT !.cnt = c]]
        BY Zenon, <2>2
      <3> HIDE DEF c
      <3>5. Entry(h)'
        <4>1. /\ known[h] = None /\ unanswered'[h] = unanswered[h] + 1
              /\ active_probing < CntMod => unanswered[h] = db[h].cnt
          BY <2>2, <3>1 DEF Entries, Entry, NegEntry, Mac, Empty
        <4>2. db'[h] = [db[h] EXCEPT !.cnt = c]
          BY Zenon, <3>4 DEF Entries
        <4> QED
          BY Zenon, <3>1, <3>2, <3>3, <4>1, <4>2 DEF Entry
      <3>6. \A g \in Hosts : g # h => Entry(g)'
        BY Zenon, <2>2, <3>1, <3>4 DEF Entries, Entry
      <3> QED
        BY <2>2, <3>1, <3>4, <3>5, <3>6 DEF Entries
    <2> QED
      BY Zenon, <1>5, <2>1, <2>2 DEF Resolve
  <1> QED
    BY Zenon, <1>2, <1>3, <1>4, <1>5

-----------------------------------------------------------------------------
(* What queue_active_probe computes at once: at a later instant up to a    *)
(* burst, at the instant of the last probe what is left.                   *)
LEMMA EarnedBound ==
    ASSUME Bucket
    PROVE  Earned \in 0 .. broadcast_burst /\ (prev = now => Earned = buckets)
  BY Constants DEF Bucket, Earned

LEMMA ProbeStep ==
    ASSUME Bucket, BucketBound, Probe, now' = now
    PROVE  Bucket' /\ BucketBound'
  <1> DEFINE n == Len(sent)
             r == broadcast_rate
             k == broadcast_burst \div broadcast_rate
  <1>1. /\ r \in Nat \ {0} /\ broadcast_burst \in Nat /\ k \in Nat
        /\ broadcast_burst < r * k + r
    BY Zenon, Constants, Division
  <1>2. Earned \in r .. broadcast_burst /\ (prev = now => Earned = buckets)
    BY <1>1, EarnedBound DEF Probe
  <1>3. /\ sent' = Append(sent, now) /\ prev' = now /\ buckets' = Earned - r
        /\ now \in Nat \ {0} /\ sent \in Seq(Nat)
    BY Zenon DEF Probe, Bucket
  <1>4. /\ sent' \in Seq(Nat) /\ Len(sent') = n + 1 /\ n \in Nat
        /\ DOMAIN sent = 1 .. n /\ DOMAIN sent' = 1 .. n + 1
        /\ sent'[n + 1] = now /\ \A i \in 1 .. n : sent'[i] = sent[i]
    BY <1>3, AppendProperties, LenProperties
  <1>5. \A i \in 1 .. n : sent[i] \in Nat /\ sent[i] <= prev /\ prev <= now /\ prev \in Nat
    <2>1. \A i \in 1 .. n : sent[i] \in Nat
      BY Zenon, <1>3, ElementOfSeq
    <2> QED
      BY SMTT(60), <1>3, <1>4, <2>1 DEF Bucket
  <1>6. ASSUME NEW i \in 1 .. n, sent[i] = now
        PROVE  Earned + (n - i + 1) * r <= broadcast_burst
    <2>1. prev = now
      BY <1>3, <1>5, <1>6
    <2>2. buckets + (n - i + 1) * r <= broadcast_burst
      BY Zenon, <1>4, <1>6 DEF Bucket
    <2> QED
      BY Zenon, <1>2, <2>1, <2>2
  <1>7. ASSUME NEW i \in 1 .. n + 1, sent'[i] = now
        PROVE  buckets' + (n + 1 - i + 1) * r <= broadcast_burst
    <2>1. CASE i = n + 1
      BY <1>1, <1>2, <1>3, <1>4, <2>1
    <2>2. CASE i \in 1 .. n
      <3>1. (n + 1 - i + 1) * r = (n - i + 1) * r + r
        BY SMTT(60), <1>1, <1>4, <2>2
      <3>2. (n - i + 1) * r \in Int
        BY <1>1, <1>4, <2>2
      <3> HIDE DEF n, r
      <3> QED
        BY <1>1, <1>2, <1>3, <1>4, <1>6, <1>7, <2>2, <3>1, <3>2
    <2> QED
      BY <1>4, <2>1, <2>2
  <1>8. Bucket'
    <2>1. buckets' \in 0 .. broadcast_burst
      BY <1>1, <1>2, <1>3
    <2>2. \A i \in 1 .. n + 1 : sent'[i] <= now
      BY <1>3, <1>4, <1>5
    <2>3. \A i \in DOMAIN sent' : sent'[i] = now' =>
             buckets' + (Len(sent') - i + 1) * broadcast_rate <= broadcast_burst
      BY <1>4, <1>7
    <2> QED
      BY SMTT(60), <1>3, <1>4, <2>1, <2>2, <2>3 DEF Bucket
  <1>9. BucketBound'
    <2> SUFFICES ASSUME NEW i \in 1 .. n + 1, i + k \in 1 .. n + 1
                 PROVE  sent'[i + k] > sent'[i]
      BY Zenon, <1>4 DEF BucketBound
    <2>1. CASE i + k \in 1 .. n
      <3>1. i \in DOMAIN sent /\ i + k \in DOMAIN sent
        BY <1>1, <1>4, <2>1
      <3>2. sent[i + k] > sent[i]
        BY Zenon, <3>1 DEF BucketBound
      <3> HIDE DEF k
      <3> QED
        BY <1>4, <3>1, <3>2
    <2>2. CASE i + k = n + 1
      <3>1. k # 0
        BY <1>1, <1>2
      <3>2. i \in 1 .. n /\ n - i + 1 = k
        BY <1>1, <1>4, <2>2, <3>1
      <3>3. sent[i] # now
        <4>1. SUFFICES ASSUME sent[i] = now PROVE FALSE
          OBVIOUS
        <4>2. Earned + k * r <= broadcast_burst
          BY Zenon, <1>6, <3>2, <4>1
        <4>3. k * r = r * k /\ r * k \in Int
          BY <1>1
        <4> HIDE DEF k, r
        <4> QED
          BY <1>1, <1>2, <4>2, <4>3
      <3> QED
        BY SMTT(60), <1>3, <1>4, <1>5, <2>2, <3>2, <3>3
    <2> QED
      BY <1>1, <1>4, <2>1, <2>2
  <1> QED
    BY Zenon, <1>8, <1>9

LEMMA NoProbeStep ==
    ASSUME Bucket, BucketBound, NoProbe, now' = now
    PROVE  Bucket' /\ BucketBound'
  <1>1. \A i \in DOMAIN sent : sent[i] = now => prev = now
    BY DEF Bucket
  <1>2. Bucket'
    BY Zenon, <1>1, EarnedBound DEF Bucket, NoProbe
  <1> QED
    BY Zenon, <1>2 DEF NoProbe, BucketBound

LEMMA ProbeStepInv == ProbeIInv /\ [ProbeNext]_probeVars => ProbeIInv'
  <1> SUFFICES ASSUME ProbeIInv, [ProbeNext]_probeVars PROVE ProbeIInv'
    OBVIOUS
  <1>1. CASE Tick
    BY <1>1 DEF Tick, ProbeIInv, Entries, Entry, Bucket, BucketBound
  <1>2. ASSUME NEW h \in Hosts, NEW m \in Macs, Learn(h, m) PROVE ProbeIInv'
    BY Zenon, <1>2, EntriesStep DEF Learn, ProbeIInv, Bucket, BucketBound
  <1>3. ASSUME NEW h \in Hosts, Failed(h) PROVE ProbeIInv'
    BY Zenon, <1>3, EntriesStep DEF Failed, ProbeIInv, Bucket, BucketBound
  <1>4. ASSUME NEW h \in Hosts, Reprobe(h) \/ Resolve(h) PROVE ProbeIInv'
    <2>1. Entries'
      BY Zenon, <1>4, EntriesStep DEF ProbeIInv
    <2>2. now' = now /\ (Probe \/ NoProbe \/ UNCHANGED <<prev, buckets, sent>>)
      BY Zenon, <1>4 DEF Reprobe, Resolve
    <2>3. Bucket' /\ BucketBound'
      BY Zenon, <2>2, ProbeStep, NoProbeStep DEF ProbeIInv, Bucket, BucketBound
    <2> QED
      BY Zenon, <2>1, <2>3 DEF ProbeIInv
  <1>5. CASE UNCHANGED probeVars
    BY Zenon, <1>5 DEF probeVars, ProbeIInv, Entries, Entry, Bucket, BucketBound
  <1> QED
    BY Zenon, <1>1, <1>2, <1>3, <1>4, <1>5 DEF ProbeNext

(* The database and the bucket in every state of every behaviour.          *)
THEOREM ProbeInvariance == ProbeSpec => []ProbeIInv
  BY ProbeInitInv, ProbeStepInv, PTL DEF ProbeSpec

-----------------------------------------------------------------------------
(* respond_to_kernel gives the address get_arp_pkt or do_one_request       *)
(* learnt last, and none once the kernel has reported the host dead or     *)
(* asked to probe it again.                                                *)
THEOREM AnswersCurrent == ProbeSpec => []AnswerIsCurrent
  <1>1. ProbeIInv => AnswerIsCurrent
    <2> SUFFICES ASSUME ProbeIInv, NEW h \in Hosts PROVE Answer(h) = known[h]
      BY Zenon DEF AnswerIsCurrent
    <2>1. CASE db[h] = Empty /\ known[h] = None
      BY <2>1 DEF Empty, Answer
    <2>2. ASSUME NEW m \in Macs, db[h] = Mac(m), known[h] = m PROVE Answer(h) = known[h]
      BY <2>2 DEF Mac, Answer
    <2>3. CASE db[h] \in NegEntry /\ known[h] = None
      BY Zenon, <2>3 DEF NegEntry, Answer
    <2> QED
      BY Zenon, <2>1, <2>2, <2>3 DEF ProbeIInv, Entries, Entry
  <1> QED
    BY <1>1, ProbeInvariance, PTL

(* Under one negative entry a host is asked for at most active_probing     *)
(* times, provided the byte that counts the queries (NEG_CNT) can hold     *)
(* option -a: arpd does not check that it can.                             *)
THEOREM DeadHostsQuiet ==
    ASSUME active_probing < CntMod
    PROVE  ProbeSpec => []DeadHostQuiet
  <1>1. ProbeIInv => DeadHostQuiet
    BY ArpdProbeAssumption
       DEF ProbeIInv, Entries, Entry, NegEntry, NegValid, Empty, Mac, DeadHostQuiet
  <1> QED
    BY <1>1, ProbeInvariance, PTL

(* queue_active_probe sends no more at one instant than a full bucket pays *)
(* for, whatever the options -R and -B and however many requests fail.     *)
THEOREM BurstBounded == ProbeSpec => []BucketBound
  <1>1. ProbeIInv => BucketBound
    BY Zenon DEF ProbeIInv
  <1> QED
    BY <1>1, ProbeInvariance, PTL

-----------------------------------------------------------------------------
(* The commands that load BPF objects.                                     *)

Pcs == {"probe", "create", "fill", "loaded", "failed"}
Specs == UNION {{obj.maps[i].spec : i \in DOMAIN obj.maps} : obj \in Objects}
Loader ==
  [obj : Objects, section : Nat, pc : Pcs, i : Nat \ {0}, round : {1, 2}, done : SUBSET (Nat \X Nat \X Nat),
   fds : Seq(Int), have_map_in_map : BOOLEAN, made : SUBSET Nat, after : SUBSET Loaders]

\* What a command knows about its maps: they are maps of the kernel, made as
\* the object says; where it stands in the two rounds; which tables it filled.
Maps(me, kd) ==
  /\ Len(me.fds) = Len(me.obj.maps)
  /\ \A j \in 1..Len(me.fds) :
       /\ me.fds[j] \in {-1, 0} \cup 1..Len(kd)
       /\ me.fds[j] > 0 => kd[me.fds[j]] = me.obj.maps[j].spec
  /\ \A fd \in me.made : fd \in 1..Len(kd) /\ (kd[fd][1] = "maps" => me.have_map_in_map)
Rounds(me) ==
  /\ me.round = 2 => me.have_map_in_map
  /\ me.pc = "create" => /\ me.i <= Len(me.obj.maps)
                         /\ bpf_is_map_in_map_type(me.obj.maps[me.i]) => me.round = 2
  /\ \A j \in 1..Len(me.fds) :
       /\ me.fds[j] = -1 => me.have_map_in_map
       /\ me.pc \in {"probe", "create"} /\ (me.round = 2 \/ j < me.i) => me.fds[j] # 0
       /\ me.pc \in {"probe", "create"} /\ me.round = 2 /\ j < me.i => me.fds[j] > 0
       /\ me.pc \in {"fill", "loaded"} => me.fds[j] > 0
Filled(me, hd) ==
  /\ me.pc \in {"probe", "create"} => me.done = {}
  /\ me.pc \in {"fill", "loaded"} =>
       \A u \in me.done : u[3] \in 1..Len(me.fds) /\ KeyOf(me, u) \in DOMAIN hd[me.fds[u[3]]]
  /\ me.pc = "loaded" => Todo(me) = {}

Local(me, kd, hd) == me.pc = "idle" \/ (me \in Loader /\ Maps(me, kd) /\ Rounds(me) /\ Filled(me, hd))

\* The kernel's side.
Kernel == /\ kinds \in Seq(Specs) /\ DOMAIN held = 1..Len(kinds)
          /\ \A p \in DOMAIN fs : fs[p] \in 1..Len(kinds)

\* The commands that had ended when another one began have ended.
AfterEnd == \A l \in Loaders : loader[l].pc # "idle" => loader[l].after \subseteq Finished

\* A path does not change under a command that no other one overlaps, nor one
\* that such a command had pinned before.
Pinned(l, j) == j \in 1..Len(loader[l].fds) /\ ~bpf_no_pinning(loader[l].obj.maps[j].pinning)
Path(l, j) == bpf_make_pathname(loader[l].obj, loader[l].obj.maps[j])
Sole(l) == \A k \in Loaders \ {l} : Apart(k, l)
Old(l, p) == \E k \in loader[l].after : /\ loader[k].pc = "loaded" /\ Sole(k)
                                        /\ \E j \in 1..Len(loader[k].fds) : Pinned(k, j) /\ Path(k, j) = p
Steady(l, p) == Sole(l) \/ Old(l, p)
Shared ==
  \A l \in Loaders : loader[l].pc # "idle" =>
    \A j \in 1..Len(loader[l].fds) : Pinned(l, j) /\ Steady(l, Path(l, j)) =>
      /\ loader[l].fds[j] > 0 => Path(l, j) \in DOMAIN fs /\ fs[Path(l, j)] = loader[l].fds[j]
      /\ loader[l].pc = "create" /\ loader[l].i = j => Path(l, j) \notin DOMAIN fs

BpfInv == /\ DOMAIN loader = Loaders /\ Kernel /\ AfterEnd /\ Shared
          /\ \A l \in Loaders : Local(loader[l], kinds, held)

-----------------------------------------------------------------------------
LEMMA ObjectFacts ==
  ASSUME NEW obj \in Objects
  PROVE  /\ DOMAIN obj.maps = 1..Len(obj.maps) /\ Len(obj.maps) \in Nat /\ DOMAIN obj.sections \subseteq Nat
         /\ \A i \in 1..Len(obj.maps) : obj.maps[i].spec \in Specs
<1>1. DOMAIN obj.maps = 1..Len(obj.maps) /\ Len(obj.maps) \in Nat /\ DOMAIN obj.sections \subseteq Nat
  BY Zenon, BpfAssumption
<1>2. ASSUME NEW i \in 1..Len(obj.maps) PROVE obj.maps[i].spec \in Specs
  <2> DEFINE S(x) == {x.maps[k].spec : k \in DOMAIN x.maps}
  <2>1. obj.maps[i].spec \in S(obj)
    BY Zenon, <1>1
  <2>2. S(obj) \in {S(x) : x \in Objects}
    BY Zenon
  <2> HIDE DEF S
  <2>3. obj.maps[i].spec \in UNION {S(x) : x \in Objects}
    BY Zenon, <2>1, <2>2, Zenon
  <2> QED BY Zenon, <2>3, Zenon DEF Specs, S
<1> QED BY Zenon, <1>1, <1>2

\* The kernel keeps the maps that it has and what they hold.
Grows(kd, hd, kd2, hd2) ==
  /\ Len(kd) <= Len(kd2)
  /\ \A fd \in 1..Len(kd) : kd2[fd] = kd[fd] /\ DOMAIN hd[fd] \subseteq DOMAIN hd2[fd]

LEMMA LocalGrows ==
  ASSUME NEW me, NEW kd \in Seq(Specs), NEW hd, NEW kd2 \in Seq(Specs), NEW hd2, Grows(kd, hd, kd2, hd2), Local(me, kd, hd)
  PROVE  Local(me, kd2, hd2)
<1> SUFFICES ASSUME me \in Loader, Maps(me, kd), Rounds(me), Filled(me, hd)
             PROVE  Maps(me, kd2) /\ Filled(me, hd2)
  BY Zenon DEF Local
<1>1. Len(kd) \in Nat /\ Len(kd2) \in Nat /\ me.fds \in Seq(Int) /\ \A fd \in 1..Len(kd) : fd \in 1..Len(kd2)
  BY LenProperties DEF Grows, Loader
<1>2. Maps(me, kd2)
  <2>1. \A j \in 1..Len(me.fds) : me.fds[j] \in {-1, 0} \cup 1..Len(kd2)
    BY Zenon, <1>1 DEF Maps
  <2>2. ASSUME NEW j \in 1..Len(me.fds), me.fds[j] > 0 PROVE kd2[me.fds[j]] = me.obj.maps[j].spec
    <3>1. me.fds[j] \in {-1, 0} \cup 1..Len(kd)
      BY ZenonT(60) DEF Maps
    <3>2. me.fds[j] \in 1..Len(kd)
      BY <2>2, <3>1
    <3> QED BY Zenon, <2>2, <3>2 DEF Maps, Grows
  <2>3. \A fd \in me.made : fd \in 1..Len(kd2) /\ (kd2[fd][1] = "maps" => me.have_map_in_map)
    BY Zenon, <1>1 DEF Maps, Grows
  <2> QED BY Zenon, <2>1, <2>2, <2>3 DEF Maps
<1>3. ASSUME me.pc \in {"fill", "loaded"}, NEW u \in me.done
      PROVE  KeyOf(me, u) \in DOMAIN hd2[me.fds[u[3]]]
  <2>1. u[3] \in 1..Len(me.fds) /\ KeyOf(me, u) \in DOMAIN hd[me.fds[u[3]]]
    BY Zenon, <1>3 DEF Filled
  <2>2. me.fds[u[3]] > 0
    BY Zenon, <1>3, <2>1 DEF Rounds
  <2>3. me.fds[u[3]] \in {-1, 0} \cup 1..Len(kd)
    BY ZenonT(60), <2>1 DEF Maps
  <2>4. me.fds[u[3]] \in 1..Len(kd)
    BY <2>2, <2>3
  <2> QED BY Zenon, <2>1, <2>4 DEF Grows
<1> QED BY Zenon, <1>2, <1>3 DEF Filled

-----------------------------------------------------------------------------
\* A step of command l, which becomes r: what all steps have in common.
PathOf(me, j) == bpf_make_pathname(me.obj, me.obj.maps[j])
Shares(me, r) ==
  \A j \in 1..Len(r.fds) : ~bpf_no_pinning(r.obj.maps[j].pinning) =>
    /\ r.fds[j] > 0 => \/ me.pc # "idle" /\ r.fds[j] = me.fds[j]
                       \/ PathOf(r, j) \in DOMAIN fs' /\ fs'[PathOf(r, j)] = r.fds[j]
                       \/ me.pc = "create" /\ me.i = j /\ PathOf(r, j) \in DOMAIN fs
    /\ r.pc = "create" /\ r.i = j => PathOf(r, j) \notin DOMAIN fs'
Moves(l, r) ==
  /\ Set(l, r) /\ r.pc # "idle" /\ Local(r, kinds', held')
  /\ \/ loader[l].pc = "idle" /\ r.after = Finished /\ (\A j \in 1..Len(r.fds) : ~(r.fds[j] > 0))
     \/ /\ loader[l].pc \in {"probe", "create", "fill"}
        /\ r.after = loader[l].after /\ r.obj = loader[l].obj /\ Len(r.fds) = Len(loader[l].fds)
  /\ Shares(loader[l], r)
  /\ Kernel' /\ Grows(kinds, held, kinds', held')
  /\ \A p \in DOMAIN fs : p \in DOMAIN fs' /\ fs'[p] = fs[p]
  /\ fs' = fs \/ loader[l].pc = "create"

LEMMA SetFacts ==
  ASSUME DOMAIN loader = Loaders, NEW l \in Loaders, NEW r, Set(l, r)
  PROVE  DOMAIN loader' = Loaders /\ loader'[l] = r /\ \A k \in Loaders : k # l => loader'[k] = loader[k]
BY Zenon DEF Set

\* Nothing that held a path steady before ends with a step.
LEMMA SteadyStep ==
  ASSUME DOMAIN loader = Loaders, AfterEnd, NEW l \in Loaders, NEW r, Moves(l, r),
         NEW k \in Loaders, loader[k].pc # "idle", NEW p
  PROVE  Steady(k, p)' => Steady(k, p)
<1>1. /\ loader'[l] = r /\ r.pc # "idle" /\ \A h \in Loaders : h # l => loader'[h] = loader[h]
      /\ loader[l].pc = "idle" \/ (loader[l].pc \notin {"loaded", "failed"} /\ r.after = loader[l].after)
  BY Zenon, SetFacts DEF Moves
<1>2. ASSUME NEW h \in Loaders, loader[h].pc # "idle" PROVE loader'[h].after = loader[h].after
  BY Zenon, <1>1, <1>2
<1>3. ASSUME NEW h \in Loaders, loader[h].pc # "idle" \/ h # l, Sole(h)' PROVE Sole(h)
  <2> SUFFICES ASSUME NEW g \in Loaders \ {h} PROVE Apart(g, h)
    BY Zenon DEF Sole
  <2>1. Apart(g, h)'
    BY Zenon, <1>3 DEF Sole
  <2>2. loader'[h].after = loader[h].after
    BY Zenon, <1>1, <1>2, <1>3
  <2>3. CASE loader'[g].pc = "idle" \/ g \in loader'[h].after
    BY Zenon, <2>2, <2>3, <1>1 DEF Apart
  <2>4. CASE h \in loader'[g].after
    BY Zenon, <2>4, <1>1, <1>2 DEF Apart
  <2> QED BY Zenon, <2>1, <2>3, <2>4 DEF Apart
<1>4. ASSUME Old(k, p)' PROVE Old(k, p)
  <2>1. loader'[k].after = loader[k].after
    BY Zenon, <1>1, <1>2
  <2>2. PICK q \in loader[k].after : /\ loader'[q].pc = "loaded" /\ Sole(q)'
                                     /\ \E j \in 1..Len(loader'[q].fds) : Pinned(q, j)' /\ Path(q, j)' = p
    BY Zenon, <1>4, <2>1 DEF Old
  <2>3. q \in Loaders /\ q # l
    <3>1. q \in Finished
      BY Zenon, <2>2 DEF AfterEnd
    <3> QED BY Zenon, <3>1, <1>1 DEF Finished
  <2>4. loader'[q] = loader[q] /\ Sole(q)
    BY Zenon, <1>1, <1>3, <2>2, <2>3
  <2>5. \A j : (Pinned(q, j)' <=> Pinned(q, j)) /\ Path(q, j)' = Path(q, j)
    BY Zenon, <2>4 DEF Pinned, Path
  <2> QED BY Zenon, <2>2, <2>4, <2>5 DEF Old
<1> QED BY Zenon, <1>3, <1>4 DEF Steady

\* What a command of the past has pinned is still there.
LEMMA OldIsPinned ==
  ASSUME BpfInv, NEW l \in Loaders, loader[l].pc # "idle", NEW p, Old(l, p)
  PROVE  p \in DOMAIN fs
<1>1. PICK k \in loader[l].after : /\ loader[k].pc = "loaded" /\ Sole(k)
                                   /\ \E j \in 1..Len(loader[k].fds) : Pinned(k, j) /\ Path(k, j) = p
  BY Zenon DEF Old
<1>2. PICK j \in 1..Len(loader[k].fds) : Pinned(k, j) /\ Path(k, j) = p
  BY Zenon, <1>1
<1>3. k \in Loaders
  BY Zenon DEF BpfInv, AfterEnd, Finished
<1>4. loader[k].fds[j] > 0
  BY Zenon, <1>1, <1>3 DEF BpfInv, Local, Rounds
<1> QED BY Zenon, <1>1, <1>2, <1>3, <1>4 DEF BpfInv, Shared, Steady

LEMMA MovesInv ==
  ASSUME BpfInv, NEW l \in Loaders, NEW r, Moves(l, r)
  PROVE  BpfInv'
<1>1. /\ DOMAIN loader' = Loaders /\ loader'[l] = r /\ \A k \in Loaders : k # l => loader'[k] = loader[k]
  BY Zenon, SetFacts DEF Moves, BpfInv
<1>2. Kernel' /\ kinds \in Seq(Specs) /\ kinds' \in Seq(Specs) /\ Grows(kinds, held, kinds', held')
  BY Zenon DEF Moves, BpfInv, Kernel
<1>3. \A k \in Loaders : Local(loader'[k], kinds', held')
  BY Zenon, <1>1, <1>2, LocalGrows DEF BpfInv, Moves
<1>4. Finished \subseteq Finished'
  BY Zenon, <1>1 DEF Moves, Finished
<1>5. AfterEnd'
  <2> SUFFICES ASSUME NEW k \in Loaders, loader'[k].pc # "idle" PROVE loader'[k].after \subseteq Finished'
    BY Zenon DEF AfterEnd
  <2>1. CASE k # l
    BY Zenon, <2>1, <1>1, <1>4 DEF BpfInv, AfterEnd
  <2>2. CASE k = l
    BY Zenon, <2>2, <1>1, <1>4 DEF BpfInv, AfterEnd, Moves
  <2> QED BY Zenon, <2>1, <2>2
<1>6. ASSUME NEW k \in Loaders, k # l, loader[k].pc # "idle", NEW j \in 1..Len(loader[k].fds),
             Pinned(k, j), Steady(k, Path(k, j))
      PROVE  /\ loader[k].fds[j] > 0 => Path(k, j) \in DOMAIN fs' /\ fs'[Path(k, j)] = loader[k].fds[j]
             /\ loader[k].pc = "create" /\ loader[k].i = j => Path(k, j) \notin DOMAIN fs'
  <2>1. /\ loader[k].fds[j] > 0 => Path(k, j) \in DOMAIN fs /\ fs[Path(k, j)] = loader[k].fds[j]
        /\ loader[k].pc = "create" /\ loader[k].i = j => Path(k, j) \notin DOMAIN fs
    BY Zenon, <1>6 DEF BpfInv, Shared
  <2>2. ASSUME loader[k].pc = "create", loader[k].i = j PROVE fs' = fs
    <3>1. ~Old(k, Path(k, j))
      BY Zenon, <1>6, <2>1, <2>2, OldIsPinned
    <3>2. Apart(l, k)
      BY Zenon, <1>6, <3>1 DEF Steady, Sole
    <3>3. k \notin Finished
      BY Zenon, <2>2 DEF Finished
    <3>4. ASSUME loader[l].pc = "create" PROVE FALSE
      <4>1. l \in loader[k].after \/ k \in loader[l].after
        BY Zenon, <3>2, <3>4 DEF Apart
      <4>2. l \notin Finished
        BY Zenon, <3>4 DEF Finished
      <4> QED BY Zenon, <4>1, <4>2, <3>3, <3>4, <1>6 DEF BpfInv, AfterEnd
    <3> QED BY Zenon, <3>4 DEF Moves
  <2>3. \A p \in DOMAIN fs : p \in DOMAIN fs' /\ fs'[p] = fs[p]
    BY Zenon DEF Moves
  <2> QED BY Zenon, <2>1, <2>2, <2>3
<1>7. ASSUME NEW j \in 1..Len(r.fds), Pinned(l, j)', Steady(l, Path(l, j))'
      PROVE  /\ r.fds[j] > 0 => Path(l, j)' \in DOMAIN fs' /\ fs'[Path(l, j)'] = r.fds[j]
             /\ r.pc = "create" /\ r.i = j => Path(l, j)' \notin DOMAIN fs'
  <2>1. Path(l, j)' = PathOf(r, j) /\ ~bpf_no_pinning(r.obj.maps[j].pinning)
    BY Zenon, <1>1, <1>7 DEF Path, PathOf, Pinned
  <2>2. ASSUME r.fds[j] > 0, ~(PathOf(r, j) \in DOMAIN fs' /\ fs'[PathOf(r, j)] = r.fds[j]) PROVE FALSE
    <3>1. /\ loader[l].pc # "idle" /\ Path(l, j) = PathOf(r, j) /\ Pinned(l, j) /\ j \in 1..Len(loader[l].fds)
      BY Zenon, <2>1, <2>2 DEF Moves, Path, PathOf, Pinned
    <3>2. Steady(l, Path(l, j))
      BY Zenon, <1>7, <2>1, <3>1, SteadyStep DEF BpfInv
    <3>3. /\ loader[l].fds[j] > 0 => Path(l, j) \in DOMAIN fs /\ fs[Path(l, j)] = loader[l].fds[j]
          /\ loader[l].pc = "create" /\ loader[l].i = j => Path(l, j) \notin DOMAIN fs
      BY Zenon, <3>1, <3>2 DEF BpfInv, Shared
    <3>4. \/ r.fds[j] = loader[l].fds[j]
          \/ loader[l].pc = "create" /\ loader[l].i = j /\ PathOf(r, j) \in DOMAIN fs
      BY Zenon, <2>1, <2>2 DEF Moves, Shares
    <3> QED BY Zenon, <2>2, <3>1, <3>3, <3>4 DEF Moves
  <2> QED BY Zenon, <2>1, <2>2 DEF Moves, Shares
<1>8. Shared'
  <2> SUFFICES ASSUME NEW k \in Loaders, loader'[k].pc # "idle", NEW j \in 1..Len(loader'[k].fds),
                      Pinned(k, j)', Steady(k, Path(k, j))'
               PROVE  /\ loader'[k].fds[j] > 0 => Path(k, j)' \in DOMAIN fs' /\ fs'[Path(k, j)'] = loader'[k].fds[j]
                      /\ loader'[k].pc = "create" /\ loader'[k].i = j => Path(k, j)' \notin DOMAIN fs'
    BY Zenon DEF Shared
  <2>1. CASE k = l
    BY Zenon, <2>1, <1>1, <1>7
  <2>2. CASE k # l
    <3>1. loader'[k] = loader[k] /\ Path(k, j)' = Path(k, j) /\ Pinned(k, j)
      BY Zenon, <2>2, <1>1 DEF Path, Pinned
    <3>2. Steady(k, Path(k, j))
      BY Zenon, <3>1, SteadyStep DEF BpfInv
    <3> QED BY ZenonT(60), <2>2, <3>1, <3>2, <1>6
  <2> QED BY Zenon, <2>1, <2>2
<1> QED BY Zenon, <1>1, <1>2, <1>3, <1>5, <1>8 DEF BpfInv

-----------------------------------------------------------------------------
\* The steps, one by one: a command that is not idle, before the step.
Runs(me) == me \in Loader /\ Maps(me, kinds) /\ Rounds(me) /\ Filled(me, held)

LEMMA RunFacts ==
  ASSUME NEW me, Runs(me)
  PROVE  /\ me.obj \in Objects /\ me.pc \in Pcs /\ me.i \in Nat \ {0} /\ me.round \in {1, 2}
         /\ me.fds \in Seq(Int) /\ me.have_map_in_map \in BOOLEAN /\ me.made \in SUBSET Nat
         /\ Len(me.fds) = Len(me.obj.maps) /\ Len(me.fds) \in Nat /\ DOMAIN me.obj.maps = 1..Len(me.fds)
         /\ \A j \in 1..Len(me.fds) : me.fds[j] \in Int
<1>1. me \in Loader /\ Len(me.fds) = Len(me.obj.maps)
  BY Zenon DEF Runs, Maps
<1>2. me.obj \in Objects /\ me.fds \in Seq(Int)
  BY Zenon, <1>1 DEF Loader
<1>3. Len(me.fds) \in Nat /\ \A j \in 1..Len(me.fds) : me.fds[j] \in Int
  BY Zenon, <1>2, LenProperties, ElementOfSeq
<1> QED BY ZenonT(60), <1>1, <1>2, <1>3, ObjectFacts DEF Loader

\* A step that leaves the kernel and the maps of the command alone.
LEMMA QuietMoves ==
  ASSUME BpfInv, NEW l \in Loaders, NEW r, Set(l, r), UNCHANGED <<fs, kinds, held>>,
         loader[l].pc \in {"probe", "create", "fill"}, Runs(r),
         r.after = loader[l].after, r.obj = loader[l].obj, r.fds = loader[l].fds,
         r.pc = "create" => bpf_no_pinning(r.obj.maps[r.i].pinning) \/ PathOf(r, r.i) \notin DOMAIN fs
  PROVE  Moves(l, r)
<1>1. Kernel' /\ Grows(kinds, held, kinds', held') /\ \A p \in DOMAIN fs : p \in DOMAIN fs' /\ fs'[p] = fs[p]
  <2>1. Kernel' /\ Len(kinds) \in Nat
    BY Zenon, LenProperties DEF BpfInv, Kernel
  <2> QED BY <2>1 DEF Grows
<1>2. Local(r, kinds', held') /\ r.pc # "idle"
  <2>1. r.pc \in Pcs
    BY Zenon, RunFacts
  <2> QED BY Zenon, <2>1 DEF Local, Runs, Pcs
<1>3. Shares(loader[l], r)
  BY Zenon DEF Shares
<1> QED BY ZenonT(60), <1>1, <1>2, <1>3 DEF Moves

LEMMA PcChange ==
  ASSUME NEW me, Runs(me), NEW p \in Pcs
  PROVE  LET r == [me EXCEPT !.pc = p]
         IN /\ r \in Loader /\ r.pc = p /\ r.obj = me.obj /\ r.i = me.i /\ r.round = me.round /\ r.fds = me.fds
            /\ r.have_map_in_map = me.have_map_in_map /\ r.made = me.made /\ r.after = me.after
            /\ r.done = me.done /\ r.section = me.section
            /\ Maps(r, kinds)
            /\ \A u : KeyOf(r, u) = KeyOf(me, u)
<1> DEFINE r == [me EXCEPT !.pc = p]
<1>1. /\ r \in Loader /\ r.pc = p /\ r.obj = me.obj /\ r.i = me.i /\ r.round = me.round /\ r.fds = me.fds
      /\ r.have_map_in_map = me.have_map_in_map /\ r.made = me.made /\ r.after = me.after
      /\ r.done = me.done /\ r.section = me.section
  BY Zenon DEF Runs, Loader
<1> HIDE DEF r
<1>2. Maps(r, kinds)
  BY ZenonT(60), <1>1 DEF Runs, Maps
<1>3. \A u : KeyOf(r, u) = KeyOf(me, u)
  BY Zenon, <1>1 DEF KeyOf
<1> QED BY Zenon, <1>1, <1>2, <1>3 DEF r

LEMMA FailsMoves ==
  ASSUME BpfInv, NEW l \in Loaders, loader[l].pc \in {"probe", "create", "fill"}, LoadFails(l)
  PROVE  \E r : Moves(l, r)
<1> DEFINE me == loader[l]
           r == [me EXCEPT !.pc = "failed"]
<1>1. Runs(me)
  BY Zenon DEF BpfInv, Local, Runs
<1>2. /\ r \in Loader /\ r.pc = "failed" /\ r.obj = me.obj /\ r.i = me.i /\ r.round = me.round /\ r.fds = me.fds
      /\ r.have_map_in_map = me.have_map_in_map /\ r.after = me.after /\ Maps(r, kinds)
  BY ZenonT(60), <1>1, PcChange DEF Pcs
<1>3. Set(l, r) /\ UNCHANGED <<fs, kinds, held>>
  BY Zenon DEF LoadFails
<1> HIDE DEF r
<1>4. Rounds(r)
  BY Zenon, <1>1, <1>2 DEF Runs, Rounds
<1>5. Runs(r)
  BY Zenon, <1>2, <1>4 DEF Runs, Filled
<1> QED BY Zenon, <1>2, <1>3, <1>5, QuietMoves

LEMMA PassMoves ==
  ASSUME BpfInv, NEW l \in Loaders, PassOverMap(l)
  PROVE  \E r : Moves(l, r)
<1> DEFINE me == loader[l]
           r == [me EXCEPT !.i = @ + 1]
<1>1. me.pc = "probe" /\ me.round = 2 /\ me.fds[me.i] > 0 /\ Set(l, r) /\ UNCHANGED <<fs, kinds, held>>
  BY Zenon DEF PassOverMap, Probing, SecondRound
<1>2. Runs(me)
  BY Zenon, <1>1 DEF BpfInv, Local, Runs
<1>3. /\ r \in Loader /\ r.pc = me.pc /\ r.obj = me.obj /\ r.i = me.i + 1 /\ r.round = me.round /\ r.fds = me.fds
      /\ r.have_map_in_map = me.have_map_in_map /\ r.made = me.made /\ r.after = me.after /\ r.done = me.done
  <2>1. me \in Loader /\ me.i \in Nat \ {0}
    BY ZenonT(60), <1>2, RunFacts DEF Runs
  <2>2. me.i + 1 \in Nat \ {0}
    BY <2>1
  <2> QED BY Zenon, <2>1, <2>2 DEF Loader
<1>4. me.i \in Nat /\ Len(me.fds) \in Nat
  BY ZenonT(60), <1>2, RunFacts
<1> HIDE DEF r
<1>5. Rounds(r)
  BY <1>1, <1>2, <1>3, <1>4 DEF Runs, Rounds
<1>6. Runs(r)
  BY ZenonT(60), <1>1, <1>2, <1>3, <1>5 DEF Runs, Filled, Maps
<1> QED BY Zenon, <1>1, <1>3, <1>6, QuietMoves

LEMMA RoundMoves ==
  ASSUME BpfInv, NEW l \in Loaders, bpf_second_round(l)
  PROVE  \E r : Moves(l, r)
<1> DEFINE me == loader[l]
<1>1. me.pc = "probe" /\ me.i > Len(me.obj.maps) /\ UNCHANGED <<fs, kinds, held>>
  BY Zenon DEF bpf_second_round
<1>2. Runs(me)
  BY Zenon, <1>1 DEF BpfInv, Local, Runs
<1>3. Len(me.obj.maps) = Len(me.fds) /\ Len(me.fds) \in Nat /\ me.i \in Nat /\ me.round \in {1, 2}
  BY Zenon, <1>2, RunFacts
<1>4. CASE me.round = 1 /\ me.have_map_in_map
  <2> DEFINE r == [me EXCEPT !.round = 2, !.i = 1]
  <2>1. Set(l, r)
    BY Zenon, <1>4 DEF bpf_second_round
  <2>2. /\ r \in Loader /\ r.pc = me.pc /\ r.obj = me.obj /\ r.i = 1 /\ r.round = 2 /\ r.fds = me.fds
        /\ r.have_map_in_map = me.have_map_in_map /\ r.made = me.made /\ r.after = me.after /\ r.done = me.done
    <3>1. 1 \in Nat \ {0} /\ 2 \in {1, 2} /\ me \in Loader
      BY SMTT(60), <1>2 DEF Runs
    <3> QED BY ZenonT(60), <3>1 DEF Loader
  <2> HIDE DEF r
  <2>3. Rounds(r)
    BY SMTT(60), <1>1, <1>2, <1>3, <1>4, <2>2 DEF Runs, Rounds
  <2>4. Runs(r)
    BY ZenonT(60), <1>1, <1>2, <2>2, <2>3 DEF Runs, Filled, Maps
  <2> QED BY Zenon, <1>1, <2>1, <2>2, <2>4, QuietMoves
<1>5. CASE ~(me.round = 1 /\ me.have_map_in_map)
  <2> DEFINE r == [me EXCEPT !.pc = "fill"]
  <2>1. Set(l, r)
    BY Zenon, <1>5 DEF bpf_second_round
  <2>2. /\ r \in Loader /\ r.pc = "fill" /\ r.obj = me.obj /\ r.i = me.i /\ r.round = me.round /\ r.fds = me.fds
        /\ r.have_map_in_map = me.have_map_in_map /\ r.after = me.after /\ r.done = me.done /\ Maps(r, kinds)
    BY ZenonT(60), <1>2, PcChange DEF Pcs
  <2> HIDE DEF r
  <2>3. ASSUME NEW j \in 1..Len(me.fds) PROVE me.fds[j] > 0
    <3>1. j < me.i
      BY <1>1, <1>3
    <3>2. me.fds[j] # 0 /\ (me.round = 2 => me.fds[j] > 0) /\ (me.fds[j] = -1 => me.have_map_in_map)
      BY ZenonT(60), <1>1, <1>2, <3>1 DEF Runs, Rounds
    <3>3. me.fds[j] \in {-1, 0} \cup 1..Len(kinds) /\ Len(kinds) \in Nat
      BY Zenon, <1>2, LenProperties DEF Runs, Maps, BpfInv, Kernel
    <3> QED BY SMTT(60), <1>3, <1>5, <3>2, <3>3
  <2>4. Rounds(r)
    BY Zenon, <1>2, <2>2, <2>3 DEF Runs, Rounds
  <2>5. Runs(r)
    BY ZenonT(60), <1>1, <1>2, <2>2, <2>4 DEF Runs, Filled
  <2> QED BY Zenon, <1>1, <2>1, <2>2, <2>5, QuietMoves
<1> QED BY Zenon, <1>4, <1>5

-----------------------------------------------------------------------------
\* A map is attached: r is me with fd in its place.
Takes(me, r, fd) ==
  /\ r \in Loader /\ r.obj = me.obj /\ r.i = me.i + 1 /\ r.round = me.round /\ r.done = me.done
  /\ r.pc = "probe" /\ r.after = me.after
  /\ Len(r.fds) = Len(me.fds) /\ r.fds[me.i] = fd
  /\ \A j \in 1..Len(me.fds) : j # me.i => r.fds[j] = me.fds[j]

LEMMA TakesLocal ==
  ASSUME NEW me, NEW r, NEW fd \in Int, NEW kd \in Seq(Specs), NEW hd, me \in Loader, Maps(me, kd), Rounds(me), Filled(me, hd),
         me.pc \in {"probe", "create"}, me.i <= Len(me.fds), Takes(me, r, fd),
         me.have_map_in_map => r.have_map_in_map,
         fd \in {-1} \cup 1..Len(kd), fd = -1 => r.have_map_in_map /\ me.round = 1,
         fd > 0 => kd[fd] = me.obj.maps[me.i].spec,
         \A x \in r.made : x \in me.made \/ (x = fd /\ x \in 1..Len(kd) /\ (kd[x][1] = "maps" => r.have_map_in_map))
  PROVE  Local(r, kd, hd)
<1>1. /\ r \in Loader /\ r.obj = me.obj /\ r.i = me.i + 1 /\ r.round = me.round /\ r.done = me.done /\ r.pc = "probe"
      /\ Len(r.fds) = Len(me.fds) /\ r.fds[me.i] = fd
      /\ \A j \in 1..Len(me.fds) : j # me.i => r.fds[j] = me.fds[j]
  BY Zenon DEF Takes
<1>2. me.i \in Nat \ {0} /\ me.round \in {1, 2} /\ Len(me.fds) \in Nat /\ Len(kd) \in Nat
      /\ \A j \in 1..Len(me.fds) : me.fds[j] \in Int
  BY Zenon, LenProperties, ElementOfSeq DEF Loader
<1>3. Maps(r, kd)
  <2>1. ASSUME NEW j \in 1..Len(r.fds)
        PROVE  r.fds[j] \in {-1, 0} \cup 1..Len(kd) /\ (r.fds[j] > 0 => kd[r.fds[j]] = r.obj.maps[j].spec)
    <3>1. CASE j = me.i
      BY Zenon, <1>1, <3>1
    <3>2. CASE j # me.i
      BY ZenonT(60), <1>1, <3>2 DEF Maps
    <3> QED BY ZenonT(60), <3>1, <3>2
  <2>2. \A x \in r.made : x \in 1..Len(kd) /\ (kd[x][1] = "maps" => r.have_map_in_map)
    BY Zenon DEF Maps
  <2>3. Len(r.fds) = Len(r.obj.maps)
    BY Zenon, <1>1 DEF Maps
  <2> QED BY ZenonT(60), <2>1, <2>2, <2>3 DEF Maps
<1>4. Rounds(r)
  <2>1. ASSUME NEW j \in 1..Len(r.fds)
        PROVE  /\ r.fds[j] = -1 => r.have_map_in_map
               /\ r.round = 2 \/ j < r.i => r.fds[j] # 0
               /\ r.round = 2 /\ j < r.i => r.fds[j] > 0
    <3>1. CASE j = me.i
      <4>1. r.fds[j] = fd /\ r.round = me.round
        BY Zenon, <1>1, <3>1
      <4>2. fd = -1 \/ fd > 0
        BY SMTT(60), <1>2
      <4>3. fd # 0 /\ (me.round = 2 => me.round # 1)
        BY <4>2
      <4> QED BY Zenon, <4>1, <4>2, <4>3
    <3>2. CASE j # me.i
      <4>1. r.fds[j] = me.fds[j] /\ (j < r.i => j < me.i) /\ j \in 1..Len(me.fds)
        BY <1>1, <1>2, <3>2
      <4> QED BY ZenonT(60), <1>1, <4>1 DEF Rounds
    <3> QED BY Zenon, <3>1, <3>2
  <2>2. r.round = 2 => r.have_map_in_map
    BY Zenon, <1>1 DEF Rounds
  <2> QED BY Zenon, <1>1, <2>1, <2>2 DEF Rounds
<1>5. Filled(r, hd)
  BY Zenon, <1>1 DEF Filled
<1> QED BY ZenonT(60), <1>1, <1>3, <1>4, <1>5 DEF Local

LEMMA AttachedTakes ==
  ASSUME NEW me \in Loader, NEW fd \in Int, me.i <= Len(me.fds)
  PROVE  /\ Takes(me, Attached(me, fd), fd)
         /\ Attached(me, fd).have_map_in_map = me.have_map_in_map /\ Attached(me, fd).made = me.made
<1> DEFINE r == Attached(me, fd)
<1>1. me.fds \in Seq(Int) /\ me.i \in Nat \ {0} /\ Len(me.fds) \in Nat
  BY ZenonT(60), LenProperties DEF Loader
<1>2. [me.fds EXCEPT ![me.i] = fd] \in Seq(Int) /\ Len([me.fds EXCEPT ![me.i] = fd]) = Len(me.fds)
      /\ \A j \in 1..Len(me.fds) : [me.fds EXCEPT ![me.i] = fd][j] = IF j = me.i THEN fd ELSE me.fds[j]
  BY <1>1, ExceptSeq
<1>3. /\ r.obj = me.obj /\ r.section = me.section /\ r.i = me.i + 1 /\ r.round = me.round /\ r.done = me.done
      /\ r.pc = "probe" /\ r.after = me.after /\ r.have_map_in_map = me.have_map_in_map /\ r.made = me.made
      /\ r.fds = [me.fds EXCEPT ![me.i] = fd]
  BY Zenon DEF Attached, Loader
<1>4. r \in Loader
  <2>1. me.i + 1 \in Nat \ {0} /\ "probe" \in Pcs
    BY SMTT(60), <1>1 DEF Pcs
  <2> QED BY Zenon, <1>2, <2>1 DEF Attached, Loader
<1> HIDE DEF r
<1>5. Takes(me, r, fd)
  BY SMTT(60), <1>1, <1>2, <1>3, <1>4 DEF Takes
<1> QED BY Zenon, <1>3, <1>5 DEF r

LEMMA TakeMoves ==
  ASSUME NEW l \in Loaders, NEW r, NEW fd \in Int, Set(l, r), loader[l].pc \in {"probe", "create"},
         Takes(loader[l], r, fd), Local(r, kinds', held'), Kernel', Grows(kinds, held, kinds', held'),
         \A p \in DOMAIN fs : p \in DOMAIN fs' /\ fs'[p] = fs[p], fs' = fs \/ loader[l].pc = "create",
         ~bpf_no_pinning(MapAt(l).pinning) /\ fd > 0 =>
           \/ PathAt(l) \in DOMAIN fs' /\ fs'[PathAt(l)] = fd
           \/ loader[l].pc = "create" /\ PathAt(l) \in DOMAIN fs
  PROVE  Moves(l, r)
<1> DEFINE me == loader[l]
<1>1. r.obj = me.obj /\ r.pc = "probe" /\ r.after = me.after /\ Len(r.fds) = Len(me.fds) /\ r.fds[me.i] = fd
      /\ \A j \in 1..Len(me.fds) : j # me.i => r.fds[j] = me.fds[j]
  BY Zenon DEF Takes
<1>2. PathOf(r, me.i) = PathAt(l) /\ r.obj.maps[me.i] = MapAt(l)
  BY Zenon, <1>1 DEF PathOf, PathAt, MapAt
<1>3. Shares(me, r)
  BY ZenonT(60), <1>1, <1>2 DEF Shares
<1> QED BY Zenon, <1>1, <1>3 DEF Moves

LEMMA AttachMoves ==
  ASSUME BpfInv, NEW l \in Loaders, bpf_map_attach(l)
  PROVE  \E r : Moves(l, r)
<1> DEFINE me == loader[l]
           fd == fs[PathAt(l)]
<1>1. me.pc = "probe" /\ me.i <= Len(me.obj.maps)
  BY Zenon DEF bpf_map_attach, Probing
<1>2. Runs(me) /\ me \in Loader /\ Maps(me, kinds) /\ Rounds(me) /\ Filled(me, held)
  BY Zenon, <1>1 DEF BpfInv, Local, Runs
<1>3. me.i \in Nat \ {0} /\ me.i <= Len(me.fds) /\ me.round \in {1, 2} /\ Len(me.fds) \in Nat
  BY Zenon, <1>1, <1>2, RunFacts
<1>4. kinds \in Seq(Specs) /\ Kernel /\ Len(kinds) \in Nat
  BY ZenonT(60), LenProperties DEF BpfInv, Kernel
<1>5. ASSUME UNCHANGED <<fs, kinds, held>>
      PROVE  /\ Kernel' /\ Grows(kinds, held, kinds', held') /\ fs' = fs /\ kinds' = kinds /\ held' = held
             /\ \A p \in DOMAIN fs : p \in DOMAIN fs' /\ fs'[p] = fs[p]
  BY <1>4, <1>5 DEF Kernel, Grows
<1>6. CASE LoadFails(l)
  BY Zenon, <1>1, <1>6, FailsMoves
<1>7. CASE /\ bpf_probe_pinned(me.obj, MapAt(l)) /\ bpf_map_selfcheck_pinned(fd, MapAt(l))
           /\ Set(l, Attached(me, fd)) /\ UNCHANGED <<fs, kinds, held>>
  <2>1. PathAt(l) \in DOMAIN fs
    BY ZenonT(60), <1>7 DEF bpf_probe_pinned, PathAt
  <2>2. fd \in 1..Len(kinds) /\ fd \in Int /\ kinds[fd] = MapAt(l).spec
    BY SMTT(60), <1>4, <1>7, <2>1 DEF Kernel, bpf_map_selfcheck_pinned
  <2> HIDE DEF fd
  <2>3. /\ Takes(me, Attached(me, fd), fd)
        /\ Attached(me, fd).have_map_in_map = me.have_map_in_map /\ Attached(me, fd).made = me.made
    BY ZenonT(60), <1>2, <1>3, <2>2, AttachedTakes
  <2>4. fd # -1
    BY <2>2
  <2>5. Local(Attached(me, fd), kinds, held)
    BY ZenonT(60), <1>1, <1>2, <1>3, <1>4, <2>2, <2>3, <2>4, TakesLocal DEF MapAt
  <2>6. PathAt(l) \in DOMAIN fs' /\ fs'[PathAt(l)] = fd
    BY ZenonT(60), <1>5, <1>7, <2>1 DEF fd
  <2> QED BY ZenonT(60), <1>1, <1>5, <1>7, <2>2, <2>3, <2>5, <2>6, TakeMoves
<1>8. CASE /\ ~SecondRound(l)
           /\ Set(l, [Attached(me, -1) EXCEPT !.have_map_in_map = TRUE]) /\ UNCHANGED <<fs, kinds, held>>
  <2> DEFINE a == Attached(me, -1)
             r == [a EXCEPT !.have_map_in_map = TRUE]
  <2>1. Takes(me, a, -1) /\ a.made = me.made
    BY <1>2, <1>3, AttachedTakes
  <2> HIDE DEF a
  <2>2. a \in Loader
    BY Zenon, <2>1 DEF Takes
  <2>3. r \in Loader /\ r.obj = a.obj /\ r.i = a.i /\ r.round = a.round /\ r.done = a.done /\ r.pc = a.pc
        /\ r.after = a.after /\ r.fds = a.fds /\ r.made = a.made /\ r.have_map_in_map = TRUE
    BY Zenon, <2>2 DEF Loader
  <2>4. Set(l, r)
    BY Zenon, <1>8 DEF a
  <2> HIDE DEF r
  <2>5. Takes(me, r, -1) /\ r.made = me.made
    BY ZenonT(60), <2>1, <2>3 DEF Takes
  <2>6. me.round = 1
    BY ZenonT(60), <1>3, <1>8 DEF SecondRound
  <2>7. Local(r, kinds, held)
    BY SMTT(60), <1>1, <1>2, <1>3, <1>4, <2>3, <2>5, <2>6, TakesLocal
  <2>8. /\ Local(r, kinds', held') /\ Kernel' /\ Grows(kinds, held, kinds', held') /\ fs' = fs
        /\ \A p \in DOMAIN fs : p \in DOMAIN fs' /\ fs'[p] = fs[p]
    BY ZenonT(60), <1>5, <1>8, <2>7
  <2>9. PICK fd2 \in Int : fd2 = -1
    OBVIOUS
  <2>10. Takes(me, r, fd2) /\ ~(fd2 > 0)
    BY <2>5, <2>9
  <2>11. Moves(l, r)
    BY ZenonT(60), <1>1, <2>4, <2>8, <2>10, TakeMoves
  <2> QED BY ZenonT(60), <2>11
<1>9. CASE /\ ~bpf_probe_pinned(me.obj, MapAt(l)) /\ (bpf_is_map_in_map_type(MapAt(l)) => SecondRound(l))
           /\ Set(l, [me EXCEPT !.pc = "create"]) /\ UNCHANGED <<fs, kinds, held>>
  <2> DEFINE r == [me EXCEPT !.pc = "create"]
  <2>1. /\ r \in Loader /\ r.pc = "create" /\ r.obj = me.obj /\ r.i = me.i /\ r.round = me.round /\ r.fds = me.fds
        /\ r.have_map_in_map = me.have_map_in_map /\ r.after = me.after /\ r.done = me.done /\ Maps(r, kinds)
    BY ZenonT(60), <1>2, PcChange DEF Pcs
  <2>2. Set(l, r)
    BY Zenon, <1>9
  <2> HIDE DEF r
  <2>3. Rounds(r)
    BY Zenon, <1>1, <1>2, <1>9, <2>1 DEF Rounds, MapAt, SecondRound
  <2>4. Runs(r)
    BY Zenon, <1>1, <1>2, <2>1, <2>3 DEF Runs, Filled
  <2>5. bpf_no_pinning(r.obj.maps[r.i].pinning) \/ PathOf(r, r.i) \notin DOMAIN fs
    BY Zenon, <1>9, <2>1 DEF bpf_probe_pinned, PathOf, MapAt
  <2> QED BY ZenonT(60), <1>1, <1>9, <2>1, <2>2, <2>4, <2>5, QuietMoves
<1> QED BY ZenonT(60), <1>6, <1>7, <1>8, <1>9 DEF bpf_map_attach

LEMMA CreateMoves ==
  ASSUME BpfInv, NEW l \in Loaders, bpf_map_create(l)
  PROVE  \E r : Moves(l, r)
<1> DEFINE me == loader[l]
           fd == Len(kinds) + 1
           a == Attached(me, fd)
           r == [a EXCEPT !.made = @ \cup {fd}]
<1>1. me.pc = "create"
  BY Zenon DEF bpf_map_create
<1>2. CASE LoadFails(l)
  BY Zenon, <1>1, <1>2, FailsMoves
<1>3. CASE /\ Set(l, r) /\ kinds' = Append(kinds, MapAt(l).spec)
           /\ held' = Put(held, fd, <<>>) /\ bpf_place_pinned(l, fd)
  <2>1. Runs(me) /\ me \in Loader /\ Rounds(me)
    BY Zenon, <1>1 DEF BpfInv, Local, Runs
  <2>2. me.i \in Nat \ {0} /\ me.i <= Len(me.fds) /\ me.round \in {1, 2} /\ Len(me.fds) \in Nat /\ me.obj \in Objects
        /\ Len(me.fds) = Len(me.obj.maps)
    BY ZenonT(60), <1>1, <2>1, RunFacts DEF Rounds
  <2>3. MapAt(l).spec \in Specs
    BY SMTT(60), <2>2, ObjectFacts DEF MapAt
  <2>4. kinds \in Seq(Specs) /\ Kernel /\ Len(kinds) \in Nat
    BY Zenon, LenProperties DEF BpfInv, Kernel
  <2>5. /\ kinds' \in Seq(Specs) /\ Len(kinds') = fd /\ kinds'[fd] = MapAt(l).spec
        /\ \A k \in 1..Len(kinds) : kinds'[k] = kinds[k]
    BY <1>3, <2>3, <2>4, AppendProperties
  <2>6. fd \in Nat /\ fd > 0 /\ Len(kinds) < fd /\ Len(kinds) \in Nat /\ 1..fd = 1..Len(kinds) \cup {fd}
    BY <2>4
  <2> HIDE DEF fd
  <2>7. DOMAIN held' = 1..fd /\ \A k \in 1..Len(kinds) : held'[k] = held[k]
    BY SMTT(60), <1>3, <2>4, <2>6 DEF Kernel, Put
  <2>8. Grows(kinds, held, kinds', held')
    BY <2>5, <2>6, <2>7 DEF Grows
  <2>9. /\ \A p \in DOMAIN fs : p \in DOMAIN fs' /\ fs'[p] = fs[p]
        /\ \A p \in DOMAIN fs' : p \in DOMAIN fs \/ fs'[p] = fd
        /\ ~bpf_no_pinning(MapAt(l).pinning) =>
             (PathAt(l) \in DOMAIN fs' /\ fs'[PathAt(l)] = fd) \/ PathAt(l) \in DOMAIN fs
    BY Zenon, <1>3 DEF bpf_place_pinned, Put
  <2>10. Kernel'
    <3>1. \A p \in DOMAIN fs' : fs'[p] \in 1..fd
      BY Zenon, <2>4, <2>6, <2>9 DEF Kernel
    <3> QED BY Zenon, <2>5, <2>7, <3>1 DEF Kernel
  <2>11. Local(me, kinds', held')
    <3>1. Local(me, kinds, held)
      BY Zenon DEF BpfInv
    <3> QED BY ZenonT(60), <2>4, <2>5, <2>8, <3>1, LocalGrows
  <2>12. Maps(me, kinds') /\ Filled(me, held')
    BY ZenonT(60), <1>1, <2>11 DEF Local
  <2>13. Takes(me, a, fd) /\ a.have_map_in_map = me.have_map_in_map /\ a.made = me.made /\ a \in Loader
    BY SMTT(60), <2>1, <2>2, <2>6, AttachedTakes DEF Takes
  <2> HIDE DEF a
  <2>14. r \in Loader /\ r.obj = a.obj /\ r.i = a.i /\ r.round = a.round /\ r.done = a.done /\ r.pc = a.pc
         /\ r.after = a.after /\ r.fds = a.fds /\ r.made = a.made \cup {fd} /\ r.have_map_in_map = a.have_map_in_map
    BY Zenon, <2>6, <2>13 DEF Loader
  <2>15. Set(l, r)
    BY Zenon, <1>3
  <2> HIDE DEF r
  <2>16. Takes(me, r, fd)
    BY Zenon, <2>13, <2>14 DEF Takes
  <2>17. kinds'[fd][1] = "maps" => r.have_map_in_map
    BY Zenon, <1>1, <2>1, <2>5, <2>13, <2>14 DEF Rounds, bpf_is_map_in_map_type, MapAt
  <2>18. fd \in Int /\ fd # -1 /\ fd \in 1..Len(kinds')
    BY <2>5, <2>6
  <2>19. Local(r, kinds', held')
    BY ZenonT(60), <1>1, <2>1, <2>2, <2>5, <2>12, <2>13, <2>14, <2>16, <2>17, <2>18, TakesLocal DEF MapAt
  <2> QED BY ZenonT(60), <1>1, <2>8, <2>9, <2>10, <2>15, <2>16, <2>18, <2>19, TakeMoves
<1> QED BY Zenon, <1>2, <1>3 DEF bpf_map_create

LEMMA UpdateMoves ==
  ASSUME BpfInv, NEW l \in Loaders, bpf_map_update(l)
  PROVE  \E r : Moves(l, r)
<1> DEFINE me == loader[l]
<1>1. me.pc = "fill"
  BY Zenon DEF bpf_map_update
<1>2. Runs(me) /\ me \in Loader /\ Maps(me, kinds) /\ Rounds(me) /\ Filled(me, held)
  BY Zenon, <1>1 DEF BpfInv, Local, Runs
<1>3. CASE LoadFails(l)
  BY Zenon, <1>1, <1>3, FailsMoves
<1>4. CASE Todo(me) = {} /\ Set(l, [me EXCEPT !.pc = "loaded"]) /\ UNCHANGED <<fs, kinds, held>>
  <2> DEFINE r == [me EXCEPT !.pc = "loaded"]
  <2>1. /\ r \in Loader /\ r.pc = "loaded" /\ r.obj = me.obj /\ r.i = me.i /\ r.round = me.round /\ r.fds = me.fds
        /\ r.have_map_in_map = me.have_map_in_map /\ r.after = me.after /\ r.done = me.done /\ r.section = me.section
        /\ Maps(r, kinds) /\ \A u : KeyOf(r, u) = KeyOf(me, u)
    BY ZenonT(60), <1>2, PcChange DEF Pcs
  <2>2. Set(l, r)
    BY Zenon, <1>4
  <2> HIDE DEF r
  <2>3. Todo(r) = {}
    <3>1. InnerMaps(r) = InnerMaps(me)
      BY ZenonT(60), <2>1 DEF InnerMaps
    <3>2. \A id : bpf_find_map_by_id(r, id) = bpf_find_map_by_id(me, id)
      BY ZenonT(60), <2>1 DEF bpf_find_map_by_id
    <3>3. Sections(r, {r.section}) = Sections(me, {me.section})
      BY ZenonT(60), <2>1, <3>2 DEF Sections
    <3> QED BY Zenon, <1>4, <2>1, <3>1, <3>3, Zenon DEF Todo, bpf_fill_prog_arrays
  <2>4. Rounds(r)
    BY ZenonT(60), <1>1, <1>2, <2>1 DEF Rounds
  <2>5. Filled(r, held)
    BY ZenonT(60), <1>1, <1>2, <2>1, <2>3 DEF Filled
  <2>6. Runs(r)
    BY Zenon, <2>1, <2>4, <2>5 DEF Runs
  <2> QED BY Zenon, <1>1, <1>4, <2>1, <2>2, <2>6, QuietMoves
<1>5. ASSUME NEW u \in Todo(me),
             held' = [held EXCEPT ![me.fds[u[3]]] = Put(@, KeyOf(me, u), ValueOf(me, u))],
             Set(l, [me EXCEPT !.done = @ \cup {u}]), UNCHANGED <<fs, kinds>>
      PROVE  \E r : Moves(l, r)
  <2> DEFINE fd == me.fds[u[3]]
             r == [me EXCEPT !.done = @ \cup {u}]
  <2>1. u \in Nat \X Nat \X Nat /\ u[3] \in 1..Len(me.fds)
    <3>1. DOMAIN me.obj.maps = 1..Len(me.fds) /\ Len(me.fds) \in Nat /\ DOMAIN me.obj.sections \subseteq Nat
      BY ZenonT(60), <1>2, RunFacts, ObjectFacts
    <3>2. CASE u \in InnerMaps(me)
      BY SMTT(60), <3>1, <3>2 DEF InnerMaps
    <3>3. CASE u \in Sections(me, {me.section})
      BY SMTT(60), <3>1, <3>3 DEF Sections
    <3> QED BY Zenon, <3>2, <3>3 DEF Todo, bpf_fill_prog_arrays
  <2>2. fd \in 1..Len(kinds) /\ Len(kinds) \in Nat
    <3>1. fd > 0
      BY ZenonT(60), <1>1, <1>2, <2>1 DEF Rounds
    <3>2. fd \in {-1, 0} \cup 1..Len(kinds) /\ Len(kinds) \in Nat
      BY ZenonT(60), <1>2, <2>1, LenProperties DEF Maps, BpfInv, Kernel
    <3> QED BY <3>1, <3>2
  <2>3. DOMAIN held = 1..Len(kinds)
    BY Zenon DEF BpfInv, Kernel
  <2>4. /\ DOMAIN held' = 1..Len(kinds) /\ KeyOf(me, u) \in DOMAIN held'[fd]
        /\ \A k \in 1..Len(kinds) : DOMAIN held[k] \subseteq DOMAIN held'[k]
    BY ZenonT(60), <1>5, <2>2, <2>3 DEF Put
  <2>5. Kernel' /\ Grows(kinds, held, kinds', held') /\ \A p \in DOMAIN fs : p \in DOMAIN fs' /\ fs'[p] = fs[p]
    BY <1>5, <2>2, <2>4 DEF BpfInv, Kernel, Grows
  <2>6. r \in Loader /\ r.pc = me.pc /\ r.obj = me.obj /\ r.i = me.i /\ r.round = me.round /\ r.fds = me.fds
        /\ r.have_map_in_map = me.have_map_in_map /\ r.made = me.made /\ r.after = me.after /\ r.done = me.done \cup {u}
    BY Zenon, <1>2, <2>1 DEF Loader
  <2>7. Set(l, r)
    BY Zenon, <1>5
  <2> HIDE DEF r
  <2>8. Maps(r, kinds') /\ Rounds(r)
    BY ZenonT(60), <1>1, <1>2, <1>5, <2>6 DEF Maps, Rounds
  <2>9. Filled(r, held')
    <3>1. Local(me, kinds', held')
      <4>1. Local(me, kinds, held) /\ kinds \in Seq(Specs) /\ kinds' \in Seq(Specs)
        BY Zenon, <2>5 DEF BpfInv, Kernel
      <4> QED BY Zenon, <2>5, <4>1, LocalGrows
    <3>2. Filled(me, held')
      BY Zenon, <1>1, <3>1 DEF Local
    <3>3. \A v : KeyOf(r, v) = KeyOf(me, v)
      BY Zenon, <2>6 DEF KeyOf
    <3> QED BY SMTT(60), <1>1, <2>1, <2>4, <2>6, <3>2, <3>3 DEF Filled
  <2>10. Shares(me, r)
    BY Zenon, <1>1, <2>6 DEF Shares
  <2>11. Local(r, kinds', held') /\ r.pc # "idle"
    BY ZenonT(60), <1>1, <2>6, <2>8, <2>9 DEF Local
  <2>12. Moves(l, r)
    BY ZenonT(60), <1>1, <1>5, <2>5, <2>6, <2>7, <2>10, <2>11 DEF Moves
  <2> QED BY Zenon, <2>12
<1> QED BY Zenon, <1>3, <1>4, <1>5 DEF bpf_map_update

LEMMA OpenMoves ==
  ASSUME BpfInv, NEW l \in Loaders, bpf_obj_open(l)
  PROVE  \E r : Moves(l, r)
<1>1. loader[l].pc = "idle" /\ UNCHANGED <<fs, kinds, held>>
  BY Zenon DEF bpf_obj_open
<1>2. PICK obj \in Objects : \E section \in DOMAIN obj.sections :
        Set(l, [obj |-> obj, section |-> section, pc |-> "probe", i |-> 1, round |-> 1, done |-> {},
                fds |-> [i \in DOMAIN obj.maps |-> 0], have_map_in_map |-> FALSE, made |-> {}, after |-> Finished])
  BY Zenon DEF bpf_obj_open
<1>3. PICK section \in DOMAIN obj.sections :
        Set(l, [obj |-> obj, section |-> section, pc |-> "probe", i |-> 1, round |-> 1, done |-> {},
                fds |-> [i \in DOMAIN obj.maps |-> 0], have_map_in_map |-> FALSE, made |-> {}, after |-> Finished])
  BY Zenon, <1>2
<1> DEFINE f == [i \in DOMAIN obj.maps |-> 0]
           r == [obj |-> obj, section |-> section, pc |-> "probe", i |-> 1, round |-> 1, done |-> {},
                 fds |-> f, have_map_in_map |-> FALSE, made |-> {}, after |-> Finished]
<1>4. DOMAIN obj.maps = 1..Len(obj.maps) /\ Len(obj.maps) \in Nat /\ section \in Nat
  BY Zenon, ObjectFacts
<1>5. f \in Seq(Int) /\ Len(f) = Len(obj.maps) /\ \A j \in 1..Len(f) : f[j] = 0
  <2>1. f \in [1..Len(obj.maps) -> Int]
    BY <1>4
  <2>2. f \in Seq(Int) /\ Len(f) = Len(obj.maps)
    BY <1>4, <2>1, SeqDef, LenProperties
  <2> QED BY ZenonT(60), <1>4, <2>2
<1>6. Set(l, r)
  BY Zenon, <1>3
<1> HIDE DEF f
<1>7. r \in Loader
  <2>1. 1 \in Nat \ {0} /\ "probe" \in Pcs /\ Finished \subseteq Loaders
    BY SMTT(60) DEF Pcs, Finished
  <2> QED BY ZenonT(60), <1>4, <1>5, <2>1 DEF Loader
<1>8. r.obj = obj /\ r.pc = "probe" /\ r.i = 1 /\ r.round = 1 /\ r.done = {} /\ r.fds = f /\ r.made = {} /\ r.after = Finished
  OBVIOUS
<1> HIDE DEF r
<1>9. Maps(r, kinds) /\ Rounds(r) /\ Filled(r, held)
  BY SMTT(60), <1>5, <1>8 DEF Maps, Rounds, Filled
<1>10. Kernel' /\ Grows(kinds, held, kinds', held') /\ \A p \in DOMAIN fs : p \in DOMAIN fs' /\ fs'[p] = fs[p]
  <2>1. Kernel' /\ Len(kinds) \in Nat
    BY ZenonT(60), <1>1, LenProperties DEF BpfInv, Kernel
  <2> QED BY <1>1, <2>1 DEF Grows
<1>11. \A j \in 1..Len(r.fds) : ~(r.fds[j] > 0)
  BY <1>5, <1>8
<1>12. Shares(loader[l], r)
  BY Zenon, <1>8, <1>11 DEF Shares
<1>13. Moves(l, r)
  BY ZenonT(60), <1>1, <1>6, <1>7, <1>8, <1>9, <1>10, <1>11, <1>12 DEF Moves, Local
<1> QED BY Zenon, <1>13

-----------------------------------------------------------------------------
LEMMA BpfInitInv == BpfInit => BpfInv
<1> SUFFICES ASSUME BpfInit PROVE BpfInv
  OBVIOUS
<1>1. kinds \in Seq(Specs) /\ Len(kinds) = 0 /\ DOMAIN held = 1..0 /\ DOMAIN fs = {}
  BY EmptySeq DEF BpfInit
<1>2. DOMAIN loader = Loaders /\ \A l \in Loaders : loader[l].pc = "idle"
  BY Zenon DEF BpfInit
<1> QED BY ZenonT(60), <1>1, <1>2 DEF BpfInv, Kernel, AfterEnd, Shared, Local

LEMMA BpfStepInv == BpfInv /\ [BpfNext]_bpfVars => BpfInv'
<1> SUFFICES ASSUME BpfInv, [BpfNext]_bpfVars PROVE BpfInv'
  OBVIOUS
<1>1. CASE UNCHANGED bpfVars
  <2>1. fs' = fs /\ kinds' = kinds /\ held' = held /\ loader' = loader
    BY Zenon, <1>1 DEF bpfVars
  <2>2. /\ Finished' = Finished
        /\ \A l, j : (Pinned(l, j)' <=> Pinned(l, j)) /\ Path(l, j)' = Path(l, j) /\ (Apart(l, j)' <=> Apart(l, j))
    BY Zenon, <2>1 DEF Finished, Pinned, Path, Apart
  <2>3. \A l : Sole(l)' <=> Sole(l)
    BY Zenon, <2>2 DEF Sole
  <2>4. \A l, p : Old(l, p)' <=> Old(l, p)
    BY ZenonT(60), <2>1, <2>2, <2>3 DEF Old
  <2>5. \A l, p : Steady(l, p)' <=> Steady(l, p)
    BY Zenon, <2>3, <2>4 DEF Steady
  <2>6. Kernel'
    BY Zenon, <2>1 DEF BpfInv, Kernel
  <2>7. AfterEnd'
    BY Zenon, <2>1, <2>2 DEF BpfInv, AfterEnd
  <2>8. Shared'
    BY ZenonT(60), <2>1, <2>2, <2>5 DEF BpfInv, Shared
  <2> QED BY Zenon, <2>1, <2>6, <2>7, <2>8 DEF BpfInv
<1>2. ASSUME NEW l \in Loaders,
             \/ bpf_obj_open(l) \/ PassOverMap(l) \/ bpf_map_attach(l) \/ bpf_map_create(l)
             \/ bpf_second_round(l) \/ bpf_map_update(l)
      PROVE  BpfInv'
  <2>1. \E r : Moves(l, r)
    BY ZenonT(60), <1>2, OpenMoves, PassMoves, AttachMoves, CreateMoves, RoundMoves, UpdateMoves
  <2> QED BY Zenon, <2>1, MovesInv
<1> QED BY ZenonT(40), <1>1, <1>2 DEF BpfNext

\* lib/bpf.c: through any number of overlapping loads of any objects the maps
\* that a command has attached are kernel maps made as its object declares,
\* and what a lone command pinned stays where it is.
THEOREM BpfInvariance == BpfSpec => []BpfInv
BY BpfInitInv, BpfStepInv, PTL DEF BpfSpec

LEMMA BpfSharedFollows == BpfInv => BpfMapsShared
<1> SUFFICES ASSUME BpfInv, NEW m \in Loaders, loader[m].pc = "loaded", NEW l \in loader[m].after, loader[l].pc = "loaded",
                    \A k \in Loaders \ {l} : Apart(k, l),
                    NEW i \in DOMAIN loader[l].obj.maps, NEW j \in DOMAIN loader[m].obj.maps,
                    ~bpf_no_pinning(loader[l].obj.maps[i].pinning), ~bpf_no_pinning(loader[m].obj.maps[j].pinning),
                    bpf_make_pathname(loader[l].obj, loader[l].obj.maps[i])
                      = bpf_make_pathname(loader[m].obj, loader[m].obj.maps[j])
             PROVE  loader[l].fds[i] = loader[m].fds[j] /\ kinds[loader[m].fds[j]] = loader[m].obj.maps[j].spec
  BY ZenonT(60) DEF BpfMapsShared
<1>1. Runs(loader[m]) /\ loader[m].after \subseteq Loaders
  BY Zenon DEF BpfInv, Local, Runs, Loader
<1>2. l \in Loaders /\ Runs(loader[l])
  BY Zenon, <1>1 DEF BpfInv, Local, Runs
<1>3. i \in 1..Len(loader[l].fds) /\ j \in 1..Len(loader[m].fds)
  BY Zenon, <1>1, <1>2, RunFacts
<1>4. loader[l].fds[i] > 0 /\ loader[m].fds[j] > 0
  BY Zenon, <1>1, <1>2, <1>3 DEF Runs, Rounds
<1>5. Pinned(l, i) /\ Pinned(m, j) /\ Path(l, i) = Path(m, j)
  BY Zenon, <1>3 DEF Pinned, Path
<1>6. Sole(l)
  BY Zenon DEF Sole
<1>7. Old(m, Path(m, j))
  BY Zenon, <1>3, <1>5, <1>6 DEF Old
<1>8. fs[Path(l, i)] = loader[l].fds[i] /\ fs[Path(m, j)] = loader[m].fds[j]
  BY ZenonT(60), <1>2, <1>3, <1>4, <1>5, <1>6, <1>7 DEF BpfInv, Shared, Steady
<1>9. kinds[loader[m].fds[j]] = loader[m].obj.maps[j].spec
  BY Zenon, <1>1, <1>3, <1>4 DEF Runs, Maps
<1> QED BY Zenon, <1>5, <1>8, <1>9

\* A command that begins after another one has loaded its object alone shares
\* every map that both pin at one path, and the map is what its own object
\* declares: bpf_map_attach(), for any commands and any objects.
THEOREM BpfMapsSharedHolds == BpfSpec => []BpfMapsShared
BY BpfInvariance, BpfSharedFollows, PTL

LEMMA BpfFilledFollows == BpfInv => BpfTablesFilled
<1> SUFFICES ASSUME BpfInv, NEW l \in Loaders, loader[l].pc = "loaded"
             PROVE  LET me == loader[l]
                        maps == me.obj.maps
                    IN /\ \A i, j \in DOMAIN maps :
                            /\ me.fds[j] \in me.made /\ bpf_is_map_in_map_type(maps[j]) /\ maps[j].inner_id = maps[i].id
                            /\ maps[i].id # 0 /\ maps[i].inner_id = 0 /\ maps[i].inner_idx # -1
                            => maps[i].inner_idx \in DOMAIN held[me.fds[j]]
                       /\ \A k \in DOMAIN me.obj.sections \ {me.section} : \A i \in DOMAIN maps :
                            /\ maps[i].spec[1] = "progs" /\ me.obj.sections[k] # <<>> /\ me.obj.sections[k][1] = maps[i].id
                            /\ \A h \in DOMAIN maps : maps[h].id = maps[i].id => h = i
                            => me.obj.sections[k][2] \in DOMAIN held[me.fds[i]]
  BY Zenon DEF BpfTablesFilled
<1> DEFINE me == loader[l]
           maps == me.obj.maps
<1>1. Runs(me)
  BY Zenon DEF BpfInv, Local, Runs
<1>2. DOMAIN maps = 1..Len(me.fds) /\ Len(me.fds) \in Nat
  BY Zenon, <1>1, RunFacts
<1>3. Todo(me) = {} /\ \A u \in me.done : KeyOf(me, u) \in DOMAIN held[me.fds[u[3]]]
  BY Zenon, <1>1 DEF Runs, Filled
<1>4. ASSUME NEW i \in DOMAIN maps, NEW j \in DOMAIN maps,
             me.fds[j] \in me.made, bpf_is_map_in_map_type(maps[j]), maps[j].inner_id = maps[i].id,
             maps[i].id # 0, maps[i].inner_id = 0, maps[i].inner_idx # -1
      PROVE  maps[i].inner_idx \in DOMAIN held[me.fds[j]]
  <2> DEFINE u == <<1, i, j>>
  <2>1. kinds[me.fds[j]] = maps[j].spec
    <3>1. me.fds[j] > 0
      BY Zenon, <1>1, <1>2 DEF Runs, Rounds
    <3> QED BY Zenon, <1>1, <1>2, <3>1 DEF Runs, Maps
  <2>2. me.have_map_in_map
    BY ZenonT(60), <1>1, <1>4, <2>1 DEF Runs, Maps, bpf_is_map_in_map_type
  <2>3. u \in {1} \X (DOMAIN maps) \X (DOMAIN maps) /\ u[1] = 1 /\ u[2] = i /\ u[3] = j
    OBVIOUS
  <2> HIDE DEF u
  <2>4. u \in InnerMaps(me)
    BY Zenon, <1>4, <2>2, <2>3 DEF InnerMaps
  <2>5. u \in me.done
    BY ZenonT(60), <1>3, <2>4 DEF Todo
  <2> QED BY Zenon, <1>3, <2>3, <2>5 DEF KeyOf
<1>5. ASSUME NEW k \in DOMAIN me.obj.sections \ {me.section}, NEW i \in DOMAIN maps,
             maps[i].spec[1] = "progs", me.obj.sections[k] # <<>>, me.obj.sections[k][1] = maps[i].id,
             \A h \in DOMAIN maps : maps[h].id = maps[i].id => h = i
      PROVE  me.obj.sections[k][2] \in DOMAIN held[me.fds[i]]
  <2> DEFINE u == <<2, k, i>>
  <2>1. u \in {2} \X (DOMAIN me.obj.sections \ {me.section}) \X (DOMAIN maps) /\ u[1] = 2 /\ u[2] = k /\ u[3] = i
    OBVIOUS
  <2>2. i \in bpf_find_map_by_id(me, maps[i].id)
    <3>1. \A h \in 1..(i - 1) : h \in DOMAIN maps /\ h # i
      BY <1>2
    <3> QED BY ZenonT(60), <1>5, <3>1 DEF bpf_find_map_by_id
  <2> HIDE DEF u
  <2>3. u \in bpf_fill_prog_arrays(me)
    BY ZenonT(60), <1>5, <2>1, <2>2 DEF bpf_fill_prog_arrays, Sections
  <2>4. u \in me.done
    BY ZenonT(60), <1>3, <2>3 DEF Todo
  <2> QED BY SMTT(60), <1>3, <2>1, <2>4 DEF KeyOf
<1> QED BY Zenon, <1>4, <1>5

\* When a command has loaded its object, each map of maps it created holds the
\* inner maps meant for it, and each array of tail calls a program for every
\* section that names one of its keys: bpf_maps_attach_all() and
\* bpf_fill_prog_arrays(), for any commands and any objects.
THEOREM BpfTablesFilledHolds == BpfSpec => []BpfTablesFilled
BY BpfInvariance, BpfFilledFollows, PTL
=============================================================================
