----------------------------- MODULE NstatProofs -----------------------------
(***************************************************************************)
(* The history file of nstat is accounted for, whatever the number of runs *)
(* at work, of counters and of inodes, and however often runs are killed   *)
(* and the machine reboots.                                                *)
(***************************************************************************)
EXTENDS Nstat, TLAPS

Values == [Counters -> Nat]

(* Where a run holds the lock, has filled hist_db, has read the counters,  *)
(* has displayed them                                                      *)
Locked == {"load", "kernel", "output", "truncate", "write"}
Loaded == {"kernel", "output", "truncate", "write"}
Read == {"output", "truncate", "write"}
Shown == {"truncate", "write"}

Types ==
    /\ val \in Values
    /\ hist \in Files \cup {NoFile}
    /\ content \in [Files -> Values] /\ ledger \in [Files -> Values]
    /\ nlink \in [Files -> {0, 1}]
    /\ aged \in [Files -> BOOLEAN] /\ stale \in [Files -> BOOLEAN]
    /\ lock \in [Files -> Procs \cup {NoProc}]
    /\ pc \in [Procs -> {"idle", "unlink", "open", "flock"} \cup Locked]
    /\ opt \in [Procs -> [reset : BOOLEAN, ignore : BOOLEAN, noupdate : BOOLEAN,
                          nooutput : BOOLEAN, match : SUBSET Counters]]
    /\ fd \in [Procs -> Files \cup {NoFile}]
    /\ db \in [Procs -> [hist : Values, kern : Values]]
    /\ crashes \in Nat

(* One run at a time is between flock and its end on an inode, and the     *)
(* inode that has the name exists.                                         *)
Locks ==
    /\ \A p \in Procs : pc[p] \in Locked => fd[p] \in Files /\ lock[fd[p]] = p
    /\ \A p \in Procs : pc[p] = "flock" => fd[p] \in Files
    /\ \A f \in Files : lock[f] # NoProc => pc[lock[f]] \in Locked /\ fd[lock[f]] = f
    /\ hist # NoFile => nlink[hist] = 1

(* A table has no counter or all of them: no counter is zero after boot.   *)
Whole(h) == h = Empty \/ \A c \in Counters : h[c] # 0

Tables ==
    /\ \A c \in Counters : val[c] # 0
    /\ \A f \in Files : Whole(content[f])
    /\ \A p \in Procs : pc[p] \in Loaded => Whole(db[p].hist)
    /\ \A p \in Procs : pc[p] \in Read =>
        \A c \in Counters : db[p].kern[c] # 0 /\ db[p].kern[c] <= val[c]
    /\ \A p \in Procs : pc[p] \in {"kernel", "output", "truncate"} =>
        db[p].hist = content[fd[p]]

(* An inode a run can still read                                           *)
Live(f) == nlink[f] = 1 \/ \E p \in Procs : fd[p] = f

(* What was recorded since the last boot is not above the counters.        *)
Current ==
    /\ \A f \in Files : Live(f) /\ ~aged[f] /\ ~stale[f] =>
        \A c \in Counters : content[f][c] <= val[c]
    /\ \A p \in Procs : pc[p] \in Loaded /\ ~stale[fd[p]] =>
        \A c \in Counters : db[p].hist[c] <= val[c]
    /\ \A p \in Procs : pc[p] \in Read /\ ~stale[fd[p]] =>
        \A c \in Counters : db[p].hist[c] <= db[p].kern[c]

(* What is recorded, and what a run is about to record, was displayed.     *)
Accounted ==
    /\ \A f \in Files : ~stale[f] => \A c \in Counters : content[f][c] <= ledger[f][c]
    /\ \A p \in Procs : pc[p] \in Shown /\ ~stale[fd[p]] =>
        \A c \in Counters : ToHist(p, c) <= ledger[fd[p]][c]

(* As long as nothing was interrupted, the account is exact.               *)
Exact ==
    crashes = 0 =>
        /\ \A f \in Files : ~aged[f] /\ ~stale[f]
        /\ \A f \in Files : content[f] # Empty /\ ~Writing(f) => content[f] = ledger[f]
        /\ \A p \in Procs : pc[p] \in Shown =>
            \A c \in Counters : ToHist(p, c) = ledger[fd[p]][c]

IInv == Types /\ Locks /\ Tables /\ Current /\ Accounted /\ Exact

-----------------------------------------------------------------------------
LEMMA InitInv == Init => IInv
  <1> SUFFICES ASSUME Init PROVE IInv
    OBVIOUS
  <1>1. Types
    BY Zenon, NstatAssumption DEF Init, Types, Values, Empty, Plain, Locked
  <1>2. Locks
    BY Zenon DEF Init, Locks, Locked
  <1>3. Tables
    BY Zenon, NstatAssumption DEF Init, Tables, Whole, Loaded, Read
  <1>4. Current
    BY NstatAssumption DEF Init, Current, Loaded, Read, Empty
  <1>5. Accounted
    BY DEF Init, Accounted, Shown, Empty
  <1>6. Exact
    BY Zenon DEF Init, Exact, Shown
  <1> QED
    BY Zenon, <1>1, <1>2, <1>3, <1>4, <1>5, <1>6 DEF IInv

(* A run that holds the lock of an inode is alone on it.                   *)
LEMMA Alone ==
    ASSUME IInv, NEW p \in Procs, pc[p] \in Locked
    PROVE  /\ fd[p] \in Files /\ lock[fd[p]] = p /\ Live(fd[p])
           /\ \A q \in Procs : q # p /\ pc[q] \in Locked => fd[q] \in Files /\ fd[q] # fd[p]
  BY Zenon DEF IInv, Locks, Live

(* A run ends without touching the file: the lock is free again.           *)
LEMMA ExitInv ==
    ASSUME IInv, NEW p \in Procs, Exit(p),
           UNCHANGED <<val, hist, content, nlink, aged, ledger, stale>>,
           crashes' = crashes + 1 \/ (crashes' = crashes /\ pc[p] \notin Shown)
    PROVE  IInv'
  <1>1. \A f \in Files : Live(f)' => Live(f)
    BY ZenonT(60), NstatAssumption DEF Live, Exit, IInv, Types
  <1>2. \A q \in Procs : pc'[q] # "idle" =>
         q # p /\ pc'[q] = pc[q] /\ fd'[q] = fd[q] /\ db'[q] = db[q] /\ opt'[q] = opt[q]
    BY Zenon DEF IInv, Types, Exit
  <1>3. Types'
    BY SMTT(60), NstatAssumption, <1>1, <1>2 DEF IInv, Types, Values, Locked, Locks,
      Exit, Empty, Plain
  <1>4. Locks'
    BY NstatAssumption, <1>1, <1>2 DEF IInv, Types, Values, Locks, Locked,
      Exit, Empty, Plain
  <1>5. Tables'
    BY SMTT(60), <1>2 DEF IInv, Tables, Loaded, Read, Types
  <1>6. Current'
    BY ZenonT(60), <1>1, <1>2 DEF IInv, Types, Current, Loaded, Read
  <1>7. Accounted'
    BY NstatAssumption, <1>1, <1>2 DEF IInv, Types, Values, Locks, Locked,
      Accounted, Shown, ToHist, Exit, Empty, Plain
  <1>8. Exact'
    BY NstatAssumption, <1>1, <1>2 DEF IInv, Types, Values, Locks, Locked,
      Exact, Shown, ToHist, Writing, Exit, Empty, Plain
  <1> QED
    BY Zenon, <1>3, <1>4, <1>5, <1>6, <1>7, <1>8 DEF IInv

LEMMA StartInv ==
    ASSUME IInv, NEW p \in Procs, Start(p)
    PROVE  IInv'
  <1>1. \A f \in Files : Live(f)' => Live(f)
    BY Zenon DEF Live, Start
  <1>2. Types'
    BY NstatAssumption, <1>1 DEF IInv, Types, Values, Locked, Locks, Start,
      Goto, Options
  <1>3. Locks'
    BY NstatAssumption, <1>1 DEF IInv, Types, Values, Locks, Locked, Start,
      Goto, Options
  <1>4. Tables'
    BY NstatAssumption, <1>1 DEF IInv, Types, Values, Locks, Locked, Tables,
      Whole, Loaded, Read, Start, Goto, Options
  <1>5. Current'
    BY SMTT(60), NstatAssumption, <1>1 DEF IInv, Types, Values, Locks, Locked, Tables,
      Current, Loaded, Read, Start, Goto
  <1>6. Accounted'
    BY SMTT(60), NstatAssumption, <1>1 DEF IInv, Types, Values, Locks, Locked,
      Accounted, Shown, ToHist, Start, Goto, Options
  <1>7. Exact'
    BY NstatAssumption, <1>1 DEF IInv, Types, Values, Locks, Locked, Exact,
      Shown, ToHist, Writing, Start, Goto, Options
  <1> QED
    BY Zenon, <1>2, <1>3, <1>4, <1>5, <1>6, <1>7 DEF IInv

LEMMA UnlinkInv ==
    ASSUME IInv, NEW p \in Procs, Unlink(p)
    PROVE  IInv'
  <1>1. Types'
    BY ZenonT(60), NstatAssumption DEF IInv, Types, Values, Locked, Locks, Unlink, Goto
  <1>2. Locks'
    BY NstatAssumption DEF IInv, Types, Values, Locks, Locked, Unlink, Goto
  <1>3. Tables'
    BY SMTT(60), NstatAssumption DEF IInv, Types, Values, Locks, Locked, Tables, Whole,
      Loaded, Read, Unlink, Goto
  <1>4. Current'
    BY NstatAssumption DEF IInv, Types, Values, Locks, Locked, Tables,
      Current, Live, Loaded, Read, Unlink, Goto
  <1>5. Accounted'
    BY SMTT(60), NstatAssumption DEF IInv, Types, Values, Locks, Locked, Accounted,
      Shown, ToHist, Unlink, Goto
  <1>6. Exact'
    BY NstatAssumption DEF IInv, Types, Values, Locks, Locked, Exact, Shown,
      ToHist, Writing, Unlink, Goto
  <1> QED
    BY Zenon, <1>1, <1>2, <1>3, <1>4, <1>5, <1>6 DEF IInv

LEMMA FlockInv ==
    ASSUME IInv, NEW p \in Procs, Flock(p)
    PROVE  IInv'
  <1>1. \A f \in Files : Live(f)' => Live(f)
    BY Zenon DEF Live, Flock
  <1>2. Types'
    BY Zenon, NstatAssumption, <1>1 DEF IInv, Types, Values, Locked, Locks, Flock,
      Goto
  <1>3. Locks'
    BY SMTT(60), NstatAssumption, <1>1 DEF IInv, Types, Values, Locks, Locked, Flock,
      Goto
  <1>4. Tables'
    BY SMTT(60), NstatAssumption, <1>1 DEF IInv, Types, Values, Locks, Locked, Tables,
      Whole, Loaded, Read, Flock, Goto
  <1>5. Current'
    BY SMTT(60), NstatAssumption, <1>1 DEF IInv, Types, Values, Locks, Locked, Tables,
      Current, Loaded, Read, Flock, Goto
  <1>6. Accounted'
    BY SMTT(60), NstatAssumption, <1>1 DEF IInv, Types, Values, Locks, Locked,
      Accounted, Shown, ToHist, Flock, Goto
  <1>7. Exact'
    BY NstatAssumption, <1>1 DEF IInv, Types, Values, Locks, Locked, Exact,
      Shown, ToHist, Writing, Flock, Goto
  <1> QED
    BY Zenon, <1>2, <1>3, <1>4, <1>5, <1>6, <1>7 DEF IInv

LEMMA KernelInv ==
    ASSUME IInv, NEW p \in Procs, Kernel(p)
    PROVE  IInv'
  <1>1. \A f \in Files : Live(f)' => Live(f)
    BY Zenon DEF Live, Kernel
  <1>2. [db[p] EXCEPT !.kern = val] = [hist |-> db[p].hist, kern |-> val]
    BY DEF IInv, Types
  <1>3. db' = [db EXCEPT ![p] = [hist |-> db[p].hist, kern |-> val]]
    BY Zenon, <1>2 DEF Kernel
  <1>4. db' \in [Procs -> [hist : Values, kern : Values]]
    BY Zenon, <1>3 DEF IInv, Types
  <1>5. Types'
    BY Zenon, <1>4 DEF IInv, Types, Kernel, Goto, Locked
  <1>6. Locks'
    BY SMTT(60), NstatAssumption, <1>1, <1>2, <1>3, <1>4 DEF IInv, Types, Values, Locks,
      Locked, Kernel, Goto
  <1>7. Tables'
    BY SMTT(60), NstatAssumption, <1>1, <1>2, <1>3, <1>4 DEF IInv, Types, Values, Locks,
      Locked, Tables, Whole, Loaded, Read, Kernel, Goto
  <1>8. Current'
    BY SMTT(60), NstatAssumption, <1>1, <1>3 DEF IInv, Types, Values, Locks, Locked,
      Tables, Current, Loaded, Read, Kernel, Goto
  <1>9. Accounted'
    BY SMTT(60), NstatAssumption, <1>1, <1>2, <1>3, <1>4 DEF IInv, Types, Values, Locks,
      Locked, Accounted, Shown, ToHist, Kernel, Goto
  <1>10. Exact'
    BY NstatAssumption, <1>1, <1>2, <1>3, <1>4 DEF IInv, Types, Values, Locks,
      Locked, Exact, Shown, ToHist, Writing, Kernel, Goto
  <1> QED
    BY Zenon, <1>5, <1>6, <1>7, <1>8, <1>9, <1>10 DEF IInv

LEMMA TruncateInv ==
    ASSUME IInv, NEW p \in Procs, Truncate(p)
    PROVE  IInv'
  <1>1. \A f \in Files : Live(f)' => Live(f)
    BY Zenon DEF Live, Truncate
  <1>2. /\ fd[p] \in Files
        /\ \A q \in Procs : q # p /\ pc[q] \in Locked => fd[q] \in Files /\ fd[q] # fd[p]
    BY Zenon, Alone DEF Truncate, Locked
  <1>3. Types'
    BY ZenonT(60), NstatAssumption, <1>1, <1>2 DEF IInv, Types, Values, Locked, Locks,
      Truncate, Goto, Empty
  <1>4. Locks'
    BY SMTT(60), NstatAssumption, <1>1, <1>2 DEF IInv, Types, Values, Locks, Locked,
      Truncate, Goto, Empty
  <1>5. Tables'
    <2>1. \A f \in Files : content'[f] = Empty \/ content'[f] = content[f]
      BY Zenon, <1>2 DEF Truncate, IInv, Types
    <2>2. \A q \in Procs : pc'[q] \in {"kernel", "output", "truncate"} =>
             pc'[q] = pc[q] /\ content'[fd[q]] = content[fd[q]]
      BY ZenonT(60), <1>2 DEF Truncate, Goto, IInv, Types, Locked
    <2> QED
      BY <2>1, <2>2 DEF Truncate, Goto, IInv, Types, Tables, Whole, Loaded, Read
  <1>6. Current'
    BY SMTT(60), NstatAssumption, <1>1 DEF IInv, Types, Values, Locks, Locked, Tables,
      Current, Loaded, Read, Truncate, Goto, Empty
  <1>7. Accounted'
    BY SMTT(60), NstatAssumption, <1>1, <1>2 DEF IInv, Types, Values, Locks, Locked,
      Accounted, Shown, ToHist, Truncate, Goto, Empty
  <1>8. Exact'
    BY NstatAssumption, <1>1, <1>2 DEF IInv, Types, Values, Locks, Locked,
      Exact, Shown, ToHist, Writing, Truncate, Goto, Empty
  <1> QED
    BY Zenon, <1>3, <1>4, <1>5, <1>6, <1>7, <1>8 DEF IInv

LEMMA OpenInv ==
    ASSUME IInv, NEW p \in Procs, Open(p)
    PROVE  IInv'
  <1>0. /\ pc[p] = "open" /\ pc' = [pc EXCEPT ![p] = "flock"]
        /\ UNCHANGED <<val, lock, opt, db, runs, crashes>>
    BY ZenonT(60) DEF Open, Goto
  <1>1. CASE UNCHANGED <<hist, content, nlink, aged, ledger, stale>>
    <2>1. hist \in Files /\ hist # NoFile /\ fd' = [fd EXCEPT ![p] = hist]
      BY <1>1, NstatAssumption DEF Open, IInv, Types
    <2>2. \A f \in Files : Live(f)' => Live(f)
      BY ZenonT(60), <1>1, <2>1 DEF Live, IInv, Types, Locks
    <2>3. \A q \in Procs : pc'[q] \in Locked => q # p /\ pc'[q] = pc[q] /\ fd'[q] = fd[q]
      BY Zenon, <2>1 DEF Open, Goto, IInv, Types, Locked
    <2>4. Types'
      BY Zenon, <1>1, <2>1 DEF Open, Goto, IInv, Types, Locked
    <2>5. Locks'
      BY SMTT(60), <1>1, <2>1 DEF Open, Goto, IInv, Types, Locks, Locked
    <2>6. Tables'
      BY <1>1, <2>3 DEF Open, IInv, Types, Tables, Locked, Loaded, Read
    <2>7. Current'
      BY Zenon, <1>1, <2>2, <2>3 DEF Open, IInv, Types, Current, Locked, Loaded, Read
    <2>8. Accounted'
      BY ZenonT(60), <1>1, <2>3 DEF Open, IInv, Types, Accounted, Locked, Shown, ToHist
    <2>9. Exact'
      BY <1>1, <2>3 DEF Open, Goto, IInv, Types, Locks, Exact, Writing, Locked, Shown, ToHist
    <2> QED
      BY Zenon, <2>4, <2>5, <2>6, <2>7, <2>8, <2>9 DEF IInv
  <1>2. ASSUME NEW f \in Files, nlink[f] = 0, \A q \in Procs : fd[q] # f,
               fd' = [fd EXCEPT ![p] = f], hist' = f,
               content' = [content EXCEPT ![f] = Empty], nlink' = [nlink EXCEPT ![f] = 1],
               aged' = [aged EXCEPT ![f] = FALSE], ledger' = [ledger EXCEPT ![f] = Empty],
               stale' = [stale EXCEPT ![f] = FALSE]
        PROVE  IInv'
    <2>1. \A g \in Files : g # f /\ Live(g)' => Live(g)
      BY Zenon, <1>2 DEF Live, IInv, Types
    <2>2. \A q \in Procs : pc'[q] \in Locked =>
             /\ q # p /\ pc'[q] = pc[q] /\ fd'[q] = fd[q]
             /\ fd[q] \in Files /\ fd[q] # f
      BY ZenonT(60), <1>0, <1>2 DEF IInv, Types, Locks, Locked
    <2>3. \A g \in Files : g # f => /\ content'[g] = content[g] /\ ledger'[g] = ledger[g]
                                   /\ (aged'[g] <=> aged[g]) /\ (stale'[g] <=> stale[g])
      BY Zenon, <1>2 DEF IInv, Types
    <2>4. Empty \in Values /\ content'[f] = Empty /\ ledger'[f] = Empty /\ ~stale'[f] /\ ~aged'[f]
      BY Zenon, <1>2 DEF IInv, Types, Values, Empty
    <2>5. Types'
      BY ZenonT(60), <1>0, <1>2, <2>4 DEF IInv, Types, Locked
    <2>6. Locks'
      BY SMTT(60), <1>0, <1>2, <2>2 DEF IInv, Types, Locks, Locked
    <2>7. Tables'
      BY SMTT(60), <1>0, <2>2, <2>3, <2>4 DEF IInv, Types, Tables, Whole, Locked, Loaded, Read
    <2>8. Current'
      BY SMTT(60), <1>0, <2>1, <2>2, <2>3, <2>4 DEF IInv, Types, Values, Empty, Current, Locked, Loaded, Read
    <2>9. Accounted'
      <3>1. \A q \in Procs, c \in Counters : ToHist(q, c)' = ToHist(q, c)
        BY Zenon, <1>0 DEF ToHist
      <3>2. \A c \in Counters : content'[f][c] <= ledger'[f][c]
        BY <2>4 DEF Empty
      <3> QED
        BY <2>2, <2>3, <3>1, <3>2 DEF IInv, Accounted, Locked, Shown
    <2>10. Exact'
      <3>1. \A g \in Files : g # f /\ ~Writing(g)' => ~Writing(g)
        BY <1>0 DEF IInv, Types, Locks, Locked, Writing
      <3> QED
        BY SMTT(60), <1>0, <2>2, <2>3, <2>4, <3>1 DEF IInv, Types, Exact, Locked, Shown, ToHist
    <2> QED
      BY Zenon, <2>5, <2>6, <2>7, <2>8, <2>9, <2>10 DEF IInv
  <1> QED
    BY Zenon, <1>1, <1>2 DEF Open

LEMMA LoadInv ==
    ASSUME IInv, NEW p \in Procs, Load(p)
    PROVE  IInv'
  <1> DEFINE f == fd[p]
             out == aged[f] /\ ~opt[p].ignore
  <1>1. CASE nlink[f] # 1
    BY Zenon, <1>1, ExitInv DEF Load, Shown
  <1>2. CASE nlink[f] = 1
    <2>1. /\ f \in Files /\ lock[f] = p /\ Live(f)
          /\ \A q \in Procs : q # p /\ pc[q] \in Locked => fd[q] \in Files /\ fd[q] # f
      BY Zenon, Alone DEF Load, Locked
    <2>2. /\ content' = IF out THEN [content EXCEPT ![f] = Empty] ELSE content
          /\ ledger' = IF out THEN [ledger EXCEPT ![f] = Empty] ELSE ledger
          /\ aged' = IF out THEN [aged EXCEPT ![f] = FALSE] ELSE aged
          /\ stale' = [stale EXCEPT ![f] = (@ \/ aged[f]) /\ ~out]
          /\ db' = [db EXCEPT ![p].hist = content'[f]]
          /\ pc' = [pc EXCEPT ![p] = "kernel"]
          /\ UNCHANGED <<val, hist, nlink, runs, crashes, lock, opt, fd>>
      BY Zenon, <1>2 DEF Load, Goto
    <2>3. /\ Empty \in Values
          /\ content' \in [Files -> Values] /\ ledger' \in [Files -> Values]
          /\ aged' \in [Files -> BOOLEAN] /\ stale' \in [Files -> BOOLEAN]
      BY Zenon, <2>1, <2>2 DEF IInv, Types, Values, Empty
    <2>4. [db[p] EXCEPT !.hist = content'[f]] = [hist |-> content'[f], kern |-> db[p].kern]
      BY DEF IInv, Types
    <2>5. db' = [db EXCEPT ![p] = [hist |-> content'[f], kern |-> db[p].kern]]
      BY Zenon, <2>2, <2>4
    <2>6. db' \in [Procs -> [hist : Values, kern : Values]]
      BY Zenon, <2>1, <2>3, <2>5 DEF IInv, Types
    <2>7. \A g \in Files : g # f => /\ content'[g] = content[g] /\ ledger'[g] = ledger[g]
                                   /\ (aged'[g] <=> aged[g]) /\ (stale'[g] <=> stale[g])
      BY Zenon, <2>1, <2>2 DEF IInv, Types
    <2>8. /\ out => content'[f] = Empty /\ ledger'[f] = Empty /\ ~stale'[f]
          /\ ~out => /\ content'[f] = content[f] /\ ledger'[f] = ledger[f]
                     /\ (aged'[f] <=> aged[f]) /\ (stale'[f] <=> stale[f] \/ aged[f])
      BY Zenon, <2>1, <2>2 DEF IInv, Types
    <2>9. \A q \in Procs : q # p => pc'[q] = pc[q] /\ db'[q] = db[q]
      BY Zenon, <2>2, <2>5 DEF IInv, Types
    <2>10. db'[p].hist = content'[f] /\ pc'[p] = "kernel"
      BY <2>2, <2>5 DEF IInv, Types
    <2>11. Types'
      BY Zenon, <2>2, <2>3, <2>6 DEF IInv, Types, Locked
    <2>12. Locks'
      BY SMTT(60), <2>1, <2>2, <2>9 DEF IInv, Types, Locks, Locked
    <2>13. Tables'
      BY SMTT(60), <2>1, <2>2, <2>7, <2>8, <2>9, <2>10
         DEF IInv, Types, Tables, Whole, Locked, Loaded, Read
    <2>14. Current'
      <3>1. \A g \in Files : Live(g)' => Live(g)
        BY ZenonT(60), <2>2 DEF Live
      <3>2. ~stale'[f] => \A c \in Counters : content'[f][c] <= val[c]
        BY SMTT(60), <2>1, <2>8 DEF IInv, Types, Values, Current, Empty
      <3> QED
        BY <2>1, <2>2, <2>7, <2>9, <2>10, <3>1, <3>2
           DEF IInv, Types, Current, Locked, Loaded, Read
    <2>15. Accounted'
      <3>1. ~stale'[f] => \A c \in Counters : content'[f][c] <= ledger'[f][c]
        BY SMTT(60), <2>1, <2>8 DEF IInv, Types, Values, Accounted, Empty
      <3> QED
        BY SMTT(60), <2>1, <2>2, <2>7, <2>9, <2>10, <3>1
           DEF IInv, Types, Accounted, Locked, Shown, ToHist
    <2>16. Exact'
      <3>1. \A g \in Files : Writing(g)' <=> Writing(g)
        BY <2>2 DEF Load, IInv, Types, Locks, Locked, Writing
      <3> QED
        BY SMTT(60), <2>1, <2>2, <2>7, <2>8, <2>9, <2>10, <3>1
           DEF IInv, Types, Exact, Locked, Shown, ToHist
    <2> QED
      BY Zenon, <2>11, <2>12, <2>13, <2>14, <2>15, <2>16 DEF IInv
  <1> QED
    BY Zenon, <1>1, <1>2

(* The display adds to the account what the run is about to record.        *)
LEMMA OutputInv ==
    ASSUME IInv, NEW p \in Procs, Output(p)
    PROVE  IInv'
  <1> DEFINE f == fd[p]
             h == db[p].hist
             k == db[p].kern
  <1>1. CASE opt[p].noupdate
    BY Zenon, <1>1, ExitInv DEF Output, Shown
  <1>2. CASE ~opt[p].noupdate
    <2> DEFINE now(c) == IF opt[p].ignore \/ h = Empty \/ opt[p].nooutput
                         THEN k[c] ELSE ledger[f][c] + Displayed(p, c)
               new == [c \in Counters |-> IF c \in opt[p].match \/ h = Empty
                                          THEN now(c) ELSE ledger[f][c]]
    <2>1. /\ f \in Files /\ lock[f] = p
          /\ \A q \in Procs : q # p /\ pc[q] \in Locked => fd[q] \in Files /\ fd[q] # f
      BY Zenon, Alone DEF Output, Locked
    <2>2. /\ ledger' = [ledger EXCEPT ![f] = new]
          /\ pc' = [pc EXCEPT ![p] = "truncate"]
          /\ UNCHANGED <<val, hist, content, nlink, aged, lock, opt, fd, db, runs, crashes, stale>>
      BY Zenon, <1>2 DEF Output, Goto
    <2>3. h \in Values /\ k \in Values /\ content[f] \in Values /\ ledger[f] \in Values
      BY Zenon, <2>1 DEF IInv, Types
    <2>4. h = content[f] /\ (h = Empty \/ \A c \in Counters : h[c] # 0)
      BY Zenon DEF Output, IInv, Types, Tables, Whole, Loaded
    <2>5. /\ ~stale[f] => \A c \in Counters : h[c] <= k[c] /\ h[c] <= ledger[f][c]
          /\ crashes = 0 => ~stale[f] /\ (h # Empty => h = ledger[f])
      BY Zenon, <2>1, <2>4 DEF Output, IInv, Types, Current, Accounted, Exact, Writing, Read, Shown
    <2>6. \A c \in Counters : new[c] \in Nat
      BY SMTT(60), <2>3 DEF Displayed, Increment, Values
    <2>7. new \in Values
      BY Zenon, <2>6 DEF Values
    <2>8. ASSUME ~stale[f], NEW c \in Counters
          PROVE  h[c] <= new[c] /\ ToHist(p, c) <= new[c]
      BY SMTT(60), <2>3, <2>4, <2>5, <2>8 DEF Displayed, Increment, Values, ToHist, Empty
    <2>9. ASSUME crashes = 0, NEW c \in Counters
          PROVE  ToHist(p, c) = new[c]
      BY <2>3, <2>4, <2>5, <2>9 DEF Displayed, Increment, Values, ToHist, Empty
    <2> HIDE DEF new
    <2>10. ledger'[f] = new /\ \A g \in Files : g # f => ledger'[g] = ledger[g]
      BY Zenon, <2>1, <2>2 DEF IInv, Types
    <2>11. pc'[p] = "truncate" /\ \A q \in Procs : q # p => pc'[q] = pc[q]
      BY Zenon, <2>2 DEF IInv, Types
    <2>12. Types'
      BY ZenonT(60), <2>1, <2>2, <2>7 DEF IInv, Types, Locked
    <2>13. Locks'
      BY SMTT(60), <2>1, <2>2, <2>11 DEF Output, IInv, Types, Locks, Locked
    <2>14. Tables'
      BY SMTT(60), <2>2, <2>11 DEF Output, IInv, Types, Tables, Whole, Loaded, Read
    <2>15. Current'
      <3>1. \A g \in Files : Live(g)' => Live(g)
        BY ZenonT(60), <2>2 DEF Live
      <3> QED
        BY <2>2, <2>11, <3>1 DEF Output, IInv, Types, Current, Loaded, Read
    <2>16. Accounted'
      <3>1. \A q \in Procs, c \in Counters : ToHist(q, c)' = ToHist(q, c)
        BY ZenonT(60), <2>2 DEF ToHist
      <3> QED
        BY <2>1, <2>2, <2>4, <2>8, <2>10, <2>11, <3>1
           DEF IInv, Types, Accounted, Locked, Shown
    <2>17. Exact'
      <3>1. \A q \in Procs, c \in Counters : ToHist(q, c)' = ToHist(q, c)
        BY Zenon, <2>2 DEF ToHist
      <3>2. Writing(f)' /\ \A g \in Files : g # f => (Writing(g)' <=> Writing(g))
        BY <2>1, <2>2, <2>11, NstatAssumption DEF IInv, Types, Locks, Locked, Writing
      <3> QED
        BY SMTT(60), <2>1, <2>2, <2>9, <2>10, <2>11, <3>1, <3>2
           DEF IInv, Types, Exact, Locked, Shown
    <2> QED
      BY Zenon, <2>12, <2>13, <2>14, <2>15, <2>16, <2>17 DEF IInv
  <1> QED
    BY Zenon, <1>1, <1>2

(* What is recorded was accounted for when it was displayed.               *)
LEMMA WriteInv ==
    ASSUME IInv, NEW p \in Procs, Write(p)
    PROVE  IInv'
  <1> DEFINE f == fd[p]
             new == [c \in Counters |-> ToHist(p, c)]
             fresh == stale[f] /\ opt[p].match = Counters
  <1>1. /\ f \in Files /\ lock[f] = p /\ Live(f)
        /\ \A q \in Procs : q # p /\ pc[q] \in Locked => fd[q] \in Files /\ fd[q] # f
    BY Zenon, Alone DEF Write, Locked
  <1>2. /\ content' = [content EXCEPT ![f] = new]
        /\ stale' = [stale EXCEPT ![f] = @ /\ ~fresh]
        /\ ledger' = IF fresh THEN [ledger EXCEPT ![f] = new] ELSE ledger
        /\ UNCHANGED <<val, hist, nlink, aged, runs, crashes>>
    BY Zenon DEF Write
  <1>3. /\ pc[p] = "write" /\ pc' = [pc EXCEPT ![p] = "idle"]
        /\ fd' = [fd EXCEPT ![p] = NoFile]
        /\ lock' = [g \in Files |-> IF lock[g] = p THEN NoProc ELSE lock[g]]
        /\ opt' = [opt EXCEPT ![p] = Plain]
        /\ db' = [db EXCEPT ![p] = [hist |-> Empty, kern |-> Empty]]
    BY Zenon DEF Write, Exit
  <1>4. db[p].hist \in Values /\ db[p].kern \in Values /\ val \in Values
    BY Zenon DEF IInv, Types
  <1>5. new \in Values
    BY Zenon, <1>4 DEF Values, ToHist
  <1>6. \A c \in Counters : db[p].kern[c] # 0 /\ db[p].kern[c] <= val[c]
    BY Zenon, <1>3 DEF IInv, Tables, Read
  <1>7. \A c \in Counters : new[c] # 0
    BY ZenonT(60), <1>6 DEF ToHist
  <1>8. fresh \/ ~stale[f] => \A c \in Counters : new[c] <= val[c]
    <2>1. ~stale[f] => \A c \in Counters : db[p].hist[c] <= val[c]
      BY Zenon, <1>3 DEF IInv, Current, Loaded
    <2> QED
      BY <1>6, <2>1, SMTT(20) DEF ToHist
  <1>9. /\ ~stale[f] => \A c \in Counters : new[c] <= ledger[f][c]
        /\ crashes = 0 => ~stale[f] /\ \A c \in Counters : new[c] = ledger[f][c]
    BY Zenon, <1>1, <1>3 DEF IInv, Accounted, Exact, Shown
  <1>10. crashes = 0 => new = ledger[f]
    BY ZenonT(60), <1>1, <1>5, <1>9 DEF IInv, Types, Values
  <1> HIDE DEF new
  <1>11. \A q \in Procs : pc'[q] # "idle" =>
            q # p /\ pc'[q] = pc[q] /\ fd'[q] = fd[q] /\ db'[q] = db[q] /\ opt'[q] = opt[q]
    BY Zenon, <1>3 DEF IInv, Types
  <1>12. /\ content'[f] = new /\ (stale'[f] <=> stale[f] /\ ~fresh)
         /\ ledger'[f] = IF fresh THEN new ELSE ledger[f]
    BY Zenon, <1>1, <1>2 DEF IInv, Types
  <1>13. \A g \in Files : g # f => /\ content'[g] = content[g] /\ ledger'[g] = ledger[g]
                                  /\ (stale'[g] <=> stale[g])
    BY Zenon, <1>1, <1>2 DEF IInv, Types
  <1>14. Types'
    BY Zenon, <1>1, <1>2, <1>3, <1>5 DEF IInv, Types, Values, Empty, Plain, Locked
  <1>15. Locks'
    BY <1>2, <1>3, <1>11 DEF IInv, Types, Locks, Locked
  <1> HIDE DEF f, fresh
  <1>16. Tables'
    <2>1. ASSUME NEW g \in Files PROVE Whole(content'[g])
      <3>1. CASE g = f
        BY Zenon, <1>7, <1>12, <3>1 DEF Whole
      <3>2. CASE g # f
        BY Zenon, <1>13, <3>2 DEF IInv, Tables
      <3> QED
        BY Zenon, <3>1, <3>2
    <2>2. \A q \in Procs : pc'[q] \in Locked => content'[fd'[q]] = content[fd[q]]
      BY ZenonT(60), <1>1, <1>11, <1>13 DEF Locked
    <2>3. \A c \in Counters : val'[c] # 0
      BY Zenon, <1>2 DEF IInv, Tables
    <2>4. \A q \in Procs : pc'[q] \in Loaded => Whole(db'[q].hist)
      BY Zenon, <1>11 DEF IInv, Tables, Loaded
    <2>5. \A q \in Procs : pc'[q] \in Read =>
             \A c \in Counters : db'[q].kern[c] # 0 /\ db'[q].kern[c] <= val'[c]
      BY <1>2, <1>11 DEF IInv, Tables, Read
    <2>6. \A q \in Procs : pc'[q] \in {"kernel", "output", "truncate"} =>
             db'[q].hist = content'[fd'[q]]
      BY <1>11, <2>2, SMTT(20) DEF IInv, Tables, Locked
    <2> QED
      BY Zenon, <2>1, <2>3, <2>4, <2>5, <2>6 DEF Tables, Whole, Empty
  <1>17. Current'
    <2>1. \A g \in Files : Live(g)' => Live(g)
      BY ZenonT(60), <1>2, <1>3, NstatAssumption DEF Live, IInv, Types
    <2>2. ~stale'[f] => \A c \in Counters : content'[f][c] <= val[c]
      BY Zenon, <1>8, <1>12
    <2>3. \A q \in Procs : pc'[q] \in Locked => (stale'[fd'[q]] <=> stale[fd[q]])
      BY SMTT(60), <1>1, <1>11, <1>13 DEF Locked
    <2>4. \A g \in Files : Live(g)' /\ ~aged'[g] /\ ~stale'[g] =>
             \A c \in Counters : content'[g][c] <= val'[c]
      BY Zenon, <1>2, <1>13, <2>1, <2>2 DEF IInv, Current
    <2>5. \A q \in Procs : pc'[q] \in Loaded /\ ~stale'[fd'[q]] =>
             \A c \in Counters : db'[q].hist[c] <= val'[c]
      BY ZenonT(60), <1>2, <1>11, <2>3 DEF IInv, Current, Locked, Loaded
    <2>6. \A q \in Procs : pc'[q] \in Read /\ ~stale'[fd'[q]] =>
             \A c \in Counters : db'[q].hist[c] <= db'[q].kern[c]
      BY Zenon, <1>11, <2>3 DEF IInv, Current, Locked, Read
    <2> QED
      BY Zenon, <2>4, <2>5, <2>6 DEF Current
  <1>18. Accounted'
    <2>1. ~stale'[f] => \A c \in Counters : new[c] <= ledger'[f][c]
      BY <1>5, <1>9, <1>12 DEF Values
    <2>2. \A q \in Procs : pc'[q] \in Shown =>
             pc[q] = pc'[q] /\ \A c \in Counters : ToHist(q, c)' = ToHist(q, c)
      BY ZenonT(60), <1>11 DEF ToHist, Shown
    <2>3. \A q \in Procs : pc'[q] \in Locked =>
             ledger'[fd'[q]] = ledger[fd[q]] /\ (stale'[fd'[q]] <=> stale[fd[q]])
      BY SMTT(60), <1>1, <1>11, <1>13 DEF Locked
    <2> QED
      BY SMTT(60), <1>12, <1>13, <2>1, <2>2, <2>3 DEF IInv, Accounted, Locked, Shown
  <1>19. Exact'
    <2>1. \A g \in Files : g # f => (Writing(g)' <=> Writing(g))
      BY <1>1, <1>3, NstatAssumption DEF IInv, Types, Locks, Locked, Writing
    <2>2. \A q \in Procs : pc'[q] \in Shown =>
             pc[q] = pc'[q] /\ \A c \in Counters : ToHist(q, c)' = ToHist(q, c)
      BY Zenon, <1>11 DEF ToHist, Shown
    <2>3. \A q \in Procs : pc'[q] \in Locked => ledger'[fd'[q]] = ledger[fd[q]]
      BY ZenonT(60), <1>1, <1>11, <1>13 DEF Locked
    <2>4. crashes = 0 => ~stale'[f] /\ content'[f] = ledger'[f]
      BY Zenon, <1>9, <1>10, <1>12
    <2> QED
      BY SMTT(60), <1>2, <1>13, <2>1, <2>2, <2>3, <2>4 DEF IInv, Exact, Locked, Shown
  <1> QED
    BY Zenon, <1>14, <1>15, <1>16, <1>17, <1>18, <1>19 DEF IInv

LEMMA CountInv ==
    ASSUME IInv, Count
    PROVE  IInv'
  <1>1. PICK c \in Counters : val' = [val EXCEPT ![c] = @ + 1]
    BY Zenon DEF Count
  <1>2. val' \in Values /\ \A e \in Counters : val[e] <= val'[e] /\ val'[e] # 0
    BY <1>1 DEF IInv, Types, Values, Tables
  <1>3. Types' /\ Locks'
    BY Zenon, <1>2 DEF Count, IInv, Types, Locks
  <1>4. Tables'
    BY <1>2 DEF Count, IInv, Types, Values, Tables, Whole, Read
  <1>5. Current'
    <2>1. \A f \in Files : Live(f)' => Live(f)
      BY Zenon DEF Count, Live
    <2>2. ASSUME NEW f \in Files, Live(f), ~aged[f], ~stale[f], NEW e \in Counters
          PROVE  content[f][e] <= val'[e]
      BY SMTT(60), <1>2, <2>2 DEF IInv, Types, Values, Current
    <2>3. ASSUME NEW p \in Procs, pc[p] \in Loaded, ~stale[fd[p]], NEW e \in Counters
          PROVE  db[p].hist[e] <= val'[e]
      BY <1>2, <2>3 DEF IInv, Types, Values, Current
    <2> QED
      BY Zenon, <2>1, <2>2, <2>3 DEF Count, IInv, Current
  <1>6. Accounted' /\ Exact'
    BY ZenonT(60) DEF Count, IInv, Accounted, Exact, Writing, ToHist
  <1> QED
    BY Zenon, <1>3, <1>4, <1>5, <1>6 DEF IInv

(* A reboot makes what the files hold old, and ends every run.             *)
LEMMA RebootInv ==
    ASSUME IInv, Reboot
    PROVE  IInv'
  <1>1. Types'
    BY NstatAssumption DEF Reboot, IInv, Types, Values, Empty, Plain, Locked
  <1>2. Locks'
    BY Zenon DEF Reboot, IInv, Locks, Locked
  <1>3. Tables'
    BY Zenon, NstatAssumption DEF Reboot, IInv, Tables, Whole, Loaded, Read
  <1>4. Current'
    <2>1. \A f \in Files : Live(f)' => aged'[f]
      BY Zenon, NstatAssumption, ZenonT(30) DEF Reboot, Live
    <2> QED
      BY Zenon, <2>1 DEF Reboot, Current, Loaded, Read
  <1>5. Accounted'
    BY Zenon DEF Reboot, IInv, Accounted, Shown
  <1>6. Exact'
    BY DEF Reboot, IInv, Types, Exact
  <1> QED
    BY Zenon, <1>1, <1>2, <1>3, <1>4, <1>5, <1>6 DEF IInv

LEMMA StepInv == IInv /\ [Next]_vars => IInv'
  <1> SUFFICES ASSUME IInv, [Next]_vars PROVE IInv'
    OBVIOUS
  <1>1. ASSUME NEW p \in Procs, Start(p) PROVE IInv'
    BY Zenon, <1>1, StartInv
  <1>2. ASSUME NEW p \in Procs, Run(p) PROVE IInv'
    BY Zenon, <1>2, UnlinkInv, OpenInv, FlockInv, LoadInv, KernelInv, OutputInv, TruncateInv, WriteInv
       DEF Run
  <1>3. ASSUME NEW p \in Procs, Kill(p) PROVE IInv'
    BY <1>3, ExitInv, SMTT(20) DEF Kill
  <1>4. CASE UNCHANGED vars
    <2>1. /\ val' = val /\ hist' = hist /\ content' = content /\ ledger' = ledger /\ nlink' = nlink
          /\ aged' = aged /\ stale' = stale /\ lock' = lock /\ pc' = pc /\ opt' = opt /\ fd' = fd
          /\ db' = db /\ crashes' = crashes
      BY Zenon, <1>4 DEF vars
    <2>2. /\ \A p, c : ToHist(p, c)' = ToHist(p, c)
          /\ \A f : (Writing(f)' <=> Writing(f))
      BY Zenon, <2>1 DEF ToHist, Writing
    <2>3. Types'
      BY Zenon, <2>1 DEF IInv, Types
    <2>4. Locks'
      BY Zenon, <2>1 DEF IInv, Locks
    <2>5. Tables'
      BY Zenon, <2>1 DEF IInv, Tables
    <2>6. Current'
      BY Zenon, <2>1 DEF IInv, Current, Live
    <2>7. Accounted'
      BY Zenon, <2>1, <2>2 DEF IInv, Accounted
    <2>8. Exact'
      BY Zenon, <2>1, <2>2 DEF IInv, Exact
    <2> QED
      BY Zenon, <2>3, <2>4, <2>5, <2>6, <2>7, <2>8 DEF IInv
  <1>5. CASE Count \/ Reboot
    BY Zenon, <1>5, CountInv, RebootInv
  <1> QED
    BY <1>1, <1>2, <1>3, <1>4, <1>5, SMTT(20) DEF Next

(* The history file in every state of every behaviour.                     *)
THEOREM Invariance == Spec => []IInv
  BY InitInv, StepInv, PTL DEF Spec

-----------------------------------------------------------------------------
(* Every increment is displayed exactly once by the runs that update the   *)
(* history (nstat.c's main: flock, load, display, truncate, write), for    *)
(* any number of runs, counters and inodes, as long as none was killed.    *)
THEOREM DisplayedOnce == Spec => []ExactlyOnce
  <1>1. IInv => ExactlyOnce
    BY Zenon DEF IInv, Exact, ExactlyOnce
  <1> QED
    BY <1>1, Invariance, PTL

(* No increment is lost, however many runs are killed at whichever system  *)
(* call and however often the machine reboots: dump_kern_db never records  *)
(* more than was displayed.                                                *)
THEOREM NeverAhead == Spec => []NothingLost
  <1>1. IInv => NothingLost
    BY Zenon DEF IInv, Accounted, NothingLost
  <1> QED
    BY <1>1, Invariance, PTL

(* After a reboot the comparison of the file's age with the uptime keeps   *)
(* old values out of the increments, for any number of reboots and runs.   *)
THEOREM OldHistoryUnused == Spec => []NoOldHistory
  <1>1. IInv => NoOldHistory
    BY Zenon DEF IInv, Current, Read, NoOldHistory
  <1> QED
    BY <1>1, Invariance, PTL

=============================================================================
