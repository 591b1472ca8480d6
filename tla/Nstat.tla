-------------------------------- MODULE Nstat --------------------------------
(***************************************************************************)
(* The history file of misc/nstat.c: several runs of nstat, started at any *)
(* time with any options, share one file that holds the counter values of  *)
(* the last run, under flock.  A run may be killed between any two system  *)
(* calls, a run with -r unlinks the file, and the machine may reboot.      *)
(***************************************************************************)
EXTENDS Integers, FiniteSets

CONSTANTS
    Procs,      \* runs that may be active at the same time
    Counters,   \* SNMP counters
    Files,      \* inodes the history file may have had
    NoFile, NoProc,
    InitVal,    \* counter values after boot; a zero counter is not recorded
    MaxVal,     \* bound: counter values
    MaxRuns,    \* bound: runs started
    MaxCrash    \* bound: runs killed and reboots

ASSUME NstatAssumption ==
    /\ InitVal \in Nat \ {0} /\ MaxVal \in Nat /\ MaxRuns \in Nat /\ MaxCrash \in Nat
    /\ NoFile \notin Files /\ NoProc \notin Procs

VARIABLES
    val,        \* kernel: counter values
    hist,       \* the inode the name of the history file leads to
    content,    \* what each inode holds: nothing, or a value for every counter
    nlink,      \* the inodes that have the name or no name any more: st_nlink
    aged,       \* inodes last modified before the machine was booted
    lock,       \* holder of the flock on each inode
    pc, opt,    \* each run: where it is, its options
    fd,         \* each run: the inode it has open
    db,         \* each run: hist_db and kern_db
    runs, crashes,
    ledger,     \* history: per inode, what the runs that update it displayed
    stale       \* history: inodes with values from before the last boot

vars == <<val, hist, content, nlink, aged, lock, pc, opt, fd, db, runs, crashes, ledger,
          stale>>

Empty == [c \in Counters |-> 0]

Options == [reset : BOOLEAN, ignore : BOOLEAN, noupdate : BOOLEAN, nooutput : BOOLEAN,
            match : SUBSET Counters \ {{}}]
Plain == [reset |-> FALSE, ignore |-> FALSE, noupdate |-> FALSE, nooutput |-> FALSE,
          match |-> Counters]

Init ==
    /\ val = [c \in Counters |-> InitVal]
    /\ hist = NoFile
    /\ content = [f \in Files |-> Empty]
    /\ nlink = [f \in Files |-> 0]
    /\ aged = [f \in Files |-> FALSE]
    /\ lock = [f \in Files |-> NoProc]
    /\ pc = [p \in Procs |-> "idle"]
    /\ opt = [p \in Procs |-> Plain]
    /\ fd = [p \in Procs |-> NoFile]
    /\ db = [p \in Procs |-> [hist |-> Empty, kern |-> Empty]]
    /\ runs = 0 /\ crashes = 0
    /\ ledger = [f \in Files |-> Empty]
    /\ stale = [f \in Files |-> FALSE]

-----------------------------------------------------------------------------
Goto(p, l) == pc' = [pc EXCEPT ![p] = l]

(* The end of a run, however it comes: the descriptor is closed, and with  *)
(* it goes the lock.                                                       *)
Exit(p) ==
    /\ pc' = [pc EXCEPT ![p] = "idle"]
    /\ fd' = [fd EXCEPT ![p] = NoFile]
    /\ lock' = [f \in Files |-> IF lock[f] = p THEN NoProc ELSE lock[f]]
    /\ opt' = [opt EXCEPT ![p] = Plain]
    /\ db' = [db EXCEPT ![p] = [hist |-> Empty, kern |-> Empty]]

(* A run with any options (with -a and -s together the file is not used).  *)
Start(p) ==
    /\ pc[p] = "idle"
    /\ runs < MaxRuns
    /\ runs' = runs + 1
    /\ \E o \in Options :
        /\ ~(o.ignore /\ o.noupdate)
        /\ opt' = [opt EXCEPT ![p] = o]
        /\ Goto(p, IF o.reset THEN "unlink" ELSE "open")
    /\ UNCHANGED <<val, hist, content, nlink, aged, lock, fd, db, crashes, ledger, stale>>

(* -r: the name goes, the inode stays with whoever has it open             *)
Unlink(p) ==
    /\ pc[p] = "unlink"
    /\ nlink' = [f \in Files |-> IF f = hist THEN 0 ELSE nlink[f]]
    /\ hist' = NoFile
    /\ Goto(p, "open")
    /\ UNCHANGED <<val, content, aged, lock, opt, fd, db, runs, crashes, ledger, stale>>

(* open with O_CREAT                                                       *)
Open(p) ==
    /\ pc[p] = "open"
    /\ \/ /\ hist # NoFile
          /\ fd' = [fd EXCEPT ![p] = hist]
          /\ UNCHANGED <<hist, content, nlink, aged, ledger, stale>>
       \/ /\ hist = NoFile
          /\ \E f \in Files :
              /\ nlink[f] = 0 /\ \A q \in Procs : fd[q] # f
              /\ fd' = [fd EXCEPT ![p] = f]
              /\ hist' = f
              /\ content' = [content EXCEPT ![f] = Empty]
              /\ nlink' = [nlink EXCEPT ![f] = 1]
              /\ aged' = [aged EXCEPT ![f] = FALSE]
              /\ ledger' = [ledger EXCEPT ![f] = Empty]
              /\ stale' = [stale EXCEPT ![f] = FALSE]
    /\ Goto(p, "flock")
    /\ UNCHANGED <<val, lock, opt, db, runs, crashes>>

(* Mutant: the lock is shared                                              *)
FlockShared(p) ==
    /\ pc[p] = "flock"
    /\ lock' = [lock EXCEPT ![fd[p]] = p]
    /\ Goto(p, "load")
    /\ UNCHANGED <<val, hist, content, nlink, aged, opt, fd, db, runs, crashes, ledger, stale>>

Flock(p) ==
    /\ pc[p] = "flock"
    /\ lock[fd[p]] = NoProc
    /\ lock' = [lock EXCEPT ![fd[p]] = p]
    /\ Goto(p, "load")
    /\ UNCHANGED <<val, hist, content, nlink, aged, opt, fd, db, runs, crashes, ledger, stale>>

(* Mutant: the age of the file is not compared with the uptime             *)
LoadOld(p) ==
    /\ pc[p] = "load"
    /\ IF nlink[fd[p]] # 1
       THEN Exit(p)
       ELSE /\ db' = [db EXCEPT ![p].hist = content[fd[p]]]
            /\ Goto(p, "kernel")
            /\ UNCHANGED <<lock, opt, fd>>
    /\ UNCHANGED <<val, hist, nlink, runs, crashes, content, aged, ledger, stale>>

(* fstat: a file that was unlinked meanwhile is refused.  Otherwise a file *)
(* older than the boot is truncated, and its content becomes hist_db.      *)
Load(p) ==
    /\ pc[p] = "load"
    /\ LET f == fd[p]
           out == aged[f] /\ ~opt[p].ignore
       IN \/ /\ nlink[f] # 1
             /\ Exit(p)
             /\ UNCHANGED <<content, aged, ledger, stale>>
          \/ /\ nlink[f] = 1
             /\ content' = IF out THEN [content EXCEPT ![f] = Empty] ELSE content
             /\ ledger' = IF out THEN [ledger EXCEPT ![f] = Empty] ELSE ledger
             /\ aged' = IF out THEN [aged EXCEPT ![f] = FALSE] ELSE aged
             /\ stale' = [stale EXCEPT ![f] = (@ \/ aged[f]) /\ ~out]
             /\ db' = [db EXCEPT ![p].hist = content'[f]]
             /\ Goto(p, "kernel")
             /\ UNCHANGED <<lock, opt, fd>>
    /\ UNCHANGED <<val, hist, nlink, runs, crashes>>

(* load_netstat, load_snmp6, load_snmp, load_sctp_snmp                     *)
Kernel(p) ==
    /\ pc[p] = "kernel"
    /\ db' = [db EXCEPT ![p].kern = val]
    /\ Goto(p, "output")
    /\ UNCHANGED <<val, hist, content, nlink, aged, lock, opt, fd, runs, crashes, ledger, stale>>

(* dump_incr_db: the increment of a counter, zero if it went backwards     *)
Increment(k, h) == IF k < h THEN 0 ELSE k - h

(* dump_kern_db (absolute values) or dump_incr_db, of the matching ones    *)
Displayed(p, c) ==
    LET d == db[p] IN
    IF opt[p].ignore \/ d.hist = Empty THEN d.kern[c]
    ELSE Increment(d.kern[c], d.hist[c])

(* The output, and the decision whether to update.  ledger adds up what    *)
(* the runs that update the file take out of later outputs: they display   *)
(* it, or (-n) drop it on request.                                         *)
Output(p) ==
    /\ pc[p] = "output"
    /\ LET f == fd[p]
           d == db[p]
           now(c) == IF opt[p].ignore \/ d.hist = Empty \/ opt[p].nooutput
                     THEN d.kern[c] ELSE ledger[f][c] + Displayed(p, c)
       IN \/ /\ opt[p].noupdate
             /\ Exit(p)
             /\ UNCHANGED ledger
          \/ /\ ~opt[p].noupdate
             /\ ledger' = [ledger EXCEPT ![f] =
                  [c \in Counters |-> IF c \in opt[p].match \/ d.hist = Empty
                                      THEN now(c) ELSE ledger[f][c]]]
             /\ Goto(p, "truncate")
             /\ UNCHANGED <<fd, lock, opt, db>>
    /\ UNCHANGED <<val, hist, content, nlink, aged, runs, crashes, stale>>

Truncate(p) ==
    /\ pc[p] = "truncate"
    /\ content' = [content EXCEPT ![fd[p]] = Empty]
    /\ aged' = [aged EXCEPT ![fd[p]] = FALSE]
    /\ Goto(p, "write")
    /\ UNCHANGED <<val, hist, nlink, lock, opt, fd, db, runs, crashes, ledger, stale>>

(* Mutant: the counters are read again when the history is written         *)
ToHistLate(p, c) ==
    IF c \in opt[p].match \/ db[p].hist[c] = 0 THEN val[c] ELSE db[p].hist[c]

(* dump_kern_db to the history: counters that do not match keep the value  *)
(* they had there.                                                         *)
ToHist(p, c) ==
    LET d == db[p] IN
    IF c \in opt[p].match \/ d.hist[c] = 0 THEN d.kern[c] ELSE d.hist[c]

(* The new history is written and closed; the run ends.  The account of a  *)
(* stale file starts again once all its counters have been written.        *)
Write(p) ==
    /\ pc[p] = "write"
    /\ LET f == fd[p]
           new == [c \in Counters |-> ToHist(p, c)]
           fresh == stale[f] /\ opt[p].match = Counters
       IN /\ content' = [content EXCEPT ![f] = new]
          /\ stale' = [stale EXCEPT ![f] = @ /\ ~fresh]
          /\ ledger' = IF fresh THEN [ledger EXCEPT ![f] = new] ELSE ledger
    /\ Exit(p)
    /\ UNCHANGED <<val, hist, nlink, aged, runs, crashes>>

-----------------------------------------------------------------------------
Count ==
    /\ \E c \in Counters : val[c] < MaxVal /\ val' = [val EXCEPT ![c] = @ + 1]
    /\ UNCHANGED <<hist, content, nlink, aged, lock, pc, opt, fd, db, runs, crashes, ledger, stale>>

Kill(p) ==
    /\ pc[p] # "idle"
    /\ crashes < MaxCrash
    /\ crashes' = crashes + 1
    /\ Exit(p)
    /\ UNCHANGED <<val, hist, content, nlink, aged, runs, ledger, stale>>

(* The counters start again; everything in the file is from before         *)
Reboot ==
    /\ crashes < MaxCrash
    /\ crashes' = crashes + 1
    /\ val' = [c \in Counters |-> InitVal]
    /\ aged' = [f \in Files |-> nlink[f] = 1]
    /\ pc' = [p \in Procs |-> "idle"]
    /\ fd' = [p \in Procs |-> NoFile]
    /\ lock' = [f \in Files |-> NoProc]
    /\ opt' = [p \in Procs |-> Plain]
    /\ db' = [p \in Procs |-> [hist |-> Empty, kern |-> Empty]]
    /\ UNCHANGED <<hist, content, nlink, runs, ledger, stale>>

Run(p) ==
    \/ Unlink(p) \/ Open(p) \/ Flock(p) \/ Load(p) \/ Kernel(p) \/ Output(p)
    \/ Truncate(p) \/ Write(p)

Next ==
    \/ \E p \in Procs : Start(p) \/ Run(p) \/ Kill(p)
    \/ Count \/ Reboot

Spec == Init /\ [][Next]_vars

-----------------------------------------------------------------------------
Writing(f) == lock[f] # NoProc /\ pc[lock[f]] \in {"truncate", "write"}

(* Every increment of a counter is displayed exactly once by the runs that *)
(* update the history, however they overlap: what a file holds is what has *)
(* been displayed, as long as no run was killed.                           *)
ExactlyOnce ==
    \A f \in Files : nlink[f] = 1 /\ content[f] # Empty /\ ~Writing(f) /\ crashes = 0 =>
        content[f] = ledger[f]

(* No increment is lost, even when runs are killed or the machine reboots: *)
(* the history never runs ahead of what has been displayed (files that a   *)
(* run with -a brought over a reboot apart).                               *)
NothingLost ==
    \A f \in Files : nlink[f] = 1 /\ content[f] # Empty /\ ~stale[f] =>
        \A c \in Counters : content[f][c] <= ledger[f][c]

(* After a reboot the old history is not mixed with the restarted counters *)
(* (same exception): no counter is found below its recorded value.         *)
NoOldHistory ==
    \A p \in Procs : pc[p] = "output" /\ ~opt[p].ignore /\ ~stale[fd[p]] =>
        \A c \in Counters : db[p].hist[c] <= db[p].kern[c]

=============================================================================
