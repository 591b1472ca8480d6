----------------------------- MODULE ArpdSignals -----------------------------
(***************************************************************************)
(* The main loop of misc/arpd.c and its signal handlers.  A handler sets   *)
(* its flags and, while in_poll is set, jumps back to sigsetjmp, so that a *)
(* signal between the tests of the flags and poll() is not slept over.     *)
(* One action is one statement of the loop; a signal may come between any  *)
(* two of them.                                                            *)
(***************************************************************************)
EXTENDS Integers

CONSTANTS
    MaxVer,     \* bound: changes to the database
    MaxSignals  \* bound: signals

ASSUME ArpdSignalsAssumption == MaxVer \in Nat /\ MaxSignals \in Nat

VARIABLES
    pc,
    in_poll, do_exit, do_sync, do_stats,
    adjusted,   \* sysctl_adjusted
    sysctl,     \* the kernel's parameters: as arpd found them ("found"), as it sets
                \* them ("arpd"), or as undo_sysctl_adjustments sets them ("default")
    mem, disk,  \* version of the database in memory and on disk
    closed,     \* history: how often dbase->close was called
    ifnum,      \* interfaces were named on the command line
    asked,      \* history: version of the database when SIGHUP last came
    insync,     \* history: SIGTERM came while dbase->sync was running
    signals

vars == <<pc, in_poll, do_exit, do_sync, do_stats, adjusted, sysctl, mem, disk,
          closed, ifnum, asked, insync, signals>>

flags == <<in_poll, do_exit, do_sync, do_stats>>
kernel == <<adjusted, sysctl, ifnum>>
base == <<mem, disk, closed>>
history == <<asked, insync, signals>>

Labels == {"top", "exit?", "sync?", "sync", "clear", "stats?", "stats", "poll",
           "ready", "input", "undo", "close", "leave", "gone"}

TypeOK ==
    /\ pc \in Labels
    /\ in_poll \in BOOLEAN /\ do_exit \in BOOLEAN /\ do_sync \in BOOLEAN /\ do_stats \in BOOLEAN
    /\ adjusted \in BOOLEAN
    /\ sysctl \in {"found", "arpd", "default"}
    /\ mem \in 0..MaxVer /\ disk \in 0..MaxVer /\ asked \in 0..MaxVer
    /\ closed \in 0..2
    /\ ifnum \in BOOLEAN /\ insync \in BOOLEAN
    /\ signals \in 0..MaxSignals

Init ==
    /\ pc = "top"
    /\ in_poll = FALSE /\ do_exit = FALSE /\ do_sync = FALSE /\ do_stats = FALSE
    /\ adjusted = FALSE
    /\ sysctl = "found"
    /\ mem = 0 /\ disk = 0 /\ closed = 0 /\ asked = 0
    /\ ifnum \in BOOLEAN
    /\ insync = FALSE
    /\ signals = 0

-----------------------------------------------------------------------------
(* Mutant: in_poll is not set before the flags are tested                  *)
TopLate ==
    /\ pc = "top"
    /\ pc' = "exit?"
    /\ UNCHANGED <<flags, kernel, base, history>>

Top ==                                          \* in_poll = 1
    /\ pc = "top"
    /\ in_poll' = TRUE
    /\ pc' = "exit?"
    /\ UNCHANGED <<do_exit, do_sync, do_stats, kernel, base, history>>

(* Mutant: the way out does not undo the adjustments                       *)
TestExitNoUndo ==
    /\ pc = "exit?"
    /\ pc' = IF do_exit THEN "close" ELSE "sync?"
    /\ UNCHANGED <<flags, kernel, base, history>>

TestExit ==                                     \* if (do_exit) break
    /\ pc = "exit?"
    /\ pc' = IF do_exit THEN "undo" ELSE "sync?"
    /\ UNCHANGED <<flags, kernel, base, history>>

TestSync ==                                     \* if (do_sync) { in_poll = 0
    /\ pc = "sync?"
    /\ pc' = IF do_sync THEN "sync" ELSE "stats?"
    /\ in_poll' = IF do_sync THEN FALSE ELSE in_poll
    /\ UNCHANGED <<do_exit, do_sync, do_stats, kernel, base, history>>

Sync ==                                         \* dbase->sync
    /\ pc = "sync"
    /\ disk' = mem
    /\ pc' = "clear"
    /\ UNCHANGED <<flags, kernel, mem, closed, history>>

(* Mutant: all requests are cleared after the sync                         *)
ClearAll ==
    /\ pc = "clear"
    /\ do_sync' = FALSE /\ do_exit' = FALSE /\ do_stats' = FALSE
    /\ in_poll' = TRUE
    /\ pc' = "stats?"
    /\ UNCHANGED <<kernel, base, history>>

Clear ==                                        \* do_sync = 0; in_poll = 1 }
    /\ pc = "clear"
    /\ do_sync' = FALSE
    /\ in_poll' = TRUE
    /\ pc' = "stats?"
    /\ UNCHANGED <<do_exit, do_stats, kernel, base, history>>

TestStats ==                                    \* if (do_stats)
    /\ pc = "stats?"
    /\ pc' = IF do_stats THEN "stats" ELSE "poll"
    /\ UNCHANGED <<flags, kernel, base, history>>

SendStats ==                                    \* send_stats
    /\ pc = "stats"
    /\ do_stats' = FALSE
    /\ pc' = "poll"
    /\ UNCHANGED <<in_poll, do_exit, do_sync, kernel, base, history>>

Poll ==                                         \* poll: input, or the time is over
    /\ pc = "poll"
    /\ \/ pc' = "ready" /\ UNCHANGED do_sync
       \/ pc' = "top" /\ do_sync' = TRUE
    /\ UNCHANGED <<in_poll, do_exit, do_stats, kernel, base, history>>

Ready ==                                        \* in_poll = 0
    /\ pc = "ready"
    /\ in_poll' = FALSE
    /\ pc' = "input"
    /\ UNCHANGED <<do_exit, do_sync, do_stats, kernel, base, history>>

(* get_arp_pkt and get_kern_msg: any number of changes to the database.    *)
(* The end of the dump asked for by load_initial_table syncs the database  *)
(* and adjusts the parameters of the interfaces named.                     *)
Input ==
    /\ pc = "input"
    /\ \E m \in mem..MaxVer :
        /\ mem' = m
        /\ \/ UNCHANGED <<disk, adjusted, sysctl>>
           \/ /\ disk' \in mem..m
              /\ adjusted' = (adjusted \/ ifnum)
              /\ sysctl' = IF ifnum THEN "arpd" ELSE sysctl
    /\ pc' = "top"
    /\ UNCHANGED <<flags, ifnum, closed, history>>

Undo ==                                         \* undo_sysctl_adjustments
    /\ pc = "undo"
    /\ sysctl' = IF adjusted THEN "default" ELSE sysctl
    /\ adjusted' = FALSE
    /\ pc' = "close"
    /\ UNCHANGED <<flags, ifnum, base, history>>

(* dbase->close; on a database closed before, it works on freed memory:    *)
(* the process may die here or go on                                       *)
Close ==
    /\ pc = "close"
    /\ disk' = mem
    /\ IF closed = 0
       THEN closed' = 1 /\ pc' = "leave"
       ELSE closed' = 2 /\ pc' \in {"leave", "gone"}
    /\ UNCHANGED <<flags, kernel, mem, history>>

Leave ==                                        \* iprt_exit(0)
    /\ pc = "leave"
    /\ pc' = "gone"
    /\ UNCHANGED <<flags, kernel, base, history>>

(* The handlers: they stay installed until the process is gone, and        *)
(* siglongjmp goes back to the top of the loop                             *)
Signal ==
    /\ pc # "gone"
    /\ signals < MaxSignals
    /\ signals' = signals + 1
    /\ pc' = IF in_poll THEN "top" ELSE pc

SigExit ==
    /\ Signal
    /\ do_exit' = TRUE
    /\ insync' = (insync \/ pc \in {"sync", "clear"})
    /\ UNCHANGED <<in_poll, do_sync, do_stats, kernel, base, asked>>

(* Mutant: the handler only wakes the loop up                              *)
SigSyncNoFlag ==
    /\ Signal
    /\ asked' = mem
    /\ UNCHANGED <<flags, kernel, base, insync>>

SigSync ==
    /\ Signal
    /\ do_sync' = TRUE
    /\ asked' = mem
    /\ UNCHANGED <<in_poll, do_exit, do_stats, kernel, base, insync>>

SigStats ==
    /\ Signal
    /\ do_sync' = TRUE
    /\ do_stats' = TRUE
    /\ UNCHANGED <<in_poll, do_exit, kernel, base, asked, insync>>

Step ==
    \/ Top \/ TestExit \/ TestSync \/ Sync \/ Clear \/ TestStats \/ SendStats
    \/ Poll \/ Ready \/ Input \/ Undo \/ Close \/ Leave

Next == Step \/ SigExit \/ SigSync \/ SigStats

Spec == Init /\ [][Next]_vars

FairSpec == Spec /\ WF_vars(Step)

-----------------------------------------------------------------------------
(* The process does not sleep in poll() on a SIGTERM or a SIGUSR1: in_poll *)
(* is set before the flags are tested, so that a later signal jumps back.  *)
(* The one signal that waits for the end of poll() is a SIGTERM that came  *)
(* inside dbase->sync, after do_exit was tested and while in_poll is 0.    *)
NoLostWakeup ==
    pc = "poll" => (do_exit => insync) /\ ~do_stats

(* arpd(8), "On a SIGHUP it syncs the database to disk": what was learnt   *)
(* before the signal gets to the disk, although do_sync is cleared without *)
(* a look at a signal that came during the sync.                           *)
HupCovered == \A v \in 1..MaxVer : asked = v ~> disk >= v

(* The daemon ends after SIGINT or SIGTERM, whenever the signal comes.     *)
ExitEnds == do_exit ~> pc = "gone"

(* A daemon that has ended has the database on disk and has left none of   *)
(* its own settings in the kernel, whatever signals came while it ended.   *)
CleanExit == pc = "gone" => disk = mem /\ sysctl # "arpd"

(* arpd(8): "When arpd receives a SIGINT or SIGTERM signal, it exits       *)
(* gracefully, syncing the database": the database is closed once, not     *)
(* again after it was freed.                                               *)
ClosedOnce == closed < 2

=============================================================================
