---------------------------- MODULE RouteRestore ----------------------------
(***************************************************************************)
(* ip route restore (ip/iproute.c): the file of ip route save is read three *)
(* times, and each pass sends the routes of one kind, so that a route comes *)
(* after those the kernel needs to accept it.                               *)
(*                                                                         *)
(* A route has its destination, its preferred source ("" for none), the    *)
(* networks its RTA_GATEWAY lies in and those of the nexthops of its       *)
(* RTA_MULTIPATH.                                                          *)
(***************************************************************************)
EXTENDS Naturals, Sequences, Functions, Trial

CONSTANTS RouteTable,   \* the routes that a file may hold and a table has
          MaxRoutes     \* routes in the file

\* A route to an address of this host (its source is its destination) is a
\* route of the local table, which has no gateway.
ASSUME RouteAssumption ==
  /\ MaxRoutes \in Nat
  /\ \A r \in RouteTable : (r.prefsrc = r.dst /\ r.dst # "") => r.gateway = {}

\* What the kernel asks of a route before it takes it: the source is a local
\* address, or becomes one; a gateway lies in a network that is on the link.
kernel_accepts(r, kernel) ==
  /\ r.prefsrc \in {"", r.dst} \cup {k.dst : k \in {x \in kernel : x.prefsrc = x.dst}}
  /\ \A n \in r.gateway \cup r.multipath : \E k \in kernel : k.dst = n /\ k.gateway \cup k.multipath = {}

\* Two attributes differ when one is missing, too.
rtattr_cmp(a, b) == a = "" \/ b = "" \/ a # b

\* The pass a route is sent in; the mutant sends every route without a
\* gateway in the first one.
restored_two(r, prio) == IF r.gateway = {} THEN prio = 0 ELSE prio = 2
restored(r, prio) ==
  \/ prio = 0 /\ r.gateway = {} /\ (r.prefsrc = "" \/ ~rtattr_cmp(r.prefsrc, r.dst))
  \/ prio = 1 /\ r.gateway = {} /\ r.prefsrc # "" /\ rtattr_cmp(r.prefsrc, r.dst)
  \/ prio = 2 /\ r.gateway # {}

Restoring == trial.of = "restore" /\ trial.ret = "none"

\* restore_handler() for the next route of the file: one that is there
\* already (EEXIST) is no error, any other error ends the command.
restore_handler ==
  LET r == trial.file[trial.pos]
      next == [trial EXCEPT !.pos = @ + 1]
  IN /\ Restoring /\ trial.pos <= Len(trial.file)
     /\ IF ~restored(r, trial.prio) \/ r \in trial.kernel THEN trial' = next
        ELSE trial' = IF kernel_accepts(r, trial.kernel) THEN [next EXCEPT !.kernel = @ \cup {r}]
                      ELSE [trial EXCEPT !.ret = "error"]

\* The talk fails for a reason of its own.
restore_fails ==
  /\ Restoring /\ trial.pos <= Len(trial.file) /\ restored(trial.file[trial.pos], trial.prio)
  /\ trial' = [trial EXCEPT !.ret = "error", !.fault = TRUE]

\* The end of the file: fseek() and the next pass, or the end.
restore_pass ==
  /\ Restoring /\ trial.pos > Len(trial.file)
  /\ trial' = IF trial.prio < 2 THEN [trial EXCEPT !.prio = @ + 1, !.pos = 1] ELSE [trial EXCEPT !.ret = "ok"]

\* iproute_restore() of a file saved with any filter, over any table.
iproute_restore ==
  /\ trial = NotYet
  /\ \E file \in UNION {{s \in [1..n -> RouteTable] : IsInjective(s)} : n \in 0..MaxRoutes} :
     \E kernel \in SUBSET {r \in RouteTable : r.gateway \cup r.multipath = {}} :
       trial' = [of |-> "restore", file |-> file, kernel |-> kernel, prio |-> 0, pos |-> 1, ret |-> "none", fault |-> FALSE]

RestoreNext == iproute_restore \/ restore_handler \/ restore_fails \/ restore_pass
RestoreSpec == TrialInit /\ [][RestoreNext]_trial

-----------------------------------------------------------------------------
\* What each route of the file rests on is in the file or in the table.
SelfContained(file, kernel) ==
  LET all == Range(file) \cup kernel IN \A r \in Range(file) : kernel_accepts(r, all)

\* The comment of restore_handler(), "Restore routes in correct order": when
\* the command succeeds every route of the file is in the table; and, unless a
\* talk fails by itself, it succeeds with every file whose routes rest on each
\* other or on routes that are there, whatever their order.  (Not with a
\* multipath route: it has no RTA_GATEWAY and goes out in the first pass.)
RestoreInOrder ==
  trial.of = "restore" =>
    /\ trial.ret = "ok" => Range(trial.file) \subseteq trial.kernel
    /\ (trial.ret = "error" /\ ~trial.fault) =>
         \/ ~SelfContained(trial.file, trial.kernel)
         \/ \E r \in Range(trial.file) : r.multipath # {}
=============================================================================
