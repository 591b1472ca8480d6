------------------------------ MODULE DumpCall ------------------------------
(***************************************************************************)
(* What a caller of rtnl_dump_filter may rely on, without sockets,         *)
(* sequence numbers or datagrams: the callback is given the objects of the *)
(* table one after the other, none twice and none skipped, and the call    *)
(* succeeds only when it has been given the last one.  Netlink.tla         *)
(* implements this.                                                        *)
(***************************************************************************)
EXTENDS Integers, Sequences

CONSTANT Limit      \* the most objects a table holds

VARIABLES busy,     \* a dump is under way
          table,    \* the number of objects of the table last dumped
          given,    \* the objects the callback has been given
          verdict   \* how the last dump ended

dumpVars == <<busy, table, given, verdict>>

Objects(n) == [j \in 1..n |-> j]

Init ==
    /\ busy = FALSE
    /\ table = 0
    /\ given = << >>
    /\ verdict = "none"

Begin ==
    /\ ~busy /\ busy'
    /\ table' \in 0..Limit
    /\ given' = << >>
    /\ verdict' = "none"

(* Some more objects, or none, reach the callback. *)
Give ==
    \E k \in Len(given)..table : given' = Objects(k)

Proceed ==
    /\ busy /\ busy'
    /\ Give
    /\ UNCHANGED <<table, verdict>>

Succeed ==
    /\ busy /\ ~busy'
    /\ given' = Objects(table)
    /\ verdict' = "ok"
    /\ UNCHANGED table

Fail ==
    /\ busy /\ ~busy'
    /\ Give
    /\ verdict' = "failed"
    /\ UNCHANGED table

(* Another request on the same handle forgets the dump before it. *)
Forget ==
    /\ ~busy /\ ~busy'
    /\ given' = << >>
    /\ verdict' = "none"
    /\ UNCHANGED table

Next == Begin \/ Proceed \/ Succeed \/ Fail \/ Forget

Spec == Init /\ [][Next]_dumpVars
=============================================================================
