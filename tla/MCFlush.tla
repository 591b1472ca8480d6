------------------------------- MODULE MCFlush -------------------------------
(* Flush on tables of three objects in two subnets.                        *)
EXTENDS Flush
CONSTANTS o1, o2, o3
MCSubnet == [o \in Objs |-> IF o = o3 THEN 2 ELSE 1]

(* ip address flush with -loops 0, 1 or 4 or of primaries, neighbour, route *)
MCCommands ==
    {[kind |-> "addr", primary |-> FALSE, loops |-> 0],
     [kind |-> "addr", primary |-> FALSE, loops |-> 1],
     [kind |-> "addr", primary |-> FALSE, loops |-> 4],
     [kind |-> "addr", primary |-> TRUE, loops |-> 0],
     [kind |-> "neigh", primary |-> FALSE, loops |-> 4],
     [kind |-> "route", primary |-> FALSE, loops |-> 0]}

MCOneLoop == {[kind |-> "addr", primary |-> FALSE, loops |-> 1]}
=============================================================================
