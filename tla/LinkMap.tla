------------------------------- MODULE LinkMap -------------------------------
(***************************************************************************)
(* The interface cache of lib/ll_map.c inside a monitor (do_ipmonitor):    *)
(* the handle subscribes to notifications, ll_init_map fills the cache by  *)
(* a dump on the same socket, and rtnl_listen then keeps it up to date     *)
(* through accept_msg and ll_remember_index.                               *)
(***************************************************************************)
EXTENDS Integers, Sequences, FiniteSets

CONSTANTS
    Names,      \* interface names
    None,       \* no such interface
    MaxIdx,     \* bound: interface indices 1..MaxIdx
    Hash,       \* bucket of a name: namehash(name) & (IDXMAP_SIZE - 1)
    MaxQueue,   \* bound: messages waiting on the socket
    MaxChanges  \* bound: changes made to the interfaces

Idx == 1..MaxIdx
Buckets == {Hash[n] : n \in Names}

ASSUME LinkMapAssumption ==
    /\ None \notin Names
    /\ MaxIdx \in Nat \ {0} /\ MaxQueue \in Nat /\ MaxChanges \in Nat
    /\ Hash \in [Names -> Nat]

VARIABLES
    name,       \* kernel: the name of each interface, None if it is not there
    up,         \* kernel: its flags
    changes,    \* bound counter: changes so far
    rcvq,       \* messages on the monitor's socket
    kdump,      \* the next index of the kernel's dump; 0 when it is not running
    phase,      \* "dump" (ll_init_map) or "listen" (rtnl_listen)
    cache,      \* the cache, by index
    seen,       \* history: the name in the last message handled for an index
    lost        \* history: a notification was dropped or skipped

vars == <<name, up, changes, rcvq, kdump, phase, cache, seen, lost>>

NoEntry == [in |-> FALSE, name |-> None, bucket |-> 0, flags |-> FALSE]

Message == [type : {"new", "del", "done"}, dump : BOOLEAN, idx : Idx,
            name : Names \cup {None}, flags : BOOLEAN]

TypeOK ==
    /\ name \in [Idx -> Names \cup {None}]
    /\ up \in [Idx -> BOOLEAN]
    /\ changes \in Nat
    /\ rcvq \in Seq(Message)
    /\ kdump \in 0..(MaxIdx + 1)
    /\ phase \in {"dump", "listen"}
    /\ cache \in [Idx -> [in : BOOLEAN, name : Names \cup {None}, bucket : Nat,
                          flags : BOOLEAN]]
    /\ seen \in [Idx -> Names \cup {None}]
    /\ lost \in BOOLEAN

(* rtnl_open with the groups, then the dump request of ll_init_map         *)
Init ==
    /\ name \in [Idx -> Names \cup {None}]
    /\ \A i, j \in Idx : name[i] = name[j] /\ name[i] # None => i = j
    /\ up = [i \in Idx |-> FALSE]
    /\ changes = 0
    /\ rcvq = << >>
    /\ kdump = 1
    /\ phase = "dump"
    /\ cache = [i \in Idx |-> NoEntry]
    /\ seen = [i \in Idx |-> None]
    /\ lost = FALSE

-----------------------------------------------------------------------------
(* The kernel: a notification for every change, unless the socket is full. *)
Notify(m) ==
    IF Len(rcvq) < MaxQueue
    THEN rcvq' = Append(rcvq, m) /\ UNCHANGED lost
    ELSE lost' = TRUE /\ UNCHANGED rcvq

KernelLink ==
    /\ changes < MaxChanges
    /\ changes' = changes + 1
    /\ \E i \in Idx :
        \/ \E n \in Names, f \in BOOLEAN :              \* created, renamed, changed
             /\ \A j \in Idx \ {i} : name[j] # n
             /\ name' = [name EXCEPT ![i] = n]
             /\ up' = [up EXCEPT ![i] = f]
             /\ Notify([type |-> "new", dump |-> FALSE, idx |-> i, name |-> n, flags |-> f])
        \/ /\ name[i] # None                            \* deleted
           /\ name' = [name EXCEPT ![i] = None]
           /\ up' = [up EXCEPT ![i] = FALSE]
           /\ Notify([type |-> "del", dump |-> FALSE, idx |-> i, name |-> name[i],
                      flags |-> FALSE])
    /\ UNCHANGED <<kdump, phase, cache, seen>>

KernelDump ==
    /\ kdump # 0
    /\ Len(rcvq) < MaxQueue
    /\ \/ /\ kdump \in Idx
          /\ kdump' = kdump + 1
          /\ rcvq' = IF name[kdump] = None THEN rcvq
                     ELSE Append(rcvq, [type |-> "new", dump |-> TRUE, idx |-> kdump,
                                        name |-> name[kdump], flags |-> up[kdump]])
       \/ /\ kdump = MaxIdx + 1
          /\ kdump' = 0
          /\ rcvq' = Append(rcvq, [type |-> "done", dump |-> TRUE, idx |-> 1,
                                   name |-> None, flags |-> FALSE])
    /\ UNCHANGED <<name, up, changes, phase, cache, seen, lost>>

-----------------------------------------------------------------------------
Msg == Head(rcvq)

(* Mutants: a renamed interface stays in its bucket; the flags of a known  *)
(* interface are not refreshed                                             *)
RememberNoRehash(c, m) ==
    CASE m.type = "del" -> NoEntry
      [] m.type = "new" /\ c.in -> [c EXCEPT !.flags = m.flags]
      [] m.type = "new" /\ ~c.in ->
           [in |-> TRUE, name |-> m.name, bucket |-> Hash[m.name], flags |-> m.flags]
      [] OTHER -> c

RememberOldFlags(c, m) ==
    CASE m.type = "del" -> NoEntry
      [] m.type = "new" /\ c.in ->
           [c EXCEPT !.bucket = IF c.name = m.name THEN @ ELSE Hash[m.name]]
      [] m.type = "new" /\ ~c.in ->
           [in |-> TRUE, name |-> m.name, bucket |-> Hash[m.name], flags |-> m.flags]
      [] OTHER -> c

(* ll_remember_index.  A new name for a known index moves the entry to the *)
(* bucket of that name; flags are refreshed, the stored name is not.       *)
Remember(c, m) ==
    CASE m.type = "del" -> NoEntry
      [] m.type = "new" /\ c.in ->
           [c EXCEPT !.bucket = IF c.name = m.name THEN @ ELSE Hash[m.name],
                     !.flags = m.flags]
      [] m.type = "new" /\ ~c.in ->
           [in |-> TRUE, name |-> m.name, bucket |-> Hash[m.name], flags |-> m.flags]
      [] OTHER -> c

LlRememberIndex(m) ==
    /\ cache' = [cache EXCEPT ![m.idx] = Remember(@, m)]
    /\ seen' = [seen EXCEPT ![m.idx] = CASE m.type = "del" -> None
                                            [] m.type = "new" -> m.name
                                            [] OTHER -> @]

(* Mutant: NLMSG_DONE does not end the loop                                *)
InitMapEndless ==
    /\ phase = "dump"
    /\ rcvq # << >>
    /\ rcvq' = Tail(rcvq)
    /\ IF Msg.dump THEN LlRememberIndex(Msg) ELSE UNCHANGED <<cache, seen>>
    /\ UNCHANGED <<name, up, changes, kdump, phase, lost>>

(* ll_init_map: the dump loop gives the objects of the dump to             *)
(* ll_remember_index and skips every notification.                         *)
InitMap ==
    /\ phase = "dump"
    /\ rcvq # << >>
    /\ rcvq' = Tail(rcvq)
    /\ \/ /\ ~Msg.dump
          /\ lost' = TRUE
          /\ UNCHANGED <<phase, cache, seen>>
       \/ /\ Msg.dump /\ Msg.type # "done"
          /\ LlRememberIndex(Msg)
          /\ UNCHANGED <<phase, lost>>
       \/ /\ Msg.dump /\ Msg.type = "done"
          /\ phase' = "listen"
          /\ UNCHANGED <<cache, seen, lost>>
    /\ UNCHANGED <<name, up, changes, kdump>>

(* rtnl_listen and accept_msg: every message is remembered and printed;    *)
(* ENOBUFS does not end the loop.                                          *)
Listen ==
    /\ phase = "listen"
    /\ rcvq # << >>
    /\ rcvq' = Tail(rcvq)
    /\ LlRememberIndex(Msg)
    /\ UNCHANGED <<name, up, changes, kdump, phase, lost>>

Next == KernelLink \/ KernelDump \/ InitMap \/ Listen

Spec == Init /\ [][Next]_vars

FairSpec == Spec /\ WF_vars(KernelDump) /\ WF_vars(InitMap) /\ WF_vars(Listen)

-----------------------------------------------------------------------------
(* ll_get_by_name: the entries that may be returned for a name             *)
Hits(n) == {i \in Idx : /\ cache[i].in
                        /\ cache[i].bucket = Hash[n]
                        /\ cache[i].name = n}

(* ll_name_to_index: the cache, then the kernel (if_nametoindex)           *)
LlNameToIndex(n) ==
    IF Hits(n) # {} THEN Hits(n)
    ELSE LET k == {i \in Idx : name[i] = n} IN IF k = {} THEN {0} ELSE k

(* ll_index_to_name: the cache, then the kernel, then a made-up name       *)
LlIndexToName(i) == IF cache[i].in THEN cache[i].name ELSE name[i]

(* ll_index_to_flags: nothing (-1) for an unknown index                    *)
LlIndexToFlags(i) == IF cache[i].in THEN {cache[i].flags} ELSE {}

NoCollision == \A m, n \in Names : Hash[m] = Hash[n] => m = n

Settled == phase = "listen" /\ rcvq = << >> /\ ~lost

(* ll_name_to_index: the cache answers for a name only with an index whose *)
(* last message carried that name, however often interfaces were renamed,  *)
(* deleted and re-created (names that do not share a bucket).              *)
HitsAreSeen ==
    NoCollision => \A n \in Names : \A i \in Hits(n) : seen[i] = n

(* Once every notification has been handled, ll_name_to_index agrees with  *)
(* the kernel on every name, and the cache holds exactly the interfaces    *)
(* that exist, with their flags.                                           *)
NamesResolve ==
    Settled =>
        /\ NoCollision =>
              \A n \in Names : \A i \in LlNameToIndex(n) :
                  IF i = 0 THEN \A j \in Idx : name[j] # n ELSE name[i] = n
        /\ \A i \in Idx :
              LlIndexToFlags(i) = IF name[i] = None THEN {} ELSE {up[i]}

(* The comment of ll_remember_index, "change to existing entry": once the  *)
(* notification of a rename has been handled, ll_index_to_name gives the   *)
(* new name.                                                               *)
NewNameShown == Settled => \A i \in Idx : LlIndexToName(i) = name[i]

(* The initial dump always ends and the monitor gets to listen.            *)
GetsToListen == <>(phase = "listen")

=============================================================================
