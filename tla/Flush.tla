-------------------------------- MODULE Flush --------------------------------
(***************************************************************************)
(* ip address flush, ip neighbour flush and ip route flush: rounds of a    *)
(* dump whose callback turns every matching object into a delete request.  *)
(* The requests are collected in a buffer of bounded size and sent on the  *)
(* same socket, unacknowledged, whenever the buffer is full (in the middle *)
(* of the dump) and at the end of the round.  Afterwards the next command  *)
(* of an ip -batch file uses the same socket.                              *)
(*                                                                         *)
(* The kernel's dump keeps an index into the table, so that a deletion     *)
(* during the dump makes it pass over entries.                             *)
(***************************************************************************)
EXTENDS Integers, Sequences, FiniteSets, Functions

CONSTANTS
    Commands,   \* the flush commands: kind "addr", "neigh" or "route", whether the
                \* primary selector was given, and the limit on the rounds (addr:
                \* max_flush_loops, 0 for none; neigh: MAX_ROUNDS)
    Objs,       \* objects the table may hold
    Subnet,     \* addr: the subnet of each address
    BufCap,     \* delete requests that fit filter.flushb
    MaxEnv      \* bound: changes made by other programs

ASSUME FlushAssumption ==
    /\ Commands \subseteq [kind : {"addr", "neigh", "route"}, primary : BOOLEAN, loops : Nat]
    /\ \A c \in Commands : c.kind = "neigh" => c.loops > 0
    /\ IsFiniteSet(Objs)
    /\ BufCap \in Nat \ {0}
    /\ MaxEnv \in Nat

VARIABLES
    cmd,        \* the command, one of Commands
    pc,         \* "request", "dump", "object", "over" or "next"
    tab,        \* the kernel's table: a sequence of [o, st]
    sys,        \* what decides the kernel's answers: promotion, refusals
    kdump,      \* the kernel's dump: running, and its index into tab
    rcvq,       \* datagrams queued on the socket
    seq, dump,  \* rth.seq, rth.dump
    cur,        \* the datagram in the hands of the dump loop
    flushb,     \* filter.flushb: the delete requests collected
    flushed,    \* filter.flushed
    round,
    failedToo,  \* neigh: NUD_FAILED is in filter.state
    ret,        \* how the flush and then the next command returned
    env         \* history: what other programs did

vars == <<cmd, pc, tab, sys, kdump, rcvq, seq, dump, cur, flushb, flushed, round,
          failedToo, ret, env>>

Kind == cmd.kind
Primary == cmd.primary
MaxRounds == cmd.loops

Names(t) == {t[p].o : p \in 1..Len(t)}

States == CASE Kind = "addr"  -> {"pri", "sec"}
            [] Kind = "neigh" -> {"live", "failed"}
            [] Kind = "route" -> {"live"}

(* The first address of a subnet is primary, and primaries come first.     *)
WellFormed(t) ==
    Kind = "addr" =>
        /\ \A p, q \in 1..Len(t) : p < q => ~(t[p].st = "sec" /\ t[q].st = "pri")
        /\ \A p \in 1..Len(t) :
             LET prims == {q \in 1..Len(t) : /\ t[q].st = "pri"
                                             /\ Subnet[t[q].o] = Subnet[t[p].o]}
             IN Cardinality(prims) = 1

Tables == {t \in [1..Cardinality(Objs) -> [o : Objs, st : States]] :
             \A p, q \in DOMAIN t : t[p].o = t[q].o => p = q}

ChunkMsg(s, objs, d) == [type |-> "chunk", seq |-> s, objs |-> objs, done |-> d, err |-> "none"]
ReplyMsg(s, t, e)    == [type |-> t, seq |-> s, objs |-> << >>, done |-> FALSE, err |-> e]

NoMsg == ChunkMsg(0, << >>, FALSE)

Init ==
    /\ cmd \in Commands
    /\ pc = "request"
    /\ tab \in {t \in Tables : WellFormed(t)}
    /\ sys \in [promote : IF Kind = "addr" THEN BOOLEAN ELSE {FALSE},
                deny : SUBSET Objs, held : IF Kind = "neigh" THEN SUBSET Objs ELSE {{}}]
    /\ kdump = [on |-> FALSE, next |-> 1]
    /\ rcvq = << >>
    /\ seq = 0 /\ dump = 0
    /\ cur = NoMsg
    /\ flushb = << >>
    /\ flushed = 0
    /\ round = 0
    /\ failedToo = TRUE
    /\ ret = [flush |-> "none", next |-> "none"]
    /\ env = [left |-> MaxEnv, added |-> FALSE, disturbed |-> FALSE]

-----------------------------------------------------------------------------
(* The kernel: external, as the code uses it.                              *)

(* The entries of the table t that are in E, in their order.               *)
Keep(t, E) ==
    LET kept[n \in 0..Len(t)] == IF n = 0 THEN << >>
                                 ELSE IF t[n] \in E THEN Append(kept[n - 1], t[n])
                                 ELSE kept[n - 1]
    IN kept[Len(t)]

Remove1(t, x) == Keep(t, {e \in Range(t) : e.o # x})

(* Deleting a primary address promotes the first secondary of its subnet   *)
(* (it moves behind the last primary) or deletes all of them.              *)
DelAddr(t, x) ==
    LET p == CHOOSE q \in 1..Len(t) : t[q].o = x
        rest == Remove1(t, x)
        same == {e \in Range(rest) : Subnet[e.o] = Subnet[x] /\ e.st = "sec"}
        heir == Keep(rest, same)[1]
    IN IF t[p].st = "sec" \/ same = {} THEN rest
       ELSE IF ~sys.promote THEN Keep(rest, Range(rest) \ same)
       ELSE Keep(rest, {e \in Range(rest) : e.st = "pri"})
              \o << [heir EXCEPT !.st = "pri"] >>
              \o Keep(rest, {e \in Range(rest) \ {heir} : e.st = "sec"})

(* A neighbour that is in use stays in the table as failed.                *)
DelNeigh(t, x) ==
    IF x \in sys.held
    THEN [p \in 1..Len(t) |-> IF t[p].o = x THEN [t[p] EXCEPT !.st = "failed"] ELSE t[p]]
    ELSE Remove1(t, x)

DelObj(t, x) == CASE Kind = "addr"  -> DelAddr(t, x)
                  [] Kind = "neigh" -> DelNeigh(t, x)
                  [] Kind = "route" -> Remove1(t, x)

(* One delete request: refused, too late, or done.                         *)
Process(k, m) ==
    CASE m.o \in sys.deny ->
           [k EXCEPT !.q = Append(@, ReplyMsg(m.seq, "nack", "refused"))]
      [] m.o \notin sys.deny /\ m.o \notin Names(k.t) ->
           [k EXCEPT !.q = Append(@, ReplyMsg(m.seq, "nack", "notavail"))]
      [] m.o \notin sys.deny /\ m.o \in Names(k.t) ->
           [k EXCEPT !.t = DelObj(@, m.o)]

(* The delete requests b of one buffer, one after the other.               *)
ProcessAll(k, b) ==
    LET done[n \in 0..Len(b)] == IF n = 0 THEN k ELSE Process(done[n - 1], b[n])
    IN done[Len(b)]

KernelChunk ==
    /\ kdump.on
    /\ Len(rcvq) < 2
    /\ \E n \in 0..Len(tab) :
        LET hi == kdump.next + n - 1
            last == hi >= Len(tab)
        IN /\ hi <= Len(tab) \/ n = 0
           /\ n > 0 \/ last
           /\ rcvq' = Append(rcvq, ChunkMsg(dump, SubSeq(tab, kdump.next, hi), last))
           /\ kdump' = [on |-> ~last, next |-> hi + 1]
    /\ UNCHANGED <<cmd, pc, tab, sys, seq, dump, cur, flushb, flushed, round, failedToo,
                   ret, env>>

(* Another program deletes an object, or adds one at the end of the table. *)
OtherProgram ==
    /\ env.left > 0
    /\ \/ \E x \in Names(tab) :
             /\ tab' = DelObj(tab, x)
             /\ env' = [env EXCEPT !.left = @ - 1, !.disturbed = TRUE]
       \/ \E x \in Objs \ Names(tab) :
             /\ tab' = IF Kind = "addr"
                       THEN IF \E e \in Range(tab) : Subnet[e.o] = Subnet[x]
                            THEN Append(tab, [o |-> x, st |-> "sec"])
                            ELSE << [o |-> x, st |-> "pri"] >> \o tab
                       ELSE Append(tab, [o |-> x, st |-> "live"])
             /\ env' = [env EXCEPT !.left = @ - 1, !.added = TRUE, !.disturbed = TRUE]
    /\ UNCHANGED <<cmd, pc, sys, kdump, rcvq, seq, dump, cur, flushb, flushed, round,
                   failedToo, ret>>

-----------------------------------------------------------------------------
(* rtnl_send_check: send the buffer, then look at the first datagram on    *)
(* the socket without consuming it; an error message there is the verdict. *)
SendCheck ==
    LET k == ProcessAll([t |-> tab, q |-> rcvq], flushb) IN
    [t |-> k.t, q |-> k.q,
     err |-> IF k.q # << >> /\ Head(k.q).type = "nack" THEN Head(k.q).err ELSE "none"]

(* flush_update: only the address flush tolerates an object that is gone.  *)
FlushUpdateFails(err) ==
    IF Kind = "addr" THEN err \notin {"none", "notavail"} ELSE err # "none"

(* The start of a round: the dump request.                                 *)
Request ==
    /\ pc = "request"
    /\ Kind # "route" /\ (Kind = "neigh" \/ MaxRounds > 0) => round < MaxRounds
    /\ seq' = seq + 1
    /\ dump' = seq + 1
    /\ kdump' = [on |-> TRUE, next |-> 1]
    /\ flushed' = 0
    /\ pc' = "dump"
    /\ env' = [env EXCEPT !.disturbed = FALSE]
    /\ UNCHANGED <<cmd, tab, sys, rcvq, cur, flushb, round, failedToo, ret>>

(* The loop of ipaddr_flush or do_show_or_flush runs out of rounds.        *)
OutOfRounds ==
    /\ pc = "request"
    /\ Kind # "route" /\ (Kind = "neigh" \/ MaxRounds > 0)
    /\ round >= MaxRounds
    /\ pc' = "over"
    /\ ret' = [ret EXCEPT !.flush = "incomplete"]
    /\ UNCHANGED <<cmd, tab, sys, kdump, rcvq, seq, dump, cur, flushb, flushed, round,
                   failedToo, env>>

(* Mutant: a datagram must carry the last number used (rth->seq), which    *)
(* the deletes of the callback move on                                     *)
DumpRecvLastSeq ==
    /\ pc = "dump"
    /\ rcvq # << >>
    /\ rcvq' = Tail(rcvq)
    /\ IF Head(rcvq).seq = seq
       THEN cur' = Head(rcvq) /\ pc' = "object"
       ELSE UNCHANGED <<cur, pc>>
    /\ UNCHANGED <<cmd, tab, sys, kdump, seq, dump, flushb, flushed, round, failedToo,
                   ret, env>>

(* rtnl_dump_filter: the next datagram, skipped unless it is of this dump  *)
DumpRecv ==
    /\ pc = "dump"
    /\ rcvq # << >>
    /\ rcvq' = Tail(rcvq)
    /\ IF Head(rcvq).seq = dump
       THEN cur' = Head(rcvq) /\ pc' = "object"
       ELSE UNCHANGED <<cur, pc>>
    /\ UNCHANGED <<cmd, tab, sys, kdump, seq, dump, flushb, flushed, round, failedToo,
                   ret, env>>

(* The filters of print_addrinfo, print_neigh and filter_nlmsg             *)
Matches(e) ==
    /\ Primary => e.st = "pri"
    /\ e.st = "failed" => failedToo

(* An object that does not match                                           *)
PassOver ==
    /\ pc = "object"
    /\ cur.objs # << >>
    /\ ~Matches(Head(cur.objs))
    /\ cur' = [cur EXCEPT !.objs = Tail(@)]
    /\ UNCHANGED <<cmd, pc, tab, sys, kdump, rcvq, seq, dump, flushb, flushed, round,
                   failedToo, ret, env>>

(* print_addrinfo, print_neigh, print_route in flush mode: make room, then *)
(* add the delete request.                                                 *)
Collect ==
    /\ pc = "object"
    /\ cur.objs # << >>
    /\ Matches(Head(cur.objs))
    /\ LET m == [o |-> Head(cur.objs).o, seq |-> seq + 1]
           s == SendCheck
       IN \/ /\ Len(flushb) < BufCap
             /\ flushb' = Append(flushb, m)
             /\ seq' = seq + 1
             /\ flushed' = flushed + 1
             /\ cur' = [cur EXCEPT !.objs = Tail(@)]
             /\ UNCHANGED <<pc, tab, rcvq, ret>>
          \/ /\ Len(flushb) = BufCap
             /\ tab' = s.t /\ rcvq' = s.q
             /\ IF FlushUpdateFails(s.err)
                THEN /\ pc' = "over"
                     /\ ret' = [ret EXCEPT !.flush = IF Kind = "route" THEN "failed"
                                                     ELSE "terminated"]
                     /\ UNCHANGED <<flushb, seq, flushed, cur>>
                ELSE /\ flushb' = << m >>
                     /\ seq' = seq + 1
                     /\ flushed' = flushed + 1
                     /\ cur' = [cur EXCEPT !.objs = Tail(@)]
                     /\ UNCHANGED <<pc, ret>>
    /\ UNCHANGED <<cmd, sys, kdump, dump, round, failedToo, env>>

(* The datagram is used up and is not the last one of the dump             *)
MoreToCome ==
    /\ pc = "object"
    /\ cur.objs = << >> /\ ~cur.done
    /\ pc' = "dump"
    /\ UNCHANGED <<cmd, tab, sys, kdump, rcvq, seq, dump, cur, flushb, flushed, round,
                   failedToo, ret, env>>

DumpDone == pc = "object" /\ cur.objs = << >> /\ cur.done

(* A round that matched nothing ends the flush                             *)
NothingFlushed ==
    /\ DumpDone
    /\ flushed = 0
    /\ pc' = "over"
    /\ ret' = [ret EXCEPT !.flush = "ok"]
    /\ UNCHANGED <<cmd, tab, sys, kdump, rcvq, seq, dump, cur, flushb, flushed, round,
                   failedToo, env>>

(* The rest of the round: send what is left and go on, or stop.            *)
RoundSend ==
    /\ DumpDone
    /\ flushed > 0
    /\ round' = round + 1
    /\ tab' = SendCheck.t /\ rcvq' = SendCheck.q
    /\ UNCHANGED <<cmd, sys, kdump, seq, dump, cur, flushed, env>>

Stop(r) == pc' = "over" /\ ret' = [ret EXCEPT !.flush = r]

(* Mutant: one round is taken to be enough                                 *)
AddrRoundOnce ==
    /\ Kind = "addr"
    /\ RoundSend
    /\ flushb' = << >>
    /\ Stop("ok")
    /\ UNCHANGED failedToo

(* ipaddr_flush: with the primary selector a single round is made          *)
AddrRound ==
    /\ Kind = "addr"
    /\ RoundSend
    /\ UNCHANGED failedToo
    /\ \/ FlushUpdateFails(SendCheck.err) /\ Stop("failed") /\ UNCHANGED flushb
       \/ /\ ~FlushUpdateFails(SendCheck.err)
          /\ flushb' = << >>
          /\ IF Primary THEN Stop("ok") ELSE pc' = "request" /\ UNCHANGED ret

(* Mutant: NUD_FAILED stays in filter.state                                *)
NeighRoundKeepsFailed ==
    /\ Kind = "neigh"
    /\ RoundSend
    /\ UNCHANGED failedToo
    /\ \/ FlushUpdateFails(SendCheck.err) /\ Stop("terminated") /\ UNCHANGED flushb
       \/ /\ ~FlushUpdateFails(SendCheck.err)
          /\ flushb' = << >>
          /\ pc' = "request" /\ UNCHANGED ret

(* do_show_or_flush: failed neighbours count in the first round only       *)
NeighRound ==
    /\ Kind = "neigh"
    /\ RoundSend
    /\ \/ FlushUpdateFails(SendCheck.err) /\ Stop("terminated") /\ UNCHANGED <<flushb, failedToo>>
       \/ /\ ~FlushUpdateFails(SendCheck.err)
          /\ flushb' = << >>
          /\ failedToo' = FALSE
          /\ pc' = "request" /\ UNCHANGED ret

(* iproute_flush: no bound on the rounds but a limit of 30 seconds         *)
RouteRound ==
    /\ Kind = "route"
    /\ RoundSend
    /\ UNCHANGED failedToo
    /\ \/ FlushUpdateFails(SendCheck.err) /\ Stop("failed") /\ UNCHANGED flushb
       \/ /\ ~FlushUpdateFails(SendCheck.err)
          /\ flushb' = << >>
          /\ \/ Stop("incomplete")
             \/ pc' = "request" /\ UNCHANGED ret

(* The next line of the batch file, unless the flush ended the program:    *)
(* rtnl_talk of a request that the kernel accepts.  It reads up to the     *)
(* first message whose sequence number is between seq - 1 and seq.  (The   *)
(* pieces of a dump are older than that: delete requests followed.)        *)
NextCommand ==
    /\ pc = "over"
    /\ ret.flush # "terminated"
    /\ seq' = seq + 1
    /\ LET q == Append(rcvq, ReplyMsg(seq + 1, "ack", "none"))
           p == CHOOSE i \in 1..Len(q) :
                  /\ q[i].seq \in {seq, seq + 1}
                  /\ \A j \in 1..(i - 1) : q[j].seq \notin {seq, seq + 1}
       IN /\ rcvq' = SubSeq(q, p + 1, Len(q))
          /\ ret' = [ret EXCEPT !.next = IF q[p].type = "nack" THEN q[p].err ELSE "ok"]
    /\ pc' = "next"
    /\ UNCHANGED <<cmd, tab, sys, kdump, dump, cur, flushb, flushed, round, failedToo, env>>

Program ==
    \/ Request \/ OutOfRounds \/ DumpRecv \/ PassOver \/ Collect \/ MoreToCome
    \/ NothingFlushed \/ AddrRound \/ NeighRound \/ RouteRound

Next == Program \/ NextCommand \/ KernelChunk \/ OtherProgram

Spec == Init /\ [][Next]_vars

FairSpec == Spec /\ WF_vars(Program) /\ WF_vars(KernelChunk)

-----------------------------------------------------------------------------
(* A flush that reports success has left no matching object in the table,  *)
(* although the index of the dump passes over entries when its callback    *)
(* deletes: the round that matched nothing saw everything, unless another  *)
(* program changed the table during it.                                    *)
FlushComplete ==
    ret.flush = "ok" /\ ~Primary /\ ~env.disturbed =>
        \A p \in 1..Len(tab) : ~Matches(tab[p])

(* Left alone by other programs and by refusals, a flush succeeds: deletes *)
(* of what an earlier delete took along are no failure, the failed entries *)
(* a neighbour flush leaves do not keep it busy, and one round more than   *)
(* there are objects suffices.                                             *)
FlushSucceeds ==
    sys.deny = {} /\ env.left = MaxEnv =>
        /\ ret.flush \notin {"failed", "terminated"}
        /\ ret.flush = "incomplete" =>
              Kind = "route" \/ MaxRounds \in 1..Cardinality(Objs)

(* The comment of flush_update in ip/ipaddress.c, "ignore EADDRNOTAVAIL    *)
(* errors returned from a flush request": such an error never makes the    *)
(* next command of the batch, which the kernel accepts, fail.              *)
GoneIsIgnored == ret.next # "notavail"

(* The flush ends, whatever the kernel refuses and other programs do.      *)
FlushEnds == <>(pc \in {"over", "next"})

=============================================================================
