------------------------------- MODULE Netlink -------------------------------
(***************************************************************************)
(* The request/reply transport of lib/libnetlink.c: one rtnl_handle, its   *)
(* socket, and the kernel at the other end.                                *)
(*                                                                         *)
(* The client is single threaded and blocks in recvmsg, so one action is   *)
(* one system call together with the code up to the next one: a request    *)
(* (the kernel answers it inside sendmsg), or one iteration of a receive   *)
(* loop on the datagram at the head of the socket queue.  The kernel       *)
(* builds one datagram per acknowledgement and per piece of a dump, and    *)
(* never mixes the answers to two requests in one datagram, so a datagram  *)
(* is a record with one sequence number.                                   *)
(***************************************************************************)
EXTENDS Integers, Sequences

CONSTANTS
    MaxSeq,     \* bound: sequence numbers a behaviour may use
    MaxIov,     \* most messages in one rtnl_talk_iov call
    MaxObjs,    \* most objects in a dumped table
    MaxQueue    \* bound: datagrams waiting on the socket

ASSUME NetlinkAssumption ==
    /\ MaxSeq \in Nat /\ MaxIov \in Nat /\ MaxObjs \in Nat /\ MaxQueue \in Nat

VARIABLES
    pc,         \* the library call in progress: "idle", "talk" or "dump"
    seq,        \* rth->seq
    dump,       \* rth->dump
    rcvq,       \* datagrams queued on the socket
    kdump,      \* the dump the kernel is running on this socket
    enobufs,    \* the kernel could not queue a datagram: pending ENOBUFS
    call,       \* locals of the call in progress
    got,        \* objects the dump callback has been given
    outcome,    \* history: what the kernel did with each request
    size,       \* history: how many objects each dump has
    res         \* history: how the last call returned

vars == <<pc, seq, dump, rcvq, kdump, enobufs, call, got, outcome, size, res>>

Seqs == 1..MaxSeq

Ack(s)    == [type |-> "ack",    seq |-> s, lo |-> 1, hi |-> 0, done |-> "no"]
Nack(s)   == [type |-> "nack",   seq |-> s, lo |-> 1, hi |-> 0, done |-> "no"]
Answer(s) == [type |-> "answer", seq |-> s, lo |-> 1, hi |-> 0, done |-> "no"]
Event     == [type |-> "event",  seq |-> 0, lo |-> 1, hi |-> 0, done |-> "no"]

(* One datagram of a dump: the objects lo..hi, then NLMSG_DONE or not;     *)
(* done is "err" when NLMSG_DONE carries a negative status.                *)
Chunk(s, l, h, d) ==
    [type |-> "chunk", seq |-> s, lo |-> l, hi |-> h, done |-> d]

Datagram ==
    [type : {"ack", "nack", "answer", "event", "chunk"}, seq : 0..MaxSeq,
     lo : 1..(MaxObjs + 1), hi : 0..MaxObjs, done : {"no", "ok", "err"}]

NoDump == [on |-> FALSE, seq |-> 0, next |-> 1]

(* first..last are the sequence numbers of the messages of the call, ans   *)
(* says that the caller wants the reply, i counts the datagrams received;  *)
(* clean and fresh are history (see TalkSend).                             *)
NoCall == [first |-> 1, last |-> 0, ans |-> FALSE, i |-> 0,
           clean |-> FALSE, fresh |-> FALSE]

Calls ==
    [first : 1..(MaxSeq + 1), last : 0..MaxSeq, ans : BOOLEAN, i : Nat,
     clean : BOOLEAN, fresh : BOOLEAN]

Returns == {"none", "ok", "nack", "recv", "done_err", "filter"}

NoRes == [op |-> "none", ret |-> "none", i |-> 0, reply |-> 0, call |-> NoCall]

TypeOK ==
    /\ pc \in {"idle", "talk", "dump"}
    /\ seq \in 0..MaxSeq
    /\ dump \in 0..MaxSeq
    /\ rcvq \in Seq(Datagram)
    /\ kdump \in [on : BOOLEAN, seq : 0..MaxSeq, next : 1..(MaxObjs + 1)]
    /\ enobufs \in BOOLEAN
    /\ call \in Calls
    /\ got \in Seq(1..MaxObjs)
    /\ outcome \in [Seqs -> {"none", "ok", "err"}]
    /\ size \in [Seqs -> 0..MaxObjs]
    /\ res \in [op : {"none", "talk", "dump"}, ret : Returns, i : Nat,
                reply : 0..MaxSeq, call : Calls]

(* rtnl_open_byproto: a fresh socket; seq starts at time(NULL), taken as 0 *)
Init ==
    /\ pc = "idle"
    /\ seq = 0
    /\ dump = 0
    /\ rcvq = << >>
    /\ kdump = NoDump
    /\ enobufs = FALSE
    /\ call = NoCall
    /\ got = << >>
    /\ outcome = [s \in Seqs |-> "none"]
    /\ size = [s \in Seqs |-> 0]
    /\ res = NoRes

-----------------------------------------------------------------------------
(* What both receive loops do when they return.                            *)
Return(op, ret, i, reply) ==
    /\ pc' = "idle"
    /\ res' = [op |-> op, ret |-> ret, i |-> i, reply |-> reply, call |-> call]
    /\ call' = NoCall

(* The kernel's reply to one message of a request.                         *)
Reply(s, ok, ans) ==
    IF ~ok THEN Nack(s) ELSE IF ans THEN Answer(s) ELSE Ack(s)

(* __rtnl_talk_iov up to sendmsg: number the n messages, ask for           *)
(* acknowledgements unless an answer is wanted, send.  The kernel handles  *)
(* every message in order, whatever became of the ones before; when it     *)
(* cannot queue a reply (it queues the first q) it raises ENOBUFS instead. *)
(* clean: nothing was waiting on the socket and nothing else will arrive.  *)
(* fresh: nothing waiting, or still to come, carries the sequence number   *)
(* of the previous request.                                                *)
TalkSend ==
    /\ pc = "idle"
    /\ \E n \in 1..MaxIov, ans \in BOOLEAN, q \in 0..MaxIov :
        /\ seq + n <= MaxSeq
        /\ ans => n = 1
        /\ q <= n
        /\ \E ok \in [1..n -> BOOLEAN] :
            /\ Len(rcvq) + n <= MaxQueue
            /\ outcome' = [s \in Seqs |-> IF s \in (seq + 1)..(seq + n)
                                          THEN IF ok[s - seq] THEN "ok" ELSE "err"
                                          ELSE outcome[s]]
            /\ rcvq' = rcvq \o [j \in 1..q |-> Reply(seq + j, ok[j], ans)]
        /\ enobufs' = (enobufs \/ q < n)
        /\ seq' = seq + n
        /\ call' = [first |-> seq + 1, last |-> seq + n, ans |-> ans, i |-> 0,
                    clean |-> rcvq = << >> /\ ~kdump.on,
                    fresh |-> /\ \A p \in 1..Len(rcvq) : rcvq[p].seq # seq
                              /\ kdump.on => kdump.seq # seq]
    /\ pc' = "talk"
    /\ got' = << >>
    /\ res' = NoRes
    /\ UNCHANGED <<dump, kdump, size>>

(* Mutant: the window of sequence numbers is not looked at                 *)
TalkAcceptsAnySeq(d) == d.type # "event"

(* The messages __rtnl_talk_iov does not skip: from the kernel, addressed  *)
(* to this socket, and not above seq nor below seq - iovlen.               *)
TalkAccepts(d) ==
    /\ d.type # "event"
    /\ d.seq <= call.last
    /\ d.seq >= call.last - (call.last - call.first + 1)

(* The datagram recvmsg returns                                            *)
Msg == Head(rcvq)

(* One iteration of the receive loop                                       *)
TalkRecv ==
    /\ pc = "talk"
    /\ ~enobufs
    /\ rcvq # << >>
    /\ rcvq' = Tail(rcvq)
    /\ UNCHANGED <<seq, dump, kdump, enobufs, got, outcome, size>>

(* A datagram that is skipped, or an unexpected reply: the loop goes on    *)
TalkSkip ==
    /\ TalkRecv
    /\ ~TalkAccepts(Msg) \/ (Msg.type \notin {"ack", "nack"} /\ ~call.ans)
    /\ call' = [call EXCEPT !.i = @ + 1]
    /\ UNCHANGED <<pc, res>>

(* An acknowledgement ends the call when it is the last message's or when  *)
(* as many datagrams as messages have been received.                       *)
TalkAck ==
    /\ TalkRecv
    /\ TalkAccepts(Msg) /\ Msg.type = "ack"
    /\ LET i == call.i + 1 IN
       \/ /\ Msg.seq = call.last \/ i >= call.last - call.first + 1
          /\ Return("talk", "ok", i, IF call.ans THEN Msg.seq ELSE 0)
       \/ /\ Msg.seq # call.last /\ i < call.last - call.first + 1
          /\ call' = [call EXCEPT !.i = i]
          /\ UNCHANGED <<pc, res>>

(* Mutant: the count is read before it is incremented                      *)
TalkNackUncounted ==
    /\ TalkRecv
    /\ TalkAccepts(Msg) /\ Msg.type = "nack"
    /\ Return("talk", "nack", call.i, 0)

(* An error ends the call with minus the number of datagrams received      *)
TalkNack ==
    /\ TalkRecv
    /\ TalkAccepts(Msg) /\ Msg.type = "nack"
    /\ Return("talk", "nack", call.i + 1, 0)

(* Anything else is the answer, for a caller that wants one                *)
TalkAnswer ==
    /\ TalkRecv
    /\ TalkAccepts(Msg) /\ Msg.type \in {"answer", "chunk"} /\ call.ans
    /\ Return("talk", "ok", call.i + 1, Msg.seq)

-----------------------------------------------------------------------------
(* rtnl_wilddump_request and its variants.  A socket runs one dump at a    *)
(* time: the kernel refuses a second one.                                  *)
DumpRequest ==
    /\ pc = "idle"
    /\ seq < MaxSeq
    /\ Len(rcvq) < MaxQueue
    /\ seq' = seq + 1
    /\ dump' = seq + 1
    /\ \/ /\ ~kdump.on
          /\ \E k \in 0..MaxObjs : size' = [size EXCEPT ![seq + 1] = k]
          /\ kdump' = [on |-> TRUE, seq |-> seq + 1, next |-> 1]
          /\ outcome' = [outcome EXCEPT ![seq + 1] = "ok"]
          /\ UNCHANGED rcvq
       \/ /\ outcome' = [outcome EXCEPT ![seq + 1] = "err"]
          /\ rcvq' = Append(rcvq, Nack(seq + 1))
          /\ UNCHANGED <<kdump, size>>
    /\ got' = << >>
    /\ call' = NoCall
    /\ pc' = "dump"
    /\ res' = NoRes
    /\ UNCHANGED enobufs

(* One iteration of the loop of rtnl_dump_filter_l                         *)
DumpRecv ==
    /\ pc = "dump"
    /\ ~enobufs
    /\ rcvq # << >>
    /\ rcvq' = Tail(rcvq)
    /\ UNCHANGED <<seq, dump, kdump, enobufs, outcome, size>>

(* Mutant: rth->dump is not compared with the sequence number              *)
DumpAcceptsAnySeq(d) == d.type # "event"

(* The messages rtnl_dump_filter_l does not skip                           *)
DumpAccepts(d) == d.type # "event" /\ d.seq = dump

DumpSkip ==
    /\ DumpRecv
    /\ ~DumpAccepts(Msg)
    /\ UNCHANGED <<pc, call, got, res>>

(* rtnl_dump_error                                                         *)
DumpNack ==
    /\ DumpRecv
    /\ DumpAccepts(Msg) /\ Msg.type = "nack"
    /\ Return("dump", "nack", 0, 0)
    /\ UNCHANGED got

(* Mutant: NLMSG_OK off by one, the loop reads past the end of the datagram *)
DumpChunkOverrun ==
    /\ DumpRecv
    /\ DumpAccepts(Msg) /\ Msg.type = "chunk"
    /\ got' = got \o [j \in 1..(Msg.hi - Msg.lo + 2) |-> Msg.lo + j - 1]
    /\ UNCHANGED <<pc, call, res>>

(* The callback gets the objects of the datagram one by one, until it      *)
(* fails; NLMSG_DONE ends the dump (rtnl_dump_done).                       *)
DumpChunk ==
    /\ DumpRecv
    /\ DumpAccepts(Msg) /\ Msg.type = "chunk"
    /\ LET objs(h) == [j \in 1..(h - Msg.lo + 1) |-> Msg.lo + j - 1]
       IN \/ \E h \in Msg.lo..Msg.hi :
              /\ got' = got \o objs(h)
              /\ Return("dump", "filter", 0, 0)
          \/ /\ Msg.done = "no"
             /\ got' = got \o objs(Msg.hi)
             /\ UNCHANGED <<pc, call, res>>
          \/ /\ Msg.done # "no"
             /\ got' = got \o objs(Msg.hi)
             /\ Return("dump", IF Msg.done = "ok" THEN "ok" ELSE "done_err", 0, 0)

-----------------------------------------------------------------------------
(* Mutant: ENOBUFS is treated like EINTR and recvmsg is called again       *)
RecvErrorRetried ==
    /\ pc \in {"talk", "dump"}
    /\ enobufs
    /\ enobufs' = FALSE
    /\ UNCHANGED <<pc, call, res, seq, dump, rcvq, kdump, got, outcome, size>>

(* rtnl_recvmsg failing in either loop: the call returns the error         *)
RecvError ==
    /\ pc \in {"talk", "dump"}
    /\ enobufs
    /\ enobufs' = FALSE
    /\ Return(pc, "recv", call.i + 1, 0)
    /\ UNCHANGED <<seq, dump, rcvq, kdump, got, outcome, size>>

(* rtnl_send of a message that asks for no acknowledgement, between two    *)
(* calls or from a dump callback: only a failure is answered.              *)
Send ==
    /\ pc \in {"idle", "dump"}
    /\ seq < MaxSeq
    /\ Len(rcvq) < MaxQueue
    /\ seq' = seq + 1
    /\ \/ /\ outcome' = [outcome EXCEPT ![seq + 1] = "ok"]
          /\ UNCHANGED rcvq
       \/ /\ outcome' = [outcome EXCEPT ![seq + 1] = "err"]
          /\ rcvq' = Append(rcvq, Nack(seq + 1))
    /\ UNCHANGED <<pc, dump, kdump, enobufs, call, got, size, res>>

(* The kernel continues the dump while there is room on the socket         *)
KernelChunk ==
    /\ kdump.on
    /\ Len(rcvq) < MaxQueue
    /\ \E h \in (kdump.next - 1)..size[kdump.seq], d \in {"no", "ok", "err"} :
        /\ d = "no" => h >= kdump.next
        /\ d = "ok" => h = size[kdump.seq]
        /\ rcvq' = Append(rcvq, Chunk(kdump.seq, kdump.next, h, d))
        /\ kdump' = IF d = "no" THEN [kdump EXCEPT !.next = h + 1] ELSE NoDump
    /\ UNCHANGED <<pc, seq, dump, enobufs, call, got, outcome, size, res>>

(* A notification for a group the handle subscribed to; an overrun raises  *)
(* ENOBUFS.                                                                *)
KernelEvent ==
    /\ \/ /\ Len(rcvq) < MaxQueue
          /\ rcvq' = Append(rcvq, Event)
          /\ UNCHANGED enobufs
       \/ /\ enobufs' = TRUE
          /\ UNCHANGED rcvq
    /\ call' = [call EXCEPT !.clean = FALSE]
    /\ UNCHANGED <<pc, seq, dump, kdump, got, outcome, size, res>>

Client ==
    \/ TalkSkip \/ TalkAck \/ TalkNack \/ TalkAnswer
    \/ DumpSkip \/ DumpNack \/ DumpChunk \/ RecvError

Next ==
    \/ TalkSend \/ DumpRequest \/ Send
    \/ Client
    \/ KernelChunk \/ KernelEvent

Spec == Init /\ [][Next]_vars

(* The program keeps reading.  The kernel continues a running dump inside  *)
(* the recvmsg calls that find room on the socket, so it is not starved by *)
(* notifications (strong fairness).  Nothing obliges the program to make   *)
(* another request or the kernel to send a notification.                   *)
FairSpec == Spec /\ WF_vars(Client) /\ SF_vars(KernelChunk)

-----------------------------------------------------------------------------
Single(c) == c.first = c.last

(* rtnl_talk and rtnl_talk_iov: a call that found nothing on the socket,   *)
(* or a one-message call that found no left-over of the request before it, *)
(* returns success only if the kernel accepted every message of it, and    *)
(* reports a refusal only if the kernel refused one.                       *)
TalkVerdict ==
    res.op = "talk" /\ (res.call.clean \/ (res.call.fresh /\ Single(res.call))) =>
        /\ res.ret = "ok" =>
              \A s \in res.call.first..res.call.last : outcome[s] = "ok"
        /\ res.ret = "nack" =>
              \E s \in res.call.first..res.call.last : outcome[s] = "err"

(* rtnl_talk_iov: minus the returned value is the place in the batch of    *)
(* the first message the kernel refused; batch() of tc/tc.c turns it into  *)
(* the line number it reports.                                             *)
BatchIndex ==
    res.op = "talk" /\ res.call.clean /\ res.ret = "nack" =>
        LET bad == res.call.first + res.i - 1 IN
        /\ bad \in res.call.first..res.call.last
        /\ outcome[bad] = "err"
        /\ \A s \in res.call.first..(bad - 1) : outcome[s] = "ok"

(* rtnl_talk with an answer: the buffer handed to the caller is the reply  *)
(* to this very request, unless the request before it left something.      *)
AnswerIsMine ==
    res.op = "talk" /\ res.ret = "ok" /\ res.call.ans /\ res.call.fresh =>
        res.reply = res.call.last

(* rtnl_dump_filter: whatever earlier calls and notifications left on the  *)
(* socket, a dump that returns success has given the callback every object *)
(* of the table exactly once and in order.                                 *)
DumpExact ==
    res.op = "dump" /\ res.ret = "ok" =>
        got = [j \in 1..size[dump] |-> j]

(* rtnl_dump_filter as its callers see it: whatever is left over on the    *)
(* socket, arrives in between or is lost, the transport behaves like the   *)
(* dump of DumpCall.tla.                                                   *)
Call == INSTANCE DumpCall WITH
            Limit   <- MaxObjs,
            busy    <- pc = "dump",
            table   <- IF dump = 0 THEN 0 ELSE size[dump],
            given   <- got,
            verdict <- IF res.op # "dump" THEN "none"
                       ELSE IF res.ret = "ok" THEN "ok" ELSE "failed"
DumpImplemented == Call!Spec

(* rtnl_dump_filter: an error that ends a dump is the kernel's refusal of  *)
(* this dump, not of a request sent before it or by its callback.          *)
DumpOwnError ==
    res.op = "dump" /\ res.ret = "nack" => outcome[dump] = "err"

(* Both receive loops end: a one-message call and a dump always return,    *)
(* since the kernel answers every request or raises ENOBUFS.               *)
CallsReturn == pc \in {"talk", "dump"} ~> pc = "idle"

=============================================================================
