---------------------------- MODULE NetlinkProofs ----------------------------
(***************************************************************************)
(* Proofs about Netlink for any number of requests, any length of batch    *)
(* and of the socket queue: what __rtnl_talk_iov returns is the kernel's   *)
(* verdict on the very messages of the call, and rtnl_dump_filter_l hands  *)
(* on the objects of the table once each (the last part of the module).    *)
(***************************************************************************)
EXTENDS Netlink, SequenceTheorems, TLAPS

(* What a datagram says of the request whose number it carries.            *)
Truthful(d) ==
    \/ d.type = "event"
    \/ /\ d.seq \in 1..seq
       /\ outcome[d.seq] = IF d.type = "nack" THEN "err" ELSE "ok"

QueueTruthful == \A p \in 1..Len(rcvq) : Truthful(rcvq[p])

DumpTruthful == kdump.on => kdump.seq \in 1..seq /\ outcome[kdump.seq] = "ok"

(* The messages of the call in progress are the last ones numbered, and    *)
(* rth->dump is a number that was given.                                   *)
CallNumbered ==
    /\ dump <= seq
    /\ pc = "dump" => dump \in 1..seq
    /\ pc = "talk" => /\ call.first \in 1..seq /\ call.last = seq
                      /\ call.ans => call.first = call.last

(* A fresh call: nothing on the socket, or still to come from the kernel,  *)
(* has the number just below the call's own.                               *)
FreshQueue ==
    pc = "talk" /\ call.fresh =>
        /\ \A p \in 1..Len(rcvq) : rcvq[p].type # "event" => rcvq[p].seq # call.first - 1
        /\ kdump.on => kdump.seq # call.first - 1

(* A clean call: the queue is exactly the replies still to be read, in the *)
(* order of the messages, and those read before were acknowledgements.     *)
CleanQueue ==
    pc = "talk" /\ call.clean =>
        /\ ~kdump.on
        /\ ~enobufs =>
            /\ Len(rcvq) = call.last - call.first + 1 - call.i
            /\ \A p \in 1..Len(rcvq) :
                /\ rcvq[p].seq = call.first + call.i + p - 1
                /\ rcvq[p].type \in {"ack", "nack", "answer"}
                /\ rcvq[p].type = "answer" => call.ans
            /\ \A s \in call.first..(call.first + call.i - 1) : outcome[s] = "ok"

(* The call whose result is kept is one of the past.                       *)
ResNumbered ==
    /\ res.op = "talk" => /\ res.call.first \in 1..seq /\ res.call.last \in 1..seq
                          /\ res.call.first <= res.call.last
    /\ res.op = "dump" => dump \in 1..seq

Verdicts == TalkVerdict /\ BatchIndex /\ AnswerIsMine /\ DumpOwnError

(* The inductive invariant.                                                *)
IInv ==
    /\ TypeOK
    /\ QueueTruthful /\ DumpTruthful /\ CallNumbered
    /\ FreshQueue /\ CleanQueue
    /\ ResNumbered /\ Verdicts

-----------------------------------------------------------------------------
LEMMA InitInv == Init => IInv
<1> SUFFICES ASSUME Init PROVE IInv
  OBVIOUS
<1> USE NetlinkAssumption
<1>1. TypeOK
  <2>1. rcvq \in Seq(Datagram) /\ got \in Seq(1..MaxObjs)
    BY Zenon, EmptySeq DEF Init
  <2>2. call \in Calls
    BY DEF Init, NoCall, Calls
  <2>3. res \in [op : {"none", "talk", "dump"}, ret : Returns, i : Nat,
                 reply : 0..MaxSeq, call : Calls]
    BY <2>2 DEF Init, NoRes, Returns
  <2>4. kdump \in [on : BOOLEAN, seq : 0..MaxSeq, next : 1..(MaxObjs + 1)]
    BY DEF Init, NoDump
  <2>5. outcome \in [Seqs -> {"none", "ok", "err"}] /\ size \in [Seqs -> 0..MaxObjs]
    BY DEF Init
  <2>6. pc \in {"idle", "talk", "dump"} /\ enobufs \in BOOLEAN
    BY Zenon DEF Init
  <2>7. seq \in 0..MaxSeq /\ dump \in 0..MaxSeq
    BY DEF Init
  <2> QED BY Zenon, <2>1, <2>2, <2>3, <2>4, <2>5, <2>6, <2>7 DEF TypeOK
<1>2. QueueTruthful /\ DumpTruthful
  BY EmptySeq DEF Init, QueueTruthful, DumpTruthful, NoDump
<1>3. CallNumbered /\ FreshQueue /\ CleanQueue
  BY DEF Init, CallNumbered, FreshQueue, CleanQueue
<1>4. ResNumbered /\ Verdicts
  BY Zenon DEF Init, ResNumbered, Verdicts, NoRes, TalkVerdict, BatchIndex, AnswerIsMine, DumpOwnError
<1> QED BY Zenon, <1>1, <1>2, <1>3, <1>4 DEF IInv

-----------------------------------------------------------------------------
(* The socket queue after recvmsg.                                         *)
LEMMA Received ==
    ASSUME rcvq \in Seq(Datagram), rcvq # << >>
    PROVE  /\ Len(rcvq) \in Nat /\ Len(rcvq) >= 1
           /\ Msg = rcvq[1] /\ Msg \in Datagram
           /\ Tail(rcvq) \in Seq(Datagram)
           /\ Len(Tail(rcvq)) = Len(rcvq) - 1
           /\ \A p \in 1..Len(Tail(rcvq)) : /\ p + 1 \in 1..Len(rcvq)
                                          /\ Tail(rcvq)[p] = rcvq[p + 1]
<1>1. Len(rcvq) \in Nat /\ Len(rcvq) >= 1
  BY EmptySeq, LenProperties
<1>2. Msg = rcvq[1] /\ Msg \in Datagram
  BY <1>1, HeadTailProperties, ElementOfSeq DEF Msg
<1>3. /\ Tail(rcvq) \in Seq(Datagram)
      /\ Len(Tail(rcvq)) = Len(rcvq) - 1
      /\ \A p \in 1..Len(Tail(rcvq)) : Tail(rcvq)[p] = rcvq[p + 1]
  BY Zenon, HeadTailProperties
<1> QED BY <1>1, <1>2, <1>3

(* The socket queue after the kernel added a datagram.                     *)
LEMMA Queued ==
    ASSUME rcvq \in Seq(Datagram), NEW d \in Datagram
    PROVE  /\ Len(rcvq) \in Nat
           /\ Append(rcvq, d) \in Seq(Datagram)
           /\ Len(Append(rcvq, d)) = Len(rcvq) + 1
           /\ \A p \in 1..Len(Append(rcvq, d)) :
                 \/ p \in 1..Len(rcvq) /\ Append(rcvq, d)[p] = rcvq[p]
                 \/ Append(rcvq, d)[p] = d
<1>1. /\ Append(rcvq, d) \in Seq(Datagram)
      /\ Len(Append(rcvq, d)) = Len(rcvq) + 1
      /\ \A p \in 1..Len(rcvq) : Append(rcvq, d)[p] = rcvq[p]
      /\ Append(rcvq, d)[Len(rcvq) + 1] = d
  BY AppendProperties
<1>2. Len(rcvq) \in Nat
  BY Zenon, LenProperties
<1> QED BY <1>1, <1>2

(* A message of the receive loop that is not skipped tells the truth, and  *)
(* in a fresh one-message call or in a clean call it is the reply the call *)
(* waits for next.                                                         *)
LEMMA Accepted ==
    ASSUME IInv, pc = "talk", ~enobufs, rcvq # << >>, TalkAccepts(Msg)
    PROVE  /\ Msg.seq \in 1..seq
           /\ outcome[Msg.seq] = IF Msg.type = "nack" THEN "err" ELSE "ok"
           /\ call.fresh /\ Single(call) => Msg.seq = call.last
           /\ call.clean => /\ Msg.seq = call.first + call.i
                            /\ Msg.seq <= call.last
                            /\ \A s \in call.first..(Msg.seq - 1) : outcome[s] = "ok"
<1>0. rcvq \in Seq(Datagram) /\ call \in Calls /\ seq \in Nat
  BY NetlinkAssumption DEF IInv, TypeOK
<1>1. Len(rcvq) \in Nat /\ 1 \in 1..Len(rcvq) /\ Msg = rcvq[1] /\ Msg \in Datagram
  BY <1>0, Received
<1>2. Msg.type # "event"
  BY Zenon DEF TalkAccepts
<1>3. Truthful(Msg)
  BY Zenon, <1>1 DEF IInv, QueueTruthful
<1>4. Msg.seq \in 1..seq /\ outcome[Msg.seq] = IF Msg.type = "nack" THEN "err" ELSE "ok"
  BY Zenon, <1>2, <1>3 DEF Truthful
<1>5. call.first \in 1..seq /\ call.last = seq /\ call.i \in Nat
  BY Zenon, <1>0 DEF IInv, CallNumbered, Calls
<1>6. ASSUME call.fresh, Single(call) PROVE Msg.seq = call.last
  <2>1. Msg.seq # call.first - 1
    BY Zenon, <1>1, <1>2, <1>6 DEF IInv, FreshQueue
  <2>2. Msg.seq <= call.last /\ Msg.seq >= call.last - (call.last - call.first + 1)
    BY Zenon DEF TalkAccepts
  <2> QED BY <1>0, <1>4, <1>5, <1>6, <2>1, <2>2 DEF Single
<1>7. ASSUME call.clean PROVE /\ Msg.seq = call.first + call.i
                              /\ Msg.seq <= call.last
                              /\ \A s \in call.first..(Msg.seq - 1) : outcome[s] = "ok"
  <2>1. /\ Len(rcvq) = call.last - call.first + 1 - call.i
        /\ rcvq[1].seq = call.first + call.i + 1 - 1
        /\ \A s \in call.first..(call.first + call.i - 1) : outcome[s] = "ok"
    BY Zenon, <1>1, <1>7 DEF IInv, CleanQueue
  <2> QED BY SMTT(60), <1>0, <1>1, <1>5, <2>1
<1> QED BY Zenon, <1>4, <1>6, <1>7

-----------------------------------------------------------------------------
Results == [op : {"none", "talk", "dump"}, ret : Returns, i : Nat, reply : 0..MaxSeq,
            call : Calls]

(* Both receive loops take a datagram off the queue and leave the kernel's *)
(* side alone: what is left on the queue stays truthful.                   *)
LEMMA RecvQueue ==
    ASSUME IInv, rcvq # << >>, rcvq' = Tail(rcvq),
           UNCHANGED <<seq, dump, kdump, enobufs, outcome, size>>
    PROVE  /\ rcvq' \in Seq(Datagram)
           /\ QueueTruthful' /\ DumpTruthful'
<1>0. rcvq \in Seq(Datagram)
  BY Zenon DEF IInv, TypeOK
<1>1. rcvq' \in Seq(Datagram)
  BY Zenon, <1>0, Received
<1>2. ASSUME NEW p \in 1..Len(rcvq') PROVE Truthful(rcvq[p])'
  <2>1. p + 1 \in 1..Len(rcvq) /\ rcvq'[p] = rcvq[p + 1]
    BY Zenon, <1>0, Received
  <2>2. Truthful(rcvq[p + 1])
    BY Zenon, <2>1 DEF IInv, QueueTruthful
  <2> QED BY Zenon, <2>1, <2>2 DEF Truthful
<1>3. DumpTruthful'
  BY Zenon DEF IInv, DumpTruthful
<1> QED BY Zenon, <1>1, <1>2, <1>3 DEF QueueTruthful

(* Returning to the caller ends every obligation about a call in progress. *)
LEMMA Returned ==
    ASSUME IInv, NEW op \in {"talk", "dump"}, NEW ret \in Returns, NEW n \in Nat,
           NEW reply \in 0..MaxSeq, Return(op, ret, n, reply),
           UNCHANGED <<seq, dump>>
    PROVE  /\ pc' \in {"idle", "talk", "dump"} /\ call' \in Calls /\ res' \in Results
           /\ CallNumbered' /\ FreshQueue' /\ CleanQueue'
           /\ res'.op = op /\ res'.ret = ret /\ res'.i = n /\ res'.reply = reply
           /\ res'.call = call
<1> USE NetlinkAssumption
<1>1. pc' = "idle" /\ call' = NoCall
      /\ res' = [op |-> op, ret |-> ret, i |-> n, reply |-> reply, call |-> call]
  BY Zenon DEF Return
<1>2. call' \in Calls
  BY <1>1 DEF NoCall, Calls
<1>3. call \in Calls
  BY Zenon DEF IInv, TypeOK
<1>4. res' \in Results
  BY Zenon, <1>1, <1>3 DEF Results
<1>5. CallNumbered' /\ FreshQueue' /\ CleanQueue'
  BY Zenon, <1>1 DEF IInv, CallNumbered, FreshQueue, CleanQueue
<1> QED BY Zenon, <1>1, <1>2, <1>4, <1>5

LEMMA TalkSkipInv == IInv /\ TalkSkip => IInv'
<1> SUFFICES ASSUME IInv, TalkSkip PROVE IInv'
  OBVIOUS
<1>0. /\ pc = "talk" /\ ~enobufs /\ rcvq # << >> /\ rcvq' = Tail(rcvq)
      /\ UNCHANGED <<seq, dump, kdump, enobufs, got, outcome, size, pc, res>>
      /\ call' = [call EXCEPT !.i = @ + 1]
  BY Zenon DEF TalkSkip, TalkRecv
<1>1. rcvq \in Seq(Datagram) /\ call \in Calls /\ seq \in Nat
  BY NetlinkAssumption DEF IInv, TypeOK
<1>2. rcvq' \in Seq(Datagram) /\ QueueTruthful' /\ DumpTruthful'
  BY Zenon, <1>0, RecvQueue
<1>3. /\ call' \in Calls
      /\ call'.first = call.first /\ call'.last = call.last /\ call'.ans = call.ans
      /\ call'.clean = call.clean /\ call'.fresh = call.fresh
  BY SMTT(60), <1>0, <1>1 DEF Calls
<1>4. TypeOK'
  BY Zenon, <1>0, <1>2, <1>3 DEF IInv, TypeOK
<1>5. CallNumbered'
  BY Zenon, <1>0, <1>3 DEF IInv, CallNumbered
<1>6. FreshQueue'
  BY ZenonT(60), <1>0, <1>1, <1>3, Received DEF IInv, FreshQueue
<1>7. CleanQueue'
  <2> SUFFICES ASSUME call.clean PROVE FALSE
    BY Zenon, <1>0, <1>3 DEF CleanQueue
  <2>1. Len(rcvq) \in Nat /\ 1 \in 1..Len(rcvq) /\ Msg = rcvq[1] /\ Msg \in Datagram
    BY <1>0, <1>1, Received
  <2>2. /\ Len(rcvq) = call.last - call.first + 1 - call.i
        /\ Msg.seq = call.first + call.i + 1 - 1
        /\ Msg.type \in {"ack", "nack", "answer"}
        /\ Msg.type = "answer" => call.ans
    BY Zenon, <1>0, <2>1 DEF IInv, CleanQueue
  <2>3. call.first \in 1..seq /\ call.last = seq /\ call.i \in Nat
    BY Zenon, <1>0, <1>1 DEF IInv, CallNumbered, Calls
  <2>4. TalkAccepts(Msg)
    BY SMTT(60), <1>1, <2>1, <2>2, <2>3 DEF TalkAccepts
  <2>5. Msg.type \notin {"ack", "nack"} /\ ~call.ans
    BY Zenon, <2>4 DEF TalkSkip
  <2> QED BY Zenon, <2>2, <2>5
<1>8. ResNumbered' /\ Verdicts'
  BY ZenonT(60), <1>0 DEF IInv, ResNumbered, Verdicts, TalkVerdict, BatchIndex, AnswerIsMine, DumpOwnError
<1> QED BY Zenon, <1>2, <1>4, <1>5, <1>6, <1>7, <1>8 DEF IInv

(* A call of __rtnl_talk_iov returns: what is left to show is the verdict. *)
LEMMA TalkReturned ==
    ASSUME IInv, TalkRecv, NEW ret \in Returns, NEW n \in Nat, NEW reply \in 0..MaxSeq,
           Return("talk", ret, n, reply),
           TalkVerdict', BatchIndex', AnswerIsMine'
    PROVE  IInv'
<1>0. /\ pc = "talk" /\ rcvq # << >> /\ rcvq' = Tail(rcvq)
      /\ UNCHANGED <<seq, dump, kdump, enobufs, got, outcome, size>>
  BY Zenon DEF TalkRecv
<1>1. rcvq' \in Seq(Datagram) /\ QueueTruthful' /\ DumpTruthful'
  BY Zenon, <1>0, RecvQueue
<1>2. /\ pc' \in {"idle", "talk", "dump"} /\ call' \in Calls /\ res' \in Results
      /\ CallNumbered' /\ FreshQueue' /\ CleanQueue'
      /\ res'.op = "talk" /\ res'.call = call
  BY Zenon, <1>0, Returned
<1>3. TypeOK'
  BY Zenon, <1>0, <1>1, <1>2 DEF IInv, TypeOK, Results
<1>4. ResNumbered'
  <2>1. call.first \in 1..seq /\ call.last = seq /\ seq \in Nat
    BY <1>0, NetlinkAssumption DEF IInv, CallNumbered, TypeOK
  <2> QED BY <1>0, <1>2, <2>1 DEF ResNumbered
<1>5. DumpOwnError'
  BY Zenon, <1>2 DEF DumpOwnError
<1> QED BY Zenon, <1>1, <1>2, <1>3, <1>4, <1>5 DEF IInv, Verdicts

LEMMA TalkAckInv == IInv /\ TalkAck => IInv'
<1> SUFFICES ASSUME IInv, TalkAck PROVE IInv'
  OBVIOUS
<1>0. /\ TalkRecv /\ pc = "talk" /\ ~enobufs /\ rcvq # << >> /\ rcvq' = Tail(rcvq)
      /\ UNCHANGED <<seq, dump, kdump, enobufs, got, outcome, size>>
      /\ TalkAccepts(Msg) /\ Msg.type = "ack"
  BY Zenon DEF TalkAck, TalkRecv
<1>1. rcvq \in Seq(Datagram) /\ call \in Calls /\ seq \in 0..MaxSeq /\ MaxSeq \in Nat
  BY Zenon, NetlinkAssumption DEF IInv, TypeOK
<1>2. /\ call.first \in 1..seq /\ call.last = seq /\ call.i \in Nat
      /\ call.ans => call.first = call.last
  BY Zenon, <1>0, <1>1 DEF IInv, CallNumbered, Calls
<1>3. /\ Msg.seq \in 1..seq
      /\ outcome[Msg.seq] = "ok"
      /\ call.fresh /\ Single(call) => Msg.seq = call.last
      /\ call.clean => /\ Msg.seq = call.first + call.i
                       /\ Msg.seq <= call.last
                       /\ \A s \in call.first..(Msg.seq - 1) : outcome[s] = "ok"
  BY Zenon, <1>0, Accepted
<1>4. CASE /\ Msg.seq = call.last \/ call.i + 1 >= call.last - call.first + 1
           /\ Return("talk", "ok", call.i + 1, IF call.ans THEN Msg.seq ELSE 0)
  <2> DEFINE reply == IF call.ans THEN Msg.seq ELSE 0
  <2>1. "ok" \in Returns /\ call.i + 1 \in Nat /\ reply \in 0..MaxSeq
    BY SMTT(60), <1>1, <1>2, <1>3 DEF Returns
  <2>2. /\ res'.op = "talk" /\ res'.ret = "ok" /\ res'.reply = reply /\ res'.call = call
    BY ZenonT(60), <1>0, <1>4, <2>1, Returned
  <2>3. ASSUME call.clean \/ (call.fresh /\ Single(call)),
               NEW s \in call.first..call.last
        PROVE  outcome[s] = "ok"
    <3>1. Msg.seq = call.last
      <4>1. CASE call.clean
        <5>1. Msg.seq = call.first + call.i /\ Msg.seq <= call.last
          BY Zenon, <1>3, <4>1
        <5>2. Msg.seq = call.last \/ call.i + 1 >= call.last - call.first + 1
          BY Zenon, <1>4
        <5> QED BY SMTT(60), <1>1, <1>2, <5>1, <5>2
      <4>2. CASE call.fresh /\ Single(call)
        BY Zenon, <1>3, <4>2
      <4> QED BY Zenon, <2>3, <4>1, <4>2
    <3>2. CASE s = call.last
      BY Zenon, <1>3, <3>1, <3>2
    <3>3. CASE s # call.last
      <4>1. CASE call.clean
        BY <1>1, <1>2, <1>3, <3>1, <3>3, <4>1
      <4>2. CASE call.fresh /\ Single(call)
        BY <1>1, <1>2, <3>3, <4>2 DEF Single
      <4> QED BY Zenon, <2>3, <4>1, <4>2
    <3> QED BY Zenon, <3>2, <3>3
  <2>4. TalkVerdict'
    BY Zenon, <1>0, <2>2, <2>3 DEF TalkVerdict, Single
  <2>5. BatchIndex'
    BY Zenon, <2>2 DEF BatchIndex
  <2>6. AnswerIsMine'
    BY Zenon, <1>2, <1>3, <2>2 DEF AnswerIsMine, Single
  <2> QED BY ZenonT(60), <1>0, <1>4, <2>1, <2>4, <2>5, <2>6, TalkReturned
<1>5. CASE /\ Msg.seq # call.last /\ call.i + 1 < call.last - call.first + 1
           /\ call' = [call EXCEPT !.i = call.i + 1]
           /\ UNCHANGED <<pc, res>>
  <2>1. rcvq' \in Seq(Datagram) /\ QueueTruthful' /\ DumpTruthful'
    BY Zenon, <1>0, RecvQueue
  <2>2. /\ call' \in Calls /\ call'.i = call.i + 1
        /\ call'.first = call.first /\ call'.last = call.last /\ call'.ans = call.ans
        /\ call'.clean = call.clean /\ call'.fresh = call.fresh
    BY SMTT(60), <1>1, <1>2, <1>5 DEF Calls
  <2>3. TypeOK'
    BY Zenon, <1>0, <1>5, <2>1, <2>2 DEF IInv, TypeOK
  <2>4. CallNumbered'
    BY Zenon, <1>0, <1>5, <2>2 DEF IInv, CallNumbered
  <2>5. FreshQueue'
    BY ZenonT(60), <1>0, <1>1, <1>5, <2>2, Received DEF IInv, FreshQueue
  <2>6. CleanQueue'
    <3> SUFFICES ASSUME call.clean
                 PROVE  /\ ~kdump.on
                        /\ Len(rcvq') = call.last - call.first + 1 - (call.i + 1)
                        /\ \A p \in 1..Len(rcvq') :
                            /\ rcvq'[p].seq = call.first + (call.i + 1) + p - 1
                            /\ rcvq'[p].type \in {"ack", "nack", "answer"}
                            /\ rcvq'[p].type = "answer" => call.ans
                        /\ \A s \in call.first..(call.first + (call.i + 1) - 1) :
                            outcome[s] = "ok"
      BY <1>0, <2>2 DEF CleanQueue
    <3>1. /\ ~kdump.on
          /\ Len(rcvq) = call.last - call.first + 1 - call.i
          /\ \A p \in 1..Len(rcvq) :
                /\ rcvq[p].seq = call.first + call.i + p - 1
                /\ rcvq[p].type \in {"ack", "nack", "answer"}
                /\ rcvq[p].type = "answer" => call.ans
      BY Zenon, <1>0 DEF IInv, CleanQueue
    <3>2. /\ Len(rcvq) \in Nat /\ Len(rcvq') = Len(rcvq) - 1
          /\ \A p \in 1..Len(rcvq') : p + 1 \in 1..Len(rcvq) /\ rcvq'[p] = rcvq[p + 1]
      BY Zenon, <1>0, <1>1, Received
    <3>3. ASSUME NEW p \in 1..Len(rcvq')
          PROVE  /\ rcvq'[p].seq = call.first + (call.i + 1) + p - 1
                 /\ rcvq'[p].type \in {"ack", "nack", "answer"}
                 /\ rcvq'[p].type = "answer" => call.ans
      BY SMTT(60), <1>1, <1>2, <3>1, <3>2
    <3>4. ASSUME NEW s \in call.first..(call.first + (call.i + 1) - 1)
          PROVE  outcome[s] = "ok"
      <4>1. s = Msg.seq \/ s \in call.first..(Msg.seq - 1)
        BY SMTT(60), <1>1, <1>2, <1>3
      <4> QED BY Zenon, <1>3, <4>1
    <3>5. Len(rcvq') = call.last - call.first + 1 - (call.i + 1)
      BY SMTT(60), <1>1, <1>2, <3>1, <3>2
    <3> QED BY Zenon, <3>1, <3>3, <3>4, <3>5
  <2>7. ResNumbered' /\ Verdicts'
    BY ZenonT(60), <1>0, <1>5 DEF IInv, ResNumbered, Verdicts, TalkVerdict, BatchIndex, AnswerIsMine,
                      DumpOwnError
  <2> QED BY Zenon, <2>1, <2>3, <2>4, <2>5, <2>6, <2>7 DEF IInv
<1> QED BY Zenon, <1>4, <1>5 DEF TalkAck

LEMMA TalkNackInv == IInv /\ TalkNack => IInv'
<1> SUFFICES ASSUME IInv, TalkNack PROVE IInv'
  OBVIOUS
<1>0. /\ TalkRecv /\ pc = "talk" /\ ~enobufs /\ rcvq # << >>
      /\ UNCHANGED <<seq, dump, outcome>>
      /\ TalkAccepts(Msg) /\ Msg.type = "nack"
      /\ Return("talk", "nack", call.i + 1, 0)
  BY Zenon DEF TalkNack, TalkRecv
<1>1. call \in Calls /\ seq \in 0..MaxSeq /\ MaxSeq \in Nat
  BY Zenon, NetlinkAssumption DEF IInv, TypeOK
<1>2. call.first \in 1..seq /\ call.last = seq /\ call.i \in Nat
  BY Zenon, <1>0, <1>1 DEF IInv, CallNumbered, Calls
<1>3. /\ Msg.seq \in 1..seq
      /\ outcome[Msg.seq] = "err"
      /\ call.fresh /\ Single(call) => Msg.seq = call.last
      /\ call.clean => /\ Msg.seq = call.first + call.i
                       /\ Msg.seq <= call.last
                       /\ \A s \in call.first..(Msg.seq - 1) : outcome[s] = "ok"
  BY Zenon, <1>0, Accepted
<1>4. "nack" \in Returns /\ call.i + 1 \in Nat /\ 0 \in 0..MaxSeq
  BY <1>1, <1>2 DEF Returns
<1>5. res'.op = "talk" /\ res'.ret = "nack" /\ res'.i = call.i + 1 /\ res'.call = call
  BY Zenon, <1>0, <1>4, Returned
<1>6. TalkVerdict'
  <2>1. ASSUME call.clean \/ (call.fresh /\ Single(call))
        PROVE  Msg.seq \in call.first..call.last
    <3>1. CASE call.clean
      BY <1>1, <1>2, <1>3, <3>1
    <3>2. CASE call.fresh /\ Single(call)
      BY <1>1, <1>2, <1>3, <3>2
    <3> QED BY Zenon, <2>1, <3>1, <3>2
  <2> QED BY Zenon, <1>0, <1>3, <1>5, <2>1 DEF TalkVerdict, Single
<1>7. BatchIndex'
  <2> SUFFICES ASSUME call.clean
               PROVE  LET bad == call.first + (call.i + 1) - 1 IN
                      /\ bad \in call.first..call.last
                      /\ outcome[bad] = "err"
                      /\ \A s \in call.first..(bad - 1) : outcome[s] = "ok"
    BY Zenon, <1>0, <1>5 DEF BatchIndex
  <2>1. call.first + (call.i + 1) - 1 = Msg.seq
    BY <1>1, <1>2, <1>3
  <2> QED BY <1>1, <1>2, <1>3, <2>1
<1>8. AnswerIsMine'
  BY Zenon, <1>5 DEF AnswerIsMine
<1> QED BY Zenon, <1>0, <1>4, <1>6, <1>7, <1>8, TalkReturned

LEMMA TalkAnswerInv == IInv /\ TalkAnswer => IInv'
<1> SUFFICES ASSUME IInv, TalkAnswer PROVE IInv'
  OBVIOUS
<1>0. /\ TalkRecv /\ pc = "talk" /\ ~enobufs /\ rcvq # << >>
      /\ UNCHANGED <<seq, dump, outcome>>
      /\ TalkAccepts(Msg) /\ Msg.type \in {"answer", "chunk"} /\ call.ans
      /\ Return("talk", "ok", call.i + 1, Msg.seq)
  BY Zenon DEF TalkAnswer, TalkRecv
<1>1. call \in Calls /\ seq \in 0..MaxSeq /\ MaxSeq \in Nat
  BY Zenon, NetlinkAssumption DEF IInv, TypeOK
<1>2. call.first \in 1..seq /\ call.last = seq /\ call.i \in Nat /\ call.first = call.last
  BY Zenon, <1>0, <1>1 DEF IInv, CallNumbered, Calls
<1>3. /\ Msg.seq \in 1..seq
      /\ outcome[Msg.seq] = "ok"
      /\ call.fresh => Msg.seq = call.last
      /\ call.clean => Msg.seq = call.first + call.i /\ Msg.seq <= call.last
  BY Zenon, <1>0, <1>2, Accepted DEF Single
<1>4. "ok" \in Returns /\ call.i + 1 \in Nat /\ Msg.seq \in 0..MaxSeq
  BY <1>1, <1>2, <1>3 DEF Returns
<1>5. res'.op = "talk" /\ res'.ret = "ok" /\ res'.reply = Msg.seq /\ res'.call = call
  BY ZenonT(60), <1>0, <1>4, Returned
<1>6. TalkVerdict'
  <2>1. ASSUME call.clean \/ call.fresh PROVE Msg.seq = call.last
    <3>1. CASE call.clean
      BY <1>1, <1>2, <1>3, <3>1
    <3> QED BY Zenon, <1>3, <2>1, <3>1
  <2>2. ASSUME call.clean \/ call.fresh, NEW s \in call.first..call.last
        PROVE  outcome[s] = "ok"
    BY <1>1, <1>2, <1>3, <2>1, <2>2
  <2> QED BY Zenon, <1>0, <1>5, <2>2 DEF TalkVerdict
<1>7. BatchIndex'
  BY Zenon, <1>5 DEF BatchIndex
<1>8. AnswerIsMine'
  BY Zenon, <1>3, <1>5 DEF AnswerIsMine
<1> QED BY Zenon, <1>0, <1>4, <1>6, <1>7, <1>8, TalkReturned

LEMMA RecvErrorInv == IInv /\ RecvError => IInv'
<1> SUFFICES ASSUME IInv, RecvError PROVE IInv'
  OBVIOUS
<1>0. /\ pc \in {"talk", "dump"}
      /\ enobufs' = FALSE
      /\ Return(pc, "recv", call.i + 1, 0)
      /\ UNCHANGED <<seq, dump, rcvq, kdump, got, outcome, size>>
  BY Zenon DEF RecvError
<1>1. "recv" \in Returns /\ call.i + 1 \in Nat /\ 0 \in 0..MaxSeq
  BY SMTT(60), NetlinkAssumption DEF IInv, TypeOK, Calls, Returns
<1>2. /\ pc' \in {"idle", "talk", "dump"} /\ call' \in Calls /\ res' \in Results
      /\ CallNumbered' /\ FreshQueue' /\ CleanQueue'
      /\ res'.op = pc /\ res'.ret = "recv" /\ res'.call = call
  BY ZenonT(60), <1>0, <1>1, Returned
<1>3. TypeOK'
  BY Zenon, <1>0, <1>2 DEF IInv, TypeOK, Results
<1>4. QueueTruthful' /\ DumpTruthful'
  BY Zenon, <1>0 DEF IInv, QueueTruthful, DumpTruthful, Truthful
<1>5. ResNumbered'
  <2>1. ASSUME pc = "talk" PROVE call.first \in 1..seq /\ call.last = seq /\ seq \in Nat
    BY <2>1, NetlinkAssumption DEF IInv, CallNumbered, TypeOK
  <2>2. ASSUME pc = "dump" PROVE dump \in 1..seq
    BY Zenon, <2>2 DEF IInv, CallNumbered
  <2> QED BY <1>0, <1>2, <2>1, <2>2 DEF ResNumbered
<1>6. Verdicts'
  BY Zenon, <1>2 DEF Verdicts, TalkVerdict, BatchIndex, AnswerIsMine, DumpOwnError
<1> QED BY Zenon, <1>2, <1>3, <1>4, <1>5, <1>6 DEF IInv

-----------------------------------------------------------------------------
(* A function on 1..n is a sequence.                                       *)
LEMMA FunIsSeq ==
    ASSUME NEW S, NEW n \in Nat, NEW f \in [1..n -> S]
    PROVE  f \in Seq(S)
OBVIOUS

(* The objects of one datagram, as the dump loop hands them to the         *)
(* callback.                                                               *)
LEMMA ObjsType ==
    ASSUME NEW lo \in 1..(MaxObjs + 1), NEW h \in 0..MaxObjs
    PROVE  [j \in 1..(h - lo + 1) |-> lo + j - 1] \in Seq(1..MaxObjs)
<1> DEFINE n == IF h - lo + 1 < 0 THEN 0 ELSE h - lo + 1
           f == [j \in 1..(h - lo + 1) |-> lo + j - 1]
<1>1. n \in Nat /\ 1..(h - lo + 1) = 1..n
  BY NetlinkAssumption
<1>2. f \in [1..(h - lo + 1) -> 1..MaxObjs]
  BY NetlinkAssumption
<1>3. f \in [1..n -> 1..MaxObjs]
  BY Zenon, <1>1, <1>2
<1> HIDE DEF n, f
<1>4. f \in Seq(1..MaxObjs)
  BY Zenon, <1>1, <1>3, FunIsSeq
<1> QED BY Zenon, <1>4 DEF f

(* The dump loop: the verdicts of talk calls are not touched, and a dump   *)
(* that ends with the kernel's error was refused by the kernel.            *)
LEMMA DumpStepInv ==
    ASSUME IInv, DumpRecv, got' \in Seq(1..MaxObjs),
           \/ UNCHANGED <<pc, call, res>>
           \/ \E ret \in Returns :
                 /\ Return("dump", ret, 0, 0)
                 /\ ret = "nack" => DumpAccepts(Msg) /\ Msg.type = "nack"
    PROVE  IInv'
<1>0. /\ pc = "dump" /\ rcvq # << >> /\ rcvq' = Tail(rcvq)
      /\ UNCHANGED <<seq, dump, kdump, enobufs, outcome, size>>
  BY Zenon DEF DumpRecv
<1>1. rcvq' \in Seq(Datagram) /\ QueueTruthful' /\ DumpTruthful'
  BY Zenon, <1>0, RecvQueue
<1>2. CASE UNCHANGED <<pc, call, res>>
  <2>1. TypeOK'
    BY Zenon, <1>0, <1>1, <1>2 DEF IInv, TypeOK
  <2>2. CallNumbered' /\ FreshQueue' /\ CleanQueue'
    BY Zenon, <1>0, <1>2 DEF IInv, CallNumbered, FreshQueue, CleanQueue
  <2>3. ResNumbered' /\ Verdicts'
    BY ZenonT(60), <1>0, <1>2 DEF IInv, ResNumbered, Verdicts, TalkVerdict, BatchIndex, AnswerIsMine,
                      DumpOwnError
  <2> QED BY Zenon, <1>1, <2>1, <2>2, <2>3 DEF IInv
<1>3. ASSUME NEW ret \in Returns, Return("dump", ret, 0, 0),
             ret = "nack" => DumpAccepts(Msg) /\ Msg.type = "nack"
      PROVE  IInv'
  <2>1. /\ pc' \in {"idle", "talk", "dump"} /\ call' \in Calls /\ res' \in Results
        /\ CallNumbered' /\ FreshQueue' /\ CleanQueue'
        /\ res'.op = "dump" /\ res'.ret = ret
    BY <1>0, <1>3, NetlinkAssumption, Returned
  <2>2. TypeOK'
    BY Zenon, <1>0, <1>1, <2>1 DEF IInv, TypeOK, Results
  <2>3. ResNumbered' /\ TalkVerdict' /\ BatchIndex' /\ AnswerIsMine'
    BY Zenon, <1>0, <2>1 DEF IInv, CallNumbered, ResNumbered, TalkVerdict, BatchIndex, AnswerIsMine
  <2>4. DumpOwnError'
    <3> SUFFICES ASSUME ret = "nack" PROVE outcome[dump] = "err"
      BY Zenon, <1>0, <2>1 DEF DumpOwnError
    <3>1. Msg.type = "nack" /\ Msg.seq = dump
      BY Zenon, <1>3 DEF DumpAccepts
    <3>2. Truthful(Msg)
      <4>1. rcvq \in Seq(Datagram)
        BY Zenon DEF IInv, TypeOK
      <4>2. 1 \in 1..Len(rcvq) /\ Msg = rcvq[1]
        BY <1>0, <4>1, Received
      <4> QED BY Zenon, <4>2 DEF IInv, QueueTruthful
    <3> QED BY Zenon, <3>1, <3>2 DEF Truthful
  <2> QED BY Zenon, <1>1, <2>1, <2>2, <2>3, <2>4 DEF IInv, Verdicts
<1> QED BY Zenon, <1>2, <1>3

LEMMA DumpSkipInv == IInv /\ DumpSkip => IInv'
<1> SUFFICES ASSUME IInv, DumpSkip PROVE IInv'
  OBVIOUS
<1>1. DumpRecv /\ UNCHANGED <<pc, call, res>> /\ got' \in Seq(1..MaxObjs)
  BY Zenon DEF DumpSkip, IInv, TypeOK
<1> QED BY Zenon, <1>1, DumpStepInv

LEMMA DumpNackInv == IInv /\ DumpNack => IInv'
<1> SUFFICES ASSUME IInv, DumpNack PROVE IInv'
  OBVIOUS
<1>1. /\ DumpRecv /\ got' \in Seq(1..MaxObjs)
      /\ Return("dump", "nack", 0, 0) /\ DumpAccepts(Msg) /\ Msg.type = "nack"
  BY Zenon DEF DumpNack, IInv, TypeOK
<1>2. "nack" \in Returns
  BY Zenon DEF Returns
<1> QED BY Zenon, <1>1, <1>2, DumpStepInv

LEMMA DumpChunkInv == IInv /\ DumpChunk => IInv'
<1> SUFFICES ASSUME IInv, DumpChunk PROVE IInv'
  OBVIOUS
<1> DEFINE objs(h) == [j \in 1..(h - Msg.lo + 1) |-> Msg.lo + j - 1]
<1>0. DumpRecv
  BY Zenon DEF DumpChunk
<1>1. rcvq \in Seq(Datagram) /\ rcvq # << >> /\ got \in Seq(1..MaxObjs)
  BY Zenon, <1>0 DEF DumpRecv, IInv, TypeOK
<1>2. Msg.lo \in 1..(MaxObjs + 1) /\ Msg.hi \in 0..MaxObjs
  BY Zenon, <1>1, Received DEF Datagram
<1>3. ASSUME NEW h \in 0..MaxObjs, got' = got \o objs(h) PROVE got' \in Seq(1..MaxObjs)
  <2>1. objs(h) \in Seq(1..MaxObjs)
    BY Zenon, <1>2, ObjsType
  <2> HIDE DEF objs
  <2> QED BY Zenon, <1>1, <1>3, <2>1, ConcatProperties
<1>4. {"ok", "done_err", "filter"} \subseteq Returns
  BY Zenon DEF Returns
<1>5. ASSUME NEW h \in Msg.lo..Msg.hi, got' = got \o objs(h), Return("dump", "filter", 0, 0)
      PROVE  IInv'
  <2>1. h \in 0..MaxObjs
    BY <1>2, NetlinkAssumption
  <2>2. got' \in Seq(1..MaxObjs)
    BY Zenon, <1>3, <1>5, <2>1
  <2> QED BY Zenon, <1>0, <1>4, <1>5, <2>2, DumpStepInv
<1>6. ASSUME got' = got \o objs(Msg.hi), UNCHANGED <<pc, call, res>> PROVE IInv'
  BY Zenon, <1>0, <1>2, <1>3, <1>6, DumpStepInv
<1>7. ASSUME got' = got \o objs(Msg.hi),
             Return("dump", IF Msg.done = "ok" THEN "ok" ELSE "done_err", 0, 0)
      PROVE  IInv'
  <2>1. got' \in Seq(1..MaxObjs)
    BY Zenon, <1>2, <1>3, <1>7
  <2>2. PICK ret \in {"ok", "done_err"} : Return("dump", ret, 0, 0)
    BY Zenon, <1>7
  <2> QED BY Zenon, <1>0, <1>4, <2>1, <2>2, DumpStepInv
<1> QED BY Zenon, <1>5, <1>6, <1>7 DEF DumpChunk

-----------------------------------------------------------------------------
(* A call that starts: no result is kept.                                  *)
LEMMA NoResult ==
    ASSUME res' = NoRes
    PROVE  res' \in Results /\ ResNumbered' /\ Verdicts'
<1>1. res' \in Results
  BY NetlinkAssumption DEF NoRes, Results, Returns, NoCall, Calls
<1>2. ResNumbered' /\ Verdicts'
  BY Zenon DEF NoRes, ResNumbered, Verdicts, TalkVerdict, BatchIndex, AnswerIsMine, DumpOwnError
<1> QED BY Zenon, <1>1, <1>2

(* Numbering more requests leaves what is known of the earlier ones.       *)
LEMMA StillTruthful ==
    ASSUME NEW d, Truthful(d), seq \in Nat, seq' \in Nat, seq <= seq',
           \A s \in 1..seq : outcome'[s] = outcome[s]
    PROVE  \/ d.type = "event"
           \/ /\ d.seq \in 1..seq'
              /\ outcome'[d.seq] = IF d.type = "nack" THEN "err" ELSE "ok"
BY DEF Truthful

LEMMA TalkSendInv == IInv /\ TalkSend => IInv'
<1> SUFFICES ASSUME IInv, TalkSend PROVE IInv'
  OBVIOUS
<1> USE NetlinkAssumption
<1>0. /\ pc = "idle" /\ pc' = "talk" /\ got' = << >> /\ res' = NoRes
      /\ UNCHANGED <<dump, kdump, size>>
  BY Zenon DEF TalkSend
<1> DEFINE Sent(n, ans, q, ok) ==
             /\ seq + n <= MaxSeq
             /\ ans => n = 1
             /\ q <= n
             /\ outcome' = [s \in Seqs |-> IF s \in (seq + 1)..(seq + n)
                                           THEN IF ok[s - seq] THEN "ok" ELSE "err"
                                           ELSE outcome[s]]
             /\ rcvq' = rcvq \o [j \in 1..q |-> Reply(seq + j, ok[j], ans)]
             /\ enobufs' = (enobufs \/ q < n)
             /\ seq' = seq + n
             /\ call' = [first |-> seq + 1, last |-> seq + n, ans |-> ans, i |-> 0,
                         clean |-> rcvq = << >> /\ ~kdump.on,
                         fresh |-> /\ \A p \in 1..Len(rcvq) : rcvq[p].seq # seq
                                   /\ kdump.on => kdump.seq # seq]
<1>a. PICK n \in 1..MaxIov, ans \in BOOLEAN, q \in 0..MaxIov :
        \E ok \in [1..n -> BOOLEAN] : Sent(n, ans, q, ok)
  BY ZenonT(60) DEF TalkSend
<1>1. PICK ok \in [1..n -> BOOLEAN] : Sent(n, ans, q, ok)
  BY Zenon, <1>a
<1>2. seq \in 0..MaxSeq /\ rcvq \in Seq(Datagram) /\ Len(rcvq) \in Nat
  BY Zenon, LenProperties DEF IInv, TypeOK
<1>3. seq' = seq + n /\ seq' \in 0..MaxSeq /\ n \in Nat /\ q \in Nat /\ q <= n
  BY <1>1, <1>2
<1> DEFINE r == [j \in 1..q |-> Reply(seq + j, ok[j], ans)]
<1>4. ASSUME NEW j \in 1..q
      PROVE  LET d == Reply(seq + j, ok[j], ans) IN
             /\ d \in Datagram
             /\ d.seq = seq + j
             /\ d.type \in {"ack", "nack", "answer"}
             /\ d.type = "answer" => ans
             /\ d.type = "nack" <=> ~ok[j]
  <2>1. ok[j] \in BOOLEAN /\ seq + j \in 0..MaxSeq
    BY SMTT(60), <1>1, <1>2, <1>3
  <2>2. CASE ~ok[j]
    BY <2>1, <2>2 DEF Reply, Nack, Datagram
  <2>3. CASE ok[j] /\ ans
    BY <2>1, <2>3 DEF Reply, Answer, Datagram
  <2>4. CASE ok[j] /\ ~ans
    BY <2>1, <2>4 DEF Reply, Ack, Datagram
  <2> QED BY Zenon, <2>2, <2>3, <2>4
<1>5. r \in Seq(Datagram) /\ Len(r) = q /\ \A j \in 1..q : r[j] = Reply(seq + j, ok[j], ans)
  <2>1. r \in [1..q -> Datagram]
    BY Zenon, <1>4
  <2>2. r \in Seq(Datagram)
    BY Zenon, <1>3, <2>1, FunIsSeq
  <2> QED BY <1>3, <2>1, <2>2, LenProperties
<1>6. /\ rcvq' \in Seq(Datagram)
      /\ Len(rcvq') = Len(rcvq) + q
      /\ \A p \in 1..(Len(rcvq) + q) :
            rcvq'[p] = IF p <= Len(rcvq) THEN rcvq[p] ELSE r[p - Len(rcvq)]
  <2> HIDE DEF r
  <2>1. rcvq' = rcvq \o r
    BY Zenon, <1>1 DEF r
  <2> QED BY Zenon, <1>2, <1>5, <2>1, ConcatProperties
<1>7. ASSUME NEW p \in 1..Len(rcvq')
      PROVE  \/ p \in 1..Len(rcvq) /\ rcvq'[p] = rcvq[p]
             \/ /\ p - Len(rcvq) \in 1..q
                /\ rcvq'[p] = Reply(seq + (p - Len(rcvq)), ok[p - Len(rcvq)], ans)
  <2> HIDE DEF r
  <2>1. CASE p <= Len(rcvq)
    BY <1>2, <1>3, <1>6, <2>1
  <2>2. CASE ~(p <= Len(rcvq))
    <3>1. p - Len(rcvq) \in 1..q
      BY <1>2, <1>3, <1>6, <2>2
    <3> QED BY ZenonT(60), <1>2, <1>3, <1>5, <1>6, <2>2, <3>1
  <2> QED BY Zenon, <2>1, <2>2
<1> HIDE DEF r
<1>8. /\ \A s \in 1..seq : outcome'[s] = outcome[s]
      /\ \A j \in 1..q : outcome'[seq + j] = IF ok[j] THEN "ok" ELSE "err"
  <2>1. ASSUME NEW s \in 1..seq PROVE outcome'[s] = outcome[s]
    BY <1>1, <1>2, <1>3 DEF Seqs
  <2>2. ASSUME NEW j \in 1..q PROVE outcome'[seq + j] = IF ok[j] THEN "ok" ELSE "err"
    <3>1. seq + j \in Seqs /\ seq + j \in (seq + 1)..(seq + n) /\ (seq + j) - seq = j
      BY <1>2, <1>3 DEF Seqs
    <3> QED BY Zenon, <1>1, <3>1
  <2> QED BY Zenon, <2>1, <2>2
<1>9. TypeOK'
  <2>1. outcome' \in [Seqs -> {"none", "ok", "err"}]
    BY Zenon, <1>1 DEF IInv, TypeOK
  <2>2. call' \in Calls
    <3>1. seq + 1 \in 1..(MaxSeq + 1) /\ seq + n \in 0..MaxSeq
      BY <1>2, <1>3
    <3> QED BY Zenon, <1>1, <3>1 DEF Calls
  <2>3. got' \in Seq(1..MaxObjs) /\ res' \in Results
    BY Zenon, <1>0, EmptySeq, NoResult
  <2>4. enobufs' \in BOOLEAN
    BY Zenon, <1>1
  <2> QED BY Zenon, <1>0, <1>3, <1>6, <2>1, <2>2, <2>3, <2>4 DEF IInv, TypeOK, Results
<1>10. QueueTruthful'
  <2>1. ASSUME NEW p \in 1..Len(rcvq') PROVE Truthful(rcvq[p])'
    <3>1. CASE p \in 1..Len(rcvq) /\ rcvq'[p] = rcvq[p]
      <4>1. Truthful(rcvq[p])
        BY Zenon, <3>1 DEF IInv, QueueTruthful
      <4>2. seq \in Nat /\ seq' \in Nat /\ seq <= seq'
        BY <1>2, <1>3
      <4> QED BY Zenon, <1>8, <3>1, <4>1, <4>2, StillTruthful DEF Truthful
    <3>2. CASE /\ p - Len(rcvq) \in 1..q
               /\ rcvq'[p] = Reply(seq + (p - Len(rcvq)), ok[p - Len(rcvq)], ans)
      <4> DEFINE j == p - Len(rcvq)
      <4>1. /\ rcvq'[p].seq = seq + j
            /\ rcvq'[p].type = "nack" <=> ~ok[j]
            /\ outcome'[seq + j] = IF ok[j] THEN "ok" ELSE "err"
        BY ZenonT(60), <1>4, <1>8, <3>2
      <4>2. seq + j \in 1..seq'
        BY SMTT(60), <1>2, <1>3, <3>2
      <4> QED BY Zenon, <4>1, <4>2 DEF Truthful
    <3> QED BY Zenon, <1>7, <3>1, <3>2
  <2> QED BY Zenon, <2>1 DEF QueueTruthful
<1>11. DumpTruthful'
  BY SMTT(60), <1>0, <1>2, <1>3, <1>8 DEF IInv, DumpTruthful
<1>12. CallNumbered'
  <2>1. call'.first = seq + 1 /\ call'.last = seq + n /\ call'.ans = ans
    BY Zenon, <1>1
  <2>2. ans => n = 1
    BY Zenon, <1>1
  <2>3. dump \in Nat /\ dump <= seq
    BY DEF IInv, TypeOK, CallNumbered
  <2> QED BY SMTT(60), <1>0, <1>1, <1>2, <1>3, <2>1, <2>2, <2>3 DEF CallNumbered
<1>13. FreshQueue'
  <2>1. /\ call'.first - 1 = seq
        /\ call'.fresh => /\ \A p \in 1..Len(rcvq) : rcvq[p].seq # seq
                          /\ kdump.on => kdump.seq # seq
    BY <1>1, <1>2
  <2>2. ASSUME call'.fresh, NEW p \in 1..Len(rcvq') PROVE rcvq'[p].seq # seq
    <3>1. CASE p \in 1..Len(rcvq) /\ rcvq'[p] = rcvq[p]
      BY Zenon, <2>1, <2>2, <3>1
    <3>2. CASE /\ p - Len(rcvq) \in 1..q
               /\ rcvq'[p] = Reply(seq + (p - Len(rcvq)), ok[p - Len(rcvq)], ans)
      <4>1. rcvq'[p].seq = seq + (p - Len(rcvq))
        BY Zenon, <1>4, <3>2
      <4> QED BY SMTT(60), <1>2, <1>3, <3>2, <4>1
    <3> QED BY Zenon, <1>7, <3>1, <3>2
  <2> QED BY ZenonT(60), <1>0, <2>1, <2>2 DEF FreshQueue
<1>14. CleanQueue'
  <2> SUFFICES ASSUME call'.clean, ~enobufs'
               PROVE  /\ Len(rcvq') = call'.last - call'.first + 1 - call'.i
                      /\ \A p \in 1..Len(rcvq') :
                          /\ rcvq'[p].seq = call'.first + call'.i + p - 1
                          /\ rcvq'[p].type \in {"ack", "nack", "answer"}
                          /\ rcvq'[p].type = "answer" => call'.ans
                      /\ \A s \in call'.first..(call'.first + call'.i - 1) : outcome'[s] = "ok"
    BY Zenon, <1>0, <1>1 DEF CleanQueue
  <2>1. /\ call'.first = seq + 1 /\ call'.last = seq + n /\ call'.i = 0 /\ call'.ans = ans
    BY Zenon, <1>1
  <2>2. Len(rcvq) = 0
    BY Zenon, <1>1, EmptySeq
  <2>3. ~(q < n)
    BY Zenon, <1>1
  <2>4. q = n /\ Len(rcvq') = n
    BY SMTT(60), <1>2, <1>3, <1>6, <2>2, <2>3
  <2>5. Len(rcvq') = call'.last - call'.first + 1 - call'.i
    BY <1>2, <1>3, <2>1, <2>4
  <2>6. ASSUME NEW p \in 1..Len(rcvq')
        PROVE  /\ rcvq'[p].seq = call'.first + call'.i + p - 1
               /\ rcvq'[p].type \in {"ack", "nack", "answer"}
               /\ rcvq'[p].type = "answer" => call'.ans
    <3>1. p \in 1..q /\ p - Len(rcvq) = p /\ ~(p \in 1..Len(rcvq))
      BY <1>3, <2>2, <2>4
    <3>2. rcvq'[p] = Reply(seq + p, ok[p], ans)
      BY Zenon, <1>7, <3>1
    <3>3. /\ rcvq'[p].seq = seq + p
          /\ rcvq'[p].type \in {"ack", "nack", "answer"}
          /\ rcvq'[p].type = "answer" => ans
      BY ZenonT(60), <1>4, <3>1, <3>2
    <3> QED BY <1>2, <2>1, <3>1, <3>3
  <2>7. ASSUME NEW s \in call'.first..(call'.first + call'.i - 1) PROVE FALSE
    BY <1>2, <2>1
  <2> QED BY <2>5, <2>6, <2>7, SMTT(30)
<1> QED BY Zenon, <1>0, <1>9, <1>10, <1>11, <1>12, <1>13, <1>14, NoResult DEF IInv

(* Between two calls, or in a dump, results are kept while more requests   *)
(* are numbered.                                                           *)
LEMMA ResultsKept ==
    ASSUME IInv, seq' \in Nat, seq <= seq', \A s \in 1..seq : outcome'[s] = outcome[s],
           UNCHANGED <<res, dump>>
    PROVE  ResNumbered' /\ Verdicts'
<1>0. seq \in Nat
  BY NetlinkAssumption DEF IInv, TypeOK
<1>1. /\ res.op = "talk" => /\ res.call.first \in 1..seq /\ res.call.last \in 1..seq
                            /\ res.call.first <= res.call.last
      /\ res.op = "dump" => dump \in 1..seq
  BY Zenon DEF IInv, ResNumbered
<1>2. ResNumbered'
  BY <1>0, <1>1 DEF ResNumbered
<1>3. ASSUME res.op = "talk", NEW s \in res.call.first..res.call.last
      PROVE  outcome'[s] = outcome[s]
  BY <1>0, <1>1, <1>3
<1>4. TalkVerdict'
  BY ZenonT(60), <1>3 DEF IInv, Verdicts, TalkVerdict, Single
<1>5. BatchIndex'
  <2> SUFFICES ASSUME res.op = "talk", res.call.clean, res.ret = "nack"
               PROVE  LET bad == res.call.first + res.i - 1 IN
                      /\ bad \in res.call.first..res.call.last
                      /\ outcome'[bad] = "err"
                      /\ \A s \in res.call.first..(bad - 1) : outcome'[s] = "ok"
    BY Zenon DEF BatchIndex
  <2> DEFINE bad == res.call.first + res.i - 1
  <2>1. /\ bad \in res.call.first..res.call.last
        /\ outcome[bad] = "err"
        /\ \A s \in res.call.first..(bad - 1) : outcome[s] = "ok"
    BY Zenon DEF IInv, Verdicts, BatchIndex
  <2>2. ASSUME NEW s \in res.call.first..(bad - 1) PROVE s \in res.call.first..res.call.last
    BY <1>0, <1>1, <2>1
  <2> HIDE DEF bad
  <2>3. outcome'[bad] = "err" /\ \A s \in res.call.first..(bad - 1) : outcome'[s] = "ok"
    BY Zenon, <1>3, <2>1, <2>2
  <2> QED BY Zenon, <2>1, <2>3 DEF bad
<1>6. AnswerIsMine' /\ DumpOwnError'
  BY Zenon, <1>1 DEF IInv, Verdicts, AnswerIsMine, DumpOwnError
<1> QED BY ZenonT(60), <1>2, <1>4, <1>5, <1>6 DEF Verdicts

(* The next number is given, and the kernel's refusal of it may be queued. *)
LEMMA OneSent ==
    ASSUME IInv, seq < MaxSeq, seq' = seq + 1,
           NEW o \in {"ok", "err"}, outcome' = [outcome EXCEPT ![seq + 1] = o],
           \/ UNCHANGED rcvq
           \/ o = "err" /\ rcvq' = Append(rcvq, Nack(seq + 1))
    PROVE  /\ seq \in Nat /\ seq' \in 0..MaxSeq
           /\ outcome' \in [Seqs -> {"none", "ok", "err"}]
           /\ \A s \in 1..seq : outcome'[s] = outcome[s]
           /\ outcome'[seq + 1] = o
           /\ rcvq' \in Seq(Datagram) /\ QueueTruthful'
<1> USE NetlinkAssumption
<1>0. seq \in 0..MaxSeq /\ rcvq \in Seq(Datagram)
      /\ outcome \in [Seqs -> {"none", "ok", "err"}]
  BY Zenon DEF IInv, TypeOK
<1>1. seq \in Nat /\ seq' \in 0..MaxSeq /\ seq' \in Nat /\ seq <= seq' /\ seq + 1 \in Seqs
  BY <1>0 DEF Seqs
<1>2. /\ outcome' \in [Seqs -> {"none", "ok", "err"}]
      /\ \A s \in 1..seq : outcome'[s] = outcome[s]
      /\ outcome'[seq + 1] = o
  BY <1>0, <1>1 DEF Seqs
<1>3. ASSUME NEW p \in 1..Len(rcvq) PROVE Truthful(rcvq[p])
  BY Zenon DEF IInv, QueueTruthful
<1>4. CASE UNCHANGED rcvq
  <2>1. ASSUME NEW p \in 1..Len(rcvq') PROVE Truthful(rcvq[p])'
    BY ZenonT(60), <1>1, <1>2, <1>3, <1>4, StillTruthful DEF Truthful
  <2> QED BY Zenon, <1>0, <1>1, <1>2, <1>4, <2>1 DEF QueueTruthful
<1>5. CASE o = "err" /\ rcvq' = Append(rcvq, Nack(seq + 1))
  <2> DEFINE d == Nack(seq + 1)
  <2>1. d \in Datagram /\ d.seq = seq + 1 /\ d.type = "nack"
    BY <1>1 DEF Nack, Datagram, Seqs
  <2> HIDE DEF d
  <2>2. rcvq' = Append(rcvq, d)
    BY Zenon, <1>5 DEF d
  <2>3. ASSUME NEW p \in 1..Len(rcvq') PROVE Truthful(rcvq[p])'
    <3>1. CASE p \in 1..Len(rcvq) /\ rcvq'[p] = rcvq[p]
      BY SMTT(60), <1>1, <1>2, <1>3, <3>1, StillTruthful DEF Truthful
    <3>2. CASE rcvq'[p] = d
      BY <1>1, <1>2, <1>5, <2>1, <3>2 DEF Truthful
    <3> QED BY ZenonT(60), <1>0, <2>1, <2>2, <3>1, <3>2, Queued
  <2>4. rcvq' \in Seq(Datagram)
    BY Zenon, <1>0, <2>1, <2>2, Queued
  <2> QED BY Zenon, <1>1, <1>2, <2>3, <2>4 DEF QueueTruthful
<1> QED BY Zenon, <1>4, <1>5

LEMMA SendInv == IInv /\ Send => IInv'
<1> SUFFICES ASSUME IInv, Send PROVE IInv'
  OBVIOUS
<1>0. /\ pc \in {"idle", "dump"} /\ seq < MaxSeq /\ seq' = seq + 1
      /\ UNCHANGED <<pc, dump, kdump, enobufs, call, got, size, res>>
  BY Zenon DEF Send
<1>1. PICK o \in {"ok", "err"} :
        /\ outcome' = [outcome EXCEPT ![seq + 1] = o]
        /\ \/ UNCHANGED rcvq
           \/ o = "err" /\ rcvq' = Append(rcvq, Nack(seq + 1))
  BY Zenon DEF Send
<1>2. /\ seq \in Nat /\ seq' \in 0..MaxSeq
      /\ outcome' \in [Seqs -> {"none", "ok", "err"}]
      /\ \A s \in 1..seq : outcome'[s] = outcome[s]
      /\ rcvq' \in Seq(Datagram) /\ QueueTruthful'
  BY Zenon, <1>0, <1>1, OneSent
<1>3. TypeOK'
  BY Zenon, <1>0, <1>2 DEF IInv, TypeOK
<1>4. DumpTruthful'
  BY <1>0, <1>2 DEF IInv, DumpTruthful
<1>5. CallNumbered'
  <2>1. dump \in Nat /\ dump <= seq /\ (pc = "dump" => dump \in 1..seq)
    BY NetlinkAssumption DEF IInv, TypeOK, CallNumbered
  <2> QED BY <1>0, <1>2, <2>1 DEF CallNumbered
<1>6. FreshQueue' /\ CleanQueue'
  BY Zenon, <1>0 DEF FreshQueue, CleanQueue
<1>7. ResNumbered' /\ Verdicts'
  BY <1>0, <1>2, ResultsKept
<1> QED BY Zenon, <1>2, <1>3, <1>4, <1>5, <1>6, <1>7 DEF IInv

LEMMA DumpRequestInv == IInv /\ DumpRequest => IInv'
<1> SUFFICES ASSUME IInv, DumpRequest PROVE IInv'
  OBVIOUS
<1> USE NetlinkAssumption
<1>0. /\ seq < MaxSeq /\ seq' = seq + 1 /\ dump' = seq + 1
      /\ got' = << >> /\ call' = NoCall /\ pc' = "dump" /\ res' = NoRes
      /\ UNCHANGED enobufs
  BY Zenon DEF DumpRequest
<1>1. PICK o \in {"ok", "err"} :
        /\ outcome' = [outcome EXCEPT ![seq + 1] = o]
        /\ \/ UNCHANGED rcvq
           \/ o = "err" /\ rcvq' = Append(rcvq, Nack(seq + 1))
        /\ \/ /\ \E k \in 0..MaxObjs : size' = [size EXCEPT ![seq + 1] = k]
              /\ kdump' = [on |-> TRUE, seq |-> seq + 1, next |-> 1]
              /\ o = "ok"
           \/ UNCHANGED <<kdump, size>>
  BY Zenon DEF DumpRequest
<1>2. /\ seq \in Nat /\ seq' \in 0..MaxSeq
      /\ outcome' \in [Seqs -> {"none", "ok", "err"}]
      /\ \A s \in 1..seq : outcome'[s] = outcome[s]
      /\ outcome'[seq + 1] = o
      /\ rcvq' \in Seq(Datagram) /\ QueueTruthful'
  BY ZenonT(60), <1>0, <1>1, OneSent
<1>3. TypeOK'
  <2>1. dump' \in 0..MaxSeq
    BY Zenon, <1>0, <1>2
  <2>2. size' \in [Seqs -> 0..MaxObjs]
    BY Zenon, <1>1 DEF IInv, TypeOK
  <2>3. kdump' \in [on : BOOLEAN, seq : 0..MaxSeq, next : 1..(MaxObjs + 1)]
    <3>1. seq + 1 \in 0..MaxSeq /\ 1 \in 1..(MaxObjs + 1)
      BY <1>0, <1>2
    <3>2. CASE kdump' = [on |-> TRUE, seq |-> seq + 1, next |-> 1]
      BY Zenon, <3>1, <3>2
    <3>3. CASE UNCHANGED kdump
      BY Zenon, <3>3 DEF IInv, TypeOK
    <3> QED BY Zenon, <1>1, <3>2, <3>3
  <2>4. call' \in Calls
    BY <1>0 DEF NoCall, Calls
  <2>5. got' \in Seq(1..MaxObjs) /\ res' \in Results
    BY Zenon, <1>0, EmptySeq, NoResult
  <2> QED BY SMTT(60), <1>0, <1>2, <2>1, <2>2, <2>3, <2>4, <2>5 DEF IInv, TypeOK, Results
<1>4. DumpTruthful'
  <2>1. CASE kdump' = [on |-> TRUE, seq |-> seq + 1, next |-> 1] /\ o = "ok"
    BY <1>0, <1>2, <2>1 DEF DumpTruthful
  <2>2. CASE UNCHANGED kdump
    BY <1>0, <1>2, <2>2 DEF IInv, DumpTruthful
  <2> QED BY Zenon, <1>1, <2>1, <2>2
<1>5. CallNumbered' /\ FreshQueue' /\ CleanQueue'
  <2>1. dump' <= seq' /\ dump' \in 1..seq'
    BY <1>0, <1>2
  <2> QED BY Zenon, <1>0, <2>1 DEF CallNumbered, FreshQueue, CleanQueue
<1> QED BY ZenonT(60), <1>0, <1>2, <1>3, <1>4, <1>5, NoResult DEF IInv

-----------------------------------------------------------------------------
LEMMA KernelChunkInv == IInv /\ KernelChunk => IInv'
<1> SUFFICES ASSUME IInv, KernelChunk PROVE IInv'
  OBVIOUS
<1> USE NetlinkAssumption
<1>0. /\ kdump.on
      /\ UNCHANGED <<pc, seq, dump, enobufs, call, got, outcome, size, res>>
  BY Zenon DEF KernelChunk
<1>1. PICK h \in (kdump.next - 1)..size[kdump.seq], d \in {"no", "ok", "err"} :
        /\ rcvq' = Append(rcvq, Chunk(kdump.seq, kdump.next, h, d))
        /\ kdump' = IF d = "no" THEN [kdump EXCEPT !.next = h + 1] ELSE NoDump
  BY SMTT(60) DEF KernelChunk
<1>2. /\ kdump \in [on : BOOLEAN, seq : 0..MaxSeq, next : 1..(MaxObjs + 1)]
      /\ rcvq \in Seq(Datagram) /\ seq \in 0..MaxSeq
      /\ size \in [Seqs -> 0..MaxObjs]
  BY Zenon DEF IInv, TypeOK
<1>3. kdump.seq \in 1..seq /\ outcome[kdump.seq] = "ok" /\ kdump.seq \in Seqs
  BY <1>0, <1>2 DEF IInv, DumpTruthful, Seqs
<1>4. h \in 0..MaxObjs
  <2>1. size[kdump.seq] \in 0..MaxObjs /\ kdump.next \in 1..(MaxObjs + 1)
    BY Zenon, <1>2, <1>3
  <2> QED BY <2>1
<1> DEFINE m == Chunk(kdump.seq, kdump.next, h, d)
<1>5. m \in Datagram /\ m.seq = kdump.seq /\ m.type = "chunk"
  BY Zenon, <1>2, <1>4 DEF Chunk, Datagram
<1> HIDE DEF m
<1>6. rcvq' = Append(rcvq, m)
  BY Zenon, <1>1 DEF m
<1>7. /\ rcvq' \in Seq(Datagram)
      /\ \A p \in 1..Len(rcvq') : \/ p \in 1..Len(rcvq) /\ rcvq'[p] = rcvq[p]
                                 \/ rcvq'[p] = m
  BY Zenon, <1>2, <1>5, <1>6, Queued
<1>8. /\ kdump' \in [on : BOOLEAN, seq : 0..MaxSeq, next : 1..(MaxObjs + 1)]
      /\ kdump'.on => kdump'.seq = kdump.seq
  <2>1. CASE d = "no"
    BY SMTT(60), <1>1, <1>2, <1>4, <2>1
  <2>2. CASE d # "no"
    BY <1>1, <2>2 DEF NoDump
  <2> QED BY Zenon, <2>1, <2>2
<1>9. TypeOK'
  BY Zenon, <1>0, <1>7, <1>8 DEF IInv, TypeOK
<1>10. QueueTruthful' /\ DumpTruthful'
  <2>1. ASSUME NEW p \in 1..Len(rcvq') PROVE Truthful(rcvq[p])'
    BY ZenonT(60), <1>0, <1>3, <1>5, <1>7 DEF IInv, QueueTruthful, Truthful
  <2> QED BY Zenon, <1>0, <1>3, <1>8, <2>1 DEF QueueTruthful, DumpTruthful
<1>11. CallNumbered'
  BY Zenon, <1>0 DEF IInv, CallNumbered
<1>12. FreshQueue'
  BY ZenonT(60), <1>0, <1>5, <1>7, <1>8 DEF IInv, FreshQueue
<1>13. CleanQueue'
  BY <1>0, SMTT(30) DEF IInv, CleanQueue
<1>14. ResNumbered' /\ Verdicts'
  BY Zenon, <1>0 DEF IInv, ResNumbered, Verdicts, TalkVerdict, BatchIndex, AnswerIsMine, DumpOwnError
<1> QED BY ZenonT(60), <1>9, <1>10, <1>11, <1>12, <1>13, <1>14 DEF IInv

LEMMA KernelEventInv == IInv /\ KernelEvent => IInv'
<1> SUFFICES ASSUME IInv, KernelEvent PROVE IInv'
  OBVIOUS
<1> USE NetlinkAssumption
<1>0. /\ call' = [call EXCEPT !.clean = FALSE]
      /\ UNCHANGED <<pc, seq, dump, kdump, got, outcome, size, res>>
  BY Zenon DEF KernelEvent
<1>1. rcvq \in Seq(Datagram) /\ call \in Calls
  BY Zenon DEF IInv, TypeOK
<1>2. /\ call' \in Calls /\ ~call'.clean
      /\ call'.first = call.first /\ call'.last = call.last
      /\ call'.ans = call.ans /\ call'.fresh = call.fresh
  BY Zenon, <1>0, <1>1 DEF Calls
<1>3. Event \in Datagram /\ Event.type = "event"
  BY DEF Event, Datagram
<1>4. /\ rcvq' \in Seq(Datagram)
      /\ \A p \in 1..Len(rcvq') : \/ p \in 1..Len(rcvq) /\ rcvq'[p] = rcvq[p]
                                 \/ rcvq'[p].type = "event"
  <2>1. CASE rcvq' = Append(rcvq, Event)
    BY Zenon, <1>1, <1>3, <2>1, Queued
  <2>2. CASE UNCHANGED rcvq
    BY Zenon, <1>1, <2>2
  <2> QED BY Zenon, <2>1, <2>2 DEF KernelEvent
<1>5. enobufs' \in BOOLEAN
  BY Zenon DEF KernelEvent, IInv, TypeOK
<1>6. TypeOK'
  BY Zenon, <1>0, <1>2, <1>4, <1>5 DEF IInv, TypeOK
<1>7. QueueTruthful' /\ DumpTruthful'
  <2>1. ASSUME NEW p \in 1..Len(rcvq') PROVE Truthful(rcvq[p])'
    BY Zenon, <1>0, <1>4 DEF IInv, QueueTruthful, Truthful
  <2> QED BY Zenon, <1>0, <2>1 DEF IInv, QueueTruthful, DumpTruthful
<1>8. CallNumbered'
  BY Zenon, <1>0, <1>2 DEF IInv, CallNumbered
<1>9. FreshQueue'
  BY ZenonT(60), <1>0, <1>2, <1>4 DEF IInv, FreshQueue
<1>10. CleanQueue'
  BY Zenon, <1>2 DEF CleanQueue
<1>11. ResNumbered' /\ Verdicts'
  BY Zenon, <1>0 DEF IInv, ResNumbered, Verdicts, TalkVerdict, BatchIndex, AnswerIsMine, DumpOwnError
<1> QED BY ZenonT(60), <1>6, <1>7, <1>8, <1>9, <1>10, <1>11 DEF IInv

-----------------------------------------------------------------------------
LEMMA StutterInv == IInv /\ UNCHANGED vars => IInv'
<1> SUFFICES ASSUME IInv, UNCHANGED vars PROVE IInv'
  OBVIOUS
<1>1. /\ pc' = pc /\ seq' = seq /\ dump' = dump /\ rcvq' = rcvq /\ kdump' = kdump
      /\ enobufs' = enobufs /\ call' = call /\ got' = got /\ outcome' = outcome
      /\ size' = size /\ res' = res
  BY Zenon DEF vars
<1>2. TypeOK'
  BY Zenon, <1>1 DEF IInv, TypeOK
<1>3. QueueTruthful' /\ DumpTruthful'
  BY Zenon, <1>1 DEF IInv, QueueTruthful, Truthful, DumpTruthful
<1>4. CallNumbered' /\ FreshQueue'
  BY ZenonT(60), <1>1 DEF IInv, CallNumbered, FreshQueue
<1>5. CleanQueue'
  BY <1>1, SMTT(30) DEF IInv, CleanQueue
<1>6. ResNumbered' /\ TalkVerdict'
  BY Zenon, <1>1 DEF IInv, ResNumbered, Verdicts, TalkVerdict
<1>7. BatchIndex' /\ AnswerIsMine' /\ DumpOwnError'
  BY Zenon, <1>1 DEF IInv, Verdicts, BatchIndex, AnswerIsMine, DumpOwnError
<1> QED BY ZenonT(60), <1>2, <1>3, <1>4, <1>5, <1>6, <1>7 DEF IInv, Verdicts

LEMMA Invariance == Spec => []IInv
<1>1. IInv /\ [Next]_vars => IInv'
  BY ZenonT(60), TalkSkipInv, TalkAckInv, TalkNackInv, TalkAnswerInv, RecvErrorInv, DumpSkipInv,
     DumpNackInv, DumpChunkInv, TalkSendInv, DumpRequestInv, SendInv, KernelChunkInv,
     KernelEventInv, StutterInv DEF Next, Client
<1> QED BY <1>1, InitInv, PTL DEF Spec

(* The state of an rtnl_handle and of its socket keeps its type, whatever  *)
(* calls of lib/libnetlink.c follow one another.                           *)
THEOREM TypeCorrect == Spec => []TypeOK
<1>1. IInv => TypeOK
  BY Zenon DEF IInv
<1> QED BY <1>1, Invariance, PTL

(* __rtnl_talk_iov reports what the kernel did: a clean call, or a         *)
(* one-message call that found no left-over of the request before it,      *)
(* succeeds only if every message was accepted, and fails with the         *)
(* kernel's error only if one was refused.                                 *)
THEOREM TalkVerdictHolds == Spec => []TalkVerdict
<1>1. IInv => TalkVerdict
  BY Zenon DEF IInv, Verdicts
<1> QED BY <1>1, Invariance, PTL

(* The number of datagrams __rtnl_talk_iov returns with an error is the    *)
(* place of the first message of the batch that the kernel refused.        *)
THEOREM BatchIndexHolds == Spec => []BatchIndex
<1>1. IInv => BatchIndex
  BY Zenon DEF IInv, Verdicts
<1> QED BY <1>1, Invariance, PTL

(* The answer rtnl_talk hands out is the answer to its own request, if the *)
(* request before it left nothing on the socket.                           *)
THEOREM AnswerIsMineHolds == Spec => []AnswerIsMine
<1>1. IInv => AnswerIsMine
  BY Zenon DEF IInv, Verdicts
<1> QED BY <1>1, Invariance, PTL

(* A dump that rtnl_dump_filter_l ends with the kernel's error is one the  *)
(* kernel refused.                                                         *)
THEOREM DumpOwnErrorHolds == Spec => []DumpOwnError
<1>1. IInv => DumpOwnError
  BY Zenon DEF IInv, Verdicts
<1> QED BY <1>1, Invariance, PTL

-----------------------------------------------------------------------------
(***************************************************************************)
(* Netlink implements DumpCall: for tables and socket queues of any size,  *)
(* and whatever earlier calls and notifications left on the socket,        *)
(* rtnl_dump_filter_l hands its callback the objects of the table exactly  *)
(* once and in order.                                                      *)
(***************************************************************************)
(* The pieces of dump n among the datagrams q: the first one, two that     *)
(* follow one another, the last one, none.                                 *)
Piece(q, n, p) == p \in 1..Len(q) /\ q[p].type = "chunk" /\ q[p].seq = n

FirstPiece(q, n, p) == Piece(q, n, p) /\ \A m \in 1..(p - 1) : ~Piece(q, n, m)

NextPiece(q, n, p, r) ==
    Piece(q, n, p) /\ Piece(q, n, r) /\ p < r /\ \A m \in (p + 1)..(r - 1) : ~Piece(q, n, m)

LastPiece(q, n, p) == Piece(q, n, p) /\ \A m \in (p + 1)..Len(q) : ~Piece(q, n, m)

NoPiece(q, n) == \A p \in 1..Len(q) : ~Piece(q, n, p)

(* The pieces of a dump of t objects carry on where the g objects given to *)
(* the callback stop, each where the one before it stops; and the kernel   *)
(* will carry on with object k where the last one stops.                   *)
Chain(q, n, g, t) ==
    /\ \A p \in 1..Len(q) : FirstPiece(q, n, p) => q[p].lo = g + 1
    /\ \A p, r \in 1..Len(q) : NextPiece(q, n, p, r) => q[p].done = "no" /\ q[r].lo = q[p].hi + 1
    /\ \A p \in 1..Len(q) : Piece(q, n, p) =>
          /\ q[p].lo <= q[p].hi + 1 /\ q[p].hi <= t
          /\ q[p].done = "ok" => q[p].hi = t

Ends(q, n, g, k) ==
    /\ NoPiece(q, n) => k = g + 1
    /\ \A p \in 1..Len(q) : LastPiece(q, n, p) => q[p].done = "no" /\ k = q[p].hi + 1

(* The inductive invariant, beside IInv.                                   *)
DumpInv ==
    /\ pc # "idle" => res = NoRes
    /\ pc = "dump" =>
          /\ got = Call!Objects(Len(got)) /\ Len(got) <= size[dump]
          /\ Chain(rcvq, dump, Len(got), size[dump])
          /\ kdump.on /\ kdump.seq = dump => Ends(rcvq, dump, Len(got), kdump.next)
    /\ DumpExact

-----------------------------------------------------------------------------
(* recvmsg takes the first datagram.                                       *)
LEMMA TailPiece ==
    ASSUME NEW q \in Seq(Datagram), q # << >>, NEW n
    PROVE  /\ Len(q) \in Nat /\ Len(q) >= 1
           /\ Tail(q) \in Seq(Datagram) /\ Len(Tail(q)) = Len(q) - 1
           /\ \A p \in 1..Len(Tail(q)) : p + 1 \in 1..Len(q) /\ Tail(q)[p] = q[p + 1]
           /\ \A p \in 1..Len(Tail(q)) : Piece(Tail(q), n, p) <=> Piece(q, n, p + 1)
<1>1. Len(q) \in Nat /\ Len(q) >= 1
  BY EmptySeq, LenProperties
<1>2. /\ Tail(q) \in Seq(Datagram) /\ Len(Tail(q)) = Len(q) - 1
      /\ \A p \in 1..Len(Tail(q)) : Tail(q)[p] = q[p + 1]
  BY Zenon, HeadTailProperties
<1>3. \A p \in 1..Len(Tail(q)) : p + 1 \in 1..Len(q)
  BY <1>1, <1>2
<1>4. ASSUME NEW p \in 1..Len(Tail(q)) PROVE Piece(Tail(q), n, p) <=> Piece(q, n, p + 1)
  BY Zenon, <1>2, <1>3 DEF Piece
<1> QED BY Zenon, <1>1, <1>2, <1>3, <1>4

LEMMA TailNext ==
    ASSUME NEW q \in Seq(Datagram), q # << >>, NEW n,
           NEW p \in 1..Len(Tail(q)), NEW r \in 1..Len(Tail(q)), NextPiece(Tail(q), n, p, r)
    PROVE  NextPiece(q, n, p + 1, r + 1)
<1>1. /\ Len(q) \in Nat /\ Len(Tail(q)) = Len(q) - 1
      /\ \A m \in 1..Len(Tail(q)) : Piece(Tail(q), n, m) <=> Piece(q, n, m + 1)
  BY Zenon, TailPiece
<1>2. Piece(q, n, p + 1) /\ Piece(q, n, r + 1) /\ p + 1 < r + 1
  BY <1>1 DEF NextPiece
<1>3. ASSUME NEW m \in (p + 1 + 1)..(r + 1 - 1) PROVE ~Piece(q, n, m)
  <2>1. m - 1 \in (p + 1)..(r - 1) /\ m - 1 \in 1..Len(Tail(q)) /\ m - 1 + 1 = m
    BY <1>1
  <2> QED BY Zenon, <1>1, <2>1 DEF NextPiece
<1> QED BY <1>2, <1>3 DEF NextPiece

LEMMA TailFirst ==
    ASSUME NEW q \in Seq(Datagram), q # << >>, NEW n,
           NEW p \in 1..Len(Tail(q)), FirstPiece(Tail(q), n, p)
    PROVE  IF Piece(q, n, 1) THEN NextPiece(q, n, 1, p + 1) ELSE FirstPiece(q, n, p + 1)
<1>1. /\ Len(q) \in Nat /\ Len(Tail(q)) = Len(q) - 1
      /\ \A m \in 1..Len(Tail(q)) : Piece(Tail(q), n, m) <=> Piece(q, n, m + 1)
  BY Zenon, TailPiece
<1>2. Piece(q, n, p + 1)
  BY Zenon, <1>1 DEF FirstPiece
<1>3. ASSUME NEW m \in 2..p PROVE ~Piece(q, n, m)
  <2>1. m - 1 \in 1..(p - 1) /\ m - 1 \in 1..Len(Tail(q)) /\ m - 1 + 1 = m
    BY <1>1
  <2> QED BY Zenon, <1>1, <2>1 DEF FirstPiece
<1>4. CASE Piece(q, n, 1)
  <2>1. (1 + 1)..(p + 1 - 1) = 2..p /\ 1 < p + 1
    OBVIOUS
  <2> QED BY <1>2, <1>3, <1>4, <2>1 DEF NextPiece
<1>5. CASE ~Piece(q, n, 1)
  <2>1. \A m \in 1..(p + 1 - 1) : m = 1 \/ m \in 2..p
    OBVIOUS
  <2> QED BY <1>2, <1>3, <1>5, <2>1 DEF FirstPiece
<1> QED BY Zenon, <1>4, <1>5

LEMMA TailLast ==
    ASSUME NEW q \in Seq(Datagram), q # << >>, NEW n
    PROVE  /\ \A p \in 1..Len(Tail(q)) : LastPiece(Tail(q), n, p) => LastPiece(q, n, p + 1)
           /\ NoPiece(Tail(q), n) => IF Piece(q, n, 1) THEN LastPiece(q, n, 1) ELSE NoPiece(q, n)
<1>1. /\ Len(q) \in Nat /\ Len(q) >= 1 /\ Len(Tail(q)) = Len(q) - 1
      /\ \A m \in 1..Len(Tail(q)) : Piece(Tail(q), n, m) <=> Piece(q, n, m + 1)
  BY Zenon, TailPiece
<1>2. ASSUME NEW p \in 1..Len(Tail(q)), LastPiece(Tail(q), n, p) PROVE LastPiece(q, n, p + 1)
  <2>1. Piece(q, n, p + 1)
    BY Zenon, <1>1, <1>2 DEF LastPiece
  <2>2. ASSUME NEW m \in (p + 1 + 1)..Len(q) PROVE ~Piece(q, n, m)
    <3>1. m - 1 \in (p + 1)..Len(Tail(q)) /\ m - 1 \in 1..Len(Tail(q)) /\ m - 1 + 1 = m
      BY <1>1
    <3> QED BY Zenon, <1>1, <1>2, <3>1 DEF LastPiece
  <2> QED BY Zenon, <2>1, <2>2 DEF LastPiece
<1>3. ASSUME NoPiece(Tail(q), n), NEW m \in 2..Len(q) PROVE ~Piece(q, n, m)
  <2>1. m - 1 \in 1..Len(Tail(q)) /\ m - 1 + 1 = m
    BY <1>1
  <2> QED BY Zenon, <1>1, <1>3, <2>1 DEF NoPiece
<1>4. \A m \in 1..Len(q) : m = 1 \/ m \in 2..Len(q)
  BY <1>1
<1>5. (1 + 1)..Len(q) = 2..Len(q)
  OBVIOUS
<1> QED BY Zenon, <1>2, <1>3, <1>4, <1>5 DEF LastPiece, NoPiece

(* A datagram that is not a piece of the dump is skipped.                  *)
LEMMA ChainSkip ==
    ASSUME NEW q \in Seq(Datagram), q # << >>, NEW n, NEW g \in Nat, NEW t \in Nat, NEW k \in Nat,
           ~Piece(q, n, 1)
    PROVE  /\ Chain(q, n, g, t) => Chain(Tail(q), n, g, t)
           /\ Ends(q, n, g, k) => Ends(Tail(q), n, g, k)
<1>1. \A p \in 1..Len(Tail(q)) : p + 1 \in 1..Len(q) /\ Tail(q)[p] = q[p + 1]
  BY Zenon, TailPiece
<1>2. \A p \in 1..Len(Tail(q)) : Piece(Tail(q), n, p) <=> Piece(q, n, p + 1)
  BY Zenon, TailPiece
<1>3. ASSUME Chain(q, n, g, t) PROVE Chain(Tail(q), n, g, t)
  <2>1. ASSUME NEW p \in 1..Len(Tail(q)), FirstPiece(Tail(q), n, p) PROVE Tail(q)[p].lo = g + 1
    <3>1. FirstPiece(q, n, p + 1)
      BY Zenon, <2>1, TailFirst
    <3> QED BY ZenonT(60), <1>1, <1>3, <3>1 DEF Chain
  <2>2. ASSUME NEW p \in 1..Len(Tail(q)), NEW r \in 1..Len(Tail(q)), NextPiece(Tail(q), n, p, r)
        PROVE  Tail(q)[p].done = "no" /\ Tail(q)[r].lo = Tail(q)[p].hi + 1
    <3>1. NextPiece(q, n, p + 1, r + 1)
      BY Zenon, <2>2, TailNext
    <3> QED BY <1>1, <1>3, <3>1 DEF Chain
  <2>3. ASSUME NEW p \in 1..Len(Tail(q)), Piece(Tail(q), n, p)
        PROVE  /\ Tail(q)[p].lo <= Tail(q)[p].hi + 1 /\ Tail(q)[p].hi <= t
               /\ Tail(q)[p].done = "ok" => Tail(q)[p].hi = t
    BY ZenonT(60), <1>1, <1>2, <1>3, <2>3 DEF Chain
  <2> QED BY ZenonT(60), <2>1, <2>2, <2>3 DEF Chain
<1>4. ASSUME Ends(q, n, g, k) PROVE Ends(Tail(q), n, g, k)
  <2>1. NoPiece(Tail(q), n) => k = g + 1
    BY Zenon, <1>4, TailLast DEF Ends
  <2>2. ASSUME NEW p \in 1..Len(Tail(q)), LastPiece(Tail(q), n, p)
        PROVE  Tail(q)[p].done = "no" /\ k = Tail(q)[p].hi + 1
    <3>1. LastPiece(q, n, p + 1)
      BY Zenon, <2>2, TailLast
    <3> QED BY ZenonT(60), <1>1, <1>4, <3>1 DEF Ends
  <2> QED BY Zenon, <2>1, <2>2 DEF Ends
<1> QED BY Zenon, <1>3, <1>4

(* A piece that is not the last one is handed to the callback.             *)
LEMMA ChainTake ==
    ASSUME NEW q \in Seq(Datagram), q # << >>, NEW n, NEW g \in Nat, NEW t \in Nat, NEW k \in Nat,
           Piece(q, n, 1), Chain(q, n, g, t)
    PROVE  /\ q[1].lo = g + 1 /\ q[1].lo <= q[1].hi + 1 /\ q[1].hi <= t
           /\ q[1].done = "ok" => q[1].hi = t
           /\ Chain(Tail(q), n, q[1].hi, t)
           /\ Ends(q, n, g, k) => Ends(Tail(q), n, q[1].hi, k)
<1>1. \A p \in 1..Len(Tail(q)) : p + 1 \in 1..Len(q) /\ Tail(q)[p] = q[p + 1]
  BY Zenon, TailPiece
<1>2. \A p \in 1..Len(Tail(q)) : Piece(Tail(q), n, p) <=> Piece(q, n, p + 1)
  BY Zenon, TailPiece
<1>3. 1 \in 1..Len(q)
  BY Zenon DEF Piece
<1>4. FirstPiece(q, n, 1)
  BY DEF FirstPiece
<1>5. /\ q[1].lo = g + 1 /\ q[1].lo <= q[1].hi + 1 /\ q[1].hi <= t
      /\ q[1].done = "ok" => q[1].hi = t
  BY Zenon, <1>3, <1>4 DEF Chain
<1>6. Chain(Tail(q), n, q[1].hi, t)
  <2>1. ASSUME NEW p \in 1..Len(Tail(q)), FirstPiece(Tail(q), n, p)
        PROVE  Tail(q)[p].lo = q[1].hi + 1
    <3>1. NextPiece(q, n, 1, p + 1)
      BY Zenon, <2>1, TailFirst
    <3> QED BY <1>1, <1>3, <3>1 DEF Chain
  <2>2. ASSUME NEW p \in 1..Len(Tail(q)), NEW r \in 1..Len(Tail(q)), NextPiece(Tail(q), n, p, r)
        PROVE  Tail(q)[p].done = "no" /\ Tail(q)[r].lo = Tail(q)[p].hi + 1
    <3>1. NextPiece(q, n, p + 1, r + 1)
      BY Zenon, <2>2, TailNext
    <3> QED BY <1>1, <3>1 DEF Chain
  <2>3. ASSUME NEW p \in 1..Len(Tail(q)), Piece(Tail(q), n, p)
        PROVE  /\ Tail(q)[p].lo <= Tail(q)[p].hi + 1 /\ Tail(q)[p].hi <= t
               /\ Tail(q)[p].done = "ok" => Tail(q)[p].hi = t
    BY ZenonT(60), <1>1, <1>2, <2>3 DEF Chain
  <2> QED BY Zenon, <2>1, <2>2, <2>3 DEF Chain
<1>7. ASSUME Ends(q, n, g, k) PROVE Ends(Tail(q), n, q[1].hi, k)
  <2>1. NoPiece(Tail(q), n) => k = q[1].hi + 1
    BY Zenon, <1>3, <1>7, TailLast DEF Ends
  <2>2. ASSUME NEW p \in 1..Len(Tail(q)), LastPiece(Tail(q), n, p)
        PROVE  Tail(q)[p].done = "no" /\ k = Tail(q)[p].hi + 1
    <3>1. LastPiece(q, n, p + 1)
      BY Zenon, <2>2, TailLast
    <3> QED BY ZenonT(60), <1>1, <1>7, <3>1 DEF Ends
  <2> QED BY Zenon, <2>1, <2>2 DEF Ends
<1> QED BY Zenon, <1>5, <1>6, <1>7

(* The kernel queues one more datagram.                                    *)
LEMMA AppendPiece ==
    ASSUME NEW q \in Seq(Datagram), NEW d \in Datagram, NEW n
    PROVE  LET a == Append(q, d) IN
           /\ Len(q) \in Nat /\ Len(a) = Len(q) + 1
           /\ \A p \in 1..Len(q) : a[p] = q[p] /\ (Piece(a, n, p) <=> Piece(q, n, p))
           /\ a[Len(q) + 1] = d
           /\ Piece(a, n, Len(q) + 1) <=> d.type = "chunk" /\ d.seq = n
<1> DEFINE a == Append(q, d)
<1>1. /\ Len(a) = Len(q) + 1
      /\ \A p \in 1..Len(q) : a[p] = q[p]
      /\ a[Len(q) + 1] = d
  BY AppendProperties
<1>2. Len(q) \in Nat
  BY Zenon, LenProperties
<1> HIDE DEF a
<1>3. ASSUME NEW p \in 1..Len(q) PROVE Piece(a, n, p) <=> Piece(q, n, p)
  BY <1>1, <1>2 DEF Piece
<1>4. Piece(a, n, Len(q) + 1) <=> d.type = "chunk" /\ d.seq = n
  BY <1>1, <1>2 DEF Piece
<1> QED BY Zenon, <1>1, <1>2, <1>3, <1>4 DEF a

LEMMA ChainOther ==
    ASSUME NEW q \in Seq(Datagram), NEW d \in Datagram, NEW n, NEW g \in Nat, NEW t \in Nat,
           NEW k \in Nat, d.type # "chunk" \/ d.seq # n
    PROVE  /\ Chain(q, n, g, t) => Chain(Append(q, d), n, g, t)
           /\ Ends(q, n, g, k) => Ends(Append(q, d), n, g, k)
<1> DEFINE a == Append(q, d)
<1>1. /\ Len(q) \in Nat /\ Len(a) = Len(q) + 1
      /\ \A p \in 1..Len(q) : a[p] = q[p] /\ (Piece(a, n, p) <=> Piece(q, n, p))
      /\ ~Piece(a, n, Len(q) + 1)
  BY SMTT(60), AppendPiece
<1> HIDE DEF a
<1>2. ASSUME NEW p, Piece(a, n, p) PROVE p \in 1..Len(q) /\ a[p] = q[p] /\ Piece(q, n, p)
  <2>1. p \in 1..Len(a)
    BY Zenon, <1>2 DEF Piece
  <2>2. p \in 1..Len(q)
    BY <1>1, <1>2, <2>1
  <2> QED BY Zenon, <1>1, <1>2, <2>2
<1>3. ASSUME Chain(q, n, g, t) PROVE Chain(a, n, g, t)
  <2>1. ASSUME NEW p \in 1..Len(a), FirstPiece(a, n, p) PROVE a[p].lo = g + 1
    <3>1. p \in 1..Len(q) /\ a[p] = q[p] /\ Piece(q, n, p)
      BY Zenon, <1>2, <2>1 DEF FirstPiece
    <3>2. FirstPiece(q, n, p)
      BY <1>1, <2>1, <3>1 DEF FirstPiece
    <3> QED BY Zenon, <1>3, <3>1, <3>2 DEF Chain
  <2>2. ASSUME NEW p \in 1..Len(a), NEW r \in 1..Len(a), NextPiece(a, n, p, r)
        PROVE  a[p].done = "no" /\ a[r].lo = a[p].hi + 1
    <3>1. /\ p \in 1..Len(q) /\ a[p] = q[p] /\ Piece(q, n, p)
          /\ r \in 1..Len(q) /\ a[r] = q[r] /\ Piece(q, n, r)
      BY Zenon, <1>2, <2>2 DEF NextPiece
    <3>2. NextPiece(q, n, p, r)
      BY <1>1, <2>2, <3>1 DEF NextPiece
    <3> QED BY ZenonT(60), <1>3, <3>1, <3>2 DEF Chain
  <2>3. ASSUME NEW p \in 1..Len(a), Piece(a, n, p)
        PROVE  /\ a[p].lo <= a[p].hi + 1 /\ a[p].hi <= t
               /\ a[p].done = "ok" => a[p].hi = t
    BY Zenon, <1>2, <1>3, <2>3 DEF Chain
  <2> QED BY Zenon, <2>1, <2>2, <2>3 DEF Chain
<1>4. ASSUME Ends(q, n, g, k) PROVE Ends(a, n, g, k)
  <2>1. NoPiece(a, n) => NoPiece(q, n)
    BY <1>1 DEF NoPiece
  <2>2. ASSUME NEW p \in 1..Len(a), LastPiece(a, n, p)
        PROVE  a[p].done = "no" /\ k = a[p].hi + 1
    <3>1. p \in 1..Len(q) /\ a[p] = q[p] /\ Piece(q, n, p)
      BY Zenon, <1>2, <2>2 DEF LastPiece
    <3>2. LastPiece(q, n, p)
      BY <1>1, <2>2, <3>1 DEF LastPiece
    <3> QED BY Zenon, <1>4, <3>1, <3>2 DEF Ends
  <2> QED BY Zenon, <1>4, <2>1, <2>2 DEF Ends
<1> QED BY ZenonT(60), <1>3, <1>4 DEF a

(* The kernel carries on with the dump.                                    *)
LEMMA ChainAppend ==
    ASSUME NEW q \in Seq(Datagram), NEW d \in Datagram, NEW n, NEW g \in Nat, NEW t \in Nat,
           d.type = "chunk", d.seq = n, d.lo <= d.hi + 1, d.hi <= t, d.done = "ok" => d.hi = t,
           Chain(q, n, g, t), Ends(q, n, g, d.lo)
    PROVE  /\ Chain(Append(q, d), n, g, t)
           /\ d.done = "no" => Ends(Append(q, d), n, g, d.hi + 1)
<1> DEFINE a == Append(q, d)
           e == Len(q) + 1
<1>0. Len(q) \in Nat /\ Len(a) = e /\ a[e] = d /\ \A p \in 1..Len(q) : a[p] = q[p]
  BY AppendPiece
<1> HIDE DEF a
<1>a. ASSUME NEW p \in 1..Len(q) PROVE Piece(a, n, p) <=> Piece(q, n, p)
  BY <1>0 DEF Piece
<1>1. /\ Len(q) \in Nat /\ Len(a) = e
      /\ \A p \in 1..Len(q) : a[p] = q[p] /\ (Piece(a, n, p) <=> Piece(q, n, p))
      /\ a[e] = d /\ Piece(a, n, e)
  BY <1>0, <1>a DEF Piece
<1>2. \A p \in 1..Len(a) : p \in 1..Len(q) \/ p = e
  BY <1>1
<1>3. Chain(a, n, g, t)
  <2>1. ASSUME NEW p \in 1..Len(a), FirstPiece(a, n, p) PROVE a[p].lo = g + 1
    <3>1. CASE p \in 1..Len(q)
      <4>1. FirstPiece(q, n, p)
        BY <1>1, <2>1, <3>1 DEF FirstPiece
      <4> QED BY ZenonT(60), <1>1, <3>1, <4>1 DEF Chain
    <3>2. CASE p = e
      <4>1. \A m \in 1..Len(q) : m \in 1..(p - 1)
        BY <1>1, <3>2
      <4>2. NoPiece(q, n)
        BY ZenonT(60), <1>1, <2>1, <4>1 DEF FirstPiece, NoPiece
      <4> QED BY ZenonT(60), <1>1, <3>2, <4>2 DEF Ends
    <3> QED BY Zenon, <1>2, <3>1, <3>2
  <2>2. ASSUME NEW p \in 1..Len(a), NEW r \in 1..Len(a), NextPiece(a, n, p, r)
        PROVE  a[p].done = "no" /\ a[r].lo = a[p].hi + 1
    <3>0. p < r /\ Piece(a, n, p)
      BY Zenon, <2>2 DEF NextPiece
    <3>1. p \in 1..Len(q) /\ a[p] = q[p] /\ Piece(q, n, p)
      BY <1>1, <3>0
    <3>2. CASE r \in 1..Len(q)
      <4>1. NextPiece(q, n, p, r)
        BY <1>1, <2>2, <3>1, <3>2 DEF NextPiece
      <4> QED BY ZenonT(60), <1>1, <3>1, <3>2, <4>1 DEF Chain
    <3>3. CASE r = e
      <4>1. \A m \in (p + 1)..Len(q) : m \in (p + 1)..(r - 1) /\ m \in 1..Len(q)
        BY <1>1, <3>1, <3>3
      <4>2. LastPiece(q, n, p)
        BY Zenon, <1>1, <2>2, <3>1, <4>1 DEF NextPiece, LastPiece
      <4> QED BY Zenon, <1>1, <3>1, <3>3, <4>2 DEF Ends
    <3> QED BY ZenonT(60), <1>2, <3>2, <3>3
  <2>3. ASSUME NEW p \in 1..Len(a), Piece(a, n, p)
        PROVE  /\ a[p].lo <= a[p].hi + 1 /\ a[p].hi <= t
               /\ a[p].done = "ok" => a[p].hi = t
    <3>1. CASE p \in 1..Len(q)
      BY Zenon, <1>1, <2>3, <3>1 DEF Chain
    <3>2. CASE p = e
      BY Zenon, <1>1, <3>2
    <3> QED BY Zenon, <1>2, <3>1, <3>2
  <2> QED BY Zenon, <2>1, <2>2, <2>3 DEF Chain
<1>4. ASSUME d.done = "no" PROVE Ends(a, n, g, d.hi + 1)
  <2>1. e \in 1..Len(a)
    BY <1>1
  <2>2. ~NoPiece(a, n)
    BY Zenon, <1>1, <2>1 DEF NoPiece
  <2>3. ASSUME NEW p \in 1..Len(a), LastPiece(a, n, p) PROVE p = e
    <3>1. p \in 1..Len(q) => e \in (p + 1)..Len(a)
      BY <1>1
    <3> QED BY ZenonT(60), <1>1, <1>2, <2>3, <3>1 DEF LastPiece
  <2> QED BY ZenonT(60), <1>1, <1>4, <2>2, <2>3 DEF Ends
<1> QED BY Zenon, <1>3, <1>4 DEF a

-----------------------------------------------------------------------------
LEMMA ObjectsLen == ASSUME NEW g \in Nat PROVE Len(Call!Objects(g)) = g
BY DEF Call!Objects

(* What the callback was given, when the objects of one more datagram are  *)
(* handed to it.                                                           *)
LEMMA MoreObjects ==
    ASSUME NEW g \in Nat, NEW h \in Nat, g <= h
    PROVE  Call!Objects(g) \o [j \in 1..(h - (g + 1) + 1) |-> g + 1 + j - 1] = Call!Objects(h)
<1> DEFINE a == Call!Objects(g)
           b == [j \in 1..(h - (g + 1) + 1) |-> g + 1 + j - 1]
           c == Call!Objects(h)
<1>1. a \in Seq(Nat) /\ Len(a) = g /\ \A j \in 1..g : a[j] = j
  BY DEF Call!Objects
<1>2. h - (g + 1) + 1 = h - g /\ h - g \in Nat
  OBVIOUS
<1>3. b \in Seq(Nat) /\ Len(b) = h - g /\ \A j \in 1..(h - g) : b[j] = g + j
  BY <1>2
<1>4. c \in Seq(Nat) /\ Len(c) = h /\ \A j \in 1..h : c[j] = j
  BY DEF Call!Objects
<1> HIDE DEF a, b, c
<1>a. /\ a \o b \in Seq(Nat) /\ Len(a \o b) = Len(a) + Len(b)
      /\ \A j \in 1..(Len(a) + Len(b)) : (a \o b)[j] = IF j <= Len(a) THEN a[j] ELSE b[j - Len(a)]
  BY ZenonT(60), <1>1, <1>3, ConcatProperties
<1>5. /\ a \o b \in Seq(Nat) /\ Len(a \o b) = g + (h - g)
      /\ \A j \in 1..(g + (h - g)) : (a \o b)[j] = IF j <= g THEN a[j] ELSE b[j - g]
  BY Zenon, <1>1, <1>3, <1>a
<1>6. Len(a \o b) = Len(c)
  BY <1>2, <1>4, <1>5
<1>7. ASSUME NEW j \in 1..Len(c) PROVE (a \o b)[j] = c[j]
  <2>1. j \in 1..h /\ j \in 1..(g + (h - g)) /\ c[j] = j
    BY <1>2, <1>4
  <2>2. CASE j <= g
    BY <1>1, <1>5, <2>1, <2>2
  <2>3. CASE ~(j <= g)
    <3>1. j - g \in 1..(h - g) /\ g + (j - g) = j
      BY <2>1, <2>3
    <3> QED BY ZenonT(60), <1>3, <1>5, <2>1, <2>3, <3>1
  <2> QED BY Zenon, <2>2, <2>3
<1>8. a \o b = c
  BY ZenonT(60), <1>4, <1>5, <1>6, <1>7, SeqEqual
<1> QED BY Zenon, <1>8 DEF a, b, c

LEMMA DumpInvInit == Init => DumpInv
BY DEF Init, DumpInv, DumpExact, NoRes

(* A step that is not part of a dump in progress.                          *)
LEMMA NotDumping ==
    ASSUME pc' # "dump", pc' # "idle" => res' = NoRes, DumpExact'
    PROVE  DumpInv'
BY Zenon DEF DumpInv

(* The receive loop of rtnl_dump_filter_l, in the state it finds.          *)
LEMMA DumpState ==
    ASSUME IInv, DumpInv, DumpRecv
    PROVE  /\ pc = "dump" /\ res = NoRes /\ rcvq \in Seq(Datagram) /\ rcvq # << >>
           /\ rcvq' = Tail(rcvq) /\ Msg = rcvq[1] /\ Msg \in Datagram /\ 1 \in 1..Len(rcvq)
           /\ UNCHANGED <<dump, kdump, size>>
           /\ dump \in Seqs /\ size[dump] \in Nat /\ size[dump] <= MaxObjs
           /\ Len(got) \in Nat /\ Len(got) <= size[dump] /\ got = Call!Objects(Len(got))
           /\ kdump.next \in Nat
           /\ Chain(rcvq, dump, Len(got), size[dump])
           /\ kdump.on /\ kdump.seq = dump => Ends(rcvq, dump, Len(got), kdump.next)
<1>1. pc = "dump" /\ rcvq # << >> /\ rcvq' = Tail(rcvq) /\ UNCHANGED <<dump, kdump, size>>
  BY Zenon DEF DumpRecv
<1>2. rcvq \in Seq(Datagram) /\ seq \in 0..MaxSeq /\ MaxSeq \in Nat
  BY Zenon, NetlinkAssumption DEF IInv, TypeOK
<1>3. Msg = rcvq[1] /\ Msg \in Datagram /\ 1 \in 1..Len(rcvq)
  BY <1>1, <1>2, Received
<1>4. dump \in Seqs
  BY <1>1, <1>2 DEF IInv, CallNumbered, Seqs
<1>5. size[dump] \in Nat /\ size[dump] <= MaxObjs
  BY SMTT(60), <1>4, NetlinkAssumption DEF IInv, TypeOK
<1>6. Len(got) \in Nat /\ kdump.next \in Nat
  BY NetlinkAssumption, LenProperties DEF IInv, TypeOK
<1> QED BY ZenonT(60), <1>1, <1>2, <1>3, <1>4, <1>5, <1>6 DEF DumpInv

LEMMA DumpSkipDump == IInv /\ DumpInv /\ DumpSkip => DumpInv'
<1> SUFFICES ASSUME IInv, DumpInv, DumpSkip PROVE DumpInv'
  OBVIOUS
<1>0. DumpRecv /\ ~DumpAccepts(Msg) /\ UNCHANGED <<pc, call, got, res>>
  BY Zenon DEF DumpSkip
<1>1. /\ pc = "dump" /\ res = NoRes /\ rcvq \in Seq(Datagram) /\ rcvq # << >>
      /\ rcvq' = Tail(rcvq) /\ Msg = rcvq[1]
      /\ UNCHANGED <<dump, kdump, size>>
      /\ size[dump] \in Nat /\ Len(got) \in Nat /\ kdump.next \in Nat
      /\ Chain(rcvq, dump, Len(got), size[dump])
      /\ kdump.on /\ kdump.seq = dump => Ends(rcvq, dump, Len(got), kdump.next)
  BY Zenon, <1>0, DumpState
<1>2. ~Piece(rcvq, dump, 1)
  BY Zenon, <1>0, <1>1 DEF DumpAccepts, Piece
<1>3. /\ Chain(rcvq', dump, Len(got), size[dump])
      /\ kdump.on /\ kdump.seq = dump => Ends(rcvq', dump, Len(got), kdump.next)
  BY ZenonT(60), <1>1, <1>2, ChainSkip
<1>4. DumpExact'
  BY ZenonT(60), <1>0, <1>1 DEF DumpExact, NoRes
<1> QED BY ZenonT(60), <1>0, <1>1, <1>3, <1>4 DEF DumpInv

LEMMA DumpNackDump == IInv /\ DumpInv /\ DumpNack => DumpInv'
BY NotDumping DEF DumpNack, Return, DumpExact

(* A piece of the dump: where it starts, what the callback has been given  *)
(* after object h of it, and what is left on the socket.                   *)
LEMMA Handed ==
    ASSUME IInv, DumpInv, DumpRecv, DumpAccepts(Msg), Msg.type = "chunk"
    PROVE  /\ Msg.lo = Len(got) + 1 /\ Msg.hi \in Nat /\ Len(got) <= Msg.hi /\ Msg.hi <= size[dump]
           /\ Msg.done = "ok" => Msg.hi = size[dump]
           /\ \A h \in Nat : Len(got) <= h =>
                got \o [j \in 1..(h - Msg.lo + 1) |-> Msg.lo + j - 1] = Call!Objects(h)
           /\ Chain(rcvq', dump, Msg.hi, size[dump])
           /\ kdump.on /\ kdump.seq = dump => Ends(rcvq', dump, Msg.hi, kdump.next)
<1>1. /\ rcvq \in Seq(Datagram) /\ rcvq # << >> /\ rcvq' = Tail(rcvq)
      /\ Msg = rcvq[1] /\ Msg \in Datagram /\ 1 \in 1..Len(rcvq)
      /\ size[dump] \in Nat /\ Len(got) \in Nat /\ kdump.next \in Nat
      /\ got = Call!Objects(Len(got))
      /\ Chain(rcvq, dump, Len(got), size[dump])
      /\ kdump.on /\ kdump.seq = dump => Ends(rcvq, dump, Len(got), kdump.next)
  BY Zenon, DumpState
<1>2. Piece(rcvq, dump, 1)
  BY Zenon, <1>1 DEF DumpAccepts, Piece
<1>3. /\ Msg.lo = Len(got) + 1 /\ Msg.lo <= Msg.hi + 1 /\ Msg.hi <= size[dump]
      /\ Msg.done = "ok" => Msg.hi = size[dump]
      /\ Chain(rcvq', dump, Msg.hi, size[dump])
      /\ kdump.on /\ kdump.seq = dump => Ends(rcvq', dump, Msg.hi, kdump.next)
  BY ZenonT(60), <1>1, <1>2, ChainTake
<1>4. Msg.hi \in Nat
  BY SMTT(60), <1>1, NetlinkAssumption DEF Datagram
<1>5. ASSUME NEW h \in Nat, Len(got) <= h
      PROVE  got \o [j \in 1..(h - Msg.lo + 1) |-> Msg.lo + j - 1] = Call!Objects(h)
  <2> DEFINE g == Len(got)
  <2>1. g \in Nat /\ g <= h /\ got = Call!Objects(g) /\ Msg.lo = g + 1
    BY Zenon, <1>1, <1>3, <1>5
  <2> HIDE DEF g
  <2>2. Call!Objects(g) \o [j \in 1..(h - (g + 1) + 1) |-> g + 1 + j - 1] = Call!Objects(h)
    BY ZenonT(60), <2>1, MoreObjects
  <2> QED BY Zenon, <2>1, <2>2, Zenon
<1>6. Len(got) <= Msg.hi
  BY SMTT(60), <1>1, <1>3, <1>4
<1> QED BY Zenon, <1>3, <1>4, <1>5, <1>6

(* What a chunk handed to the callback is for the caller.                  *)
LEMMA ChunkSteps ==
    ASSUME IInv, DumpInv, DumpChunk
    PROVE  /\ DumpRecv /\ DumpAccepts(Msg) /\ Msg.type = "chunk"
           /\ \/ /\ \E h \in Len(got)..size[dump] : got' = Call!Objects(h)
                 /\ Return("dump", "filter", 0, 0)
              \/ /\ got' = Call!Objects(Msg.hi)
                 /\ UNCHANGED <<pc, call, res>>
              \/ /\ got' = Call!Objects(Msg.hi)
                 /\ Return("dump", "done_err", 0, 0)
              \/ /\ got' = Call!Objects(size[dump])
                 /\ Return("dump", "ok", 0, 0)
<1> DEFINE objs(h) == [j \in 1..(h - Msg.lo + 1) |-> Msg.lo + j - 1]
<1>0. DumpRecv /\ DumpAccepts(Msg) /\ Msg.type = "chunk"
  BY Zenon DEF DumpChunk
<1>1. /\ Msg.lo = Len(got) + 1 /\ Msg.hi \in Nat /\ Len(got) <= Msg.hi /\ Msg.hi <= size[dump]
      /\ Msg.done = "ok" => Msg.hi = size[dump]
      /\ \A h \in Nat : Len(got) <= h => got \o objs(h) = Call!Objects(h)
  BY Zenon, <1>0, Handed
<1>2. Len(got) \in Nat /\ size[dump] \in Nat
  BY Zenon, <1>0, DumpState
<1> HIDE DEF objs
<1>3. ASSUME NEW h \in Msg.lo..Msg.hi, got' = got \o objs(h)
      PROVE  \E k \in Len(got)..size[dump] : got' = Call!Objects(k)
  <2>1. h \in Nat /\ Len(got) <= h /\ h \in Len(got)..size[dump]
    BY <1>1, <1>2
  <2> QED BY Zenon, <1>1, <1>3, <2>1
<1>4. got' = got \o objs(Msg.hi) => got' = Call!Objects(Msg.hi)
  BY Zenon, <1>1
<1>5. \/ \E h \in Msg.lo..Msg.hi : got' = got \o objs(h) /\ Return("dump", "filter", 0, 0)
      \/ got' = got \o objs(Msg.hi) /\ UNCHANGED <<pc, call, res>>
      \/ /\ got' = got \o objs(Msg.hi)
         /\ Return("dump", IF Msg.done = "ok" THEN "ok" ELSE "done_err", 0, 0)
  BY Zenon DEF DumpChunk, objs
<1>6. CASE /\ got' = got \o objs(Msg.hi)
           /\ Return("dump", IF Msg.done = "ok" THEN "ok" ELSE "done_err", 0, 0)
  <2>1. CASE Msg.done = "ok"
    BY ZenonT(60), <1>0, <1>1, <1>4, <1>6, <2>1
  <2>2. CASE Msg.done # "ok"
    BY ZenonT(60), <1>0, <1>4, <1>6, <2>2
  <2> QED BY ZenonT(60), <2>1, <2>2
<1> QED BY SMTT(60), <1>0, <1>3, <1>4, <1>5, <1>6

LEMMA DumpChunkDump == IInv /\ DumpInv /\ DumpChunk => DumpInv'
<1> SUFFICES ASSUME IInv, DumpInv, DumpChunk PROVE DumpInv'
  OBVIOUS
<1>0. DumpRecv /\ DumpAccepts(Msg) /\ Msg.type = "chunk"
  BY Zenon DEF DumpChunk
<1>1. pc = "dump" /\ res = NoRes /\ UNCHANGED <<dump, kdump, size>> /\ size[dump] \in Nat
  BY ZenonT(60), <1>0, DumpState
<1>2. CASE got' = Call!Objects(Msg.hi) /\ UNCHANGED <<pc, call, res>>
  <2>1. /\ Msg.hi \in Nat /\ Msg.hi <= size[dump]
        /\ Chain(rcvq', dump, Msg.hi, size[dump])
        /\ kdump.on /\ kdump.seq = dump => Ends(rcvq', dump, Msg.hi, kdump.next)
    BY Zenon, <1>0, Handed
  <2>2. Len(got') = Msg.hi
    BY Zenon, <1>2, <2>1, ObjectsLen
  <2>3. DumpExact'
    BY Zenon, <1>1, <1>2 DEF DumpExact, NoRes
  <2> QED BY ZenonT(60), <1>1, <1>2, <2>1, <2>2, <2>3 DEF DumpInv
<1>3. ASSUME NEW ret, ret # "ok", Return("dump", ret, 0, 0) PROVE DumpInv'
  BY Zenon, <1>3, NotDumping DEF Return, DumpExact
<1>4. CASE got' = Call!Objects(size[dump]) /\ Return("dump", "ok", 0, 0)
  <2>1. DumpExact'
    BY Zenon, <1>1, <1>4 DEF DumpExact, Call!Objects
  <2> QED BY ZenonT(60), <1>4, <2>1, NotDumping DEF Return
<1> QED BY ZenonT(60), <1>2, <1>3, <1>4, ChunkSteps

LEMMA DumpRequestDump == IInv /\ DumpInv /\ DumpRequest => DumpInv'
<1> SUFFICES ASSUME IInv, DumpInv, DumpRequest PROVE DumpInv'
  OBVIOUS
<1>0. pc' = "dump" /\ dump' = seq + 1 /\ got' = << >> /\ res' = NoRes
  BY ZenonT(60) DEF DumpRequest
<1>1. /\ rcvq \in Seq(Datagram) /\ seq \in Nat /\ seq + 1 \in Seqs
      /\ kdump \in [on : BOOLEAN, seq : 0..MaxSeq, next : 1..(MaxObjs + 1)]
      /\ size \in [Seqs -> 0..MaxObjs]
  BY SMTT(60), NetlinkAssumption DEF DumpRequest, IInv, TypeOK, Seqs
<1>2. Nack(seq + 1) \in Datagram /\ Nack(seq + 1).type # "chunk"
  BY <1>1, NetlinkAssumption DEF Nack, Datagram, Seqs
<1>3. ASSUME NEW p \in 1..Len(rcvq) PROVE ~Piece(rcvq, seq + 1, p)
  <2>1. Truthful(rcvq[p])
    BY Zenon DEF IInv, QueueTruthful
  <2> QED BY <1>1, <2>1 DEF Truthful, Piece
<1>4. NoPiece(rcvq', dump')
  <2>1. CASE UNCHANGED rcvq
    BY ZenonT(60), <1>0, <1>3, <2>1 DEF NoPiece
  <2>2. CASE rcvq' = Append(rcvq, Nack(seq + 1))
    <3>1. /\ Len(rcvq) \in Nat /\ Len(rcvq') = Len(rcvq) + 1
          /\ \A p \in 1..Len(rcvq) : rcvq'[p] = rcvq[p]
          /\ rcvq'[Len(rcvq) + 1] = Nack(seq + 1)
      BY SMTT(60), <1>1, <1>2, <2>2, AppendPiece
    <3>2. ASSUME NEW p \in 1..Len(rcvq') PROVE ~Piece(rcvq', seq + 1, p)
      <4>1. CASE p \in 1..Len(rcvq)
        BY ZenonT(60), <1>3, <3>1, <4>1 DEF Piece
      <4>2. CASE p = Len(rcvq) + 1
        BY ZenonT(60), <1>2, <3>1, <4>2 DEF Piece
      <4> QED BY SMTT(60), <3>1, <4>1, <4>2
    <3> QED BY ZenonT(60), <1>0, <3>2 DEF NoPiece
  <2> QED BY ZenonT(60), <2>1, <2>2 DEF DumpRequest
<1>5. Len(got') = 0 /\ got' = Call!Objects(Len(got'))
  BY <1>0 DEF Call!Objects
<1>6. size'[dump'] \in Nat
  <2>1. CASE UNCHANGED size
    BY SMTT(60), <1>0, <1>1, <2>1, NetlinkAssumption
  <2>2. CASE \E k \in 0..MaxObjs : size' = [size EXCEPT ![seq + 1] = k]
    BY SMTT(60), <1>0, <1>1, <2>2, NetlinkAssumption
  <2> QED BY ZenonT(60), <2>1, <2>2 DEF DumpRequest
<1>7. Chain(rcvq', dump', 0, size'[dump'])
  BY Zenon, <1>4 DEF Chain, NoPiece, FirstPiece, NextPiece
<1>8. kdump'.on /\ kdump'.seq = dump' => kdump'.next = 1
  <2>1. CASE UNCHANGED kdump
    BY SMTT(60), <1>0, <1>1, <2>1 DEF IInv, DumpTruthful
  <2>2. CASE kdump' = [on |-> TRUE, seq |-> seq + 1, next |-> 1]
    BY Zenon, <2>2
  <2> QED BY ZenonT(60), <2>1, <2>2 DEF DumpRequest
<1>9. kdump'.on /\ kdump'.seq = dump' => Ends(rcvq', dump', 0, kdump'.next)
  BY <1>4, <1>8 DEF Ends, NoPiece, LastPiece
<1>10. DumpExact'
  BY Zenon, <1>0 DEF DumpExact, NoRes
<1>11. Len(got') <= size'[dump']
  BY <1>5, <1>6
<1> QED BY ZenonT(60), <1>0, <1>5, <1>7, <1>9, <1>10, <1>11 DEF DumpInv

(* Datagrams that are no piece of the dump: an error for rtnl_send, a      *)
(* notification.                                                           *)
LEMMA OtherQueued ==
    ASSUME IInv, DumpInv, pc' = pc, res' = res, NEW d \in Datagram, d.type # "chunk",
           UNCHANGED <<dump, kdump, size, got>>,
           UNCHANGED rcvq \/ rcvq' = Append(rcvq, d)
    PROVE  DumpInv'
<1>1. DumpExact'
  BY Zenon DEF DumpInv, DumpExact
<1>2. ASSUME pc = "dump"
      PROVE  /\ Chain(rcvq', dump, Len(got), size[dump])
             /\ kdump.on /\ kdump.seq = dump => Ends(rcvq', dump, Len(got), kdump.next)
  <2>1. /\ rcvq \in Seq(Datagram) /\ Len(got) \in Nat /\ kdump.next \in Nat
    BY SMTT(60), NetlinkAssumption, LenProperties DEF IInv, TypeOK
  <2>2. dump \in Seqs
    BY SMTT(60), <1>2, NetlinkAssumption DEF IInv, CallNumbered, TypeOK, Seqs
  <2>3. size[dump] \in Nat
    BY <2>2, NetlinkAssumption DEF IInv, TypeOK
  <2>4. /\ Chain(rcvq, dump, Len(got), size[dump])
        /\ kdump.on /\ kdump.seq = dump => Ends(rcvq, dump, Len(got), kdump.next)
    BY Zenon, <1>2 DEF DumpInv
  <2>5. CASE UNCHANGED rcvq
    BY ZenonT(60), <2>4, <2>5
  <2>6. CASE rcvq' = Append(rcvq, d)
    BY ZenonT(60), <2>1, <2>3, <2>4, <2>6, ChainOther
  <2> QED BY ZenonT(60), <2>5, <2>6
<1> QED BY ZenonT(60), <1>1, <1>2 DEF DumpInv

LEMMA SendDump == IInv /\ DumpInv /\ Send => DumpInv'
<1> SUFFICES ASSUME IInv, DumpInv, Send PROVE DumpInv'
  OBVIOUS
<1>1. Nack(seq + 1) \in Datagram /\ Nack(seq + 1).type # "chunk"
  BY NetlinkAssumption DEF Send, IInv, TypeOK, Nack, Datagram
<1>2. /\ pc' = pc /\ res' = res /\ UNCHANGED <<dump, kdump, size, got>>
      /\ UNCHANGED rcvq \/ rcvq' = Append(rcvq, Nack(seq + 1))
  BY Zenon DEF Send
<1> QED BY ZenonT(60), <1>1, <1>2, OtherQueued

LEMMA KernelEventDump == IInv /\ DumpInv /\ KernelEvent => DumpInv'
<1> SUFFICES ASSUME IInv, DumpInv, KernelEvent PROVE DumpInv'
  OBVIOUS
<1>1. Event \in Datagram /\ Event.type # "chunk"
  BY NetlinkAssumption DEF Event, Datagram
<1>2. /\ pc' = pc /\ res' = res /\ UNCHANGED <<dump, kdump, size, got>>
      /\ UNCHANGED rcvq \/ rcvq' = Append(rcvq, Event)
  BY Zenon DEF KernelEvent
<1> QED BY ZenonT(60), <1>1, <1>2, OtherQueued

LEMMA KernelChunkDump == IInv /\ DumpInv /\ KernelChunk => DumpInv'
<1> SUFFICES ASSUME IInv, DumpInv, KernelChunk PROVE DumpInv'
  OBVIOUS
<1>0. kdump.on /\ UNCHANGED <<pc, dump, got, size, res>>
  BY ZenonT(60) DEF KernelChunk
<1>1. PICK h \in (kdump.next - 1)..size[kdump.seq], e \in {"no", "ok", "err"} :
        /\ e = "ok" => h = size[kdump.seq]
        /\ rcvq' = Append(rcvq, Chunk(kdump.seq, kdump.next, h, e))
        /\ kdump' = IF e = "no" THEN [kdump EXCEPT !.next = h + 1] ELSE NoDump
  BY ZenonT(60) DEF KernelChunk
<1> DEFINE d == Chunk(kdump.seq, kdump.next, h, e)
<1>2. /\ rcvq \in Seq(Datagram) /\ Len(got) \in Nat
      /\ kdump \in [on : BOOLEAN, seq : 0..MaxSeq, next : 1..(MaxObjs + 1)]
      /\ kdump.seq \in Seqs
  BY SMTT(60), <1>0, NetlinkAssumption, LenProperties DEF IInv, TypeOK, DumpTruthful, Seqs
<1>3. size[kdump.seq] \in 0..MaxObjs /\ MaxObjs \in Nat
  BY ZenonT(60), <1>2, NetlinkAssumption DEF IInv, TypeOK
<1>4. h \in 0..MaxObjs /\ h <= size[kdump.seq] /\ kdump.next <= h + 1
  BY SMTT(60), <1>1, <1>2, <1>3
<1>5. /\ d \in Datagram /\ d.type = "chunk" /\ d.seq = kdump.seq /\ d.lo = kdump.next
      /\ d.hi = h /\ d.done = e
  BY Zenon, <1>1, <1>2, <1>4 DEF Chunk, Datagram, Seqs
<1> HIDE DEF d
<1>6. rcvq' = Append(rcvq, d)
  BY Zenon, <1>1 DEF d
<1>7. DumpExact'
  BY Zenon, <1>0 DEF DumpInv, DumpExact
<1>8. ASSUME pc = "dump"
      PROVE  /\ Chain(rcvq', dump, Len(got), size[dump])
             /\ kdump'.on /\ kdump'.seq = dump => Ends(rcvq', dump, Len(got), kdump'.next)
  <2>0. dump \in Seqs
    BY SMTT(60), <1>8, NetlinkAssumption DEF IInv, CallNumbered, TypeOK, Seqs
  <2>1. size[dump] \in Nat
    BY SMTT(60), <2>0, NetlinkAssumption DEF IInv, TypeOK
  <2>2. /\ Chain(rcvq, dump, Len(got), size[dump])
        /\ kdump.seq = dump => Ends(rcvq, dump, Len(got), kdump.next)
    BY ZenonT(60), <1>0, <1>8 DEF DumpInv
  <2>3. CASE kdump.seq = dump
    <3>1. /\ Chain(rcvq', dump, Len(got), size[dump])
          /\ e = "no" => Ends(rcvq', dump, Len(got), h + 1)
      BY SMTT(60), <1>1, <1>2, <1>4, <1>5, <1>6, <2>1, <2>2, <2>3, ChainAppend
    <3>2. kdump'.on => e = "no" /\ kdump'.next = h + 1
      BY Zenon, <1>1, <1>2 DEF NoDump
    <3> QED BY ZenonT(60), <3>1, <3>2
  <2>4. CASE kdump.seq # dump
    <3>1. Chain(rcvq', dump, Len(got), size[dump])
      BY ZenonT(60), <1>2, <1>5, <1>6, <2>1, <2>2, <2>4, ChainOther
    <3>2. kdump'.on => kdump'.seq = kdump.seq
      BY Zenon, <1>1, <1>2 DEF NoDump
    <3> QED BY Zenon, <2>4, <3>1, <3>2
  <2> QED BY ZenonT(60), <2>3, <2>4
<1> QED BY ZenonT(60), <1>0, <1>7, <1>8 DEF DumpInv

(* Calls of __rtnl_talk_iov and failing recvmsg calls.                     *)
LEMMA TalkDump ==
    IInv /\ DumpInv /\ (TalkSend \/ TalkSkip \/ TalkAck \/ TalkNack \/ TalkAnswer \/ RecvError)
        => DumpInv'
<1> SUFFICES ASSUME IInv, DumpInv,
                    TalkSend \/ TalkSkip \/ TalkAck \/ TalkNack \/ TalkAnswer \/ RecvError
             PROVE  DumpInv'
  OBVIOUS
<1>1. CASE TalkSend
  BY ZenonT(60), <1>1, NotDumping DEF TalkSend, DumpExact, NoRes
<1>2. CASE TalkRecv /\ UNCHANGED <<pc, res>>
  BY Zenon, <1>2, NotDumping DEF TalkRecv, DumpInv, DumpExact, NoRes
<1>3. ASSUME NEW ret, NEW n, NEW reply, Return("talk", ret, n, reply) PROVE DumpInv'
  BY ZenonT(60), <1>3, NotDumping DEF Return, DumpExact
<1>4. CASE RecvError
  BY ZenonT(60), <1>4, NotDumping DEF RecvError, Return, DumpExact
<1>5. TalkSkip => TalkRecv /\ UNCHANGED <<pc, res>>
  BY Zenon DEF TalkSkip
<1>6. TalkAck => \/ TalkRecv /\ UNCHANGED <<pc, res>>
                 \/ \E ret, n, reply : Return("talk", ret, n, reply)
  BY Zenon DEF TalkAck
<1>7. TalkNack \/ TalkAnswer => \E ret, n, reply : Return("talk", ret, n, reply)
  BY Zenon DEF TalkNack, TalkAnswer
<1> QED BY ZenonT(60), <1>1, <1>2, <1>3, <1>4, <1>5, <1>6, <1>7

LEMMA DumpInvariance == Spec => [](IInv /\ DumpInv)
<1>1. DumpInv /\ UNCHANGED vars => DumpInv'
  BY Zenon DEF vars, DumpInv, DumpExact
<1>2. IInv /\ DumpInv /\ [Next]_vars => DumpInv'
  BY ZenonT(60), <1>1, DumpSkipDump, DumpNackDump, DumpChunkDump, DumpRequestDump, SendDump,
     KernelChunkDump, KernelEventDump, TalkDump DEF Next, Client
<1> QED BY <1>2, DumpInvInit, Invariance, PTL DEF Spec

(* rtnl_dump_filter: a dump that succeeds has given its callback every     *)
(* object of the table, once and in order.                                 *)
THEOREM DumpExactHolds == Spec => []DumpExact
<1>1. DumpInv => DumpExact
  BY Zenon DEF DumpInv
<1> QED BY <1>1, DumpInvariance, PTL

-----------------------------------------------------------------------------
(* The mapped variables, as abbreviations.                                 *)
Table   == IF dump = 0 THEN 0 ELSE size[dump]
Verdict == IF res.op # "dump" THEN "none" ELSE IF res.ret = "ok" THEN "ok" ELSE "failed"

LEMMA InitImplements == Init => Call!Init
BY DEF Init, Call!Init, NoRes

(* A step the caller of the dump does not see.                             *)
LEMMA Unseen ==
    ASSUME (pc = "dump") <=> (pc' = "dump"), UNCHANGED <<dump, size, got>>, Verdict' = Verdict
    PROVE  UNCHANGED Call!dumpVars
BY Zenon DEF Call!dumpVars, Verdict

(* A dump that fails, with what its callback was given before.             *)
LEMMA FailImplements ==
    ASSUME pc = "dump", NEW ret, ret # "ok", NEW n, Return("dump", ret, n, 0),
           UNCHANGED <<dump, size>>, dump # 0,
           \E k \in Len(got)..size[dump] : got' = Call!Objects(k)
    PROVE  Call!Fail
BY Zenon DEF Call!Fail, Call!Give, Return

LEMMA RequestImplements == IInv /\ DumpRequest => Call!Begin
<1> SUFFICES ASSUME IInv, DumpRequest PROVE Call!Begin
  OBVIOUS
<1>0. pc = "idle" /\ pc' = "dump" /\ dump' = seq + 1 /\ got' = << >> /\ res' = NoRes
  BY Zenon DEF DumpRequest
<1>1. seq \in Nat /\ seq + 1 \in Seqs /\ size \in [Seqs -> 0..MaxObjs]
  BY SMTT(60), NetlinkAssumption DEF DumpRequest, IInv, TypeOK, Seqs
<1>2. size'[dump'] \in 0..MaxObjs
  <2>1. CASE UNCHANGED size
    BY Zenon, <1>0, <1>1, <2>1
  <2>2. CASE \E k \in 0..MaxObjs : size' = [size EXCEPT ![seq + 1] = k]
    BY Zenon, <1>0, <1>1, <2>2
  <2> QED BY Zenon, <2>1, <2>2 DEF DumpRequest
<1>3. dump' # 0
  BY <1>0, <1>1
<1> QED BY Zenon, <1>0, <1>2, <1>3 DEF Call!Begin, NoRes

LEMMA DumpingImplements ==
    ASSUME IInv, DumpInv, DumpSkip \/ DumpNack \/ DumpChunk
    PROVE  Call!Next \/ UNCHANGED Call!dumpVars
<1>0. DumpRecv
  BY Zenon DEF DumpSkip, DumpNack, DumpChunk
<1>1. /\ pc = "dump" /\ res = NoRes /\ UNCHANGED <<dump, size>>
      /\ dump # 0 /\ size[dump] \in Nat /\ Len(got) \in Nat /\ Len(got) <= size[dump]
      /\ got = Call!Objects(Len(got))
  <2>1. dump \in Seqs
    BY Zenon, <1>0, DumpState
  <2>2. dump # 0
    BY <2>1, NetlinkAssumption DEF Seqs
  <2> QED BY Zenon, <1>0, <2>2, DumpState
<1>2. CASE DumpSkip
  BY Zenon, <1>1, <1>2, Unseen DEF DumpSkip, Verdict
<1>3. CASE DumpNack
  <2>1. Return("dump", "nack", 0, 0) /\ got' = Call!Objects(Len(got))
    BY Zenon, <1>1, <1>3 DEF DumpNack
  <2>2. Len(got) \in Len(got)..size[dump]
    BY <1>1
  <2> QED BY ZenonT(60), <1>1, <2>1, <2>2, FailImplements DEF Call!Next
<1>4. CASE DumpChunk
  <2>0. /\ Msg.hi \in Nat /\ Msg.hi \in Len(got)..size[dump]
    <3>1. DumpAccepts(Msg) /\ Msg.type = "chunk"
      BY Zenon, <1>4 DEF DumpChunk
    <3>2. Msg.hi \in Nat /\ Len(got) <= Msg.hi /\ Msg.hi <= size[dump]
      BY Zenon, <1>0, <3>1, Handed
    <3> QED BY <1>1, <3>2
  <2>1. CASE /\ \E h \in Len(got)..size[dump] : got' = Call!Objects(h)
             /\ Return("dump", "filter", 0, 0)
    BY ZenonT(60), <1>1, <2>1, FailImplements DEF Call!Next
  <2>2. CASE got' = Call!Objects(Msg.hi) /\ UNCHANGED <<pc, call, res>>
    BY Zenon, <1>1, <2>0, <2>2 DEF Call!Next, Call!Proceed, Call!Give
  <2>3. CASE got' = Call!Objects(Msg.hi) /\ Return("dump", "done_err", 0, 0)
    BY ZenonT(60), <1>1, <2>0, <2>3, FailImplements DEF Call!Next
  <2>4. CASE got' = Call!Objects(size[dump]) /\ Return("dump", "ok", 0, 0)
    BY Zenon, <1>1, <2>4 DEF Call!Next, Call!Succeed, Return
  <2> QED BY SMTT(60), <1>4, <2>1, <2>2, <2>3, <2>4, ChunkSteps
<1> QED BY Zenon, <1>2, <1>3, <1>4

LEMMA TalkingImplements ==
    ASSUME IInv, DumpInv, TalkSend \/ TalkSkip \/ TalkAck \/ TalkNack \/ TalkAnswer
    PROVE  Call!Next \/ UNCHANGED Call!dumpVars
<1>1. CASE TalkSend
  <2>1. pc = "idle" /\ pc' = "talk" /\ got' = << >> /\ res' = NoRes /\ UNCHANGED <<dump, size>>
    BY Zenon, <1>1 DEF TalkSend
  <2> QED BY Zenon, <2>1 DEF Call!Next, Call!Forget, NoRes
<1>2. CASE TalkRecv /\ UNCHANGED <<pc, res>>
  BY Zenon, <1>2, Unseen DEF TalkRecv, Verdict
<1>3. ASSUME NEW ret, NEW n, NEW reply, TalkRecv, Return("talk", ret, n, reply)
      PROVE  UNCHANGED Call!dumpVars
  <2>1. res = NoRes /\ pc = "talk" /\ pc' = "idle" /\ UNCHANGED <<dump, size, got>>
    BY Zenon, <1>3 DEF TalkRecv, Return, DumpInv
  <2>2. Verdict' = "none" /\ Verdict = "none"
    BY Zenon, <1>3, <2>1 DEF Return, Verdict, NoRes
  <2> QED BY Zenon, <2>1, <2>2, Unseen
<1>4. TalkSkip => TalkRecv /\ UNCHANGED <<pc, res>>
  BY Zenon DEF TalkSkip
<1>5. TalkAck => \/ TalkRecv /\ UNCHANGED <<pc, res>>
                 \/ TalkRecv /\ \E ret, n, reply : Return("talk", ret, n, reply)
  BY Zenon DEF TalkAck
<1>6. TalkNack \/ TalkAnswer => TalkRecv /\ \E ret, n, reply : Return("talk", ret, n, reply)
  BY Zenon DEF TalkNack, TalkAnswer
<1> QED BY ZenonT(60), <1>1, <1>2, <1>3, <1>4, <1>5, <1>6

LEMMA RecvErrorImplements ==
    ASSUME IInv, DumpInv, RecvError
    PROVE  Call!Next \/ UNCHANGED Call!dumpVars
<1>0. /\ pc \in {"talk", "dump"} /\ Return(pc, "recv", call.i + 1, 0)
      /\ UNCHANGED <<dump, size, got>> /\ pc' = "idle" /\ res = NoRes
  BY SMTT(30) DEF RecvError, Return, DumpInv
<1>1. CASE pc = "dump"
  <2>0. dump \in Seqs
    BY SMTT(60), <1>1, NetlinkAssumption DEF IInv, CallNumbered, TypeOK, Seqs
  <2>1. dump # 0 /\ size[dump] \in Nat /\ Len(got) \in Nat
    BY SMTT(60), <2>0, NetlinkAssumption, LenProperties DEF IInv, TypeOK, Seqs
  <2>2. got' = Call!Objects(Len(got)) /\ Len(got) \in Len(got)..size[dump]
    BY <1>0, <1>1, <2>1 DEF DumpInv
  <2> QED BY ZenonT(60), <1>0, <1>1, <2>1, <2>2, FailImplements DEF Call!Next
<1>2. CASE pc = "talk"
  <2>1. Verdict' = "none" /\ Verdict = "none"
    BY Zenon, <1>0, <1>2 DEF Return, Verdict, NoRes
  <2> QED BY ZenonT(60), <1>0, <1>2, <2>1, Unseen
<1> QED BY ZenonT(60), <1>0, <1>1, <1>2

(* lib/libnetlink.c implements the dump of DumpCall: every step of the     *)
(* transport is a step of the abstract dump or one its caller cannot see.  *)
THEOREM DumpRefinement == Spec => DumpImplemented
<1>1. IInv /\ DumpInv /\ [Next]_vars => [Call!Next]_(Call!dumpVars)
  <2> SUFFICES ASSUME IInv, DumpInv, [Next]_vars PROVE Call!Next \/ UNCHANGED Call!dumpVars
    OBVIOUS
  <2>1. CASE UNCHANGED vars
    BY Zenon, <2>1, Unseen DEF vars, Verdict
  <2>2. CASE Send \/ KernelChunk \/ KernelEvent
    BY Zenon, <2>2, Unseen DEF Send, KernelChunk, KernelEvent, Verdict
  <2>3. CASE DumpRequest
    BY Zenon, <2>3, RequestImplements DEF Call!Next
  <2> QED BY ZenonT(60), <2>1, <2>2, <2>3, DumpingImplements, TalkingImplements, RecvErrorImplements
      DEF Next, Client
<1> QED BY <1>1, InitImplements, DumpInvariance, PTL DEF Spec, DumpImplemented, Call!Spec
=============================================================================
