------------------------------- MODULE TcBatch -------------------------------
(***************************************************************************)
(* batch() of tc/tc.c.  Filter and action commands are not sent one by one *)
(* but collected, up to MSG_IOV_MAX of them, and sent with one call of     *)
(* rtnl_talk_iov; to know when to send, the loop reads one line ahead.     *)
(* The socket is quiet between two calls, so rtnl_talk_iov appears here as *)
(* what Netlink!TalkVerdict and Netlink!BatchIndex say of it.              *)
(***************************************************************************)
EXTENDS Integers, Sequences, Functions

CONSTANTS
    MsgIovMax,  \* MSG_IOV_MAX
    MaxLines    \* bound: lines of the file

ASSUME TcBatchAssumption == MsgIovMax \in Nat \ {0} /\ MaxLines \in Nat

(* A line: blank, a command that batchsize_enabled accepts ("bs"), or any  *)
(* other command ("dir").  parse: do_cmd builds the message without error; *)
(* kernel: the kernel accepts what is sent.                                *)
Blank == [k |-> "blank", parse |-> TRUE, kernel |-> TRUE]
Line == [k : {"bs", "dir"}, parse : BOOLEAN, kernel : BOOLEAN] \cup {Blank}

VARIABLES
    file, force,    \* the input and the -force option
    pc,
    pos,            \* the line in largv
    lastline,       \* getcmdline has met the end of the file
    cmdlineno,
    send,           \* the batch is sent after this command
    bufs,           \* the list head..tail: the line each buffer was got for
    batchsize,
    pool,           \* length of buf_pool
    ret,
    sent,           \* history: the lines whose message went to the kernel
    reported,       \* history: the line numbers of "Command failed"
    failed          \* history: the lines that failed

vars == <<file, force, pc, pos, lastline, cmdlineno, send, bufs, batchsize, pool,
          ret, sent, reported, failed>>

Init ==
    /\ file \in UNION {[1..n -> Line] : n \in 1..MaxLines}
    /\ force \in BOOLEAN
    /\ pc = "read"
    /\ pos = 1
    /\ lastline = FALSE
    /\ cmdlineno = 1
    /\ send = FALSE
    /\ bufs = << >>
    /\ batchsize = 0
    /\ pool = 0
    /\ ret = 0
    /\ sent = << >>
    /\ reported = << >>
    /\ failed = {}

-----------------------------------------------------------------------------
Enabled(l) == l <= Len(file) /\ file[l].k = "bs"

(* get_batch_buf: from the pool if it has one, to the tail of the list     *)
GetBatchBuf ==
    /\ bufs' = Append(bufs, pos)
    /\ pool' = IF pool = 0 THEN 0 ELSE pool - 1
    /\ batchsize' = batchsize + 1

(* Mutant: the next line does not decide whether to send                   *)
ReadAheadTo(stop) ==
    /\ pc = "read"
    /\ lastline' = (pos = Len(file))
    /\ cmdlineno' = IF pos = Len(file) THEN cmdlineno ELSE cmdlineno + 1
    /\ IF Enabled(pos) THEN GetBatchBuf ELSE UNCHANGED <<bufs, pool, batchsize>>
    /\ send' = stop
    /\ IF file[pos].k = "blank"
       THEN pos' = pos + 1 /\ pc' = IF pos = Len(file) THEN "end" ELSE "read"
       ELSE pc' = "cmd" /\ UNCHANGED pos
    /\ UNCHANGED <<file, force, ret, sent, reported, failed>>

ReadAheadBlind == ReadAheadTo(pos = Len(file) \/ batchsize = MsgIovMax - 1)

(* The head of the loop: read the next line, get a buffer for the current  *)
(* one, decide whether to send after it; a blank line ends the iteration.  *)
ReadAhead ==
    /\ pc = "read"
    /\ lastline' = (pos = Len(file))
    /\ cmdlineno' = IF pos = Len(file) THEN cmdlineno ELSE cmdlineno + 1
    /\ IF Enabled(pos) THEN GetBatchBuf ELSE UNCHANGED <<bufs, pool, batchsize>>
    /\ send' = ~(pos # Len(file) /\ Enabled(pos) /\ Enabled(pos + 1)
                 /\ batchsize' # MsgIovMax)
    /\ \/ /\ file[pos].k = "blank"
          /\ pos' = pos + 1
          /\ pc' = IF pos = Len(file) THEN "end" ELSE "read"
       \/ /\ file[pos].k # "blank"
          /\ pc' = "cmd"
          /\ UNCHANGED pos
    /\ UNCHANGED <<file, force, ret, sent, reported, failed>>

(* do_cmd: with a buffer the command only builds its message there, and    *)
(* what it built before an error stays; without one it talks to the kernel *)
DoCmd(l) ==
    IF bufs # << >> THEN file[l].parse ELSE file[l].parse /\ file[l].kernel

(* The call of do_cmd and what follows it up to the sending of the batch   *)
Command ==
    /\ pc = "cmd"
    /\ ret' = IF DoCmd(pos) THEN 0 ELSE 1
    /\ failed' = IF DoCmd(pos) THEN failed ELSE failed \cup {pos}
    /\ reported' = IF DoCmd(pos) THEN reported ELSE Append(reported, cmdlineno - 1)
    /\ sent' = IF bufs = << >> /\ file[pos].parse THEN Append(sent, pos) ELSE sent
    /\ pc' = CASE ~DoCmd(pos) /\ ~force -> "end"
               [] send /\ Enabled(pos) /\ (DoCmd(pos) \/ force) -> "send"
               [] OTHER -> IF lastline THEN "end" ELSE "read"
    /\ pos' = IF pc' = "read" THEN pos + 1 ELSE pos
    /\ UNCHANGED <<file, force, lastline, cmdlineno, send, bufs, batchsize, pool>>

(* rtnl_talk_iov on a quiet socket: every message reaches the kernel, and  *)
(* the result is minus the place of the first one refused.                 *)
Refused == {i \in 1..Len(bufs) : ~file[bufs[i]].kernel}
TalkIov == IF Refused = {} THEN 0 ELSE -(CHOOSE i \in Refused : \A j \in Refused : i <= j)

(* Mutants: batchsize is not reset; the line number is one too high        *)
SendBatchAs(off, size) ==
    /\ pc = "send"
    /\ sent' = sent \o bufs
    /\ failed' = failed \cup {bufs[i] : i \in Refused}
    /\ IF TalkIov < 0
       THEN /\ reported' = Append(reported, cmdlineno - (batchsize + TalkIov) - off)
            /\ ret' = 2
            /\ pc' = "end"
            /\ UNCHANGED <<pos, bufs, batchsize, pool>>
       ELSE /\ ret' = 0
            /\ pool' = pool + Len(bufs)
            /\ bufs' = << >>
            /\ batchsize' = size
            /\ pc' = IF lastline THEN "end" ELSE "read"
            /\ pos' = IF lastline THEN pos ELSE pos + 1
            /\ UNCHANGED reported
    /\ UNCHANGED <<file, force, lastline, cmdlineno, send>>

SendBatchKeepsCount == SendBatchAs(1, batchsize)

SendBatchWrongLine == SendBatchAs(0, 0)

(* The batch is sent; on success its buffers go back to the pool.          *)
SendBatch ==
    /\ pc = "send"
    /\ sent' = sent \o bufs
    /\ failed' = failed \cup {bufs[i] : i \in Refused}
    /\ \/ /\ TalkIov < 0
          /\ reported' = Append(reported, cmdlineno - (batchsize + TalkIov) - 1)
          /\ ret' = 2
          /\ pc' = "end"
          /\ UNCHANGED <<pos, bufs, batchsize, pool>>
       \/ /\ TalkIov = 0
          /\ ret' = 0
          /\ pool' = pool + Len(bufs)
          /\ bufs' = << >>
          /\ batchsize' = 0
          /\ pc' = IF lastline THEN "end" ELSE "read"
          /\ pos' = IF lastline THEN pos ELSE pos + 1
          /\ UNCHANGED reported
    /\ UNCHANGED <<file, force, lastline, cmdlineno, send>>

Next == ReadAhead \/ Command \/ SendBatch

Spec == Init /\ [][Next]_vars

FairSpec == Spec /\ WF_vars(Next)

-----------------------------------------------------------------------------
Lines == 1..Len(file)
Commands == {l \in Lines : file[l].k # "blank"}

(* The iovec array of batchsize entries is filled from the list of         *)
(* buffers: the two counts agree whenever a command runs or the batch is   *)
(* sent, also after a command that failed under -force; no more buffers    *)
(* exist than MSG_IOV_MAX.                                                 *)
BatchSizeMatches ==
    /\ batchsize = Len(bufs)
    /\ pool + Len(bufs) <= MsgIovMax

(* Looking one line ahead loses, repeats and reorders nothing: a command   *)
(* is never sent before one of an earlier line, one that talks to the      *)
(* kernel itself finds no message still waiting, and when batch returns 0  *)
(* without -force every command went to the kernel and was accepted.       *)
EverythingSent ==
    /\ \A i, j \in 1..Len(sent) : i < j => sent[i] < sent[j]
    /\ pc = "cmd" /\ ~Enabled(pos) => bufs = << >>
    /\ pc = "end" /\ ret = 0 /\ ~force => Range(sent) = Commands /\ failed = {}

(* The number after "Command failed" is the line of a command that failed, *)
(* unless the end of the file had been met when it was printed.            *)
LineReported ==
    ~lastline => \A i \in 1..Len(reported) : reported[i] \in failed

(* batch() ends and leaves no message behind in a buffer.                  *)
Ends == <>(pc = "end" /\ (ret = 0 => bufs = << >>))

(* tc(8), -force: "If there were any errors during execution of the        *)
(* commands, the application return code will be non zero."                *)
ErrorsInCode == pc = "end" /\ failed # {} => ret # 0

=============================================================================
