---------------------------- MODULE MCSequence ------------------------------
(***************************************************************************)
(* What one program makes of a sequence of inputs, step by step: the lines *)
(* of a tc batch file (TcBatch, with every file of up to MaxLines lines),  *)
(* the list commands of a batch, the words of tc actions, the fields that  *)
(* ss prints, the maps of BPF objects and the routes of ip route restore.  *)
(* They share nothing: each behaviour is one of them.                      *)
(***************************************************************************)
EXTENDS TcBatch, SsBuffer, BpfLoad, RouteRestore, ActionList, ListFilters

VARIABLE who

\* The list commands of one program share a process, two files of ip.
AllPrograms == {{"ip route", "ip rule"}, {"ip neigh", "ip mroute"}, {"ip address", "ip link"},
                {"ip ntable", "ip netconf", "ip maddress"},
                {"tc qdisc", "tc class", "tc filter"}, {"bridge fdb", "bridge link", "bridge mdb", "bridge vlan"}}

NoLists == prog = {} /\ cmd = "" /\ filter = <<>> /\ alone = <<>> /\ asked = <<>> /\ seen = {} /\ stage = "" /\ nwords = 0 /\ cmds = 0

Others == {"restore", "actions"}

Route(dst, prefsrc, gateway, multipath) ==
  [dst |-> dst, prefsrc |-> prefsrc, gateway |-> gateway, multipath |-> multipath]
SavedRoutes ==
  { Route("a1", "a1", {}, {}),          \* local address
    Route("n1", "a1", {}, {}),          \* its network
    Route("n2", "", {}, {}),            \* a network without a source
    Route("", "a1", {}, {}),            \* default dev D src a1: no RTA_DST
    Route("r1", "", {"n1"}, {}),
    Route("r2", "a1", {"n2"}, {}),
    Route("r3", "", {}, {"n1", "n2"}) }

\* Objects with maps of one or two kinds, some of which share a path.
BpfObjects ==
  LET counter(size, pin) == BpfMap("counter", pin, "array", size, 0, 0, -1)
      outer(pin, size) == BpfMap("outer", pin, "maps", size, 2, 1, -1)
      inner(pin, idx) == BpfMap("inner", pin, "array", 1, 1, 0, idx)
      jumps(pin) == BpfMap("jumps", pin, "progs", 2, 3, 0, -1)
  IN { Object("a", <<counter(1, "global")>>, <<<<>>>>),
       Object("b", <<counter(2, "global")>>, <<<<>>>>),
       Object("c", <<counter(1, "object"), counter(1, "unlisted")>>, <<<<>>>>),
       Object("d", <<outer("custom", 2), inner("global", 1)>>, <<<<>>>>),
       Object("e", <<outer("none", 1), inner("none", 1)>>, <<<<>>>>),
       Object("f", <<jumps("global")>>, <<<<>>, <<3, 0>>, <<3, 1>>>>),
       Object("g", <<jumps("none"), counter(1, "custom")>>, <<<<>>, <<3, 2>>, <<4, 0>>>>) }

\* There is no batch file to read.
NoBatch ==
  /\ file = <<Blank>> /\ force = FALSE /\ pc = "end" /\ pos = 2 /\ lastline = TRUE /\ cmdlineno = 1 /\ send = TRUE
  /\ bufs = <<>> /\ batchsize = 0 /\ pool = 0 /\ ret = 0 /\ sent = <<>> /\ reported = <<>> /\ failed = {}

SequenceInit ==
  /\ TrialInit /\ BpfInit /\ BufferInit
  /\ \/ who = "tc batch" /\ Init /\ NoLists
     \/ who = "lists" /\ ListInit /\ NoBatch
     \/ who \in Others \cup {"bpf", "ss buffer"} /\ NoBatch /\ NoLists

Batch == who = "tc batch" /\ Next /\ UNCHANGED <<listVars, trial, bpfVars, bufferVars, who>>

OtherNext ==
  \/ who = "restore" /\ RestoreNext
  \/ who = "actions" /\ ActionNext

SequenceNext ==
  \/ Batch
  \/ who = "lists" /\ ListNext /\ UNCHANGED <<vars, trial, bpfVars, bufferVars, who>>
  \/ who = "bpf" /\ BpfNext /\ UNCHANGED <<vars, listVars, trial, bufferVars, who>>
  \/ who = "ss buffer" /\ BufferNext /\ UNCHANGED <<vars, listVars, trial, bpfVars, who>>
  \/ OtherNext /\ UNCHANGED <<vars, listVars, bpfVars, bufferVars, who>>

sequenceVars == <<vars, listVars, trial, bpfVars, bufferVars, who>>

\* batch() goes on as long as the process runs.
SequenceSpec == SequenceInit /\ [][SequenceNext]_sequenceVars /\ WF_sequenceVars(Batch)
=============================================================================
