------------------------------ MODULE MCTools -------------------------------
(***************************************************************************)
(* The commands that configure an object, the packet keys and the          *)
(* computations of Trial.tla share nothing: each behaviour is one of       *)
(* commands on an object, of a command that packs keys, or of one          *)
(* computation.                                                            *)
(***************************************************************************)
EXTENDS Options, QdiscOptions, FilterOptions, ActionOptions, EmatchOptions, LinkOptions, IpOptions, TunnelOptions, XfrmOptions,
        BridgeOptions, DevlinkOptions, TipcOptions, TcObjectOptions,
        PacketKeys, Ematch, SsQuery, SsFilter

VARIABLE who

\* A definition of its own: TLC evaluates it once, and a definition that a
\* constant is replaced by every time.
Tables ==
    LET T == Qdiscs @@ Filters @@ Actions @@ Ematches @@ Links @@ IpObjects
             @@ Tunnels @@ Xfrm @@ Bridge @@ Devlink @@ Tipc @@ TcObjects
    IN  [t \in DOMAIN T |-> T[t]]

AllTools == Tables

NoKeys == tool = "" /\ keys = <<>> /\ fields = <<>> /\ packing = ""
NoObject == object = "" /\ util = <<>> /\ phase = "" /\ st = <<>> /\ marks = {} /\ want = <<>> /\ conf = <<>> /\ given = 0 /\ turns = 0

Trials == {"ematch", "ss query", "ss filter"}

Init ==
  /\ TrialInit
  /\ \/ who = "options" /\ OptionsInit /\ NoKeys
     \/ who = "keys" /\ KeysInit /\ NoObject
     \/ who \in Trials /\ NoKeys /\ NoObject

TrialNext ==
  \/ who = "ematch" /\ parse_ematch
  \/ who = "ss query" /\ ss_main
  \/ who = "ss filter" /\ inet_show_netlink_filter

Next ==
  /\ UNCHANGED who
  /\ \/ who = "options" /\ OptionsNext /\ UNCHANGED <<trial, keyVars>>
     \/ who = "keys" /\ KeysNext /\ UNCHANGED <<trial, optionVars>>
     \/ TrialNext /\ UNCHANGED <<keyVars, optionVars>>

\* util follows from object.
View == <<who, trial, keyVars, object, phase, st, marks, want, conf, given, turns>>

Spec == Init /\ [][Next]_<<who, trial, keyVars, optionVars>>
=============================================================================
