------------------------------- MODULE MCArpd -------------------------------
(***************************************************************************)
(* arpd: a behaviour is one of the main loop with its signals, in which    *)
(* the database is a version number, or one of the database and the        *)
(* probes, in which the loop does not appear.                              *)
(***************************************************************************)
EXTENDS ArpdSignals, ArpdProbe

\* The other half at rest: a loop that has ended takes no step.
NoLoop ==
    /\ pc = "gone" /\ ifnum = FALSE /\ sysctl = "found"
    /\ in_poll = FALSE /\ do_exit = FALSE /\ do_sync = FALSE /\ do_stats = FALSE
    /\ adjusted = FALSE /\ insync = FALSE
    /\ mem = 0 /\ disk = 0 /\ closed = 0 /\ asked = 0 /\ signals = 0

NoProbes ==
    /\ now = 0 /\ prev = 0 /\ buckets = 0 /\ sent = <<>>
    /\ db = [h \in Hosts |-> Empty]
    /\ known = [h \in Hosts |-> None]
    /\ unanswered = [h \in Hosts |-> 0]

Looping == now = 0

ArpdInit == (Init /\ NoProbes) \/ (NoLoop /\ ProbeInit)

ArpdNext ==
    \/ Looping /\ Next /\ UNCHANGED probeVars
    \/ ~Looping /\ ProbeNext /\ UNCHANGED vars

Arpd == ArpdInit /\ [][ArpdNext]_<<vars, probeVars>> /\ WF_vars(Looping /\ Step /\ UNCHANGED probeVars)
=============================================================================
