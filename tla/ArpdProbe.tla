------------------------------ MODULE ArpdProbe ------------------------------
(***************************************************************************)
(* The ARP database of misc/arpd.c: what ARP packets and the kernel's      *)
(* neighbour messages put into it, the negative entries of dead hosts, the *)
(* answers to the kernel and the token bucket of the broadcast probes.     *)
(* Time is counted in ticks, Sec of them to a second.                      *)
(***************************************************************************)
EXTENDS Integers, Sequences

CONSTANTS
    Hosts, Macs,
    None,
    Sec,                \* ticks of a second: 1000 in the code
    R, B,               \* options -R and -B
    active_probing,     \* option -a
    negative_timeout,   \* option -n, in seconds
    CntMod,             \* the counter of a negative entry is a byte: 256 in the code
    MaxTime,            \* bound: time
    MaxSent             \* bound: probes

ASSUME ArpdProbeAssumption ==
    /\ {Sec, R, B, CntMod} \subseteq Nat \ {0}
    /\ R <= Sec
    /\ {active_probing, negative_timeout, MaxTime, MaxSent} \subseteq Nat
    /\ None \notin Macs

broadcast_rate == Sec \div R

broadcast_burst == Sec * B

VARIABLES
    now,
    prev, buckets,      \* the static variables of queue_active_probe
    db,
    sent,               \* history: the times of the probes
    known,              \* history: the address last learnt and not since reported dead
    unanswered          \* history: probes to a host under its negative entry

probeVars == <<now, prev, buckets, db, sent, known, unanswered>>

Empty == [kind |-> "none"]
Mac(m) == [kind |-> "mac", mac |-> m]
Neg(t, c) == [kind |-> "neg", time |-> t, cnt |-> c]

ProbeInit ==
    /\ now = Sec
    /\ prev = 0
    /\ buckets = 0
    /\ db = [h \in Hosts |-> Empty]
    /\ sent = << >>
    /\ known = [h \in Hosts |-> None]
    /\ unanswered = [h \in Hosts |-> 0]

-----------------------------------------------------------------------------
time == now \div Sec

NegValid(e) == e.kind = "neg" /\ time - e.time < negative_timeout

Tick ==
    /\ now < MaxTime
    /\ now' = now + 1
    /\ UNCHANGED <<prev, buckets, db, sent, known, unanswered>>

(* get_arp_pkt, and RTM_NEWNEIGH with an address in do_one_request         *)
Learn(h, m) ==
    /\ db' = [db EXCEPT ![h] = Mac(m)]
    /\ known' = [known EXCEPT ![h] = m]
    /\ unanswered' = [unanswered EXCEPT ![h] = 0]
    /\ UNCHANGED <<now, prev, buckets, sent>>

(* RTM_NEWNEIGH with NUD_FAILED                                            *)
Failed(h) ==
    /\ IF NegValid(db[h])
       THEN UNCHANGED <<db, unanswered>>
       ELSE /\ db' = [db EXCEPT ![h] = Neg(time, 0)]
            /\ unanswered' = [unanswered EXCEPT ![h] = 0]
    /\ known' = [known EXCEPT ![h] = None]
    /\ UNCHANGED <<now, prev, buckets, sent>>

Earned ==
    LET earned == IF prev # 0 THEN buckets + (now - prev) ELSE broadcast_burst
    IN  IF earned > broadcast_burst THEN broadcast_burst ELSE earned

(* Mutant: the time of the last probe is not kept                          *)
ProbeNoPrev ==
    /\ Earned >= broadcast_rate
    /\ Len(sent) < MaxSent
    /\ buckets' = Earned - broadcast_rate
    /\ sent' = Append(sent, now)
    /\ UNCHANGED prev

(* queue_active_probe returns 0                                            *)
Probe ==
    /\ Earned >= broadcast_rate
    /\ Len(sent) < MaxSent
    /\ buckets' = Earned - broadcast_rate
    /\ prev' = now
    /\ sent' = Append(sent, now)

(* queue_active_probe returns -1: no token, or send_probe failed           *)
NoProbe ==
    /\ buckets' = Earned
    /\ UNCHANGED <<prev, sent>>

(* Mutant: the entry is not deleted                                        *)
ReprobeKeeps(h) ==
    /\ known' = [known EXCEPT ![h] = None]
    /\ IF active_probing = 0
       THEN UNCHANGED <<prev, buckets, sent>>
       ELSE Probe \/ NoProbe
    /\ UNCHANGED <<now, db, unanswered>>

(* RTM_GETNEIGH with NUD_PROBE: forget the host and look for it            *)
Reprobe(h) ==
    /\ db' = [db EXCEPT ![h] = Empty]
    /\ known' = [known EXCEPT ![h] = None]
    /\ unanswered' = [unanswered EXCEPT ![h] = 0]
    /\ IF active_probing = 0
       THEN UNCHANGED <<prev, buckets, sent>>
       ELSE Probe \/ NoProbe
    /\ UNCHANGED now

(* Mutant: probes are not counted in the negative entry                    *)
ResolveUncounted(h) ==
    /\ db[h].kind # "mac"
    /\ ~(NegValid(db[h]) /\ db[h].cnt >= active_probing)
    /\ active_probing # 0
    /\ \/ Probe /\ unanswered' = [unanswered EXCEPT ![h] = IF NegValid(db[h]) THEN @ + 1 ELSE @]
       \/ NoProbe /\ UNCHANGED unanswered
    /\ UNCHANGED <<now, known, db>>

(* RTM_GETNEIGH with NUD_INCOMPLETE of a host without an address           *)
Resolve(h) ==
    /\ db[h].kind # "mac"
    /\ ~(NegValid(db[h]) /\ db[h].cnt >= active_probing)
    /\ active_probing # 0
    /\ \/ /\ Probe
          /\ IF NegValid(db[h])
             THEN /\ db' = [db EXCEPT ![h].cnt = (@ + 1) % CntMod]
                  /\ unanswered' = [unanswered EXCEPT ![h] = @ + 1]
             ELSE UNCHANGED <<db, unanswered>>
       \/ NoProbe /\ UNCHANGED <<db, unanswered>>
    /\ UNCHANGED <<now, known>>

(* what respond_to_kernel says when asked for a host: nothing, or the      *)
(* address in the database                                                 *)
Answer(h) == IF db[h].kind = "mac" THEN db[h].mac ELSE None

ProbeNext ==
    \/ Tick
    \/ \E h \in Hosts :
        \/ \E m \in Macs : Learn(h, m)
        \/ Failed(h)
        \/ Reprobe(h)
        \/ Resolve(h)

ProbeSpec == ProbeInit /\ [][ProbeNext]_probeVars

-----------------------------------------------------------------------------
(* arpd(8), -a: "the number of such queries to make before a destination   *)
(* is considered dead", and -n: while its negative entry is valid, a host  *)
(* the kernel could not resolve gets no more than active_probing queries.  *)
DeadHostQuiet ==
    \A h \in Hosts : NegValid(db[h]) => unanswered[h] <= active_probing

(* do_one_request answers the kernel with the address learnt last, never   *)
(* with one the kernel has since reported unreachable (the comment at      *)
(* NUD_PROBE: "we invalidate our information as well").                    *)
AnswerIsCurrent ==
    \A h \in Hosts : Answer(h) = known[h]

(* At one instant the bucket pays for what it can hold, and no more, also  *)
(* when requests of several hosts come in one read.                        *)
BucketBound ==
    \A i \in DOMAIN sent :
        i + broadcast_burst \div broadcast_rate \in DOMAIN sent =>
            sent[i + broadcast_burst \div broadcast_rate] > sent[i]

(* arpd(8), -B: "ensures that the number of ARP queries that are broadcast *)
(* does not exceed B+R*T over any interval of time T".                     *)
RateBound ==
    \A i, j \in DOMAIN sent :
        i <= j => (j - i + 1) * Sec <= B * Sec + R * (sent[j] - sent[i])

=============================================================================
