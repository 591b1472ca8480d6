---------------------------- MODULE ListFilters -----------------------------
(***************************************************************************)
(* The list commands of ip, tc and bridge.  The words of the command set   *)
(* fields of a filter that is static data of the file; the print function  *)
(* that the dump calls for every object leaves out the objects that the    *)
(* filter does not admit.  With -batch one process runs many commands, so  *)
(* a field that a command does not reset keeps what an earlier one left.   *)
(***************************************************************************)
EXTENDS Integers, FiniteSets

CONSTANTS Programs,     \* sets of list commands that share one process
          MaxWords,     \* words given, all commands together
          MaxCommands   \* commands of the batch file

\* An attribute of an object of the kernel: not there, or one of two values.
NoAttr == -1
Every    == {NoAttr, 0, 1}

(* How a print function reads a field of the filter (the values of the     *)
(* attribute it admits for the argument v): an absent attribute counts as  *)
(* 0; it must be there; an object without it passes; a filter of 0 is no   *)
(* filter; the word lifts a filter; it asks for the bit to be clear; and   *)
(* the print function does not look at the field.                          *)
Equal(v) == IF v = 1 THEN {1} ELSE {NoAttr, 0}
Admits(how, v) ==
    CASE how = "equal"   -> Equal(v)
      [] how = "present" -> {v}
      [] how = "lax"     -> {NoAttr, v}
      [] how = "nonzero" -> IF v = 0 THEN Every ELSE {1}
      [] how = "any"     -> Every
      [] how = "clear"   -> Equal(0)
      [] how = "unread"  -> Every

(* Tables: the one with a single row, and the rows of two.                 *)
One(k, v) == [x \in {k} |-> v]
f ++ g    == [x \in DOMAIN f \cup DOMAIN g |-> IF x \in DOMAIN f THEN f[x] ELSE g[x]]

(* A word: the fields it sets and how; adds: it widens what words of this  *)
(* kind admit instead of replacing it; once: refused when the field has    *)
(* been set; clears: the fields it overwrites besides.                     *)
Word(sets)  == [sets |-> sets, adds |-> FALSE, once |-> FALSE, clears |-> {}]
Words(K, how) == [k \in K |-> Word(One(k, how))]
OnceWords(rows)  == [k \in DOMAIN rows |-> [rows[k] EXCEPT !.once = TRUE]]
Adding(rows) == [k \in DOMAIN rows |-> [rows[k] EXCEPT !.adds = TRUE]]

(* A command: the file whose static data its filter is, what it stores     *)
(* there before it looks at its words (resets), its words, and the fields  *)
(* that it keeps in a variable of its own until the words are over (late:  *)
(* the device, whose name is looked up then).  quits: the fields that,     *)
(* once set, make it show the device alone and end.                        *)
Fields(words) == UNION {DOMAIN words[k].sets : k \in DOMAIN words}
List(from, resets, words) == [file |-> from, resets |-> resets, words |-> words, late |-> {"dev"}, quits |-> {}]
Clear(X) == [x \in X |-> Every]
NotReset(from, words)  == List(from, <<>>, words)
ResetList(from, words) == List(from, Clear(Fields(words)), words)
-----------------------------------------------------------------------------
(* ip/iproute.c: without words the routes of the main table that are not   *)
(* cached.                                                                 *)
filter_nlmsg == Words({"tos", "protocol", "scope", "mark", "metric", "realms"}, "equal")
                  ++ Words({"type", "oif", "iif", "via", "src"}, "present")
\* The mutant forgets the type.
iproute_reset_no_type == [x \in (DOMAIN filter_nlmsg \cup {"table", "cloned"}) \ {"type"} |->
                             IF x \in {"table", "cloned"} THEN Equal(0) ELSE Every]
iproute_reset_filter == [x \in DOMAIN filter_nlmsg \cup {"table", "cloned"} |->
                            IF x \in {"table", "cloned"} THEN Equal(0) ELSE Every]
iproute_list_flush_or_save ==
    [List("iproute", iproute_reset_filter,
         filter_nlmsg ++ Words({"table"}, "present")
           ++ One("table all", Word(One("table", "any")))
           ++ [k \in {"table cache", "cached"} |-> Word(One("cloned", "equal"))]
           ++ One("vrf", Word(One("table", "present") ++ One("type", "clear")))
           ++ One("protocol all", Word(One("protocol", "any"))) ++ One("scope all", Word(One("scope", "any"))))
        EXCEPT !.late = {"oif", "iif", "mark"}]

(* ip/iprule.c; a mark of 0 and table 0 are no filter, and the print       *)
(* function does not look at the protocol.                                 *)
rule_filter_nlmsg == Words({"pref", "tos", "not", "l3mdev"}, "equal") ++ Words({"fwmark", "table"}, "nonzero")
                       ++ Words({"iif", "oif", "uidrange", "from", "to"}, "present")
iprule_list_flush_or_save ==
    ResetList("iprule", rule_filter_nlmsg ++ Words({"protocol"}, "unread")
                      ++ One("fwmark/mask", Word(One("fwmark", "nonzero") ++ One("fwmask", "nonzero"))))

(* ip/ipneigh.c: entries that need no resolution are left out unless a     *)
(* state is asked for; several states widen the list.                      *)
neigh_words == OnceWords(Words({"dev"}, "present")) ++ Words({"unused"}, "clear") ++ Words({"to", "master"}, "present")
ipneigh_reset_filter == [x \in {"dev", "unused", "to", "master", "nud"} |-> IF x = "nud" THEN Equal(0) ELSE Every]
do_show_or_flush ==
    List("ipneigh", ipneigh_reset_filter,
         neigh_words ++ Adding(Words({"nud"}, "present")) ++ One("vrf", Word(One("master", "present")))
           ++ One("nud all", Word(One("nud", "any"))))

(* ip/ipaddress.c.  The flags are bits of the object; a flag with a minus  *)
(* in front clears the other flags of the filter.                          *)
ifa_flag_names == {"secondary", "tentative", "deprecated", "permanent"}
get_filter ==
    Words(ifa_flag_names, "equal")
      ++ One("dynamic", Word(One("permanent", "clear"))) ++ One("primary", Word(One("secondary", "clear")))
      ++ [k \in {"-tentative", "-deprecated"} |->
            LET x == IF k = "-tentative" THEN "tentative" ELSE "deprecated" IN
            [Word(One(x, "clear")) EXCEPT !.clears = ifa_flag_names \ {x}]]
addrinfo_words == Words({"scope"}, "equal") ++ One("scope all", Word(One("scope", "any"))) ++ Words({"label", "to"}, "present")
linkinfo_words == Words({"up"}, "equal") ++ Words({"type", "master", "group"}, "present") ++ OnceWords(Words({"dev"}, "present"))
                    ++ One("vrf", Word(One("master", "present")))
ipaddr_reset_filter == Clear({"dev", "up", "type", "master", "group", "scope", "label", "to"} \cup ifa_flag_names)

(* do_link stays set once "ip link show" has run.                          *)
ipaddr_list_flush_or_save ==
    [List("ipaddress", ipaddr_reset_filter, linkinfo_words ++ addrinfo_words ++ get_filter) EXCEPT !.quits = {"do_link", "dev"}]
ipaddr_list_link ==
    [List("ipaddress", One("do_link", Equal(1)) ++ ipaddr_reset_filter, linkinfo_words) EXCEPT !.quits = {"do_link", "dev"}]

ipntable_show == ResetList("ipntable", Words({"dev", "name"}, "lax") ++ One("dev none", Word(One("dev", "lax"))))
do_show_netconf == ResetList("ipnetconf", Words({"dev"}, "present"))
\* ip/ipmroute.c: the default table unless another is named.
mroute_list == List("ipmroute", [x \in {"table", "iif", "from", "to"} |-> IF x = "table" THEN Equal(0) ELSE Every],
                    Words({"table", "iif"}, "present") ++ One("table all", Word(One("table", "any")))
                      ++ Words({"from", "to"}, "lax"))

\* ip/ipmaddr.c: read from files, the filter is never reset.
multiaddr_list == [NotReset("ipmaddr", OnceWords(Words({"dev"}, "present"))) EXCEPT !.late = {}]

-----------------------------------------------------------------------------
(* tc.  The kernel selects the classes and the filters by the request;     *)
(* what is static is the qdisc's device and the filter's chain.            *)
tc_qdisc_list  == NotReset("tc_qdisc", Words({"dev"}, "present"))
tc_class_list  == ResetList("tc_class", OnceWords(Words({"dev", "qdisc", "classid", "parent"}, "present")))
tc_filter_list ==
    LET words == OnceWords(Words({"dev", "block", "parent", "priority", "protocol", "chain"}, "present")) IN
    List("tc_filter", Clear(Fields(words) \ {"chain"}), words)

(* bridge: nothing is reset.  An entry without a vlan counts as vlan 0,    *)
(* which is no filter.                                                     *)
fdb_show    == NotReset("fdb", Words({"dev"}, "present") ++ OnceWords(Words({"vlan"}, "nonzero")) ++ Adding(Words({"state"}, "present")))
brlink_show == NotReset("link", OnceWords(Words({"dev"}, "present")))
mdb_show    == NotReset("mdb", OnceWords(Words({"dev"}, "present")) ++ OnceWords(Words({"vid"}, "nonzero")))
vlan_show   == NotReset("vlan", OnceWords(Words({"dev"}, "present")) ++ OnceWords(Words({"vid"}, "nonzero")))

ip_cmds ==
    One("ip route", iproute_list_flush_or_save) ++ One("ip rule", iprule_list_flush_or_save)
      ++ One("ip neigh", do_show_or_flush) ++ One("ip mroute", mroute_list) ++ One("ip maddress", multiaddr_list)
      ++ One("ip address", ipaddr_list_flush_or_save) ++ One("ip link", ipaddr_list_link)
      ++ One("ip ntable", ipntable_show) ++ One("ip netconf", do_show_netconf)
tc_cmds == One("tc qdisc", tc_qdisc_list) ++ One("tc class", tc_class_list) ++ One("tc filter", tc_filter_list)
bridge_cmds ==
    One("bridge fdb", fdb_show) ++ One("bridge link", brlink_show) ++ One("bridge mdb", mdb_show)
      ++ One("bridge vlan", vlan_show)
ListCommands == ip_cmds ++ tc_cmds ++ bridge_cmds

ASSUME ListAssumption == Programs \subseteq SUBSET DOMAIN ListCommands
-----------------------------------------------------------------------------
VARIABLES prog,     \* the commands of the batch file are among these
          cmd,      \* the one that runs
          filter,   \* static data: file -> field -> the values admitted
          alone,    \* what the filter of this command would be in a process of its own
          asked,    \* what the words of this command mean
          seen,     \* fields its words have set
          stage,       \* "words", "listed", "failed", or "ended": the process is gone
          nwords,   \* words given so far
          cmds      \* commands started so far

listVars == <<prog, cmd, filter, alone, asked, seen, stage, nwords, cmds>>

C == ListCommands[cmd]
Statics(p, f) == UNION {Fields(ListCommands[c].words) \cup DOMAIN ListCommands[c].resets : c \in {d \in p : ListCommands[d].file = f}}
Reset(c, flt) == [x \in DOMAIN flt |-> IF x \in DOMAIN ListCommands[c].resets THEN ListCommands[c].resets[x] ELSE flt[x]]

(* The command c begins: it resets what it resets. *)
BeginList(c, flt) ==
    /\ cmd' = c
    /\ filter' = [flt EXCEPT ![ListCommands[c].file] = Reset(c, @)]
    /\ alone' = Reset(c, Clear(DOMAIN flt[ListCommands[c].file]))
    /\ asked' = alone'
    /\ seen' = {}
    /\ stage' = "words"

ListInit ==
    /\ prog \in Programs
    /\ cmd \in prog
    /\ filter = LET blank == [f \in {ListCommands[c].file : c \in prog} |-> Clear(Statics(prog, f))]
                IN  [blank EXCEPT ![ListCommands[cmd].file] = Reset(cmd, @)]
    /\ alone = filter[ListCommands[cmd].file]
    /\ asked = alone
    /\ seen = {} /\ stage = "words" /\ nwords = 0 /\ cmds = 1

(* A mutant: a word replaces what words of its kind admit. *)
StoreLast(flt, row, v) ==
    [x \in DOMAIN flt |-> IF x \in DOMAIN row.sets THEN Admits(row.sets[x], v) ELSE flt[x]]

(* What a word leaves in a filter, and what it means by itself.            *)
Store(flt, row, v) ==
    [x \in DOMAIN flt |->
        IF x \in DOMAIN row.sets
        THEN LET new == Admits(row.sets[x], v) IN
             IF row.adds /\ (IF x \in DOMAIN C.resets THEN x \in seen ELSE flt[x] # Every) THEN flt[x] \cup new ELSE new
        ELSE IF x \in row.clears /\ flt[x] # Every THEN Equal(0) ELSE flt[x]]
Mean(flt, row, v) ==
    [x \in DOMAIN flt |->
        IF x \notin DOMAIN row.sets THEN flt[x]
        ELSE LET new == IF row.sets[x] = "unread" THEN {v} ELSE Admits(row.sets[x], v) IN
             IF row.adds /\ x \in seen THEN flt[x] \cup new ELSE new]

(* One turn of the loop over the words.  A second value for a word that    *)
(* may be given once ends the process.                                     *)
GiveWord(k, v) ==
    LET row == C.words[k]
        mine == filter[C.file]
    IN
    /\ stage = "words" /\ nwords < MaxWords
    /\ nwords' = nwords + 1
    /\ IF row.once /\ \E x \in DOMAIN row.sets : (IF x \in C.late THEN alone ELSE mine)[x] # Every
       THEN stage' = "ended" /\ UNCHANGED <<filter, alone, asked, seen>>
       ELSE /\ filter' = [filter EXCEPT ![C.file] =
                            [x \in DOMAIN mine |-> IF x \in C.late THEN mine[x] ELSE Store(mine, row, v)[x]]]
            /\ alone' = Store(alone, row, v)
            /\ asked' = Mean(asked, row, v)
            /\ seen' = seen \cup DOMAIN row.sets
            /\ UNCHANGED stage
    /\ UNCHANGED <<prog, cmd, cmds>>

(* A chain that an earlier command asked for is sent again, but its number *)
(* is the content of a variable this command has not set.                  *)
StaleChain == cmd = "tc filter" /\ filter["tc_filter"]["chain"] # Every /\ "chain" \notin seen

(* The device is looked up, then every object of the dump goes through the *)
(* print function.                                                         *)
ShowList ==
    LET found == [x \in DOMAIN alone |-> IF x \in C.late \cap seen THEN alone[x] ELSE filter[C.file][x]]
        quits == C.quits # {} /\ \A x \in C.quits : x \in DOMAIN found /\ found[x] # Every
    IN
    /\ stage = "words"
    /\ stage' = IF quits THEN "ended" ELSE "listed"
    /\ filter' \in {[filter EXCEPT ![C.file] = f] :
                        f \in IF StaleChain THEN {[found EXCEPT !["chain"] = {v}] : v \in 0 .. 1} ELSE {found}}
    /\ UNCHANGED <<prog, cmd, alone, asked, seen, nwords, cmds>>

(* A word is wrong, the device does not exist, or the dump fails. *)
ListFails ==
    /\ stage = "words"
    /\ stage' = "failed"
    /\ UNCHANGED <<prog, cmd, filter, alone, asked, seen, nwords, cmds>>

(* The next line of the batch file; after a failure with -force only. *)
NextLine(c) ==
    /\ stage \in {"listed", "failed"} /\ cmds < MaxCommands
    /\ BeginList(c, filter)
    /\ cmds' = cmds + 1
    /\ UNCHANGED <<prog, nwords>>

ListNext ==
    \/ \E k \in DOMAIN C.words : \E v \in 0 .. 1 : GiveWord(k, v)
    \/ ShowList
    \/ ListFails
    \/ \E c \in prog : NextLine(c)

ListSpec == ListInit /\ [][ListNext]_listVars

-----------------------------------------------------------------------------
(* A command that resets its filter lists exactly what it would list in a  *)
(* process of its own, whatever ran before it in the batch; the chain of   *)
(* tc filter is the one field that such a command does not reset.          *)
SameAsAlone ==
    stage = "listed" /\ DOMAIN C.resets # {} =>
        \A x \in DOMAIN alone \ {"do_link"} :
            filter[C.file][x] = alone[x] \/ <<cmd, x>> = <<"tc filter", "chain">>

(* In a process of its own a command lists what its words mean: each field *)
(* is filtered by the last word for it, or by all of them where they widen *)
(* the list, and by nothing else.  Left out: a flag cleared by a later     *)
(* "-flag" word, and words the print function does not look at.            *)
ListsWhatWasAsked ==
    stage = "listed" =>
        \A x \in DOMAIN alone \ {"do_link"} :
            \/ alone[x] = asked[x]
            \/ \E k \in DOMAIN C.words : x \in C.words[k].clears /\ DOMAIN C.words[k].sets \subseteq seen
            \/ \E k \in DOMAIN C.words : k \in seen /\ C.words[k].sets[k] = "unread"
=============================================================================
