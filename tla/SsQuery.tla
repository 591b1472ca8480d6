------------------------------- MODULE SsQuery ------------------------------
(***************************************************************************)
(* Which sockets ss looks at (misc/ss.c): the options name tables (dbs),   *)
(* families and states, each with defaults for the other two;              *)
(* filter_merge_defaults completes the filter, a host condition narrows it *)
(* again, and every table's show function reads what is left.              *)
(*                                                                         *)
(* The states are classes of the code's: established and the other         *)
(* connected ones, listening, closed, and those of minisockets.            *)
(***************************************************************************)
EXTENDS Integers, SequencesExt, Trial

CONSTANTS MaxOptions,   \* options given
          MaxItems      \* items of a list given to -A

INET_DBM   == {"tcp", "udp", "dccp", "sctp", "raw"}
UNIX_DBM   == {"unix_stream", "unix_dgram", "unix_seqpacket"}
PACKET_DBM == {"packet_raw", "packet_dgram"}
VSOCK_DBM  == {"vsock_stream", "vsock_dgram"}
ALL_DB     == INET_DBM \cup UNIX_DBM \cup PACKET_DBM \cup VSOCK_DBM \cup {"netlink", "tipc"}
Families   == {"inet", "inet6", "unix", "link", "netlink", "vsock", "tipc"}
SS_ALL     == {"established", "connected", "listen", "close", "mini"}
SS_CONN    == {"established", "connected"}

\* default_dbs[] and default_afs[].
db_states == [db \in ALL_DB |->
  CASE db \in {"udp", "raw"} -> {"established"}
    [] db \in PACKET_DBM \cup {"unix_dgram", "netlink"} -> {"close"}
    [] db = "tipc" -> {"established", "listen", "close"}
    [] OTHER -> SS_CONN]
db_families == [db \in ALL_DB |->
  CASE db \in INET_DBM -> {"inet", "inet6"}
    [] db \in UNIX_DBM -> {"unix"}
    [] db \in PACKET_DBM -> {"link"}
    [] db \in VSOCK_DBM -> {"vsock"}
    [] OTHER -> {db}]
af_dbs == [af \in Families |-> {db \in ALL_DB : af \in db_families[db]}]
af_states == [af \in Families |->
  CASE af \in {"link", "netlink"} -> {"close"}
    [] af = "tipc" -> {"established", "listen", "close"}
    [] OTHER -> SS_CONN]

UnsetFilter == [dbs |-> {}, states |-> {}, families |-> {}, preferred |-> "unspec", do_default |-> TRUE,
          state_filter |-> {}, saw_query |-> FALSE]

filter_db_set(f, db, enable) ==
  IF enable THEN [f EXCEPT !.dbs = @ \cup {db}, !.states = @ \cup db_states[db], !.do_default = FALSE]
  ELSE [f EXCEPT !.dbs = @ \ {db}, !.do_default = FALSE]
filter_af_set(f, af) ==
  [f EXCEPT !.states = @ \cup af_states[af], !.families = @ \cup {af}, !.preferred = af, !.do_default = FALSE]
filter_states_set(f, s) == IF s = {} THEN f ELSE [f EXCEPT !.states = s]

\* filter_db_parse(): an item names some tables, or takes them off with "!".
\* (The order in which the tables of one item are set does not show.)
db_name_tbl(name) == IF name = "all" THEN ALL_DB \ {"tipc"} ELSE {name}
filter_db_parse(f, item) ==
  LET dbs == db_name_tbl(item.name)
  IN IF item.enable
     THEN [f EXCEPT !.dbs = @ \cup dbs, !.states = @ \cup UNION {db_states[db] : db \in dbs}, !.do_default = FALSE]
     ELSE [f EXCEPT !.dbs = @ \ dbs, !.do_default = FALSE]

RECURSIVE parse_query(_, _)
parse_query(f, list) == IF list = <<>> THEN f ELSE parse_query(filter_db_parse(f, Head(list)), Tail(list))

\* -A starts from no tables the first time, and from connected sockets unless
\* states have been chosen before.
query(f, list) ==
  parse_query(IF f.saw_query THEN f
              ELSE [f EXCEPT !.dbs = {}, !.saw_query = TRUE, !.do_default = FALSE,
                             !.state_filter = IF @ = {} THEN SS_CONN ELSE @], list)

\* One option of the getopt loop of main().
option(f, o) ==
  CASE o.opt = "table"  -> filter_db_set(f, o.db, TRUE)
    [] o.opt = "family" -> filter_af_set(f, o.af)
    [] o.opt = "all"    -> [f EXCEPT !.state_filter = SS_ALL]
    [] o.opt = "listen" -> [f EXCEPT !.state_filter = {"listen", "close"}]
    [] o.opt = "query"  -> query(f, o.list)

RECURSIVE options(_, _)
options(f, os) == IF os = <<>> THEN f ELSE options(option(f, Head(os)), Tail(os))

\* The mutant adds the families of every table, also where one was chosen.
merge_all_families(f) == f.families \cup UNION {db_families[db] : db \in f.dbs}
merge_families(f) ==
  f.families \cup UNION {db_families[db] : db \in {d \in f.dbs : db_families[d] \cap f.families = {}}}
filter_merge_defaults(f) ==
  LET fams == merge_families(f)
  IN [f EXCEPT !.families = fams,
               !.dbs = @ \cup UNION {af_dbs[af] : af \in {a \in fams : af_dbs[a] \cap f.dbs = {}}}]

\* "state" and "exclude": the first starts from nothing or from everything.
state_words(f, w) ==
  CASE w = "none"    -> f
    [] w = "state listening"   -> [f EXCEPT !.state_filter = {"listen"}]
    [] w = "exclude listening" -> [f EXCEPT !.state_filter = SS_ALL \ {"listen"}]

\* main() up to the filter; parse_hostcond() keeps the family of the host: the
\* one of its prefix, or the last that an option has named.
parse_hostcond(f, host) ==
  LET fam == CASE f.preferred \in {"unix", "link", "netlink", "vsock"} -> f.preferred
               [] host \in {"unix", "link", "netlink", "vsock"} -> host
               [] f.preferred # "unspec" -> f.preferred
               [] OTHER -> host
  IN IF host = "none" \/ fam = "unspec" THEN f
     ELSE filter_states_set(filter_af_set([f EXCEPT !.families = {}], fam), f.states)
parse_default(f) ==
  IF f.do_default
  THEN filter_db_parse([f EXCEPT !.state_filter = IF @ = {} THEN SS_CONN ELSE @], [name |-> "all", enable |-> TRUE])
  ELSE f
completed(f) == LET g == parse_default(f) IN filter_merge_defaults(filter_states_set(g, g.state_filter))

\* inet_show_netlink(): IPv4 and then IPv6, or the one that was named last.
inet_show_netlink(f) ==
  {af \in IF f.preferred \in {"inet", "inet6"} THEN {f.preferred} ELSE {"inet", "inet6"} : af \in f.families}
\* The tables and families that the show functions read.  packet_show does not
\* tell its two tables apart.
show(f) ==
  IF f.dbs = {} \/ f.families = {} \/ f.states = {} THEN {}
  ELSE {<<db, af>> \in (f.dbs \cap INET_DBM) \X {"inet", "inet6"} : af \in inet_show_netlink(f)}
       \cup {<<db, "unix">> : db \in IF "unix" \in f.families THEN f.dbs \cap UNIX_DBM ELSE {}}
       \cup {<<db, "vsock">> : db \in IF "vsock" \in f.families THEN f.dbs \cap VSOCK_DBM ELSE {}}
       \cup {<<db, "tipc">> : db \in f.dbs \cap {"tipc"}}
       \cup {<<db, "link">> : db \in IF /\ f.dbs \cap PACKET_DBM # {} /\ "link" \in f.families
                                        /\ "close" \in f.states THEN PACKET_DBM ELSE {}}
       \cup {<<db, "netlink">> : db \in IF "netlink" \in f.families /\ "close" \in f.states
                                        THEN f.dbs \cap {"netlink"} ELSE {}}

Items == [name : {"all", "tcp"}, enable : BOOLEAN]
Lists == UNION {[1..n -> Items] : n \in 1..MaxItems}
OptionGiven == [opt : {"table"}, db : {"tcp", "udp"}] \cup [opt : {"family"}, af : Families]
          \cup [opt : {"all", "listen"}] \cup [opt : {"query"}, list : Lists]

\* main(): the command line, and what is read.
ss_main ==
  /\ trial = NotYet
  /\ \E n \in 0..MaxOptions : \E os \in [1..n -> OptionGiven] :
     LET named == options(UnsetFilter, os) IN
     \E w \in {"none", "state listening", "exclude listening"}, host \in {"none", "unix"} :
       LET f == parse_hostcond(completed(state_words(named, w)), host)
       IN trial' = [of |-> "ss", options |-> os, words |-> w, host |-> host, filter |-> f, shown |-> show(f)]

-----------------------------------------------------------------------------
GivenOption(o) == {i \in DOMAIN trial.options : trial.options[i].opt = o}
GivenFamilies == {trial.options[i].af : i \in GivenOption("family")}
\* The tables named: by an option, by a list with what follows it taken
\* off; with neither, all that belong to a family named; with nothing, all.
Mentions == FlattenSeq([i \in DOMAIN trial.options |-> IF trial.options[i].opt = "query" THEN trial.options[i].list ELSE <<>>])
Listed == LET items == Mentions
              tables == [k \in DOMAIN items |-> db_name_tbl(items[k].name)]
          IN UNION {tables[k] \ UNION {tables[j] : j \in {j \in DOMAIN items : j > k /\ ~items[j].enable}} :
                    k \in {k \in DOMAIN items : items[k].enable}}
NamedTables == Listed \cup {trial.options[i].db : i \in GivenOption("table")}
NamedDbs == LET T == NamedTables
                F == GivenFamilies
            IN IF T \cup F = {} /\ GivenOption("query") = {} THEN ALL_DB \ {"tipc"}
               ELSE T \cup UNION {af_dbs[af] : af \in {a \in F : af_dbs[a] \cap T = {}}}
NamedFamilies(db) == LET F == db_families[db] \cap GivenFamilies IN IF F = {} THEN db_families[db] ELSE F
\* Where the code departs from that: -A drops the tables named before it and
\* "!" those after; -4 with -6 reads one of the two; the packet tables come
\* together; closed sockets only are read from the packet and netlink tables.
Departs == \/ GivenOption("query") # {} /\ GivenOption("table") # {}
           \/ {"inet", "inet6"} \subseteq GivenFamilies
Readable(db) == db \notin PACKET_DBM \cup {"netlink"} \/ "close" \in trial.filter.states

\* Whatever defaults the options bring with them and in whatever order they
\* come, ss reads the tables that were named and no other, each for the
\* families that were named or else for all it has; a host condition keeps
\* those of its family.
SsReadsWhatIsNamed ==
  (trial.of = "ss" /\ ~Departs) =>
    LET wanted == UNION {{db} \X NamedFamilies(db) : db \in {d \in NamedDbs \ PACKET_DBM : Readable(d)}}
        read == {r \in trial.shown : r[1] \notin PACKET_DBM}
    IN IF trial.host = "none" THEN read = wanted ELSE read \subseteq wanted
=============================================================================
