-------------------------- MODULE TcObjectOptions ---------------------------
(***************************************************************************)
(* The words of tc that come before the kind of a queueing discipline, a   *)
(* class or a filter (tc/tc_qdisc.c, tc_class.c, tc_filter.c), the rate    *)
(* estimator (m_estimator.c) and the table of packet sizes (tc_stab.c).    *)
(* The first word that is none of these is the kind, and ends the loop;    *)
(* what follows it belongs to the tables of QdiscOptions and               *)
(* FilterOptions.                                                          *)
(***************************************************************************)
EXTENDS OptionTables

Kind(rows) == Refusing(rows @@ Taking(Arg({"kind"}), {1}), {On({"kind"})})

\* The parent: a class, or one of the hooks that have a word of their own.
Parent(hooks) ==
    Refusing(Arg({"parent"}) @@ [h \in hooks |-> Row({}, "parent" :> AllOnes)], {On({"parent"})})

\* Two times, as one option; they are out of range or give a weight that is not 0.
parse_estimator == Taking(Once({"estimator"}), {1})

\* The words of "stab" up to the first that is not one of them.
parse_size_table ==
    [Parser(Zero({"mtu", "mpu", "overhead", "tsize", "linklayer"}),
            Refusing(Flag("ethernet", "linklayer", 1) @@ Marking(Flag("atm", "linklayer", AllOnes), {"LINKLAYER_ATM"}),
                     {On({"linklayer"})})
                @@ Once({"mtu", "mpu", "overhead", "tsize"}),
            Whole("TCA_STAB_BASE", {"mtu", "mpu", "overhead", "tsize", "linklayer"}))
        EXCEPT !.never = {Off({"linklayer", "mpu", "overhead"})}, !.req = {"overhead"}, !.fails = TRUE]

(* Without cells and a minimum size there is no table, and the number of   *)
(* its slots is forgotten.                                                 *)
tc_calc_size_table ==
    [parse_size_table EXCEPT
        !.fill = {FillZero(Off({"mpu", "LINKLAYER_ATM"}), {"mtu", "tsize"})}
                   \cup {Fill(Cond({y}, {x}), {x}) : x \in {"mtu", "tsize"}, y \in {"mpu", "LINKLAYER_ATM"}},
        !.drops = Drop({Off({"mpu", "LINKLAYER_ATM"})}, {"mtu", "tsize"})]

print_size_table == Printer(NonZero({"linklayer", "overhead", "mpu", "mtu", "tsize"}))

\* "clsact" and "ingress" are parent, kind and handle in one word.
qdisc_hook == Row({}, "parent" :> AllOnes @@ "handle" :> Dflt @@ "kind" :> 1)

tc_qdisc_words ==
    Kind(Taking(Once({"dev"}) @@ Arg({"stab"}), {1}) @@ Once({"handle"}) @@ Parent({"root"}) @@ parse_estimator
           @@ Taking(Arg({"ingress_block", "egress_block"}), {1})
           @@ Refusing("clsact" :> qdisc_hook @@ "ingress" :> qdisc_hook, {On({"parent"})}))

(* A second "stab" replaces the first; the device is looked up last.       *)
tc_qdisc_modify ==
    LET X == {"dev", "handle", "parent"} IN
    [Parser(Zero(X \cup {"estimator", "stab", "ingress_block", "egress_block"}) @@ NotGiven({"kind"}),
            tc_qdisc_words,
            Whole("tcmsg", X) \cup Each({"kind", "estimator", "stab", "ingress_block", "egress_block"}))
        EXCEPT !.fails = TRUE, !.req = {"dev", "root"}]

print_qdisc ==
    Hiding(Printer(Present({"kind", "handle", "dev", "stab"}) @@ NonZero({"parent", "ingress_block", "egress_block"})),
           {"estimator"})

tc_class_modify ==
    LET X == {"dev", "classid", "parent"} IN
    [Parser(Zero(X \cup {"estimator"}) @@ NotGiven({"kind"}),
            Kind(Taking(Once({"dev"}), {1}) @@ Once({"classid"}) @@ Parent({"root"}) @@ parse_estimator),
            Whole("tcmsg", X) \cup Each({"kind", "estimator"}))
        EXCEPT !.fails = TRUE, !.req = {"dev", "root"}]

print_class == Hiding(Printer(Present({"kind", "dev", "parent"}) @@ NonZero({"classid"})), {"estimator"})

(* A filter is on a device or on a block, never on both.  The protocol of  *)
(* a new filter is "all" unless a word says otherwise; priority and        *)
(* protocol share a field.                                                 *)
tc_filter_words ==
    Kind(Refusing(Taking(Once({"dev"}), {1}), {On({"block"})})
           @@ Refusing(Taking(Once({"block"}), {1}), {On({"dev"})})
           @@ Parent({"root", "ingress", "egress"}) @@ Once({"handle", "priority", "protocol", "chain"}))

tc_filter_modify ==
    LET X == {"dev", "block", "parent", "handle", "priority", "protocol"} IN
    [Parser(Zero({"dev", "block", "parent", "priority", "estimator"}) @@ NotGiven({"kind", "chain", "handle", "protocol"}),
            Kind(tc_filter_words @@ parse_estimator),
            Whole("tcmsg", X) \cup Each({"kind", "estimator", "chain"}))
        EXCEPT !.never = {Cond({"handle"}, {"kind"})}, !.fails = TRUE, !.req = {"dev"},
               !.fill = {Fill(Cond({"NLM_F_EXCL"}, {"protocol"}), {"protocol"}),
                         FillZero(Off({"protocol", "NLM_F_EXCL"}), {"protocol"})}]

\* The handle is printed by the kind; a filter of a block has no parent to show.
print_filter ==
    LET p == Printer(Present({"kind", "chain", "handle"}) @@ NonZero({"dev", "block", "parent", "protocol", "priority"})) IN
    Hiding(Where(p, {"parent"}, "block", {-1, 0}), {"estimator"})

\* A filter is fetched by naming all of it.
tc_filter_get ==
    LET X == {"dev", "block", "parent", "handle", "priority", "protocol"} IN
    [Parser(Zero({"dev", "block", "parent", "priority"}) @@ NotGiven({"kind", "chain", "handle", "protocol"}),
            tc_filter_words, Whole("tcmsg", X) \cup Each({"kind", "chain"}))
        EXCEPT !.never = {Off({x}) : x \in {"protocol", "priority", "parent", "kind", "handle"}} \cup {Off({"dev", "block"})},
               !.fails = TRUE,
               !.req = {"dev", "parent", "handle", "priority", "protocol", "kind"}]

TcObjects ==
    [stab       |-> Tool(tc_calc_size_table, print_size_table),
     tc_qdisc   |-> Tool(tc_qdisc_modify, print_qdisc),
     tc_class   |-> Tool(tc_class_modify, print_class),
     tc_filter  |-> Tool(tc_filter_modify, print_filter),
     filter_get |-> Tool(tc_filter_get, print_filter)]
=============================================================================
