--------------------------- MODULE EmatchOptions ----------------------------
(***************************************************************************)
(* The extended matches of tc (tc/em_*.c) as option tables: the words      *)
(* between the parentheses of one match, and the print function of its     *)
(* kind.  How matches combine into a tree is the subject of Ematch.tla.    *)
(***************************************************************************)
EXTENDS OptionTables

Positions(seq) == [Parser(NotGiven(UNION {DOMAIN seq[i] : i \in DOMAIN seq}), InOrder(seq, {}), {})
                     EXCEPT !.never = {Off(DOMAIN seq[i]) : i \in DOMAIN seq},
                            !.req = UNION {DOMAIN seq[i] : i \in DOMAIN seq}]

\* A list of sff and eff identifiers, at most 400 of them.
canid_parse_rule == Arg({"sff", "eff"})

canid_parse_eopt ==
    [Parser(NotGiven({"sff", "eff"}), canid_parse_rule, Whole("rules", {"sff", "eff"}))
        EXCEPT !.never = {Off({"sff", "eff"})}, !.fails = TRUE, !.req = {"sff"}]

canid_print_eopt == Printer(Present({"sff", "eff"}))

cmp_parse_eopt ==
    [Parser(NotGiven({"align", "at", "value"}) @@ Zero({"mask", "trans", "opnd"}) @@ AtDflt({"layer"}),
            InOrder(<<Arg({"align"}),
                      Arg({"at", "layer", "mask"}) @@ Flags({"trans"}) @@ "eq" :> Row({"value"}, "opnd" :> 0)
                          @@ "gt" :> Row({"value"}, "opnd" :> 1) @@ "lt" :> Row({"value"}, "opnd" :> 2)>>, {2}),
            Whole("cmp", {"align", "at", "value", "mask", "trans", "opnd", "layer"}))
        EXCEPT !.never = {Off({"align"}), Off({"at"}), Off({"value"})}, !.req = {"align", "at", "eq"}]

cmp_print_eopt == Printer(Present({"align", "at", "layer", "opnd", "value"}) @@ NonZero({"mask", "trans"}))

nbyte_parse_eopt ==
    [Parser(NotGiven({"needle", "at"}) @@ AtDflt({"layer"}),
            InOrder(<<Taking(Arg({"needle"}), {1}), Arg({"at", "layer"})>>, {2}),
            Whole("nbyte", {"needle", "at", "layer"}))
        EXCEPT !.never = {Off({"needle"}), Off({"at"})}, !.req = {"needle", "at"}]

nbyte_print_eopt == Printer(Present({"needle", "at", "layer"}))

\* An alignment, a key, a mask, "at" and an offset; PacketKeys.tla has the
\* shifts.  nexthdr+ as a word of its own is read and forgotten.
u32_parse_eopt ==
    [Parser(NotGiven({"align", "key", "mask", "at"}) @@ Zero({"nexthdr+N", "nexthdr+"}),
            InOrder(<<Arg({"align"}), Arg({"key"}), Arg({"mask"}),
                      Flags({"nexthdr+"}), Arg({"at"}) @@ "nexthdr+N" :> Row({"at"}, "nexthdr+N" :> 1)>>, {}),
            Whole("key", {"align", "key", "mask", "at", "nexthdr+N"}))
        EXCEPT !.never = {Off({x}) : x \in {"align", "key", "mask", "at"}}, !.fails = TRUE,
               !.req = {"align", "key", "mask", "at"}, !.lost = {"nexthdr+"}]

u32_print_eopt == Printer(Present({"align", "key", "mask", "at"}) @@ NonZero({"nexthdr+N"}))

\* Up to six of src and dst for one set.
parse_dirs == Arg({"dirs"})

ipset_parse_eopt ==
    [Positions(<<Arg({"set"}), parse_dirs>>) EXCEPT !.sends = Whole("info", {"set", "dirs"}), !.fails = TRUE]

ipset_print_eopt == Printer(Present({"set", "dirs"}))

\* -m loads a match for the protocol known so far; its own words follow.
em_ipt_parse_eopt_argv ==
    [Parser(NotGiven({"-m", "data"}) @@ Zero({"-6"}),
            Arg({"-m"}) @@ Flags({"-6"}) @@ Refusing(Arg({"data"}), {Off({"-m"})}),
            Whole("MATCH", {"-m", "data", "-6"}))
        EXCEPT !.never = {Off({"-m"})}, !.fails = TRUE, !.req = {"-m"}]

em_ipt_print_epot == Hiding(Printer(Present({"-m", "data"})), {"-6"})

\* An object is a number, a quoted string or the name of a piece of metadata,
\* which alone may have a shift and a mask.  When the right side is a name and
\* the types differ, one side adopts the other's type or the match is refused.
\* The shift and the mask stand at their places, after their object.
parse_object(side) ==
    <<side \o " value" :> Row({side}, <<>>)
          @@ side \o " name" :> [Row({side}, side \o " named" :> 1) EXCEPT !.marks = {side \o " is a name"}],
      Refusing(Arg({side \o " shift", side \o " mask"}), {Off({side \o " is a name"})})>>

meta_parse_eopt ==
    [Parser(NotGiven({"left", "right"})
                @@ Zero({"left named", "right named", "left shift", "left mask", "right shift", "right mask", "op"}),
            InOrder(<<parse_object("left")[1], Arg({"op"}), parse_object("right")[1]>>, {})
                @@ parse_object("left")[2] @@ parse_object("right")[2],
            Whole("HDR", {"left", "left named", "left shift", "op", "right", "right named", "right shift"})
                \cup Whole("LVALUE", {"left mask"}) \cup Whole("RVALUE", {"right mask"}))
        EXCEPT !.never = {Off({"left"}), Off({"right"}), Off({"place 2"})}, !.fails = TRUE,
               !.req = {"left name", "op", "right value"}]

\* The mask of a value is its value.
print_object(side) ==
    Present({side, side \o " named"}) @@ NonZero({side \o " shift", side \o " mask"})

meta_print_eopt == Printer(print_object("left") @@ print_object("right") @@ Present({"op"}))

\* A match is part of a filter and built anew with it.
Ematch(parse, print) == Tool([parse EXCEPT !.fresh = TRUE], print)

Ematches ==
    "canid" :> Ematch(canid_parse_eopt, canid_print_eopt) @@ "cmp" :> Ematch(cmp_parse_eopt, cmp_print_eopt)
      @@ "nbyte" :> Ematch(nbyte_parse_eopt, nbyte_print_eopt) @@ "em u32" :> Ematch(u32_parse_eopt, u32_print_eopt)
      @@ "ipset" :> Ematch(ipset_parse_eopt, ipset_print_eopt) @@ "meta" :> Ematch(meta_parse_eopt, meta_print_eopt)
      @@ "em ipt" :> Ematch(em_ipt_parse_eopt_argv, em_ipt_print_epot)
=============================================================================
