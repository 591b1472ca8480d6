--------------------------- MODULE ActionOptions ----------------------------
(***************************************************************************)
(* The actions of tc (tc/m_*.c) as option tables.  An action's words come  *)
(* in places: its own keywords, a control word (pass, drop, pipe, goto     *)
(* chain ...), an index.  A word out of its place ends the action's parser *)
(* and goes back to parse_action (ActionList.tla); here such a command     *)
(* counts as refused.                                                      *)
(***************************************************************************)
EXTENDS OptionTables

Control == Arg({"control"})
Index   == Arg({"index"})

bpf_act_parse_opt ==
    [Parser(NotGiven({"run"}) @@ AtDflt({"control"}) @@ Zero({"index"}),
            InOrder(<<Refusing(Flags({"run"}), {On({"run"})}), Control, Index>>, {1}),
            Each({"run"}) \cup Whole("PARMS", {"control", "index"}))
        EXCEPT !.fails = TRUE]

bpf_act_print_opt == Printer(Present({"run", "control", "index"}))

parse_connmark ==
    Parser(Zero({"zone", "index"}) @@ AtDflt({"control"}),
           InOrder(<<Arg({"zone"}), Control, Index>>, {}),
           Whole("PARMS", {"zone", "control", "index"}))

print_connmark == Printer(Present({"zone", "control", "index"}))

csum_headers == {"iph", "icmp", "igmp", "tcp", "udp", "udplite", "sctp"}

parse_csum_args == Flags(csum_headers)

parse_csum ==
    [Parser(Zero(csum_headers \cup {"control", "index"}),
            InOrder(<<parse_csum_args, Control, Index>>, {1}),
            Whole("PARMS", csum_headers \cup {"control", "index"}))
        EXCEPT !.never = {Off(csum_headers)}, !.req = {"iph"}]

print_csum == Printer(NonZero(csum_headers) @@ Present({"control", "index"}))

\* random is a type, an action and a probability up to 10000.
parse_gact ==
    [Parser(NotGiven({"control", "random"}) @@ Zero({"index"}),
            InOrder(<<Control, Arg({"random"}), Index>>, {}),
            Whole("PARMS", {"control", "index"}) \cup Each({"random"}))
        EXCEPT !.never = {Off({"control"})}, !.req = {"control"}]

print_gact == Printer(Present({"control", "random", "index"}))

\* Addresses, type and metadata are only sent when encoding.  For each piece
\* of metadata "use" with a value wins over "allow".
ife_metas == {"mark", "prio", "tcindex"}

ife_encodes == {"dst", "src", "type"}

ife_uses == {"allow mark", "allow prio", "allow tcindex"}

parse_ife ==
    [Parser(Zero({"encode", "index"} \cup ife_metas \cup ife_uses) @@ NotGiven(ife_encodes)
                @@ AtDflt({"control"}),
            InOrder(<<"decode" :> [Row({}, "encode" :> 0) EXCEPT !.marks = {"ok"}]
                          @@ Marking(Flags({"encode"}), {"ok"})
                          @@ Flags(ife_uses) @@ Arg(ife_metas \cup ife_encodes),
                      Control, Marking(Index, {"ok"})>>, {1}),
            Whole("PARMS", {"encode", "control", "index"})
                \cup {Attr(x, {On({"encode", x})}, {x}) : x \in ife_encodes \cup ife_metas \cup ife_uses})
        EXCEPT !.never = {Off({"ok"})}, !.req = {"encode"}, !.lost = ife_encodes \cup ife_metas \cup ife_uses]

print_ife ==
    Printer(Present({"encode", "control", "index"} \cup ife_encodes) @@ NonZero(ife_metas \cup ife_uses))

\* The direction comes before what is done and that before the device; a
\* control word is only read after mirror.  The loop ends at the device.
parse_direction ==
    Refusing(Flags({"egress"}), {On({"ingress"})}) @@ Refusing(Flags({"ingress"}), {On({"egress"})})
        @@ Refusing(Flags({"mirror"}), {On({"redirect"}), Off({"egress", "ingress"})})
        @@ Refusing(Flags({"redirect"}), {On({"mirror"}), Off({"egress", "ingress"})})
        @@ Refusing(Once({"dev"}), {Off({"mirror", "redirect"})})
        @@ Refusing(Once({"control"}), {Off({"dev"}), Off({"mirror"})})
        @@ Refusing(Arg({"index"}), {On({"indexed"})})

parse_mirred ==
    [Parser(Zero({"egress", "ingress", "mirror", "redirect", "index"}) @@ NotGiven({"dev"}) @@ AtDflt({"control"}),
            [parse_direction EXCEPT !["index"].marks = {"indexed"}],
            Whole("PARMS", {"egress", "ingress", "mirror", "redirect", "dev", "control", "index"}))
        EXCEPT !.never = {Cond({"egress"}, {"dev"}), Cond({"ingress"}, {"dev"}), Off({"dev", "indexed"})},
               !.req = {"egress", "mirror", "dev"}]

\* Without a device the printer gives up.
print_mirred ==
    Hiding(Printer([x \in {"egress", "ingress", "mirror", "redirect", "control", "index"} |-> {Seen({x}, {"dev"})}]
                       @@ Present({"dev"})),
           {"index", "control"})

\* nat, a direction, an old and a new prefix.
parse_nat_args == "nat ingress" :> Row({"old", "new"}, <<>>) @@ "nat egress" :> Row({"old", "new"}, "egress" :> 1)

parse_nat ==
    [Parser(NotGiven({"old", "new"}) @@ Zero({"egress", "control", "index"}),
            InOrder(<<parse_nat_args, Control, Index>>, {1}),
            Whole("PARMS", {"old", "new", "egress", "control", "index"}))
        EXCEPT !.never = {Off({"old"})}, !.req = {"nat ingress"}]

print_nat == Printer(Present({"old", "new", "egress", "control", "index"}))

parse_sample ==
    [Parser(NotGiven({"rate", "group", "trunc"}) @@ AtDflt({"control"}) @@ Zero({"index"}),
            InOrder(<<Arg({"rate", "group", "trunc"}), Control, Index>>, {1}),
            Each({"rate", "group", "trunc"}) \cup Whole("PARMS", {"control", "index"}))
        EXCEPT !.never = {Off({"index", "group"}), Off({"index", "rate"})}, !.req = {"rate", "group"}]

\* Nothing is shown of a reply that lacks the rate or the group.
print_sample ==
    Hiding(Printer([x \in {"rate", "group", "trunc", "control", "index"} |-> {Seen({x, "rate", "group"}, {})}]),
           {"rate", "group", "trunc", "control", "index"})

parse_simple ==
    [Parser(NotGiven({"sdata"}) @@ Zero({"index"}),
            InOrder(<<Arg({"sdata"}), Marking(Index, {"indexed"})>>, {1}),
            Each({"sdata"}) \cup Whole("PARMS", {"index"}))
        EXCEPT !.never = {Off({"sdata", "indexed"})}, !.fails = TRUE, !.req = {"sdata"}]

print_simple ==
    Hiding(Printer(Present({"sdata"}) @@ Shows({"index"}, {Seen({"index", "sdata"}, {})})), {"index"})

skbedit_vars == {"queue_mapping", "priority", "mark", "ptype"}

parse_skbedit ==
    [Parser(NotGiven(skbedit_vars) @@ AtDflt({"control"}) @@ Zero({"index"}),
            InOrder(<<Arg(skbedit_vars), Control, Marking(Index, {"indexed"})>>, {1}),
            Each(skbedit_vars) \cup Whole("PARMS", {"control", "index"}))
        EXCEPT !.never = {Off(skbedit_vars \cup {"indexed"})}, !.req = {"mark"}]

print_skbedit == Printer(Present(skbedit_vars \cup {"control", "index"}))

\* An ethertype of 0 raises its flag but is not sent.
parse_skbmod ==
    [Parser(NotGiven({"dmac", "smac"}) @@ Zero({"etype", "mac", "index"}) @@ AtDflt({"control"}),
            InOrder(<<Marking(Arg({"dmac", "smac", "etype"}) @@ Flags({"mac"}), {"ok"}), Control,
                      Marking(Index, {"ok"})>>, {1}),
            Each({"dmac", "smac", "etype"}) \cup Whole("PARMS", {"mac", "control", "index"}))
        EXCEPT !.never = {Off({"ok"})}, !.req = {"mac"}]

print_skbmod == Printer(Present({"dmac", "smac", "etype", "control", "index"}) @@ NonZero({"mac"}))

\* The parameters are added as they are met, with set, unset or neither; set
\* needs both addresses and the id.
tunnel_key_vars == {"src_ip", "dst_ip", "id", "dst_port"}

parse_tunnel_key ==
    [Parser(NotGiven(tunnel_key_vars) @@ Zero({"set", "unset", "nocsum", "index"}) @@ AtDflt({"control"}),
            InOrder(<<Refusing(Flags({"set", "unset"}), {On({"set"}), On({"unset"})}) @@ Arg(tunnel_key_vars)
                          @@ Flags({"nocsum"}) @@ Flag("csum", "nocsum", 0),
                      Control, Index>>, {1}),
            Each(tunnel_key_vars) \cup Whole("NO_CSUM", {"nocsum"})
                \cup Whole("PARMS", {"set", "unset", "control", "index"}))
        EXCEPT !.never = {Cond({"set"}, {x}) : x \in {"src_ip", "dst_ip", "id"}},
               !.req = {"set", "src_ip", "dst_ip", "id"}]

print_tunnel_key ==
    Hiding(Printer([x \in tunnel_key_vars \cup {"nocsum"} |-> {Seen({x}, {"set"})}]
                       @@ Present({"set", "unset", "control", "index"})),
           tunnel_key_vars \cup {"nocsum"})

\* id, protocol and priority are only words of push and modify.
parse_vlan ==
    [Parser(Zero({"pop", "push", "modify", "index"}) @@ NotGiven({"id", "protocol", "priority"}) @@ AtDflt({"control"}),
            InOrder(<<Refusing(Flags({"pop", "push", "modify"}), {On({"pop"}), On({"push"}), On({"modify"})})
                          @@ Refusing(Arg({"id", "protocol", "priority"}), {Off({"push", "modify"})}),
                      Control, Index>>, {1}),
            Each({"id", "protocol", "priority"}) \cup Whole("PARMS", {"pop", "push", "modify", "control", "index"}))
        EXCEPT !.never = {Cond({"push"}, {"id"}), Cond({"modify"}, {"id"})}, !.fails = TRUE, !.req = {"push", "id"}]

print_vlan ==
    Hiding(Printer([x \in {"id", "protocol", "priority"} |-> {Seen({x}, {"push"}), Seen({x}, {"modify"})}]
                       @@ Present({"pop", "push", "modify", "control", "index"})),
           {"id", "protocol", "priority"})

police_sizes == {"burst", "mtu", "mpu", "rate", "avrate", "peakrate"}

\* Without a rate the burst, the mpu, the overhead and the link layer are
\* read and dropped.
police_opts ==
    Once(police_sizes) @@ Arg({"index", "overhead", "linklayer", "control"})
        @@ Args("conform-exceed", {"control", "result"})

act_parse_police ==
    [Parser(Zero(police_sizes \cup {"index", "overhead", "result"}) @@ AtDflt({"linklayer", "control"}), police_opts,
            Whole("TBF", {"index", "rate", "peakrate", "mtu", "control"})
                \cup Group("RATE", {On({"rate"})}, {"burst", "mpu", "overhead", "linklayer"})
                \cup Each({"avrate", "result"}))
        EXCEPT !.never = {On({"rate", "avrate"}), Off({"rate", "avrate", "index"}), Cond({"rate"}, {"burst"}),
                          Cond({"peakrate"}, {"rate"}), Cond({"peakrate"}, {"mtu"})},
               !.fails = TRUE, !.req = {"rate", "burst"}, !.lost = {"burst", "mpu", "overhead", "linklayer"}]

print_police ==
    Hiding(Printer(Present({"index", "rate", "burst", "mtu", "avrate", "control", "result", "overhead", "linklayer"})
                       @@ NonZero({"peakrate"})),
           {"mpu"})

\* What munge packs is the subject of PacketKeys.tla.  ex comes with the first
\* pedit; the keys travel with their header types only in extended mode.
pedit_keys_ex_addattr == Group("KEYS_EX", {On({"ex"})}, {"ex", "munge"})

parse_pedit ==
    [Parser(Zero({"ex", "index"}) @@ NotGiven({"munge"}) @@ AtDflt({"control"}),
            InOrder(<<Flags({"ex"}), Arg({"munge"}), Control, Index>>, {2}),
            Group("PARMS", {Off({"ex"})}, {"munge", "control", "index"})
                \cup Group("PARMS_EX", {On({"ex"})}, {"ex", "munge", "control", "index"})
                \cup pedit_keys_ex_addattr)
        EXCEPT !.fails = TRUE]

print_pedit == Printer(Present({"ex", "munge", "control", "index"}))

\* The kernel builds an action anew from every request.
Action(parse, print) == Tool([parse EXCEPT !.fresh = TRUE], print)

Actions ==
    "action bpf" :> Action(bpf_act_parse_opt, bpf_act_print_opt) @@ "connmark" :> Action(parse_connmark, print_connmark)
      @@ "csum" :> Action(parse_csum, print_csum) @@ "gact" :> Action(parse_gact, print_gact)
      @@ "ife" :> Action(parse_ife, print_ife) @@ "mirred" :> Action(parse_mirred, print_mirred)
      @@ "nat" :> Action(parse_nat, print_nat) @@ "sample" :> Action(parse_sample, print_sample)
      @@ "simple" :> Action(parse_simple, print_simple) @@ "skbedit" :> Action(parse_skbedit, print_skbedit)
      @@ "skbmod" :> Action(parse_skbmod, print_skbmod) @@ "tunnel_key" :> Action(parse_tunnel_key, print_tunnel_key)
      @@ "pedit" :> Action(parse_pedit, print_pedit) @@ "vlan" :> Action(parse_vlan, print_vlan) @@ "police" :> Action(act_parse_police, print_police)
=============================================================================
