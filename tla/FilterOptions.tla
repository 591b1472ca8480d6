--------------------------- MODULE FilterOptions ----------------------------
(***************************************************************************)
(* The classifiers of tc (tc/f_*.c) as option tables.  The options that    *)
(* call another parser (action, police, match) are one option each: what   *)
(* they add to the request is an object of its own.                        *)
(***************************************************************************)
EXTENDS OptionTables

basic_vars == {"match", "classid", "action", "police"}

basic_parse_opt ==
    Parser(NotGiven(basic_vars), Flags({"match", "action", "police"}) @@ Arg({"classid"}),
           Each(basic_vars))

basic_print_opt == Printer(Present(basic_vars))

\* The program is loaded after the loop, and the loader may refuse it.
bpf_parse_opt ==
    [Parser(NotGiven({"run", "classid", "action", "police"})
                @@ Zero({"direct-action", "skip_hw", "skip_sw"}),
            Refusing(Flags({"run"}), {On({"run"})}) @@ Arg({"classid"})
                @@ Flags({"direct-action", "skip_hw", "skip_sw", "action", "police"}),
            Each({"run", "classid", "action", "police", "direct-action"})
                \cup Group("FLAGS_GEN", {On({"skip_hw"}), On({"skip_sw"})}, {"skip_hw", "skip_sw"}))
        EXCEPT !.fails = TRUE]

bpf_print_opt ==
    Printer(Present({"run", "classid", "action", "police"})
                @@ NonZero({"direct-action", "skip_hw", "skip_sw"}))

cgroup_vars == {"match", "action", "police"}

cgroup_parse_opt == Parser(NotGiven(cgroup_vars), Flags(cgroup_vars), Each(cgroup_vars))

cgroup_print_opt == Printer(Present(cgroup_vars))

\* Several keys are refused in map mode; the operators and, xor and or are
\* sent, as a mask and a value, when they leave some bit changed.
flow_once == {"rshift", "addend", "divisor", "baseclass", "perturb"}

flow_objs == {"police", "action", "match"}

flow_parse_opt ==
    [Parser(Zero({"mode", "nkeys", "xor", "or"}) @@ AtOnes({"mask"})
                @@ NotGiven({"keys"} \cup flow_once \cup flow_objs),
            Flag("map", "mode", 0) @@ Flag("hash", "mode", 1)
                @@ "keys" :> Row({"keys"}, "nkeys" :> 0)
                @@ "keys list" :> Row({"keys"}, "nkeys" :> 1)
                @@ Args("and", {"mask"}) @@ Arg({"xor", "or"})
                @@ Arg(flow_once \ {"baseclass"}) @@ Taking(Arg({"baseclass"}), {1, 2})
                @@ Flags(flow_objs),
            Whole("MODE", {"mode"}) \cup Group("KEYS", {On({"keys"})}, {"keys", "nkeys"})
                \cup Group("MASK_XOR", {On({"mask"}), On({"xor"}), On({"or"})}, {"mask", "xor", "or"})
                \cup Each(flow_once \cup flow_objs))
        EXCEPT !.never = {Cond({"nkeys"}, {"mode"})}]

flow_print_opt ==
    Printer(Present({"mode", "keys", "nkeys", "mask", "xor", "or"} \cup flow_once \cup flow_objs))

\* handle stands for the mask of handle VALUE/MASK, which the caller hands
\* over: with no option of its own fw returns before it looks at the mask.
fw_vars == {"classid", "police", "action", "indev"}

fw_parse_opt ==
    [Parser(NotGiven(fw_vars \cup {"handle"}),
            Arg({"handle"}) @@ Arg({"classid", "indev"}) @@ Flags({"police", "action"}),
            Each(fw_vars) \cup Group("MASK", {On({"handle", x}) : x \in fw_vars}, {"handle"}))
        EXCEPT !.lost = {"handle"}]

fw_print_opt == Printer(Present(fw_vars \cup {"handle"}))

\* skip_hw and skip_sw demand another word after them.
matchall_parse_opt ==
    [Parser(NotGiven({"classid", "action"}) @@ Zero({"skip_hw", "skip_sw", "dangling", "handle"}),
            [k \in {"handle", "classid"} |-> Row({k}, "dangling" :> 0)]
                @@ "action" :> Row({}, "action" :> 1 @@ "dangling" :> 0)
                @@ "skip_hw" :> Row({}, "skip_hw" :> 1 @@ "dangling" :> 1)
                @@ "skip_sw" :> Row({}, "skip_sw" :> 1 @@ "dangling" :> 1),
            Each({"classid", "action", "handle"})
                \cup Group("FLAGS", {On({"skip_hw"}), On({"skip_sw"})}, {"skip_hw", "skip_sw"}))
        EXCEPT !.never = {On({"skip_hw", "skip_sw"}), On({"dangling"})}]

matchall_print_opt ==
    Printer(Present({"classid", "action"}) @@ NonZero({"skip_hw", "skip_sw", "handle"}))

\* order only goes into the handle the parser builds, and a handle given on
\* the command line replaces that one.
route_vars == {"to", "from", "fromif", "classid", "police", "action"}

route_parse_opt ==
    [Parser(NotGiven(route_vars) @@ Zero({"handle", "order"}),
            Arg({"handle", "to", "from", "fromif", "classid", "order"}) @@ Flags({"police", "action"}),
            Each(route_vars) \cup Each({"handle"})
                \cup Group("fh", {Cond({"order"}, {"handle"})}, {"order"}))
        EXCEPT !.lost = {"order"}]

route_print_opt == Printer(Present(route_vars) @@ NonZero({"handle", "order"}))

\* session and sender: an address, alone, with a port, or with an spi, which
\* also chooses the protocol when no ipproto does.
rsvp_parse_opt ==
    [Parser(NotGiven({"dst", "src", "classid", "action", "police"})
                @@ Zero({"dpi", "spi", "protocol", "tunnelid", "tunnelhdr"}),
            Args("session", {"dst"}) @@ Args("sender", {"src"})
                @@ Marking(Taking(Args("session port", {"dst", "dpi"})
                                    @@ Args("sender port", {"src", "spi"}), {1}), {"pinfo_ok"})
                @@ Marking(Taking(Refusing(Args("session spi", {"dst", "dpi"}), {On({"dpi"})})
                                    @@ Refusing(Args("sender spi", {"src", "spi"}), {On({"spi"})}), {1}),
                           {"pinfo_ok", "ipsec"})
                @@ Marking(Args("ipproto", {"protocol"}), {"pinfo_ok"}) @@ Arg({"classid"})
                @@ Marking(Arg({"tunnelid"}), {"pinfo_ok"})
                @@ Marking(Args("tunnel", {"classid", "tunnelhdr"}), {"pinfo_ok"})
                @@ Flags({"action", "police"}),
            Each({"dst", "src", "classid", "action", "police"})
                \cup Group("PINFO", {On({"pinfo_ok"})},
                           {"dpi", "spi", "protocol", "tunnelid", "tunnelhdr"}))
        EXCEPT !.fill = {Fill(Cond({"ipsec"}, {"protocol"}), {"protocol"})}]

rsvp_print_opt ==
    Printer(Present({"dst", "src", "classid", "action", "police"})
                @@ NonZero({"dpi", "spi", "protocol", "tunnelid", "tunnelhdr"}))

tcindex_vars == {"hash", "mask", "shift", "fall_through", "classid", "police", "action"}

tcindex_parse_opt ==
    Parser(NotGiven(tcindex_vars),
           Taking(Arg({"hash"}), {1}) @@ Arg({"mask", "shift", "classid"})
               @@ Flags({"fall_through", "police", "action"}) @@ Flag("pass_on", "fall_through", 0),
           Each(tcindex_vars))

tcindex_print_opt == Printer(Present(tcindex_vars))

\* flower reads the packet through the ethertype of the filter (eth) and,
\* under 802.1Q, the one vlan_ethtype gave (fam is the inner one): one table
\* per pair, holding the keys that pair admits.
flower_any == {"classid", "indev", "dst_mac", "src_mac", "ip_tos", "ip_ttl", "tcp_flags",
               "arp_tha", "arp_sha", "enc_dst_ip", "enc_src_ip", "enc_key_id", "enc_dst_port",
               "ip_flags", "action"}
flower_of(eth, fam) ==
    (IF eth = "802.1Q" THEN {"vlan_id", "vlan_prio"} ELSE {})
        \cup (IF eth = "mpls" THEN {"mpls_label", "mpls_tc", "mpls_bos", "mpls_ttl"} ELSE {})
        \cup (IF fam \in {"ip", "ipv6"} THEN {"ip_proto", "dst_ip", "src_ip"} ELSE {})
        \cup (IF fam = "arp" THEN {"arp_tip", "arp_sip", "arp_op"} ELSE {})

\* icmp type and code look at eth, never at vlan_ethtype.
flower_ports == {"dst_port", "src_port"}

flower_icmp(eth) == IF eth \in {"ip", "ipv6"} THEN {"type", "code"} ELSE {}

flower_parse_keys(eth, fam) ==
    LET known == flower_any \cup flower_of(eth, fam) IN
    Arg(known \ {"action", "ip_proto"}) @@ Flags({"action", "skip_hw", "skip_sw"})
        @@ Args("hw_tc", {"classid"})
        @@ (IF "ip_proto" \in known
            THEN "ip_proto tcp" :> Row({}, "ip_proto" :> Dflt @@ "l4" :> 1)
                     @@ "ip_proto icmp" :> Row({}, "ip_proto" :> 1 @@ "l4" :> 0)
                     @@ Refusing(Arg(flower_ports), {Off({"l4"})})
                     @@ Refusing(Arg(flower_icmp(eth)), {Off({"ip_proto"}), On({"l4"})})
            ELSE <<>>)

flower_parse_opt(eth, fam) ==
    LET known == flower_any \cup flower_of(eth, fam) \cup flower_ports \cup flower_icmp(eth) IN
    [Parser(NotGiven(known \cup {"ip_proto"}) @@ Zero({"l4", "skip_hw", "skip_sw"}),
            flower_parse_keys(eth, fam),
            Each(known \ {"ip_proto"}) \cup Whole("FLAGS", {"skip_hw", "skip_sw"})
                \cup Group("IP_PROTO", {On({"ip_proto"})}, {"ip_proto", "l4"}))
        EXCEPT !.fresh = TRUE]

\* The addresses are printed by the ethertype of the filter: under 802.1Q
\* they are not printed at all.
flower_print_opt(eth, fam) ==
    LET known == flower_any \cup flower_of(eth, fam) \cup flower_icmp(eth) IN
    [Printer([x \in flower_ports |-> {Seen({x}, {"l4"})}]
                @@ Present((known \cup {"l4", "ip_proto"}) \ (IF eth # fam THEN {"dst_ip", "src_ip"} ELSE {}))
                @@ NonZero({"skip_hw", "skip_sw"}))
        EXCEPT !.hides = IF eth # fam THEN {"dst_ip", "src_ip"} ELSE {}]

\* The selector is sent when some match was given: without one the offset,
\* the hash key and the terminal flag stay behind.  htid is ht and sample.
u32_each == {"classid", "divisor", "link", "indev", "action", "police", "mark"}

u32_sel == {"match", "plus", "at", "mask", "shift", "eat", "hashkey mask", "hashkey at"}

\* divisor is a power of two up to 256 and not 0; offset at is even.
u32_opts ==
    "match" :> [Row({}, "match" :> 1 @@ "dangling" :> 0) EXCEPT !.marks = {"sel_ok"}]
        @@ "match mark" :> [Row({"mark"}, "dangling" :> 0) EXCEPT !.marks = {"sel_ok"}]
        @@ [k \in (u32_sel \ {"match", "eat"}) \cup {"classid", "link", "indev", "order"} |->
                Row({k}, "dangling" :> 0)]
        @@ [k \in {"eat", "action", "police"} |-> Row({}, k :> 1 @@ "dangling" :> 0)]
        @@ "divisor" :> [Row({"divisor"}, "dangling" :> 0) EXCEPT !.only = {1}]
        @@ [k \in {"ht", "sample"} |-> Row({k}, "dangling" :> 0)]
        @@ [k \in {"skip_hw", "skip_sw"} |-> Row({}, k :> 1 @@ "dangling" :> 1)]

u32_parse_opt ==
    [Parser(NotGiven(u32_each) @@ Zero(u32_sel \cup {"ht", "sample", "order", "skip_hw", "skip_sw", "dangling"}),
            u32_opts,
            Each(u32_each) \cup Each({"order"}) \cup Group("HASH", {On({"ht"}), On({"sample"})}, {"ht", "sample"})
                \cup Group("SEL", {On({"sel_ok"})}, u32_sel)
                \cup Group("FLAGS", {On({"skip_hw"}), On({"skip_sw"})}, {"skip_hw", "skip_sw"}))
        EXCEPT !.never = {On({"skip_hw", "skip_sw"}), On({"dangling"})}, !.lost = u32_sel,
               !.fresh = TRUE]

\* An offset is shown with its flag, a hash key when its mask is not zero,
\* a bucket when the filter is no hash table itself.
u32_print_opt ==
    [Printer(Present(u32_each \ {"indev"}) @@ Present({"indev", "match", "shift", "at", "mask"})
                @@ NonZero({"order", "eat", "hashkey mask", "plus", "skip_hw", "skip_sw"})
                @@ Shows({"hashkey at"}, {Seen({}, {"hashkey mask"})})
                @@ Present({"ht", "sample"}))
        EXCEPT !.hides = {"hashkey at"}]

\* Every filter takes a handle before its own options and keeps it in the
\* header of the request.
Filter(parse, print) ==
    Tool([parse EXCEPT !.init = @ @@ Zero({"handle"}), !.opts = @ @@ Arg({"handle"}),
                       !.sends = @ \cup Each({"handle"})],
         [print EXCEPT !.shows = @ @@ NonZero({"handle"})])

Filters ==
    "basic" :> Filter(basic_parse_opt, basic_print_opt) @@ "bpf" :> Filter(bpf_parse_opt, bpf_print_opt)
      @@ "cgroup" :> Filter(cgroup_parse_opt, cgroup_print_opt) @@ "flow" :> Filter(flow_parse_opt, flow_print_opt)
      @@ "fw" :> Tool(fw_parse_opt, fw_print_opt) @@ "matchall" :> Tool(matchall_parse_opt, matchall_print_opt)
      @@ "route" :> Tool(route_parse_opt, route_print_opt) @@ "rsvp" :> Filter(rsvp_parse_opt, rsvp_print_opt)
      @@ "tcindex" :> Filter(tcindex_parse_opt, tcindex_print_opt) @@ "u32" :> Filter(u32_parse_opt, u32_print_opt)
      @@ "flower ip" :> Filter(flower_parse_opt("ip", "ip"), flower_print_opt("ip", "ip"))
      @@ "flower arp" :> Filter(flower_parse_opt("arp", "arp"), flower_print_opt("arp", "arp"))
      @@ "flower mpls" :> Filter(flower_parse_opt("mpls", "mpls"), flower_print_opt("mpls", "mpls"))
      @@ "flower vlan" :> Filter(flower_parse_opt("802.1Q", "ip"), flower_print_opt("802.1Q", "ip"))
=============================================================================
