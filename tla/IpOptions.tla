----------------------------- MODULE IpOptions ------------------------------
(***************************************************************************)
(* The objects of ip that are set by one request (ip/iplink.c,             *)
(* ip/ipaddress.c, ip/iproute.c, ip/iprule.c, ip/ipneigh.c and others) as  *)
(* option tables.                                                          *)
(***************************************************************************)
EXTENDS OptionTables

(* ip link: words that become an attribute as they are read. "index" and   *)
(* the words of Once are refused when given twice.                         *)
iplink_once == {"txqueuelen", "mtu", "netns", "group", "numtxqueues", "numrxqueues", "link-netnsid"}
iplink_attrs == {"address", "broadcast", "carrier", "master", "alias", "mode", "state", "addrgenmode",
                 "protodown", "gso_max_size", "gso_max_segs"}
iplink_flags == {"up", "multicast", "allmulticast", "promisc", "notrailers", "noarp", "dynamic"}

\* A flag travels with its bit of ifi_change; off clears it.  The word that
\* clears up is "down"; trailers and arp are the negated flags.
iplink_parse_flags == Arg(iplink_flags \ {"up"}) @@ Flag("up", "up", 1) @@ Flag("down", "up", 0)

xdp_parse == Arg({"xdp"}) @@ Refusing(Args("xdpoffload", {"xdp"}), {Off({"dev", "name"})})

iplink_parse_words ==
    Once(iplink_once) @@ Arg(iplink_attrs) @@ Args("vrf", {"master"}) @@ Flag("nomaster", "master", 0)
    @@ Refusing(Args("link-netns", {"link-netnsid"}), {On({"link-netnsid"})})
    @@ Once({"name", "dev"}) @@ Taking(Once({"index"}), 1 .. 2) @@ Arg({"link"})
    @@ Refusing(Arg({"vf"}), {Off({"dev", "name"})})

(* "type" ends the loop: what follows belongs to the type.                 *)
(* name is a name other than dev.  Creating: dev and name both name the    *)
(* new link.  Changing: dev (or name alone) is the link, name its new      *)
(* name; "link" is read and ignored.  A group without a device is changed  *)
(* as a group.                                                             *)
iplink_parse ==
    LET words == iplink_parse_words @@ iplink_parse_flags @@ xdp_parse
        sent == iplink_once \cup iplink_attrs \cup iplink_flags \cup {"xdp", "vf"}
    IN  [Parser(NotGiven(sent \cup {"name", "dev", "index", "link", "type"}),
                Refusing(words, {On({"type"})}) @@ Once({"type"}),
                Each(sent)
                \cup Group("IFLA_IFNAME", {On({"name", "dev"}), On({"name", "NLM_F_EXCL"})}, {"name"})
                \cup Group("IFLA_IFNAME", {On({"dev", "NLM_F_EXCL"})}, {"dev"})
                \cup Group("IFLA_LINK", {On({"link", "NLM_F_EXCL"})}, {"link"})
                \cup Group("ifi_index", {On({"index", "NLM_F_EXCL"})}, {"index"}))
            EXCEPT !.never = {Cond({"index"}, {"NLM_F_EXCL"}),
                              Cond({"group", "NLM_F_EXCL"}, {"dev", "name"}),
                              Off({"dev", "name", "group", "NLM_F_EXCL"}),
                              On({"name", "dev", "NLM_F_EXCL"})},
                   !.fails = TRUE,                 \* no such device, no such address length
                   !.drops = Drop({Off({"NLM_F_EXCL"})}, {"link", "dev"})
                             \cup Drop({Off({"NLM_F_EXCL", "dev"})}, {"name"})]

(* A new link needs a type; the kind goes into every request that has one. *)
iplink_modify ==
    [iplink_parse EXCEPT !.never = @ \cup {Cond({"NLM_F_EXCL"}, {"type"})},
                         !.sends = @ \cup Group("IFLA_INFO_KIND", {On({"type"})}, {"type"}),
                         !.drops = @ \cup Drop({Cond({"group"}, {"dev", "name"})}, {"type"}),
                         !.req = {"dev"}]

print_link_flags == NonZero(iplink_flags)

print_linktype == Present({"type"})

\* print_queuelen shows a length other than zero.
print_linkinfo_main ==
    NonZero({"txqueuelen"})
    @@ Present({"index", "name", "dev", "link", "mtu", "xdp", "master", "state", "mode", "group", "address",
                "broadcast", "link-netnsid"})

print_linkinfo_details ==
    NonZero({"protodown"})
    @@ Present({"addrgenmode", "numtxqueues", "numrxqueues", "gso_max_size", "gso_max_segs", "alias", "vf"})

\* The listing of ip -d link.  A link moved to another namespace is gone from it, and the carrier
\* shows only as NO-CARRIER.
print_linkinfo ==
    Hiding(Printer(print_linkinfo_main @@ print_linkinfo_details @@ print_link_flags @@ print_linktype),
           {"netns", "carrier"})

(* The operands of one "vf": the vlan goes out as IFLA_VF_VLAN or, with an *)
(* 802.1ad tag, in a list.                                                 *)
iplink_parse_vf_vlan_info ==
    "vlan"              :> Row({"vlan"}, [x \in {"qos", "proto"} |-> 0])
    @@ "vlan qos"       :> Row({"vlan", "qos"}, "proto" :> 0)
    @@ "vlan proto"     :> Row({"vlan", "proto"}, "qos" :> 0)
    @@ "vlan qos proto" :> Row({"vlan", "qos", "proto"}, <<>>)

iplink_vf_attrs == {"mac", "spoofchk", "query_rss", "trust", "state", "node_guid", "port_guid"}

\* The loop that looks ahead for max_tx_rate and min_tx_rate decides how "rate" is sent: by itself,
\* as the maximum that goes with min_tx_rate, or, if there is a max_tx_rate, not at all.  The half
\* of the pair that was not given is read back (ipaddr_get_vf_rate).
iplink_parse_vf_rate ==
    Arg({"rate"}) @@ Marking(Arg({"max_tx_rate"}), {"new_rate_api", "override_legacy_rate"})
    @@ Marking(Arg({"min_tx_rate"}), {"new_rate_api"})

iplink_parse_vf ==
    [Parser(NotGiven(iplink_vf_attrs \cup {"vlan", "qos", "proto", "rate", "max_tx_rate", "min_tx_rate"}),
            iplink_parse_vf_vlan_info @@ Arg(iplink_vf_attrs) @@ iplink_parse_vf_rate,
            Each(iplink_vf_attrs) \cup Group("IFLA_VF_VLAN", {On({"vlan"})}, {"vlan", "qos", "proto"})
            \cup Group("IFLA_VF_TX_RATE", {Cond({"rate"}, {"new_rate_api"})}, {"rate"})
            \cup Group("IFLA_VF_RATE", {On({"new_rate_api"})}, {"max_tx_rate", "min_tx_rate"})
            \cup Group("IFLA_VF_RATE", {Cond({"rate", "new_rate_api"}, {"override_legacy_rate"})}, {"rate"}))
        EXCEPT !.gets = {"max_tx_rate", "min_tx_rate"},
               !.fails = TRUE,                     \* the minimum is above the maximum
               !.drops = Drop({On({"override_legacy_rate"})}, {"rate"})]

print_vfinfo ==
    Hiding(Printer(NonZero({"vlan", "qos", "proto", "rate", "max_tx_rate", "min_tx_rate"})
                   @@ Present({"mac", "spoofchk", "query_rss", "trust", "state"})),
           {"node_guid", "port_guid"})

(* ip address: an address without a peer is its own peer.  "broadcast +"   *)
(* and "-" compute the address, unless the prefix is too long for one.  An *)
(* address without a scope gets the one of its kind; lifetimes start at    *)
(* forever and the valid one may not be 0 nor below the preferred one.     *)
ifa_flags == {"home", "nodad", "mngtmpaddr", "noprefixroute", "autojoin"}

set_lifetime(k) == Refusing(Marking(Arg({k}), {k \o " seen", "lifetimes"}), {On({k \o " seen"})})

ipaddr_modify_words ==
    Once({"local", "peer", "broadcast", "anycast"}) @@ Arg({"scope", "dev", "label"}) @@ Flags(ifa_flags)
    @@ Marking(Refusing(Flag("broadcast +", "broadcast", Dflt), {On({"broadcast"})}), {"computed"})
    @@ Taking(set_lifetime("valid_lft"), 1 .. 2) @@ set_lifetime("preferred_lft")

ipaddr_modify ==
    [Parser(NotGiven({"local", "peer", "broadcast", "anycast", "scope", "dev", "label"}) @@ Zero(ifa_flags)
                @@ AtOnes({"valid_lft", "preferred_lft"}),
            ipaddr_modify_words,
            Each({"local", "broadcast", "anycast", "label"})
            \cup Whole("ifaddrmsg", {"dev", "scope"} \cup ifa_flags)
            \cup Group("IFA_ADDRESS", {On({"peer"}), On({"local"})}, {"peer"})
            \cup Group("IFA_CACHEINFO", {On({"lifetimes"})}, {"valid_lft", "preferred_lft"}))
        EXCEPT !.fill = {Fill(Off({"peer"}), {"peer"}), Fill(Off({"scope"}), {"scope"})},
               !.never = {Off({"dev"}), Cond({"valid_lft"}, {"preferred_lft"})},
               !.fails = TRUE,        \* label and dev differ, autojoin without a multicast address, no device
               !.drops = Drop({On({"computed"})}, {"broadcast"}),
               !.req = {"dev", "local"}]

print_ifa_flags == NonZero(ifa_flags)

\* The peer is shown after the local address.
print_addrinfo ==
    Needing(Printer(print_ifa_flags
                    @@ Present({"local", "peer", "broadcast", "anycast", "scope", "label", "dev", "valid_lft",
                                "preferred_lft"})),
            {"peer"}, "local")

(* ip route: the words up to "nexthop", which ends the loop.  Every metric *)
(* may be locked (written down once, for mtu); rto_min always is.          *)
route_metrics == {"mtu", "hoplimit", "advmss", "reordering", "rtt", "rto_min", "window", "cwnd", "initcwnd",
                  "initrwnd", "features", "quickack", "congctl", "rttvar", "ssthresh", "fastopen_no_cookie"}
route_attrs == {"src", "as", "from", "expires", "metric", "realms", "dev", "pref", "encap", "ttl-propagate"}
route_header == {"tos", "scope", "type", "protocol", "table", "onlink"}

iproute_modify_metrics ==
    "rto_min" :> Row({"rto_min"}, "mxlock" :> 1) @@ "mtu lock" :> Row({"mtu"}, "mxlock" :> 1) @@ Arg(route_metrics)

\* A type is a word before the destination.  table and vrf both set the table.
iproute_modify_words ==
    Arg(route_attrs) @@ Arg({"tos", "scope", "protocol", "table"}) @@ Args("vrf", {"table"}) @@ Flags({"onlink"})
    @@ Once({"to", "via"}) @@ Refusing("type to" :> Row({"type", "to"}, <<>>), {On({"to"})})

\* The scope follows from the type, the family and the gateway unless it is given.  A route is
\* replaced as a whole.
iproute_modify ==
    [Parser(NotGiven(route_attrs \cup route_metrics \cup {"mxlock", "to", "via", "nexthop", "scope"})
                @@ Zero({"tos", "onlink"}) @@ AtDflt({"type", "protocol", "table"}),
            Refusing(iproute_modify_words @@ iproute_modify_metrics, {On({"nexthop"})}) @@ Flags({"nexthop"}),
            Each(route_attrs \cup route_metrics \cup {"mxlock", "to", "via", "nexthop"})
            \cup Whole("rtmsg", route_header))
        EXCEPT !.fill = {Fill(Off({"scope"}), {"scope"})}, !.never = {Off({"to"})},
               !.fails = TRUE, !.fresh = TRUE, !.req = {"to"}]

print_rta_metrics == Present(route_metrics \cup {"mxlock"})

print_rta_multipath == Present({"nexthop"})

\* RTA_EXPIRES comes back in the cache information, which is shown of cloned routes only.
print_route_header == NonZero({"tos", "table"}) @@ Present({"to", "via", "dev", "scope", "type", "protocol"})

print_route ==
    Hiding(Printer(print_route_header @@ NonZero({"onlink"}) @@ Present(route_attrs \ {"expires"})
                   @@ print_rta_metrics @@ print_rta_multipath),
           {"expires"})

(* One "nexthop" of a route. A weight is 1 to 256. *)
parse_one_nh ==
    [Parser(NotGiven({"via", "realms", "encap", "as"}) @@ Zero({"dev", "weight", "onlink"}),
            Arg({"via", "dev", "realms", "encap", "as"}) @@ Taking(Arg({"weight"}), {1}) @@ Flags({"onlink"}),
            Each({"via", "realms", "encap", "as"}) \cup Whole("rtnexthop", {"dev", "weight", "onlink"}))
        EXCEPT !.fresh = TRUE]

print_nexthop == Printer(NonZero({"onlink"}) @@ Present({"via", "realms", "encap", "as", "dev", "weight"}))

(* "encap" of a route: every encapsulation has words of its own, most of   *)
(* them refused when repeated.                                             *)
Encap(first, words) ==
    [Parser(NotGiven(first \cup words), Refusing(Once(first), {On({w}) : w \in words}) @@ Once(words),
            Each(first \cup words))
        EXCEPT !.never = {Off({x}) : x \in first}, !.fresh = TRUE, !.req = first]

parse_encap_mpls == Encap({"dst"}, {"ttl"})
parse_encap_ip   == Encap({}, {"id", "dst", "tos", "ttl"})
parse_encap_ip6  == Encap({}, {"id", "dst", "tc", "hoplimit"})
parse_encap_ila  == [Encap({"locator"}, {}) EXCEPT !.init = @ @@ NotGiven({"csum-mode", "ident-type", "hook-type"}),
                                                   !.opts = @ @@ Arg({"csum-mode", "ident-type", "hook-type"}),
                                                   !.sends = @ \cup Each({"csum-mode", "ident-type", "hook-type"})]
print_encap_mpls == Printer(Present({"dst", "ttl"}))
print_encap_ip   == Printer(Present({"id", "dst", "tos", "ttl"}))
print_encap_ip6  == Printer(Present({"id", "dst", "tc", "hoplimit"}))
print_encap_ila  == Printer(Present({"locator", "csum-mode", "ident-type", "hook-type"}))

\* A headroom other than 0; of several, the first.
lwt_parse_bpf   == Arg({"in", "out", "xmit"})
parse_encap_bpf == [Attrs({"in", "out", "xmit", "headroom"})
                       EXCEPT !.opts = lwt_parse_bpf @@ Taking(Arg({"headroom"}), {1}), !.fresh = TRUE, !.fails = TRUE]
print_encap_bpf == Printer(Present({"in", "out", "xmit", "headroom"}))

\* The segments go in after the mode is known; a request without segments carries whatever the buffer
\* held.  The keyed digest is left out when its key is 0.
parse_encap_seg6 ==
    [Parser(NotGiven({"mode", "segs"}) @@ Zero({"hmac"}),
            Once({"mode"}) @@ Refusing(Once({"segs"}), {Off({"mode"})})
                @@ Refusing(Marking(Arg({"hmac"}), {"hmac seen"}), {On({"hmac seen"})}),
            Whole("SEG6_IPTUNNEL_SRH", {"mode", "segs", "hmac"}))
        EXCEPT !.fill = {Fill(Off({"segs"}), {"segs"})}, !.fresh = TRUE, !.req = {"mode"}]
print_srh == Present({"segs"}) @@ NonZero({"hmac"})
print_encap_seg6 == Printer(print_srh @@ Present({"mode"}))

parse_encap_seg6local ==
    [Parser(NotGiven({"action", "table", "nh4", "nh6", "iif", "oif", "segs"}) @@ Zero({"hmac"}),
            Taking(Once({"action"}), {1}) @@ Once({"table", "nh4", "nh6", "iif", "oif"})
                @@ Refusing("srh segs" :> Row({"segs"}, <<>>) @@ "srh segs hmac" :> Row({"segs", "hmac"}, <<>>),
                            {On({"segs"})}),
            Each({"action", "table", "nh4", "nh6", "iif", "oif"}) \cup Group("SEG6_LOCAL_SRH", {On({"segs"})}, {"segs", "hmac"}))
        EXCEPT !.never = {Off({"action"})}, !.fresh = TRUE, !.req = {"action"}]
print_encap_seg6local == Needing(Printer(print_srh @@ Present({"action", "table", "nh4", "nh6", "iif", "oif"})),
                                 {"table", "nh4", "nh6", "iif", "oif", "segs", "hmac"}, "action")

\* The encapsulations ip route knows.
lwt_encaps ==
    "encap_mpls" :> Tool(parse_encap_mpls, print_encap_mpls) @@ "encap_ip" :> Tool(parse_encap_ip, print_encap_ip)
    @@ "encap_ip6" :> Tool(parse_encap_ip6, print_encap_ip6) @@ "encap_ila" :> Tool(parse_encap_ila, print_encap_ila)
    @@ "encap_bpf" :> Tool(parse_encap_bpf, print_encap_bpf) @@ "encap_seg6" :> Tool(parse_encap_seg6, print_encap_seg6)
    @@ "encap_seg6local" :> Tool(parse_encap_seg6local, print_encap_seg6local)

(* ip rule: the action is a type, "goto" (2) or "nat" (3); nat does not    *)
(* stand for a table, so such a rule also gets the main table.             *)
rule_attrs == {"from", "to", "preference", "realms", "protocol", "suppress_prefixlength", "suppress_ifgroup", "iif",
               "oif", "uidrange", "ipproto", "sport", "dport"}

iprule_modify_words ==
    Flags({"not"}) @@ Arg(rule_attrs \cup {"tos", "fwmark"}) @@ "fwmark/fwmask" :> Row({"fwmark", "fwmask"}, <<>>)
    @@ Marking(Arg({"table"}) @@ Flags({"l3mdev"}) @@ Args("type", {"action"})
               @@ "goto" :> Row({"goto"}, "action" :> 2), {"table_ok"})
    @@ "nat" :> Row({"nat"}, "action" :> 3)

iprule_modify ==
    [Parser(NotGiven(rule_attrs \cup {"fwmark", "fwmask", "l3mdev", "goto", "nat"}) @@ Zero({"not", "tos", "table"})
                @@ AtDflt({"action"}),
            iprule_modify_words,
            Each(rule_attrs \cup {"fwmark", "fwmask", "l3mdev", "goto", "nat"})
            \cup Whole("fib_rule_hdr", {"not", "tos", "table", "action"}))
        EXCEPT !.fill = {Fill(Off({"table_ok", "table"}), {"table"})}, !.never = {On({"l3mdev", "table"})}, !.fresh = TRUE]

print_rule_selector == NonZero({"not", "tos", "l3mdev"}) @@ Present(rule_attrs \cup {"fwmask"})
                         @@ Shows({"fwmark"}, {Seen({"fwmark"}, {}), Seen({"fwmask"}, {})})

\* What suppresses a lookup is shown with the table it applies to, a target with the action that uses it.
print_rule ==
    Where(Where(Under(Printer(print_rule_selector @@ NonZero({"table"}) @@ Present({"goto", "nat", "action"})),
                      {"suppress_prefixlength", "suppress_ifgroup"}, "table"),
                {"goto"}, "action", {2}),
          {"nat"}, "action", {3})

(* ip neigh: "proxy" names the address and stands for the device.  "lladdr null" adds nothing. *)
ipneigh_modify ==
    [Parser(NotGiven({"to", "lladdr"}) @@ Zero({"dev", "proxy"}) @@ AtDflt({"nud"}),
            Once({"to"}) @@ Refusing("proxy" :> Row({"to"}, "proxy" :> 1), {On({"to"})}) @@ Arg({"nud"})
                @@ Taking(Arg({"dev"}), {1})
                @@ Refusing(Marking(Arg({"lladdr"}) @@ "lladdr null" :> Row({}, <<>>), {"lladdr_ok"}), {On({"lladdr_ok"})}),
            Each({"to", "lladdr"}) \cup Whole("ndmsg", {"dev", "proxy", "nud"}))
        EXCEPT !.never = {Off({"to"}), Off({"dev", "proxy"})}, !.fails = TRUE, !.req = {"to", "dev"}]

print_neigh_state == NonZero({"nud"})

print_neigh == Printer(Present({"to", "lladdr"}) @@ NonZero({"dev", "proxy"}) @@ print_neigh_state)

(* ip ntable: a change names a table and at least one parameter. *)
ntable_parms == {"base_reachable", "retrans", "gc_stale", "delay_probe", "queue", "app_probes", "ucast_probes",
                 "mcast_probes", "anycast_delay", "proxy_delay", "proxy_queue", "locktime"}
ntable_table == {"thresh1", "thresh2", "thresh3", "gc_int"}

ipntable_modify ==
    [Attrs(ntable_parms \cup ntable_table \cup {"name", "dev"})
        EXCEPT !.opts = Once({"name"}) @@ @, !.never = {Off({"name"}), Off(ntable_parms \cup ntable_table)},
               !.fails = TRUE, !.req = {"name"}]

print_ndtparams == Present(ntable_parms \cup {"dev"})

print_ntable == Printer(print_ndtparams @@ Present(ntable_table \cup {"name"}))

IpObjects ==
    "link"       :> Tool(iplink_modify, print_linkinfo)
    @@ "vf"      :> Tool(iplink_parse_vf, print_vfinfo)
    @@ "address" :> Tool(ipaddr_modify, print_addrinfo)
    @@ "route"   :> Tool(iproute_modify, print_route)
    @@ "nexthop" :> Tool(parse_one_nh, print_nexthop)
    @@ lwt_encaps
    @@ "rule"    :> Tool(iprule_modify, print_rule)
    @@ "neigh"   :> Tool(ipneigh_modify, print_neigh)
    @@ "ntable"  :> Tool(ipntable_modify, print_ntable)
=============================================================================
