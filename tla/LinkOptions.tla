---------------------------- MODULE LinkOptions -----------------------------
(***************************************************************************)
(* The types of links of ip link (ip/iplink_*.c, ip/link_*.c) as option    *)
(* tables.  Most types add an attribute for a word as soon as it is read.  *)
(* The tunnels send everything in every request and, when they change a    *)
(* link, first ask the kernel for what it has.                             *)
(***************************************************************************)
EXTENDS OptionTables

bond_parse_first == {"mode", "active_slave", "miimon", "updelay", "downdelay", "use_carrier", "arp_interval",
                     "arp_ip_target", "arp_validate", "arp_all_targets", "primary", "primary_reselect"}

bond_parse_rest == {"fail_over_mac", "xmit_hash_policy", "resend_igmp", "num_peer_notif", "all_slaves_active",
                    "min_links", "lp_interval", "packets_per_slave", "lacp_rate", "ad_select",
                    "ad_user_port_key", "ad_actor_sys_prio", "ad_actor_system", "tlb_dynamic_lb"}

bond_parse_opt ==
    [Attrs(bond_parse_first \cup bond_parse_rest)
        EXCEPT !.opts = @ @@ "clear_active_slave" :> Row({}, "active_slave" :> 0)]

bond_print_first == NonZero({"active_slave", "primary"}) @@ Present(bond_parse_first)

bond_print_rest == Present(bond_parse_rest)

bond_print_opt == Printer(bond_print_first @@ bond_print_rest)

bond_slave_parse_opt == Attrs({"queue_id"})

bond_slave_print_opt == Printer(Present({"queue_id"}))

bridge_parse_first == {"forward_delay", "hello_time", "max_age", "ageing_time", "stp_state", "priority",
                       "vlan_filtering", "vlan_protocol", "group_fwd_mask", "group_address", "fdb_flush",
                       "vlan_default_pvid", "vlan_stats_enabled", "mcast_router", "mcast_snooping"}

bridge_parse_rest == {"mcast_query_use_ifaddr", "mcast_querier", "mcast_hash_elasticity", "mcast_hash_max",
                      "mcast_last_member_count", "mcast_startup_query_count", "mcast_last_member_interval",
                      "mcast_membership_interval", "mcast_querier_interval", "mcast_query_interval",
                      "mcast_query_response_interval", "mcast_startup_query_interval", "mcast_stats_enabled",
                      "mcast_igmp_version", "mcast_mld_version", "nf_call_iptables", "nf_call_ip6tables",
                      "nf_call_arptables"}

\* fdb_flush is an order, not a setting.
bridge_parse_opt ==
    [Attrs(bridge_parse_first \cup bridge_parse_rest) EXCEPT !.opts = Flags({"fdb_flush"}) @@ @]

bridge_print_first == Present(bridge_parse_first \ {"fdb_flush"})

bridge_print_rest == Present(bridge_parse_rest)

bridge_print_opt == Hiding(Printer(bridge_print_first @@ bridge_print_rest), {"fdb_flush"})

bridge_slave_vars == {"state", "priority", "cost", "hairpin", "guard", "root_block", "fastleave", "learning",
                      "flood", "mcast_flood", "proxy_arp", "proxy_arp_wifi", "mcast_router", "neigh_suppress",
                      "group_fwd_mask", "vlan_tunnel"}

\* fastleave and mcast_fast_leave are two words for one attribute.
bridge_slave_parse_opt ==
    [Attrs(bridge_slave_vars \cup {"fdb_flush"})
        EXCEPT !.opts = Flags({"fdb_flush"}) @@ Args("mcast_fast_leave", {"fastleave"}) @@ @]

bridge_slave_print_opt == Hiding(Printer(Present(bridge_slave_vars)), {"fdb_flush"})

can_timing == {"bitrate", "sample-point", "tq", "prop-seg", "phase-seg1", "phase-seg2", "sjw"}
can_dtiming == {"dbitrate", "dsample-point", "dtq", "dprop-seg", "dphase-seg1", "dphase-seg2", "dsjw"}
can_modes == {"loopback", "listen-only", "triple-sampling", "one-shot", "berr-reporting", "fd", "fd-non-iso",
              "presume-ack"}

\* "on" raises the bit, "off" leaves it; both put it in the mask.
set_ctrlmode == Or(can_modes)

\* A bit timing is sent when it has a bit rate or a time quantum.
can_parse_opt ==
    [Parser(Zero(can_timing \cup can_dtiming) @@ NotGiven(can_modes \cup {"restart", "restart-ms", "termination"}),
            Arg(can_timing \cup can_dtiming \cup {"restart-ms", "termination"}) @@ set_ctrlmode @@ Flags({"restart"}),
            Each({"restart", "restart-ms", "termination"} \cup can_modes)
                \cup Group("BITTIMING", {On({"bitrate"}), On({"tq"})}, can_timing)
                \cup Group("DATA_BITTIMING", {On({"dbitrate"}), On({"dtq"})}, can_dtiming))
        EXCEPT !.lost = (can_timing \ {"bitrate", "tq"}) \cup (can_dtiming \ {"dbitrate", "dtq"}) \cup can_modes]

print_ctrlmode == NonZero(can_modes)

\* The timings are shown unless the device only knows fixed bit rates, the
\* termination if the device says which ones it knows.
can_print_timing == Present(can_timing \cup can_dtiming)

can_print_opt ==
    Hiding(Printer(print_ctrlmode @@ Present({"restart-ms"}) @@ can_print_timing),
           {"restart", "termination"})

\* A second word for an attribute is refused (check_duparg).
Single(k, mark) == Refusing(Marking(Arg({k}), {mark}), {On({mark})})

udp_parse_csum == OnOff("udpcsum", "noudpcsum", "udpcsum") @@ OnOff("udp6zerocsumtx", "noudp6zerocsumtx", "csum6tx")
                      @@ OnOff("udp6zerocsumrx", "noudp6zerocsumrx", "csum6rx")
udp_csums == {"udpcsum", "csum6tx", "csum6rx"}

\* Without "external" an id is mandatory, and a remote to create the link.
\* A new link gets a label, a ttl and a tos of 0; a change only what is given.
geneve_parse_opt ==
    [Parser(NotGiven({"id", "remote", "ttl", "tos", "label"} \cup udp_csums) @@ Zero({"dstport", "metadata"}),
            Once({"id", "remote", "ttl", "tos", "label"}) @@ Single("dstport", "port seen")
                @@ Refusing(Marking(Flag("external", "metadata", 1) @@ Flag("noexternal", "metadata", 0),
                                    {"metadata seen"}), {On({"metadata seen"})})
                @@ udp_parse_csum,
            Each({"id", "remote", "dstport", "metadata"} \cup udp_csums)
                \cup {Attr(x, {On({x}), On({"NLM_F_EXCL"})}, {x}) : x \in {"ttl", "tos", "label"}})
        EXCEPT !.never = {On({"metadata", "id"}), Off({"metadata", "id"}),
                          Cond({"NLM_F_EXCL"}, {"metadata", "remote"})},
               !.fill = {FillZero(Cond({"NLM_F_EXCL"}, {x}), {x}) : x \in {"ttl", "tos", "label"}},
               !.req = {"id", "remote"}]

\* Of an external tunnel nothing else is shown, of one without an id nothing;
\* noudpcsum is shown when the checksum is off.
geneve_print_opt ==
    Stopping(Needing(Printer(NonZero({"remote", "tos", "label"}) @@ Present({"id", "ttl", "dstport", "metadata"} \cup udp_csums)),
                     {"remote", "tos", "label", "ttl", "dstport"} \cup udp_csums, "id"), "metadata")

vxlan_flags == {"proxy", "rsc", "l2miss", "l3miss", "remcsumtx", "remcsumrx"}

vxlan_attrs == {"id", "local", "dev", "ttl", "tos", "label", "ageing", "maxaddress"}

vxlan_parse_flags ==
    OnOff("proxy", "noproxy", "proxy") @@ OnOff("rsc", "norsc", "rsc") @@ OnOff("l2miss", "nol2miss", "l2miss")
        @@ OnOff("l3miss", "nol3miss", "l3miss") @@ OnOff("remcsumtx", "noremcsumtx", "remcsumtx")
        @@ OnOff("remcsumrx", "noremcsumrx", "remcsumrx") @@ udp_parse_csum
        @@ Refusing(Flags({"gbp"}), {On({"gbp"})}) @@ Refusing(Flags({"gpe"}), {On({"gpe"})})
        @@ "external" :> [Row({}, "metadata" :> 1 @@ "learning" :> 0) EXCEPT !.no = {On({"metadata"})},
                                                                             !.marks = {"external"}]
        @@ Refusing(Flag("noexternal", "metadata", 0), {On({"metadata"})})

\* group and remote are two words for one attribute, and a group needs a
\* device.  Learning is on in a new link unless it is external; a change only
\* sends it when it is given.
vxlan_parse_opt ==
    [Parser(NotGiven(vxlan_attrs \cup vxlan_flags \cup udp_csums \cup {"daddr", "gbp", "gpe", "metadata"})
                @@ Zero({"srcport", "dstport"}) @@ AtDflt({"learning"}),
            Once(vxlan_attrs) @@ Single("srcport", "range seen") @@ Single("dstport", "port seen") @@ vxlan_parse_flags
                @@ Refusing("remote" :> Row({"daddr"}, <<>>) @@ Marking("group" :> Row({"daddr"}, <<>>), {"group"}),
                            {On({"daddr"})})
                @@ Refusing(Marking(Flag("learning", "learning", Dflt) @@ Flag("nolearning", "learning", 0),
                                    {"learning seen"}), {On({"learning seen"})}),
            Each(vxlan_attrs \cup vxlan_flags \cup udp_csums \cup {"daddr", "gbp", "gpe", "metadata", "srcport"})
                \cup {Attr("learning", {On({"learning seen"}), On({"NLM_F_EXCL"})}, {"learning"}),
                      Attr("dstport", {On({"dstport"}), Cond({"gpe"}, {"port seen"})}, {"dstport"})})
        EXCEPT !.never = {On({"external", "id"}), Cond({"NLM_F_EXCL"}, {"external", "id"}), Cond({"group"}, {"dev"})},
               !.fill = {Fill(Cond({"gpe"}, {"port seen"}), {"dstport"})}, !.req = {"id"}, !.lost = {"learning"}]

vxlan_print_flags == NonZero({"tos", "label", "maxaddress"} \cup vxlan_flags)
                       @@ Present({"ttl", "ageing", "gbp", "gpe"} \cup udp_csums)

vxlan_print_opt ==
    Stopping(Needing(Printer(NonZero({"daddr", "local", "dev", "metadata"})
                                 @@ Present({"id", "srcport", "dstport", "learning"}) @@ vxlan_print_flags),
                     (vxlan_attrs \cup vxlan_flags \cup udp_csums
                         \cup {"daddr", "srcport", "dstport", "learning", "gbp", "gpe"}), "id"), "metadata")

\* The kernel reports the supervision address it made of the given byte.
hsr_parse_opt == Attrs({"supervision", "version", "slave1", "slave2"})

hsr_print_opt == Hiding(Printer(Present({"slave1", "slave2"})), {"supervision", "version"})

ipoib_parse_opt == Attrs({"pkey", "mode", "umcast"})

ipoib_print_opt ==
    Needing(Needing(Printer(Present({"pkey", "mode", "umcast"})), {"mode", "umcast"}, "pkey"), {"umcast"}, "mode")

\* One of three flags; without any of them every request says bridge.
ipvlan_parse_opt ==
    Parser(NotGiven({"mode"}) @@ Zero({"private", "vepa"}),
           Arg({"mode"}) @@ Marking(Refusing(Flags({"private", "vepa"}) @@ "bridge" :> Row({}, <<>>), {On({"flag seen"})}),
                                    {"flag seen"}),
           Each({"mode"}) \cup Whole("FLAGS", {"private", "vepa"}))

ipvlan_print_opt == Printer(Present({"mode"}) @@ NonZero({"private", "vepa"}))

vlan_flags == {"reorder_hdr", "gvrp", "mvrp", "loose_binding"}

\* A list of from:to pairs, up to the first word that is not one.
vlan_parse_qos_map == Arg({"ingress-qos-map", "egress-qos-map"})

vlan_parse_opt ==
    [Attrs({"protocol", "id", "ingress-qos-map", "egress-qos-map"} \cup vlan_flags)
        EXCEPT !.opts = vlan_parse_qos_map @@ @]

vlan_print_map == Present({"ingress-qos-map", "egress-qos-map"})

vlan_print_flags == NonZero(vlan_flags)

vlan_print_opt ==
    Needing(Printer(Present({"protocol", "id"}) @@ vlan_print_flags @@ vlan_print_map),
            {"protocol", "ingress-qos-map", "egress-qos-map"} \cup vlan_flags, "id")

\* nopromisc only goes with mode passthru, in the same command; addresses are
\* orders to a link in mode source.
macvlan_parse_opt ==
    [Parser(Zero({"mode", "passthru", "nopromisc"}) @@ NotGiven({"macaddr"}),
            Taking("mode" :> Row({"mode"}, "passthru" :> 0), {1})
                @@ "mode passthru" :> Row({}, "mode" :> 1 @@ "passthru" :> 1)
                @@ Marking(Flags({"nopromisc"}) @@ "flag null" :> Row({}, <<>>), {"has_flags"}) @@ Arg({"macaddr"}),
            {Attr("MODE", {On({"mode"})}, {"mode", "passthru"}), Attr("FLAGS", {On({"has_flags"})}, {"nopromisc"})}
                \cup Each({"macaddr"}))
        EXCEPT !.never = {Cond({"nopromisc"}, {"passthru"})}, !.resets = {"nopromisc"}]

macvlan_print_opt ==
    Hiding(Needing(Printer(Present({"mode"}) @@ NonZero({"passthru", "nopromisc"})), {"passthru", "nopromisc"}, "mode"),
           {"macaddr"})

vrf_parse_opt == Attrs({"table"})

vrf_print_opt == Printer(Present({"table"}))

-----------------------------------------------------------------------------
\* What the tunnels share.  A key is a number or a dotted quad.
tnl_parse_key == "key" :> Row({"ikey", "okey"}, <<>>) @@ Arg({"ikey", "okey"})

tnl_print_endpoint == Present({"remote", "local"})

encap_vars == {"encap", "encap-sport", "encap-dport", "encap-csum", "encap-udp6-csum", "encap-remcsum"}

encap_parse ==
    Arg({"encap", "encap-sport", "encap-dport"}) @@ Flag("noencap", "encap", 0)
        @@ Flags({"encap-csum", "encap-udp6-csum", "encap-remcsum"})
        @@ Flag("noencap-csum", "encap-csum", 0) @@ Flag("noencap-udp6-csum", "encap-udp6-csum", 0)
        @@ Flag("noencap-remcsum", "encap-remcsum", 0)

encap_send == Whole("ENCAP_FLAGS", {"encap-csum", "encap-udp6-csum", "encap-remcsum"})
                  \cup UNION {Whole(x, {x}) : x \in {"encap", "encap-sport", "encap-dport"}}

\* Nothing of an encapsulation of type none is shown.
tnl_print_encap(p) ==
    Under([p EXCEPT !.shows = @ @@ NonZero({"encap"}) @@ Present(encap_vars)], encap_vars, "encap")

\* The device is read back as a byte.
vti_vars == {"ikey", "okey", "local", "remote", "fwmark", "dev"}

vti_parse_opt ==
    [Parser(Zero({"ikey", "okey", "fwmark", "dev"}) @@ NotGiven({"local", "remote"}),
            tnl_parse_key @@ Arg({"local", "remote", "fwmark"}) @@ Taking(Arg({"dev"}), {1}),
            Each({"local", "remote", "dev"}) \cup UNION {Whole(x, {x}) : x \in {"ikey", "okey", "fwmark"}})
        EXCEPT !.gets = vti_vars, !.alters = {"dev"}]

vti_print_opt == Printer(tnl_print_endpoint @@ NonZero({"dev", "ikey", "okey", "fwmark"}))

vti6_parse_opt ==
    [Parser(Zero({"ikey", "okey", "fwmark", "dev"}) @@ NotGiven({"local", "remote"}),
            tnl_parse_key @@ Arg({"local", "remote", "fwmark"}) @@ Taking(Arg({"dev"}), {1}),
            Each({"local", "remote", "dev"}) \cup UNION {Whole(x, {x}) : x \in {"ikey", "okey", "fwmark"}})
        EXCEPT !.gets = vti_vars, !.alters = {"dev"}]

vti6_print_opt == Printer(tnl_print_endpoint @@ NonZero({"dev", "ikey", "okey", "fwmark"}))

\* What the words of a GRE tunnel are kept in; all of it is read back.  The
\* ports of the encapsulation are read as they are on the wire and sent with
\* their bytes swapped.
gre_keys == {"ikey", "okey", "ikey flag", "okey flag", "iseq", "oseq", "icsum", "ocsum"}
erspan_vars == {"erspan", "erspan 1", "erspan 2", "erspan_dir", "erspan_hwid"}
gre_both == gre_keys \cup erspan_vars \cup encap_vars \cup {"local", "remote", "multicast", "ttl", "dev", "fwmark", "external"}

gre_parse_keys ==
    "key" :> Row({"ikey", "okey"}, "ikey flag" :> 1 @@ "okey flag" :> 1) @@ "ikey" :> Row({"ikey"}, "ikey flag" :> 1)
        @@ "okey" :> Row({"okey"}, "okey flag" :> 1) @@ "seq" :> Row({}, "iseq" :> 1 @@ "oseq" :> 1)
        @@ "csum" :> Row({}, "icsum" :> 1 @@ "ocsum" :> 1) @@ Flags({"iseq", "oseq", "icsum", "ocsum"})

\* The index goes with version 1, the direction and the hardware id with 2.
gre_parse_erspan ==
    Taking(Arg({"erspan"}), {1}) @@ Arg({"erspan_dir", "erspan_hwid"})
        @@ "erspan_ver 1" :> Row({}, "erspan 1" :> 1 @@ "erspan 2" :> 0)
        @@ "erspan_ver 2" :> Row({}, "erspan 1" :> 0 @@ "erspan 2" :> 1)

gre_parse_link ==
    "remote" :> Row({"remote"}, "multicast" :> 0) @@ "remote group" :> Row({}, "remote" :> 1 @@ "multicast" :> 1)
        @@ Arg({"local", "ttl"}) @@ Taking(Arg({"dev"}), {1}) @@ Flags({"external"}) @@ encap_parse

gre_send ==
    UNION {Whole(x, {x}) : x \in {"ikey", "okey", "ttl", "fwmark"}} \cup encap_send
        \cup Whole("IFLAGS", {"ikey flag", "iseq", "icsum"}) \cup Whole("OFLAGS", {"okey flag", "oseq", "ocsum"})
        \cup Group("REMOTE", {On({"remote"})}, {"remote", "multicast"}) \cup Each({"local", "dev", "external"})
        \cup {Attr("VER", {On({"erspan 1"}), On({"erspan 2"})}, {"erspan 1", "erspan 2"}),
              Attr("INDEX", {On({"erspan 1", "erspan"})}, {"erspan"}),
              Attr("DIR", {On({"erspan 2"})}, {"erspan_dir", "erspan_hwid"})}

\* A multicast remote is its own key and needs a local address.
gre_parse_opt ==
    [Parser(Zero((gre_both \cup {"tos", "ignore-df"}) \ {"local", "remote"}) @@ NotGiven({"local", "remote"})
                @@ AtDflt({"pmtudisc"}),
            gre_parse_keys @@ gre_parse_link @@ gre_parse_erspan @@ Arg({"tos", "fwmark"})
                @@ Flag("nopmtudisc", "pmtudisc", 0) @@ Flag("pmtudisc", "pmtudisc", Dflt)
                @@ Flags({"ignore-df"}) @@ Marking(Flag("noignore-df", "ignore-df", 0), {"noignore"}),
            gre_send \cup Whole("TOS", {"tos"}) \cup Whole("PMTUDISC", {"pmtudisc"})
                \cup Group("IGNORE_DF", {On({"ignore-df"}), On({"noignore"})}, {"ignore-df"}))
        EXCEPT !.gets = gre_both \cup {"tos", "ignore-df", "pmtudisc"}, !.alters = {"encap-sport", "encap-dport"},
               !.never = {Cond({"multicast"}, {"local"})}, !.alone = {"external"},
               !.fill = {Fill(Cond({"multicast"}, {k}), {k}) : k \in {"ikey", "okey"}}
                   \cup {Fill(Cond({"multicast"}, {"ikey"}), {"ikey flag"}), Fill(Cond({"multicast"}, {"okey"}), {"okey flag"})},
               !.lost = {"erspan", "erspan_dir", "erspan_hwid"}]

gre_print_keys ==
    Shows({"ikey", "ikey flag"}, {Seen({"ikey"}, {"ikey flag"})}) @@ Shows({"okey", "okey flag"}, {Seen({"okey"}, {"okey flag"})})
        @@ NonZero({"iseq", "oseq", "icsum", "ocsum"})

gre_print_opt ==
    Stopping(tnl_print_encap(Printer(
        tnl_print_endpoint @@ Shows({"multicast"}, {Seen({"remote"}, {})}) @@ gre_print_keys @@ Present(erspan_vars)
            @@ NonZero({"dev", "tos", "ignore-df", "fwmark"}) @@ Present({"ttl", "pmtudisc", "external"}))), "external")

\* The traffic class, the flow label, the mark and the limit of nested
\* tunnels are a value or, by a flag, taken from the inner packet.
ip6_flags == {"tclass inherit", "flowlabel inherit", "dscp", "fwmark inherit", "encaplimit none", "allow-localremote"}

ip6_parse_flow ==
    "tclass" :> Row({"tclass"}, "tclass inherit" :> 0) @@ "tclass inherit" :> Row({}, "tclass" :> 0 @@ "tclass inherit" :> 1)
        @@ "flowlabel" :> Row({"flowlabel"}, "flowlabel inherit" :> 0)
        @@ "flowlabel inherit" :> Row({}, "flowlabel" :> 0 @@ "flowlabel inherit" :> 1)
        @@ "fwmark" :> Row({"fwmark"}, "fwmark inherit" :> 0)
        @@ "fwmark inherit" :> Row({}, "fwmark" :> 0 @@ "fwmark inherit" :> 1)
        @@ "encaplimit" :> Row({"encaplimit"}, "encaplimit none" :> 0) @@ Flags({"encaplimit none", "dscp", "allow-localremote"})
        @@ Flag("noallow-localremote", "allow-localremote", 0)

ip6_send == Whole("FLOWINFO", {"tclass", "flowlabel"}) \cup Whole("FLAGS", ip6_flags) \cup Whole("ENCAP_LIMIT", {"encaplimit"})

ip6_print_flow ==
    NonZero(ip6_flags) @@ Shows({"encaplimit"}, {Seen({"encaplimit"}, {})}) @@ Present({"tclass", "flowlabel"}) @@ NonZero({"fwmark"})

gre6_parse_opt ==
    [Parser(Zero((gre_both \cup ip6_flags \cup {"tclass", "flowlabel"}) \ {"local", "remote", "ttl", "encap-udp6-csum"})
                @@ NotGiven({"local", "remote"}) @@ AtDflt({"ttl", "encaplimit", "encap-udp6-csum"}),
            gre_parse_keys @@ gre_parse_link @@ gre_parse_erspan @@ ip6_parse_flow,
            gre_send \cup ip6_send)
        EXCEPT !.gets = gre_both \cup ip6_flags \cup {"tclass", "flowlabel", "encaplimit"},
               !.alters = {"encap-sport", "encap-dport"}, !.alone = {"external"},
               !.lost = {"erspan", "erspan_dir", "erspan_hwid"}]

gre6_print_opt ==
    Stopping(tnl_print_encap(Printer(
        tnl_print_endpoint @@ Shows({"multicast"}, {Seen({"remote"}, {})}) @@ gre_print_keys @@ Present(erspan_vars)
            @@ ip6_print_flow @@ NonZero({"dev"}) @@ Present({"ttl", "external"}))), "external")

\* Device and key words of the other two tunnels; a mode is a protocol.
iptunnel_words ==
    Arg({"mode", "local", "remote", "ttl", "tos", "fwmark", "6rd-prefix", "6rd-relay_prefix"})
        @@ Taking(Arg({"dev"}), {1}) @@ Flags({"isatap", "external"})
        @@ Flag("nopmtudisc", "pmtudisc", 0) @@ Flag("pmtudisc", "pmtudisc", Dflt) @@ encap_parse
        @@ "6rd-reset" :> Row({}, "6rd-prefix" :> Dflt)

\* Mutant: the mark is not read back.
iptunnel_gets_no_mark == {"mode", "tos", "ttl", "dev", "external", "isatap", "local", "remote", "6rd-prefix",
                          "6rd-relay_prefix", "pmtudisc"} \cup encap_vars

\* Everything is read back.
iptunnel_gets == {"mode", "tos", "ttl", "dev", "external", "fwmark", "isatap", "local", "remote", "6rd-prefix",
                  "6rd-relay_prefix", "pmtudisc"} \cup encap_vars

iptunnel_parse_opt ==
    [Parser(Zero({"mode", "tos", "ttl", "dev", "external", "fwmark", "isatap"} \cup encap_vars)
                @@ NotGiven({"local", "remote", "6rd-prefix", "6rd-relay_prefix"}) @@ AtDflt({"pmtudisc"}),
            iptunnel_words,
            Each({"local", "remote", "6rd-prefix", "6rd-relay_prefix"}) \cup encap_send \cup Whole("PROTO", {"mode", "external"})
                \cup UNION {Whole(x, {x}) : x \in {"pmtudisc", "tos", "ttl", "dev", "fwmark", "isatap"}})
        EXCEPT !.never = {On({"ttl", "pmtudisc"})}, !.alone = {"external"}, !.alters = {"encap-sport", "encap-dport"},
               !.gets = iptunnel_gets]

\* The relay prefix is shown after a prefix.
iptunnel_print_opt ==
    Stopping(Needing(tnl_print_encap(Printer(
        tnl_print_endpoint @@ Present({"mode", "ttl", "pmtudisc", "external", "6rd-prefix", "6rd-relay_prefix"})
            @@ NonZero({"dev", "tos", "isatap", "fwmark"}))), {"6rd-relay_prefix"}, "6rd-prefix"), "external")

ip6tunnel_words ==
    Arg({"mode", "local", "remote", "ttl"}) @@ Taking(Arg({"dev"}), {1}) @@ Flags({"external"})
        @@ ip6_parse_flow @@ encap_parse

\* The encapsulation is not read back: a change that does not repeat it turns
\* it off.
ip6tunnel_gets == ip6_flags \cup {"mode", "dev", "external", "fwmark", "tclass", "flowlabel", "local", "remote", "ttl",
                                  "encaplimit"}

ip6tunnel_parse_opt ==
    [Parser(Zero({"mode", "dev", "external", "fwmark", "tclass", "flowlabel"} \cup ip6_flags \cup (encap_vars \ {"encap-udp6-csum"}))
                @@ NotGiven({"local", "remote"}) @@ AtDflt({"ttl", "encaplimit", "encap-udp6-csum"}),
            ip6tunnel_words,
            Each({"local", "remote"}) \cup ip6_send \cup encap_send \cup Whole("PROTO", {"mode", "external"})
                \cup UNION {Whole(x, {x}) : x \in {"ttl", "dev", "fwmark"}})
        EXCEPT !.alone = {"external"}, !.resets = encap_vars, !.gets = ip6tunnel_gets]

ip6tunnel_print_opt ==
    Stopping(tnl_print_encap(Printer(
        tnl_print_endpoint @@ Present({"mode", "ttl", "external"}) @@ ip6_print_flow @@ NonZero({"dev"}))), "external")

Links ==
    [bond         |-> Tool(bond_parse_opt, bond_print_opt),
     bond_slave   |-> Tool(bond_slave_parse_opt, bond_slave_print_opt),
     bridge       |-> Tool(bridge_parse_opt, bridge_print_opt),
     bridge_slave |-> Tool(bridge_slave_parse_opt, bridge_slave_print_opt),
     can          |-> Tool(can_parse_opt, can_print_opt),
     geneve       |-> Tool(geneve_parse_opt, geneve_print_opt),
     vxlan        |-> Tool(vxlan_parse_opt, vxlan_print_opt),
     hsr          |-> Tool(hsr_parse_opt, hsr_print_opt),
     ipoib        |-> Tool(ipoib_parse_opt, ipoib_print_opt),
     ipvlan       |-> Tool(ipvlan_parse_opt, ipvlan_print_opt),
     vlan_link    |-> Tool(vlan_parse_opt, vlan_print_opt),
     macvlan      |-> Tool(macvlan_parse_opt, macvlan_print_opt),
     vrf          |-> Tool(vrf_parse_opt, vrf_print_opt),
     vti          |-> Tool(vti_parse_opt, vti_print_opt),
     vti6         |-> Tool(vti6_parse_opt, vti6_print_opt),
     gre          |-> Tool(gre_parse_opt, gre_print_opt),
     ip6gre       |-> Tool(gre6_parse_opt, gre6_print_opt),
     iptnl        |-> Tool(iptunnel_parse_opt, iptunnel_print_opt),
     ip6tnl       |-> Tool(ip6tunnel_parse_opt, ip6tunnel_print_opt)]
=============================================================================
