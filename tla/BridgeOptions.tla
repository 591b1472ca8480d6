--------------------------- MODULE BridgeOptions ----------------------------
(***************************************************************************)
(* The objects of the bridge command as option tables: ports, forwarding   *)
(* entries, vlans and multicast groups (bridge/link.c, fdb.c, vlan.c and   *)
(* mdb.c).                                                                 *)
(***************************************************************************)
EXTENDS OptionTables

port_switches == {"guard", "hairpin", "fastleave", "root_block", "learning", "learning_sync", "flood",
                  "mcast_flood", "neigh_suppress", "vlan_tunnel"}
on_off == Arg(port_switches)

\* "hwmode" forgets a "master" given before it.
brlink_words ==
    Taking(Arg({"dev"}), {1}) @@ on_off @@ Arg({"cost", "priority", "state"}) @@ Flags({"self", "master"})
        @@ "hwmode" :> Row({"hwmode"}, "self" :> 1 @@ "master" :> 0)

brlink_modify ==
    [Parser(NotGiven(port_switches \cup {"dev", "priority", "state", "hwmode"}) @@ Zero({"cost", "self", "master"}),
            brlink_words,
            Each(port_switches \cup {"cost", "priority", "state", "hwmode"})
                \cup Group("IFLA_BRIDGE_FLAGS", {On({"self"}), On({"master"})}, {"self", "master"})
                \cup Whole("ifinfomsg", {"dev"}))
        EXCEPT !.never = {Off({"dev"})}, !.req = {"dev"}]

print_protinfo == Present(port_switches \cup {"cost", "priority", "state"})
print_af_spec  == Present({"hwmode"})
brlink_print_linkinfo == Hiding(Printer(print_protinfo @@ print_af_spec @@ Present({"dev"})), {"self", "master"})

(* A forwarding entry is in one of the states that its words make up:      *)
(* permanent unless a word says otherwise, and on the device itself unless *)
(* a word names the bridge.                                                *)
fdb_words ==
    Arg({"dev", "port", "vni"}) @@ Once({"dst", "vlan", "to"}) @@ Taking(Arg({"via"}), {1})
        @@ Flags({"self", "master", "router", "use", "extern_learn"})
        @@ Flag("local", "permanent", 1) @@ Flag("static", "reachable", 1)
        @@ "dynamic" :> Row({}, "reachable" :> 1 @@ "noarp" :> 0)

fdb_modify ==
    [Parser(NotGiven({"dev", "to", "dst", "vlan"}) @@ AtOnes({"vni"}) @@ AtDflt({"noarp"})
                @@ Zero({"port", "via", "self", "master", "router", "use", "extern_learn", "permanent", "reachable"}),
            fdb_words,
            Each({"dst", "vlan", "port", "vni", "via"})
                \cup Whole("ndmsg", {"dev", "self", "master", "router", "use", "extern_learn", "permanent", "reachable", "noarp"})
                \cup Whole("NDA_LLADDR", {"to"}))
        EXCEPT !.never = {Off({"dev"}), Off({"to"})}, !.req = {"dev", "to"},
               !.fill = {Fill(Off({"self", "master"}), {"self"}), Fill(Off({"permanent", "reachable"}), {"permanent"})},
               !.fails = TRUE]                     \* not an Ethernet address, no such device

fdb_print_flags == NonZero({"self", "router", "extern_learn", "master"})
\* One word for the state, the first that fits; a vlan is shown unless 0.
state_n2a == NonZero({"permanent", "noarp"})
print_fdb ==
    Hiding(Printer(Present({"to", "dev", "dst", "port", "vni", "via"}) @@ NonZero({"vlan"}) @@ fdb_print_flags @@ state_n2a),
           {"use", "reachable"})

(* A vlan or a range of vlans of a port.  A range cannot be the pvid; the  *)
(* word for a single vlan leaves the end of an earlier range.              *)
vlan_vid ==
    "vid" :> Row({"vid"}, <<>>)
        @@ "vid range" :> Row({}, "vid" :> 1 @@ "vid_end" :> 1 @@ "range begin" :> 1)

\* With a range of vlans a single tunnel id leaves the id of its end at 0.
parse_tunnel_info ==
    "tunnel_info id" :> Row({"tun_id_start"}, "tunnel" :> 1)
        @@ "tunnel_info id range" :> Row({"tun_id_start", "tun_id_end"}, "tunnel" :> 1)

add_vlan_info_range ==
    Group("IFLA_BRIDGE_VLAN_INFO", {Off({"tunnel"})}, {"vid", "vid_end", "range begin", "pvid", "untagged"})
add_tunnel_info_range ==
    Group("IFLA_BRIDGE_VLAN_TUNNEL_INFO", {On({"tunnel"})}, {"vid", "vid_end", "range begin", "tun_id_start", "tun_id_end", "tunnel"})

vlan_modify ==
    [Parser(NotGiven({"dev", "vid", "vid_end"})
                @@ Zero({"range begin", "pvid", "untagged", "self", "master", "tunnel", "tun_id_start", "tun_id_end"}),
            Taking(Arg({"dev"}), {1}) @@ vlan_vid @@ Flags({"self", "master", "pvid", "untagged"}) @@ parse_tunnel_info,
            add_vlan_info_range \cup add_tunnel_info_range \cup Whole("ifinfomsg", {"dev"})
                \cup Group("IFLA_BRIDGE_FLAGS", {On({"self"}), On({"master"})}, {"self", "master"}))
        EXCEPT !.never = {Off({"dev"}), Off({"vid"}), On({"range begin", "pvid"})},
               !.fails = TRUE,                     \* a vlan of 4096 or more, an empty range
               !.req = {"dev", "vid"}, !.fresh = TRUE,
               !.drops = Drop({On({"tunnel"})}, {"pvid", "untagged"})]

print_range            == Present({"vid", "vid_end", "range begin"})
print_vlan_flags       == NonZero({"pvid", "untagged"})
print_vlan_info        == print_range @@ print_vlan_flags
print_vlan_tunnel_info == print_range @@ Present({"tun_id_start", "tun_id_end", "tunnel"})
vlan_print_vlan == Hiding(Printer(print_vlan_info @@ print_vlan_tunnel_info @@ Present({"dev"})), {"self", "master"})

(* A multicast group of a port: "temp" says nothing, a deletion has no     *)
(* state.                                                                  *)
mdb_modify(adding) ==
    [Parser(NotGiven({"dev", "grp", "port"}) @@ Zero({"permanent", "vid"}),
            Taking(Arg({"dev", "grp", "port"}), {1}) @@ Arg({"vid"}) @@ "temp" :> Row({}, <<>>)
                @@ "permanent" :> Row({}, IF adding THEN "permanent" :> 1 ELSE <<>>),
            Whole("MDBA_SET_ENTRY", {"dev", "grp", "port", "permanent", "vid"}))
        EXCEPT !.never = {Off({"dev"}), Off({"grp"}), Off({"port"})}, !.req = {"dev", "grp", "port"},
               !.fails = TRUE]

print_mdb_entry == Printer(Present({"dev", "port", "grp", "permanent"}) @@ NonZero({"vid"}))

Bridge == "bridge_port" :> Tool(brlink_modify, brlink_print_linkinfo)
    @@ "fdb" :> Tool(fdb_modify, print_fdb)
    @@ "bridge_vlan" :> Tool(vlan_modify, vlan_print_vlan)
    @@ "mdb add" :> Tool(mdb_modify(TRUE), print_mdb_entry)
    @@ "mdb delete" :> Tool(mdb_modify(FALSE), print_mdb_entry)
=============================================================================
