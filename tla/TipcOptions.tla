---------------------------- MODULE TipcOptions -----------------------------
(***************************************************************************)
(* The commands of tipc that change something, as option tables: bearers,  *)
(* links, media, the node and its peers (tipc/*.c).  All of them read      *)
(* their key and value pairs with parse_opts (tipc/cmdl.c).                *)
(***************************************************************************)
EXTENDS OptionTables

\* A key may come again; a key at the very end has no value and counts as not given.
parse_opts(X) == Arg(X)

\* The property is the word after "set", its value the next one.
tipc_props == {"priority", "tolerance", "window"}
shift_cmdl == Refusing(Arg(tipc_props), {On({x}) : x \in tipc_props})

\* A bearer is known by its medium and by what names it on that medium.
cmd_get_unique_bearer_name(id) == {Off({"media"}), Off({id})}
nl_add_bearer_name(id)         == Whole("TIPC_NLA_BEARER_NAME", {"media", id})

udp_words == {"localip", "localport", "remoteip", "remoteport"}

\* Without a remote address one is made from the network's number.
generate_multicast == {Fill(Off({"remoteip"}), {"remoteip"})}
nl_add_udp_enable_opts ==
    Whole("TIPC_NLA_UDP_LOCAL", {"localip", "localport"}) \cup Whole("TIPC_NLA_UDP_REMOTE", {"remoteip", "remoteport"})

\* One list of keys for all media: a medium that is not UDP ignores the addresses.
cmd_bearer_enable(id) ==
    LET udp == id = "name" IN
    [Parser(NotGiven({"media", "name", "device", "domain", "priority", "localip", "remoteip"}) @@ AtDflt({"localport", "remoteport"}),
            parse_opts({"device", "domain", "media", "name", "priority"} \cup udp_words),
            Each({"domain", "priority"}) \cup nl_add_bearer_name(id) \cup (IF udp THEN nl_add_udp_enable_opts ELSE {}))
        EXCEPT !.never = cmd_get_unique_bearer_name(id) \cup (IF udp THEN {Off({"localip"})} ELSE {}),
               !.fill = IF udp THEN generate_multicast ELSE {},
               !.lost = ({"name", "device"} \ {id}) \cup (IF udp THEN {} ELSE udp_words),
               !.req = {"media", id} \cup (IF udp THEN {"localip"} ELSE {}),
               !.fails = TRUE, !.fresh = TRUE]     \* no address, or of two families

udp_bearer_add == Whole("TIPC_NLA_UDP_REMOTE", {"remoteip", "remoteport"})
cmd_bearer_add_media ==
    [Parser(NotGiven({"media", "name", "remoteip"}) @@ AtDflt({"remoteport"}),
            parse_opts({"remoteip", "remoteport", "name", "media"}), nl_add_bearer_name("name") \cup udp_bearer_add)
        EXCEPT !.never = cmd_get_unique_bearer_name("name") \cup {Off({"remoteip"})},
               !.req = {"media", "name", "remoteip"}, !.fails = TRUE, !.fresh = TRUE]

cmd_bearer_disable(id) ==
    [Parser(NotGiven({"media", "name", "device"}), parse_opts({"device", "name", "media"}), nl_add_bearer_name(id))
        EXCEPT !.never = cmd_get_unique_bearer_name(id), !.req = {"media", id}, !.lost = {"name", "device"} \ {id}]

cmd_bearer_set_prop(id) ==
    [Parser(NotGiven({"media", "name", "device"} \cup tipc_props), shift_cmdl @@ parse_opts({"device", "media", "name"}),
            Each(tipc_props) \cup nl_add_bearer_name(id))
        EXCEPT !.never = cmd_get_unique_bearer_name(id) \cup {Off(tipc_props)}, !.req = {"media", id},
               !.lost = {"name", "device"} \ {id}]

\* Nothing shows the domain; the printer of addresses is the one of a UDP bearer.
bearer_get_cb     == Present(tipc_props)
bearer_get_udp_cb == Present(udp_words)
bearer_list_cb    == Present({"media", "name", "device"})
PrintBearer == Hiding(Printer(bearer_get_cb @@ bearer_get_udp_cb @@ bearer_list_cb), {"domain"})

cmd_link_set_prop ==
    [Parser(NotGiven({"link"} \cup tipc_props), shift_cmdl @@ parse_opts({"link"}), Each({"link"} \cup tipc_props))
        EXCEPT !.never = {Off({"link"}), Off(tipc_props)}, !.req = {"link"}]
link_list_cb == Present({"link"})
link_get_cb  == Printer(Present(tipc_props) @@ link_list_cb)

cmd_media_set_prop ==
    [Parser(NotGiven({"media"} \cup tipc_props), shift_cmdl @@ parse_opts({"media"}), Each({"media"} \cup tipc_props))
        EXCEPT !.never = {Off({"media"}), Off(tipc_props)}, !.req = {"media"}]
media_list_cb == Present({"media"})
media_get_cb  == Printer(Present(tipc_props) @@ media_list_cb)

\* Commands with exactly one word.
OneWord(x, values) ==
    [Parser(NotGiven({x}), Taking(Once({x}), values), Each({x})) EXCEPT !.never = {Off({x})}, !.fails = TRUE]

cmd_link_mon_set_prop == OneWord("threshold", 0 .. 2)
link_mon_get_cb       == Printer(Present({"threshold"}))

\* Address 0 means that the text was none.
cmd_node_set_addr   == OneWord("address", 1 .. 2)
cmd_node_get_addr   == Printer(Present({"address"}))
cmd_node_set_nodeid == OneWord("identity", 0 .. 2)
nodeid_get_cb       == Printer(Present({"identity"}))
cmd_node_set_netid  == OneWord("netid", 0 .. 2)
netid_get_cb        == Printer(Present({"netid"}))
cmd_peer_rm_addr    == OneWord("address", 1 .. 2)
node_list_cb        == Printer(Present({"address"}))

Tipc == "tipc_udp" :> Tool(cmd_bearer_enable("name"), PrintBearer)
    @@ "tipc_eth" :> Tool(cmd_bearer_enable("device"), PrintBearer)
    @@ "tipc_add" :> Tool(cmd_bearer_add_media, PrintBearer)
    @@ "tipc_disable_udp" :> Tool(cmd_bearer_disable("name"), PrintBearer)
    @@ "tipc_disable_eth" :> Tool(cmd_bearer_disable("device"), PrintBearer)
    @@ "tipc_set_udp" :> Tool(cmd_bearer_set_prop("name"), PrintBearer)
    @@ "tipc_set_eth" :> Tool(cmd_bearer_set_prop("device"), PrintBearer)
    @@ "tipc_link" :> Tool(cmd_link_set_prop, link_get_cb)
    @@ "tipc_media" :> Tool(cmd_media_set_prop, media_get_cb)
    @@ "tipc_mon" :> Tool(cmd_link_mon_set_prop, link_mon_get_cb)
    @@ "tipc_addr" :> Tool(cmd_node_set_addr, cmd_node_get_addr)
    @@ "tipc_nodeid" :> Tool(cmd_node_set_nodeid, nodeid_get_cb)
    @@ "tipc_netid" :> Tool(cmd_node_set_netid, netid_get_cb)
    @@ "tipc_peer" :> Tool(cmd_peer_rm_addr, node_list_cb)
=============================================================================
