--------------------------- MODULE TunnelOptions ----------------------------
(***************************************************************************)
(* Tunnels and small objects of ip that have commands of their own, as     *)
(* option tables: the tunnels set by ioctl (ip/iptunnel.c, ip/ip6tunnel.c, *)
(* ip/iptuntap.c), l2tp, fou, ila, seg6, macsec, addrlabel and token.      *)
(***************************************************************************)
EXTENDS OptionTables

(* The key words of the ioctl tunnels: a flag beside each key, flags for   *)
(* sequence numbers and checksums that no word takes back.                 *)
tnl_keys == {"ikey", "okey", "ikey flag", "okey flag", "iseq", "oseq", "icsum", "ocsum"}

tnl_key_words ==
    "key" :> Row({"ikey", "okey"}, "ikey flag" :> 1 @@ "okey flag" :> 1) @@ "ikey" :> Row({"ikey"}, "ikey flag" :> 1)
        @@ "okey" :> Row({"okey"}, "okey flag" :> 1) @@ "seq" :> Row({}, "iseq" :> 1 @@ "oseq" :> 1)
        @@ "csum" :> Row({}, "icsum" :> 1 @@ "ocsum" :> 1) @@ Flags({"iseq", "oseq", "icsum", "ocsum"})

tnl_print_keys == Shows({"ikey", "ikey flag"}, {Seen({"ikey"}, {"ikey flag"})})
                  @@ Shows({"okey", "okey flag"}, {Seen({"okey"}, {"okey flag"})})
                  @@ NonZero({"iseq", "oseq", "icsum", "ocsum"})

\* A mode is set once: another one is refused, also when it is the one the
\* tunnel was read back with.  A tunnel without one goes by its name.
set_tunnel_proto == Taking(Arg({"mode"}), {1})

(* ip tunnel NAME ...: a change starts from the tunnel as it is, because   *)
(* its name is the first word.  "ttl inherit" stores nothing.              *)
iptunnel_parse_args ==
    [Parser(Zero({"mode", "ttl", "tos", "local", "remote", "multicast", "dev"} \cup tnl_keys) @@ AtDflt({"pmtudisc"}),
            set_tunnel_proto @@ tnl_key_words @@ Arg({"local", "ttl", "tos"}) @@ Taking(Arg({"dev"}), {1})
                @@ "ttl inherit" :> Row({}, <<>>)
                @@ "remote" :> Row({"remote"}, "multicast" :> 0) @@ "remote group" :> Row({}, "remote" :> 1 @@ "multicast" :> 1)
                @@ Flag("nopmtudisc", "pmtudisc", 0) @@ Flag("pmtudisc", "pmtudisc", Dflt),
            Whole("ip_tunnel_parm", {"mode", "ttl", "tos", "local", "remote", "multicast", "dev", "pmtudisc"} \cup tnl_keys))
        EXCEPT !.never = {Cond({"multicast"}, {"local"})},
               !.fails = TRUE,                     \* a key without gre or vti, no such device, no mode
               !.gets = {"mode", "ttl", "tos", "local", "remote", "multicast", "dev", "pmtudisc"} \cup tnl_keys,
               !.fill = {Fill(Off({"mode"}), {"mode"})}
                   \cup {Fill(Cond({"multicast"}, {k}), {k, k \o " flag"}) : k \in {"ikey", "okey"}}]

iptunnel_do_add == [iptunnel_parse_args EXCEPT !.never = @ \cup {On({"ttl", "pmtudisc"})}]

iptunnel_print_tunnel ==
    Printer(Present({"mode", "remote", "local", "ttl"}) @@ Shows({"multicast"}, {Seen({"remote"}, {})})
            @@ NonZero({"dev", "tos"}) @@ Shows({"pmtudisc"}, {Seen({"pmtudisc"}, {})}) @@ tnl_print_keys)

\* The potential routers of an isatap tunnel: one address a command.
do_prl ==
    LET one(k, d) == k :> [Row({"addr"}, "default" :> d) EXCEPT !.marks = {"count"}, !.no = {On({"count"})}] IN
    [Parser(Zero({"addr", "default"}) @@ NotGiven({"dev"}),
            one("prl-default", 1) @@ one("prl-nodefault", 0) @@ Arg({"dev"}),
            Whole("ip_tunnel_prl", {"addr", "default", "dev"}))
        EXCEPT !.never = {Off({"dev"}), Off({"count"})}, !.req = {"dev"}]

\* "6rd-reset" is another ioctl, chosen by the last word that names one;
\* with it the prefixes go nowhere.
do_6rd ==
    [Parser(Zero({"6rd-prefix", "6rd-relay_prefix", "reset"}) @@ NotGiven({"dev"}),
            Marking([k \in {"6rd-prefix", "6rd-relay_prefix"} |-> Row({k}, "reset" :> 0)]
                        @@ "6rd-reset" :> Row({}, "reset" :> 1), {"cmd"}) @@ Arg({"dev"}),
            Whole("ip_tunnel_6rd", {"dev", "reset"})
                \cup Group("ip_tunnel_6rd", {Off({"reset"})}, {"6rd-prefix", "6rd-relay_prefix"}))
        EXCEPT !.never = {Off({"dev"}), Off({"cmd"})}, !.req = {"dev"},
               !.drops = Drop({On({"reset"})}, {"6rd-prefix", "6rd-relay_prefix"})]

\* A tunnel shows its 6rd prefix, and the relay's if it has a length.
print_6rd == Hiding(Printer(Present({"dev", "6rd-prefix"}) @@ NonZero({"6rd-relay_prefix"})), {"reset"})
print_prl == Printer(Present({"dev", "addr"}) @@ NonZero({"default"}))

(* ip -6 tunnel: starts from the defaults of a new tunnel, or, changed,    *)
(* from the tunnel as it is.                                               *)
ip6tunnel_flags == {"tclass inherit", "flowlabel inherit", "dscp", "encaplimit none", "allow-localremote"}
ip6tunnel_vars == tnl_keys \cup ip6tunnel_flags
                  \cup {"mode", "local", "remote", "dev", "encaplimit", "hoplimit", "tclass", "flowlabel"}

ip6_tnl_parm_init ==
    AtDflt({"mode", "hoplimit", "encaplimit"}) @@ Zero(ip6tunnel_vars)

ip6tunnel_parse_args ==
    [Parser(ip6_tnl_parm_init,
            tnl_key_words @@ Arg({"mode", "local", "remote", "hoplimit"}) @@ Taking(Arg({"dev"}), {1})
                @@ "tclass" :> Row({"tclass"}, "tclass inherit" :> 0)
                @@ "tclass inherit" :> Row({}, "tclass" :> 0 @@ "tclass inherit" :> 1)
                @@ "flowlabel" :> Row({"flowlabel"}, "flowlabel inherit" :> 0)
                @@ "flowlabel inherit" :> Row({}, "flowlabel" :> 0 @@ "flowlabel inherit" :> 1)
                @@ "encaplimit" :> Row({"encaplimit"}, "encaplimit none" :> 0) @@ Flags({"encaplimit none", "dscp", "allow-localremote"})
                @@ Flag("noallow-localremote", "allow-localremote", 0),
            Whole("ip6_tnl_parm2", ip6tunnel_vars))
        EXCEPT !.gets = ip6tunnel_vars, !.fails = TRUE]

\* The limit is shown unless there is none; sequence numbers and checksums
\* only for the gre mode, which is not told apart here.
ip6tunnel_print_tunnel ==
    Hiding(Printer(Present({"mode", "remote", "local", "hoplimit", "tclass", "flowlabel", "encaplimit"})
                   @@ NonZero({"dev"} \cup ip6tunnel_flags) @@ tnl_print_keys), {})

(* ip tuntap: TUNSETIFF with the flags, then the owner and the group if    *)
(* they were given, then persistence, without which the device goes away   *)
(* when the descriptor is closed: any failure leaves no device.            *)
tuntap_parse_args ==
    [Parser(NotGiven({"mode", "user", "group", "name"}) @@ Zero({"pi", "one_queue", "vnet_hdr", "multi_queue"}),
            Taking(Arg({"mode"}), {1}) @@ Arg({"user", "group"}) @@ Flags({"pi", "one_queue", "vnet_hdr", "multi_queue"})
                @@ Args("dev", {"name"}) @@ Once({"name"}),
            Whole("TUNSETIFF", {"mode", "name", "pi", "one_queue", "vnet_hdr", "multi_queue"}))
        EXCEPT !.never = {Off({"mode"})}, !.fresh = TRUE, !.req = {"mode", "name"}]

tap_add_ioctl ==
    [tuntap_parse_args EXCEPT !.sends = @ \cup Each({"user", "group"}), !.fails = TRUE]

print_flags == Present({"mode"}) @@ NonZero({"pi", "one_queue", "vnet_hdr", "multi_queue"})
print_tuntap == Printer(print_flags @@ Present({"name", "user", "group"}))

(* ip l2tp: one loop for tunnels and sessions.  No encapsulation named is  *)
(* UDP.                                                                    *)
l2tp_ids == {"tunnel_id", "peer_tunnel_id", "session_id", "peer_session_id"}
l2tp_udp == {"udp_sport", "udp_dport", "udp_csum", "udp6_csum_rx", "udp6_csum_tx"}
l2tp_session == {"session_id", "peer_session_id", "cookie", "peer_cookie", "name", "l2spec_type", "recv_seq", "send_seq"}
l2tp_tunnel == l2tp_udp \cup {"encap", "local", "remote"}

l2tp_parse_args ==
    Parser(Zero(l2tp_ids \cup {"udp_sport", "udp_dport", "udp_csum", "encap", "recv_seq", "send_seq"})
               @@ NotGiven({"name", "local", "remote", "cookie", "peer_cookie"})
               @@ AtDflt({"udp6_csum_rx", "udp6_csum_tx", "l2spec_type"}),
           Arg(l2tp_ids \cup {"udp_sport", "udp_dport", "local", "remote", "name", "cookie", "peer_cookie"})
               @@ Flag("encap ip", "encap", 1) @@ Flag("encap udp", "encap", 0)
               @@ Flag("udp_csum on", "udp_csum", 1) @@ Flag("udp_csum off", "udp_csum", 0)
               @@ Flag("udp6_csum_rx on", "udp6_csum_rx", Dflt) @@ Flag("udp6_csum_rx off", "udp6_csum_rx", 0)
               @@ Flag("udp6_csum_tx on", "udp6_csum_tx", Dflt) @@ Flag("udp6_csum_tx off", "udp6_csum_tx", 0)
               @@ Flag("l2spec_type default", "l2spec_type", Dflt) @@ Flag("l2spec_type none", "l2spec_type", 0)
               @@ "offset" :> Row({}, <<>>) @@ "peer_offset" :> Row({}, <<>>)
               @@ "seq both" :> Row({}, "recv_seq" :> 1 @@ "send_seq" :> 1) @@ Flag("seq recv", "recv_seq", 1)
               @@ Flag("seq send", "send_seq", 1) @@ "seq none" :> Row({}, "recv_seq" :> 0 @@ "send_seq" :> 0),
           {})

\* The words of the other kind are read and dropped, and so are the ports and
\* the checksums of a tunnel over IP.  do_add asks for what each kind needs.
create_tunnel ==
    [l2tp_parse_args EXCEPT
        !.sends = Whole("L2TP_CMD_TUNNEL_CREATE", {"tunnel_id", "peer_tunnel_id", "encap", "local", "remote"})
            \cup Group("ports", {Off({"encap"})}, {"udp_sport", "udp_dport"})
            \cup {Attr(x, {Cond({x}, {"encap"})}, {x}) : x \in {"udp_csum", "udp6_csum_rx", "udp6_csum_tx"}},
        !.never = {Off({x}) : x \in {"tunnel_id", "peer_tunnel_id", "local", "remote"}}
            \cup {Off({"encap", x}) : x \in {"udp_sport", "udp_dport"}},
        !.lost = l2tp_session, !.drops = Drop({On({"encap"})}, l2tp_udp), !.fresh = TRUE,
        !.req = {"tunnel_id", "peer_tunnel_id", "local", "remote", "udp_sport", "udp_dport"}]

create_session ==
    [l2tp_parse_args EXCEPT
        !.sends = Whole("L2TP_CMD_SESSION_CREATE", l2tp_ids \cup {"l2spec_type"})
            \cup Each({"recv_seq", "send_seq", "cookie", "peer_cookie", "name"}),
        !.never = {Off({x}) : x \in {"tunnel_id", "session_id", "peer_session_id"}},
        !.lost = l2tp_tunnel, !.fresh = TRUE, !.req = {"tunnel_id", "session_id", "peer_session_id"}]

l2tp_print_tunnel ==
    Where(Printer(Present({"tunnel_id", "peer_tunnel_id", "encap", "local", "remote", "udp_sport", "udp_dport", "udp_csum",
                           "udp6_csum_rx", "udp6_csum_tx"})), l2tp_udp, "encap", {0})

l2tp_print_session ==
    Hiding(Printer(Present(l2tp_ids \cup {"name", "cookie", "peer_cookie"}) @@ NonZero({"recv_seq", "send_seq"})),
           {"l2spec_type"})

(* ip fou: a port for gue, which brings its own protocol, or for one       *)
(* protocol.                                                               *)
fou_parse_opt ==
    [Parser(Zero({"port", "ipproto", "gue", "-6"}),
            Taking(Arg({"port", "ipproto"}), {1}) @@ Flags({"gue", "-6"}),
            Whole("FOU_ATTR_PORT", {"port"}) \cup Whole("FOU_ATTR_TYPE", {"gue"}) \cup Whole("FOU_ATTR_AF", {"-6"})
                \cup Each({"ipproto"}))
        EXCEPT !.never = {Off({"port"}), Off({"ipproto", "gue"}), On({"ipproto", "gue"})}, !.req = {"port"}, !.fresh = TRUE]

print_fou_mapping == Printer(Present({"port"}) @@ NonZero({"gue", "-6"}) @@ Present({"ipproto"}))

(* ip ila: a mapping is added with both locators.                          *)
ila_parse_opt ==
    [Attrs({"loc", "loc_match", "csum-mode", "ident-type", "dev"})
        EXCEPT !.never = {Off({"loc"}), Off({"loc_match"})}, !.req = {"loc", "loc_match"}, !.fresh = TRUE]

print_ila_mapping == Printer(Present({"loc", "loc_match", "csum-mode", "ident-type", "dev"}))

(* ip sr: the secret is read from the terminal; an empty one deletes the   *)
(* key.  The source of tunnels is one address.                             *)
seg6_do_cmd ==
    [Parser(Zero({"keyid", "algo", "secret", "tunsrc"}), Taking(Arg({"keyid", "algo"}), {1}) @@ Arg({"secret", "tunsrc"}),
            Whole("SEG6_CMD_SETHMAC", {"keyid", "algo"}) \cup Each({"secret", "tunsrc"}))
        EXCEPT !.never = {Off({"keyid"}), Off({"algo"})}, !.req = {"keyid", "algo"}]

seg6_process_msg == Printer(Present({"keyid", "algo", "secret", "tunsrc"}))

(* ip macsec: an association; on and off once.  A new one needs a key and  *)
(* a packet number, an old one keeps its key.                              *)
active_words == OnOff("on", "off", "active")

get_sa == Arg({"sa"})

parse_sa_args == Taking(Once({"pn"}), 1 .. 2) @@ Arg({"key"}) @@ active_words

check_sa_args(C) == {Cond({"NLM_F_EXCL"} \cup C, {"key"}), Cond({"NLM_F_EXCL"} \cup C, {"pn"}),
                         Cond({"key"} \cup C, {"NLM_F_EXCL"})}

do_modify_txsa ==
    [Parser(Zero({"pn"}) @@ NotGiven({"sa", "key", "active"}), InOrder(<<get_sa, parse_sa_args>>, {2}),
            Each({"sa", "pn", "key", "active"}))
        EXCEPT !.never = check_sa_args({}) \cup {Off({"sa"})}]

\* The channel is named by sci or by address and port.  Without "sa" the
\* words are about the channel.
parse_rxsci == Refusing(Refusing(Arg({"sci"}), {On({"port"}), On({"address"})}) @@ Taking(Arg({"port"}), {1}) @@ Arg({"address"}),
                        {On({"sci"}), On({"port", "address"})})

do_modify_rxsci ==
    [Parser(Zero({"pn", "port"}) @@ NotGiven({"sci", "address", "sa", "key", "active"}),
            InOrder(<<parse_rxsci, get_sa, Refusing(Taking(Once({"pn"}), 1 .. 2) @@ Arg({"key"}), {Off({"sa"})}) @@ active_words>>,
                    {1, 3}),
            Each({"sci", "sa", "pn", "key", "active"}) \cup Group("SCI", {On({"port", "address"})}, {"port", "address"}))
        EXCEPT !.never = {Off({"sci", "port"}), Off({"sci", "address"})} \cup check_sa_args({"sa"}), !.req = {"sci"}]

print_tx_sc == Printer(Present({"sa", "pn", "active", "key"}))
print_rx_sc == Printer(Present({"sci", "port", "address", "sa", "pn", "active", "key"}))

(* ip link ... type macsec: first the channel, then the rest.  An address  *)
(* without a port, or sci 0, is sent as port 0.  "window" goes with        *)
(* "replay".                                                               *)
macsec_sci == Marking(Refusing(Marking(Refusing(Arg({"sci"}), {On({"address"})}) @@ Taking(Arg({"port"}), {1}), {"complete"})
                                   @@ Arg({"address"}), {On({"complete"})}), {"channel"})
macsec_flags == {"send_sci", "end_station", "scb"}

check_txsc_flags == {On({"send_sci", "end_station"}), On({"send_sci", "scb"}), On({"end_station", "scb"})}

macsec_words ==
    Taking(Once({"cipher", "icvlen"}), {1}) @@ Taking(Once({"encodingsa"}), 0 .. 1) @@ Arg({"encrypt", "protect", "validate", "window"})
    @@ [k \in macsec_flags |-> [Row({k}, <<>>) EXCEPT !.marks = {k \o " word"}]]
    @@ "replay on" :> Row({}, "replay" :> 1 @@ "replay is on" :> 1) @@ "replay off" :> Row({}, "replay" :> 0 @@ "replay is on" :> 0)

macsec_parse_opt ==
    [Parser(Zero({"sci", "port", "cipher", "icvlen", "replay is on"} \cup macsec_flags) @@ AtOnes({"encodingsa", "window"})
                @@ NotGiven({"address", "encrypt", "protect", "validate", "replay"}),
            InOrder(<<macsec_sci, macsec_words>>, {1, 2}),
            Each({"sci", "encrypt", "protect", "validate", "cipher", "icvlen", "encodingsa"})
                \cup Group("SCI", {On({"port", "address"})}, {"port", "address"})
                \cup Group("PORT", {Cond({"channel"}, {"sci", "address"}), Cond({"channel"}, {"sci", "port"})}, {"port"})
                \cup {Attr(k, {On({k \o " word"})}, {k}) : k \in macsec_flags}
                \cup Group("REPLAY", {On({"replay"})}, {"replay", "replay is on", "window"}))
        EXCEPT !.never = check_txsc_flags \cup {Cond({"window"}, {"replay"}), Cond({"replay is on"}, {"window"})},
               !.drops = Drop({Cond({"address"}, {"port"})}, {"address"}), !.resets = {"port"}]

macsec_print_opt ==
    Printer(Present({"sci", "port", "address", "protect", "encrypt", "send_sci", "end_station", "scb", "replay", "replay is on",
                     "window", "validate", "encodingsa", "cipher", "icvlen"}))

(* ip addrlabel: a prefix and a label.  What is shown as the label are the *)
(* four bytes behind it.                                                   *)
ipaddrlabel_modify ==
    [Parser(NotGiven({"prefix", "dev"}) @@ AtOnes({"label"}), Arg({"prefix", "dev", "label"}),
            Whole("ifaddrlblmsg", {"prefix", "dev"}) \cup Whole("IFAL_LABEL", {"label"}))
        EXCEPT !.never = {Off({"prefix"}), Off({"label"})}, !.req = {"prefix", "label"}]

print_addrlabel == Hiding(Printer(Present({"prefix"}) @@ NonZero({"dev"})), {"label"})

(* ip token: the first token and the first device count, more are ignored. *)
iptoken_set ==
    [Parser(NotGiven({"token", "dev"}), Once({"token", "dev"}) @@ [k \in {"another token", "another dev"} |-> Row({}, <<>>)],
            Whole("IFLA_INET6_TOKEN", {"token", "dev"}))
        EXCEPT !.never = {Off({"token"}), Off({"dev"})}, !.req = {"token", "dev"}]

print_token == Printer(Present({"token", "dev"}))

Tunnels ==
    [tunnel       |-> Tool(iptunnel_do_add, iptunnel_print_tunnel),
     prl          |-> Tool(do_prl, print_prl),
     sixrd        |-> Tool(do_6rd, print_6rd),
     ip6tunnel    |-> Tool(ip6tunnel_parse_args, ip6tunnel_print_tunnel),
     tuntap       |-> Tool(tap_add_ioctl, print_tuntap),
     l2tp_tunnel  |-> Tool(create_tunnel, l2tp_print_tunnel),
     l2tp_session |-> Tool(create_session, l2tp_print_session),
     fou          |-> Tool(fou_parse_opt, print_fou_mapping),
     ila          |-> Tool(ila_parse_opt, print_ila_mapping),
     seg6         |-> Tool(seg6_do_cmd, seg6_process_msg),
     macsec_txsa  |-> Tool(do_modify_txsa, print_tx_sc),
     macsec_rxsc  |-> Tool(do_modify_rxsci, print_rx_sc),
     macsec       |-> Tool(macsec_parse_opt, macsec_print_opt),
     addrlabel    |-> Tool(ipaddrlabel_modify, print_addrlabel),
     token        |-> Tool(iptoken_set, print_token)]
=============================================================================
