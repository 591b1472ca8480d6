---------------------------- MODULE XfrmOptions -----------------------------
(***************************************************************************)
(* ip xfrm as option tables: security associations, SPI allocation,        *)
(* lookups and deletions, policies with their templates and selectors, and *)
(* the thresholds of the policy database (ip/ipxfrm.c, ip/xfrm_state.c,    *)
(* ip/xfrm_policy.c).  What is shown is what `-s' shows.                   *)
(***************************************************************************)
EXTENDS OptionTables

xfrm_header(X) == Whole("header", X)

(* An ID, given once.  The protocols of route optimization refuse a SPI.   *)
xfrm_id_vars  == {"src", "dst", "proto", "spi"}
xfrm_id_parse ==
    "id" :> [Row({"src", "dst", "spi"}, "proto" :> 1) EXCEPT !.no = {On({"proto"})}]

xfrm_xfrmproto_is_ro == "id" :> [Row({"src", "dst"}, "proto" :> 1) EXCEPT !.no = {On({"proto"})}]

xfrm_id_info_print == Present({"src", "dst", "proto", "spi", "reqid", "mode"})

(* A mark without a mask has the mask of all ones. *)
xfrm_parse_mark == "mark" :> Row({"mark"}, "mask" :> AllOnes) @@ "mark mask" :> Row({"mark", "mask"}, <<>>)

(* Limits start at infinity for bytes and packets, at zero for times.      *)
xfrm_limits(u, l) == {u \o "-soft", u \o "-hard", l \o "-soft", l \o "-hard"}
xfrm_lft == xfrm_limits("time", "time-use") \cup xfrm_limits("byte", "packet")
xfrm_lifetime_cfg_parse == Arg(xfrm_lft)
xfrm_lft_init == Zero(xfrm_limits("time", "time-use")) @@ AtOnes(xfrm_limits("byte", "packet"))
xfrm_lifetime_print == Present(xfrm_lft)

(* The upper-layer part of a selector: ports have a mask unless they are   *)
(* zero, types, codes and keys always; the words depend on the protocol.   *)
xfrm_upspec == {"sport", "dport", "sport_mask", "dport_mask"}
xfrm_selector_upspec_parse(words) ==
    LET port(x, v) == x \o " " \o v :> Row({}, x :> (IF v = "0" THEN 0 ELSE 1))
        any(w, x)  == w :> Row({x}, x \o "_mask" :> 1)
    IN CASE words = "ports" ->
              port("sport", "0") @@ port("dport", "0")
                  @@ "sport" :> Row({}, "sport" :> 1 @@ "sport_mask" :> 1)
                  @@ "dport" :> Row({}, "dport" :> 1 @@ "dport_mask" :> 1)
         [] words = "types" -> any("type", "sport") @@ any("code", "dport")
         [] words = "key"   -> "key" :> Row({"sport", "dport"}, "sport_mask" :> 1 @@ "dport_mask" :> 1)

xfrm_sel == {"sel src", "sel dst", "sel dev", "sel proto"}
xfrm_selector_parse(words) ==
    [Parser(Zero(xfrm_sel \cup xfrm_upspec), Arg(xfrm_sel) @@ xfrm_selector_upspec_parse(words),
            xfrm_header(xfrm_sel \cup xfrm_upspec))
        EXCEPT !.fresh = TRUE, !.fails = TRUE]     \* words another protocol has, two families

xfrm_selector_print ==
    NonZero({"sel proto", "sel dev"}) @@ Present({"sel src", "sel dst"})
        @@ Shows({"sport", "sport_mask"}, {Seen({}, {"sport_mask"})})
        @@ Shows({"dport", "dport_mask"}, {Seen({}, {"dport_mask"})})

-----------------------------------------------------------------------------
(* Security associations, one table for each kind of protocol; the words   *)
(* all of them treat alike (flags, limits, the selector) are in that of    *)
(* ESP.                                                                    *)
xfrm_state_flags == {"noecn", "decap-dscp", "nopmtudisc", "wildrecv", "icmp", "af-unspec", "align4", "esn"}
xfrm_state_flag_parse == Flags(xfrm_state_flags) @@ Args("flag HEX", xfrm_state_flags)
xfrm_state_extra_flag_parse == Flag("dont-encap-dscp", "extra-flag", 1) @@ Args("extra-flag HEX", {"extra-flag"})
xfrm_offload_dir_parse == Args("offload", {"offload"})
xfrm_seq_parse == Arg({"seq"})

\* One algorithm of a kind; aead stands for encryption and authentication.
xfrm_algos == {"enc", "auth", "auth-trunc", "comp", "aead"}
xfrm_algo_parse ==
    LET not(k, X) == Refusing(Taking(Arg({k}), {1}), {On({x}) : x \in X}) IN
    not("aead", {"enc", "auth", "auth-trunc", "aead"}) @@ not("enc", {"enc", "aead"})
        @@ not("auth", {"auth", "auth-trunc", "aead"}) @@ not("auth-trunc", {"auth", "auth-trunc", "aead"})
        @@ not("comp", {"comp"})

(* The window goes in the header up to 32, beyond it (or with esn) in the  *)
(* replay attribute; without that attribute the high halves go nowhere.    *)
xfrm_esn     == {On({"esn"}), On({"wide"})}
xfrm_not_esn == Off({"esn", "wide"})
xfrm_replay_window ==
    "replay-window" :> Row({"replay-window"}, "wide" :> 0)
        @@ "replay-window > 32" :> Row({}, "replay-window" :> 1 @@ "wide" :> 1)
xfrm_replay_sends ==
    Group("XFRMA_REPLAY_ESN_VAL", xfrm_esn,
          {"replay-seq", "replay-oseq", "replay-seq-hi", "replay-oseq-hi", "replay-window", "wide"})
        \cup Group("XFRMA_REPLAY_VAL", {Cond({x}, {"esn", "wide"}) : x \in {"replay-seq", "replay-oseq"}},
                   {"replay-seq", "replay-oseq"})
        \cup Group("replay_window", {xfrm_not_esn}, {"replay-window", "wide"})

xfrm_alike == xfrm_lft \cup xfrm_sel \cup (xfrm_state_flags \ {"esn"})
xfrm_header_vars(p) == xfrm_id_vars \cup {"mode", "reqid", "seq", "esn"} \cup (IF p = "esp" THEN xfrm_alike ELSE {})

\* What the checks by protocol refuse after the loop.
xfrm_proto_checks(p) ==
    CASE p = "esp"  -> {On({"comp"}), Off({"enc", "aead"}), On({"coa"})}
      [] p = "ah"   -> {On({x}) : x \in {"enc", "aead", "comp", "coa"}} \cup {Off({"auth", "auth-trunc"})}
      [] p = "comp" -> {On({x}) : x \in {"enc", "auth", "auth-trunc", "aead", "coa"}} \cup {Off({"comp"})}
      [] p = "ro"   -> {On({x}) : x \in xfrm_algos} \cup {Off({"mode"}), Off({"coa"})}

xfrm_state_modify(p, needs) ==
    LET header == xfrm_header_vars(p) IN
    [Parser([x \in header |-> IF x \in xfrm_lft THEN xfrm_lft_init[x] ELSE 0] @@ NotGiven(xfrm_algos \cup {"encap", "coa", "ctx", "offload"})
                @@ Zero({"mark", "mask", "replay-seq", "replay-oseq", "replay-seq-hi", "replay-oseq-hi", "replay-window",
                         "wide", "extra-flag"}),
            (IF p = "ro" THEN xfrm_xfrmproto_is_ro ELSE xfrm_id_parse) @@ xfrm_algo_parse @@ xfrm_parse_mark
                @@ xfrm_seq_parse @@ Arg({"mode", "reqid"}) @@ xfrm_replay_window
                @@ Arg({"replay-seq", "replay-oseq", "replay-seq-hi", "replay-oseq-hi", "encap"})
                @@ (IF p = "esp" THEN xfrm_state_flag_parse @@ xfrm_lifetime_cfg_parse @@ Arg(xfrm_sel) ELSE Flags({"esn"}))
                @@ xfrm_state_extra_flag_parse @@ xfrm_offload_dir_parse @@ Once({"coa", "ctx"}),
            xfrm_header(header) \cup xfrm_replay_sends \cup Each(xfrm_algos \cup {"encap", "coa", "ctx", "offload", "extra-flag"})
                \cup Group("XFRMA_MARK", {On({"mask"})}, {"mark", "mask"}))
        EXCEPT !.never = {Off({"proto"}), Cond({"esn"}, {"replay-window"})} \cup xfrm_proto_checks(p),
               !.fails = TRUE,                     \* a mode the protocol has not, a window too large
               !.req = {"id"} \cup needs,
               !.fresh = TRUE,
               !.drops = Drop({xfrm_not_esn}, {"replay-seq-hi", "replay-oseq-hi"})]

xfrm_xfrma_print ==
    Present((xfrm_algos \ {"auth"}) \cup {"encap", "coa", "offload", "mark", "mask"})
        @@ Present({"replay-seq", "replay-oseq", "replay-seq-hi", "replay-oseq-hi", "wide"})
        @@ Present({"auth"})   \* unless there is an auth-trunc, which the parser excludes
        @@ Present({"tmpl"})

xfrm_state_info_print ==
    Printer(xfrm_id_info_print @@ Present({"replay-window", "seq", "ctx"}) @@ NonZero(xfrm_state_flags \cup {"extra-flag"})
                @@ xfrm_xfrma_print @@ xfrm_selector_print @@ xfrm_lifetime_print)

-----------------------------------------------------------------------------
(* The range of SPIs needs both ends; a mark of zero is not sent here.     *)
xfrm_state_allocspi ==
    [Parser(Zero(xfrm_id_vars \cup {"mode", "reqid", "seq", "mark", "mask"}) @@ NotGiven({"min", "max"}),
            "id" :> [Row({"src", "dst"}, "proto" :> 1) EXCEPT !.no = {On({"proto"})}]
                @@ xfrm_parse_mark @@ xfrm_seq_parse @@ Arg({"mode", "reqid"}) @@ Once({"min", "max"}),
            xfrm_header(xfrm_id_vars \cup {"mode", "reqid", "seq", "min", "max"})
                \cup Group("XFRMA_MARK", {On({"mark", "mask"})}, {"mark", "mask"}))
        EXCEPT !.never = {Off({"proto"}), Cond({"min"}, {"max"}), Cond({"max"}, {"min"})},
               !.fails = TRUE,                     \* min above max
               !.fill = {Fill(Off({"min", "max"}), {"min", "max"})},
               !.req = {"id"}, !.fresh = TRUE,
               !.drops = Drop({Off({"mark"})}, {"mask"})]

(* ip xfrm state get and delete: the request that names the association.   *)
(* No check asks for the ID.                                               *)
xfrm_state_get_or_delete ==
    [Parser(Zero(xfrm_id_vars \cup {"mark", "mask"}), xfrm_id_parse @@ xfrm_parse_mark,
            xfrm_header(xfrm_id_vars) \cup Group("XFRMA_SRCADDR", {On({"proto"})}, {"src"})
                \cup Group("XFRMA_MARK", {On({"mark", "mask"})}, {"mark", "mask"}))
        EXCEPT !.fresh = TRUE, !.drops = Drop({Off({"mark"})}, {"mask"})]

\* The kernel answers with the association the request names.
xfrm_state_print == Printer(Present(xfrm_id_vars \cup {"mode", "reqid", "seq", "mark", "mask", "min", "max"}))

-----------------------------------------------------------------------------
xfrm_policy_flag_parse == Flags({"localok", "icmp"}) @@ Args("flag HEX", {"localok", "icmp"})

(* A template: an ID, in which at least the protocol is named.             *)
xfrm_tmpl_parse ==
    [Parser(Zero(xfrm_id_vars \cup {"mode", "reqid", "level"}),
            xfrm_id_parse @@ Arg({"mode", "reqid"}) @@ Flag("level required", "level", 0) @@ Flag("level use", "level", 1),
            xfrm_header(xfrm_id_vars \cup {"mode", "reqid", "level"}))
        EXCEPT !.fresh = TRUE, !.fails = TRUE]

xfrm_tmpl_print == Printer(xfrm_id_info_print @@ Present({"level"}))

xfrm_policy_dir_parse   == Once({"dir"})
xfrm_policy_ptype_parse == Once({"ptype"})
xfrm_sctx_parse         == Once({"ctx"})

xfrm_policy_modify ==
    LET header == {"index", "action", "priority", "localok", "icmp", "dir", "selector"} \cup xfrm_lft IN
    [Parser(Zero((header \ xfrm_lft) \ {"dir", "selector"}) @@ NotGiven({"selector"}) @@ xfrm_lft_init @@ NotGiven({"dir", "ptype", "ctx", "tmpl"}) @@ Zero({"mark", "mask"}),
            xfrm_policy_dir_parse @@ xfrm_policy_ptype_parse @@ xfrm_sctx_parse @@ xfrm_parse_mark
                @@ Arg({"index", "priority", "tmpl"}) @@ Flag("action allow", "action", 0) @@ Flag("action block", "action", 1)
                @@ xfrm_policy_flag_parse @@ xfrm_lifetime_cfg_parse @@ Once({"selector"}),
            xfrm_header(header) \cup Each({"ptype", "tmpl", "ctx"}) \cup Group("XFRMA_MARK", {On({"mask"})}, {"mark", "mask"}))
        EXCEPT !.never = {Off({"dir"})}, !.req = {"dir"}, !.fresh = TRUE,
               !.fails = TRUE]                     \* too many templates

xfrm_policy_info_print ==
    Printer(Present({"selector", "ctx", "dir", "action", "index", "priority", "ptype"}) @@ NonZero({"localok", "icmp"})
                @@ xfrm_lifetime_print @@ xfrm_xfrma_print)

(* A policy is looked up by selector or by index, not by both.             *)
xfrm_policy_get_or_delete ==
    [Parser(NotGiven({"dir", "ptype", "ctx", "index", "selector"}) @@ Zero({"mark", "mask"}),
            xfrm_policy_dir_parse @@ xfrm_policy_ptype_parse @@ xfrm_sctx_parse @@ xfrm_parse_mark @@ Once({"index", "selector"}),
            Each({"ptype", "ctx"}) \cup xfrm_header({"dir", "index", "selector"})
                \cup Group("XFRMA_MARK", {On({"mark", "mask"})}, {"mark", "mask"}))
        EXCEPT !.never = {Off({"dir"}), Off({"index", "selector"}), On({"index", "selector"})},
               !.req = {"dir"}, !.fresh = TRUE, !.drops = Drop({Off({"mark"})}, {"mask"})]

xfrm_policy_print == Printer(Present({"dir", "ptype", "ctx", "index", "selector", "mark", "mask"}))

xfrm_spd_setinfo ==
    LET thr(k) == [Row({k \o " lbits", k \o " rbits"}, <<>>) EXCEPT !.no = {On({k \o " lbits"})}] IN
    Parser(NotGiven({k \o s : k \in {"hthresh4", "hthresh6"}, s \in {" lbits", " rbits"}}),
           [k \in {"hthresh4", "hthresh6"} |-> thr(k)],
           UNION {Group(k, {On({k \o " lbits"})}, {k \o " lbits", k \o " rbits"}) : k \in {"hthresh4", "hthresh6"}})

print_spdinfo == Printer(Present({k \o s : k \in {"hthresh4", "hthresh6"}, s \in {" lbits", " rbits"}}))

Xfrm == "xfrm_esp" :> Tool(xfrm_state_modify("esp", {"enc"}), xfrm_state_info_print)
    @@ "xfrm_ah" :> Tool(xfrm_state_modify("ah", {"auth"}), xfrm_state_info_print)
    @@ "xfrm_comp" :> Tool(xfrm_state_modify("comp", {"comp"}), xfrm_state_info_print)
    @@ "xfrm_ro" :> Tool(xfrm_state_modify("ro", {"mode", "coa"}), xfrm_state_info_print)
    @@ "xfrm_allocspi" :> Tool(xfrm_state_allocspi, xfrm_state_print)
    @@ "xfrm_state_id" :> Tool(xfrm_state_get_or_delete, xfrm_state_print)
    @@ "xfrm_tmpl" :> Tool(xfrm_tmpl_parse, xfrm_tmpl_print)
    @@ "xfrm_ports" :> Tool(xfrm_selector_parse("ports"), Printer(xfrm_selector_print))
    @@ "xfrm_types" :> Tool(xfrm_selector_parse("types"), Printer(xfrm_selector_print))
    @@ "xfrm_key" :> Tool(xfrm_selector_parse("key"), Printer(xfrm_selector_print))
    @@ "xfrm_policy" :> Tool(xfrm_policy_modify, xfrm_policy_info_print)
    @@ "xfrm_policy_id" :> Tool(xfrm_policy_get_or_delete, xfrm_policy_print)
    @@ "spd" :> Tool(xfrm_spd_setinfo, print_spdinfo)
=============================================================================
