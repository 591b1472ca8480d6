--------------------------- MODULE DevlinkOptions ---------------------------
(***************************************************************************)
(* The commands of devlink that change something, as option tables         *)
(* (devlink/devlink.c).  They share one parser: dl_argv_parse is told      *)
(* which words a command must have and which it may have, dl_opts_put adds *)
(* an attribute for every word it found.                                   *)
(***************************************************************************)
EXTENDS OptionTables

\* The device, or the port of a device, comes first and only once.
dl_argv_handle == Taking(Once({"dev"}), {1})

\* A word the command does not know ends it.
dl_argv_words(X) == dl_argv_handle @@ Arg(X)

(* Every word that must be there is looked for after the loop, except      *)
(* those of a resource: without a size none is sent, without a path the    *)
(* command dies looking for it.                                            *)
dl_argv_required(X) == {Off({x}) : x \in (X \cup {"dev"}) \ {"resource size"}}

dl_opts_put(X) == Each(X) \cup Whole("DEVLINK_ATTR_DEV_NAME", {"dev"})

\* The shared buffer is number 0 when the word is left out.
dl_argv_parse(required, optional) ==
    LET X == required \cup optional IN
    [Parser(NotGiven(X \cup {"dev"}), dl_argv_words(X), dl_opts_put(X))
        EXCEPT !.never = dl_argv_required(required), !.req = required \cup {"dev"},
               !.fill = IF "sb" \in optional THEN {FillZero(Off({"sb"}), {"sb"})} ELSE {},
               !.resets = {"sb"} \cap optional,
               !.fails = TRUE]

\* The command must change something.
cmd_dev_eswitch_set ==
    LET X == {"mode", "inline-mode", "encap"}
        p == dl_argv_parse({}, X) IN
    [p EXCEPT !.never = @ \cup {Off(X)}]
pr_out_eswitch == Printer(Present({"dev", "mode", "inline-mode", "encap"}))

cmd_port_set     == dl_argv_parse({"port type"}, {})
cmd_port_split   == dl_argv_parse({"count"}, {})
cmd_port_unsplit == dl_argv_parse({}, {})
\* How many ports it was split into is not shown, only their group.
pr_out_port == Hiding(Printer(Present({"dev", "port type"})), {"count"})

cmd_sb_pool_set      == dl_argv_parse({"pool", "size", "thtype"}, {"sb"})
cmd_sb_port_pool_set == dl_argv_parse({"pool", "th"}, {"sb"})
cmd_sb_tc_bind_set   == dl_argv_parse({"tc", "type", "pool", "th"}, {"sb"})
pr_out_sb_pool       == Printer(Present({"dev", "sb", "pool", "size", "thtype"}))
pr_out_sb_port_pool  == Printer(Present({"dev", "sb", "pool", "th"}))
pr_out_sb_tc_bind    == Printer(Present({"dev", "sb", "tc", "type", "pool", "th"}))

cmd_sb_occ_snapshot == dl_argv_parse({}, {"sb"})
cmd_sb_occ_clearmax == dl_argv_parse({}, {"sb"})
pr_out_sb           == Printer(Present({"dev", "sb"}))

cmd_dpipe_table_set == dl_argv_parse({"name", "counters"}, {})
dpipe_table_show    == Printer(Present({"dev", "name", "counters"}))

\* The path is looked up in a dump taken for it; the request holds its number.
resource_path_parse == {"path"}
cmd_resource_set == dl_argv_parse(resource_path_parse \cup {"resource size"}, {})
resource_show    == Printer(Present({"dev", "path", "resource size"}))

Devlink == "eswitch" :> Tool(cmd_dev_eswitch_set, pr_out_eswitch)
    @@ "devlink_port" :> Tool(cmd_port_set, pr_out_port)
    @@ "split" :> Tool(cmd_port_split, pr_out_port)
    @@ "unsplit" :> Tool(cmd_port_unsplit, pr_out_port)
    @@ "sb_pool" :> Tool(cmd_sb_pool_set, pr_out_sb_pool)
    @@ "sb_port_pool" :> Tool(cmd_sb_port_pool_set, pr_out_sb_port_pool)
    @@ "sb_tc_bind" :> Tool(cmd_sb_tc_bind_set, pr_out_sb_tc_bind)
    @@ "snapshot" :> Tool(cmd_sb_occ_snapshot, pr_out_sb)
    @@ "clearmax" :> Tool(cmd_sb_occ_clearmax, pr_out_sb)
    @@ "dpipe_table" :> Tool(cmd_dpipe_table_set, dpipe_table_show)
    @@ "resource" :> Tool(cmd_resource_set, resource_show)
=============================================================================
