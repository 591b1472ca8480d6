---------------------------- MODULE QdiscOptions ----------------------------
(***************************************************************************)
(* The queueing disciplines of tc (tc/q_*.c): one table per parse_qopt,    *)
(* parse_copt and print function.  Printers are taken with -d.             *)
(***************************************************************************)
EXTENDS OptionTables

(* The class is carried by a socket the parser opens, binds and connects.  *)
atm_parse_class_opt ==
    [Parser(NotGiven({"addr", "hdr"}) @@ AtDflt({"qos", "sap"}) @@ Zero({"svc", "sndbuf", "excess", "clip"}),
            "pvc" :> Row({"addr"}, "svc" :> 0) @@ "svc" :> Row({"addr"}, "svc" :> 1)
              @@ Arg({"qos", "sndbuf", "hdr", "excess"}) @@ Flags({"clip"})
              @@ Refusing(Arg({"sap"}), {Off({"svc"})}),
            Whole("TCA_ATM_FD", {"addr", "svc", "qos", "sap", "sndbuf", "clip"}) \cup Each({"excess", "hdr"}))
     EXCEPT !.never = {Off({"addr"})}, !.fails = TRUE, !.req = {"pvc"}]
atm_print_opt == Hiding(Printer(Present({"addr", "hdr", "excess"})), {"qos", "sap", "svc", "sndbuf", "clip"})

cbq_parse_opt ==
    [Parser(Zero({"rate", "avpkt", "mpu", "allot", "overhead"}) @@ AtOnes({"ewma"}) @@ NotGiven({"cell"}) @@ AtDflt({"linklayer"}),
            Arg({"rate", "ewma", "cell", "avpkt", "mpu", "allot", "overhead", "linklayer"}),
            Whole("TCA_CBQ_RATE", {"rate", "mpu", "overhead", "cell", "allot", "linklayer"})
              \cup Whole("TCA_CBQ_LSSOPT", {"ewma", "avpkt"}))
     EXCEPT !.never = {Off({"rate"}), Off({"avpkt"})}, !.req = {"rate", "avpkt"}, !.fails = TRUE,
            !.fill = {Fill(Off({"ewma"}), {"ewma"}), Fill(Off({"allot"}), {"allot"})}]

CbqLss == {"minidle", "minburst", "maxburst", "bounded", "isolated", "ewma", "avpkt"}
cbq_class_opts ==
    Arg({"rate", "bandwidth", "cell", "allot", "mpu", "overhead", "linklayer"})
      @@ Marking(Arg({"minidle", "ewma", "avpkt"}), {"change"})
      @@ Marking(Arg({"minburst", "maxburst"}), {"change", "burst"})
      @@ Marking(Flag("bounded", "bounded", 1) @@ Flag("borrow", "bounded", 0)
                   @@ Flag("isolated", "isolated", 1) @@ Flag("sharing", "isolated", 0), {"change"})
      @@ Marking(Taking(Arg({"prio"}), {0, 1}) @@ Arg({"weight"}), {"wrr_ok"})
      @@ Marking(Arg({"split", "defmap"}), {"fopt_ok"})
cbq_parse_class_opt ==
    [Parser(Zero({"rate", "bandwidth", "allot", "mpu", "overhead", "prio", "weight", "split", "defmap"}
                   \cup (CbqLss \ {"ewma"}))
              @@ AtOnes({"ewma"}) @@ NotGiven({"cell"}) @@ AtDflt({"linklayer"}),
            cbq_class_opts,
            Group("TCA_CBQ_LSSOPT", {On({"change"})}, CbqLss \cup {"bandwidth"})
              \cup Group("TCA_CBQ_WRROPT", {On({"wrr_ok"}), Cond({"NLM_F_EXCL"}, {"prio"})}, {"prio", "allot", "weight"})
              \cup Group("TCA_CBQ_FOPT", {On({"fopt_ok"})}, {"split", "defmap"})
              \cup Group("TCA_CBQ_RATE", {On({"rate"})}, {"rate", "mpu", "overhead", "cell", "linklayer"}))
     EXCEPT !.never = {Cond({"burst"}, {"avpkt"}), Cond({"burst"}, {"bandwidth"}), Cond({"burst"}, {"rate"}),
                       Cond({"wrr_ok"}, {"allot", "avpkt"}), Cond({"wrr_ok", "prio"}, {"allot", "rate"}),
                       Cond({"wrr_ok"}, {"allot", "rate", "prio", "NLM_F_EXCL"}),
                       Cond({"NLM_F_EXCL"}, {"prio", "allot", "avpkt"})},
            !.fill = {Fill(Off({"ewma"}), {"ewma"}), Fill(Cond({"NLM_F_EXCL"}, {"prio"}), {"prio"}),
                      Fill(Cond({"avpkt"}, {"allot"}), {"allot"}), Fill(Off({"weight"}), {"weight"})},
            !.req = {"rate", "avpkt", "allot"}, !.fails = TRUE,
            !.lost = {"bandwidth", "allot", "mpu", "overhead", "cell", "linklayer"}]
cbq_print_opt ==
    [Printer(Present({"rate", "cell", "prio", "ewma", "avpkt", "split"}) @@ NonZero({"linklayer", "mpu", "overhead", "bounded", "isolated"})
               @@ NonZero({"weight", "allot", "maxburst", "minidle", "minburst", "defmap"}))
     EXCEPT !.hides = {"weight", "bandwidth"}]

cbs_parse_opt ==
    Parser(Zero({"offload", "hicredit", "locredit", "sendslope", "idleslope"}),
           Once({"offload", "hicredit", "locredit", "sendslope", "idleslope"}),
           Whole("TCA_CBS_PARMS", {"offload", "hicredit", "locredit", "sendslope", "idleslope"}))
cbs_print_opt == Printer(Present({"offload", "hicredit", "locredit", "sendslope", "idleslope"}))

choke_parse_opt ==
    [Parser(Zero({"limit", "bandwidth", "min", "max", "burst", "ecn"}) @@ AtDflt({"avpkt", "probability"}),
            Arg({"limit", "bandwidth", "min", "max", "burst", "avpkt", "probability"}) @@ Flags({"ecn"}),
            Whole("TCA_CHOKE_PARMS", {"limit", "min", "max", "burst", "avpkt", "ecn"})
              \cup Whole("TCA_CHOKE_STAB", {"bandwidth"}) \cup Whole("TCA_CHOKE_MAX_P", {"probability"}))
     EXCEPT !.never = {Off({"bandwidth"}), Off({"limit"})}, !.req = {"bandwidth", "limit"}, !.fails = TRUE,
            !.fill = {Fill(Off({x}), {x}) : x \in {"min", "max", "burst"}}]
choke_print_opt ==
    Hiding(Printer(Present({"limit", "min", "max"}) @@ NonZero({"ecn", "probability"})), {"avpkt", "bandwidth", "burst"})

codel_parse_opt ==
    Parser(Zero({"limit", "target", "interval"}) @@ AtOnes({"ce_threshold"}) @@ NotGiven({"ecn"}),
           Arg({"limit", "target", "interval", "ce_threshold"}) @@ Flag("ecn", "ecn", 1) @@ Flag("noecn", "ecn", 0),
           Each({"limit", "target", "interval", "ce_threshold", "ecn"}))
codel_print_opt == Printer(Present({"limit", "target", "ce_threshold", "interval"}) @@ NonZero({"ecn"}))

(* The qdisc takes no option; the class sends each quantum as it is read.  *)
drr_parse_class_opt == Parser(NotGiven({"quantum"}), Arg({"quantum"}), Each({"quantum"}))
drr_print_opt == Printer(Present({"quantum"}))

dsmark_parse_opt ==
    [Parser(Zero({"indices", "set_tc_index"}) @@ AtOnes({"default_index"}),
            Arg({"indices", "default_index"}) @@ Flags({"set_tc_index"}),
            Whole("TCA_DSMARK_INDICES", {"indices"}) \cup Each({"default_index", "set_tc_index"}))
     EXCEPT !.never = {Off({"indices"})}, !.req = {"indices"}]
dsmark_parse_class_opt == Parser(NotGiven({"mask", "value"}), Arg({"mask", "value"}), Each({"mask", "value"}))
dsmark_print_opt == Printer(Present({"mask", "value", "indices", "default_index", "set_tc_index"}))

fifo_parse_opt == Parser(NotGiven({"limit"}), Arg({"limit"}), Each({"limit"}))
fifo_print_opt == Printer(Present({"limit"}))

FqSet == {"limit", "flow_limit", "maxrate", "low_rate_threshold", "defrate", "quantum", "initial_quantum",
          "orphan_mask", "refill_delay"}
fq_parse_opt ==
    Parser(NotGiven(FqSet \cup {"pacing"}) @@ Zero({"buckets"}),
           Arg(FqSet \cup {"buckets"}) @@ Flag("pacing", "pacing", 1) @@ Flag("nopacing", "pacing", 0),
           Each(FqSet \cup {"pacing", "buckets"}))
fq_print_opt ==
    Hiding(Printer(Present({"limit", "flow_limit", "buckets", "orphan_mask", "quantum", "initial_quantum", "maxrate", "refill_delay"})
                     @@ NonZero({"defrate", "low_rate_threshold"})), {"pacing"})

fq_codel_parse_opt ==
    Parser(Zero({"limit", "flows", "quantum", "target", "interval"}) @@ AtOnes({"ce_threshold", "memory_limit"}) @@ NotGiven({"ecn"}),
           Arg({"limit", "flows", "quantum", "target", "ce_threshold", "memory_limit", "interval"})
             @@ Flag("ecn", "ecn", 1) @@ Flag("noecn", "ecn", 0),
           Each({"limit", "flows", "quantum", "target", "interval", "ce_threshold", "memory_limit", "ecn"}))
fq_codel_print_opt ==
    Printer(Present({"limit", "flows", "quantum", "target", "ce_threshold", "interval", "memory_limit"}) @@ NonZero({"ecn"}))

(* "gred setup": the default queue can only be named after their number.   *)
init_gred ==
    [Parser(Zero({"vqs", "grio", "limit"}) @@ AtDflt({"default"}),
            Taking(Arg({"vqs"}), {0, 1}) @@ Refusing(Arg({"default"}), {Off({"vqs"})}) @@ Flags({"grio"}) @@ Arg({"limit"}),
            Whole("TCA_GRED_DPS", {"vqs", "default", "grio"}) \cup Each({"limit"}))
     EXCEPT !.never = {Off({"vqs"}), Off({"default"})}, !.req = {"vqs", "default"}]
gred_parse_opt ==
    [Parser(Zero({"limit", "min", "max", "burst", "avpkt", "prio", "bandwidth"}) @@ AtDflt({"DP", "probability"}),
            Arg({"limit", "min", "max", "DP", "burst", "avpkt", "probability", "prio", "bandwidth"}),
            Whole("TCA_GRED_PARMS", {"DP", "limit", "min", "max", "prio", "burst", "avpkt"})
              \cup Whole("TCA_GRED_STAB", {"bandwidth"}) \cup Whole("TCA_GRED_MAX_P", {"probability"}))
     EXCEPT !.never = {Off({x}) : x \in {"DP", "limit", "min", "max", "avpkt"}}, !.fails = TRUE,
            !.req = {"DP", "limit", "min", "max", "avpkt"},
            !.fill = {Fill(Off({"burst"}), {"burst"}), Fill(Off({"bandwidth"}), {"bandwidth"})}]
gred_print_opt ==
    Hiding(Printer(Present({"vqs", "default", "DP", "prio", "limit", "min", "max", "probability"}) @@ NonZero({"grio"})),
           {"avpkt", "bandwidth", "burst"})

hfsc_parse_opt == Parser(Zero({"default"}), Once({"default"}), Whole("TCA_OPTIONS", {"default"}))
hfsc_print_opt == Printer(NonZero({"default"}))
(* A service curve is m1 d m2 or umax dmax rate; two zero slopes are       *)
(* refused.  "sc" stores one curve in both.                                *)
hfsc_get_sc(k, X) == Taking(Args(k, X), {1})
hfsc_parse_class_opt ==
    [Parser(NotGiven({"rt", "ls", "ul"}),
            hfsc_get_sc("rt", {"rt"}) @@ hfsc_get_sc("ls", {"ls"}) @@ hfsc_get_sc("sc", {"rt", "ls"}) @@ hfsc_get_sc("ul", {"ul"}),
            Each({"rt", "ls", "ul"}))
     EXCEPT !.never = {Off({"rt", "ls", "ul"}), Cond({"ul"}, {"ls"})}, !.req = {"ls"}]
hfsc_print_class_opt == Printer(Present({"rt", "ls", "ul"}))

HhfVars == {"limit", "quantum", "hh_limit", "reset_timeout", "admit_bytes", "evict_timeout", "non_hh_weight"}
hhf_parse_opt == Parser(Zero(HhfVars), Arg(HhfVars), Each(HhfVars))
hhf_print_opt == Printer(Present(HhfVars))

htb_parse_opt ==
    Parser(AtDflt({"r2q"}) @@ Zero({"default", "debug"}) @@ AtOnes({"direct_qlen"}),
           Arg({"r2q", "default", "debug", "direct_qlen"}),
           Whole("TCA_HTB_INIT", {"r2q", "default", "debug"}) \cup Each({"direct_qlen"}))
(* Without ceil the ceiling is the rate; without a burst it is computed.   *)
htb_parse_class_opt ==
    [Parser(Zero({"prio", "mpu", "overhead", "quantum", "burst", "cburst", "ceil", "rate"}) @@ AtDflt({"mtu", "linklayer"}),
            Arg({"prio", "mtu", "mpu", "overhead", "linklayer", "quantum", "burst", "cburst"}) @@ Once({"ceil", "rate"}),
            Whole("TCA_HTB_PARMS", {"prio", "quantum", "rate", "ceil", "overhead", "mpu", "burst", "cburst"})
              \cup Whole("TCA_HTB_RTAB", {"mtu", "linklayer"}))
     EXCEPT !.never = {Off({"rate"})}, !.req = {"rate"}, !.fails = TRUE,
            !.fill = {Fill(Off({x}), {x}) : x \in {"ceil", "burst", "cburst"}}]
htb_print_opt ==
    Hiding(Printer(Present({"prio", "quantum", "rate", "ceil", "burst", "cburst", "mpu", "r2q", "default", "direct_qlen"})
                     @@ NonZero({"overhead", "linklayer"})), {"debug", "mtu"})

(* mode and shaper are words of the loop only while hw is not 0; the       *)
(* rates only while the last shaper named is bw_rlimit.  The flags they    *)
(* raise stay raised.                                                      *)
mqprio_opts ==
    Arg({"num_tc", "map", "queues", "hw"})
      @@ Refusing(Flag("mode dcb", "mode", 0) @@ Marking(Flag("mode channel", "mode", 1), {"F_MODE"})
                    @@ Flag("shaper dcb", "shaper", 0) @@ Marking(Flag("shaper bw_rlimit", "shaper", 1), {"F_SHAPER"}),
                  {On({"hw"})})
      @@ Refusing(Arg({"min_rate", "max_rate"}), {Off({"shaper"})})
mqprio_parse_opt ==
    Parser(AtDflt({"num_tc", "map"}) @@ Zero({"queues", "mode", "shaper"}) @@ ("hw" :> 1) @@ NotGiven({"min_rate", "max_rate"}),
           mqprio_opts,
           Whole("TCA_OPTIONS", {"num_tc", "map", "queues", "hw"}) \cup Each({"min_rate", "max_rate"})
             \cup Group("TCA_MQPRIO_MODE", {On({"F_MODE"})}, {"mode"}) \cup Group("TCA_MQPRIO_SHAPER", {On({"F_SHAPER"})}, {"shaper"}))
mqprio_print_opt ==
    Hiding(Printer(Present({"num_tc", "map", "queues", "min_rate", "max_rate"}) @@ NonZero({"mode", "shaper"})), {"hw"})

(* A delay may be followed by a jitter and its correlation, a probability  *)
(* by its correlation.  The correlation of "duplicate" does not raise the  *)
(* flag under which the correlations are sent; those of "reorder" and      *)
(* "corrupt", which are sent elsewhere, do.                                *)
netem_loss_opts ==
    Args("delay", {"delay"}) @@ Args("delay jitter", {"delay", "jitter"})
      @@ Marking(Args("delay jitter corr", {"delay", "jitter", "delay_corr"}), {"corr"})
      @@ Refusing(Args("loss", {"loss"}) @@ Marking(Args("loss corr", {"loss", "loss_corr"}), {"corr"})
                    @@ Args("loss state", {"gimodel"}) @@ Args("loss gemodel", {"gemodel"}),
                  {On({"loss"}), On({"gimodel"}), On({"gemodel"})})
netem_opts ==
    Arg({"limit", "gap", "duplicate", "distribution"}) @@ netem_loss_opts @@ Flags({"ecn"})
      @@ Marking(Args("reorder", {"reorder"}), {"reorder_set"}) @@ Marking(Args("reorder corr", {"reorder", "reorder_corr"}), {"reorder_set", "corr"})
      @@ Marking(Args("corrupt", {"corrupt"}), {"corrupt_set"}) @@ Marking(Args("corrupt corr", {"corrupt", "corrupt_corr"}), {"corrupt_set", "corr"})
      @@ Args("duplicate corr", {"duplicate", "dup_corr"})
      @@ Args("rate", {"rate"}) @@ Args("rate overheads", {"rate", "packetoverhead", "cellsize", "celloverhead"})
netem_parse_opt ==
    [Parser(AtDflt({"limit"}) @@ NotGiven({"gimodel", "gemodel", "ecn", "distribution", "rate"})
              @@ Zero({"delay", "jitter", "delay_corr", "loss", "loss_corr", "reorder", "reorder_corr", "corrupt", "corrupt_corr",
                       "gap", "duplicate", "dup_corr", "packetoverhead", "cellsize", "celloverhead"}),
            netem_opts,
            Whole("TCA_OPTIONS", {"limit", "delay", "jitter", "loss", "gap", "duplicate"})
              \cup Group("TCA_NETEM_CORR", {On({"corr"})}, {"delay_corr", "loss_corr", "dup_corr"})
              \cup Group("TCA_NETEM_REORDER", {On({"reorder_set"})}, {"reorder", "reorder_corr"})
              \cup Group("TCA_NETEM_CORRUPT", {On({"corrupt_set"})}, {"corrupt", "corrupt_corr"})
              \cup Group("TCA_NETEM_RATE", {On({"rate"})}, {"rate", "packetoverhead", "cellsize", "celloverhead"})
              \cup Each({"ecn", "gimodel", "gemodel", "distribution"}))
     EXCEPT !.never = {Cond({"reorder"}, {"delay"}), Cond({"gap"}, {"reorder"}), Cond({"ecn"}, {"loss", "gimodel", "gemodel"}),
                       Cond({"distribution"}, {"delay"}), Cond({"distribution"}, {"jitter"})},
            !.fill = {Fill(Cond({"reorder"}, {"gap"}), {"gap"})}, !.lost = {"dup_corr"},
            !.resets = {"delay_corr", "loss_corr", "dup_corr"}]
netem_print_opt ==
    [Printer(Present({"limit", "gimodel", "gemodel", "ecn"}) @@ NonZero({"delay", "loss", "duplicate", "reorder", "corrupt", "rate", "gap"})
               @@ Shows({"jitter"}, {Seen({}, {"delay", "jitter"})})
               @@ Shows({"delay_corr"}, {Seen({}, {"delay", "jitter", "delay_corr"})})
               @@ [x \in {"loss_corr"} |-> {Seen({}, {"loss", x})}] @@ [x \in {"dup_corr"} |-> {Seen({}, {"duplicate", x})}]
               @@ [x \in {"reorder_corr"} |-> {Seen({}, {"reorder", x})}] @@ [x \in {"corrupt_corr"} |-> {Seen({}, {"corrupt", x})}]
               @@ [x \in {"packetoverhead", "cellsize", "celloverhead"} |-> {Seen({}, {"rate", x})}])
     EXCEPT !.hides = {"jitter", "delay_corr", "loss_corr", "dup_corr", "reorder_corr", "corrupt_corr", "packetoverhead", "cellsize", "celloverhead", "distribution"}]

pie_parse_opt ==
    Parser(Zero({"limit", "target", "tupdate", "alpha", "beta"}) @@ NotGiven({"ecn", "bytemode"}),
           Arg({"limit", "target", "tupdate"}) @@ Taking(Arg({"alpha", "beta"}), {0, 1})
             @@ Flag("ecn", "ecn", 1) @@ Flag("noecn", "ecn", 0) @@ Flag("bytemode", "bytemode", 1) @@ Flag("nobytemode", "bytemode", 0),
           Each({"limit", "target", "tupdate", "alpha", "beta", "ecn", "bytemode"}))
pie_print_opt == Printer(Present({"limit", "target", "tupdate", "alpha", "beta"}) @@ NonZero({"ecn", "bytemode"}))

(* After "priomap" every word that is no keyword is an element of the map. *)
prio_parse_opt ==
    Parser(AtDflt({"bands", "map"}) @@ NotGiven({"multiqueue"}),
           Arg({"bands"}) @@ ("priomap" :> [Row({}, <<>>) EXCEPT !.marks = {"pmap_mode"}, !.no = {On({"pmap_mode"})}])
             @@ Refusing(Args("band", {"map"}), {Off({"pmap_mode"})}) @@ Flags({"multiqueue"}),
           Whole("TCA_OPTIONS", {"bands", "map"}) \cup Each({"multiqueue"}))
prio_print_opt == Printer(Present({"bands", "map", "multiqueue"}))
rr_parse_opt == prio_parse_opt
rr_print_opt == Printer(Present({"bands", "map", "multiqueue"}))

(* Mutant: the attribute of maxpkt is not added                            *)
qfq_parse_no_maxpkt == Parser(NotGiven({"weight", "maxpkt"}), Arg({"weight", "maxpkt"}), Each({"weight"}))
qfq_parse_class_opt == Parser(NotGiven({"weight", "maxpkt"}), Arg({"weight", "maxpkt"}), Each({"weight", "maxpkt"}))
qfq_print_opt == Printer(Present({"weight", "maxpkt"}))

red_parse_opt ==
    [Parser(Zero({"limit", "min", "max", "burst", "avpkt", "bandwidth", "ecn", "harddrop", "adaptive"}) @@ AtDflt({"probability"}),
            Arg({"limit", "min", "max", "burst", "avpkt", "probability", "bandwidth"}) @@ Flags({"ecn", "harddrop", "adaptive"}),
            Whole("TCA_RED_PARMS", {"limit", "min", "max", "burst", "avpkt", "ecn", "harddrop", "adaptive"})
              \cup Whole("TCA_RED_STAB", {"bandwidth"}) \cup Whole("TCA_RED_MAX_P", {"probability"}))
     EXCEPT !.never = {Off({"limit"}), Off({"avpkt"})}, !.req = {"limit", "avpkt"}, !.fails = TRUE,
            !.fill = {Fill(Off({x}), {x}) : x \in {"min", "max", "burst", "bandwidth"}}]
red_print_opt ==
    Hiding(Printer(Present({"limit", "min", "max", "ecn", "harddrop", "adaptive"}) @@ NonZero({"probability"})),
           {"avpkt", "bandwidth", "burst"})

SfbVars == {"rehash", "db", "limit", "max", "target", "increment", "decrement", "penalty_rate", "penalty_burst"}
sfb_parse_opt ==
    [Parser(Zero({"limit", "max", "target"}) @@ AtDflt(SfbVars \ {"limit", "max", "target"}), Arg(SfbVars), Whole("TCA_SFB_PARMS", SfbVars))
     EXCEPT !.fill = {Fill(Off({"max"}), {"max"}), Fill(Off({"target"}), {"target"})}]
(* Mutant: the limit is not printed                                        *)
sfb_print_no_limit == Printer(Present(SfbVars \ {"limit"}))
sfb_print_opt == Printer(Present(SfbVars))

(* Without any option nothing is sent; one of the red options makes        *)
(* redflowlimit mandatory.                                                 *)
SfqRed == {"redflowlimit", "min", "max", "burst", "ecn", "harddrop"}
sfq_parse_opt ==
    [Parser(Zero({"quantum", "perturb", "limit", "divisor", "flows", "depth", "headdrop"} \cup SfqRed) @@ AtDflt({"avpkt", "probability"}),
            Marking(Arg({"quantum", "perturb", "divisor", "flows", "depth"}) @@ Taking(Arg({"limit"}), {1}) @@ Flags({"headdrop"}), {"ok"})
              @@ Marking(Arg({"redflowlimit", "min", "max", "burst", "avpkt", "probability"}) @@ Flags({"ecn", "harddrop"}), {"red"}),
            Group("TCA_OPTIONS", {On({"ok"}), On({"red"})},
                  {"quantum", "perturb", "limit", "divisor", "flows", "depth", "headdrop", "avpkt", "probability"} \cup SfqRed))
     EXCEPT !.never = {Cond({"red"}, {"redflowlimit"})}, !.fails = TRUE,
            !.fill = {Fill(Cond({"red"}, {x}), {x}) : x \in {"min", "max", "burst"}}]
sfq_print_opt ==
    [Printer(Present({"limit", "quantum", "flows", "divisor"}) @@ NonZero({"depth", "headdrop", "perturb"})
               @@ [x \in {"min", "max", "probability", "ecn"} |-> {Seen({}, {"min", x})}])
     EXCEPT !.hides = {"probability", "avpkt", "burst", "harddrop", "redflowlimit"}]

tbf_opts ==
    Refusing(Once({"limit", "latency"}), {On({"limit"}), On({"latency"})})
      @@ Once({"burst", "mtu", "mpu", "rate", "peakrate", "overhead"}) @@ Arg({"linklayer"})
tbf_parse_opt ==
    [Parser(Zero({"limit", "latency", "burst", "mtu", "mpu", "rate", "peakrate", "overhead"}) @@ AtDflt({"linklayer"}), tbf_opts,
            Whole("TCA_TBF_PARMS", {"rate", "peakrate", "limit", "latency", "mpu", "overhead"}) \cup Whole("TCA_TBF_BURST", {"burst"})
              \cup Whole("TCA_TBF_RTAB", {"mtu", "linklayer"}) \cup Group("TCA_TBF_PBURST", {On({"peakrate"})}, {"mtu"}))
     EXCEPT !.never = {Off({"rate"}), Off({"burst"}), Cond({"peakrate"}, {"mtu"}), Off({"limit", "latency"})},
            !.req = {"rate", "burst", "latency"}, !.fails = TRUE, !.fill = {Fill(Off({"limit"}), {"limit"})}]
tbf_print_opt ==
    [Printer(Present({"rate", "burst", "mpu", "latency"}) @@ NonZero({"peakrate", "overhead", "linklayer"})
               @@ Shows({"mtu"}, {Seen({}, {"peakrate", "mtu"})}))
     EXCEPT !.hides = {"mtu", "limit"}]

Qdiscs ==
    "atm class" :> Tool(atm_parse_class_opt, atm_print_opt) @@ "cbq" :> Tool(cbq_parse_opt, cbq_print_opt)
      @@ "cbq class" :> Tool(cbq_parse_class_opt, cbq_print_opt) @@ "cbs" :> Tool(cbs_parse_opt, cbs_print_opt)
      @@ "choke" :> Tool(choke_parse_opt, choke_print_opt) @@ "codel" :> Tool(codel_parse_opt, codel_print_opt)
      @@ "drr class" :> Tool(drr_parse_class_opt, drr_print_opt) @@ "dsmark" :> Tool(dsmark_parse_opt, dsmark_print_opt)
      @@ "dsmark class" :> Tool(dsmark_parse_class_opt, dsmark_print_opt) @@ "fifo" :> Tool(fifo_parse_opt, fifo_print_opt)
      @@ "fq" :> Tool(fq_parse_opt, fq_print_opt) @@ "fq_codel" :> Tool(fq_codel_parse_opt, fq_codel_print_opt)
      @@ "gred setup" :> Tool(init_gred, gred_print_opt) @@ "gred" :> Tool(gred_parse_opt, gred_print_opt)
      @@ "hfsc" :> Tool(hfsc_parse_opt, hfsc_print_opt) @@ "hfsc class" :> Tool(hfsc_parse_class_opt, hfsc_print_class_opt)
      @@ "hhf" :> Tool(hhf_parse_opt, hhf_print_opt) @@ "htb" :> Tool(htb_parse_opt, htb_print_opt)
      @@ "htb class" :> Tool(htb_parse_class_opt, htb_print_opt) @@ "mqprio" :> Tool(mqprio_parse_opt, mqprio_print_opt)
      @@ "netem" :> Tool(netem_parse_opt, netem_print_opt) @@ "pie" :> Tool(pie_parse_opt, pie_print_opt)
      @@ "prio" :> Tool(prio_parse_opt, prio_print_opt) @@ "qfq class" :> Tool(qfq_parse_class_opt, qfq_print_opt)
      @@ "red" :> Tool(red_parse_opt, red_print_opt) @@ "rr" :> Tool(rr_parse_opt, rr_print_opt)
      @@ "sfb" :> Tool(sfb_parse_opt, sfb_print_opt) @@ "sfq" :> Tool(sfq_parse_opt, sfq_print_opt)
      @@ "tbf" :> Tool(tbf_parse_opt, tbf_print_opt)
=============================================================================
