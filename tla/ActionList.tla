----------------------------- MODULE ActionList -----------------------------
(***************************************************************************)
(* tc actions (tc/m_action.c): a line of commands (add, delete), each with *)
(* a list of actions.  do_action() goes from command to command; add hands *)
(* its words to parse_action(), which fills the message of that command up *)
(* to the next command word, and delete to tc_action_gd(), which takes the *)
(* rest of the line.  An action's own options are in ActionOptions.tla and *)
(* are left out here: an action is its kind and a cookie, or an index.     *)
(*                                                                         *)
(* trial.line are the words so far; ok, eap, cookie, kind and acts are the *)
(* variables of the parsers, sent are the messages the kernel got.  A line *)
(* of a batch that begins with add leaves its message in buf, to go out    *)
(* with those of other lines.                                              *)
(***************************************************************************)
EXTENDS Integers, Sequences, SequencesExt, Trial

CONSTANT MaxLine       \* words of a line

ActionKinds == {"gact", "mirred"}
ActionWords == ActionKinds \cup {"add", "delete", "action", "cookie1", "cookie2", "index", "flowid", "nokind"}
CookieWords == {"cookie1", "cookie2"}

new_cmd(w) == w \in {"add", "delete"}

Acting(p) == trial.of = "actions" /\ trial.pc = p /\ Len(trial.line) < MaxLine
Read(t, w) == [t EXCEPT !.line = Append(@, w)]
Failed(t) == [t EXCEPT !.pc = "failed"]

\* tc_action_modify() and tc_action_gd() begin; the latter leaves out the word
\* after "delete", which should be "action".
NewCommand(t, w) ==
  [t EXCEPT !.pc = IF w = "add" THEN "modify" ELSE "skip", !.eap = FALSE, !.cookie = "", !.kind = "", !.acts = <<>>]

do_action(w) ==
  /\ Acting("command")
  /\ trial' = IF new_cmd(w) THEN NewCommand(Read(trial, w), w) ELSE Failed(Read(trial, w))

\* The message of an add goes out, or into the buffer of the batch line.
Talk(t) ==
  LET m == [cmd |-> "add", acts |-> t.acts]
  IN IF t.batch /\ t.line[1] = "add" THEN [t EXCEPT !.buf = <<m>>, !.pc = "command"]
     ELSE [t EXCEPT !.sent = Append(@, m), !.pc = "command"]

\* A cookie stays for the actions after it: act_ck_len is not reset.
AddAction(t, kind) == [t EXCEPT !.eap = FALSE, !.acts = Append(@, <<kind, t.cookie>>)]
Cookie(t, w) == [t EXCEPT !.cookie = w, !.acts[Len(t.acts)][2] = w]

\* parse_action() returns to do_action() at the word w.  The mutant has gone
\* past it.
Back_past(t, w) == Read(t, w)
Back(t, w) == IF new_cmd(w) THEN NewCommand(Read(t, w), w) ELSE Failed(Read(t, w))

\* The list ends at a word that is not for it, or with the line (w = "").
parse_action_end(t, w) ==
  IF t.eap /\ ~(new_cmd(w) /\ t.acts = <<>>) THEN Failed(t)
  ELSE IF w = "" THEN Talk(t) ELSE Back(Talk(t), w)

parse_action(w) ==
  /\ Acting("modify")
  /\ trial' = IF w = "action" THEN [Read(trial, w) EXCEPT !.eap = TRUE]
              ELSE IF w \in CookieWords /\ Last(trial.line) \in ActionKinds THEN Read(Cookie(trial, w), w)
              ELSE IF w \in ActionKinds THEN Read(AddAction(trial, w), w)
              ELSE IF w = "flowid" \/ new_cmd(w) THEN parse_action_end(trial, w)
              ELSE Failed(Read(trial, w))

\* tc_action_gd(): "action" is skipped, and a kind needs its index.
tc_action_gd(w) ==
  \/ Acting("skip") /\ trial' = [Read(trial, w) EXCEPT !.pc = "gd"]
  \/ /\ Acting("gd")
     /\ trial' = IF w = "index" /\ trial.kind # ""
                 THEN [Read(trial, w) EXCEPT !.acts = Append(@, <<trial.kind, "index">>), !.kind = ""]
                 ELSE IF w \in ActionKinds /\ trial.kind = "" THEN [Read(trial, w) EXCEPT !.kind = w]
                 ELSE IF w = "action" /\ trial.kind = "" THEN Read(trial, w)
                 ELSE Failed(Read(trial, w))

\* The line ends, and the batch sends its buffer.
EndOfLine ==
  /\ trial.of = "actions" /\ trial.pc \in {"command", "modify", "skip", "gd"} /\ trial.line # <<>>
  /\ LET t == CASE trial.pc = "modify" -> IF Last(trial.line) = "add" THEN Failed(trial) ELSE parse_action_end(trial, "")
                [] trial.pc = "gd" /\ trial.kind # "" -> Failed(trial)
                [] trial.pc \in {"skip", "gd"} -> [trial EXCEPT !.sent = Append(@, [cmd |-> "delete", acts |-> trial.acts])]
                [] OTHER -> trial
     IN trial' = IF t.pc = "failed" THEN t ELSE [t EXCEPT !.pc = "done", !.sent = @ \o t.buf]

\* The kernel refuses what a command sends.
TalkRefused == trial.of = "actions" /\ trial.pc \in {"modify", "gd"} /\ ~trial.batch /\ trial' = Failed(trial)

ActionLine ==
  /\ trial = NotYet
  /\ \E batch \in BOOLEAN :
       trial' = [of |-> "actions", batch |-> batch, pc |-> "command", line |-> <<>>, eap |-> FALSE, cookie |-> "",
                 kind |-> "", acts |-> <<>>, buf |-> <<>>, sent |-> <<>>]

ActionNext == ActionLine \/ EndOfLine \/ TalkRefused \/ \E w \in ActionWords : do_action(w) \/ parse_action(w) \/ tc_action_gd(w)

-----------------------------------------------------------------------------
\* The commands of a line, by the positions of their words, and the actions
\* that stand between a command and the next one.
CommandsOf(line) == SelectSeq([i \in DOMAIN line |-> i], LAMBDA i : new_cmd(line[i]) /\ ~(i > 1 /\ line[i - 1] = "delete"))
ActionsOf(line, from, to) ==
  LET at == SelectSeq([i \in DOMAIN line |-> i], LAMBDA i : i > from /\ i < to /\ line[i] \in ActionKinds
                                                          /\ ~(line[from] = "delete" /\ i = from + 1))
      with(i) == {k \in (from + 1)..(i + 1) : k < to /\ line[k] \in CookieWords}
  IN [n \in DOMAIN at |->
        <<line[at[n]], IF line[from] = "delete" THEN "index"
                       ELSE IF with(at[n]) = {} THEN "" ELSE line[CHOOSE k \in with(at[n]) : \A j \in with(at[n]) : j <= k]>>]
AsWritten(line) ==
  LET at == CommandsOf(line)
  IN [n \in DOMAIN at |-> [cmd |-> line[at[n]],
                           acts |-> ActionsOf(line, at[n], IF n < Len(at) THEN at[n + 1] ELSE Len(line) + 1)]]

\* Each command of a line becomes one message with the actions written after
\* it, in their order (the order is their priority), and with no action of
\* another command; when the line is refused, the commands before the refused
\* one have gone out and nothing else.  An action without a cookie has the one
\* of the action before it.  (In a batch only a line of one command: each add
\* of a line is built in the same buffer.)
ActionsAsWritten ==
  (trial.of = "actions" /\ (trial.batch => Len(CommandsOf(trial.line)) <= 1)) =>
    /\ trial.pc = "done" => trial.sent = AsWritten(trial.line)
    /\ trial.pc = "failed" => IsPrefix(trial.sent, AsWritten(trial.line))
=============================================================================
