------------------------------ MODULE Options ------------------------------
(***************************************************************************)
(* A command of tc, ip, bridge, devlink or tipc that configures an         *)
(* object of the kernel: the loop over the words of the command line, the  *)
(* checks and defaults after it, the attributes of the request, what the   *)
(* kernel keeps of them, and what the print function shows of that.        *)
(* The parser and the printer are tables (OptionTables.tla); the behaviour *)
(* is several commands in a row on one object, the first one creating it.  *)
(***************************************************************************)
EXTENDS Integers, FiniteSets

CONSTANTS Tools,        \* name -> [parse |-> table, print |-> table]
          MaxGiven,     \* options given beyond the mandatory ones, all commands together
          MaxTurns      \* commands run on the object

VARIABLES object, \* the object's kind: a name of Tools
          util,   \* its parser and printer, the struct the code looks up by that name
          phase,  \* "parse", then "sent" or "refused"
          st,     \* the parser's local variables
          marks,  \* the flags it has raised
          want,   \* what the accepted words of this command asked for
          conf,   \* what the kernel keeps for the object
          given,  \* options given so far
          turns   \* commands started so far

optionVars == <<object, util, phase, st, marks, want, conf, given, turns>>

Absent == -1

P == util.parse
Vars(p) == DOMAIN p.init

(* A variable or flag the code tests was given: it differs from what the   *)
(* parser started with.                                                    *)
Given(p, s, m, x) == IF x \in Vars(p) THEN s[x] # p.init[x] ELSE x \in m

Holds(p, s, m, c) == /\ \A x \in c.on  : Given(p, s, m, x)
                     /\ \A x \in c.off : ~Given(p, s, m, x)

SomeHolds(p, s, m, C) == \E c \in C : Holds(p, s, m, c)

(* What the words of one option leave in the variables and the flags.      *)
Stored(p, s, row, v) ==
    [x \in Vars(p) |-> IF x \in DOMAIN row.puts THEN row.puts[x]
                       ELSE IF x \in row.ors THEN IF s[x] = 1 THEN 1 ELSE v
                       ELSE IF x \in row.sets THEN v ELSE s[x]]

Asked(p, w, row, v) ==
    [x \in Vars(p) |-> IF x \in DOMAIN row.puts THEN row.puts[x]
                       ELSE IF x \in row.sets THEN v ELSE w[x]]

(* The arguments worth telling apart: 0, a number, the number the parser   *)
(* takes for "not given".                                                  *)
Arguments(p, row) ==
    IF row.sets = {} THEN {1}
    ELSE {0, 1} \cup ({p.init[x] : x \in row.sets} \cap {2})

(* What a change reads of the object before it looks at its words.         *)
ReadBack(p, c) ==
    [x \in Vars(p) |-> IF x \notin p.gets \/ c[x] = Absent THEN p.init[x]
                       ELSE IF x \in p.alters /\ c[x] = 1 THEN 3 ELSE c[x]]

(* The mandatory options of the tool, as the first words of the command.   *)
Start(p, req, creating, from) ==
    LET rows == [k \in req |-> p.opts[k]]
        put(x) == {k \in req : x \in DOMAIN rows[k].puts}
        set(x) == {k \in req : x \in rows[k].sets}
    IN  [s |-> [x \in Vars(p) |-> IF put(x) # {} THEN rows[CHOOSE k \in put(x) : TRUE].puts[x]
                                  ELSE IF set(x) # {} THEN 1 ELSE from[x]],
         m |-> (IF creating THEN {"NLM_F_EXCL"} ELSE {}) \cup UNION {rows[k].marks : k \in req},
         w |-> [x \in Vars(p) |-> IF put(x) # {} THEN rows[CHOOSE k \in put(x) : TRUE].puts[x]
                                  ELSE IF set(x) # {} THEN 1 ELSE Absent]]

Begin(p, req) ==
    /\ phase' = IF p.gets # {} /\ \A x \in Vars(p) : conf[x] = Absent THEN "refused" ELSE "parse"
    /\ LET b == Start(p, req, FALSE, ReadBack(p, conf)) IN st' = b.s /\ marks' = b.m /\ want' = b.w

OptionsInit ==
    \E t \in DOMAIN Tools, r \in BOOLEAN :
        LET p == util.parse
            b == Start(p, IF r THEN p.req ELSE {}, TRUE, p.init)
        IN  /\ object = t
            /\ util = Tools[t]
            /\ phase = "parse"
            /\ st = b.s /\ marks = b.m /\ want = b.w
            /\ conf = [x \in Vars(p) |-> Absent]
            /\ given = 0
            /\ turns = 1

(* The function returns: its variables are gone, the kernel heard nothing. *)
Return ==
    /\ phase' = "refused"
    /\ st' = P.init /\ marks' = {} /\ want' = [x \in DOMAIN want |-> Absent]
    /\ UNCHANGED <<object, util, conf, turns>>

(* One turn of the loop that takes the option of the row, its argument v.  *)
Option(p, row, v) ==
    IF SomeHolds(p, st, marks, row.no) \/ (row.sets # {} /\ v \notin row.only)
    THEN Return
    ELSE /\ st' = Stored(p, st, row, v)
         /\ marks' = marks \cup row.marks
         /\ want' = Asked(p, want, row, v)
         /\ UNCHANGED <<object, util, phase, conf, turns>>

NextOption ==
    /\ phase = "parse" /\ given < MaxGiven
    /\ given' = given + 1
    /\ LET p == P IN
       \E k \in DOMAIN p.opts : LET row == p.opts[k] IN \E v \in Arguments(p, row) : Option(p, row, v)

(* A word no branch of the loop takes, an argument no conversion accepts,  *)
(* a missing argument, or "help".                                          *)
Usage ==
    /\ phase = "parse"
    /\ Return
    /\ UNCHANGED given

Refusable(p) == SomeHolds(p, st, marks, p.never)

(* The checks after the loop. *)
Refuse ==
    /\ phase = "parse"
    /\ LET p == P IN Refusable(p) \/ p.fails
    /\ Return
    /\ UNCHANGED given

(* What the request says after the defaults are filled in.                 *)
Final(p) ==
    [x \in Vars(p) |->
        LET F == {f \in p.fill : x \in f.vars /\ Holds(p, st, marks, f.when)} IN
        IF F = {} THEN st[x] ELSE (CHOOSE f \in F : TRUE).to]

(* A variable that is sent alone was given. *)
Alone(p) == \E x \in p.alone : Given(p, st, marks, x)

Added(p) == {a \in p.sends : SomeHolds(p, st, marks, a.when) /\ (Alone(p) => a.carries \cap p.alone # {})}

Carried(p) == UNION {a.carries : a \in Added(p)}

(* The request is made and the kernel takes it: an attribute replaces what *)
(* was kept for every variable it carries, an absent one changes nothing.  *)
Send ==
    /\ phase = "parse"
    /\ LET p == P
           carried == Carried(p)
           final == Final(p)
       IN  /\ ~Refusable(p)
           /\ conf' = [x \in Vars(p) |-> IF x \in carried THEN final[x] ELSE IF p.fresh THEN Absent ELSE conf[x]]
    /\ phase' = "sent"
    /\ UNCHANGED <<object, util, st, marks, want, given, turns>>

(* The next command on the same object. *)
Command(r) ==
    /\ phase \in {"sent", "refused"} /\ turns < MaxTurns
    /\ LET p == P IN Begin(p, IF r THEN p.req ELSE {})
    /\ turns' = turns + 1
    /\ UNCHANGED <<object, util, conf, given>>

OptionsNext ==
    \/ NextOption
    \/ Usage
    \/ Refuse
    \/ Send
    \/ \E r \in BOOLEAN : Command(r)

OptionsSpec == OptionsInit /\ [][OptionsNext]_optionVars

-----------------------------------------------------------------------------
(* The print function q shows x of an object as the kernel keeps it. *)
Shown(q, c, x) ==
    /\ x \in DOMAIN q.shows
    /\ \A u \in q.under : u.var = x => c[u.on] \in u.ok
    /\ \E s \in q.shows[x] : /\ \A y \in s.has : c[y] # Absent
                             /\ \A y \in s.nz  : c[y] \notin {Absent, 0}

(* An option the parser accepted reaches the kernel: the value of the last *)
(* word for it is what the kernel keeps, unless it is the very value the   *)
(* parser takes for "not given", or the parser is known to drop it.        *)
Delivered ==
    phase = "sent" =>
        LET p == P IN
        \A x \in Vars(p) :
            \/ want[x] \in {Absent, p.init[x]}
            \/ conf[x] = want[x]
            \/ x \in p.lost
            \/ \E d \in p.drops : x \in d.carries /\ SomeHolds(p, st, marks, d.when)
            \/ Alone(p) /\ x \notin Carried(p)

(* A later command changes nothing the kernel keeps but what it names and  *)
(* what travels in the same attribute (a fixed structure is replaced as a  *)
(* whole), save the variables a parser is known to reset or to read back   *)
(* altered.  A parser that reads the object back first has no such excuse: *)
(* all it was not told to change must survive.  A refused command changes  *)
(* nothing.                                                                *)
Named(x) == want[x] # Absent
Kept(p, x) == IF conf[x] = Absent THEN p.init[x] ELSE conf[x]
ChangeKeeps ==
    [][conf' # conf =>
       LET p == P IN
       \A x \in Vars(p) :
          conf'[x] \notin {conf[x], Kept(p, x)} =>
              /\ phase' = "sent"
              /\ \/ turns = 1 \/ p.fresh \/ Named(x) \/ x \in p.resets \/ x \in p.alters
                 \/ \E f \in p.fill : x \in f.vars
                 \/ \E a \in p.sends : x \in a.carries /\ p.gets = {}
                                       /\ (a.when = {[on |-> {}, off |-> {}]} \/ \E y \in a.carries : Named(y))]_optionVars

(* What the kernel keeps is shown: no setting other than zero is invisible *)
(* after any run of commands, save the ones the printer is known to hide   *)
(* and those an early return or an enclosing condition leaves out.         *)
Visible ==
    phase = "sent" =>
        LET q == util.print IN
        \A x \in DOMAIN conf :
            \/ conf[x] \in {Absent, 0} \/ Shown(q, conf, x)
            \/ x \in q.hides
            \/ \E u \in q.under : u.var = x /\ conf[u.on] \notin u.ok
=============================================================================
