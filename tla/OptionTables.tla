---------------------------- MODULE OptionTables ----------------------------
(***************************************************************************)
(* The notation in which the option parsers and the printers of tc, ip,    *)
(* bridge, devlink and tipc are written down: what one                   *)
(* `while (argc > 0)' loop accepts, what the code after it refuses, fills  *)
(* in and adds to the request, and what the print function shows of the    *)
(* reply.  Options.tla gives the tables their behaviour.                   *)
(*                                                                         *)
(* The spellings of one keyword (burst, buffer, maxburst) are one option.  *)
(* A keyword with optional operands is one option per number of operands.  *)
(***************************************************************************)
EXTENDS Integers, Sequences, TLC

(* Values of the variables of a parser. An argument is 0, an ordinary      *)
(* number (1) or the all-ones number; Dflt is a nonzero value the code     *)
(* computes or starts from; Unset is what no argument can be (a flag kept  *)
(* beside the variable, a pointer that is NULL, an int that is -1).        *)
Unset   == -1
AllOnes == 2
Dflt    == 3

Zero(X)     == [x \in X |-> 0]
NotGiven(X) == [x \in X |-> Unset]
AtOnes(X)   == [x \in X |-> AllOnes]
AtDflt(X)   == [x \in X |-> Dflt]

(* A condition: every variable of on was given, no variable of off was.    *)
Cond(on, off) == [on |-> on, off |-> off]
On(X)         == Cond(X, {})
Off(X)        == Cond({}, X)
Always        == {Cond({}, {})}

(* One option: the variables its argument is stored in, the constants it   *)
(* stores, the flags it raises, the conditions under which it is refused   *)
(* where it stands, and the arguments it takes.  ors: variables in which   *)
(* the argument is or-ed to what is there.                                 *)
Row(sets, puts) == [sets |-> sets, puts |-> puts, ors |-> {}, marks |-> {}, no |-> {}, only |-> 0 .. 2]
Args(k, X)      == k :> Row(X, <<>>)
Arg(K)          == [k \in K |-> Row({k}, <<>>)]
Flag(k, x, v)   == k :> Row({}, x :> v)
Flags(K)        == [k \in K |-> Row({}, k :> 1)]
Or(K)           == [k \in K |-> [Row({k}, <<>>) EXCEPT !.ors = {k}]]
Once(K)         == [k \in K |-> [Row({k}, <<>>) EXCEPT !.no = {On({k})}]]
OnOff(yes, no, x) == [k \in {yes, no} |-> [Row({}, x :> IF k = yes THEN 1 ELSE 0) EXCEPT !.no = {On({x})}]]
Refusing(rows, C) == [k \in DOMAIN rows |-> [rows[k] EXCEPT !.no = @ \cup C]]
Marking(rows, M)  == [k \in DOMAIN rows |-> [rows[k] EXCEPT !.marks = @ \cup M]]
Taking(rows, S)   == [k \in DOMAIN rows |-> [rows[k] EXCEPT !.only = S]]

(* A grammar of places: the words of rows[i] may not follow those of a     *)
(* later place, nor, unless place i is a loop, another word of place i.    *)
Place == <<"place 1", "place 2", "place 3", "place 4", "place 5">>
InOrder(rows, loops) ==
    LET place(k) == CHOOSE i \in DOMAIN rows : k \in DOMAIN rows[i] IN
    [k \in UNION {DOMAIN rows[i] : i \in DOMAIN rows} |->
        [rows[place(k)][k] EXCEPT !.marks = @ \cup {Place[place(k)]},
                                  !.no = @ \cup {On({Place[j]}) : j \in (place(k) .. Len(rows))
                                                                     \ (loops \cap {place(k)})}]]

(* An attribute of the request: added when one of the conditions holds,    *)
(* made from the variables it carries.                                     *)
Attr(a, when, carries) == [attr |-> a, when |-> when, carries |-> carries]
Whole(a, X)            == {Attr(a, Always, X)}
Each(X)                == {Attr(x, {On({x})}, {x}) : x \in X}
Group(a, C, X)         == {Attr(a, C, X)}

(* A parser: the initial values, the options, the attributes; and, where   *)
(* the code has them: what it refuses after the loop, what it fills in     *)
(* (a condition and the variables it then gives a default), whether its    *)
(* arithmetic may still fail, the options a command cannot do without, the *)
(* options whose value may not reach the request (lost; drops: those that  *)
(* do not under a condition), and the variables an attribute resets        *)
(* although no option for it was given (resets).                           *)
(* fresh: the kernel builds the object anew from every request.            *)
(* gets: variables that a change first reads back from the kernel; alters: *)
(* the ones that may come back different (bytes swapped, high bits cut).   *)
(* alone: variables that, once given, are all the request carries.         *)
Parser(init, opts, sends) ==
    [init |-> init, opts |-> opts, sends |-> sends, never |-> {}, fill |-> {},
     fails |-> FALSE, req |-> {}, lost |-> {}, resets |-> {}, fresh |-> FALSE,
     gets |-> {}, alters |-> {}, alone |-> {}, drops |-> {}]
Drop(C, X)     == {Attr("not sent", C, X)}
Fill(c, X)     == [when |-> c, vars |-> X, to |-> Dflt]
FillZero(c, X) == [when |-> c, vars |-> X, to |-> 0]
Attrs(X)       == Parser(NotGiven(X), Arg(X), Each(X))

(* A printer: for each variable it can show the conditions under which it  *)
(* does, each a set of variables that are present and a set that are not   *)
(* zero.  hides: what it may leave out although it is not zero: settings   *)
(* nothing prints, words that only enter a value computed from several     *)
(* (burst in a table of rates), and flags shown by the absence of another. *)
(* under: a variable is looked at only while another holds one of the      *)
(* values ok: an early return, an enclosing if.                            *)
Seen(has, nz)    == [has |-> has, nz |-> nz]
Present(X)       == [x \in X |-> {Seen({x}, {})}]
NonZero(X)       == [x \in X |-> {Seen({x}, {x})}]
Shows(X, C)      == [x \in X |-> C]
Printer(shows)   == [shows |-> shows, hides |-> {}, under |-> {}]
Hiding(p, X)     == [p EXCEPT !.hides = @ \cup X]
Where(p, X, y, ok) == [p EXCEPT !.under = @ \cup {[var |-> x, on |-> y, ok |-> ok] : x \in X \ {y}}]
Needing(p, X, y) == Where(p, X, y, 0 .. 3)
Under(p, X, y)   == Where(p, X, y, 1 .. 3)
Stopping(p, y)   == Where(p, DOMAIN p.shows, y, {-1, 0})

Tool(parse, print) == [parse |-> parse, print |-> print]
=============================================================================
