------------------------------ MODULE SsFilter ------------------------------
(***************************************************************************)
(* The filter expression of ss (misc/ssfilter.y, misc/ss.c).  It is used   *)
(* twice: compiled to the bytecode that the kernel runs while it dumps,    *)
(* and evaluated by run_ssfilter on every socket that the dump returns.    *)
(*                                                                         *)
(* An instruction is [op, yes, no, arg]; yes is also its length in bytes   *)
(* (the padding op after a port is part of its instruction), and both are  *)
(* relative jumps.  A program accepts by ending exactly at its end and     *)
(* rejects by jumping 4 bytes past it.                                     *)
(***************************************************************************)
EXTENDS Integers, Sequences, Trial

CONSTANT MaxConditions  \* conditions of an expression

Socket == [daddr : 1..2, dport : 1..2, sport : 2..3, iface : 0..1, mark : 0..1]

\* The conditions: a peer given by name is the list of its addresses, a port
\* alone a list with no address; -1 is no port.
Condition(type, addrs, n) == [type |-> type, addrs |-> addrs, n |-> n]
Conditions == {Condition("auto", <<>>, 0), Condition("dcond", <<1>>, -1), Condition("dcond", <<2, 1>>, -1), Condition("dcond", <<>>, 1),
               Condition("d_ge", <<>>, 2), Condition("s_le", <<>>, 2), Condition("dev", <<>>, 1), Condition("mark", <<>>, 1)}
Not(e) == [type |-> "not", pred |-> e]
\* expr: a condition, or a negated one ("!=", ">", "<").
Expr == Conditions \cup {Not(c) : c \in {Condition("dcond", <<>>, 1), Condition("d_ge", <<>>, 2), Condition("mark", <<>>, 1)}}
\* exprlist: "!" comes first only, and what is joined on the right is an expr.
ExprList[n \in 1..MaxConditions] ==
  IF n = 1 THEN Expr \cup {Not(e) : e \in Expr}
  ELSE [type : {"and", "or"}, pred : ExprList[n - 1], post : Expr]

\* A condition on a socket, in run_ssfilter().
is_ephemeral(port) == port = 3
condition(c, s) ==
  CASE c.type = "auto"  -> is_ephemeral(s.sport)
    [] c.type = "dcond" -> /\ c.n \in {-1, s.dport}
                           /\ c.addrs = <<>> \/ \E i \in DOMAIN c.addrs : c.addrs[i] = s.daddr
    [] c.type = "d_ge"  -> s.dport >= c.n
    [] c.type = "s_le"  -> s.sport <= c.n
    [] c.type = "dev"   -> s.iface = c.n
    [] c.type = "mark"  -> s.mark = c.n

RECURSIVE run_ssfilter(_, _)
run_ssfilter(f, s) ==
  CASE f.type = "and" -> run_ssfilter(f.pred, s) /\ run_ssfilter(f.post, s)
    [] f.type = "or"  -> run_ssfilter(f.pred, s) \/ run_ssfilter(f.post, s)
    [] f.type = "not" -> ~run_ssfilter(f.pred, s)
    [] OTHER          -> condition(f, s)

Op(op, yes, no, arg) == <<[op |-> op, yes |-> yes, no |-> no, arg |-> arg]>>
JMP(no) == Op("jmp", 4, no, 0)
RECURSIVE Bytes(_)
Bytes(code) == IF code = <<>> THEN 0 ELSE Head(code).yes + Bytes(Tail(code))

\* ssfilter_patch(): the jumps that leave the code for its reject point are
\* moved on by reloc.  The mutant misses those of the code's jumps.
ssfilter_patch_conds(a, reloc) ==
  [i \in DOMAIN a |-> IF a[i].op # "jmp" /\ a[i].no = Bytes(SubSeq(a, i, Len(a))) + 4
                      THEN [a[i] EXCEPT !.no = @ + reloc] ELSE a[i]]
ssfilter_patch(a, reloc) ==
  [i \in DOMAIN a |-> IF a[i].no = Bytes(SubSeq(a, i, Len(a))) + 4
                      THEN [a[i] EXCEPT !.no = @ + reloc] ELSE a[i]]

\* A peer: one comparison per address, all with the first address of the
\* list, and a jump over the rest after each but the last.
RECURSIVE host_code(_, _)
host_code(c, n) ==
  Op("dcond", 16, 20, IF c.addrs = <<>> THEN c ELSE [c EXCEPT !.addrs = <<c.addrs[1]>>])
  \o (IF n <= 1 THEN <<>> ELSE LET rest == host_code(c, n - 1) IN JMP(4 + Bytes(rest)) \o rest)

\* ssfilter_bytecompile(); no code at all for a filter on the device.
RECURSIVE ssfilter_bytecompile(_)
ssfilter_bytecompile(f) ==
  CASE f.type = "auto"  -> Op("auto", 4, 8, f)
    [] f.type = "dcond" -> host_code(f, Len(f.addrs))
    [] f.type \in {"d_ge", "s_le"} -> Op(f.type, 8, 12, f)
    [] f.type = "mark"  -> Op("mark", 12, 16, f)
    [] f.type = "dev"   -> <<>>
    [] f.type = "not"   -> LET a == ssfilter_bytecompile(f.pred) IN IF a = <<>> THEN <<>> ELSE a \o JMP(8)
    [] OTHER ->
         LET a1 == ssfilter_bytecompile(f.pred)
             a2 == ssfilter_bytecompile(f.post)
         IN IF a1 = <<>> \/ a2 = <<>> THEN <<>>
            ELSE IF f.type = "and" THEN ssfilter_patch(a1, Bytes(a2)) \o a2
            ELSE a1 \o JMP(Bytes(a2) + 4) \o a2

\* The kernel's interpreter: the program goes on with the instruction that is
\* a number of bytes from here, accepts at its end and rejects beyond.
RECURSIVE bc_run(_, _, _)
bc_run(code, bytes, s) ==
  IF code = <<>> THEN bytes = 0
  ELSE LET o == Head(code)
       IN IF bytes > 0 THEN bc_run(Tail(code), bytes - o.yes, s)
          ELSE bytes = 0 /\ bc_run(code, IF o.op # "jmp" /\ condition(o.arg, s) THEN o.yes ELSE o.no, s)

\* sockdiag_send() asks with the bytecode, if there is any; show_one_inet_sock()
\* filters what comes.
inet_show_netlink_filter ==
  /\ trial = NotYet
  /\ \E n \in 1..MaxConditions : \E f \in ExprList[n] :
       LET code == ssfilter_bytecompile(f)
           dumped == {s \in Socket : code = <<>> \/ bc_run(code, 0, s)}
       IN trial' = [of |-> "ssfilter", filter |-> f, compiled |-> code # <<>>, dumped |-> dumped,
                    shown |-> {s \in dumped : run_ssfilter(f, s)}]

-----------------------------------------------------------------------------
RECURSIVE Names(_)
Names(f) == CASE f.type = "not" -> Names(f.pred)
              [] f.type \in {"and", "or"} -> Names(f.pred) \/ Names(f.post)
              [] OTHER -> Len(f.addrs) > 1

\* The compiled program decides as the expression does, for every nesting of
\* and, or and not: the kernel dumps no socket too few and, where there is a
\* program, none too many.  Excepted are names with several addresses, of
\* which ssfilter_bytecompile takes the first each time.
SsBytecodeAgrees ==
  (trial.of = "ssfilter" /\ ~Names(trial.filter)) =>
    /\ trial.shown = {s \in Socket : run_ssfilter(trial.filter, s)}
    /\ trial.compiled => trial.dumped = trial.shown
=============================================================================
