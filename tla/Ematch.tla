------------------------------- MODULE Ematch -------------------------------
(***************************************************************************)
(* The tree of extended matches of "tc filter ... basic match"             *)
(* (tc/m_ematch.c, tc/emp_ematch.y): the parser links the matches of one   *)
(* level by next and a parenthesis to its first match by child;            *)
(* flatten_tree makes one list of it, parse_tree an attribute of each      *)
(* member, and print_ematch_seq finds the expression again in them.        *)
(*                                                                         *)
(* The matches are numbered in the order they are written, a parenthesis   *)
(* being one too.  An expression gives each its depth, the relation to the *)
(* next match of its level, if it is negated, and the matches whose kind   *)
(* tc does not know.                                                       *)
(***************************************************************************)
EXTENDS Integers, Sequences, FiniteSets, Trial

CONSTANT MaxMatches     \* matches and parentheses of an expression

Kinds == <<"a", "b", "c", "d", "e">>

\* The first match after i that is as deep, before one less deep; 0 for none.
Sibling(x, i) ==
  LET as == {j \in (i + 1)..Len(x) : x[j] = x[i] /\ \A k \in (i + 1)..j : x[k] >= x[i]}
  IN IF as = {} THEN 0 ELSE CHOOSE j \in as : \A k \in as : j <= k
Opens(x, i) == i < Len(x) /\ x[i + 1] > x[i]

Depths(n) == {x \in [1..n -> 0..(n - 1)] : x[1] = 0 /\ \A i \in 1..(n - 1) : x[i + 1] <= x[i] + 1}

\* What emp_ematch.y builds: "expr: match relation expr", "match: invert ...".
expr(x, rel, neg) ==
  [i \in DOMAIN x |-> [child |-> IF Opens(x, i) THEN i + 1 ELSE 0, next |-> Sibling(x, i),
                       relation |-> rel[i], inverted |-> i \in neg]]
Expressions(n) ==
  UNION {{expr(x, rel, neg) : neg \in SUBSET (1..n),
            rel \in {r \in [1..n -> {"", "AND", "OR"}] : \A i \in 1..n : (r[i] = "") <=> (Sibling(x, i) = 0)}} :
         x \in Depths(n)}

RECURSIVE Chain(_, _)
Chain(t, i) == IF i = 0 THEN <<>> ELSE <<i>> \o Chain(t, t[i].next)
LastMatch(t, i) == LET c == Chain(t, i) IN c[Len(c)]

\* flatten_tree(): the matches of a parenthesis go to the end of the list.
RECURSIVE flatten_tree(_, _, _)
flatten_tree(t, head, i) ==
  LET sub == IF t[i].child = 0 THEN [tree |-> t, count |-> 0]
             ELSE flatten_tree([t EXCEPT ![LastMatch(t, head)].next = t[i].child], head, t[i].child)
      rest == IF t[i].relation = "" THEN [tree |-> sub.tree, count |-> 0]
              ELSE flatten_tree(sub.tree, head, sub.tree[i].next)
  IN [tree |-> rest.tree, count |-> 1 + sub.count + rest.count]

\* The index of a match in the list, from 0; the mutant numbers the matches in
\* the order they are parsed.
child_ref_parsed(list, i) == i - 1
child_ref(list, i) == (CHOOSE k \in DOMAIN list : list[k] = i) - 1

\* parse_tree(): an attribute per member of the list.  Nothing is sent where a
\* kind is unknown.
parse_tree(t, unknown) ==
  LET list == Chain(t, 1)
  IN IF unknown = {}
     THEN {[k \in DOMAIN list |->
             LET m == t[list[k]]
             IN [relation |-> m.relation, inverted |-> m.inverted,
                 kind |-> IF m.child # 0 THEN "container" ELSE Kinds[list[k]],
                 ref |-> IF m.child # 0 THEN child_ref(list, m.child) ELSE 0]]}
     ELSE {}

\* print_ematch_seq(): from one attribute on, as long as a relation follows.
RECURSIVE print_ematch_seq(_, _)
print_ematch_seq(tb, i) ==
  IF i \notin DOMAIN tb THEN <<"failed">>
  ELSE (IF tb[i].inverted THEN <<"NOT">> ELSE <<>>)
       \o (IF tb[i].kind = "container" THEN <<"(">> \o print_ematch_seq(tb, tb[i].ref + 1) \o <<")">> ELSE <<tb[i].kind>>)
       \o (IF tb[i].relation = "" THEN <<>> ELSE <<tb[i].relation>> \o print_ematch_seq(tb, i + 1))

\* print_ematch_list() reads as many attributes as the header counts.
print_ematch_list(count, attrs) ==
  print_ematch_seq([i \in 1..count \cap DOMAIN attrs |-> attrs[i]], 1)

\* parse_ematch(): tree header and list, shown again as the kernel returns them.
parse_ematch ==
  /\ trial = NotYet
  /\ \E n \in 1..MaxMatches : \E t \in Expressions(n) :
     \E unknown \in SUBSET {i \in DOMAIN t : t[i].child = 0} :
       LET flat == flatten_tree(t, 1, 1)
           sent == parse_tree(flat.tree, unknown)
       IN /\ Cardinality(unknown) <= 1
          /\ trial' = [of |-> "ematch", written |-> t, unknown |-> unknown, count |-> flat.count, sent |-> sent,
                       shown |-> {print_ematch_list(flat.count, attrs) : attrs \in sent}]

-----------------------------------------------------------------------------
\* The expression as it was written, from match i to the end of its level.
RECURSIVE Written(_, _)
Written(t, i) ==
  (IF t[i].inverted THEN <<"NOT">> ELSE <<>>)
  \o (IF t[i].child # 0 THEN <<"(">> \o Written(t, t[i].child) \o <<")">> ELSE <<Kinds[i]>>)
  \o (IF t[i].next = 0 THEN <<>> ELSE <<t[i].relation>> \o Written(t, t[i].next))

\* The list that flatten_tree links and parse_tree sends is the expression
\* that was written, whatever the nesting: print_ematch finds every match,
\* negation and relation in its place, and the header counts the list.
EmatchTreeKept ==
  trial.of = "ematch" =>
    /\ trial.sent = {} <=> trial.unknown # {}
    /\ \A attrs \in trial.sent : Len(attrs) = trial.count
    /\ \A s \in trial.shown : s = Written(trial.written, 1)
=============================================================================
