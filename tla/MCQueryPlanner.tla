-------------------------- MODULE MCQueryPlanner --------------------------
(***************************************************************************)
(* Instantiates QueryPlanner for TLC: every connected query graph of       *)
(* NumNodes patterns over at most MaxVars variables, with variable ids     *)
(* numbered in order of first appearance (as the semantic analyser hands   *)
(* them to the planner), and per-pattern statistics from StatChoices.      *)
(***************************************************************************)
EXTENDS QueryPlanner

CONSTANTS MaxVars, ConstId

Var(v) == [type |-> "var", id |-> v]
Terms == {Var(v) : v \in 0..MaxVars - 1} \cup {[type |-> "const", id |-> ConstId]}

VarsOf(p) == {t.id : t \in {u \in {p.s, p.o} : IsVar(u)}}

\* A pattern has at least one variable, and not the same one twice.  A
\* repeated variable puts a Filter over the scan, and createFilterNode gives
\* it no densities: a join on its variable then divides by a zero density
\* (inf or NaN as a double), which the exact cost arithmetic cannot follow.
PatternChoices ==
  {p \in [s : Terms, o : Terms] :
     VarsOf(p) # {} /\ ~(IsVar(p.s) /\ IsVar(p.o) /\ p.s.id = p.o.id)}

\* Variable ids in order of first appearance, subject before object.
Appearances(g) == FoldLeft(LAMBDA acc, i : acc \o SelectSeq(<<g[i].s, g[i].o>>, IsVar), <<>>,
                           [x \in Nodes |-> x])
Canonical(g) ==
  LET a == Appearances(g)
  IN \A x \in DOMAIN a :
       a[x].id <= 1 + Max({-1} \cup {a[y].id : y \in 1..x-1})

RECURSIVE Reach(_, _)
Reach(g, S) ==
  LET S2 == S \cup {j \in Nodes : \E i \in S : VarsOf(g[i]) \cap VarsOf(g[j]) # {}}
  IN IF S2 = S THEN S ELSE Reach(g, S2)

Connected(g) == Reach(g, {1}) = Nodes

\* Two predicates: a small one with one distinct subject, and a larger one
\* whose subjects are all distinct and whose objects are all equal; the
\* bound counts are the ones such data gives.
MCStats == { [pcount |-> 2, sdist |-> 1, odist |-> 2, sbound |-> 2, obound |-> 1],
             [pcount |-> 4, sdist |-> 4, odist |-> 1, sbound |-> 1, obound |-> 4] }

\* The query projects the first variable only, so the variables the plan
\* materialises beyond it are those bindResource adds for joining.
MCQueries ==
  {[pat |-> g, proj |-> {0}] :
     g \in {g2 \in [Nodes -> PatternChoices] : Canonical(g2) /\ Connected(g2)}}
=============================================================================
