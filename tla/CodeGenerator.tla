--------------------------- MODULE CodeGenerator ---------------------------
(***************************************************************************)
(* CodeGenerator (src/src/runtime/code_generator.cpp) composed with the    *)
(* QueryPlanner that produces its input: once build() has returned, one    *)
(* generate(plan->root) turns the plan into an operator tree.              *)
(*                                                                         *)
(* generateInternal threads a map `resources` (id to Resource) by         *)
(* reference: a scan registers the Resources it creates for the ids in    *)
(* its required_res, a join hands every child a fresh map and exposes a    *)
(* fresh Resource per required id its children registered, and the        *)
(* results printer reads resources[id] for every projected id.  A         *)
(* Resource is a number, 0 standing for nullptr; `owner[r]` records the    *)
(* query term (or join output) it was created for.  Every pattern has the  *)
(* same predicate, whose dictionary id is PredId.                          *)
(***************************************************************************)
EXTENDS QueryPlanner, TLC

CONSTANT PredId   \* query_node.predicate.id of every pattern

VARIABLES
    ops,     \* the Operators created, in creation order
    owner,   \* owner[r]: the term Resource r was created for
    top      \* the Operator generate() returned; 0 before

cgVars == <<ops, owner, top>>
allVars == <<vars, cgVars>>

NoRes == 0            \* nullptr
EmptyMap == <<>>      \* an empty std::map<uint32_t, Resource*>

\* resources[id] read with operator[]: nullptr when id was never set.
ResAt(m, id) == IF id \in DOMAIN m THEN m[id] ELSE NoRes

\* The threaded state: ops, owner, the caller's map and the last Operator.
\* createResource(): a fresh Resource created for term t.
NewRes(st, t) == [st EXCEPT !.owner = Append(@, t)]

\* One position of generateTableScan: the Resource is created when the
\* position is the scan's bound constant or the predicate, or when its id
\* is required, and is registered under its id when that id is required.
ScanPos(st, t, always, req) ==
  IF ~always /\ t.id \notin req THEN [st EXCEPT !.op = NoRes]
  ELSE LET st1 == NewRes(st, t)
           r   == Len(st1.owner)
       IN  [st1 EXCEPT !.op = r,
                       !.resources = IF t.id \in req THEN (t.id :> r) @@ @ ELSE @]

\* Mutant: the P case's object block copy-pasted from its subject block.
GenScanCopiesSubject(ar, n, st) ==
  LET nd  == ar[n]
      s   == ScanPos(st, nd.qn.s, nd.order = "SP", nd.req)
      p   == ScanPos(s, [type |-> "const", id |-> PredId], TRUE, nd.req)
      o   == ScanPos(p, IF nd.order = "P" THEN nd.qn.s ELSE nd.qn.o, nd.order = "OP", nd.req)
      opr == [kind |-> "TableScan", node |-> n, order |-> nd.order,
              s |-> s.op, p |-> p.op, o |-> o.op]
  IN  [o EXCEPT !.ops = Append(@, opr), !.op = Len(o.ops) + 1]

\* generateTableScan: subject, predicate, object in this order.
GenScan(ar, n, st) ==
  LET nd  == ar[n]
      s   == ScanPos(st, nd.qn.s, nd.order = "SP", nd.req)
      p   == ScanPos(s, [type |-> "const", id |-> PredId], TRUE, nd.req)
      o   == ScanPos(p, nd.qn.o, nd.order = "OP", nd.req)
      opr == [kind |-> "TableScan", node |-> n, order |-> nd.order,
              s |-> s.op, p |-> p.op, o |-> o.op]
  IN  [o EXCEPT !.ops = Append(@, opr), !.op = Len(o.ops) + 1]

\* Mutant: the output loop stops before the driving child (i > 0).
OutputOrderSkipsDriver(rcs) ==
  FoldLeft(LAMBDA acc, i : acc \o SetToSortSeq(DOMAIN rcs[Len(rcs) + 1 - i], <),
           <<>>, [i \in 1..Len(rcs) - 1 |-> i])

\* The ids a join exposes, in the order it creates their Resources:
\* children from last to first, each child's map in ascending id order.
OutputOrder(rcs) ==
  FoldLeft(LAMBDA acc, i : acc \o SetToSortSeq(DOMAIN rcs[Len(rcs) + 1 - i], <),
           <<>>, [i \in 1..Len(rcs) |-> i])

RECURSIVE GenInternal(_, _, _)

\* generateBackProbeHashJoin: each child with a fresh map, then one fresh
\* Resource per required id the children registered, inserted into the
\* caller's map without replacing an id it already holds.
GenJoin(ar, n, st) ==
  LET nd   == ar[n]
      kid(acc, c) ==
        LET r == GenInternal(ar, c, [acc.st EXCEPT !.resources = EmptyMap])
        IN  [st |-> r, opers |-> Append(acc.opers, r.op), rcs |-> Append(acc.rcs, r.resources)]
      kids == FoldLeft(kid, [st |-> st, opers |-> <<>>, rcs |-> <<>>], nd.children)
      out(acc, v) ==
        IF v \in DOMAIN acc.res \/ v \notin nd.req THEN acc
        ELSE [res |-> (v :> Len(acc.owner) + 1) @@ acc.res,
              owner |-> Append(acc.owner, [type |-> "join", id |-> v])]
      made == FoldLeft(out, [res |-> EmptyMap, owner |-> kids.st.owner], OutputOrder(kids.rcs))
      opr  == [kind |-> "BackProbeHashJoin", node |-> n, children |-> kids.opers,
               rcs |-> kids.rcs, res |-> made.res]
  IN  [ops |-> Append(kids.st.ops, opr), owner |-> made.owner,
       resources |-> st.resources @@ made.res, op |-> Len(kids.st.ops) + 1]

\* generateFilter: the child shares the caller's map; a fresh Resource
\* holds filter_value, and resources[filter_key] is read with operator[],
\* which inserts nullptr into the caller's map when the key is absent.
GenFilter(ar, n, st) ==
  LET c   == GenInternal(ar, ar[n].children[1], st)
      key == ar[n].filterKey
      c1  == NewRes(c, [type |-> "const", id |-> key])
      opr == [kind |-> "Filter", node |-> n, child |-> c.op,
              filter |-> ResAt(c.resources, key), value |-> Len(c1.owner)]
  IN  [c1 EXCEPT !.ops = Append(@, opr), !.op = Len(c1.ops) + 1,
                 !.resources = IF key \in DOMAIN @ THEN @ ELSE (key :> NoRes) @@ @]

\* generateResultsPrinter: the child shares the caller's map; then one
\* Resource per projected id.
GenPrinter(ar, n, st) ==
  LET c   == GenInternal(ar, ar[n].children[1], st)
      opr == [kind |-> "ResultsPrinter", node |-> n, child |-> c.op,
              rcs |-> [v \in ar[n].proj |-> ResAt(c.resources, v)]]
  IN  [c EXCEPT !.ops = Append(@, opr), !.op = Len(c.ops) + 1]

\* Mutant: a plan node kind the switch does not handle returns nullptr.
GenInternalNoJoin(ar, n, st) ==
  CASE ar[n].op = "ResultsPrinter"    -> GenPrinter(ar, n, st)
    [] ar[n].op = "BackProbeHashJoin" -> [st EXCEPT !.op = NoRes]
    [] ar[n].op = "TableScan"         -> GenScan(ar, n, st)
    [] ar[n].op = "Filter"            -> GenFilter(ar, n, st)

\* generateInternal: dispatch on the plan node's op.
GenInternal(ar, n, st) ==
  CASE ar[n].op = "ResultsPrinter"    -> GenPrinter(ar, n, st)
    [] ar[n].op = "BackProbeHashJoin" -> GenJoin(ar, n, st)
    [] ar[n].op = "TableScan"         -> GenScan(ar, n, st)
    [] ar[n].op = "Filter"            -> GenFilter(ar, n, st)

-----------------------------------------------------------------------------
CGInit == Init /\ ops = <<>> /\ owner = <<>> /\ top = 0

\* One step of QueryPlanner::build.
Plan == (Scan \/ Star \/ Join \/ Select) /\ UNCHANGED cgVars

\* CodeGenerator::generate(plan->root) with an empty map.
Generate ==
  /\ pc = "done" /\ top = 0
  /\ LET g == GenInternal(arena, root, [ops |-> <<>>, owner |-> <<>>,
                                        resources |-> EmptyMap, op |-> NoRes])
     IN  /\ ops' = g.ops
         /\ owner' = g.owner
         /\ top' = g.op
  /\ UNCHANGED vars

\* The operator tree has been handed to execution.
Generated == top # 0 /\ UNCHANGED allVars

CGNext == Plan \/ Generate \/ Generated

CGSpec == CGInit /\ [][CGNext]_allVars /\ WF_allVars(CGNext)

-----------------------------------------------------------------------------
Kinds == {"TableScan", "BackProbeHashJoin", "Filter", "ResultsPrinter"}

CGTypeOK ==
  /\ TypeOK
  /\ top \in 0..Len(ops)
  /\ \A r \in DOMAIN owner : owner[r].type \in {"var", "const", "join"}
  /\ \A o \in DOMAIN ops : ops[o].kind \in Kinds
  \* every child Operator was created before its parent, never nullptr
  /\ \A o \in DOMAIN ops :
       /\ ops[o].kind \in {"Filter", "ResultsPrinter"} => ops[o].child \in 1..o - 1
       /\ ops[o].kind = "BackProbeHashJoin" => Range(ops[o].children) \subseteq 1..o - 1

\* Resource r was created for variable v: by a scan for one of its terms,
\* or by a join as its output column of v.
HoldsVar(r, v) == r # NoRes /\ owner[r].id = v /\ owner[r].type \in {"var", "join"}

(***************************************************************************)
(* Spec 4.3: a BackProbeHashJoin probes child x on its join key with the   *)
(* key column of the children before it.  generateBackProbeHashJoin hands  *)
(* it rcs, one map per child.  Every join key a child supplies (one of its *)
(* available variables) must map, in that child's map, to a Resource       *)
(* created for that variable: bindResource must have required it and      *)
(* generateTableScan and the nested joins must have registered it under    *)
(* its id and nothing else there.                                          *)
(***************************************************************************)
JoinKeysWired ==
  top # 0 =>
    \A o \in DOMAIN ops :
      ops[o].kind = "BackProbeHashJoin" =>
        LET nd == arena[ops[o].node]
        IN \A x \in DOMAIN nd.children :
             \A k \in ({nd.joins[x].lk, nd.joins[x].rk} \ {NoKey}) \cap arena[nd.children[x]].avail :
               k \in DOMAIN ops[o].rcs[x] /\ HoldsVar(ops[o].rcs[x][k], k)

(***************************************************************************)
(* generateResultsPrinter reads resources[id] for every projected          *)
(* variable: each must be a Resource that some operator below fills with   *)
(* that variable's values, never nullptr.                                  *)
(***************************************************************************)
PrinterWired ==
  top # 0 =>
    \A v \in DOMAIN ops[top].rcs : HoldsVar(ops[top].rcs[v], v)

(***************************************************************************)
(* Spec 2 and 4.4: an execution owns one Resource per distinct required    *)
(* variable id, shared by the operators that reference it.                 *)
(***************************************************************************)
OneResourcePerVariable ==
  top # 0 =>
    \A r1, r2 \in DOMAIN owner :
      (HoldsVar(r1, owner[r1].id) /\ HoldsVar(r2, owner[r1].id)) => r1 = r2

=============================================================================
