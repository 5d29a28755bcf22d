--------------------------- MODULE QueryPlanner ---------------------------
(***************************************************************************)
(* QueryPlanner::build (src/src/plan/query_planner.cpp): per-pattern scans,    *)
(* star extraction, the subset DP over BackProbeHashJoin plans with their  *)
(* alternatives chains, selection of the cheapest full plan, then          *)
(* bindResource and optimizeJoin.  The planner is a single sequential      *)
(* computation; each action is one step of it (one scan, the star phase,  *)
(* one body of the DP's innermost loop, the final selection).  Plan nodes  *)
(* live in an arena (the MemoryPool of QueryPlan) addressed by index;      *)
(* index 0 is the null pointer.                                            *)
(***************************************************************************)
EXTENDS Integers, Sequences, FiniteSets, SequencesExt, CostArith, PlanStatistics

CONSTANTS
    NumNodes,     \* graph.numOfNodes(): the number of triple patterns
    Queries,      \* the query graphs to plan: records [pat, proj]
    StatChoices,  \* per-pattern statistics a database can report
    BlockSize     \* BLOCK_SIZE of the scan cost estimate

Nodes == 1..NumNodes
NoKey == -1          \* UINT32_MAX, the "no join key" sentinel of JoinNode
Null  == 0           \* the null PlanNode pointer

(***************************************************************************)
(* Statistics of one pattern's predicate: count(P) = pcount, the distinct  *)
(* subject and object counts of its P segment, and count(SP) = sbound and  *)
(* count(OP) = obound of the bound constant, as PlanStatistics describes   *)
(* them; StatisticsManager checks that a loaded store reports such counts. *)
(***************************************************************************)
ASSUME \A st \in StatChoices : AdmissibleStats(st)

VARIABLES
    graph,     \* the QueryGraph being planned (fixed)
    stat,      \* StatisticsManager answers per pattern (fixed)
    pc,        \* which phase of build() runs next
    arena,     \* QueryPlan::node_pool: the PlanNodes created so far
    sols,      \* solution_pool: QuerySolution records [nodes, root]
    items,     \* node_solutions: indexes into sols
    resToNode, \* res_to_node: variable -> patterns using it, in scan order
    maxCount,  \* max_count
    maxRes,    \* max_res
    scanI,     \* the loop index of phase 1
    dp,        \* dp_table: level -> sequence of solution indexes
    lookup,    \* lookup: covered node set -> solution index
    cursor,    \* the DP loop position <<i, j, k, left>> about to run
    root       \* plan->root once build() has finished

vars == <<graph, stat, pc, arena, sols, items, resToNode, maxCount, maxRes,
          scanI, dp, lookup, cursor, root>>

IsVar(t) == t.type = "var"

\* A PlanNode of the allocator: every field default-initialised.
NewNode == [op |-> "None", next |-> Null, children |-> <<>>, joins |-> <<>>,
            joinRes |-> <<>>, avail |-> {}, req |-> {}, nodeIndex |-> 0,
            order |-> "None", qn |-> [s |-> [type |-> "none", id |-> 0],
                                      o |-> [type |-> "none", id |-> 0]],
            filterKey |-> 0, proj |-> {}, card |-> QZero, costs |-> QZero,
            dens |-> <<>>]

JoinNode(lk, rk) == [lk |-> lk, rk |-> rk, canFilter |-> FALSE,
                     lpos |-> "unset", rpos |-> "unset"]

DensAt(n, v) == IF v \in DOMAIN n.dens THEN n.dens[v] ELSE QZero

\* *BitSet::begin(): the lowest set bit.
LowestVar(S) == CHOOSE v \in S : \A w \in S : v <= w

-----------------------------------------------------------------------------
(* Node constructors *)

\* createTableScanNode: access order, cardinality, scan cost and densities.
TableScanNode(i) ==
  LET qn    == graph.pat[i]
      st    == stat[i]
      order == IF ~IsVar(qn.s) THEN "SP" ELSE IF ~IsVar(qn.o) THEN "OP" ELSE "P"
      card  == CASE order = "P" -> st.pcount [] order = "SP" -> st.sbound
                 [] order = "OP" -> st.obound
      width == IF order = "P" THEN 2 ELSE 1
      avail == CASE order = "SP" -> {qn.o.id}
                 [] order = "OP" -> {qn.s.id}
                 [] order = "P"  -> {qn.s.id, qn.o.id}
      dens  == CASE order = "SP" -> [v \in {qn.o.id} |-> Frac(st.odist, st.pcount)]
                 [] order = "OP" -> [v \in {qn.s.id} |-> Frac(st.sdist, st.pcount)]
                 [] order = "P"  -> [v \in {qn.s.id, qn.o.id} |->
                                      IF v = qn.o.id THEN Frac(st.odist, card)
                                                     ELSE Frac(st.sdist, card)]
  IN [NewNode EXCEPT !.op = "TableScan", !.nodeIndex = i, !.qn = qn,
                     !.order = order, !.card = Nat2Q(card),
                     !.costs = Frac(card * 4 * width + BlockSize, BlockSize),
                     !.avail = avail, !.dens = dens]

\* createFilterNode(filter_key, 0, child)
FilterNode(key, child, c) ==
  [NewNode EXCEPT !.op = "Filter", !.children = <<c>>, !.filterKey = key,
                  !.avail = child.avail, !.costs = QAdd(child.costs, child.card),
                  !.card = child.card]

\* createBackProbeHashJoin: densities are the per-variable maximum.
BackProbeHashJoin(cs, joins, joinRes, avail, ar) ==
  LET ds == UNION {DOMAIN ar[c].dens : c \in Range(cs)}
  IN [NewNode EXCEPT !.op = "BackProbeHashJoin", !.children = cs,
                     !.joins = joins, !.joinRes = joinRes, !.avail = avail,
                     !.dens = [v \in ds |->
                        QSetMax({ar[c].dens[v] : c \in {c2 \in Range(cs) :
                                                     v \in DOMAIN ar[c2].dens}})]]

\* The greedy, order-fixed lower-bound estimate over a child sequence shared
\* by buildStar and the in-place extension of a BackProbeHashJoin: a running
\* per-variable bound keyc, the accumulated cost, and the last child's bound.
\* Mutant: the child's own scan cost is left out of the total.
GreedyStepNoChildCost(ar, acc, c) ==
  LET n      == ar[c]
      shared == n.avail \cap DOMAIN acc.keyc
      cost   == QSetMin({n.card} \cup {QDiv(acc.keyc[v], DensAt(n, v)) : v \in shared})
  IN [total |-> QAdd(acc.total, cost),
      last  |-> cost,
      keyc  |-> [v \in DOMAIN acc.keyc \cup n.avail |->
                   IF v \notin n.avail THEN acc.keyc[v]
                   ELSE IF v \in shared THEN QMin(acc.keyc[v], QMul(cost, DensAt(n, v)))
                   ELSE QMul(cost, DensAt(n, v))]]

GreedyStep(ar, acc, c) ==
  LET n      == ar[c]
      shared == n.avail \cap DOMAIN acc.keyc
      cost   == QSetMin({n.card} \cup {QDiv(acc.keyc[v], DensAt(n, v)) : v \in shared})
  IN [total |-> QAdd(acc.total, QAdd(n.costs, cost)),
      last  |-> cost,
      keyc  |-> [v \in DOMAIN acc.keyc \cup n.avail |->
                   IF v \notin n.avail THEN acc.keyc[v]
                   ELSE IF v \in shared THEN QMin(acc.keyc[v], QMul(cost, DensAt(n, v)))
                   ELSE QMul(cost, DensAt(n, v))]]

GreedyEstimate(ar, cs) ==
  LET c0 == ar[cs[1]]
  IN FoldLeft(LAMBDA acc, c : GreedyStep(ar, acc, c),
              [total |-> QAdd(c0.costs, c0.card), last |-> QZero,
               keyc  |-> [v \in c0.avail |-> QMul(c0.card, DensAt(c0, v))]],
              Tail(cs))

\* The star join of buildStar: children already in ascending-cardinality order.
StarNode(ar, cs, key) ==
  LET vs   == UNION {{t.id : t \in {u \in {ar[c].qn.s, ar[c].qn.o} : IsVar(u)}} : c \in Range(cs)}
      node == BackProbeHashJoin(cs, [x \in DOMAIN cs |-> JoinNode(NoKey, key)],
                                <<key>>, vs, ar)
      est  == GreedyEstimate(ar, cs)
  IN [node EXCEPT !.costs = est.total, !.card = est.keyc[key]]

\* Mutant: the old children keep their left join keys.
ExtendedJoinKeepsKeys(ar, l, r, key) ==
  LET cs    == <<r>> \o ar[l].children
      node  == BackProbeHashJoin(cs, <<JoinNode(NoKey, key)>> \o ar[l].joins,
                                 <<key>> \o ar[l].joinRes,
                                 ar[l].avail \cup ar[r].avail, ar)
      est   == GreedyEstimate(ar, cs)
  IN [node EXCEPT !.costs = est.total, !.card = est.last]

\* Extending a BackProbeHashJoin in place: the new pattern r becomes the
\* first (driving) child, and every old child that supplies the new key has
\* it recorded as its left join key.
ExtendedJoin(ar, l, r, key) ==
  LET cs    == <<r>> \o ar[l].children
      joins == <<JoinNode(NoKey, key)>> \o
               [x \in DOMAIN ar[l].joins |->
                  IF key \in ar[ar[l].children[x]].avail
                  THEN [ar[l].joins[x] EXCEPT !.lk = key] ELSE ar[l].joins[x]]
      node  == BackProbeHashJoin(cs, joins, <<key>> \o ar[l].joinRes,
                                 ar[l].avail \cup ar[r].avail, ar)
      est   == GreedyEstimate(ar, cs)
  IN [node EXCEPT !.costs = est.total, !.card = est.last]

\* Mutant: the left child gets no JoinNode.
PairJoinOneJoinNode(ar, l, r, key) ==
  LET L == ar[l]
      R == ar[r]
      node == BackProbeHashJoin(<<r, l>>, <<JoinNode(NoKey, key)>>,
                                <<key>>, L.avail \cup R.avail, ar)
      leftCost == QMin(L.card, QDiv(QMul(R.card, DensAt(R, key)), DensAt(L, key)))
  IN [node EXCEPT !.costs = QAdd(QAdd(R.costs, R.card), QAdd(L.costs, leftCost)),
                  !.card = leftCost]

\* A new two-child BackProbeHashJoin with the right side r driving.
PairJoin(ar, l, r, key) ==
  LET L == ar[l]
      R == ar[r]
      node == BackProbeHashJoin(<<r, l>>, <<JoinNode(NoKey, key), JoinNode(NoKey, key)>>,
                                <<key>>, L.avail \cup R.avail, ar)
      leftCost == QMin(L.card, QDiv(QMul(R.card, DensAt(R, key)), DensAt(L, key)))
  IN [node EXCEPT !.costs = QAdd(QAdd(R.costs, R.card), QAdd(L.costs, leftCost)),
                  !.card = leftCost]

-----------------------------------------------------------------------------
(* The DP loop of buildJoin *)

NoCursor == [i |-> 0, j |-> 0, k |-> 0, left |-> Null]

(***************************************************************************)
(* The next position of the loops "for i, for j, for k, while left" at or  *)
(* after (i, j, k, l) whose body does something: positions whose node sets *)
(* intersect, and chain entries sharing no variable with the right side,   *)
(* change no state and are passed over.  l = -1 stands for the head of     *)
(* dp[i-1][j]'s alternatives chain.                                        *)
(***************************************************************************)
RECURSIVE SeekOverlapping(_, _, _, _, _, _, _, _)
\* Mutant: node sets that intersect are joined too.
SeekOverlapping(i, j, k, l, n, dpv, sv, ar) ==
  IF i > n THEN NoCursor
  ELSE IF j > Len(dpv[i-1]) THEN SeekOverlapping(i+1, 1, 1, -1, n, dpv, sv, ar)
  ELSE IF k > Len(dpv[1]) THEN SeekOverlapping(i, j+1, 1, -1, n, dpv, sv, ar)
  ELSE LET left == IF l = -1 THEN sv[dpv[i-1][j]].root ELSE l
       IN IF left = Null THEN SeekOverlapping(i, j, k+1, -1, n, dpv, sv, ar)
          ELSE IF ar[left].avail \cap ar[sv[dpv[1][k]].root].avail = {}
               THEN SeekOverlapping(i, j, k, ar[left].next, n, dpv, sv, ar)
          ELSE [i |-> i, j |-> j, k |-> k, left |-> left]

RECURSIVE Seek(_, _, _, _, _, _, _, _)
Seek(i, j, k, l, n, dpv, sv, ar) ==
  IF i > n THEN NoCursor
  ELSE IF j > Len(dpv[i-1]) THEN Seek(i+1, 1, 1, -1, n, dpv, sv, ar)
  ELSE IF k > Len(dpv[1]) THEN Seek(i, j+1, 1, -1, n, dpv, sv, ar)
  ELSE IF sv[dpv[i-1][j]].nodes \cap sv[dpv[1][k]].nodes # {}
       THEN Seek(i, j, k+1, -1, n, dpv, sv, ar)
  ELSE LET left == IF l = -1 THEN sv[dpv[i-1][j]].root ELSE l
       IN IF left = Null THEN Seek(i, j, k+1, -1, n, dpv, sv, ar)
          ELSE IF ar[left].avail \cap ar[sv[dpv[1][k]].root].avail = {}
               THEN Seek(i, j, k, ar[left].next, n, dpv, sv, ar)
          ELSE [i |-> i, j |-> j, k |-> k, left |-> left]

-----------------------------------------------------------------------------
(* bindResource and optimizeJoin, top-down over the chosen tree *)

RECURSIVE BindResource(_, _, _), BindChildren(_, _, _)
BindResource(ar, n, required) ==
  LET node == ar[n]
      res  == CASE node.op = "ResultsPrinter" -> required \cup node.proj
                [] node.op = "BackProbeHashJoin" ->
                     required \cup ({node.joins[x][f] : x \in 2..Len(node.joins), f \in {"lk", "rk"}} \ {NoKey})
                [] OTHER -> required
  IN BindChildren([ar EXCEPT ![n].req = required], node.children, res)
BindChildren(ar, cs, res) ==
  IF cs = <<>> THEN ar ELSE BindChildren(BindResource(ar, Head(cs), res), Tail(cs), res)

\* A child of a join that is a predicate-only scan is filtered by pushdown.
MarkFilter(jn, qn) ==
  [jn EXCEPT !.canFilter = TRUE,
             !.lpos = IF qn.s.id = jn.lk THEN "SUBJECT" ELSE "OBJECT",
             !.rpos = IF qn.s.id = jn.rk THEN "SUBJECT" ELSE "OBJECT"]

RECURSIVE OptimizeJoin(_, _)
OptimizeJoin(ar, n) ==
  LET node == ar[n]
      IsPScan(c) == ar[c].op = "TableScan" /\ ar[c].order = "P"
      ar1 == IF node.op = "BackProbeHashJoin"
             THEN [ar EXCEPT ![n].joins =
                     [x \in DOMAIN node.joins |->
                        IF x > 1 /\ IsPScan(node.children[x])
                        THEN MarkFilter(node.joins[x], ar[node.children[x]].qn)
                        ELSE node.joins[x]]]
             ELSE ar
  IN FoldLeft(LAMBDA a, c : OptimizeJoin(a, c), ar1, node.children)

-----------------------------------------------------------------------------
(* The steps of build() *)

Init ==
  /\ graph \in Queries
  /\ stat \in [Nodes -> StatChoices]
  /\ pc = "scan"
  /\ arena = <<>>
  /\ sols = <<>>
  /\ items = <<>>
  /\ resToNode = [v \in {} |-> <<>>]
  /\ maxCount = 0
  /\ maxRes = 0
  /\ scanI = 1
  /\ dp = [l \in Nodes |-> <<>>]
  /\ lookup = [s \in {} |-> 0]
  /\ cursor = NoCursor
  /\ root = Null

\* res_to_node[t.id].push_back(i), and max_count/max_res follow the first
\* variable to reach a strictly larger count.
Count(rt, mc, mr, t, i) ==
  IF ~IsVar(t) THEN [rt |-> rt, mc |-> mc, mr |-> mr]
  ELSE LET rt2 == [v \in DOMAIN rt \cup {t.id} |->
                     IF v = t.id THEN (IF v \in DOMAIN rt THEN rt[v] ELSE <<>>) \o <<i>>
                     ELSE rt[v]]
       IN IF Len(rt2[t.id]) > mc THEN [rt |-> rt2, mc |-> Len(rt2[t.id]), mr |-> t.id]
          ELSE [rt |-> rt2, mc |-> mc, mr |-> mr]

\* One iteration of phase 1: buildScan(graph, i), then the variable counts
\* read from the root's query_node (a Filter root carries a default one).
Scan ==
  /\ pc = "scan"
  /\ LET i    == scanI
         scan == TableScanNode(i)
         qn   == graph.pat[i]
         filt == qn.s.id = qn.o.id
         ar   == IF filt THEN arena \o <<scan, FilterNode(qn.s.id, scan, Len(arena) + 1)>>
                 ELSE Append(arena, scan)
         rootNode == ar[Len(ar)]
         c1 == Count(resToNode, maxCount, maxRes, rootNode.qn.s, i)
         c2 == Count(c1.rt, c1.mc, c1.mr, rootNode.qn.o, i)
     IN /\ arena' = ar
        /\ sols' = Append(sols, [nodes |-> {i}, root |-> Len(ar)])
        /\ items' = Append(items, Len(sols) + 1)
        /\ resToNode' = c2.rt
        /\ maxCount' = c2.mc
        /\ maxRes' = c2.mr
        /\ scanI' = i + 1
        /\ pc' = IF i = NumNodes THEN "star" ELSE "scan"
  /\ UNCHANGED <<graph, stat, dp, lookup, cursor, root>>

\* The orders std::sort may leave the star's children in: ascending
\* cardinality, equal cardinalities in any order (the sort is not stable).
SortedOrders(S) ==
  {s \in [1..Cardinality(S) -> S] :
     /\ Range(s) = S
     /\ \A x \in 1..Cardinality(S) - 1 :
          QLeq(arena[sols[s[x]].root].card, arena[sols[s[x+1]].root].card)}

\* Phase 2 (when max_res is in more than two and over half the patterns)
\* and the setup of the DP table.
StartJoin(its, ar, sv) ==
  LET n == Len(its)
      dp1 == [dp EXCEPT ![1] = its]
  IN /\ items' = its
     /\ arena' = ar
     /\ sols' = sv
     /\ dp' = dp1
     /\ cursor' = Seek(2, 1, 1, -1, n, dp1, sv, ar)
     /\ pc' = IF cursor' = NoCursor THEN "select" ELSE "join"

Star ==
  /\ pc = "star"
  /\ LET members == resToNode[maxRes]
         isStar  == Len(members) > 2 /\ 2 * Len(members) > NumNodes
         extracted == {items[m] : m \in Range(members)}
     IN IF ~isStar THEN StartJoin(items, arena, sols)
        ELSE \E order \in SortedOrders(extracted) :
               LET cs   == [x \in DOMAIN order |-> sols[order[x]].root]
                   node == StarNode(arena, cs, maxRes)
                   star == [nodes |-> UNION {sols[s].nodes : s \in extracted},
                            root |-> Len(arena) + 1]
               IN StartJoin(SelectSeq(items, LAMBDA s : s \notin extracted)
                              \o <<Len(sols) + 1>>,
                            Append(arena, node), Append(sols, star))
  /\ UNCHANGED <<graph, stat, resToNode, maxCount, maxRes, scanI, lookup, root>>

\* One body of buildJoin's innermost loop: join the alternative `left` of
\* dp[i-1][j] with dp[1][k] on the lowest shared variable, and record the
\* plan as the solution of the union or as a new head of its alternatives.
Join ==
  /\ pc = "join"
  /\ LET c     == cursor
         ls    == dp[c.i - 1][c.j]
         rs    == dp[1][c.k]
         l     == c.left
         r     == sols[rs].root
         key   == LowestVar(arena[l].avail \cap arena[r].avail)
         union == sols[ls].nodes \cup sols[rs].nodes
         exist == union \in DOMAIN lookup
         s     == IF exist THEN lookup[union] ELSE Len(sols) + 1
         id    == Len(arena) + 1
         node  == IF arena[l].op = "BackProbeHashJoin" THEN ExtendedJoin(arena, l, r, key)
                  ELSE PairJoin(arena, l, r, key)
         ar2   == Append(arena, IF exist THEN [node EXCEPT !.next = sols[s].root] ELSE node)
         sv2   == IF exist THEN [sols EXCEPT ![s].root = id]
                  ELSE Append(sols, [nodes |-> union, root |-> id])
         dp2   == IF exist THEN dp ELSE [dp EXCEPT ![c.i] = Append(@, s)]
     IN /\ arena' = ar2
        /\ sols' = sv2
        /\ dp' = dp2
        /\ lookup' = IF exist THEN lookup
                     ELSE [u \in DOMAIN lookup \cup {union} |->
                             IF u = union THEN s ELSE lookup[u]]
        /\ cursor' = Seek(c.i, c.j, c.k, arena[l].next, Len(items), dp2, sv2, ar2)
        /\ pc' = IF cursor' = NoCursor THEN "select" ELSE "join"
  /\ UNCHANGED <<graph, stat, items, resToNode, maxCount, maxRes, scanI, root>>

\* The alternatives chain starting at plan node n.
RECURSIVE Chain(_, _)
Chain(ar, n) == IF n = Null THEN <<>> ELSE <<n>> \o Chain(ar, ar[n].next)

\* The first alternative of least cost ("costs < best_node->costs").
Cheapest(ar, n) ==
  FoldLeft(LAMBDA b, x : IF QLt(ar[x].costs, ar[b].costs) THEN x ELSE b, n, Chain(ar, n))

\* Phase 4 to 6: select the cheapest plan for all nodes, wrap it in a
\* ResultsPrinter, then bindResource and optimize from the new root.
Select ==
  /\ pc = "select"
  /\ Len(dp[Len(items)]) > 0
  /\ LET best    == Cheapest(arena, sols[dp[Len(items)][1]].root)
         id      == Len(arena) + 1
         printer == [NewNode EXCEPT !.op = "ResultsPrinter", !.children = <<best>>,
                                    !.proj = graph.proj,
                                    !.costs = QAdd(arena[best].costs, arena[best].card),
                                    !.card = arena[best].card]
     IN /\ arena' = OptimizeJoin(BindResource(Append(arena, printer), id, {}), id)
        /\ root' = id
        /\ pc' = "done"
  /\ UNCHANGED <<graph, stat, sols, items, resToNode, maxCount, maxRes, scanI,
                 dp, lookup, cursor>>

\* build() has returned; the plan no longer changes.
Done ==
  /\ pc = "done"
  /\ UNCHANGED vars

Next == Scan \/ Star \/ Join \/ Select \/ Done

Spec == Init /\ [][Next]_vars /\ WF_vars(Next)

-----------------------------------------------------------------------------
(* Properties *)

Ops == {"TableScan", "Filter", "BackProbeHashJoin", "ResultsPrinter"}

TypeOK ==
  /\ pc \in {"scan", "star", "join", "select", "done"}
  /\ \A n \in DOMAIN arena :
       /\ arena[n].op \in Ops
       /\ arena[n].next \in 0..Len(arena)
       /\ Range(arena[n].children) \subseteq 1..Len(arena)
       /\ arena[n].op = "BackProbeHashJoin" => Len(arena[n].joins) = Len(arena[n].children)
  /\ \A s \in DOMAIN sols : sols[s].nodes \subseteq Nodes /\ sols[s].root \in DOMAIN arena
  /\ Range(items) \subseteq DOMAIN sols
  /\ root \in 0..Len(arena)

\* The pattern indexes under plan node n, one per TableScan reached.
RECURSIVE Leaves(_, _)
Leaves(ar, n) ==
  IF ar[n].op = "TableScan" THEN <<ar[n].nodeIndex>>
  ELSE FoldLeft(LAMBDA acc, c : acc \o Leaves(ar, c), <<>>, ar[n].children)

CoversOnce(ar, n, S) ==
  LET ls == Leaves(ar, n) IN Len(ls) = Cardinality(S) /\ Range(ls) = S

\* The plan nodes of the tree under n.
RECURSIVE Tree(_, _)
Tree(ar, n) == {n} \cup UNION {Tree(ar, c) : c \in Range(ar[n].children)}

(***************************************************************************)
(* Every alternative recorded for a covered-node set, at every level of    *)
(* the DP, scans exactly the patterns of that set, each once: in-place     *)
(* extension, nesting of the star and chaining of alternatives keep a plan *)
(* and its QuerySolution in agreement.                                     *)
(***************************************************************************)
AlternativesCoverTheirNodes ==
  \A s \in DOMAIN sols :
    \A x \in Range(Chain(arena, sols[s].root)) : CoversOnce(arena, x, sols[s].nodes)

(***************************************************************************)
(* Combining plans never yields a cost below either input's cost (the      *)
(* cost formulas of buildStar, the extension and the pair join).           *)
(***************************************************************************)
CostsMonotone ==
  \A n \in DOMAIN arena :
    \A c \in Range(arena[n].children) : QLeq(arena[c].costs, arena[n].costs)

(***************************************************************************)
(* After bindResource, every join key a child is paired on is in that      *)
(* child's required_res, so the code generator creates the Resource the    *)
(* back-probe reads; this includes the driving child, whose own pairing    *)
(* bindResource skips.                                                     *)
(***************************************************************************)
JoinKeysRequired ==
  pc = "done" =>
    \A n \in Tree(arena, root) :
      arena[n].op = "BackProbeHashJoin" =>
        \A x \in DOMAIN arena[n].children :
          ({arena[n].joins[x].lk, arena[n].joins[x].rk} \ {NoKey})
            \subseteq arena[arena[n].children[x]].req

(***************************************************************************)
(* Spec 3 and 4.3: joins never form cross products, and a join runs its   *)
(* children as a semi-join chain in child order.  So in the chosen plan    *)
(* each child after the driver shares a variable with the children before  *)
(* it.                                                                     *)
(***************************************************************************)
ProbeOrderConnected ==
  pc = "done" =>
    \A n \in Tree(arena, root) :
      arena[n].op = "BackProbeHashJoin" =>
        \A x \in 2..Len(arena[n].children) :
          arena[arena[n].children[x]].avail
            \cap UNION {arena[arena[n].children[y]].avail : y \in 1..x-1} # {}

(***************************************************************************)
(* Spec 8: of two patterns sharing a variable, the planner drives the join *)
(* with the pattern of smaller estimated cardinality.                      *)
(***************************************************************************)
SmallerPatternDrives ==
  (pc = "done" /\ NumNodes = 2) =>
    LET j == arena[arena[root].children[1]]
    IN QLeq(arena[j.children[1]].card, arena[j.children[2]].card)

=============================================================================
