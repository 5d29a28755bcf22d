------------------------- MODULE StatisticsManager -------------------------
(***************************************************************************)
(* StatisticsManager (src/src/database/statistics_manager.cpp) over the    *)
(* store DatabaseBuilder has loaded, read the way                          *)
(* QueryPlanner::createTableScanNode reads it for one triple pattern       *)
(* (Database::executeQuery hands the planner a StatisticsManager over the *)
(* same TripleTable).  Ids are dictionary ids; 0 stands for "not bound".  *)
(* The manager only reads, so it adds no action: its answers are          *)
(* operators over the builder's state, checked once loading is over.      *)
(***************************************************************************)
EXTENDS DatabaseBuilder, PlanStatistics

\* dict.count(): the number of terms the dictionary has encoded, which
\* are the distinct ids of the loaded triples.
DictCount == Cardinality(UNION {ToSet(t) : t \in Triples})

\* getCount(subject, predicate, object): a count per combination of bound
\* ids; the ones marked "todo" in the code answer 1.
GetCount3(s, p, o) ==
    CASE s # 0 /\ p # 0 /\ o = 0 -> Count("SP", s, p, o)
      [] s = 0 /\ p # 0 /\ o # 0 -> Count("OP", s, p, o)
      [] s = 0 /\ p # 0 /\ o = 0 -> Count("P", s, p, o)
      [] s = 0 /\ p = 0 /\ o = 0 -> 0
      [] OTHER                   -> 1

\* getCount(key_order, subject, predicate, object).
GetCount(order, s, p, o) == Count(order, s, p, o)

\* Mutant: the SP and OP cases forward each other's order.
GetDistinctCountSwapped(order, s, p, o) ==
    CASE order = "SP"  -> DistinctCount("OP", p)
      [] order = "OP"  -> DistinctCount("SP", p)
      [] order = "SPO" -> DictCount
      [] OTHER         -> 1

\* getDistinctCount(key_order, subject, predicate, object).
GetDistinctCount(order, s, p, o) ==
    CASE order \in {"SP", "OP"} -> DistinctCount(order, p)
      [] order = "SPO"          -> DictCount
      [] OTHER                  -> 1

\* Mutant: the SP cardinality asked with the subject left unbound, as in
\* the density line below it.
ScanStatsUnboundKey(p, s, o) ==
    [pcount |-> GetCount("P", 0, p, 0),
     sdist  |-> GetDistinctCount("SP", 0, p, 0),
     odist  |-> GetDistinctCount("OP", 0, p, 0),
     sbound |-> GetCount("SP", 0, p, 0),
     obound |-> GetCount("OP", 0, p, o)]

\* The calls createTableScanNode makes for a pattern with predicate p and
\* bound subject s or object o: the cardinality of an SP, OP or P scan and
\* the counts its densities divide.
ScanStats(p, s, o) ==
    [pcount |-> GetCount("P", 0, p, 0),
     sdist  |-> GetDistinctCount("SP", 0, p, 0),
     odist  |-> GetDistinctCount("OP", 0, p, 0),
     sbound |-> GetCount("SP", s, p, 0),
     obound |-> GetCount("OP", 0, p, o)]

\* The cardinality createTableScanNode sets for the scan of pattern pt.
ScanCardinality(pt) ==
    LET st == ScanStats(pt.p, pt.sId, pt.oId)
    IN  CASE pt.order = "SP" -> st.sbound
          [] pt.order = "OP" -> st.obound
          [] OTHER           -> st.pcount

-----------------------------------------------------------------------------
Loaded == phase \in {"scan", "done"}

(* The statistics the loaded store reports for any predicate it holds and *)
(* any subject or object id are what QueryPlanner assumes of StatChoices: *)
(* a positive P count to divide by, distinct counts within it, and SP/OP  *)
(* counts that leave every other distinct value a triple.  They come from *)
(* separate paths of the loader (counts added per write, index bitmaps    *)
(* merged per P batch) and of the manager (which order getDistinctCount  *)
(* forwards), and the planner's runs rely on them.                        *)
PlannerStatsSound ==
    Loaded =>
        \A p \in {t[2] : t \in Triples} :
            \A s \in {t[1] : t \in Triples}, o \in {t[3] : t \in Triples} :
                AdmissibleStats(ScanStats(p, s, o))

(* A TableScan over a bound subject (SP) or a bound object (OP), with    *)
(* both columns required, returns as many rows as the cardinality the    *)
(* planner estimated for it from the statistics: the counts the loader   *)
(* accumulated agree with the data the scanner reads back from inline    *)
(* segments and node chains.  P scans are left out: next() reads inline  *)
(* P data as overlapping pairs (the store_p_scan run), so they return    *)
(* 2n-1 rows for n inline triples.                                       *)
EstimateMatchesScan ==
    (ScanDone /\ sc.pt.order \in {"SP", "OP"} /\ sc.hasS /\ sc.hasO
              /\ sc.pt.sCol = << >> /\ sc.pt.oCol = << >>)
        => Len(ScanRows) = ScanCardinality(sc.pt)
=============================================================================
