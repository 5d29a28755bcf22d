--------------------------- MODULE PlanStatistics ---------------------------
(***************************************************************************)
(* What QueryPlanner::createTableScanNode takes for granted of the         *)
(* statistics it reads for one pattern (src/src/plan/query_planner.cpp,    *)
(* lines 338-360): the P count of the predicate (pcount), the distinct     *)
(* subject and object counts of its P segment (sdist, odist), and the SP   *)
(* count of the bound subject (sbound) or the OP count of the bound object *)
(* (obound).  The planner divides by pcount, so it must be positive; a     *)
(* bound constant holds no triple (0) or at least one, leaving one triple *)
(* each to the other distinct values, and a lone value holds them all.    *)
(* QueryPlanner assumes it of its StatChoices; StatisticsManager checks   *)
(* it of the counts a loaded store reports.                               *)
(***************************************************************************)
EXTENDS Integers

AdmissibleStats(st) ==
    /\ st.pcount > 0
    /\ st.sdist \in 1 .. st.pcount /\ st.odist \in 1 .. st.pcount
    /\ st.sbound \in {0} \cup {c \in 1 .. st.pcount - st.sdist + 1 :
                                 st.sdist = 1 => c = st.pcount}
    /\ st.obound \in {0} \cup {c \in 1 .. st.pcount - st.odist + 1 :
                                 st.odist = 1 => c = st.pcount}
=============================================================================
