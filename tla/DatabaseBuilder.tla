--------------------------- MODULE DatabaseBuilder ---------------------------
(***************************************************************************)
(* The bulk loader of src/src/database/database_builder.cpp composed with  *)
(* the TripleTable it writes, followed by one TableScan over the result    *)
(* (src/src/operator/table_scan.cpp, the way CodeGenerator::               *)
(* generateTableScan wires it).                                            *)
(*                                                                         *)
(* buildStoragesForPSO walks the triples sorted by (p, s, o): it skips a   *)
(* triple equal to the previous one, appends it to the P batch (subject1,  *)
(* object1) and the SP column (object2), writes the P batch every          *)
(* BatchSize rows and when the predicate changes, and writes the SP        *)
(* segment when the subject or predicate changes.  buildStoragesForPOS     *)
(* does the same in (p, o, s) order for the OP segments.  One action is one *)
(* iteration of a loop; the writes after each loop are one action.         *)
(***************************************************************************)
EXTENDS TripleTable

CONSTANTS
    Datasets,   \* the encoded triple files: sequences of <<sid, pid, oid>>
    BatchSize,  \* rows per P write (2000 in the code)
    Patterns,   \* the TableScans run afterwards
    JunkTriples \* what *iter may read when the sorted file is empty

ASSUME BatchSize \in Nat \ {0}

VARIABLES
    phase,      \* "pso", "pos", "scan", "done"
    input,      \* the sorted triple file the current loop walks
    file,       \* the unsorted triple file
    i,          \* the iterator, as an index into input
    curPid, curKey, prev,
    col1s, col1o, col2,  \* subject1/object1 (P batch), object2 or subject
    sc, more,
    readRet     \* what TripleTable::read returned: "none" before a read

builderVars == <<phase, input, file, i, curPid, curKey, prev, col1s, col1o, col2>>
vars == <<kv, heap, hfile, builderVars, sc, more, readRet>>

RECURSIVE LexLess(_, _)
LexLess(a, b) == Len(a) > 0 /\ (a[1] < b[1] \/ (a[1] = b[1] /\ LexLess(Tail(a), Tail(b))))

\* PtrCompareByPsoOrder / PtrCompareByPosOrder.
LessPSO(a, b) == LexLess(<<a[2], a[1], a[3]>>, <<b[2], b[1], b[3]>>)
LessPOS(a, b) == LexLess(<<a[2], a[3], a[1]>>, <<b[2], b[3], b[1]>>)

Store == [kv |-> kv, df |-> [nodes |-> heap] @@ hfile]

\* Makes store st the new kv, heap and hfile.
Commit(st) ==
    /\ kv' = st.kv /\ heap' = st.df.nodes
    /\ hfile' = [f \in DOMAIN hfile |-> st.df[f]]

\* The triple the loop's setup reads through iter before the loop checks
\* iter != end: the first one, or, for an empty file, whatever the read past
\* the end yields (undefined behaviour; a crash is the other outcome).
FirstTriples(srt) == IF srt = << >> THEN JunkTriples ELSE {srt[1]}

\* Sorter::sort, then the loop's first iterator position.
StartLoop(srt, keyPos) ==
    /\ input' = srt
    /\ i' = 1
    /\ \E t \in FirstTriples(srt) : curPid' = t[2] /\ curKey' = t[keyPos]
    /\ prev' = <<0, 0, 0>>
    /\ col1s' = << >> /\ col1o' = << >> /\ col2' = << >>

Init ==
    /\ kv = << >> /\ heap = << >>
    /\ hfile = TTOpen(NoFile)
    /\ file \in Datasets
    /\ phase = "pso"
    /\ LET srt == SortSeq(file, LessPSO)
       IN  /\ input = srt /\ i = 1
           /\ \E t \in FirstTriples(srt) : curPid = t[2] /\ curKey = t[1]
           /\ prev = <<0, 0, 0>> /\ col1s = << >> /\ col1o = << >> /\ col2 = << >>
    /\ sc = [order |-> "none"] /\ more = FALSE /\ readRet = "none"

\* Mutant: the repeat test leaves the predicate out.
IsDupNoPid(last, t) == last[2] = t[1] /\ last[3] = t[3]

\* The loop's test that triple t repeats the last one appended: last
\* holds (prev_pid, prev_sub, prev_obj), compared with cur_pid, which the
\* loop has just set to t's predicate.
IsDup(last, t) == last = <<t[2], t[1], t[3]>>

\* One iteration of the loop of buildStoragesForPSO.
PsoStep ==
    /\ phase = "pso" /\ i <= Len(input)
    /\ LET t       == input[i]
           newP    == curPid # t[2]
           newS    == newP \/ curKey # t[1]
           st1     == IF newP THEN WriteP(Store, curPid, col1s, col1o) ELSE Store
           st2     == IF newS THEN WriteSP(st1, curKey, curPid, col2) ELSE st1
           s1      == IF newP THEN << >> ELSE col1s
           o1      == IF newP THEN << >> ELSE col1o
           o2      == IF newS THEN << >> ELSE col2
           dup     == IsDup(prev, t)
           s1x     == Append(s1, t[1])
           o1x     == Append(o1, t[3])
           full    == Len(s1x) >= BatchSize
           st3     == IF ~dup /\ full THEN WriteP(st2, t[2], s1x, o1x) ELSE st2
       IN  /\ curPid' = t[2]
           /\ curKey' = t[1]
           /\ prev' = IF dup THEN prev ELSE <<t[2], t[1], t[3]>>
           /\ col1s' = IF dup THEN s1 ELSE IF full THEN << >> ELSE s1x
           /\ col1o' = IF dup THEN o1 ELSE IF full THEN << >> ELSE o1x
           /\ col2' = IF dup THEN o2 ELSE Append(o2, t[3])
           /\ Commit(st3)
    /\ i' = i + 1
    /\ UNCHANGED <<phase, input, file, sc, more, readRet>>

\* After the PSO loop: the last P batch and SP segment, then the POS loop.
PsoEnd ==
    /\ phase = "pso" /\ i > Len(input)
    /\ LET st == WriteSP(WriteP(Store, curPid, col1s, col1o), curKey, curPid, col2)
       IN  /\ kv' = st.kv /\ heap' = st.df.nodes
           \* triple_table.close(), then buildStoragesForPOS's triple_table.open()
           /\ hfile' = TTOpen(TTClose([f \in DOMAIN hfile |-> st.df[f]]))
    /\ phase' = "pos"
    /\ StartLoop(SortSeq(file, LessPOS), 3)
    /\ UNCHANGED <<file, sc, more, readRet>>

\* One iteration of the loop of buildStoragesForPOS.
PosStep ==
    /\ phase = "pos" /\ i <= Len(input)
    /\ LET t    == input[i]
           newK == curPid # t[2] \/ curKey # t[3]
           st   == IF newK THEN WriteOP(Store, curKey, curPid, col2) ELSE Store
           s    == IF newK THEN << >> ELSE col2
           dup  == IsDup(prev, t)
       IN  /\ curPid' = t[2]
           /\ curKey' = t[3]
           /\ prev' = IF dup THEN prev ELSE <<t[2], t[1], t[3]>>
           /\ col2' = IF dup THEN s ELSE Append(s, t[1])
           /\ Commit(st)
    /\ i' = i + 1
    /\ UNCHANGED <<phase, input, file, col1s, col1o, sc, more, readRet>>

\* After the POS loop: the last OP segment.
PosEnd ==
    /\ phase = "pos" /\ i > Len(input)
    /\ LET st == WriteOP(Store, curKey, curPid, col2)
       IN  /\ kv' = st.kv /\ heap' = st.df.nodes
           /\ hfile' = TTClose([f \in DOMAIN hfile |-> st.df[f]])
    /\ phase' = "scan"
    /\ UNCHANGED <<input, file, i, curPid, curKey, prev, col1s, col1o, col2, sc, more, readRet>>

\* The scanner a TableScan over pattern pt starts from: the Resources
\* generateTableScan creates (nullptr when not required), with the ids of
\* the pattern's constants and the column a probe may have bound.
NewScanner(pt) ==
    [order |-> pt.order, hasS |-> pt.hasS, hasO |-> pt.hasO,
     sId |-> pt.sId, oId |-> pt.oId, sCol |-> pt.sCol, oCol |-> pt.oCol,
     keyIds |-> << >>, values |-> << >>, idx |-> 0, xb |-> 0, yb |-> 0, pt |-> pt]

\* TableScan::first(): find(), then next().
ScanFirst ==
    /\ phase = "scan"
    /\ \E pt \in Patterns :
          LET f == ScanFind(NewScanner(pt), pt.p)
              n == ScanNextOf(f.sc)
          IN  /\ sc' = IF f.ok THEN n.sc ELSE f.sc
              /\ more' = (f.ok /\ n.ok)
    /\ phase' = "done"
    /\ UNCHANGED <<kv, heap, hfile, input, file, i, curPid, curKey, prev, col1s, col1o, col2, readRet>>

\* TripleTable::read called once on the loaded table with the Resources of
\* pattern pt (nothing in src calls it; its declaration is public).
TableRead ==
    /\ phase = "scan"
    /\ \E pt \in Patterns :
          LET r == ReadTable(NewScanner(pt), pt.p)
          IN  sc' = r.sc /\ readRet' = r.ret
    /\ more' = FALSE
    /\ phase' = "done"
    /\ UNCHANGED <<kv, heap, hfile, input, file, i, curPid, curKey, prev, col1s, col1o, col2>>

\* TableScan::next(), called while the previous call returned true.
ScanNext ==
    /\ phase = "done" /\ more
    /\ LET n == ScanNextOf(sc) IN sc' = n.sc /\ more' = n.ok
    /\ UNCHANGED <<kv, heap, hfile, builderVars, readRet>>

\* The scan has returned false: the operator is exhausted.
Exhausted == phase = "done" /\ ~more /\ UNCHANGED vars

Next == PsoStep \/ PsoEnd \/ PosStep \/ PosEnd \/ ScanFirst \/ ScanNext \/ TableRead
        \/ Exhausted

Spec == Init /\ [][Next]_vars /\ WF_vars(Next)

-----------------------------------------------------------------------------
Triples == ToSet(file)

\* No id: the test ids of MCDatabaseBuilder are all positive.
None == 0

TypeOK ==
    /\ phase \in {"pso", "pos", "scan", "done"}
    /\ \A k \in DOMAIN kv : kv[k].count \in Nat /\ Len(kv[k].data) < SegDataMax
    /\ \A b \in 1 .. Len(heap) : heap[b].next \in 0 .. Len(heap)
                                 /\ Len(heap[b].data) < NodeDataMax
    /\ i \in 1 .. Len(input) + 1
    /\ more \in BOOLEAN
    /\ readRet \in {"none", "true", "false", "crash"}
    /\ hfile.exists /\ hfile.open \in BOOLEAN
    /\ hfile.hdr.nb \in 1 .. Len(heap) + 1 /\ hfile.len \in Nat

\* The data_file nodes of the chain starting at block b.
RECURSIVE ChainBlocks(_)
ChainBlocks(b) == IF b = 0 THEN {} ELSE {b} \cup ChainBlocks(heap[b].next)

(* Every segment the loader stores holds at least one triple, so a key   *)
(* that find() reports present has rows.  The loader writes a P, SP or OP *)
(* segment only for a predicate, subject or object it has read a triple   *)
(* of, with the rows it appended since the last write; the P write after  *)
(* the loop may carry no rows when the last batch was just flushed, and   *)
(* must then only touch the segment the flush created.  A repeat test     *)
(* that skips a predicate's only triple would leave its segments empty.   *)
NoEmptySegments == \A k \in DOMAIN kv : kv[k].count > 0

\* The node chains of the store: one per segment position that has one.
Chains == {<<k, pos>> \in (DOMAIN kv) \X {1, 2} : kv[k].first[pos] # 0}

(* Every data_file node belongs to one segment position's chain only, and *)
(* each chain ends at the segment's last[pos].  The two builder loops     *)
(* open and close the TripleTable separately, so the POS loop's           *)
(* appendNode continues from the num_block that PSO's close wrote to the  *)
(* header; a stale header would hand out blocks PSO's chains still hold.  *)
ChainsDisjoint ==
    /\ \A c \in Chains :
          LET seg == kv[c[1]] IN seg.last[c[2]] \in ChainBlocks(seg.first[c[2]])
                                 /\ heap[seg.last[c[2]]].next = 0
    /\ \A c, d \in Chains :
          c # d => ChainBlocks(kv[c[1]].first[c[2]]) \cap ChainBlocks(kv[d[1]].first[d[2]]) = {}

(* Every node appendNode handed out lies inside the file: block b spans   *)
(* [b, b + 1) blocks, and the file was truncated to hfile.len blocks when *)
(* num_block outgrew file_size (FILE_GROWTH blocks at a time).            *)
NodesInFile == \A b \in 1 .. Len(heap) : b + 1 <= hfile.len

(* The statistics the planner reads once loading is over (count and       *)
(* distinctCount, through StatisticsManager) equal the loaded data: the P *)
(* count is the number of distinct triples of the predicate, its distinct *)
(* counts the numbers of distinct subjects and objects, and every SP and  *)
(* OP count the number of triples under that key.  They are accumulated   *)
(* over several P batches, the builder's duplicate skipping and the      *)
(* index bitmaps read back and rewritten by every write(P).               *)
StatsMatchData ==
    phase \in {"scan", "done"} =>
        \A p \in {t[2] : t \in Triples} :
            LET tp == {t \in Triples : t[2] = p}
            IN  /\ Count("P", 0, p, 0) = Cardinality(tp)
                /\ DistinctCount("SP", p) = Cardinality({t[1] : t \in tp})
                /\ DistinctCount("OP", p) = Cardinality({t[3] : t \in tp})
                /\ \A t \in tp :
                      /\ Count("SP", t[1], p, 0) = Cardinality({u \in tp : u[1] = t[1]})
                      /\ Count("OP", 0, p, t[3]) = Cardinality({u \in tp : u[3] = t[3]})

\* The rows the scan produced: position k of the live columns, up to the
\* longer of them (a missing entry of the shorter one shows as None).
ScanRows ==
    LET cols == <<IF sc.hasS THEN sc.sCol ELSE << >>, IF sc.hasO THEN sc.oCol ELSE << >>>>
        at(c, k) == IF k <= Len(c) THEN c[k] ELSE None
        n == IF Len(cols[1]) >= Len(cols[2]) THEN Len(cols[1]) ELSE Len(cols[2])
    IN  [k \in 1 .. n |-> <<at(cols[1], k), at(cols[2], k)>>]

\* The key ids a keyed scan looks up.
ScanKeys ==
    CASE sc.pt.order = "SP" -> IF sc.pt.sCol # << >> THEN ToSet(sc.pt.sCol) ELSE {sc.pt.sId}
      [] sc.pt.order = "OP" -> IF sc.pt.oCol # << >> THEN ToSet(sc.pt.oCol) ELSE {sc.pt.oId}
      [] OTHER -> {}

\* The stored triples the pattern of the scan selects.
PatternMatch ==
    {t \in Triples : t[2] = sc.pt.p /\
        CASE sc.pt.order = "SP" -> t[1] \in ScanKeys
          [] sc.pt.order = "OP" -> t[3] \in ScanKeys
          [] OTHER -> TRUE}

\* A triple projected on the live Resources.
Proj(t) == <<IF sc.hasS THEN t[1] ELSE None, IF sc.hasO THEN t[3] ELSE None>>

\* One row per selected triple, projected, as a bag.
AllMatchRows ==
    [r \in {Proj(t) : t \in PatternMatch} |-> Cardinality({t \in PatternMatch : Proj(t) = r})]

\* The rows the scan should produce, as a bag: one per stored triple of the
\* pattern, projected on the live Resources; an SP scan without object (an
\* OP scan without subject) yields each key that has a triple once.
ExpectedRows ==
    IF (sc.pt.order = "SP" /\ ~sc.hasO) \/ (sc.pt.order = "OP" /\ ~sc.hasS)
    THEN [r \in {Proj(t) : t \in PatternMatch} |-> 1]
    ELSE AllMatchRows

ScanDone == phase = "done" /\ ~more /\ sc.order # "none" /\ readRet = "none"

\* read() has returned (true or false; not crashed).
ReadDone == phase = "done" /\ readRet \in {"true", "false"}

(* A TableScan with a bound subject or object (SP or OP order), run to    *)
(* exhaustion through BlockScanner::find/next/read, has produced exactly  *)
(* the stored triples of its key or keys: inline and chained segments,    *)
(* keys looked up one by one or as a bound column, with the constant      *)
(* column padded to the length of the scanned one.                        *)
ScanRowsKeyed ==
    (ScanDone /\ sc.pt.order \in {"SP", "OP"}) => ToBag(ScanRows) = ExpectedRows

(* A TableScan in P order (predicate only), run to exhaustion, has        *)
(* produced exactly the subject/object pairs stored under its predicate.  *)
ScanRowsP ==
    (ScanDone /\ sc.pt.order = "P") => ToBag(ScanRows) = ExpectedRows
(* TripleTable::read with a bound subject or object (SP or OP order),     *)
(* whether keys are looked up one by one or as a bound column, returns    *)
(* one row per stored triple of its keys: the value column from inline   *)
(* data and chains, the key column padded per key from the running k, or *)
(* a key repeated `count` times when the value Resource is null.         *)
ReadRowsKeyed ==
    (ReadDone /\ sc.pt.order \in {"SP", "OP"}) => ToBag(ScanRows) = AllMatchRows

(* read() with a bound subject or object (SP or OP order) returns true   *)
(* exactly when it has produced rows: false only for a key with no stored *)
(* triple, so that a caller can take false for "no match".               *)
ReadReportsRows ==
    (ReadDone /\ sc.pt.order \in {"SP", "OP"}) => ((readRet = "true") <=> ScanRows # << >>)

(* read() never dereferences a null Resource: a P-order read with no      *)
(* object Resource does not crash.                                        *)
ReadNoNullDeref == readRet # "crash"

\* The nodes of the chain starting at block b.
RECURSIVE ChainLen(_)
ChainLen(b) == IF b = 0 THEN 0 ELSE 1 + ChainLen(heap[b].next)

\* What is left to the scanner: fetched values not yet visited, then the
\* nodes of the chains it is reading.
Remaining == <<Len(sc.values) - sc.idx, ChainLen(sc.xb) + ChainLen(sc.yb)>>

(* Every TableScan::next() that returns true has consumed a fetched      *)
(* value or a node of a chain (idx, x_block_no and y_block_no advance),   *)
(* lexicographically: a consumer that loops on next() until it returns    *)
(* false therefore stops after finitely many calls.                      *)
ScanProgress ==
    [][ScanNext /\ more' => LexLess(Remaining', Remaining)]_vars
=============================================================================
