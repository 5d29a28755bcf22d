------------------------- MODULE MCDatabaseBuilder -------------------------
(* Instance of DatabaseBuilder: triple files over two subjects, two        *)
(* predicates and two objects, in any order and with one triple possibly  *)
(* repeated, and every TableScan shape generateTableScan can build over    *)
(* them.                                                                   *)
EXTENDS StatisticsManager

CONSTANTS Subjects, Predicates, Objects, MaxTriples

Universe == Subjects \X Predicates \X Objects

\* Triple files: a set of distinct triples in PSO order, or in reverse,
\* possibly with its first triple repeated at the end.
MCDatasets ==
    LET sets == {T \in SUBSET Universe : T # {} /\ Cardinality(T) <= MaxTriples}
        seqs == {SortSeq(SetToSeq(T), LessPSO) : T \in sets}
    IN  seqs \cup {Append(f, f[1]) : f \in seqs} \cup {Reverse(f) : f \in seqs}

\* Ids that may be bound as a column by a probe: one or two keys.
BoundColumns(ids) == {<<a>> : a \in ids} \cup {c \in ids \X ids : c[1] # c[2]}

MCPatterns ==
    LET base == [order |-> "P", hasS |-> TRUE, hasO |-> TRUE, sId |-> 0, oId |-> 0,
                 sCol |-> << >>, oCol |-> << >>, p |-> 0]
    IN  {[base EXCEPT !.p = p, !.hasS = live[1], !.hasO = live[2]] :
            p \in Predicates, live \in (BOOLEAN \X BOOLEAN) \ {<<FALSE, FALSE>>}}
        \cup {[base EXCEPT !.order = "SP", !.p = p, !.sId = s, !.hasO = ho] :
                 p \in Predicates, s \in Subjects, ho \in BOOLEAN}
        \cup {[base EXCEPT !.order = "SP", !.p = p, !.sCol = c, !.hasO = ho] :
                 p \in Predicates, c \in BoundColumns(Subjects), ho \in BOOLEAN}
        \cup {[base EXCEPT !.order = "OP", !.p = p, !.oId = o, !.hasS = hs] :
                 p \in Predicates, o \in Objects, hs \in BOOLEAN}
        \cup {[base EXCEPT !.order = "OP", !.p = p, !.oCol = c, !.hasS = hs] :
                 p \in Predicates, c \in BoundColumns(Objects), hs \in BOOLEAN}

\* JunkTriples: a triple made of the ids an empty mapping may hold; no
\* dataset here is empty, so only a change of Datasets reaches it.
MCJunk == {<<7, 9, 7>>}
=============================================================================
