----------------------------- MODULE TripleTable -----------------------------
(***************************************************************************)
(* The triple store of src/src/storage/triple_table.cpp.                   *)
(*                                                                         *)
(* The key-value store maps a Key <<label, x, y>> (label 1: P segment of   *)
(* predicate x; 2: SP segment of subject x, predicate y; 4: OP segment of  *)
(* object x, predicate y) to a Segment.  A Segment keeps up to             *)
(* SEGMENT_DATA_MAX_SIZE bytes of ids inline (`data`) and otherwise one    *)
(* chain of data_file nodes per position (1: subject, 2: object), from     *)
(* first[pos] to last[pos].  `heap` is the data_file: heap[b] is node b    *)
(* (block 0 is the file header, so the first node appended is block 1).   *)
(* `hfile` is the rest of the HeapFile: whether the file exists and is    *)
(* open, the Header in memory (`hdr`: num_block and file_size, counted in *)
(* blocks), the Header last written to block 0 (`disk`), and the length   *)
(* the file was truncated to (`len`, in blocks).                          *)
(* The serialised roaring bitmaps of the index_file are abstracted to the *)
(* sets of ids they hold (`index`).                                        *)
(*                                                                         *)
(* Sizes are counted in ids (4 bytes): SegDataMax is                       *)
(* SEGMENT_DATA_MAX_SIZE / 4 and NodeDataMax is NODE_DATA_MAX_SIZE / 4,    *)
(* which keeps every size comparison of the code exact.                    *)
(*                                                                         *)
(* BlockScanner (find, next, read) is modelled over a scanner record `sc`: *)
(* which of subject/object is a live Resource (the code's nullptr tests),  *)
(* the Resources' ids and columns, key_ids, the fetched values, idx and    *)
(* the two block cursors x_block_no / y_block_no.                          *)
(***************************************************************************)
EXTENDS Integers, Sequences, FiniteSets, SequencesExt, TLC

CONSTANTS
    SegDataMax,    \* SEGMENT_DATA_MAX_SIZE in ids
    NodeDataMax,   \* NODE_DATA_MAX_SIZE in ids
    FileGrowth     \* HeapFile::FILE_GROWTH in blocks

ASSUME SegDataMax \in Nat /\ NodeDataMax \in Nat \ {0, 1} /\ FileGrowth \in Nat \ {0}

VARIABLES kv, heap, hfile

\* Key labels (the Key.label byte).
PLabel  == 1
SPLabel == 2
OPLabel == 4

\* A multiGet miss: the empty string.
Missing == [miss |-> TRUE]

IsMissing(v) == "miss" \in DOMAIN v

\* The header a write() gives a segment that is not yet in the store.
FreshSegment ==
    [count |-> 0, distinct |-> <<0, 0>>, first |-> <<0, 0>>, last |-> <<0, 0>>,
     index |-> <<{}, {}>>, data |-> << >>]

NewNode == [next |-> 0, data |-> << >>]

SegmentAt(kvs, key) == IF key \in DOMAIN kvs THEN kvs[key] ELSE FreshSegment

Put(kvs, key, seg) == (key :> seg) @@ kvs

-----------------------------------------------------------------------------
(* The HeapFile.  A data file `df` threaded through the writes is the     *)
(* record hfile with the nodes added as `nodes`.                           *)

\* No file on disk yet.
NoFile == [exists |-> FALSE, open |-> FALSE, hdr |-> [nb |-> 0, size |-> 0],
           disk |-> [nb |-> 0, size |-> 0], len |-> 0]

\* HeapFile::create(FILE_GROWTH, 0): num_block 1, file_size of capacity
\* blocks, the file truncated to it and the header written.
HFCreate(f) ==
    [f EXCEPT !.exists = TRUE, !.disk = [nb |-> 1, size |-> FileGrowth], !.len = FileGrowth]

\* HeapFile::open: create the file when missing, then readHeader.
HFOpen(f) ==
    LET g == IF f.exists THEN f ELSE HFCreate(f)
    IN  [g EXCEPT !.open = TRUE, !.hdr = g.disk]

\* Mutant: close() without its writeHeader().
HFCloseNoHeader(f) == [f EXCEPT !.open = FALSE]

\* HeapFile::close: writeHeader, flush the pages, close the file.
HFClose(f) == [f EXCEPT !.open = FALSE, !.disk = f.hdr]

\* TripleTable::open / close, of which only the data_file has state here
\* (the key-value store is `kv`, the index_file is abstracted away).
TTOpen(f)  == HFOpen(f)
TTClose(f) == HFClose(f)

\* Mutant: the growth test made with the block number handed out rather
\* than the incremented num_block.
AppendNodeOldCount(df) ==
    LET b    == df.hdr.nb
        nb   == b + 1
        grow == b > df.hdr.size
    IN  [df EXCEPT !.nodes = IF b <= Len(@) THEN [@ EXCEPT ![b] = NewNode] ELSE Append(@, NewNode),
                   !.hdr = [nb |-> nb, size |-> IF grow THEN nb + FileGrowth ELSE @.size],
                   !.len = IF grow THEN nb + FileGrowth ELSE @]

\* HeapFile::appendNode: the node numbered header->num_block (written over
\* whatever that block held); when num_block blocks no longer fit in
\* file_size the file is truncated to num_block + FILE_GROWTH blocks.
AppendNode(df) ==
    LET b    == df.hdr.nb
        nb   == b + 1
        grow == nb > df.hdr.size
    IN  [df EXCEPT !.nodes = IF b <= Len(@) THEN [@ EXCEPT ![b] = NewNode] ELSE Append(@, NewNode),
                   !.hdr = [nb |-> nb, size |-> IF grow THEN nb + FileGrowth ELSE @.size],
                   !.len = IF grow THEN nb + FileGrowth ELSE @]

-----------------------------------------------------------------------------
\* Appends one id to the chain ending at node acc.cur, opening a new node
\* when the current one is full.
AppendId(acc, id) ==
    IF Len(acc.df.nodes[acc.cur].data) + 1 >= NodeDataMax
    THEN LET b == acc.df.hdr.nb
             a == AppendNode(acc.df)
         IN  [cur |-> b,
              df  |-> [a EXCEPT !.nodes[acc.cur].next = b, !.nodes[b].data = <<id>>]]
    ELSE [acc EXCEPT !.df.nodes[acc.cur].data = Append(@, id)]

WriteDataInlineAtLimit(seg, pos, col, df) ==
    IF Len(seg.data) + Len(col) <= SegDataMax /\ seg.last[pos] = 0
    THEN [seg |-> [seg EXCEPT !.data = @ \o col], df |-> df]
    ELSE LET fresh == seg.last[pos] = 0
             start == IF fresh THEN df.hdr.nb ELSE seg.last[pos]
             df0   == IF fresh THEN AppendNode(df) ELSE df
             seg0  == IF fresh THEN [seg EXCEPT !.first[pos] = start] ELSE seg
             r     == FoldLeft(AppendId, [cur |-> start, df |-> df0], col)
         IN  [seg |-> [seg0 EXCEPT !.last[pos] = r.cur], df |-> r.df]

\* writeData(segment, pos, column): inline while the segment has room and
\* the position has no chain yet; otherwise append to the position's chain,
\* starting it with a fresh node.
WriteData(seg, pos, col, df) ==
    IF Len(seg.data) + Len(col) < SegDataMax /\ seg.last[pos] = 0
    THEN [seg |-> [seg EXCEPT !.data = @ \o col], df |-> df]
    ELSE LET fresh == seg.last[pos] = 0
             start == IF fresh THEN df.hdr.nb ELSE seg.last[pos]
             df0   == IF fresh THEN AppendNode(df) ELSE df
             seg0  == IF fresh THEN [seg EXCEPT !.first[pos] = start] ELSE seg
             r     == FoldLeft(AppendId, [cur |-> start, df |-> df0], col)
         IN  [seg |-> [seg0 EXCEPT !.last[pos] = r.cur], df |-> r.df]

AddToIndexReplacing(seg, pos, col) ==
    [seg EXCEPT !.index[pos] = ToSet(col), !.distinct[pos] = Cardinality(ToSet(col))]

\* readBitVector, add the column, writeBitVector (which sets the distinct
\* count of the position).
AddToIndex(seg, pos, col) ==
    LET ix == seg.index[pos] \cup ToSet(col)
    IN  [seg EXCEPT !.index[pos] = ix, !.distinct[pos] = Cardinality(ix)]

\* write(P, subject, predicate, object) on store st = [kv, df]: the
\* subject and object columns of one batch.
WriteP(st, p, scol, ocol) ==
    LET key == <<PLabel, p, 0>>
        w1  == WriteData(SegmentAt(st.kv, key), 1, scol, st.df)
        w2  == WriteData(w1.seg, 2, ocol, w1.df)
        seg == AddToIndex(AddToIndex([w2.seg EXCEPT !.count = @ + Len(scol)],
                                     1, scol), 2, ocol)
    IN  [kv |-> Put(st.kv, key, seg), df |-> w2.df]

\* write(SP, subject, predicate, object): the objects of subject s.
WriteSP(st, s, p, ocol) ==
    LET key == <<SPLabel, s, p>>
        w   == WriteData(SegmentAt(st.kv, key), 2, ocol, st.df)
    IN  [kv |-> Put(st.kv, key, [w.seg EXCEPT !.count = @ + Len(ocol)]), df |-> w.df]

\* write(OP, subject, predicate, object): the subjects of object o.
WriteOP(st, o, p, scol) ==
    LET key == <<OPLabel, o, p>>
        w   == WriteData(SegmentAt(st.kv, key), 1, scol, st.df)
    IN  [kv |-> Put(st.kv, key, [w.seg EXCEPT !.count = @ + Len(scol)]), df |-> w.df]

\* count(order, s, p, o): 0 when the key is missing.
Count(order, s, p, o) ==
    LET key == CASE order = "P"  -> <<PLabel, p, 0>>
                 [] order = "SP" -> <<SPLabel, s, p>>
                 [] order = "OP" -> <<OPLabel, o, p>>
    IN  IF key \in DOMAIN kv THEN kv[key].count ELSE 0

\* distinctCount(order, s, p, o): both orders read the P segment.
DistinctCount(order, p) ==
    LET key == <<PLabel, p, 0>>
    IN  IF key \in DOMAIN kv
        THEN kv[key].distinct[IF order = "SP" THEN 1 ELSE 2] ELSE 0

-----------------------------------------------------------------------------
(* BlockScanner *)

\* Pads column col with v up to length n (the push_back(id) loops).
PadTo(col, v, n) == col \o [i \in 1 .. n - Len(col) |-> v]

\* The ids of node b (node->data up to dsize).
NodeData(b) == heap[b].data

\* x_block_no not advanced when the subject chain is read alone.
ScanReadKeepsBlock(sc) ==
    IF sc.xb # 0 /\ sc.yb # 0
    THEN [sc |-> [sc EXCEPT !.sCol = @ \o NodeData(sc.xb), !.xb = heap[sc.xb].next,
                            !.oCol = @ \o NodeData(sc.yb), !.yb = heap[sc.yb].next],
          ok |-> TRUE]
    ELSE IF sc.xb # 0
    THEN LET s == sc.sCol \o NodeData(sc.xb)
         IN  [sc |-> [sc EXCEPT !.sCol = s,
                                !.oCol = IF sc.hasO THEN PadTo(@, sc.oId, Len(s)) ELSE @],
              ok |-> TRUE]
    ELSE IF sc.yb # 0
    THEN LET o == sc.oCol \o NodeData(sc.yb)
         IN  [sc |-> [sc EXCEPT !.oCol = o, !.yb = heap[sc.yb].next,
                                !.sCol = IF sc.hasS THEN PadTo(@, sc.sId, Len(o)) ELSE @],
              ok |-> TRUE]
    ELSE [sc |-> sc, ok |-> FALSE]

\* read(): one node of each live chain; a chain read alone pads the other
\* column with its Resource's id.
ScanRead(sc) ==
    IF sc.xb # 0 /\ sc.yb # 0
    THEN [sc |-> [sc EXCEPT !.sCol = @ \o NodeData(sc.xb), !.xb = heap[sc.xb].next,
                            !.oCol = @ \o NodeData(sc.yb), !.yb = heap[sc.yb].next],
          ok |-> TRUE]
    ELSE IF sc.xb # 0
    THEN LET s == sc.sCol \o NodeData(sc.xb)
         IN  [sc |-> [sc EXCEPT !.sCol = s, !.xb = heap[sc.xb].next,
                                !.oCol = IF sc.hasO THEN PadTo(@, sc.oId, Len(s)) ELSE @],
              ok |-> TRUE]
    ELSE IF sc.yb # 0
    THEN LET o == sc.oCol \o NodeData(sc.yb)
         IN  [sc |-> [sc EXCEPT !.oCol = o, !.yb = heap[sc.yb].next,
                                !.sCol = IF sc.hasS THEN PadTo(@, sc.sId, Len(o)) ELSE @],
              ok |-> TRUE]
    ELSE [sc |-> sc, ok |-> FALSE]

\* The inline part of a P segment, read as consecutive overlapping pairs
\* (entry_x at byte x, entry_y at byte x + 4, both advancing by 4).
InlinePairs(sc, d) ==
    [sc EXCEPT !.sCol = IF sc.hasS THEN @ \o [k \in 1 .. Len(d) - 1 |-> d[k]] ELSE @,
               !.oCol = IF sc.hasO THEN @ \o [k \in 1 .. Len(d) - 1 |-> d[k + 1]] ELSE @]

\* The tail of one loop iteration that found no inline data:
\* `if(read()) return true; return false;`.
ReadOrStop(sc) == LET r == ScanRead(sc) IN [sc |-> r.sc, ok |-> r.ok]

\* The while loop of next() over the fetched values, from idx on.
RECURSIVE ScanLoop(_, _)
ScanLoop(sc, exist) ==
    IF sc.idx >= Len(sc.values) THEN [sc |-> sc, ok |-> exist]
    ELSE
    LET j   == sc.idx + 1
        sc1 == [sc EXCEPT !.idx = j]
        seg == sc.values[j]
    IN
    IF IsMissing(seg) THEN ScanLoop(sc1, exist)
    ELSE CASE sc.order = "P" ->
              LET sc2 == [sc1 EXCEPT !.xb = IF sc.hasS THEN seg.first[1] ELSE @,
                                     !.yb = IF sc.hasO THEN seg.first[2] ELSE @]
              IN  IF seg.data # << >> THEN [sc |-> InlinePairs(sc2, seg.data), ok |-> TRUE]
                  ELSE ReadOrStop(sc2)
           [] sc.order = "SP" /\ sc.hasO ->
              LET sc2 == [sc1 EXCEPT !.sId = sc.keyIds[j], !.yb = seg.first[2]]
                  o   == sc2.oCol \o seg.data
              IN  IF seg.data # << >>
                  THEN [sc |-> [sc2 EXCEPT !.oCol = o, !.sCol = PadTo(@, sc2.sId, Len(o))],
                        ok |-> TRUE]
                  ELSE ReadOrStop(sc2)
           [] sc.order = "SP" ->
              ScanLoop([sc1 EXCEPT !.sId = sc.keyIds[j],
                                   !.sCol = Append(@, sc.keyIds[j])], TRUE)
           [] sc.order = "OP" /\ sc.hasS ->
              LET sc2 == [sc1 EXCEPT !.oId = sc.keyIds[j], !.xb = seg.first[1]]
                  s   == sc2.sCol \o seg.data
              IN  IF seg.data # << >>
                  THEN [sc |-> [sc2 EXCEPT !.sCol = s, !.oCol = PadTo(@, sc2.oId, Len(s))],
                        ok |-> TRUE]
                  ELSE ReadOrStop(sc2)
           [] sc.order = "OP" ->
              ScanLoop([sc1 EXCEPT !.oId = sc.keyIds[j],
                                   !.oCol = Append(@, sc.keyIds[j])], TRUE)

\* next(): the pending chains first, then the remaining values.
ScanNextOf(sc) ==
    LET r == ScanRead(sc) IN IF r.ok THEN r ELSE ScanLoop(r.sc, FALSE)

\* The segment a multiGet returns for key, or the empty string.
Fetch(key) == IF key \in DOMAIN kv THEN kv[key] ELSE Missing

\* get(key): the one segment of key, with key_ids = <<id>>; false on a miss.
Get(sc, key, id) ==
    IF key \in DOMAIN kv
    THEN [sc |-> [sc EXCEPT !.keyIds = <<id>>, !.values = <<kv[key]>>], ok |-> TRUE]
    ELSE [sc |-> sc, ok |-> FALSE]

\* multiGet(keys): one value per key id of the bound column.
MultiGet(sc, ids, label, p) ==
    [sc EXCEPT !.keyIds = ids, !.values = [i \in DOMAIN ids |-> Fetch(<<label, ids[i], p>>)]]

ClearKeyColumnKept(sc) == sc

\* subject->column.clear() / object->column.clear() after the multiGet.
ClearKeyColumn(sc) ==
    IF sc.order = "SP" THEN [sc EXCEPT !.sCol = << >>] ELSE [sc EXCEPT !.oCol = << >>]

\* find(): fetch the P segment, the segments of a bound column of keys,
\* or the segment of the one key of the pattern.
ScanFind(sc, p) ==
    CASE sc.order = "P" ->
         LET g == Get(sc, <<PLabel, p, 0>>, p) IN [g EXCEPT !.sc.keyIds = sc.keyIds]
      [] sc.order = "SP" /\ sc.sCol # << >> ->
         [sc |-> ClearKeyColumn(MultiGet(sc, sc.sCol, SPLabel, p)), ok |-> TRUE]
      [] sc.order = "SP" -> Get(sc, <<SPLabel, sc.sId, p>>, sc.sId)
      [] sc.order = "OP" /\ sc.oCol # << >> ->
         [sc |-> ClearKeyColumn(MultiGet(sc, sc.oCol, OPLabel, p)), ok |-> TRUE]
      [] sc.order = "OP" -> Get(sc, <<OPLabel, sc.oId, p>>, sc.oId)
-----------------------------------------------------------------------------
(* TripleTable::read, the older read path: the whole pattern in one call. *)

\* readData(segment, pos, column): the ids of every node of the chain that
\* starts at block b (nothing when b is 0).
RECURSIVE ChainData(_)
ChainData(b) == IF b = 0 THEN << >> ELSE heap[b].data \o ChainData(heap[b].next)

\* `k` declared inside the loop over the keys: every key pads from row 0.
KeyedSegmentPadFromZero(acc, seg, id, kc, vc, pos) ==
    LET v == acc.sc[vc] \o seg.data \o ChainData(seg.first[pos])
    IN  [sc |-> [acc.sc EXCEPT ![vc] = v, ![kc] = @ \o [j \in 1 .. Len(v) |-> id]],
         exist |-> acc.exist \/ seg.data # << >> \/ seg.first[pos] # 0]

\* One present segment of the multiGet branch when the value Resource is
\* live: its inline ids, then readData of its chain, then the key column
\* padded with the key id from the running k up to the value column's size.
KeyedSegment(acc, seg, id, kc, vc, pos) ==
    LET v == acc.sc[vc] \o seg.data \o ChainData(seg.first[pos])
    IN  [sc |-> [acc.sc EXCEPT ![vc] = v, ![kc] = PadTo(@, id, Len(v))],
         exist |-> acc.exist \/ seg.data # << >> \/ seg.first[pos] # 0]

\* The branch for a bound key column (kc) of label's segments: multiGet of
\* one key per id, the key column cleared, then per present segment either
\* KeyedSegment or, with no value Resource, the key id `count` times.
ReadMulti(sc, p, label, kc, vc, hasV, pos) ==
    LET ids  == sc[kc]
        vals == [j \in DOMAIN ids |-> Fetch(<<label, ids[j], p>>)]
        step(acc, j) ==
            IF IsMissing(vals[j]) THEN acc
            ELSE IF hasV THEN KeyedSegment(acc, vals[j], ids[j], kc, vc, pos)
            ELSE [sc |-> [acc.sc EXCEPT ![kc] = @ \o [c \in 1 .. vals[j].count |-> ids[j]]],
                  exist |-> TRUE]
        r == FoldLeft(step, [sc |-> [sc EXCEPT ![kc] = << >>], exist |-> FALSE],
                      [j \in 1 .. Len(ids) |-> j])
    IN  [sc |-> r.sc, ret |-> IF r.exist THEN "true" ELSE "false"]

\* The branch for the one key id sc[idf]: get, then the value column and
\* the key id once per value row; with no value Resource the key id
\* `count` times, and exist is never set.
ReadSingle(sc, p, label, kc, vc, idf, hasV, pos) ==
    LET key == <<label, sc[idf], p>>
        seg == kv[key]
        v   == sc[vc] \o seg.data \o ChainData(seg.first[pos])
    IN  IF key \notin DOMAIN kv THEN [sc |-> sc, ret |-> "false"]
        ELSE IF hasV
        THEN [sc |-> [sc EXCEPT ![vc] = v, ![kc] = @ \o [j \in 1 .. Len(v) |-> sc[idf]]],
              ret |-> IF seg.data # << >> \/ seg.first[pos] # 0 THEN "true" ELSE "false"]
        ELSE [sc |-> [sc EXCEPT ![kc] = @ \o [j \in 1 .. seg.count |-> sc[idf]]],
              ret |-> "false"]

\* The P branch: the inline data read as overlapping pairs, where the
\* object half is pushed only through a null object (`object == nullptr`),
\* which crashes once the loop body runs; then both chains.
ReadP(sc, p) ==
    LET key == <<PLabel, p, 0>>
        seg == kv[key]
        d   == seg.data
    IN  IF key \notin DOMAIN kv THEN [sc |-> sc, ret |-> "false"]
        ELSE IF ~sc.hasO /\ Len(d) >= 2 THEN [sc |-> sc, ret |-> "crash"]
        ELSE [sc |-> [sc EXCEPT
                 !.sCol = IF sc.hasS
                          THEN @ \o [k \in 1 .. Len(d) - 1 |-> d[k]] \o ChainData(seg.first[1])
                          ELSE @,
                 !.oCol = IF sc.hasO THEN @ \o ChainData(seg.first[2]) ELSE @],
              ret |-> IF d # << >> \/ (sc.hasS /\ seg.first[1] # 0)
                                   \/ (sc.hasO /\ seg.first[2] # 0)
                      THEN "true" ELSE "false"]

\* read(key_order, subject, predicate, object).
ReadTable(sc, p) ==
    CASE sc.order = "P" -> ReadP(sc, p)
      [] sc.order = "SP" /\ sc.sCol # << >> ->
         ReadMulti(sc, p, SPLabel, "sCol", "oCol", sc.hasO, 2)
      [] sc.order = "SP" -> ReadSingle(sc, p, SPLabel, "sCol", "oCol", "sId", sc.hasO, 2)
      [] sc.order = "OP" /\ sc.oCol # << >> ->
         ReadMulti(sc, p, OPLabel, "oCol", "sCol", sc.hasS, 1)
      [] sc.order = "OP" -> ReadSingle(sc, p, OPLabel, "oCol", "sCol", "oId", sc.hasS, 1)
=============================================================================
