# TLA+ models of the bphj triple store

This directory holds TLA+ models of the bphj RDF triple store (`src/src`).
Each model covers one part of the system: the query planner, the build side of the hash join, and the storage layer together with the bulk loader that fills it.
Every definition is translated from the C++ source.
`PROJECT.json` maps each definition to the lines it models.

## The system and how its parts interact

```
RDF files ─ DatabaseBuilder ─► TripleTable (kvstore segments + HeapFile node chains)
                                   │  count / distinctCount
                                   ▼
QueryGraph ─► QueryPlanner (StatisticsManager) ─► PlanNode tree
                                   │
                                   ▼
                CodeGenerator ─► Operators (TableScan ─ BlockScanner, Filter, HashJoin)
```

* **DatabaseBuilder** (`database/database_builder.cpp`)
  * Sorts the encoded triples in PSO order and writes P segments. A P segment holds the subject and object columns of a predicate, flushed every 2000 rows and whenever the predicate changes.
  * In the same pass it writes SP segments, the objects of each subject/predicate pair.
  * It then sorts in POS order and writes OP segments.
* **TripleTable** (`storage/triple_table.cpp`)
  * Keeps one segment per key `<label, x, y>` in a key-value store.
  * A segment's data is stored inline while it fits. Otherwise it goes to a chain of HeapFile nodes, one chain per column position.
  * P segments also keep a bitvector per position. The bitvector's cardinality is the distinct count.
  * `BlockScanner` does the reading. `find` fetches the segments with `get` or `multiGet`. `next` and `read` hand the data out in batches.
* **QueryPlanner** (`plan/query_planner.cpp`)
  * Builds one scan per triple pattern.
  * Extracts a star join when one variable is in more than two patterns and in over half of all patterns.
  * Runs a subset DP over BackProbeHashJoin plans. Each solution keeps a chain of alternatives.
  * Picks the cheapest alternative, then runs `bindResource` and `optimizeJoin`.
  * Cardinalities and densities come from `StatisticsManager`, which forwards to `TripleTable::count` and `distinctCount`. `Database::executeQuery` hands the planner a `StatisticsManager` over the table the builder loaded.
* **CodeGenerator** (`runtime/code_generator.cpp`) turns plan nodes into operators.
  * It threads a map from id to Resource through the recursion. A scan registers the Resources it creates under the ids in its `required_res`.
  * A join gives each child a fresh map. It then creates one output Resource per required id its children registered, and inserts them into the caller's map.
  * `generateTableScan` creates a Resource only for the variables the plan requires; the others are passed as nullptr. The bound constant and the predicate always get one.
* **HashJoin** (`operator/hash_join.cpp`)
  * Holds a cuckoo hash table with two slots per key, up to `max_loop` evictions, then doubling and rehashing.
  * Entries with the same key are chained.
  * The operator's `first` and `next` are stubs in this version, so only the table has behaviour.

## Modules

| Module | Models | State | Actions |
|---|---|---|---|
| `CostArith` | the planner's double arithmetic, as exact rationals | – | – |
| `QueryPlanner` | `QueryPlanner::build` and its helpers, `PlanNode`/`JoinNode` | the plan-node arena (`QueryPlan::node_pool`), the solutions, `node_solutions`, `res_to_node`, `max_count`/`max_res`, `dp_table`, `lookup`, the DP loop position, `root` | `Scan` (one `buildScan` iteration), `Star` (phase 2 and the DP setup), `Join` (one body of the DP's innermost loop), `Select` (selection, the results printer, `bindResource`, `optimizeJoin`), `Done` |
| `MCQueryPlanner` | every connected query of `NumNodes` patterns, with canonical variable numbering and two kinds of predicate statistics | | |
| `CuckooHashTable` | `HashJoin::HashTable`: the sized constructor, `insert(resources)`, `insert(Entry*)`, `rehash`, `lookup` | `table`, `table_size`, `max_loop`, `num_keys`, the entry pool, the outcome of the undefined shift in `hash2`, and a history of inserted rows | `Insert` (one `insert(resources)` call, with every eviction and nested rehash), `Done` |
| `TripleTable` | `write` (P/SP/OP), `writeData`, the bitvector index as sets, `count`, `distinctCount`, `BlockScanner::find/next/read`, and the older `TripleTable::read` (P, SP and OP, single key and multi-key) | the key-value store `kv` (key ↦ segment header and inline data), `heap` (HeapFile nodes) and `hfile` (the data file: whether it exists and is open, the in-memory header, the header on disk, the file length in blocks) | operators only, among them `HFOpen`/`HFClose` (`HeapFile::open` with `readHeader`, `close` with `writeHeader`), `AppendNode` (with file growth by `FileGrowth` blocks) and `TTOpen`/`TTClose`; the actions are in `DatabaseBuilder` |
| `DatabaseBuilder` | `buildStoragesForPSO`/`POS` composed with `TripleTable` (closed after the PSO loop and opened again for the POS loop), then one `TableScan` wired as `generateTableScan` wires it | the loop variables of both builder loops (`cur_pid`, `cur_sub`/`cur_obj`, `prev`, the column buffers), and the scanner | `PsoStep`, `PsoEnd`, `PosStep`, `PosEnd` (one loop iteration each, or the writes after the loop), `ScanFirst` (`TableScan::first`), `ScanNext`, `TableRead` (one `TripleTable::read` call), `Exhausted` |
| `PlanStatistics` | what `createTableScanNode` assumes of the statistics of one pattern (`AdmissibleStats`); `QueryPlanner` assumes it of its `StatChoices` | – | – |
| `StatisticsManager` | both `getCount` overloads, `getDistinctCount`, and the calls `createTableScanNode` makes for a pattern (`ScanStats`), over the store `DatabaseBuilder` loads | `DatabaseBuilder`'s | none: the manager only reads |
| `MCDatabaseBuilder` (extends `StatisticsManager`) | small datasets and every scan pattern over them | | |
| `JoinTable` | what the join's hash table promises: a bag of (key, row) pairs | `stored`, the multiplicity of each pair; `inserted`, the (key, row) requests so far | `Insert` |
| `CodeGenerator` | `QueryPlanner::build` followed by `CodeGenerator::generate(plan->root)` | the planner's state, plus the Operators created (`ops`), the query term each Resource was created for (`owner`), and the returned root operator (`top`) | `Plan` (one planner step), `Generate` (the whole recursive `generateInternal`), `Generated` |
| `MCCodeGenerator` | the planner's query graphs of `MCQueryPlanner`, with the predicate's dictionary id `PredId` | | |

How the modules correspond to the code:
* **Whole handlers.**
  * Every action models a whole handler or a whole loop iteration.
  * A `write(P)` in the builder includes its `writeData` calls, the count update and both bitvector read/merge/write cycles.
  * A DP iteration in `Join` includes node creation, the cost estimate, and the insertion into `dp_table`/`lookup` or into the alternatives chain.
* **Resources as numbers.** A Resource is its index in `owner`; 0 is nullptr. An Operator is a record of the Resources it was constructed with.
* **Recursion.** Recursive C++ (`insert(Entry*)` calling `rehash` calling `insert`, `bindResource`, `optimizeJoin`) is written as RECURSIVE operators inside one action.
* **Loop cursor.** `Seek` skips DP positions whose body changes nothing: node sets that intersect, and alternatives that share no variable with the right side.
* **Undefined behaviour.**
  * `hash2` shifts by 32, so it yields either `key & mask` or 0. Both outcomes are explored.
  * `HashTable(size_t)` leaves `num_keys` uninitialised. `NumKeysInit` sets the values it may hold.

## Runs

| Run | Expect | What it shows |
|---|---|---|
| `planner_core` (`MCQueryPlanner.cfg`, 4 patterns, ≈605k states) | pass | Covered: every connected query of four patterns over three variables and a constant, every statistics choice and every tie order of the star sort. Results: `AlternativesCoverTheirNodes` (every alternative of a DP solution covers exactly its node set, each pattern once); `CostsMonotone` (no plan node costs less than any of its children); `JoinKeysRequired` (every join key reaches its child's `required_res`, so the code generator creates the Resource the probe needs). |
| `planner_cross_probe` (`MCQueryPlannerCross.cfg`, 3 patterns) | violation | `ProbeOrderConnected`: the in-place extension of a BackProbeHashJoin yields a probe order in which a child shares no variable with the children before it, a cross product. |
| `planner_driver` (`MCQueryPlannerDriver.cfg`, 2 patterns) | violation | `SmallerPatternDrives`: the two orientations of a pair join can cost the same. Selection then keeps the newest, which here is driven by the larger pattern. The spec's end-to-end example says the smaller drives. |
| `cuckoo_table` (`MCCuckooHashTable.cfg`) | pass | Covered: 4 inserts of keys {0,2,4,6}, which collide in the low bit and force evictions and rehashes from table size 2 up to 8, under both `hash2` outcomes. Results: `CuckooPlacement` (entries sit in one of their key's two slots, one chain per key); `ImplementsJoinTable` (refinement: with `stored` mapped to the number of entries of key k and row v that `lookup(k)` and its chain hand out, and `inserted` mapped to the requests the table has served, every insert of the table is the `JoinTable` step for the same key and row, so no insert, eviction or rehash loses, duplicates or misfiles a row and none is taken as a stutter). |
| `cuckoo_num_keys` (`MCCuckooNumKeys.cfg`) | violation | `NumKeysCounts`: `numOfKeys()` starts from the uninitialised `num_keys`. |
| `store_build_scan` (`MCDatabaseBuilder.cfg`, ≈83k states) | pass | Covered: every dataset of up to 4 triples over 2 subjects, 2 predicates and 2 objects, also with a duplicate, in sorted or reversed input order. Segment and node sizes are shrunk so that batches, inline data, chains and multi-node chains all occur. Results: `StatsMatchData` (count and distinctCount equal the data); `ScanRowsKeyed` (every SP/OP scan, with a constant key or a bound key column, returns exactly the stored triples); `ReadRowsKeyed` (the same for `TripleTable::read`, whose multi-key path pads the key column per segment); `ScanProgress` (every `next()` that reports more rows strictly decreases the pair ⟨ids left in the batch, chain nodes left⟩, so a caller's loop over `next()` ends); `NoEmptySegments` (no P, SP or OP segment is stored without rows, also when the P write after the loop follows a flush); `ChainsDisjoint` (every segment's node chain ends at its `last` block, and no two chains share a block, also after the TripleTable is closed and reopened between the PSO and POS loops, which only the header `close` writes and `open` reads carries across); `NodesInFile` (every node `appendNode` hands out lies inside the file it grew); `PlannerStatsSound` (for every predicate, subject and object of the loaded store, the counts `StatisticsManager` reports are of the kind `QueryPlanner` assumes of `StatChoices`, which justifies the planner runs' statistics); `EstimateMatchesScan` (a finished SP or OP scan with a constant key and both columns returns as many rows as the cardinality the planner estimated for it; P scans are left out because inline P data is read as overlapping pairs, see `store_p_scan`). |
| `store_read_return` (`MCDatabaseBuilderReadRet.cfg`) | violation | `ReadReportsRows`: a single-key SP/OP `read` whose value column is not required appends the rows but never sets `exist`, so it returns false over rows it produced. |
| `store_read_p_null` (`MCDatabaseBuilderReadP.cfg`) | violation | `ReadNoNullDeref`: a P `read` without a required object tests `object == nullptr` and then dereferences `object`. |
| `codegen_wiring` (`MCCodeGenerator.cfg`, 3 patterns, ≈20k states) | pass | Covered: every connected query of three patterns, planned and then compiled. Results: `JoinKeysWired` (for every join, each join key a child supplies maps, in that child's map, to a Resource created for that variable); `PrinterWired` (every projected variable reaches the printer as a Resource filled with that variable). |
| `codegen_pred_id` (`MCCodeGeneratorPredId.cfg`) | violation | `JoinKeysWired` with the predicate's dictionary id equal to variable 0: `generateTableScan` tests the constant's id against the variable ids in `required_res` and overwrites variable 0's Resource with the predicate's. |
| `codegen_shared_resources` (`MCCodeGeneratorShared.cfg`) | violation | `OneResourcePerVariable`: the spec says one shared Resource per required variable, but the generator creates one per scan term and one per join output. |
| `store_p_scan` (`MCDatabaseBuilderPScan.cfg`) | violation | `ScanRowsP`: a predicate-only scan of an inline P segment returns the wrong rows, because `next()` reads `[s1..sn, o1..on]` as overlapping pairs. |

Each property of a passing run has a mutant in `PROJECT.json`. A mutant is a plausible bug in the mapped code, such as a dropped cost term, join keys left unset, an off-by-one inline limit, a replaced instead of merged bitvector, a key column not cleared, an eviction into the wrong half or a lost chain tail. The property must catch it.

## Bounds and why they suffice

* **Planner.**
  * Four patterns are the smallest size where a star (a variable in 3 of 4 patterns), extension of an existing BackProbeHashJoin, several alternatives per solution and three DP levels all occur.
  * Three variables and one constant give SP, OP and P scans.
  * The two statistics records satisfy `AdmissibleStats`, which `PlannerStatsSound` shows every store the loader builds satisfies. They give the two orientations of a pair join different costs in some queries and equal costs in others, so both branches of the selection's strict comparison are taken.
* **Code generator.** Three patterns give two-level plans: a join over scans, or a join extended in place with three children. They also give P, SP and OP scans with both keys required, and joins whose output comes from a non-driving child. `PredId = 50` is apart from the variable ids 0..2 in the passing run and equals 0 in the collision run.
* **Cuckoo table.** Keys that are all even share hash1's low bit at table size 2, so the eviction loop runs out after `max_loop = 1` iteration and rehashes, possibly more than once. With `MaxInserts = 4` the table grows to size 8.
* **Storage.**
  * `SegDataMax = 2` and `NodeDataMax = 2` stand for `SEGMENT_DATA_MAX_SIZE` and `NODE_DATA_MAX_SIZE` counted in ids. `writeData` keeps a batch inline only while it is strictly smaller than the limit, so one id goes inline and a batch of two goes to a chain. A node is closed when `dsize + 4 >= NODE_DATA_MAX_SIZE`, so each node of the main run holds one id and a chain of two ids spans two nodes, for P, SP and OP segments alike. The runs on `MCDatabaseBuilderPScan.cfg`, `MCDatabaseBuilderReadRet.cfg` and `MCDatabaseBuilderReadP.cfg` use `NodeDataMax = 3` to keep their traces short.
  * `BatchSize = 2` stands for the 2000-row flush, so a predicate with three or more triples is written in several P batches.
  * `FileGrowth = 1` stands for `FILE_GROWTH` (20 blocks), so the file grows several times even with a handful of nodes.
  * Ids exclude 0 and no dataset is empty; see "not modelled" for the two loader edges these leave out.
  * The PScan run raises `SegDataMax` so that a P batch fits inline.

## Fairness

* `QueryPlanner` and `DatabaseBuilder` have `WF_vars(Next)`. Each is one sequential thread of computation with no waiting, so once a step is enabled the next statement runs.
* The cuckoo table is driven by the join's build loop, which may stop at any time, so it has no fairness.
* Termination of the scanner is checked as the action property `ScanProgress`: a variant over the batch index and the chain nodes left.
  * This is a safety property, so it needs no fairness.
  * Together with the finite chains it implies that `next()` returns false after finitely many calls.
  * A temporal `<>` property over the same model needs TLC's liveness checking of the whole behaviour graph. That did not finish within the run's time budget.
* `CodeGenerator` has `WF` over its whole next-state relation for the same reason as the planner. Generation is one recursive call.
* `JoinTable` is the abstract spec of the cuckoo table, and `ImplementsJoinTable` is checked as a refinement property. Its `inserted` history is mapped to the table's `rows`, so an insert that changes nothing the lookup sees is not allowed as a stutter step, and the mapped bag counts only entries of the looked-up key.

## What is not modelled, and why

* **Code with no behaviour to check.**
  * `Filter` and the `HashJoin` operator: their `next` and `first` are stubs returning true, and the table builder in `HashJoin::open` is commented out.
  * `Database`: it wires components and does file I/O.
* **Pure I/O.**
  * `encodeRDFFile`: RDF parsing and the dictionary.
  * RocksDB, Berkeley DB and the buffer manager: these are represented by the maps `kv` and `heap`. HeapFile's header, its persistence across close and open, and file growth are modelled (`hfile`); the bytes of a node and the `index_file` are not.
* **Loader edges left out of the runs.**
  * An empty triple file: the loop's setup reads `iter->pid`/`iter->sid` before testing `iter != end`. `FirstTriples` models the read as a choice among `JunkTriples`; a crash is the other outcome. With the empty file in `Datasets`, the writes after the loop store P, SP and OP segments with no rows under the junk ids and `NoEmptySegments` fails. No run includes it, because the input comes from `encodeRDFFile`, which is outside the model.
  * Id 0: `prev` starts at (0,0,0), so a first triple (0,0,0) is taken for a repeat and dropped, and `StatsMatchData` fails. The dictionary that assigns ids is outside src and the spec does not say whether 0 is a valid id, so the checked ids exclude it.
* **32-bit overflow** of `num_block * BLOCK_SIZE` in `appendNode`: `BLOCK_SIZE` is defined outside src, and the wrap needs billions of bytes of nodes.
* **Operator bodies.** `BackProbeHashJoin` and `ResultsPrinter` have no source in this tree. The generator's calls to their constructors are modelled as records of the Resources they receive.
* **Filter in the generator.** `generateFilter` is modelled, including the nullptr that `resources[filter_key]` inserts. No checked plan reaches it, because Filter patterns are excluded from the planner's queries (below).
* **A predicate the store does not hold.** `createTableScanNode` divides by `getCount(P)`, which is 0 for such an id, giving inf or NaN densities. Which ids a query carries is decided by the semantic analyser and the dictionary, both outside src, so the planner's statistics (`AdmissibleStats`) require a positive P count. `PlannerStatsSound` shows this holds for every predicate the store does hold.
* **Patterns with a repeated variable** (`?x p ?x`) are left out of the planner's queries.
  * Their Filter node carries no densities, so the joins divide by zero in doubles (inf or NaN).
  * Exact rationals cannot represent that.
* **Plan for the next steps.**
  * Give the HashJoin probe loop a model once the operator is implemented.
  * Compose the generated scans with a loaded store, end to end: run the `TableScan`s of `CodeGenerator` over `DatabaseBuilder`'s store.
  * Find a way to include Filter patterns in the planner, for example densities as a symbolic infinity, so that `generateFilter` is reached.
