--------------------------- MODULE CuckooHashTable ---------------------------
(***************************************************************************)
(* The build-side hash table of HashJoin (src/src/operator/hash_join.cpp): *)
(* a cuckoo table of 2 * table_size slots, the first half addressed by     *)
(* hash1, the second by table_size + hash2, with a chain of Entries per    *)
(* key for duplicate keys.  An insert of a new key moves entries between   *)
(* their two slots at most max_loop times and otherwise doubles the table  *)
(* and re-inserts every entry (rehash), possibly rehashing again inside.   *)
(*                                                                         *)
(* Entries live in the MemoryPool, modelled as the sequence `pool`; a slot *)
(* or a `next` field holds a pool index, 0 standing for nullptr.  The row  *)
(* payload is abstracted to one value per Entry.  `rows` is a history      *)
(* variable: the rows handed to insert(resources), in order.               *)
(***************************************************************************)
EXTENDS Integers, Sequences, FiniteSets, Bitwise

CONSTANTS
    Keys,          \* join-key ids inserted (resources[0]->id)
    Vals,          \* payload values (resources[1..]->id)
    InitSize,      \* the argument of HashTable(size_t size)
    NumKeysInit,   \* values the uninitialised num_keys may hold
    MaxInserts,    \* bound on the number of insert(resources) calls
    MaxTableSize   \* bound on table_size, beyond which inserts are not explored

ASSUME /\ Keys \subseteq Nat /\ InitSize \in Nat \ {0}
       /\ NumKeysInit \subseteq Int /\ MaxInserts \in Nat /\ MaxTableSize \in Nat

Null == 0

(* hash2 shifts a uint32_t by 32, which is undefined behaviour; the build  *)
(* either masks the count to 0 (x86 shl) or folds the shift to 0.           *)
Hash2Outcomes == {"count_masked", "folded_to_zero"}

VARIABLES table, tableSize, maxLoop, numKeys, pool, hash2Mode, rows

vars == <<table, tableSize, maxLoop, numKeys, pool, hash2Mode, rows>>

Entry == [key : Keys, val : Vals, next : Nat]

\* HashTable(size): the least power of two, at least 2, not below size.
RECURSIVE InitTableSize(_)
InitTableSize(ts) == IF ts < InitSize THEN InitTableSize(2 * ts) ELSE ts

EmptyTable(ts) == [j \in 0 .. 2 * ts - 1 |-> Null]

Hash1(k, ts) == k & (ts - 1)

Hash2(k, ts) == IF hash2Mode = "count_masked" THEN k & (ts - 1) ELSE 0

(* The two slots an entry with key k may occupy. *)
Slots(k, ts) == {Hash1(k, ts), ts + Hash2(k, ts)}

(* lookup(key): the entry heading k's chain, or Null. *)
LookupIn(pl, t, ts, k) ==
    LET s1 == t[Hash1(k, ts)]
        s2 == t[ts + Hash2(k, ts)]
    IN  IF s1 # Null /\ pl[s1].key = k THEN s1
        ELSE IF s2 # Null /\ pl[s2].key = k THEN s2 ELSE Null

(* The cuckoo loop of insert(Entry* e) and rehash(), over a table state      *)
(* st = [t, ts, ok]; ok turns FALSE when a rehash would pass MaxTableSize.  *)
RECURSIVE Place(_, _, _), Loop(_, _, _, _), Rehash(_, _), Reinsert(_, _, _, _)

\* insert(Entry* e): run the loop from i = 0.
Place(pl, st, e) == IF st.ok THEN Loop(pl, st, e, 0) ELSE st

LoopSecondSlotUnshifted(pl, st, e, i) ==
    LET t1 == [st.t EXCEPT ![Hash1(pl[e].key, st.ts)] = e]
        e1 == st.t[Hash1(pl[e].key, st.ts)]
        j2 == Hash2(pl[e1].key, st.ts)
        e2 == t1[j2]
        st2 == [st EXCEPT !.t = [t1 EXCEPT ![j2] = e1]]
    IN  IF i = maxLoop THEN Place(pl, Rehash(pl, st), e)
        ELSE IF e1 = Null THEN [st EXCEPT !.t = t1]
        ELSE IF e2 = Null THEN st2
        ELSE Loop(pl, st2, e2, i + 1)

\* One iteration: swap e into its hash1 slot, then the evicted entry into
\* its hash2 slot; after max_loop iterations rehash and insert the homeless.
Loop(pl, st, e, i) ==
    LET t1 == [st.t EXCEPT ![Hash1(pl[e].key, st.ts)] = e]
        e1 == st.t[Hash1(pl[e].key, st.ts)]
        j2 == st.ts + Hash2(pl[e1].key, st.ts)
        e2 == t1[j2]
        st2 == [st EXCEPT !.t = [t1 EXCEPT ![j2] = e1]]
    IN  IF i = maxLoop THEN Place(pl, Rehash(pl, st), e)
        ELSE IF e1 = Null THEN [st EXCEPT !.t = t1]
        ELSE IF e2 = Null THEN st2
        ELSE Loop(pl, st2, e2, i + 1)

\* rehash(): double table_size, swap in an empty table, and insert every
\* entry of the old one in slot order.
Rehash(pl, st) ==
    IF 2 * st.ts > MaxTableSize THEN [st EXCEPT !.ok = FALSE]
    ELSE Reinsert(pl, st.t, 0, [t |-> EmptyTable(2 * st.ts), ts |-> 2 * st.ts, ok |-> TRUE])

Reinsert(pl, old, j, st) ==
    IF j \notin DOMAIN old \/ ~st.ok THEN st
    ELSE Reinsert(pl, old, j + 1, IF old[j] = Null THEN st ELSE Place(pl, st, old[j]))

InitMaxLoopQuarter ==
    /\ tableSize = InitTableSize(2)
    /\ maxLoop = tableSize \div 4
    /\ table = EmptyTable(tableSize)
    /\ numKeys \in NumKeysInit
    /\ pool = << >>
    /\ hash2Mode \in Hash2Outcomes
    /\ rows = << >>

\* HashTable(size_t size); num_keys is left uninitialised.
Init ==
    /\ tableSize = InitTableSize(2)
    /\ maxLoop = tableSize \div 2
    /\ table = EmptyTable(tableSize)
    /\ numKeys \in NumKeysInit
    /\ pool = << >>
    /\ hash2Mode \in Hash2Outcomes
    /\ rows = << >>

\* Mutant: the new entry is allocated but never linked into the chain.
SpliceUnlinked(prev, e, k, v) ==
    Append(pool, [key |-> k, val |-> v, next |-> Null])

(* insert(resources) for a key already present: the new entry goes right  *)
(* after the chain head.                                                    *)

Splice(prev, e, k, v) ==
    Append([pool EXCEPT ![prev].next = e], [key |-> k, val |-> v, next |-> pool[prev].next])

InsertRow(k, v) ==
    LET e    == Len(pool) + 1
        prev == LookupIn(pool, table, tableSize, k)
        pl   == Append(pool, [key |-> k, val |-> v, next |-> Null])
        st   == Place(pl, [t |-> table, ts |-> tableSize, ok |-> TRUE], e)
    IN
    /\ Len(rows) < MaxInserts
    /\ rows' = Append(rows, <<k, v>>)
    /\ IF prev # Null
       THEN /\ pool' = Splice(prev, e, k, v)
            /\ UNCHANGED <<table, tableSize, numKeys>>
       ELSE /\ st.ok
            /\ pool' = pl
            /\ numKeys' = numKeys + 1
            /\ table' = st.t
            /\ tableSize' = st.ts
    /\ UNCHANGED <<maxLoop, hash2Mode>>

Insert == \E k \in Keys, v \in Vals : InsertRow(k, v)

\* The builder stops after MaxInserts rows.
Done == Len(rows) = MaxInserts /\ UNCHANGED vars

Next == Insert \/ Done

Spec == Init /\ [][Next]_vars

-----------------------------------------------------------------------------
\* The entries reachable from entry e along `next`.
RECURSIVE ChainOf(_)
ChainOf(e) == IF e = Null THEN << >> ELSE <<e>> \o ChainOf(pool[e].next)

Lookup(k) == LookupIn(pool, table, tableSize, k)

TypeOK ==
    /\ tableSize \in {2 ^ n : n \in 1 .. 8} /\ tableSize <= MaxTableSize
    /\ maxLoop \in Nat \ {0}
    /\ table \in [0 .. 2 * tableSize - 1 -> 0 .. Len(pool)]
    /\ pool \in Seq(Entry)
    /\ \A e \in 1 .. Len(pool) : pool[e].next \in 0 .. Len(pool)
    /\ hash2Mode \in Hash2Outcomes
    /\ rows \in Seq(Keys \X Vals)

(* Cuckoo placement (insert(Entry* e), rehash()): after any sequence of      *)
(* inserts, with evictions and nested rehashes, every occupied slot holds  *)
(* an entry in one of its key's two slots, no entry sits in two slots, and *)
(* no two slots hold chains of the same key.                                *)
CuckooPlacement ==
    \A j \in DOMAIN table : table[j] # Null =>
        /\ j \in Slots(pool[table[j]].key, tableSize)
        /\ \A j2 \in DOMAIN table \ {j} :
               table[j2] # Null => pool[table[j2]].key # pool[table[j]].key

(* numOfKeys() returns the number of distinct keys inserted.  The         *)
(* HashTable(size_t) constructor never initialises num_keys.               *)
NumKeysCounts ==
    numKeys = Cardinality({rows[i][1] : i \in 1 .. Len(rows)})

\* How often lookup(k) and its chain hand out an entry of key k with row
\* v; an entry of another key in the chain is not a row of k.
StoredPairs ==
    LET ch == [k \in Keys |-> ChainOf(Lookup(k))]
    IN  [kv \in Keys \X Vals |->
            Cardinality({j \in 1 .. Len(ch[kv[1]]) :
                            pool[ch[kv[1]][j]] \in [key : {kv[1]}, val : {kv[2]}, next : Nat]})]

Abstract == INSTANCE JoinTable WITH stored <- StoredPairs, inserted <- rows

(* The cuckoo table implements JoinTable: every insert(resources), with   *)
(* its evictions, nested rehashes and the splice of a duplicate key into  *)
(* its chain, adds exactly the row it was called with, under its key, to  *)
(* what lookup(k) and the chain of k return, and changes no other rows:   *)
(* with the requests mapped to `inserted`, an insert that loses its row,  *)
(* files it under another key or drops another row is no JoinTable step.  *)
ImplementsJoinTable == Abstract!Spec
=============================================================================
