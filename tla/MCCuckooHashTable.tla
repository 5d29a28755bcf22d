-------------------------- MODULE MCCuckooHashTable --------------------------
(* Instance of CuckooHashTable: keys that agree in their low bits, so that *)
(* they collide at table sizes 2 and 4 and force evictions and rehashes.   *)
EXTENDS CuckooHashTable
=============================================================================
