----------------------------- MODULE HashTable ------------------------------
(***************************************************************************)
(* The hash table of lib/hash/hash.c of the ifc program and of hash.c of   *)
(* the legacy one, which differ in their allocator: an entry comes from    *)
(* malloc in both, and goes back to the memory pool in the first, which    *)
(* does not know it and returns with its mutex locked (see MemPool).       *)
(*                                                                         *)
(* A bucket is the sequence of its head and of the entries on the ring of  *)
(* the head.  hash_insert overwrites the head before it looks whether the  *)
(* bucket is empty, and then links the new entry to itself.                *)
(***************************************************************************)
EXTENDS Naturals, Sequences, FiniteSets

CONSTANTS
  Keys, Values, None,
  Buckets,    \* 0 .. hash_size
  Index,      \* hash_index
  MaxInserts  \* bound: insertions

\* The index of a key is that of a bucket; the theorems about this module assume
\* it, and that None is no value.
TableAssumption ==
  /\ Index \in [Keys -> Buckets]
  /\ None \notin Values
  /\ MaxInserts \in Nat

VARIABLES
  pooled,     \* the copy of the ifc program, where entries go to the pool
  table,      \* hash_t.hash_entry
  made,       \* how many entries were made
  heap,       \* the entries that malloc gave and nobody gave back
  locked,     \* the mutex of the pool was left locked
  phase,      \* "open", "destroyed", or "aborted" by a free of pool memory
  latest,     \* what a map would hold
  overwrote   \* for a key, the keys inserted since

vars == <<pooled, table, made, heap, locked, phase, latest, overwrote>>

Entry == [key : Keys, val : Values, id : Nat]

\* create_hash
Init ==
  /\ pooled \in BOOLEAN
  /\ table = [b \in Buckets |-> << >>]
  /\ made = 0
  /\ heap = {}
  /\ locked = FALSE
  /\ phase = "open"
  /\ latest = [k \in Keys |-> None]
  /\ overwrote = [k \in Keys |-> {}]

-----------------------------------------------------------------------------
(* hash_find                                                                *)

Bucket(k) == table[Index[k]]

Places(k) == {i \in 1 .. Len(Bucket(k)) : Bucket(k)[i].key = k}

FirstPlace(k) == CHOOSE i \in Places(k) : \A j \in Places(k) : i <= j

Find(k) == IF Places(k) = {} THEN None ELSE Bucket(k)[FirstPlace(k)].val

-----------------------------------------------------------------------------
(* hash_insert: it needs the pool for the copy of the key.                  *)

\* The head is overwritten; the ring of the new head is itself alone.
Chained(b, e) == <<e>>

Insert(k, v) ==
  LET e == [key |-> k, val |-> v, id |-> made + 1] IN
  /\ phase = "open"
  /\ ~locked
  /\ made < MaxInserts
  /\ made' = made + 1
  /\ heap' = heap \cup {e.id}
  /\ table' = [table EXCEPT ![Index[k]] = Chained(Index[k], e)]
  /\ latest' = [latest EXCEPT ![k] = v]
  /\ overwrote' = [j \in Keys |-> IF j = k THEN {} ELSE overwrote[j] \cup {k}]
  /\ UNCHANGED <<pooled, locked, phase>>

-----------------------------------------------------------------------------
(* hash_del of a key that is found: the head takes its whole bucket along.  *)

Without(k) ==
  IF FirstPlace(k) = 1 THEN << >>
  ELSE SubSeq(Bucket(k), 1, FirstPlace(k) - 1)
         \o SubSeq(Bucket(k), FirstPlace(k) + 1, Len(Bucket(k)))

\* hash_entry_free
FreeEntry(e) ==
  IF pooled
  THEN /\ locked' = TRUE
       /\ UNCHANGED heap
  ELSE /\ heap' = heap \ {e.id}
       /\ UNCHANGED locked

Delete(k) ==
  /\ phase = "open"
  /\ ~locked
  /\ Places(k) # {}
  /\ table' = [table EXCEPT ![Index[k]] = Without(k)]
  /\ FreeEntry(Bucket(k)[FirstPlace(k)])
  /\ latest' = [latest EXCEPT ![k] = None]
  /\ UNCHANGED <<pooled, made, phase, overwrote>>

-----------------------------------------------------------------------------
(* destroy_hash gives back the entries behind the heads, of which there are *)
(* none, in all buckets but the last, and then the table with free, which   *)
(* aborts in the ifc program: the table is a block of the pool.             *)
Destroy ==
  /\ phase = "open"
  /\ phase' = IF pooled THEN "aborted" ELSE "destroyed"
  /\ UNCHANGED <<pooled, table, made, heap, locked, latest, overwrote>>

-----------------------------------------------------------------------------
Next ==
  \/ Destroy
  \/ \E k \in Keys : Delete(k) \/ \E v \in Values : Insert(k, v)

Spec == Init /\ [][Next]_vars

-----------------------------------------------------------------------------
TypeOK ==
  /\ pooled \in BOOLEAN
  /\ table \in [Buckets -> Seq(Entry)]
  /\ made \in 0 .. MaxInserts
  /\ heap \subseteq 1 .. made
  /\ locked \in BOOLEAN
  /\ phase \in {"open", "destroyed", "aborted"}
  /\ latest \in [Keys -> Values \cup {None}]
  /\ overwrote \in [Keys -> SUBSET Keys]

(* hash_find never gives an old value: it gives the last one inserted for
   the key, or says that there is none, whatever was inserted twice, deleted
   or displaced in between.                                                 *)
FoundIsLatest == \A k \in Keys : Find(k) \in {latest[k], None}

(* A key that was inserted and not deleted is missed only when a key of the
   same bucket was inserted after it.                                       *)
LostOnlyByCollision ==
  \A k \in Keys :
    latest[k] # None /\ Find(k) = None =>
      \E j \in overwrote[k] : j # k /\ Index[j] = Index[k]

\* The entries that can be reached from the table.
Reachable ==
  UNION {{table[b][i].id : i \in 1 .. Len(table[b])} : b \in Buckets}

(* No bucket leads to an entry that was given back, after any sequence of
   insertions of equal and of colliding keys and of deletions.              *)
NoFreedEntry == Reachable \subseteq heap

(* For all callers can see, the table is a map in which a key may displace
   those of its bucket; when no two keys share one it is a map.             *)
Displaces == [k \in Keys |-> {j \in Keys \ {k} : Index[j] = Index[k]}]

KM == INSTANCE KeyMap WITH map <- [k \in Keys |-> Find(k)], Rivals <- Displaces

ImplementsKeyMap == KM!Spec
=============================================================================
