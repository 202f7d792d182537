------------------------------- MODULE MemPool -------------------------------
(***************************************************************************)
(* The memory pool of the ifc program, src/ifc/lib/mem_pool/mem_pool.c.    *)
(* Blocks are cut from the top of the current chunk downwards, each with a *)
(* header that holds its size.  All calls of a pool are made under one     *)
(* mutex, so that a call is one step; a call that returns without          *)
(* unlocking it is the last one.                                           *)
(*                                                                         *)
(* mem_pool_free does not read the header but the first word of the        *)
(* caller's data, which may be any.  A new chunk takes the place of the    *)
(* old one, whose blocks stay with their callers but are no longer found.  *)
(***************************************************************************)
EXTENDS Naturals, FiniteSets

CONSTANTS
  ChunkSize,  \* mem_pool_t.size, in words: what a chunk holds
  Modulus,    \* 2^w for the width w of size_t
  Requests,   \* the sizes that are asked for
  FirstWords, \* what the first word of a caller's data may be
  MaxChunks,  \* bound: chunks that are made
  MaxHeld     \* bound: blocks that callers hold at a time

ASSUME ChunkAssumption == ChunkSize \in Nat \ {0} /\ Modulus \in Nat /\ ChunkSize < Modulus
ASSUME RequestAssumption == Requests \subseteq 0 .. Modulus - 2
ASSUME WordAssumption == FirstWords \subseteq 0 .. Modulus - 1
ASSUME BoundAssumption == MaxChunks \in Nat \ {0} /\ MaxHeld \in Nat \ {0}

Quantum == 1  \* what init_freechat passes
Header == 1   \* the word before a block

VARIABLES
  chunk,      \* how many chunks were made; the last one is the current one
  free,       \* mem_chunk_t.free of the current chunk: where its blocks begin
  bound,      \* mem_chunk_t.bound: what was freed in the middle
  blocks,     \* the blocks that the callers hold
  misread,    \* the worst size a mem_pool_free took: "none" wrong, "less" or "more"
  outcome     \* "ok", or the end: how the mutex came to stay locked, a
              \* write to NULL, or the end of the pool

poolVars == <<chunk, free, bound, blocks, misread, outcome>>

\* mem_pool_init makes no chunk.
PoolInit ==
  /\ chunk = 0
  /\ free = 0
  /\ bound = 0
  /\ blocks = {}
  /\ misread = "none"
  /\ outcome = "ok"

-----------------------------------------------------------------------------
(* mem_pool_alloc(pool, n)                                                  *)

SizeWithHeader(n) == (IF n = 0 THEN Quantum ELSE n) + Header

AllocTooMuch(n) ==
  /\ outcome = "ok"
  /\ SizeWithHeader(n) > ChunkSize
  /\ outcome' = "too_much"
  /\ UNCHANGED <<chunk, free, bound, blocks, misread>>

NeedsChunk(n) == chunk = 0 \/ SizeWithHeader(n) > free

\* malloc gives no new chunk.
AllocNoMemory(n) ==
  /\ outcome = "ok"
  /\ SizeWithHeader(n) <= ChunkSize
  /\ NeedsChunk(n)
  /\ outcome' = "no_memory"
  /\ UNCHANGED <<chunk, free, bound, blocks, misread>>

\* malloc gives a new chunk and no memory for it: the write of the header
\* goes to an address near NULL.
AllocNullChunk(n) ==
  /\ outcome = "ok"
  /\ SizeWithHeader(n) <= ChunkSize
  /\ NeedsChunk(n)
  /\ outcome' = "null_chunk"
  /\ UNCHANGED <<chunk, free, bound, blocks, misread>>

Cut(c, from, size) ==
  /\ Cardinality(blocks) < MaxHeld
  /\ free' = from - size
  /\ blocks' = blocks \cup {[chunk |-> c, at |-> from - size, size |-> size]}

AllocOld(n) ==
  /\ outcome = "ok"
  /\ SizeWithHeader(n) <= ChunkSize
  /\ ~NeedsChunk(n)
  /\ Cut(chunk, free, SizeWithHeader(n))
  /\ UNCHANGED <<chunk, bound, misread, outcome>>

AllocNew(n) ==
  /\ outcome = "ok"
  /\ SizeWithHeader(n) <= ChunkSize
  /\ NeedsChunk(n)
  /\ chunk < MaxChunks
  /\ chunk' = chunk + 1
  /\ bound' = 0
  /\ Cut(chunk + 1, ChunkSize, SizeWithHeader(n))
  /\ UNCHANGED <<misread, outcome>>

-----------------------------------------------------------------------------
(* mem_pool_free(pool, b), where the data of b begins with the given word.  *)

\* Mutant: the lower bound of a chunk is compared with > instead of >=.
FoundAboveStart(b) == b.chunk = chunk /\ b.at \in 1 .. ChunkSize - 1

\* An address of the current chunk; no other chunk is linked.
Found(b) == b.chunk = chunk /\ b.at \in 0 .. ChunkSize - 1

SizeRead(word) == IF word = 0 THEN Quantum ELSE word

FreeUnknown(b) ==
  /\ outcome = "ok"
  /\ ~Found(b)
  /\ outcome' = "unknown_block"
  /\ blocks' = blocks \ {b}
  /\ UNCHANGED <<chunk, free, bound, misread>>

\* Mutant: > instead of >=.
ReclaimsAbove(size) == (free + bound + size) % Modulus > ChunkSize

Reclaims(size) == (free + bound + size) % Modulus >= ChunkSize

ReclaimChunk ==
  /\ free' = ChunkSize
  /\ bound' = 0

\* Mutant: what is freed in the middle raises the top.
GiveBackToTop(b, size) ==
  /\ free' = (free + size) % Modulus
  /\ UNCHANGED bound

GiveBack(b, size) ==
  IF b.at = free
  THEN /\ free' = (free + size) % Modulus
       /\ UNCHANGED bound
  ELSE /\ bound' = (bound + size) % Modulus
       /\ UNCHANGED free

Worst(b, size) ==
  IF size > b.size \/ misread = "more" THEN "more"
  ELSE IF size < b.size THEN "less" ELSE misread

Free(b, word) ==
  /\ outcome = "ok"
  /\ Found(b)
  /\ IF Reclaims(SizeRead(word)) THEN ReclaimChunk ELSE GiveBack(b, SizeRead(word))
  /\ blocks' = blocks \ {b}
  /\ misread' = Worst(b, SizeRead(word))
  /\ UNCHANGED <<chunk, outcome>>

-----------------------------------------------------------------------------
(* mem_pool_destroy(pool): what callers still hold in its chunk is gone.    *)
Destroy ==
  /\ outcome = "ok"
  /\ outcome' = "destroyed"
  /\ blocks' = {b \in blocks : b.chunk # chunk}
  /\ UNCHANGED <<chunk, free, bound, misread>>

-----------------------------------------------------------------------------
PoolNext ==
  \/ \E n \in Requests : AllocTooMuch(n) \/ AllocNoMemory(n) \/ AllocNullChunk(n)
  \/ \E n \in Requests : AllocOld(n) \/ AllocNew(n)
  \/ Destroy
  \/ \E b \in blocks : FreeUnknown(b) \/ \E word \in FirstWords : Free(b, word)

PoolSpec == PoolInit /\ [][PoolNext]_poolVars

-----------------------------------------------------------------------------
Current == {b \in blocks : b.chunk = chunk}

Words(b) == b.at .. b.at + b.size - 1

HeldWords == UNION {Words(b) : b \in Current}

(* No two blocks that callers hold share a word, and each lies inside its
   chunk, for as long as no mem_pool_free took a size that is too large.  A
   size that is too small loses room and harms no block.                    *)
Disjoint ==
  misread # "more" =>
    /\ \A b \in blocks : Words(b) \subseteq 0 .. ChunkSize - 1
    /\ \A b, c \in blocks :
         b # c /\ b.chunk = c.chunk => Words(b) \cap Words(c) = {}

(* While every size was right, the words of the current chunk are counted
   once: as free at its bottom, as freed in the middle, or in a held block. *)
Accounting ==
  chunk > 0 /\ misread = "none" /\ outcome # "destroyed" =>
    free + bound + Cardinality(HeldWords) = ChunkSize

(* While every size was right, a chunk of which no block is held is empty
   again: what was freed in the middle is not lost for good.                *)
EmptyIsReclaimed ==
  chunk > 0 /\ misread = "none" /\ Current = {} /\ outcome # "destroyed" =>
    free = ChunkSize /\ bound = 0

(* No room of a chunk is lost.                                              *)
RoomIsKept == Accounting /\ EmptyIsReclaimed

(* The call that does not find its block, and so leaves the mutex locked, is
   made only for a block of a chunk that was replaced, unless sizes that were
   too large have put the top of the chunk somewhere else.                  *)
UnknownOnlyAfterReplacement ==
  outcome = "unknown_block" /\ misread # "more" => chunk > 1
=============================================================================
