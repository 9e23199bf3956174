----------------------------- MODULE BlockStore -----------------------------
(***************************************************************************)
(* The block store, internal/store/store.go, as a value: which heights     *)
(* have a block meta, block parts and a commit under their keys.  Every    *)
(* operator that returns a store is one durable write, so a crash falls    *)
(* between two of them and never inside one.                               *)
(***************************************************************************)
EXTENDS Integers, FiniteSets, FiniteSetsExt

\* The keys of the store by kind.  The meta of a height says the block is there.
BlockStores(heights) == [metas   : SUBSET heights,
                         parts   : SUBSET heights,
                         commits : SUBSET (heights \union {0})]

NewBlockStore == [metas |-> {}, parts |-> {}, commits |-> {}]

Base(bs) == IF bs.metas = {} THEN 0 ELSE Min(bs.metas)

Height(bs) == IF bs.metas = {} THEN 0 ELSE Max(bs.metas)

\* LoadBlock returns nil for a height without meta or with missing parts.
HasBlock(bs, height) == height \in bs.metas /\ height \in bs.parts

\* saveBlockToBatch refuses a gap; SaveBlock turns the refusal into a panic.
CanSaveBlock(bs, height) == Base(bs) > 0 => height = Height(bs) + 1

\* The parts, the meta and the commit of the previous height go in one batch.
SaveBlock(bs, height) ==
    [metas   |-> bs.metas \union {height},
     parts   |-> bs.parts \union {height},
     commits |-> bs.commits \union {height - 1}]

\* A signed header backfilled by state sync: a meta and a commit without parts.
SaveSignedHeader(bs, height) ==
    [bs EXCEPT !.metas = @ \union {height}, !.commits = @ \union {height}]

\* The last block goes with its parts and commit (used by rollback).
DeleteLatestBlock(bs) ==
    LET height == Height(bs)
    IN  [metas   |-> bs.metas \ {height},
         parts   |-> bs.parts \ {height},
         commits |-> bs.commits \ {height}]

\* The at most n lowest keys below height: one batch of pruneRange.
lowest(keys, height, n) ==
    {k \in keys : k < height /\ Cardinality({j \in keys : j <= k}) <= n}

\* Mutant: the pruning loop waits for the key at the height itself.
UnprunedInclusive(bs, height) == \E kind \in DOMAIN bs : \E k \in bs[kind] : k <= height

\* PruneBlocks deletes metas, then parts, then commits, in batches of n keys.
\* A batch is taken from the first kind that still has a key below height.
Unpruned(bs, height) == \E kind \in DOMAIN bs : \E k \in bs[kind] : k < height

PruneBatch(bs, height, n) ==
    LET metas == lowest(bs.metas, height, n)
        parts == lowest(bs.parts, height, n)
    IN  IF metas # {} THEN [bs EXCEPT !.metas = @ \ metas]
        ELSE IF parts # {} THEN [bs EXCEPT !.parts = @ \ parts]
        ELSE [bs EXCEPT !.commits = @ \ lowest(@, height, n)]
=============================================================================
