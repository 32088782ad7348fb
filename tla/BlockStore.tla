----------------------------- MODULE BlockStore -----------------------------
(***************************************************************************)
(* What the block cache of TeensyEXT4 promises to the file system above    *)
(* it, with no cache in sight: an array of blocks that reads back what was *)
(* last written to it, and an image of that array on the device that may   *)
(* lag behind.                                                             *)
(*                                                                         *)
(*   current[b]  what a read of block b through the cache returns          *)
(*   stable[b]   what the device holds, and all that a power cut leaves    *)
(*   freed       the blocks whose content their owner has given up         *)
(*   held        the blocks somebody holds a reference to                  *)
(*                                                                         *)
(* A block changes its current content only when somebody who holds it     *)
(* writes it, when it is given up, or when the device is detached. Scratch *)
(* blocks (the journal's log blocks) carry no promise: the store may       *)
(* forget a write to one.                                                  *)
(***************************************************************************)
EXTENDS Naturals

CONSTANTS
    Block,      \* logical block addresses
    Value,      \* what a block may hold
    Scratch     \* the blocks of Block whose writes may be forgotten

VARIABLES current, stable, held, freed

storeVars == <<current, stable, held, freed>>

\* f with the blocks of S taken from g.
Taking(f, S, g) == [b \in Block |-> IF b \in S THEN g[b] ELSE f[b]]

Init ==
    /\ stable \in [Block -> Value]
    /\ current = stable
    /\ held = {}
    /\ freed = {}

Write(b, v) ==
    /\ b \in held
    /\ current' = [current EXCEPT ![b] = v]
    /\ freed' = freed \ {b}
    /\ UNCHANGED <<stable, held>>

\* A write that bypasses the cache finds nothing pending and is stable at once.
WriteThrough(b, v) ==
    /\ current[b] = stable[b]
    /\ current' = [current EXCEPT ![b] = v]
    /\ stable' = [stable EXCEPT ![b] = v]
    /\ freed' = freed \ {b}
    /\ UNCHANGED held

\* The blocks of S reach the device, for whatever reason and at any moment: a
\* block may be taken or given back at the same time.
Commit(S) ==
    /\ stable' = Taking(stable, S, current)
    /\ held' \in SUBSET Block
    /\ UNCHANGED <<current, freed>>

\* The owner gives up F; pending writes to some of them are forgotten.
Discard(F, S) ==
    /\ freed' = freed \cup F
    /\ current' = Taking(current, S, stable)
    /\ UNCHANGED <<stable, held>>

\* A pending write to scratch blocks is forgotten.
Forget(S) ==
    /\ current' = Taking(current, S, stable)
    /\ held' \in SUBSET Block
    /\ UNCHANGED <<stable, freed>>

\* The device is detached after the blocks of S were committed: what was not
\* committed is gone. A power cut commits nothing.
Halt(S) ==
    /\ stable' = Taking(stable, S, current)
    /\ current' = Taking(stable, S, current)
    /\ held' = {}
    /\ UNCHANGED freed

Next ==
    \/ \E b \in Block, v \in Value : Write(b, v) \/ WriteThrough(b, v)
    \/ \E S \in SUBSET Block : Commit(S) \/ Halt(S)
    \/ \E F \in SUBSET Block : \E S \in SUBSET F : Discard(F, S)
    \/ \E S \in SUBSET Scratch : Forget(S)

Spec == Init /\ [][Next]_storeVars
=============================================================================
