------------------------- MODULE CollectionReplica -------------------------
(***************************************************************************)
(* What collection reconciliation promises, with no pages, cursors, stores *)
(* or failures: an authority appends entries, and a replica jumps, in one  *)
(* step, from one of the authority's checkpoints to a later one.           *)
(***************************************************************************)
EXTENDS Naturals, Sequences

CONSTANT History    \* keys in the order the authority appends them

VARIABLES
    generation,     \* the authority's generation
    checkpoint,     \* generation of the replica's committed checkpoint
    keys            \* keys the replica retains for it

replicaVars == <<generation, checkpoint, keys>>

Init ==
    /\ generation = 0
    /\ checkpoint = 0
    /\ keys = {}

Publish ==
    /\ generation < Len(History)
    /\ generation' = generation + 1
    /\ UNCHANGED <<checkpoint, keys>>

CatchUp ==
    /\ \E g \in checkpoint + 1 .. generation :
         /\ checkpoint' = g
         /\ keys' = {History[i] : i \in 1 .. g}
    /\ UNCHANGED generation

Next == Publish \/ CatchUp

Spec == Init /\ [][Next]_replicaVars
=============================================================================
