-------------------------- MODULE CanonicalChain --------------------------
(***************************************************************************)
(* What a block chain promises its readers: a chain of blocks from the     *)
(* genesis, replaced as a whole by a chain that is preferred to it, and    *)
(* for every transaction the block of that chain it is found in.           *)
(***************************************************************************)
EXTENDS Naturals, Sequences, SequencesExt

CONSTANTS Blocks, Genesis, NoBlock, Txs, Content,
          Path,     \* the blocks from the genesis to each block
          Weight    \* the total difficulty of each block

VARIABLES
  chain,    \* the canonical chain, genesis first
  lookup    \* the block each transaction is found in

vars == <<chain, lookup>>

Init == /\ chain = <<Genesis>>
        /\ lookup = [t \in Txs |-> NoBlock]

\* More weight is preferred, and fewer blocks for the same weight.
Preferred(new, old) ==
  \/ Weight[Last(new)] > Weight[Last(old)]
  \/ Weight[Last(new)] = Weight[Last(old)] /\ Len(new) <= Len(old)

\* The block of a chain that holds a transaction.  No valid chain holds a
\* transaction twice.
Holder(on, t) ==
  IF \E i \in DOMAIN on : t \in Content[on[i]]
  THEN on[CHOOSE i \in DOMAIN on : t \in Content[on[i]]]
  ELSE NoBlock

Adopt(b) == /\ Preferred(Path[b], chain)
            /\ chain' = Path[b]
            /\ lookup' = [t \in Txs |-> Holder(Path[b], t)]

Next == \E b \in Blocks : Adopt(b)

Spec == Init /\ [][Next]_vars
=============================================================================
