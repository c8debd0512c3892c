---------------------------- MODULE PatriciaTrie ----------------------------
(***************************************************************************)
(* The Merkle Patricia trie: tryGet, insert and delete of trie/trie.go.    *)
(*                                                                         *)
(* A node is None, a value, a short node with a piece of the key, or a     *)
(* full node with a child for each nibble.  Keys have one length, so that  *)
(* none is a prefix of another and the terminator of a key, which is the   *)
(* seventeenth child of a full node, is left out.  The hash of a root      *)
(* stands for the nodes below it: two tries have the same hash exactly     *)
(* when they have the same nodes, and a trie is its root node here.  Nodes *)
(* that are not loaded and the flags that tell of changes are left out;    *)
(* where nothing changes the code returns the node there was, and so does  *)
(* what follows.                                                           *)
(***************************************************************************)
EXTENDS Integers, Sequences, FiniteSets, SequencesExt

CONSTANTS
  Nibbles,          \* 0..15
  None              \* no node, no value

valueNode(v) == [kind |-> "value", val |-> v]
shortNode(key, child) == [kind |-> "short", key |-> key, val |-> child]
fullNode(children) == [kind |-> "full", val |-> children]

IsShort(n) == n # None /\ n.kind = "short"

Rest(key, n) == SubSeq(key, n + 1, Len(key))

\* prefixLen: how far two keys agree.
prefixLen(k, l) == Len(LongestCommonPrefix({k, l}))

RECURSIVE tryGet(_, _)
tryGet(n, key) ==
  IF n = None THEN None
  ELSE IF n.kind = "value" THEN n.val
  ELSE IF n.kind = "short"
  THEN IF IsPrefix(n.key, key) THEN tryGet(n.val, Rest(key, Len(n.key))) ELSE None
  ELSE tryGet(n.val[Head(key)], Tail(key))

\* insert; the old value of a short node that branches out is moved below the
\* new full node as it is.
RECURSIVE insert(_, _, _)
insert(n, key, node) ==
  IF key = << >> THEN node
  ELSE IF n = None THEN shortNode(key, node)
  ELSE IF n.kind = "full"
  THEN fullNode([n.val EXCEPT ![Head(key)] = insert(@, Tail(key), node)])
  ELSE LET m == prefixLen(key, n.key)
           branch == fullNode([x \in Nibbles |->
             CASE x = n.key[m + 1] -> insert(None, Rest(n.key, m + 1), n.val)
               [] x = key[m + 1] -> insert(None, Rest(key, m + 1), node)
               [] OTHER -> None])
       IN IF m = Len(n.key) THEN shortNode(n.key, insert(n.val, Rest(key, m), node))
          ELSE IF m = 0 THEN branch
          ELSE shortNode(SubSeq(key, 1, m), branch)

\* Mutant: short nodes that meet are not merged.
Merged_Never(key, child) == shortNode(key, child)

\* A short node above a child that may have become one itself.
Merged(key, child) ==
  IF IsShort(child) THEN shortNode(key \o child.key, child.val)
  ELSE shortNode(key, child)

\* delete; a full node that has one child left becomes a short node.
RECURSIVE delete(_, _)
delete(n, key) ==
  IF n = None \/ n.kind = "value" THEN None
  ELSE IF n.kind = "short"
  THEN IF ~IsPrefix(n.key, key) THEN n
       ELSE IF n.key = key THEN None
       ELSE Merged(n.key, delete(n.val, Rest(key, Len(n.key))))
  ELSE LET children == [n.val EXCEPT ![Head(key)] = delete(@, Tail(key))]
           left == {x \in Nibbles : children[x] # None}
           pos == CHOOSE x \in left : TRUE
       IN IF Cardinality(left) = 1 THEN Merged(<<pos>>, children[pos])
          ELSE fullNode(children)

TryUpdate(t, key, v) == insert(t, key, valueNode(v))
TryDelete(t, key) == delete(t, key)

=============================================================================
