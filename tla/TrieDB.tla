------------------------------ MODULE TrieDB ------------------------------
(***************************************************************************)
(* The write cache of the state tries: network/eth/trie/database.go.       *)
(*                                                                         *)
(* A database is a record:                                                 *)
(*   flush    the cached (dirty) nodes in the order of the flush-list,     *)
(*            oldest first                                                 *)
(*   parents  how many references the cache counts to each cached node     *)
(*   meta     how often the meta root refers to each root                  *)
(*   disk     the nodes written to the database on disk                    *)
(* The nodes are content addressed, so a node has the same children        *)
(* wherever it occurs.  Clean caches, sizes in bytes and preimages are     *)
(* left out; how much Cap writes is a number of nodes.                     *)
(***************************************************************************)
EXTENDS Naturals, FiniteSets, Sequences, SequencesExt

CONSTANTS
  Nodes,       \* the trie nodes
  Children,    \* the nodes each node refers to
  TopDown      \* the nodes as a sequence with every node before its children

ASSUME TrieAssumption ==
  /\ Children \in [Nodes -> SUBSET Nodes]
  /\ TopDown \in Seq(Nodes) /\ ToSet(TopDown) = Nodes /\ IsInjective(TopDown)
  /\ \A i, j \in DOMAIN TopDown : TopDown[i] \in Children[TopDown[j]] => j < i

\* SequencesExt!FoldLeft as one recursive function, which TLC evaluates in a
\* step for each element.
Fold(op(_, _), base, seq) ==
  LET f[i \in 0..Len(seq)] == IF i = 0 THEN base ELSE op(f[i - 1], seq[i])
  IN f[Len(seq)]

\* The nodes of the trie with the given root.
Trie == [root \in Nodes |->
  Fold(LAMBDA seen, n :
             IF n \in seen THEN seen \cup Children[n] ELSE seen,
           {root}, TopDown)]

NewDatabase(onDisk) ==
  [flush |-> << >>, parents |-> [n \in Nodes |-> 0],
   meta |-> [n \in Nodes |-> 0], disk |-> onDisk]

Dirty(db) == ToSet(db.flush)
Available(db, n) == n \in Dirty(db) \/ n \in db.disk

\* A node that is cached already is skipped; a new one counts as a parent of
\* its cached children and goes to the end of the flush-list.
insert(db, n) ==
  IF n \in Dirty(db) THEN db
  ELSE [db EXCEPT
          !.parents = [m \in Nodes |->
             IF m = n THEN 0
             ELSE IF m \in Children[n] /\ m \in Dirty(db) THEN @[m] + 1
             ELSE @[m]],
          !.flush = Append(@, n)]

\* The commit of a trie inserts the nodes that changed, children first.
InsertTrie(db, nodes) ==
  Fold(LAMBDA d, n : IF n \in nodes THEN insert(d, n) ELSE d,
           db, Reverse(TopDown))

\* The flush-list without some nodes.
Unlink(flush, out) ==
  Fold(LAMBDA s, n : IF n \in out THEN s ELSE Append(s, n), << >>, flush)

\* Reference(root, meta root): a root that is not cached came from disk.
Reference(db, root) ==
  IF root \notin Dirty(db) THEN db
  ELSE [db EXCEPT !.parents[root] = @ + 1, !.meta[root] = @ + 1]

\* Mutant: a node is dropped with the first reference that goes.
Dereference_First(db, root) ==
  LET drop(acc, n) ==
        IF acc.owed[n] = 0 \/ n \notin Dirty(acc.db) THEN acc
        ELSE [db |-> [acc.db EXCEPT !.parents[n] = 0,
                        !.flush = Unlink(@, {n})],
              owed |-> [m \in Nodes |->
                 IF m \in Children[n] THEN acc.owed[m] + 1 ELSE acc.owed[m]]]
      start == [db EXCEPT !.meta[root] = IF @ > 0 THEN @ - 1 ELSE 0]
  IN Fold(drop, [db |-> start,
                     owed |-> [n \in Nodes |-> IF n = root THEN 1 ELSE 0]],
              TopDown).db

\* Dereference(root): the meta root's reference goes, and with the last
\* reference to a cached node the node and its references to its children.
\* The cascade runs down TopDown; owed[n] is how many references n loses.
Dereference(db, root) ==
  LET drop(acc, n) ==
        IF acc.owed[n] = 0 \/ n \notin Dirty(acc.db) THEN acc
        ELSE LET p == acc.db.parents[n]
                 left == IF p > acc.owed[n] THEN p - acc.owed[n] ELSE 0
             IN IF left > 0
                THEN [acc EXCEPT !.db.parents[n] = left]
                ELSE [db |-> [acc.db EXCEPT !.parents[n] = 0,
                                !.flush = Unlink(@, {n})],
                      owed |-> [m \in Nodes |->
                         IF m \in Children[n] THEN acc.owed[m] + 1
                         ELSE acc.owed[m]]]
      start == [db EXCEPT !.meta[root] = IF @ > 0 THEN @ - 1 ELSE 0]
  IN Fold(drop, [db |-> start,
                     owed |-> [n \in Nodes |-> IF n = root THEN 1 ELSE 0]],
              TopDown).db

\* Nodes are written to disk and leave the cache; the count of a node that is
\* not cached means nothing.
Uncache(db, out) ==
  [db EXCEPT !.flush = Unlink(@, out),
             !.parents = [n \in Nodes |-> IF n \in out THEN 0 ELSE @[n]],
             !.disk = @ \cup out]

\* Cap: the k oldest nodes go to disk and leave the cache.
Cap(db, k) ==
  LET n == Len(db.flush)
      last == IF k > n THEN n ELSE k
  IN Uncache(db, ToSet(SubSeq(db.flush, 1, last)))

\* Commit: the cached part of a trie goes to disk and leaves the cache.  The
\* walk stops at a node that is not cached.
Commit(db, root) ==
  LET walk(seen, n) == IF n \in seen THEN seen \cup (Children[n] \cap Dirty(db))
                       ELSE seen
      out == Fold(walk, {root} \cap Dirty(db), TopDown)
  IN Uncache(db, out)

\* verifyIntegrity: the cached nodes reached from the meta root, a walk that
\* stops at a node that is not cached.
Reachable(db) ==
  Fold(LAMBDA seen, n :
             IF n \in seen THEN seen \cup (Children[n] \cap Dirty(db)) ELSE seen,
           {n \in Dirty(db) : db.meta[n] > 0}, TopDown)

=============================================================================
