---------------------------- MODULE TableProofs ----------------------------
(***************************************************************************)
(* For every set of nodes, list of bootstrap nodes, size of bucket and     *)
(* number of requests on their way: a bucket of the table never holds a    *)
(* node twice nor more nodes than it may, a node that never answers is not *)
(* handed on, and an entry makes way only if it did not answer.            *)
(***************************************************************************)
EXTENDS Table, FiniteSetTheorems, FunctionTheorems, SequenceTheorems, TLAPS

----------------------------------------------------------------------------
\* Lists of different nodes.
Lists == {l \in Seq(Nodes) : \A i, j \in 1 .. Len(l) : l[i] = l[j] => i = j}

LEMMA ContainsLemma ==
    ASSUME NEW l \in Seq(Nodes), NEW n
    PROVE  Contains(l, n) <=> n \in ToSet(l)
  BY DEF Contains, ToSet

LEMMA EmptyList == <<>> \in Lists /\ Len(<<>>) = 0 /\ ToSet(<<>>) = {}
  BY DEF Lists, ToSet

\* A new node in front of a list, and behind it.
LEMMA PrependLemma ==
    ASSUME NEW l \in Lists, NEW n \in Nodes, n \notin ToSet(l)
    PROVE  LET p == <<n>> \o l
           IN  p \in Lists /\ Len(p) = Len(l) + 1 /\ ToSet(p) = ToSet(l) \cup {n}
  <1> DEFINE p == <<n>> \o l
  <1>1. l \in Seq(Nodes) /\ Len(l) \in Nat /\ ToSet(l) = {l[i] : i \in 1 .. Len(l)}
        /\ \A i, j \in 1 .. Len(l) : l[i] = l[j] => i = j
    BY DEF Lists, ToSet
  <1>2. /\ p \in Seq(Nodes) /\ Len(p) = Len(l) + 1
        /\ \A i \in 1 .. Len(p) : p[i] = IF i = 1 THEN n ELSE l[i - 1]
    BY <1>1
  <1> HIDE DEF p
  <1>3. \A i \in 1 .. Len(l) : p[i + 1] = l[i] /\ i + 1 \in 1 .. Len(p)
    BY <1>1, <1>2
  <1>4. \A i \in 2 .. Len(p) : i - 1 \in 1 .. Len(l) /\ p[i] = l[i - 1] /\ p[i] # n
    BY <1>1, <1>2
  <1>5. p[1] = n /\ 1 \in 1 .. Len(p)
    BY <1>1, <1>2
  <1>6. ToSet(p) = ToSet(l) \cup {n}
    <2>1. ToSet(p) = {p[i] : i \in 1 .. Len(p)}
      BY <1>2 DEF ToSet
    <2>2. ASSUME NEW i \in 1 .. Len(p) PROVE p[i] \in ToSet(l) \cup {n}
      <3>1. CASE i = 1
        BY <1>5, <3>1
      <3>2. CASE i # 1
        <4>1. i \in 2 .. Len(p)
          BY <1>1, <1>2, <3>2
        <4>2. i - 1 \in 1 .. Len(l) /\ p[i] = l[i - 1]
          BY <1>4, <4>1
        <4>3. QED
          BY <1>1, <4>2
      <3>3. QED
        BY <3>1, <3>2
    <2>3. ToSet(l) \cup {n} \subseteq ToSet(p)
      BY <1>1, <1>3, <1>5, <2>1
    <2>4. QED
      BY <2>1, <2>2, <2>3
  <1>7. ASSUME NEW i \in 1 .. Len(p), NEW j \in 1 .. Len(p), p[i] = p[j] PROVE i = j
    <2>1. CASE i = 1 \/ j = 1
      BY <1>1, <1>2, <1>4, <1>5, <1>7, <2>1
    <2>2. CASE i # 1 /\ j # 1
      <3>1. i - 1 \in 1 .. Len(l) /\ j - 1 \in 1 .. Len(l) /\ l[i - 1] = l[j - 1]
        BY <1>1, <1>2, <1>4, <1>7, <2>2
      <3>2. i - 1 = j - 1
        BY <1>1, <3>1
      <3>3. QED
        BY <3>2
    <2>3. QED
      BY <2>1, <2>2
  <1>8. QED
    BY <1>2, <1>6, <1>7 DEF Lists, p

LEMMA AppendLemma ==
    ASSUME NEW l \in Lists, NEW n \in Nodes, n \notin ToSet(l)
    PROVE  LET p == Append(l, n)
           IN  p \in Lists /\ Len(p) = Len(l) + 1 /\ ToSet(p) = ToSet(l) \cup {n}
  <1> DEFINE p == Append(l, n)
  <1>1. l \in Seq(Nodes) /\ Len(l) \in Nat /\ ToSet(l) = {l[i] : i \in 1 .. Len(l)}
        /\ \A i, j \in 1 .. Len(l) : l[i] = l[j] => i = j
    BY DEF Lists, ToSet
  <1>2. /\ p \in Seq(Nodes) /\ Len(p) = Len(l) + 1 /\ p[Len(p)] = n
        /\ \A i \in 1 .. Len(l) : p[i] = l[i]
    BY <1>1
  <1> HIDE DEF p
  <1>3. ToSet(p) = ToSet(l) \cup {n}
    <2>1. ToSet(p) = {p[i] : i \in 1 .. Len(p)}
      BY <1>2 DEF ToSet
    <2>2. \A i \in 1 .. Len(p) : i \in 1 .. Len(l) \/ i = Len(p)
      BY <1>1, <1>2
    <2>3. Len(p) \in 1 .. Len(p) /\ 1 .. Len(l) \subseteq 1 .. Len(p)
      BY <1>1, <1>2
    <2>4. QED
      BY <1>1, <1>2, <2>1, <2>2, <2>3
  <1>4. ASSUME NEW i \in 1 .. Len(p), NEW j \in 1 .. Len(p), p[i] = p[j] PROVE i = j
    <2>1. \A k \in 1 .. Len(p) : k = Len(p) \/ (k \in 1 .. Len(l) /\ p[k] # n)
      BY <1>1, <1>2
    <2>2. QED
      BY <1>1, <1>2, <1>4, <2>1
  <1>5. QED
    BY <1>2, <1>3, <1>4 DEF Lists, p

\* A list without its last node.
LEMMA FrontLemma ==
    ASSUME NEW l \in Lists, l # <<>>
    PROVE  /\ Front(l) \in Lists /\ Len(Front(l)) = Len(l) - 1
           /\ ToSet(Front(l)) = ToSet(l) \ {Last(l)} /\ Last(l) \in ToSet(l)
  <1> DEFINE f == Front(l)
  <1>1. l \in Seq(Nodes) /\ Len(l) \in Nat \ {0} /\ ToSet(l) = {l[i] : i \in 1 .. Len(l)}
        /\ \A i, j \in 1 .. Len(l) : l[i] = l[j] => i = j
    BY DEF Lists, ToSet
  <1>2. f \in Seq(Nodes) /\ Len(f) = Len(l) - 1 /\ \A i \in 1 .. Len(f) : f[i] = l[i]
    <2> DEFINE k == Len(l) - 1
    <2>1. k \in Nat /\ k <= Len(l)
      BY <1>1
    <2> HIDE DEF k
    <2>2. /\ SubSeq(l, 1, k) \in Seq(Nodes) /\ Len(SubSeq(l, 1, k)) = k
          /\ \A i \in 1 .. k : SubSeq(l, 1, k)[i] = l[i]
      BY <1>1, <2>1
    <2>3. QED
      BY <2>2 DEF Front, k
  <1> HIDE DEF f
  <1>3. Len(l) \in 1 .. Len(l) /\ 1 .. Len(f) \subseteq 1 .. Len(l) /\ Len(l) \notin 1 .. Len(f)
        /\ \A i \in 1 .. Len(l) : i \in 1 .. Len(f) \/ i = Len(l)
    BY <1>1, <1>2
  <1>4. Last(l) = l[Len(l)] /\ Last(l) \in ToSet(l)
    BY <1>1, <1>3 DEF Last
  <1>5. ToSet(f) = {f[i] : i \in 1 .. Len(f)}
    BY <1>2 DEF ToSet
  <1>6. ToSet(f) = ToSet(l) \ {Last(l)}
    <2>1. ToSet(f) \subseteq ToSet(l) \ {Last(l)}
      <3>1. \A i \in 1 .. Len(f) : f[i] = l[i] /\ i \in 1 .. Len(l) /\ l[i] # l[Len(l)]
        BY <1>1, <1>2, <1>3
      <3>2. QED
        BY <1>1, <1>4, <1>5, <3>1
    <2>2. ToSet(l) \ {Last(l)} \subseteq ToSet(f)
      BY <1>1, <1>2, <1>3, <1>4, <1>5
    <2>3. QED
      BY <2>1, <2>2
  <1>7. f \in Lists
    BY <1>1, <1>2, <1>3 DEF Lists
  <1>8. QED
    BY <1>2, <1>4, <1>6, <1>7 DEF f

\* deleteNode: the node is gone, and nothing else.
LEMMA DeleteNodeLemma ==
    ASSUME NEW l \in Lists, NEW n
    PROVE  /\ deleteNode(l, n) \in Lists /\ ToSet(deleteNode(l, n)) = ToSet(l) \ {n}
           /\ Len(deleteNode(l, n)) = IF n \in ToSet(l) THEN Len(l) - 1 ELSE Len(l)
  <1> DEFINE d == deleteNode(l, n)
  <1>1. l \in Seq(Nodes) /\ Len(l) \in Nat /\ ToSet(l) = {l[i] : i \in 1 .. Len(l)}
        /\ \A i, j \in 1 .. Len(l) : l[i] = l[j] => i = j
    BY DEF Lists, ToSet
  <1>2. CASE n \notin ToSet(l)
    <2>1. d = l
      BY <1>1, <1>2 DEF deleteNode, RemoveFirst
    <2>2. QED
      BY <1>2, <2>1
  <1>3. CASE n \in ToSet(l)
    <2>1. PICK k \in 1 .. Len(l) : l[k] = n
      BY <1>1, <1>3
    <2>2. SelectInSeq(l, LAMBDA v : v = n) = k
      <3>1. {i \in 1 .. Len(l) : l[i] = n} = {k}
        BY <1>1, <2>1
      <3>2. Min({k}) = k
        BY <2>1 DEF Min
      <3>3. QED
        BY <3>1, <3>2 DEF SelectInSeq
    <2>3. d = SubSeq(l, 1, k - 1) \o SubSeq(l, k + 1, Len(l))
      BY <1>1, <2>1, <2>2 DEF deleteNode, RemoveFirst, RemoveAt
    <2> DEFINE a == SubSeq(l, 1, k - 1)
               b == SubSeq(l, k + 1, Len(l))
    <2>4. a \in Seq(Nodes) /\ Len(a) = k - 1 /\ \A i \in 1 .. k - 1 : a[i] = l[i]
      BY <1>1, <2>1
    <2>5. b \in Seq(Nodes) /\ Len(b) = Len(l) - k /\ \A i \in 1 .. Len(l) - k : b[i] = l[k + i]
      BY <1>1, <2>1
    <2> HIDE DEF a, b
    <2>6. d = a \o b
      BY <2>3 DEF a, b
    <2> HIDE DEF d
    <2>7. /\ d \in Seq(Nodes) /\ Len(d) = Len(l) - 1
          /\ \A i \in 1 .. Len(d) : d[i] = IF i < k THEN l[i] ELSE l[i + 1]
      <3>1. /\ d \in Seq(Nodes) /\ Len(d) = Len(a) + Len(b)
            /\ \A i \in 1 .. Len(d) : d[i] = IF i <= Len(a) THEN a[i] ELSE b[i - Len(a)]
        <4>1. a \in Seq(Nodes) /\ b \in Seq(Nodes)
          BY <2>4, <2>5
        <4>2. QED
          BY <2>6, <4>1
      <3>2. ASSUME NEW i \in 1 .. Len(d) PROVE d[i] = IF i < k THEN l[i] ELSE l[i + 1]
        <4>1. CASE i < k
          <5>1. i \in 1 .. k - 1 /\ i <= Len(a) /\ i \in 1 .. Len(d)
            BY <2>1, <2>4, <4>1
          <5>2. d[i] = IF i <= Len(a) THEN a[i] ELSE b[i - Len(a)]
            BY <3>1
          <5>3. QED
            BY <2>4, <4>1, <5>1, <5>2
        <4>2. CASE ~(i < k)
          <5>1. i - (k - 1) \in 1 .. Len(l) - k /\ k + (i - (k - 1)) = i + 1
            BY <1>1, <2>1, <2>4, <2>5, <3>1, <4>2
          <5>2. d[i] = b[i - (k - 1)]
            <6>1. ~(i <= Len(a)) /\ i - Len(a) = i - (k - 1)
              BY <2>1, <2>4, <4>2
            <6>2. d[i] = b[i - Len(a)]
              BY <3>1, <6>1
            <6>3. QED
              BY <6>1, <6>2
          <5>3. b[i - (k - 1)] = l[k + (i - (k - 1))]
            BY <2>5, <5>1
          <5>4. QED
            BY <4>2, <5>1, <5>2, <5>3
        <4>3. QED
          BY <4>1, <4>2
      <3>3. Len(d) = Len(l) - 1
        BY <1>1, <2>1, <2>4, <2>5, <3>1
      <3>4. QED
        BY <3>1, <3>2, <3>3
    <2>8. ASSUME NEW i \in 1 .. Len(d) PROVE d[i] \in ToSet(l) /\ d[i] # n
      <3>1. i \in 1 .. Len(l) /\ i + 1 \in 1 .. Len(l) /\ (i < k => i # k) /\ (~(i < k) => i + 1 # k)
        BY <1>1, <2>1, <2>7
      <3>2. QED
        BY <1>1, <2>1, <2>7, <3>1
    <2>9. ASSUME NEW i \in 1 .. Len(l), i # k PROVE \E j \in 1 .. Len(d) : d[j] = l[i]
      <3>1. CASE i < k
        <4>1. i \in 1 .. Len(d)
          BY <1>1, <2>1, <2>7, <3>1
        <4>2. QED
          BY <2>7, <3>1, <4>1
      <3>2. CASE ~(i < k)
        <4>1. i - 1 \in 1 .. Len(d) /\ ~(i - 1 < k) /\ (i - 1) + 1 = i
          BY <1>1, <2>1, <2>7, <2>9, <3>2
        <4>2. QED
          BY <2>7, <4>1
      <3>3. QED
        BY <3>1, <3>2
    <2>10. ToSet(d) = ToSet(l) \ {n}
      <3>1. ToSet(d) = {d[i] : i \in 1 .. Len(d)}
        BY <2>7 DEF ToSet
      <3>2. ToSet(d) \subseteq ToSet(l) \ {n}
        BY <2>8, <3>1
      <3>3. ToSet(l) \ {n} \subseteq ToSet(d)
        BY <1>1, <2>1, <2>9, <3>1
      <3>4. QED
        BY <3>2, <3>3
    <2>11. ASSUME NEW i \in 1 .. Len(d), NEW j \in 1 .. Len(d), d[i] = d[j] PROVE i = j
      <3> DEFINE at(m) == IF m < k THEN m ELSE m + 1
      <3>1. at(i) \in 1 .. Len(l) /\ at(j) \in 1 .. Len(l) /\ d[i] = l[at(i)] /\ d[j] = l[at(j)]
        BY <1>1, <2>1, <2>7
      <3>2. at(i) = at(j)
        <4> HIDE DEF at
        <4>1. QED
          BY <1>1, <2>11, <3>1
      <3>3. QED
        BY <2>1, <3>2
    <2>12. QED
      BY <1>3, <2>7, <2>10, <2>11 DEF Lists, d
  <1>4. QED
    BY <1>2, <1>3

----------------------------------------------------------------------------
\* The buckets that the table may have: within their sizes, each node once.
Buckets ==
    {b \in [entries : Lists, replacements : Lists] :
        /\ Len(b.entries) <= bucketSize /\ Len(b.replacements) <= maxReplacements
        /\ ToSet(b.entries) \cap ToSet(b.replacements) = {}}

\* The buckets that hold at least some set of entries.
Keeping(E) == {b \in Buckets : E \subseteq ToSet(b.entries)}

LEMMA BucketParts ==
    ASSUME NEW b \in Buckets
    PROVE  /\ b = [entries |-> b.entries, replacements |-> b.replacements]
           /\ b.entries \in Lists /\ b.replacements \in Lists
           /\ b.entries \in Seq(Nodes) /\ b.replacements \in Seq(Nodes)
           /\ Len(b.entries) \in 0 .. bucketSize /\ Len(b.replacements) \in 0 .. maxReplacements
           /\ ToSet(b.entries) \cap ToSet(b.replacements) = {}
  BY TableAssumption DEF Buckets, Lists

LEMMA MakeBucket ==
    ASSUME NEW e \in Lists, NEW r \in Lists, Len(e) <= bucketSize, Len(r) <= maxReplacements,
           ToSet(e) \cap ToSet(r) = {}
    PROVE  [entries |-> e, replacements |-> r] \in Buckets
  BY DEF Buckets

\* A node that is no entry may become a replacement; the last one makes way.
LEMMA AddReplacementLemma ==
    ASSUME NEW b \in Buckets, NEW n \in Nodes, n \notin ToSet(b.entries)
    PROVE  addReplacement(b, n) \in Buckets /\ addReplacement(b, n).entries = b.entries
  <1> DEFINE r == b.replacements
             p == pushNode(r, n, maxReplacements)
  <1>1. /\ b = [entries |-> b.entries, replacements |-> r] /\ b.entries \in Lists /\ r \in Lists
        /\ r \in Seq(Nodes) /\ Len(b.entries) \in 0 .. bucketSize /\ Len(r) \in 0 .. maxReplacements
        /\ ToSet(b.entries) \cap ToSet(r) = {}
    BY BucketParts
  <1>2. Contains(r, n) <=> n \in ToSet(r)
    BY <1>1, ContainsLemma
  <1>3. CASE n \in ToSet(r)
    <2>1. addReplacement(b, n) = b
      BY <1>2, <1>3 DEF addReplacement
    <2>2. QED
      BY <2>1
  <1>4. CASE n \notin ToSet(r)
    <2>1. addReplacement(b, n) = [entries |-> b.entries, replacements |-> p]
      BY <1>1, <1>2, <1>4 DEF addReplacement
    <2> DEFINE s == IF Len(r) < maxReplacements THEN r ELSE Front(r)
    <2>2. s \in Lists /\ Len(s) + 1 <= maxReplacements /\ ToSet(s) \subseteq ToSet(r)
      <3>1. CASE Len(r) < maxReplacements
        BY <1>1, <3>1, TableAssumption
      <3>2. CASE ~(Len(r) < maxReplacements)
        <4>1. r # <<>> /\ Len(r) = maxReplacements
          BY <1>1, <3>2, EmptyList, TableAssumption
        <4>2. QED
          BY <1>1, <3>2, <4>1, FrontLemma, TableAssumption
      <3>3. QED
        BY <3>1, <3>2
    <2>3. p = <<n>> \o s
      BY DEF pushNode
    <2> HIDE DEF s, p
    <2>4. p \in Lists /\ Len(p) = Len(s) + 1 /\ ToSet(p) = ToSet(s) \cup {n}
      BY <1>4, <2>2, <2>3, PrependLemma
    <2>5. [entries |-> b.entries, replacements |-> p] \in Buckets
      BY <1>1, <2>2, <2>4, MakeBucket, TableAssumption
    <2>6. QED
      BY <2>1, <2>5
  <1>5. QED
    BY <1>3, <1>4

\* A node that was heard of.  No entry makes way for it.
LEMMA AddSeenNodeLemma ==
    ASSUME NEW b \in Buckets, NEW n \in Nodes
    PROVE  addSeenNode(b, n) \in Buckets /\ ToSet(b.entries) \subseteq ToSet(addSeenNode(b, n).entries)
  <1>1. /\ b = [entries |-> b.entries, replacements |-> b.replacements]
        /\ b.entries \in Lists /\ b.replacements \in Lists /\ b.entries \in Seq(Nodes)
        /\ Len(b.entries) \in 0 .. bucketSize /\ Len(b.replacements) \in 0 .. maxReplacements
        /\ ToSet(b.entries) \cap ToSet(b.replacements) = {}
    BY BucketParts
  <1>2. Contains(b.entries, n) <=> n \in ToSet(b.entries)
    BY <1>1, ContainsLemma
  <1>3. CASE n \in ToSet(b.entries)
    BY <1>2, <1>3 DEF addSeenNode
  <1>4. CASE n \notin ToSet(b.entries) /\ Len(b.entries) >= bucketSize
    <2>1. addSeenNode(b, n) = addReplacement(b, n)
      BY <1>2, <1>4 DEF addSeenNode
    <2>2. QED
      BY <1>4, <2>1, AddReplacementLemma
  <1>5. CASE n \notin ToSet(b.entries) /\ ~(Len(b.entries) >= bucketSize)
    <2> DEFINE e == Append(b.entries, n)
               r == deleteNode(b.replacements, n)
    <2>1. addSeenNode(b, n) = [entries |-> e, replacements |-> r]
      BY <1>2, <1>5 DEF addSeenNode
    <2>2. e \in Lists /\ Len(e) = Len(b.entries) + 1 /\ ToSet(e) = ToSet(b.entries) \cup {n}
      BY <1>1, <1>5, AppendLemma
    <2>3. /\ r \in Lists /\ ToSet(r) = ToSet(b.replacements) \ {n}
          /\ Len(r) <= maxReplacements
      BY <1>1, DeleteNodeLemma, TableAssumption
    <2> HIDE DEF e, r
    <2>4. Len(e) <= bucketSize
      BY <1>1, <1>5, <2>2, TableAssumption
    <2>5. [entries |-> e, replacements |-> r] \in Buckets
      BY <1>1, <2>2, <2>3, <2>4, MakeBucket
    <2>6. QED
      BY <2>1, <2>2, <2>5
  <1>6. QED
    BY <1>3, <1>4, <1>5

\* An entry that answered moves to the front.
LEMMA BumpLemma ==
    ASSUME NEW b \in Buckets, NEW n \in Nodes
    PROVE  bumpInBucket(b, n) \in Buckets /\ ToSet(bumpInBucket(b, n).entries) = ToSet(b.entries)
  <1>1. /\ b = [entries |-> b.entries, replacements |-> b.replacements]
        /\ b.entries \in Lists /\ b.replacements \in Lists /\ b.entries \in Seq(Nodes)
        /\ Len(b.entries) \in 0 .. bucketSize /\ Len(b.replacements) \in 0 .. maxReplacements
        /\ ToSet(b.entries) \cap ToSet(b.replacements) = {}
    BY BucketParts
  <1>2. Contains(b.entries, n) <=> n \in ToSet(b.entries)
    BY <1>1, ContainsLemma
  <1>3. CASE n \notin ToSet(b.entries)
    BY <1>2, <1>3 DEF bumpInBucket
  <1>4. CASE n \in ToSet(b.entries)
    <2> DEFINE d == deleteNode(b.entries, n)
               e == <<n>> \o d
    <2>1. bumpInBucket(b, n) = [entries |-> e, replacements |-> b.replacements]
      BY <1>1, <1>2, <1>4 DEF bumpInBucket
    <2>2. d \in Lists /\ ToSet(d) = ToSet(b.entries) \ {n} /\ Len(d) = Len(b.entries) - 1
      BY <1>1, <1>4, DeleteNodeLemma
    <2>3. e \in Lists /\ Len(e) = Len(d) + 1 /\ ToSet(e) = ToSet(d) \cup {n}
      <3> HIDE DEF d
      <3>1. QED
        BY <2>2, PrependLemma
    <2> HIDE DEF d, e
    <2>4. ToSet(e) = ToSet(b.entries) /\ Len(e) <= bucketSize
      BY <1>1, <1>4, <2>2, <2>3, TableAssumption
    <2>5. [entries |-> e, replacements |-> b.replacements] \in Buckets
      BY <1>1, <2>3, <2>4, MakeBucket, TableAssumption
    <2>6. QED
      BY <2>1, <2>4, <2>5
  <1>5. QED
    BY <1>3, <1>4

\* A node that pinged or was pinged.  No entry makes way for it either.
LEMMA AddVerifiedNodeLemma ==
    ASSUME NEW b \in Buckets, NEW n \in Nodes
    PROVE  /\ addVerifiedNode(b, n) \in Buckets
           /\ ToSet(b.entries) \subseteq ToSet(addVerifiedNode(b, n).entries)
  <1>1. /\ b = [entries |-> b.entries, replacements |-> b.replacements]
        /\ b.entries \in Lists /\ b.replacements \in Lists /\ b.entries \in Seq(Nodes)
        /\ Len(b.entries) \in 0 .. bucketSize /\ Len(b.replacements) \in 0 .. maxReplacements
        /\ ToSet(b.entries) \cap ToSet(b.replacements) = {}
    BY BucketParts
  <1>2. Contains(b.entries, n) <=> n \in ToSet(b.entries)
    BY <1>1, ContainsLemma
  <1>3. CASE n \in ToSet(b.entries)
    <2>1. addVerifiedNode(b, n) = bumpInBucket(b, n)
      BY <1>2, <1>3 DEF addVerifiedNode
    <2>2. QED
      BY <2>1, BumpLemma
  <1>4. CASE n \notin ToSet(b.entries) /\ Len(b.entries) >= bucketSize
    <2>1. addVerifiedNode(b, n) = addReplacement(b, n)
      BY <1>2, <1>4 DEF addVerifiedNode
    <2>2. QED
      BY <1>4, <2>1, AddReplacementLemma
  <1>5. CASE n \notin ToSet(b.entries) /\ ~(Len(b.entries) >= bucketSize)
    <2> DEFINE e == <<n>> \o b.entries
               r == deleteNode(b.replacements, n)
    <2>1. Len(b.entries) < bucketSize /\ Len(b.entries) + 1 <= bucketSize
      BY <1>1, <1>5, TableAssumption
    <2>2. addVerifiedNode(b, n) = [entries |-> e, replacements |-> r]
      BY <1>2, <1>5, <2>1 DEF addVerifiedNode, pushNode
    <2>3. e \in Lists /\ Len(e) = Len(b.entries) + 1 /\ ToSet(e) = ToSet(b.entries) \cup {n}
      BY <1>1, <1>5, PrependLemma
    <2>4. /\ r \in Lists /\ ToSet(r) = ToSet(b.replacements) \ {n}
          /\ Len(r) <= maxReplacements
      BY <1>1, DeleteNodeLemma, TableAssumption
    <2> HIDE DEF e, r
    <2>5. [entries |-> e, replacements |-> r] \in Buckets
      BY <1>1, <2>1, <2>3, <2>4, MakeBucket
    <2>6. QED
      BY <2>2, <2>3, <2>5
  <1>6. QED
    BY <1>3, <1>4, <1>5

\* delete takes the node from the entries, and nothing else.
LEMMA DeleteLemma ==
    ASSUME NEW b \in Buckets, NEW n
    PROVE  delete(b, n) \in Buckets /\ ToSet(delete(b, n).entries) = ToSet(b.entries) \ {n}
  <1>1. /\ b = [entries |-> b.entries, replacements |-> b.replacements]
        /\ b.entries \in Lists /\ b.replacements \in Lists
        /\ Len(b.entries) \in 0 .. bucketSize /\ Len(b.replacements) \in 0 .. maxReplacements
        /\ ToSet(b.entries) \cap ToSet(b.replacements) = {}
    BY BucketParts
  <1> DEFINE d == deleteNode(b.entries, n)
  <1>2. delete(b, n) = [entries |-> d, replacements |-> b.replacements]
    BY <1>1 DEF delete
  <1>3. d \in Lists /\ ToSet(d) = ToSet(b.entries) \ {n} /\ Len(d) <= bucketSize
    BY <1>1, DeleteNodeLemma, TableAssumption
  <1> HIDE DEF d
  <1>4. [entries |-> d, replacements |-> b.replacements] \in Buckets
    BY <1>1, <1>3, MakeBucket, TableAssumption
  <1>5. QED
    BY <1>2, <1>3, <1>4

\* replace: a replacement takes the place of the node that did not answer, if
\* that is still the last entry.
LEMMA ReplaceLemma ==
    ASSUME NEW b \in Buckets, NEW n, NEW c \in replace(b, n)
    PROVE  c \in Buckets /\ ToSet(b.entries) \ {n} \subseteq ToSet(c.entries)
  <1>1. /\ b.entries \in Lists /\ b.replacements \in Lists /\ b.replacements \in Seq(Nodes)
        /\ Len(b.entries) \in 0 .. bucketSize /\ Len(b.replacements) \in 0 .. maxReplacements
        /\ ToSet(b.entries) \cap ToSet(b.replacements) = {}
    BY BucketParts
  <1>2. CASE b.entries = <<>> \/ Last(b.entries) # n
    BY <1>2 DEF replace
  <1>3. CASE ~(b.entries = <<>> \/ Last(b.entries) # n) /\ b.replacements = <<>>
    <2>1. c = delete(b, n)
      BY <1>3 DEF replace
    <2>2. QED
      BY <2>1, DeleteLemma
  <1>4. CASE ~(b.entries = <<>> \/ Last(b.entries) # n) /\ b.replacements # <<>>
    <2>1. PICK r \in ToSet(b.replacements) :
            c = [entries |-> Append(Front(b.entries), r), replacements |-> deleteNode(b.replacements, r)]
      BY <1>4 DEF replace
    <2>2. r \in Nodes
      BY <1>1 DEF ToSet
    <2> DEFINE f == Front(b.entries)
               e == Append(f, r)
               d == deleteNode(b.replacements, r)
    <2>3. f \in Lists /\ Len(f) = Len(b.entries) - 1 /\ ToSet(f) = ToSet(b.entries) \ {n}
      BY <1>1, <1>4, FrontLemma
    <2>4. e \in Lists /\ Len(e) = Len(f) + 1 /\ ToSet(e) = ToSet(f) \cup {r}
      <3> HIDE DEF f
      <3>1. QED
        BY <1>1, <2>1, <2>2, <2>3, AppendLemma
    <2>5. d \in Lists /\ ToSet(d) = ToSet(b.replacements) \ {r} /\ Len(d) <= maxReplacements
      BY <1>1, DeleteNodeLemma, TableAssumption
    <2> HIDE DEF f, e, d
    <2>6. Len(e) <= bucketSize /\ ToSet(e) \cap ToSet(d) = {}
      BY <1>1, <2>3, <2>4, <2>5, TableAssumption
    <2>7. [entries |-> e, replacements |-> d] \in Buckets
      BY <2>4, <2>5, <2>6, MakeBucket
    <2>8. c = [entries |-> e, replacements |-> d]
      BY <2>1 DEF f, e, d
    <2>9. QED
      BY <2>3, <2>4, <2>7, <2>8
  <1>5. QED
    BY <1>2, <1>3, <1>4

\* addSeenNode, folded over the nodes of an answer or of the database.
Seen == INSTANCE FoldTheorems WITH
  Op <- LAMBDA p, q, r, d, e : addSeenNode(d, e)

LEMMA AddSeenNodesLemma ==
    ASSUME NEW b \in Buckets, NEW nodes \in Seq(Nodes)
    PROVE  addSeenNodes(b, nodes) \in Buckets /\ ToSet(b.entries) \subseteq ToSet(addSeenNodes(b, nodes).entries)
  <1> DEFINE E == ToSet(b.entries)
  <1>1. FoldLeft(addSeenNode, b, nodes) = Seen!LeftFold(0, 0, 0, b, nodes)
    BY DEF FoldLeft, MapThenFoldSet, Max, Seen!LeftFold, Seen!Max
  <1>2. b \in Keeping(E)
    BY DEF Keeping
  <1> HIDE DEF E
  <1>3. \A c \in Keeping(E), n \in Nodes : addSeenNode(c, n) \in Keeping(E)
    BY AddSeenNodeLemma DEF Keeping
  <1>4. Seen!LeftFold(0, 0, 0, b, nodes) \in Keeping(E)
    BY <1>2, <1>3, Seen!FoldLeftInvariant
  <1>5. addSeenNodes(b, nodes) \in Keeping(E)
    BY <1>1, <1>4 DEF addSeenNodes
  <1>6. QED
    BY <1>5 DEF Keeping, E

LEMMA EmptyBucket == emptyBucket \in Buckets
  BY EmptyList, MakeBucket, TableAssumption DEF emptyBucket

\* What BucketSound says of the bucket.
LEMMA BucketIsOnce ==
    ASSUME bucket \in Buckets
    PROVE  /\ bucket \in [entries      : BoundedSeq(Nodes, bucketSize),
                          replacements : BoundedSeq(Nodes, maxReplacements)]
           /\ EachNodeOnce
  <1> DEFINE e == bucket.entries
             r == bucket.replacements
             a == e \o r
  <1>1. /\ bucket = [entries |-> e, replacements |-> r]
        /\ e \in Lists /\ r \in Lists /\ e \in Seq(Nodes) /\ r \in Seq(Nodes)
        /\ Len(e) \in 0 .. bucketSize /\ Len(r) \in 0 .. maxReplacements
        /\ ToSet(e) \cap ToSet(r) = {}
    BY BucketParts
  <1>2. \A l \in Seq(Nodes), k \in Nat : Len(l) \in 0 .. k => l \in BoundedSeq(Nodes, k)
    <2> SUFFICES ASSUME NEW l \in Seq(Nodes), NEW k \in Nat, Len(l) \in 0 .. k PROVE l \in BoundedSeq(Nodes, k)
      OBVIOUS
    <2>1. l \in [1 .. Len(l) -> Nodes]
      OBVIOUS
    <2>2. QED
      BY <2>1 DEF BoundedSeq, SeqOf
  <1>3. bucket \in [entries : BoundedSeq(Nodes, bucketSize), replacements : BoundedSeq(Nodes, maxReplacements)]
    <2>1. e \in BoundedSeq(Nodes, bucketSize) /\ r \in BoundedSeq(Nodes, maxReplacements)
      BY <1>1, <1>2, TableAssumption
    <2> HIDE DEF e, r
    <2>2. QED
      BY <1>1, <2>1
  <1> HIDE DEF e, r
  <1>4. /\ a \in Seq(Nodes) /\ Len(a) = Len(e) + Len(r) /\ Len(e) \in Nat /\ Len(r) \in Nat
        /\ \A i \in 1 .. Len(a) : a[i] = IF i <= Len(e) THEN e[i] ELSE r[i - Len(e)]
    BY <1>1
  <1> HIDE DEF a
  <1>5. ASSUME NEW i \in 1 .. Len(a), NEW j \in 1 .. Len(a), a[i] = a[j] PROVE i = j
    <2>1. /\ \A k, m \in 1 .. Len(e) : e[k] = e[m] => k = m
          /\ \A k, m \in 1 .. Len(r) : r[k] = r[m] => k = m
          /\ \A k \in 1 .. Len(e), m \in 1 .. Len(r) : e[k] # r[m]
      <3>1. e \in Seq(Nodes) /\ r \in Seq(Nodes)
        BY <1>1
      <3>2. ToSet(e) = {e[k] : k \in 1 .. Len(e)} /\ ToSet(r) = {r[k] : k \in 1 .. Len(r)}
        BY <3>1 DEF ToSet
      <3>3. \A k \in 1 .. Len(e), m \in 1 .. Len(r) : e[k] # r[m]
        BY <1>1, <3>2
      <3>4. QED
        BY <1>1, <3>3 DEF Lists
    <2>2. ASSUME NEW k \in 1 .. Len(a) PROVE
             \/ k \in 1 .. Len(e) /\ a[k] = e[k]
             \/ k - Len(e) \in 1 .. Len(r) /\ a[k] = r[k - Len(e)]
      BY <1>4
    <2>3. CASE i \in 1 .. Len(e) /\ a[i] = e[i]
      BY <1>5, <2>1, <2>2, <2>3
    <2>4. CASE i - Len(e) \in 1 .. Len(r) /\ a[i] = r[i - Len(e)]
      <3>1. j - Len(e) \in 1 .. Len(r) /\ a[j] = r[j - Len(e)]
        BY <1>5, <2>1, <2>2, <2>4
      <3>2. i - Len(e) = j - Len(e)
        BY <1>5, <2>1, <2>4, <3>1
      <3>3. QED
        BY <1>4, <3>2
    <2>5. QED
      BY <2>2, <2>3, <2>4
  <1>6. Cardinality(ToSet(a)) = Len(a)
    <2> DEFINE f == [i \in 1 .. Len(a) |-> a[i]]
    <2>0. a \in Seq(Nodes)
      BY <1>4
    <2>1. ToSet(a) = {a[i] : i \in 1 .. Len(a)} /\ Len(a) \in Nat
      BY <2>0 DEF ToSet
    <2>2. f \in Bijection(1 .. Len(a), ToSet(a))
      <3>1. f \in Surjection(1 .. Len(a), ToSet(a))
        BY <2>1 DEF Surjection
      <3>2. f \in Injection(1 .. Len(a), ToSet(a))
        BY <1>5, <2>1 DEF Injection, IsInjective
      <3>3. QED
        BY <3>1, <3>2 DEF Bijection
    <2>3. IsFiniteSet(1 .. Len(a)) /\ Cardinality(1 .. Len(a)) = Len(a)
      <3> DEFINE k == Len(a)
      <3> HIDE DEF k
      <3>1. k \in Nat => IsFiniteSet(1 .. k) /\ Cardinality(1 .. k) = k
        BY FS_Interval
      <3>2. QED
        BY <2>1, <3>1 DEF k
    <2>4. ExistsBijection(1 .. Len(a), ToSet(a))
      BY <2>2 DEF ExistsBijection
    <2>5. QED
      BY <2>3, <2>4, FS_Bijection
  <1>7. QED
    BY <1>3, <1>6 DEF EachNodeOnce, a, e, r

----------------------------------------------------------------------------
(***************************************************************************)
(* The inductive invariant.  A silent node is not handed on because no     *)
(* request to it is ever answered; the failures of a node are within their *)
(* bound because the findnodes that may still time out are counted too.    *)
(***************************************************************************)
AnswersAlive ==
    \A s \in Slots :
        requests[s] # Free /\ requests[s].stage = "answered" => requests[s].to \notin Dead

FailsCovered == \A n \in Nodes : fails[n] + Cardinality(Asked(n)) <= MaxFails

RequestsOK == requests \in [Slots -> Request \cup {Free}] /\ AnswersAlive
FailsOK    == fails \in [Nodes -> Nat] /\ FailsCovered
SeedsOK    == checks \subseteq Nodes /\ lastLiveNodes \subseteq Nodes /\ DeadNotAdvertised

IInv == online \in BOOLEAN /\ bucket \in Buckets /\ RequestsOK /\ FailsOK /\ SeedsOK

LEMMA AskedFinite ==
    ASSUME NEW n
    PROVE  Asked(n) \subseteq Slots /\ IsFiniteSet(Asked(n)) /\ Cardinality(Asked(n)) \in Nat
  <1>1. IsFiniteSet(Slots)
    BY TableAssumption, FS_Interval DEF Slots
  <1>2. Asked(n) \subseteq Slots
    BY DEF Asked
  <1>3. QED
    BY <1>1, <1>2, FS_Subset, FS_CardinalityType

LEMMA AskedFiniteNext ==
    ASSUME NEW n
    PROVE  Asked(n)' \subseteq Slots /\ IsFiniteSet(Asked(n)') /\ Cardinality(Asked(n)') \in Nat
  <1>1. IsFiniteSet(Slots)
    BY TableAssumption, FS_Interval DEF Slots
  <1>2. Asked(n)' \subseteq Slots
    BY DEF Asked
  <1>3. QED
    BY <1>1, <1>2, FS_Subset, FS_CardinalityType

LEMMA InvIsSound == IInv => BucketSound
  <1> SUFFICES ASSUME IInv PROVE BucketSound
    OBVIOUS
  <1>1. /\ bucket \in [entries : BoundedSeq(Nodes, bucketSize), replacements : BoundedSeq(Nodes, maxReplacements)]
        /\ EachNodeOnce
    BY BucketIsOnce DEF IInv
  <1>2. fails \in [Nodes -> 0 .. MaxFails]
    <2>1. \A n \in Nodes : fails[n] \in Nat /\ fails[n] + Cardinality(Asked(n)) <= MaxFails
      BY DEF IInv, FailsOK, FailsCovered
    <2>2. MaxFails \in Nat
      BY TableAssumption
    <2>3. \A n \in Nodes : fails[n] \in 0 .. MaxFails
      BY <2>1, <2>2, AskedFinite
    <2>4. QED
      BY <2>3 DEF IInv, FailsOK
  <1>3. QED
    BY <1>1, <1>2 DEF IInv, RequestsOK, SeedsOK, BucketSound, TypeOK

\* One slot changes.
LEMMA SlotLemma ==
    ASSUME RequestsOK, NEW s \in Slots, NEW r \in Request \cup {Free},
           r # Free /\ r.stage = "answered" => r.to \notin Dead,
           requests' = [requests EXCEPT ![s] = r]
    PROVE  /\ RequestsOK'
           /\ \A n \in Nodes : Asked(n)' \subseteq Asked(n) \cup {s}
           /\ \A n \in Nodes : (r # Free => r.kind # "findnode" \/ r.to # n) => Asked(n)' = Asked(n) \ {s}
  <1>1. requests' \in [Slots -> Request \cup {Free}] /\ requests'[s] = r
        /\ \A t \in Slots \ {s} : requests'[t] = requests[t]
    BY DEF RequestsOK
  <1>2. AnswersAlive'
    BY <1>1 DEF AnswersAlive, RequestsOK
  <1>3. QED
    BY <1>1, <1>2 DEF RequestsOK, Asked

\* No more failures than before, and no more findnodes.
LEMMA FewerFails ==
    ASSUME FailsOK, fails' \in [Nodes -> Nat], \A n \in Nodes : fails'[n] <= fails[n],
           \A n \in Nodes : Asked(n)' \subseteq Asked(n)
    PROVE  FailsOK'
  <1>1. ASSUME NEW n \in Nodes PROVE fails'[n] + Cardinality(Asked(n)') <= MaxFails
    <2>1. /\ Cardinality(Asked(n)') \in Nat /\ Cardinality(Asked(n)) \in Nat
          /\ Cardinality(Asked(n)') <= Cardinality(Asked(n))
      BY AskedFinite, FS_Subset, AskedFiniteNext
    <2>2. fails[n] \in Nat /\ fails'[n] \in Nat /\ fails'[n] <= fails[n]
          /\ fails[n] + Cardinality(Asked(n)) <= MaxFails /\ MaxFails \in Nat
      BY TableAssumption DEF FailsOK, FailsCovered
    <2>3. QED
      BY <2>1, <2>2
  <1>2. QED
    BY <1>1 DEF FailsOK, FailsCovered

\* A request is sent.
LEMMA SendLemma ==
    ASSUME IInv, NEW n \in Nodes, NEW kind \in {"revalidate", "bond", "findnode"}, Send(kind, n)
    PROVE  /\ RequestsOK'
           /\ \E s \in Slots : Asked(n)' \subseteq Asked(n) \cup {s}
           /\ \A m \in Nodes : kind # "findnode" \/ m # n => Asked(m)' \subseteq Asked(m)
  <1>1. PICK s \in Slots :
          requests' = [requests EXCEPT ![s] =
              [kind |-> kind, to |-> n, stage |-> IF online THEN "sent" ELSE "unsent"]]
    BY DEF Send
  <1> DEFINE r == [kind |-> kind, to |-> n, stage |-> IF online THEN "sent" ELSE "unsent"]
  <1>2. r \in Request /\ r.stage # "answered" /\ r.kind = kind /\ r.to = n
    BY DEF Request
  <1>3. requests' = [requests EXCEPT ![s] = r]
    BY <1>1
  <1> HIDE DEF r
  <1>4. /\ RequestsOK'
        /\ \A m \in Nodes : Asked(m)' \subseteq Asked(m) \cup {s}
        /\ \A m \in Nodes : (r # Free => r.kind # "findnode" \/ r.to # m) => Asked(m)' = Asked(m) \ {s}
    BY <1>2, <1>3, SlotLemma DEF IInv
  <1>5. QED
    BY <1>2, <1>4

\* A request ends.
LEMMA EndsLemma ==
    ASSUME IInv, NEW s \in Slots, requests' = [requests EXCEPT ![s] = Free]
    PROVE  RequestsOK' /\ \A n \in Nodes : Asked(n)' = Asked(n) \ {s}
  BY SlotLemma DEF IInv

\* The nodes of an answer, and the seeds of a new session.
LEMMA AnswerLemma ==
    ASSUME NEW nodes \in BoundedSeq(Nodes, MaxNeighbors)
    PROVE  nodes \in Seq(Nodes)
  <1>1. PICK m \in 0 .. MaxNeighbors : nodes \in [1 .. m -> Nodes]
    BY DEF BoundedSeq, SeqOf
  <1>2. m \in Nat
    BY TableAssumption
  <1>3. QED
    BY <1>1, <1>2

LEMMA SeedsLemma ==
    ASSUME NEW T \in SUBSET Nodes, NEW seeds \in SetToSeqs(T)
    PROVE  seeds \o nursery \in Seq(Nodes)
  <1>1. Cardinality(T) \in Nat
    BY TableAssumption, FS_Subset, FS_CardinalityType
  <1>2. seeds \in [1 .. Cardinality(T) -> T]
    BY DEF SetToSeqs
  <1>3. seeds \in Seq(Nodes)
    BY <1>1, <1>2
  <1>4. QED
    BY <1>3, TableAssumption

LEMMA InitInv == Init => IInv
  <1> SUFFICES ASSUME Init PROVE IInv
    OBVIOUS
  <1>1. bucket \in Buckets
    BY EmptyBucket, AddSeenNodesLemma, TableAssumption DEF Init
  <1>2. RequestsOK
    BY DEF Init, RequestsOK, AnswersAlive
  <1>3. FailsOK
    <2>1. ASSUME NEW n \in Nodes PROVE fails[n] + Cardinality(Asked(n)) <= MaxFails
      <3>1. Asked(n) = {} /\ fails[n] = 0
        BY DEF Init, Asked
      <3>2. QED
        BY <3>1, FS_EmptySet, TableAssumption
    <2>2. QED
      BY <2>1 DEF Init, FailsOK, FailsCovered
  <1>4. SeedsOK
    BY DEF Init, SeedsOK, DeadNotAdvertised
  <1>5. QED
    BY <1>1, <1>2, <1>3, <1>4 DEF Init, IInv

\* What a step leaves alone keeps its part of the invariant.
LEMMA SameSeeds ==
    ASSUME SeedsOK, checks' = checks, lastLiveNodes' = lastLiveNodes
    PROVE  SeedsOK'
  BY DEF SeedsOK, DeadNotAdvertised

LEMMA SameRequests ==
    ASSUME RequestsOK, requests' = requests
    PROVE  RequestsOK' /\ \A n \in Nodes : Asked(n)' = Asked(n)
  BY DEF RequestsOK, AnswersAlive, Asked

LEMMA SameFails ==
    ASSUME FailsOK, fails' = fails, \A n \in Nodes : Asked(n)' \subseteq Asked(n)
    PROVE  FailsOK'
  <1>1. fails' \in [Nodes -> Nat] /\ \A n \in Nodes : fails'[n] <= fails[n]
    BY DEF FailsOK
  <1>2. QED
    BY <1>1, FewerFails

\* A findnode that did not time out is forgiven.
LEMMA ForgiveLemma ==
    ASSUME FailsOK, NEW n \in Nodes, Forgive(n), \A m \in Nodes : Asked(m)' \subseteq Asked(m)
    PROVE  FailsOK'
  <1>1. fails \in [Nodes -> Nat]
    BY DEF FailsOK
  <1>2. fails' = [fails EXCEPT ![n] = IF fails[n] > 0 THEN fails[n] - 1 ELSE fails[n]]
    BY DEF Forgive
  <1> DEFINE k == IF fails[n] > 0 THEN fails[n] - 1 ELSE fails[n]
  <1>3. k \in Nat /\ k <= fails[n]
    BY <1>1
  <1> HIDE DEF k
  <1>4. fails' = [fails EXCEPT ![n] = k]
    BY <1>2 DEF k
  <1>5. fails' \in [Nodes -> Nat]
    BY <1>1, <1>3, <1>4
  <1>6. \A m \in Nodes : fails'[m] <= fails[m]
    BY <1>1, <1>3, <1>4
  <1>7. QED
    BY <1>5, <1>6, FewerFails

\* The message of a request arrives, or is lost.
LEMMA ArriveInv ==
    ASSUME IInv, NEW s \in Slots, Arrive(s)
    PROVE  IInv'
  <1>1. /\ requests[s] # Free /\ requests[s].stage = "sent" /\ online' = online /\ bucket' = bucket
        /\ checks' = checks /\ fails' = fails /\ lastLiveNodes' = lastLiveNodes
    BY DEF Arrive
  <1>2. requests \in [Slots -> Request \cup {Free}] /\ requests[s] \in Request
    BY <1>1 DEF IInv, RequestsOK
  <1>3. RequestsOK' /\ \A n \in Nodes : Asked(n)' \subseteq Asked(n)
    <2>1. ASSUME NEW stage \in {"answered", "timeout"}, stage = "answered" => requests[s].to \notin Dead,
                 requests' = [requests EXCEPT ![s].stage = stage]
          PROVE  RequestsOK' /\ \A n \in Nodes : Asked(n)' \subseteq Asked(n)
      <3> DEFINE r == [requests[s] EXCEPT !.stage = stage]
      <3>1. /\ r \in Request /\ r.stage = stage
            /\ r.kind = requests[s].kind /\ r.to = requests[s].to
        BY <1>2 DEF Request
      <3>2. requests' = [requests EXCEPT ![s] = r]
        BY <1>2, <2>1
      <3> HIDE DEF r
      <3>3. /\ RequestsOK'
            /\ \A n \in Nodes : Asked(n)' \subseteq Asked(n) \cup {s}
            /\ \A n \in Nodes : (r # Free => r.kind # "findnode" \/ r.to # n) => Asked(n)' = Asked(n) \ {s}
        BY <2>1, <3>1, <3>2, SlotLemma DEF IInv
      <3>4. ASSUME NEW n \in Nodes PROVE Asked(n)' \subseteq Asked(n)
        <4>1. CASE requests[s].kind = "findnode" /\ requests[s].to = n
          <5>1. s \in Asked(n)
            BY <1>1, <4>1 DEF Asked
          <5>2. QED
            BY <3>3, <5>1
        <4>2. CASE ~(requests[s].kind = "findnode" /\ requests[s].to = n)
          BY <3>1, <3>3, <4>2
        <4>3. QED
          BY <4>1, <4>2
      <3>5. QED
        BY <3>3, <3>4
    <2>2. CASE requests' = [requests EXCEPT ![s] = Free]
      BY <2>2, EndsLemma
    <2>3. QED
      BY <2>1, <2>2 DEF Arrive
  <1>4. FailsOK' /\ SeedsOK'
    BY <1>1, <1>3, SameFails, SameSeeds DEF IInv
  <1>5. QED
    BY <1>1, <1>3, <1>4 DEF IInv

\* The failure of a findnode is counted, and the findnode no longer is.
LEMMA TimesOutInv ==
    ASSUME IInv, NEW s \in Slots, FindnodeTimesOut(s)
    PROVE  IInv'
  <1> DEFINE n == requests[s].to
  <1>1. /\ requests[s] # Free /\ requests[s].kind = "findnode"
        /\ requests' = [requests EXCEPT ![s] = Free]
        /\ fails' = [fails EXCEPT ![n] = @ + 1]
        /\ bucket' = IF fails'[n] >= maxFindnodeFailures THEN delete(bucket, n) ELSE bucket
        /\ online' = online /\ checks' = checks /\ lastLiveNodes' = lastLiveNodes
    BY DEF FindnodeTimesOut, Ends
  <1>2. requests[s] \in Request /\ n \in Nodes
    BY <1>1 DEF IInv, RequestsOK, Request
  <1>3. RequestsOK' /\ \A m \in Nodes : Asked(m)' = Asked(m) \ {s}
    BY <1>1, EndsLemma
  <1>4. s \in Asked(n)
    BY <1>1 DEF Asked
  <1> HIDE DEF n
  <1>5. bucket' \in Buckets
    BY <1>1, DeleteLemma DEF IInv
  <1>6. fails \in [Nodes -> Nat] /\ fails' \in [Nodes -> Nat] /\ fails'[n] = fails[n] + 1
        /\ \A m \in Nodes \ {n} : fails'[m] = fails[m]
    BY <1>1, <1>2 DEF IInv, FailsOK
  <1>7. ASSUME NEW m \in Nodes PROVE fails'[m] + Cardinality(Asked(m)') <= MaxFails
    <2>1. /\ fails[m] + Cardinality(Asked(m)) <= MaxFails /\ MaxFails \in Nat /\ fails[m] \in Nat
          /\ IsFiniteSet(Asked(m)) /\ Cardinality(Asked(m)) \in Nat
      BY TableAssumption, AskedFinite DEF IInv, FailsOK, FailsCovered
    <2>2. Cardinality(Asked(m) \ {s}) = IF s \in Asked(m) THEN Cardinality(Asked(m)) - 1
                                                          ELSE Cardinality(Asked(m))
      BY <2>1, FS_RemoveElement
    <2>3. Asked(m)' = Asked(m) \ {s}
      BY <1>3
    <2>4. CASE m = n
      BY <1>4, <1>6, <2>1, <2>2, <2>3, <2>4
    <2>5. CASE m # n
      BY <1>6, <2>1, <2>2, <2>3, <2>5
    <2>6. QED
      BY <2>4, <2>5
  <1>8. FailsOK' /\ SeedsOK'
    BY <1>1, <1>6, <1>7, SameSeeds DEF IInv, FailsOK, FailsCovered
  <1>9. QED
    BY <1>1, <1>3, <1>5, <1>8 DEF IInv

\* A lookup asks a node: one more findnode, within the bound.
LEMMA FindnodeInv ==
    ASSUME IInv, NEW n \in Nodes, findnode(n)
    PROVE  IInv'
  <1>1. /\ fails[n] + Cardinality(Asked(n)) < MaxFails /\ Send("findnode", n)
        /\ online' = online /\ bucket' = bucket /\ checks' = checks /\ fails' = fails
        /\ lastLiveNodes' = lastLiveNodes
    BY DEF findnode
  <1>2. /\ RequestsOK'
        /\ \E s \in Slots : Asked(n)' \subseteq Asked(n) \cup {s}
        /\ \A m \in Nodes : m # n => Asked(m)' \subseteq Asked(m)
    BY <1>1, SendLemma
  <1>3. ASSUME NEW m \in Nodes PROVE fails'[m] + Cardinality(Asked(m)') <= MaxFails
    <2>1. /\ fails'[m] = fails[m] /\ fails[m] + Cardinality(Asked(m)) <= MaxFails /\ MaxFails \in Nat
          /\ fails[m] \in Nat /\ IsFiniteSet(Asked(m)) /\ Cardinality(Asked(m)) \in Nat
          /\ Cardinality(Asked(m)') \in Nat
      BY <1>1, TableAssumption, AskedFinite, AskedFiniteNext DEF IInv, FailsOK, FailsCovered
    <2>2. CASE m = n
      <3>1. PICK s \in Slots : Asked(n)' \subseteq Asked(n) \cup {s}
        BY <1>2
      <3>2. /\ IsFiniteSet(Asked(n) \cup {s})
            /\ Cardinality(Asked(n) \cup {s}) \in {Cardinality(Asked(n)), Cardinality(Asked(n)) + 1}
        BY <2>1, <2>2, FS_AddElement
      <3>3. Cardinality(Asked(n)') <= Cardinality(Asked(n) \cup {s})
        BY <3>1, <3>2, FS_Subset
      <3>4. QED
        BY <1>1, <2>1, <2>2, <3>2, <3>3
    <2>3. CASE m # n
      <3>1. Cardinality(Asked(m)') <= Cardinality(Asked(m))
        BY <1>2, <2>1, <2>3, FS_Subset
      <3>2. QED
        BY <2>1, <3>1
    <2>4. QED
      BY <2>2, <2>3
  <1>4. FailsOK' /\ SeedsOK'
    BY <1>1, <1>3, SameSeeds DEF IInv, FailsOK, FailsCovered
  <1>5. QED
    BY <1>1, <1>2, <1>4 DEF IInv

\* Every step of the table keeps the invariant.
LEMMA StepInv == IInv /\ [Next]_vars => IInv'
  <1> SUFFICES ASSUME IInv, [Next]_vars PROVE IInv'
    OBVIOUS
  <1>0. online \in BOOLEAN /\ bucket \in Buckets /\ RequestsOK /\ FailsOK /\ SeedsOK
    BY DEF IInv
  <1>1. CASE doRevalidate
    <2>1. Last(bucket.entries) \in Nodes
      <3>1. bucket.entries \in Seq(Nodes) /\ bucket.entries # <<>>
        BY <1>0, <1>1, BucketParts DEF doRevalidate
      <3>2. QED
        BY <3>1 DEF Last
    <2>2. RequestsOK' /\ \A m \in Nodes : Asked(m)' \subseteq Asked(m)
      BY <1>1, <2>1, SendLemma DEF doRevalidate
    <2>3. FailsOK' /\ SeedsOK'
      BY <1>0, <1>1, <2>2, SameFails, SameSeeds DEF doRevalidate
    <2>4. QED
      BY <1>0, <1>1, <2>2, <2>3 DEF IInv, doRevalidate
  <1>2. CASE doRefresh
    <2>1. bucket' \in Buckets
      BY <1>0, <1>2, AddSeenNodesLemma, TableAssumption DEF doRefresh
    <2>2. RequestsOK' /\ FailsOK' /\ SeedsOK'
      BY <1>0, <1>2, SameRequests, SameFails, SameSeeds DEF doRefresh
    <2>3. QED
      BY <1>0, <1>2, <2>1, <2>2 DEF IInv, doRefresh
  <1>3. CASE goOffline
    <2>1. RequestsOK' /\ FailsOK'
      BY <1>0, <1>3, SameRequests, SameFails DEF goOffline
    <2>2. SeedsOK'
      BY <1>0, <1>3 DEF goOffline, SeedsOK, DeadNotAdvertised
    <2>3. QED
      BY <1>0, <1>3, <2>1, <2>2 DEF IInv, goOffline
  <1>4. CASE goOnline
    <2>1. PICK T \in SUBSET lastLiveNodes : \E seeds \in SetToSeqs(T) :
                bucket' = addSeenNodes(emptyBucket, seeds \o nursery)
      BY <1>4 DEF goOnline
    <2>2. T \in SUBSET Nodes
      BY <1>0 DEF SeedsOK
    <2>3. bucket' \in Buckets
      BY <2>1, <2>2, SeedsLemma, EmptyBucket, AddSeenNodesLemma
    <2>4. RequestsOK' /\ FailsOK'
      BY <1>0, <1>4, SameRequests, SameFails DEF goOnline
    <2>5. SeedsOK'
      BY <1>4 DEF goOnline, SeedsOK, DeadNotAdvertised
    <2>6. QED
      BY <1>4, <2>3, <2>4, <2>5 DEF IInv, goOnline
  <1>5. ASSUME NEW n \in Nodes, ping_handle(n) PROVE IInv'
    <2>1. /\ online' = online /\ checks' = checks /\ fails' = fails /\ lastLiveNodes' = lastLiveNodes
          /\ \/ bucket' = addVerifiedNode(bucket, n) /\ requests' = requests
             \/ Send("bond", n) /\ bucket' = bucket
      BY <1>5 DEF ping_handle
    <2>2. RequestsOK' /\ \A m \in Nodes : Asked(m)' \subseteq Asked(m)
      BY <1>0, <2>1, SameRequests, SendLemma
    <2>3. bucket' \in Buckets
      BY <1>0, <2>1, AddVerifiedNodeLemma
    <2>4. FailsOK' /\ SeedsOK'
      BY <1>0, <2>1, <2>2, SameFails, SameSeeds
    <2>5. QED
      BY <1>0, <2>1, <2>2, <2>3, <2>4 DEF IInv
  <1>6. ASSUME NEW n \in Nodes, findnode(n) PROVE IInv'
    BY <1>6, FindnodeInv
  <1>7. ASSUME NEW s \in Slots, Arrive(s) PROVE IInv'
    BY <1>7, ArriveInv
  <1>8. ASSUME NEW s \in Slots, requests' = [requests EXCEPT ![s] = Free]
        PROVE  RequestsOK' /\ \A n \in Nodes : Asked(n)' \subseteq Asked(n)
    BY <1>8, EndsLemma
  <1>9. ASSUME NEW s \in Slots, requests[s] # Free PROVE requests[s].to \in Nodes
    BY <1>0, <1>9 DEF RequestsOK, Request
  <1>10. ASSUME NEW s \in Slots, AnswerLost(s) PROVE IInv'
    <2>1. RequestsOK' /\ FailsOK' /\ SeedsOK'
      BY <1>0, <1>8, <1>10, SameFails, SameSeeds DEF AnswerLost
    <2>2. QED
      BY <1>0, <1>10, <2>1 DEF AnswerLost, IInv
  <1>11. ASSUME NEW s \in Slots, Revalidated(s) PROVE IInv'
    <2>1. /\ requests[s] # Free /\ requests[s].stage = "answered"
          /\ requests' = [requests EXCEPT ![s] = Free]
          /\ checks' = checks \cup {requests[s].to} /\ bucket' = bumpInBucket(bucket, requests[s].to)
          /\ online' = online /\ fails' = fails /\ lastLiveNodes' = lastLiveNodes
      BY <1>11 DEF Revalidated, Ends
    <2>2. RequestsOK' /\ FailsOK'
      BY <1>0, <1>8, <2>1, SameFails
    <2>3. requests[s].to \in Nodes /\ requests[s].to \notin Dead
      BY <1>0, <1>9, <2>1 DEF RequestsOK, AnswersAlive
    <2>4. bucket' \in Buckets /\ SeedsOK'
      BY <1>0, <2>1, <2>3, BumpLemma DEF SeedsOK, DeadNotAdvertised
    <2>5. QED
      BY <1>0, <2>1, <2>2, <2>4 DEF IInv
  <1>12. ASSUME NEW s \in Slots, NotRevalidated(s) PROVE IInv'
    <2>1. RequestsOK' /\ FailsOK' /\ SeedsOK'
      BY <1>0, <1>8, <1>12, SameFails, SameSeeds DEF NotRevalidated, Ends
    <2>2. bucket' \in Buckets
      BY <1>0, <1>12, ReplaceLemma DEF NotRevalidated
    <2>3. QED
      BY <1>0, <1>12, <2>1, <2>2 DEF NotRevalidated, IInv
  <1>13. ASSUME NEW s \in Slots, Bonded(s) PROVE IInv'
    <2>1. RequestsOK' /\ FailsOK' /\ SeedsOK'
      BY <1>0, <1>8, <1>13, SameFails, SameSeeds DEF Bonded, Ends
    <2>2. bucket' \in Buckets
      BY <1>0, <1>9, <1>13, AddVerifiedNodeLemma DEF Bonded, Ends
    <2>3. QED
      BY <1>0, <1>13, <2>1, <2>2 DEF Bonded, IInv
  <1>14. ASSUME NEW s \in Slots, FindnodeAnswered(s) PROVE IInv'
    <2>1. /\ requests[s] # Free /\ requests' = [requests EXCEPT ![s] = Free]
          /\ Forgive(requests[s].to) /\ online' = online /\ checks' = checks
          /\ lastLiveNodes' = lastLiveNodes
      BY <1>14 DEF FindnodeAnswered, Ends
    <2>2. RequestsOK' /\ FailsOK' /\ SeedsOK'
      BY <1>0, <1>8, <1>9, <2>1, ForgiveLemma, SameSeeds
    <2>3. bucket' \in Buckets
      BY <1>0, <1>14, AnswerLemma, AddSeenNodesLemma DEF FindnodeAnswered
    <2>4. QED
      BY <1>0, <2>1, <2>2, <2>3 DEF IInv
  <1>15. ASSUME NEW s \in Slots, FindnodeNotSent(s) PROVE IInv'
    <2>1. /\ requests[s] # Free /\ requests' = [requests EXCEPT ![s] = Free]
          /\ Forgive(requests[s].to) /\ online' = online /\ checks' = checks
          /\ lastLiveNodes' = lastLiveNodes /\ bucket' = bucket
      BY <1>15 DEF FindnodeNotSent, Ends
    <2>2. RequestsOK' /\ FailsOK' /\ SeedsOK'
      BY <1>0, <1>8, <1>9, <2>1, ForgiveLemma, SameSeeds
    <2>3. QED
      BY <1>0, <2>1, <2>2 DEF IInv
  <1>16. ASSUME NEW s \in Slots, FindnodeTimesOut(s) PROVE IInv'
    BY <1>16, TimesOutInv
  <1>17. CASE UNCHANGED vars
    <2>1. RequestsOK' /\ FailsOK' /\ SeedsOK'
      BY <1>0, <1>17, SameRequests, SameFails, SameSeeds DEF vars
    <2>2. QED
      BY <1>0, <1>17, <2>1 DEF IInv, vars
  <1>18. QED
    BY <1>1, <1>2, <1>3, <1>4, <1>5, <1>6, <1>7, <1>10, <1>11, <1>12, <1>13, <1>14, <1>15,
       <1>16, <1>17 DEF Next

LEMMA TableInvariant == Spec => []IInv
  <1>1. Init => IInv
    BY InitInv
  <1>2. IInv /\ [Next]_vars => IInv'
    BY StepInv
  <1>3. QED
    BY <1>1, <1>2, PTL DEF Spec

(***************************************************************************)
(* table.go: whatever callbacks of this session or an earlier one change a *)
(* bucket, in any order, it stays within bucketSize and maxReplacements    *)
(* with no node in it twice, and a node that never answers is neither      *)
(* handed on nor kept as a seed.                                           *)
(***************************************************************************)
THEOREM BucketStaysSound == Spec => []BucketSound
  BY TableInvariant, InvIsSound, PTL

----------------------------------------------------------------------------
\* The request that made room: it ends in this step, and nobody answered it.
Silent(n) ==
    \E s \in Slots : /\ requests[s] # Free /\ requests'[s] = Free
                     /\ requests[s].to = n /\ requests[s].stage = "timeout"

LEMMA StepEvicts ==
    ASSUME IInv, Next, NEW n \in Nodes, online, EvictedEntry(n)
    PROVE  Silent(n)
  <1>0. bucket \in Buckets /\ RequestsOK /\ SeedsOK /\ bucket.entries \in Seq(Nodes)
    BY BucketParts DEF IInv
  <1>1. n \in ToSet(bucket.entries) /\ ~Contains(bucket'.entries, n)
    BY <1>0, ContainsLemma DEF EvictedEntry
  <1>2. ASSUME bucket' \in Buckets PROVE n \notin ToSet(bucket'.entries)
    <2>1. bucket'.entries \in Seq(Nodes)
      BY <1>2, BucketParts
    <2>2. QED
      BY <1>1, <2>1, ContainsLemma
  <1>3. ASSUME NEW s \in Slots, requests[s] # Free PROVE requests[s].to \in Nodes
    BY <1>0, <1>3 DEF RequestsOK, Request
  <1>4. ASSUME NEW s \in Slots, requests' = [requests EXCEPT ![s] = Free] PROVE requests'[s] = Free
    BY <1>0, <1>4 DEF RequestsOK
  <1>5. CASE bucket' = bucket
    BY <1>0, <1>1, <1>2, <1>5
  <1>6. ASSUME doRefresh PROVE FALSE
    BY <1>0, <1>1, <1>2, <1>6, AddSeenNodesLemma, TableAssumption DEF doRefresh
  <1>7. ASSUME NEW m \in Nodes, bucket' = addVerifiedNode(bucket, m) PROVE FALSE
    BY <1>0, <1>1, <1>2, <1>7, AddVerifiedNodeLemma
  <1>8. ASSUME NEW s \in Slots, Revalidated(s) PROVE FALSE
    BY <1>0, <1>1, <1>2, <1>3, <1>8, BumpLemma DEF Revalidated, Ends
  <1>9. ASSUME NEW s \in Slots, NotRevalidated(s) PROVE Silent(n)
    <2>1. bucket' \in Buckets /\ ToSet(bucket.entries) \ {requests[s].to} \subseteq ToSet(bucket'.entries)
      BY <1>0, <1>9, ReplaceLemma DEF NotRevalidated
    <2>2. n = requests[s].to
      BY <1>1, <1>2, <2>1
    <2>3. QED
      BY <1>4, <1>9, <2>2 DEF NotRevalidated, Ends, Silent
  <1>10. ASSUME NEW s \in Slots, FindnodeAnswered(s) PROVE FALSE
    BY <1>0, <1>1, <1>2, <1>10, AnswerLemma, AddSeenNodesLemma DEF FindnodeAnswered
  <1>11. ASSUME NEW s \in Slots, FindnodeTimesOut(s) PROVE Silent(n)
    <2>1. bucket' = bucket \/ bucket' = delete(bucket, requests[s].to)
      BY <1>11 DEF FindnodeTimesOut
    <2>2. bucket' \in Buckets /\ ToSet(bucket.entries) \ {requests[s].to} \subseteq ToSet(bucket'.entries)
      BY <1>0, <2>1, DeleteLemma
    <2>3. n = requests[s].to
      BY <1>1, <1>2, <2>2
    <2>4. QED
      BY <1>4, <1>11, <2>3 DEF FindnodeTimesOut, Ends, Silent
  <1>12. QED
    <2>1. CASE doRevalidate \/ goOffline
      BY <1>5, <2>1 DEF doRevalidate, goOffline
    <2>2. ASSUME goOnline PROVE FALSE
      BY <2>2 DEF goOnline
    <2>3. ASSUME NEW m \in Nodes, ping_handle(m) \/ findnode(m) PROVE Silent(n)
      BY <1>5, <1>7, <2>3 DEF ping_handle, findnode
    <2>4. ASSUME NEW s \in Slots, Arrive(s) \/ AnswerLost(s) \/ FindnodeNotSent(s) PROVE Silent(n)
      BY <1>5, <2>4 DEF Arrive, AnswerLost, FindnodeNotSent
    <2>5. ASSUME NEW s \in Slots, Bonded(s) PROVE FALSE
      BY <1>3, <1>7, <2>5 DEF Bonded, Ends
    <2>6. QED
      BY <1>6, <1>8, <1>9, <1>10, <1>11, <2>1, <2>2, <2>3, <2>4, <2>5 DEF Next

(***************************************************************************)
(* table.go, replace and delete: while the node is online an entry makes   *)
(* way only in the step that ends an unanswered request to that very       *)
(* entry.  Neither an answer full of new nodes, nor a node that pings, nor *)
(* a late callback about another node ever pushes an entry out.            *)
(***************************************************************************)
THEOREM OnlySilentLeave == Spec => EvictsSilentOnly
  <1>1. IInv /\ [Next]_vars =>
          [\A n \in Nodes : EvictedEntry(n) =>
              \/ ~online
              \/ \E s \in Slots : /\ requests[s] # Free /\ requests'[s] = Free
                                  /\ requests[s].to = n /\ requests[s].stage = "timeout"]_vars
    BY StepEvicts DEF Silent
  <1>2. QED
    BY <1>1, TableInvariant, PTL DEF Spec, EvictsSilentOnly

=============================================================================
