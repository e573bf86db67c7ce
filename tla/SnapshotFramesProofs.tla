------------------------- MODULE SnapshotFramesProofs -------------------------
(***************************************************************************)
(* Where ComposeSnapshot builds the nodes of a page, for pages of any size *)
(* and any number of processes.                                            *)
(*                                                                         *)
(* Inv says that what is above a node is one path, that its parent is the  *)
(* last of that, and that only documents change process.  A node that is   *)
(* built Stands in its frame: nothing on its way there was pruned.  Two    *)
(* frames with the node in their trees are of one process, one below the   *)
(* other, and the outer one's copy of the inner one's root is pruned.      *)
(*                                                                         *)
(* What holds of all nodes is shown by the first node it does not hold of. *)
(***************************************************************************)
EXTENDS SnapshotFrames, FiniteSetTheorems, SequenceTheorems, WellFoundedInduction, TLAPS

PageNode == [above : SUBSET Nat, kind : ElementKinds \cup {"root", "owner"}, off : BOOLEAN,
             process : Processes, url : Nat, exposed : BOOLEAN]

(* What is above a node is a path from the top, which goes on from its     *)
(* parent; only a document is of another process than its parent.          *)
TreeOK(p) ==
    /\ p \in Seq(PageNode)
    /\ 1 \in DOMAIN p /\ p[1].above = {} /\ p[1].kind = "root"
    /\ \A n \in DOMAIN p :
          /\ p[n].kind = "root" => p[n].exposed
          /\ p[n].above \subseteq 1..(n - 1)
          /\ \A a \in p[n].above : p[a].above = {b \in p[n].above : b < a}
    /\ \A n \in DOMAIN p \ {1} :
          /\ 1 \in p[n].above
          /\ \E a \in p[n].above : /\ \A b \in p[n].above : b <= a
                                   /\ p[n].kind = "root" \/ p[n].process = p[a].process

Inv == /\ TreeOK(page)
       /\ parts \in 0..MaxParts /\ Len(page) <= 1 + 2 * parts
       /\ frames = <<>> \/ frames = Collected

(* A set of numbers that is not empty has a least one. *)
LEMMA LeastOf ==
  ASSUME NEW T \in SUBSET Nat, T # {}
  PROVE  \E m \in T : \A k \in T : m <= k
<1>1. PICK m \in T : \A k \in T : ~ (<<k, m>> \in OpToRel(<, Nat))
  BY WFMin, NatLessThanWellFounded
<1>2. \A k \in T : ~ (k < m)
  BY <1>1 DEF OpToRel
<1> QED BY <1>2

LEMMA MaxOf ==
  ASSUME NEW N \in Nat, NEW S \in SUBSET (0..N), S # {}
  PROVE  Max(S) \in S /\ \A y \in S : y <= Max(S)
<1> DEFINE T == {k \in Nat : \A y \in S : y <= k}
<1>1. PICK m \in T : \A k \in T : m <= k
  <2>1. T # {} /\ T \in SUBSET Nat
    <3>1. N \in T
      OBVIOUS
    <3> QED BY <3>1
  <2> HIDE DEF T
  <2> QED BY <2>1, LeastOf, Zenon
<1>2. m \in S
  <2> SUFFICES ASSUME m \notin S PROVE FALSE
    OBVIOUS
  <2>1. m \in Nat /\ \A y \in S : y \in Nat /\ y < m
    BY <1>1
  <2>2. m - 1 \in Nat /\ \A y \in S : y <= m - 1
    <3>1. \E y \in S : TRUE
      OBVIOUS
    <3>2. m > 0
      BY <2>1, <3>1
    <3> QED BY <2>1, <3>2
  <2>3. m - 1 \in T
    BY <2>2
  <2> HIDE DEF T
  <2>4. m <= m - 1
    BY <1>1, <2>3
  <2> QED BY <2>1, <2>4
<1>3. \E x \in S : \A y \in S : x >= y
  BY <1>1, <1>2
<1>4. Max(S) \in S /\ \A y \in S : Max(S) >= y
  BY <1>3 DEF Max
<1> QED BY <1>4

(* A node added below node a. *)
LEMMA Grown ==
  ASSUME NEW p, TreeOK(p), NEW a \in DOMAIN p, NEW x \in PageNode,
         x.above = p[a].above \cup {a},
         x.kind = "root" => x.exposed,
         x.kind = "root" \/ x.process = p[a].process
  PROVE  TreeOK(Append(p, x)) /\ Len(Append(p, x)) = Len(p) + 1
<1> DEFINE q == Append(p, x)
           N == Len(p)
<1>1. p \in Seq(PageNode) /\ N \in Nat /\ DOMAIN p = 1..N
  BY LenProperties DEF TreeOK
<1>2. /\ q \in Seq(PageNode) /\ Len(q) = N + 1 /\ DOMAIN q = 1..(N + 1)
      /\ q[N + 1] = x /\ \A n \in DOMAIN p : q[n] = p[n]
  BY <1>1
<1> HIDE DEF q
<1>3. /\ 1 \in 1..N /\ q[1].above = {} /\ q[1].kind = "root"
      /\ a \in 1..N /\ p[a].above \subseteq 1..(a - 1)
  BY <1>1, <1>2 DEF TreeOK
<1>4. ASSUME NEW n \in 1..(N + 1)
      PROVE  /\ q[n].kind = "root" => q[n].exposed
             /\ q[n].above \subseteq 1..(n - 1)
             /\ \A b \in q[n].above : q[b].above = {c \in q[n].above : c < b}
  <2>1. CASE n \in 1..N
    BY <1>1, <1>2, <2>1, SMTT(30) DEF TreeOK
  <2>2. CASE n = N + 1
    <3>1. ASSUME NEW b \in q[n].above PROVE q[b].above = {c \in q[n].above : c < b}
      <4>1. b = a \/ b \in p[a].above
        BY <1>2, <2>2, <3>1
      <4>2. q[b] = p[b] /\ q[n].above = p[a].above \cup {a}
        BY <1>1, <1>2, <1>3, <2>2, <4>1
      <4>3. CASE b = a
        BY <1>3, <4>2, <4>3
      <4>4. CASE b \in p[a].above
        <5>1. p[b].above = {c \in p[a].above : c < b} /\ b < a
          BY <1>1, <1>3, <4>4 DEF TreeOK
        <5> QED BY <1>3, <4>2, <5>1
      <4> QED BY <4>1, <4>3, <4>4
    <3> QED BY <1>2, <1>3, <2>2, <3>1
  <2> QED BY <1>1, <2>1, <2>2
<1>5. ASSUME NEW n \in (1..(N + 1)) \ {1}
      PROVE  /\ 1 \in q[n].above
             /\ \E b \in q[n].above : /\ \A c \in q[n].above : c <= b
                                      /\ q[n].kind = "root" \/ q[n].process = q[b].process
  <2>1. CASE n \in 1..N
    <3>1. /\ 1 \in p[n].above
          /\ \E b \in p[n].above : /\ \A c \in p[n].above : c <= b
                                   /\ p[n].kind = "root" \/ p[n].process = p[b].process
          /\ \A b \in p[n].above : b \in DOMAIN p
      BY <1>1, <2>1 DEF TreeOK
    <3> QED BY <1>1, <1>2, <2>1, <3>1
  <2>2. CASE n = N + 1
    <3>1. 1 \in x.above
      BY <1>1, <1>3 DEF TreeOK
    <3>2. \A c \in x.above : c <= a
      BY <1>3
    <3> QED BY <1>1, <1>2, <1>3, <2>2, <3>1, <3>2
  <2> QED BY <1>1, <2>1, <2>2
<1>6. TreeOK(q)
  BY <1>2, <1>3, <1>4, <1>5 DEF TreeOK
<1> QED BY <1>2, <1>6 DEF q

LEMMA PageTyped ==
  ASSUME TreeOK(page)
  PROVE  /\ Len(page) \in Nat \ {0} /\ Nodes = DOMAIN page /\ Nodes \subseteq Nat
         /\ \A n \in Nodes : /\ page[n] \in PageNode
                            /\ page[n].above \subseteq Nodes /\ page[n].above \subseteq 1..(n - 1)
                            /\ Below(n) \subseteq 1..n
<1>1. page \in Seq(PageNode) /\ Len(page) \in Nat /\ DOMAIN page = 1..Len(page) /\ Nodes = DOMAIN page
  BY LenProperties DEF TreeOK, Nodes
<1>2. \A n \in Nodes : page[n] \in PageNode
  BY <1>1, ElementOfSeq
<1>3. \A n \in Nodes : page[n].above \subseteq 1..(n - 1)
  BY <1>1 DEF TreeOK
<1> QED BY <1>1, <1>2, <1>3 DEF TreeOK, Below

LEMMA InitInv == PageInit => Inv
<1> SUFFICES ASSUME PageInit PROVE Inv
  OBVIOUS
<1>1. PICK p \in Processes : page = <<Node({}, "root", FALSE, p, 1, TRUE)>>
  BY DEF PageInit
<1> DEFINE x == Node({}, "root", FALSE, p, 1, TRUE)
<1>2. x \in PageNode /\ x.above = {} /\ x.kind = "root" /\ x.exposed
  BY DEF Node, PageNode
<1>3. page = <<x>>
  BY <1>1
<1> HIDE DEF x
<1>4. page \in Seq(PageNode) /\ Len(page) = 1 /\ DOMAIN page = 1..1 /\ page[1] = x
  BY <1>2, <1>3
<1>5. TreeOK(page)
  BY <1>2, <1>4 DEF TreeOK
<1> QED BY <1>4, <1>5, ComposerAssumption DEF PageInit, Inv

LEMMA AddElementInv ==
  ASSUME Inv, NEW parent \in OpenNodes, NEW kind \in ElementKinds, NEW off \in BOOLEAN,
         AddElement(parent, kind, off)
  PROVE  Inv'
<1> DEFINE x == Node(Below(parent), kind, off, page[parent].process, 0, TRUE)
<1>1. parent \in Nodes /\ Len(page) \in Nat /\ Nodes = DOMAIN page
  BY PageTyped DEF OpenNodes, Inv, Below, Nodes
<1>2. x \in PageNode /\ x.above = page[parent].above \cup {parent} /\ x.exposed
      /\ x.process = page[parent].process
  <2>1. Below(parent) \in SUBSET Nat /\ page[parent].process \in Processes
    BY <1>1, PageTyped DEF Inv, PageNode, Below
  <2> QED BY <2>1 DEF Node, PageNode, Below
<1>3. page' = Append(page, x)
  BY DEF AddElement
<1> HIDE DEF x
<1>4. TreeOK(page') /\ Len(page') = Len(page) + 1
  BY <1>1, <1>2, <1>3, Grown DEF Inv
<1>5. parts' \in 0..MaxParts /\ Len(page') <= 1 + 2 * parts' /\ frames' = <<>>
  BY <1>1, <1>4, ComposerAssumption DEF Inv, AddElement
<1> QED BY <1>4, <1>5 DEF Inv

LEMMA AddDocumentInv ==
  ASSUME Inv, NEW parent \in OpenNodes, NEW process \in Processes, NEW url \in 2..(Len(page) + 2),
         NEW exposed \in BOOLEAN, AddDocument(parent, process, url, exposed)
  PROVE  Inv'
<1> DEFINE N == Len(page)
           x == Node(Below(parent), "owner", FALSE, page[parent].process, 0, exposed)
           y == Node(Below(parent) \cup {N + 1}, "root", FALSE, process, url, TRUE)
           q == Append(page, x)
<1>1. parent \in Nodes /\ N \in Nat /\ Nodes = DOMAIN page /\ page \in Seq(PageNode) /\ DOMAIN page = 1..N
  BY PageTyped, LenProperties DEF OpenNodes, Inv, Below, Nodes, TreeOK
<1>2. /\ x \in PageNode /\ x.above = page[parent].above \cup {parent} /\ x.kind = "owner"
      /\ x.process = page[parent].process
      /\ y \in PageNode /\ y.above = x.above \cup {N + 1} /\ y.kind = "root" /\ y.exposed
  <2>1. Below(parent) \in SUBSET Nat /\ page[parent].process \in Processes
    BY <1>1, PageTyped DEF Inv, PageNode, Below
  <2> QED BY <1>1, <2>1 DEF Node, PageNode, Below
<1>3. page' = Append(q, y)
  BY DEF AddDocument
<1> HIDE DEF x, y
<1>4. q \in Seq(PageNode) /\ Len(q) = N + 1 /\ q[N + 1] = x /\ N + 1 \in DOMAIN q
  BY <1>1, <1>2
<1> HIDE DEF q
<1>5. TreeOK(q)
  BY <1>1, <1>2, Grown DEF Inv, q
<1>6. TreeOK(page') /\ Len(page') = N + 2
  <2>1. TreeOK(Append(q, y)) /\ Len(Append(q, y)) = Len(q) + 1
    BY <1>2, <1>4, <1>5, Grown
  <2> QED BY <1>1, <1>3, <1>4, <2>1
<1>7. parts' \in 0..MaxParts /\ Len(page') <= 1 + 2 * parts' /\ frames' = <<>>
  BY <1>1, <1>6, ComposerAssumption DEF Inv, AddDocument
<1> QED BY <1>6, <1>7 DEF Inv

LEMMA SameFrames == UNCHANGED page => Collected' = Collected
BY DEF Collected, LocalRoots, Nodes, Parent, Host, Below, BackendId, ChildIds, Serialized

LEMMA StepInv == Inv /\ [PageNext]_pageVars => Inv'
<1> SUFFICES ASSUME Inv, [PageNext]_pageVars PROVE Inv'
  OBVIOUS
<1>1. CASE \E parent \in OpenNodes, kind \in ElementKinds, off \in BOOLEAN :
             AddElement(parent, kind, off)
  BY <1>1, AddElementInv
<1>2. CASE \E parent \in OpenNodes, process \in Processes, url \in 2..(Len(page) + 2),
              exposed \in BOOLEAN :
             AddDocument(parent, process, url, exposed)
  BY <1>2, AddDocumentInv
<1>3. CASE Collect
  BY <1>3, SameFrames DEF Inv, Collect
<1>4. CASE UNCHANGED pageVars
  BY <1>4, SameFrames DEF Inv, pageVars
<1> QED BY <1>1, <1>2, <1>3, <1>4 DEF PageNext

LEMMA SpecInv == PageSpec => []Inv
BY InitInv, StepInv, PTL DEF PageSpec

(* The parent of a node, the path to it, and the frame it is in. *)
LEMMA ParentOf ==
  ASSUME TreeOK(page), NEW n \in Nodes \ {1}
  PROVE  /\ Parent(n) \in Nodes /\ Parent(n) \in page[n].above /\ Parent(n) < n
         /\ page[n].above = Below(Parent(n))
         /\ page[n].kind = "root" \/ page[n].process = page[Parent(n)].process
<1>1. n \in Nat /\ page[n].above \subseteq 1..(n - 1) /\ page[n].above \subseteq Nodes
  BY PageTyped
<1>2. PICK a \in page[n].above :
        /\ \A b \in page[n].above : b <= a
        /\ page[n].kind = "root" \/ page[n].process = page[a].process
  BY PageTyped DEF TreeOK
<1>3. Max(page[n].above) \in page[n].above /\ \A b \in page[n].above : b <= Max(page[n].above)
  <2>1. page[n].above \in SUBSET (0..n) /\ page[n].above # {}
    BY <1>1, <1>2
  <2> QED BY <1>1, <2>1, MaxOf
<1>4. Parent(n) = a /\ a \in Nat /\ a < n
  <2>1. Parent(n) \in 1..(n - 1) /\ a \in 1..(n - 1)
    BY <1>1, <1>2, <1>3 DEF Parent
  <2>2. Parent(n) <= a /\ a <= Parent(n)
    BY <1>2, <1>3 DEF Parent
  <2> QED BY <1>1, <2>1, <2>2
<1>5. page[a].above = {b \in page[n].above : b < a}
  BY <1>2, PageTyped DEF TreeOK
<1>6. page[n].above = Below(a)
  <2>1. \A b \in page[n].above : b \in Nat /\ (b < a \/ b = a)
    BY <1>1, <1>2, <1>4
  <2> QED BY <1>2, <1>5, <2>1 DEF Below
<1> QED BY <1>1, <1>2, <1>4, <1>6

(* Whatever holds of a node if it does of all before it holds of all:      *)
(* stated for the sets of nodes it does not hold of.                       *)
LEMMA FirstNode ==
  ASSUME TreeOK(page), NEW S \in SUBSET Nodes, S # {}
  PROVE  \E n \in S : \A m \in Nodes : m < n => m \notin S
<1>1. Nodes \subseteq Nat
  BY PageTyped
<1>2. PICK n \in S : \A k \in S : n <= k
  BY <1>1, LeastOf
<1> QED BY <1>1, <1>2

LEMMA HostOf ==
  ASSUME TreeOK(page), NEW n \in Nodes
  PROVE  /\ Host(n) \in LocalRoots /\ Host(n) \in Below(n)
         /\ \A r \in LocalRoots \cap Below(n) : r <= Host(n)
         /\ n \in LocalRoots => Host(n) = n
         /\ n \notin LocalRoots => n # 1 /\ Host(n) = Host(Parent(n))
<1>1. n \in Nat /\ Below(n) \subseteq 1..n /\ 1 \in Below(n) /\ 1 \in LocalRoots
  BY PageTyped DEF LocalRoots, Below, TreeOK
<1>2. Host(n) \in LocalRoots \cap Below(n) /\ \A r \in LocalRoots \cap Below(n) : r <= Host(n)
  <2>1. LocalRoots \cap Below(n) \in SUBSET (0..n) /\ LocalRoots \cap Below(n) # {}
    BY <1>1
  <2> QED BY <1>1, <2>1, MaxOf DEF Host
<1>3. n \in LocalRoots => Host(n) = n
  <2>1. n \in Below(n)
    BY DEF Below
  <2> QED BY <1>1, <1>2, <2>1
<1>4. n \notin LocalRoots => n # 1 /\ Host(n) = Host(Parent(n))
  <2> SUFFICES ASSUME n \notin LocalRoots PROVE n # 1 /\ Host(n) = Host(Parent(n))
    OBVIOUS
  <2>1. n \in Nodes \ {1}
    BY <1>1
  <2>2. LocalRoots \cap Below(n) = LocalRoots \cap Below(Parent(n))
    BY <2>1, ParentOf DEF Below
  <2> QED BY <2>1, <2>2 DEF Host
<1> QED BY <1>2, <1>3, <1>4

LEMMA ProcessOfHost ==
  ASSUME TreeOK(page)
  PROVE  \A n \in Nodes : page[n].process = page[Host(n)].process
<1> DEFINE S == {n \in Nodes : page[n].process # page[Host(n)].process}
<1> SUFFICES ASSUME S # {} PROVE FALSE
  OBVIOUS
<1>1. PICK n \in S : \A m \in Nodes : m < n => m \notin S
  <2> S \in SUBSET Nodes
    OBVIOUS
  <2> HIDE DEF S
  <2> QED BY FirstNode
<1>2. n \notin LocalRoots
  BY HostOf
<1>3. n \in Nodes \ {1} /\ Host(n) = Host(Parent(n))
  BY <1>2, HostOf
<1>4. Parent(n) \in Nodes /\ Parent(n) < n
  BY <1>3, ParentOf
<1>5. page[n].process = page[Parent(n)].process
  BY <1>2, <1>3, ParentOf DEF LocalRoots
<1> QED BY <1>1, <1>3, <1>4, <1>5

(* Backend node ids are unique in a process. *)
LEMMA IdsOfOneProcess ==
  ASSUME TreeOK(page), NEW m \in Nodes, NEW n \in Nodes,
         page[m].process = page[n].process
  PROVE  BackendId(m) \in Nat \ {0} /\ (BackendId(m) = BackendId(n) => m = n)
<1> DEFINE Ids(k) == {l \in 1..k : page[l].process = page[k].process}
<1>1. m \in Nat /\ n \in Nat /\ m \in 1..m /\ n \in 1..n
  BY PageTyped DEF Nodes
<1>2. ASSUME NEW k \in {m, n}
      PROVE  IsFiniteSet(Ids(k)) /\ Cardinality(Ids(k)) \in Nat \ {0} /\ k \in Ids(k)
  <2>1. IsFiniteSet(1..k)
    BY <1>1, FS_Interval
  <2>2. IsFiniteSet(Ids(k)) /\ k \in Ids(k)
    BY <1>1, <2>1, FS_Subset
  <2> HIDE DEF Ids
  <2> QED BY <2>2, FS_CardinalityType, FS_EmptySet
<1>3. BackendId(m) = Cardinality(Ids(m)) /\ BackendId(n) = Cardinality(Ids(n))
  BY DEF BackendId
<1>4. CASE m < n
  <2>1. Ids(m) \subseteq Ids(n) /\ n \notin Ids(m)
    BY <1>1, <1>4
  <2> HIDE DEF Ids
  <2>2. Cardinality(Ids(m)) # Cardinality(Ids(n))
    BY <1>2, <2>1, FS_Subset
  <2> QED BY <1>2, <1>3, <2>2
<1>5. CASE n < m
  <2>1. Ids(n) \subseteq Ids(m) /\ m \notin Ids(n)
    BY <1>1, <1>5
  <2> HIDE DEF Ids
  <2>2. Cardinality(Ids(m)) # Cardinality(Ids(n))
    BY <1>2, <2>1, FS_Subset
  <2> QED BY <1>2, <1>3, <2>2
<1>6. CASE m = n
  BY <1>2, <1>3, <1>6
<1> QED BY <1>1, <1>4, <1>5, <1>6

(* The frames that were collected. *)
LEMMA FramesAre ==
  ASSUME Inv, frames # <<>>
  PROVE  /\ DOMAIN frames = LocalRoots /\ LocalRoots \subseteq Nodes /\ 1 \in LocalRoots
         /\ \A d \in LocalRoots : /\ frames[d].childIds = ChildIds(d)
                               /\ DOMAIN frames[d].childIds = Serialized(d)
                               /\ d \in Serialized(d) /\ Serialized(d) \subseteq Nodes
         /\ \A d \in LocalRoots \ {1} : /\ frames[d].parent = Host(Parent(d))
                                     /\ frames[d].owner = BackendId(Parent(d))
<1>1. frames = Collected
  BY DEF Inv
<1>2. LocalRoots \subseteq Nodes /\ 1 \in LocalRoots /\ \A d \in LocalRoots : page[d].kind = "root"
  BY PageTyped DEF Inv, TreeOK, LocalRoots
<1>3. \A d \in LocalRoots : d \in Serialized(d)
  BY <1>2, PageTyped DEF Inv, TreeOK, Serialized, Below
<1>4. \A d \in LocalRoots : DOMAIN ChildIds(d) = Serialized(d) /\ Serialized(d) \subseteq Nodes
  BY DEF ChildIds, Serialized
<1> QED BY <1>1, <1>2, <1>3, <1>4 DEF Collected

(* A frame is spliced only at its owner, and only its parent's tree has    *)
(* that.                                                                   *)
LEMMA SplicedAtOwner ==
  ASSUME Inv, frames # <<>>, NEW k \in DOMAIN frames, NEW n \in DOMAIN frames[k].childIds,
         NEW j \in SplicedAt(n, k)
  PROVE  n = Parent(j) /\ k = Host(n) /\ j \in Attached
<1>1. /\ k \in LocalRoots /\ j \in LocalRoots \ {1} /\ j \in Nodes
      /\ n \in Serialized(k) /\ n \in Nodes
      /\ k = Host(Parent(j)) /\ BackendId(Parent(j)) = BackendId(n)
      /\ frames[j].parent = k /\ frames[j].owner = BackendId(n)
  BY FramesAre DEF SplicedAt
<1>2. Parent(j) \in Nodes /\ TreeOK(page)
  BY <1>1, ParentOf DEF Inv
<1>3. page[n].process = page[Parent(j)].process
  BY <1>1, <1>2, ProcessOfHost DEF Serialized
<1>4. n = Parent(j) /\ BackendId(n) # 0
  BY <1>1, <1>2, <1>3, IdsOfOneProcess
<1>5. j \in Attached
  BY <1>1, <1>4 DEF Attached, SplicedAt
<1> QED BY <1>1, <1>4, <1>5

(* Places as it was defined: the recursion is over lesser numbers. *)
PlacesBy(f, n) ==
    IF n = 1 THEN {1}
    ELSE {k \in DOMAIN frames :
             \/ \E m \in DOMAIN frames[k].childIds :
                   m < n /\ n \in Inline(m, k) /\ k \in f[m]
             \/ /\ k = n
                /\ \E l \in DOMAIN frames : \E m \in DOMAIN frames[l].childIds :
                      m < n /\ n \in SplicedAt(m, l) /\ l \in f[m]}

LEMMA PlacesAre ==
  ASSUME Inv, frames # <<>>
  PROVE  \A n \in Nodes : Places[n] = PlacesBy(Places, n)
<1>1. Nodes = 1..Len(page) /\ Len(page) \in Nat
  BY PageTyped DEF Nodes, Inv
<1>2. \A d \in DOMAIN frames : DOMAIN frames[d].childIds \subseteq Nodes
  BY FramesAre
<1>3. ASSUME NEW f, NEW g, NEW n \in Nat, \A m \in Nodes : m < n => f[m] = g[m]
      PROVE  PlacesBy(f, n) = PlacesBy(g, n)
  BY <1>2, <1>3 DEF PlacesBy
<1> DEFINE Good(N) == \E f : f = [n \in 1..N |-> PlacesBy(f, n)]
           Bad == {N \in Nat : ~ Good(N)}
<1>4. Bad = {}
  <2> SUFFICES ASSUME Bad # {} PROVE FALSE
    OBVIOUS
  <2>1. PICK N \in Bad : \A k \in Bad : N <= k
    <3> Bad \in SUBSET Nat
      OBVIOUS
    <3> HIDE DEF Bad
    <3> QED BY LeastOf
  <2>2. N # 0
    <3>1. \A f : [n \in 1..0 |-> PlacesBy(f, n)] = [n \in 1..0 |-> {}]
      OBVIOUS
    <3> QED BY <3>1
  <2>3. Good(N - 1)
    BY <2>1, <2>2
  <2>4. PICK f : f = [n \in 1..(N - 1) |-> PlacesBy(f, n)]
    BY <2>3
  <2> DEFINE g == [n \in 1..N |-> PlacesBy(f, n)]
  <2>5. \A n \in 1..N : PlacesBy(g, n) = PlacesBy(f, n)
    <3> SUFFICES ASSUME NEW n \in 1..N PROVE PlacesBy(g, n) = PlacesBy(f, n)
      OBVIOUS
    <3>1. \A m \in Nodes : m < n => g[m] = f[m]
      BY <1>1, <2>4
    <3> HIDE DEF g
    <3> QED BY <1>3, <3>1
  <2>6. g = [n \in 1..N |-> PlacesBy(g, n)]
    BY <2>5
  <2> HIDE DEF g
  <2> QED BY <2>6
<1>5. Good(Len(page))
  BY <1>1, <1>4
<1>6. Places = CHOOSE f : f = [n \in Nodes |-> PlacesBy(f, n)]
  BY DEF Places, PlacesBy
<1>7. Places = [n \in Nodes |-> PlacesBy(Places, n)]
  BY <1>1, <1>5, <1>6
<1> QED BY <1>7

(* Where a node is built, the frame is the top or is spliced somewhere,    *)
(* and nothing on the way from its root to the node was pruned.            *)
Stands(n, k) ==
    /\ k \in LocalRoots /\ (k = 1 \/ k \in Attached)
    /\ n \in Serialized(k)
    /\ \A a \in Below(n) \cap Serialized(k) : ~ Pruned(a, k)

LEMMA RootStands ==
  ASSUME Inv, frames # <<>>, NEW k \in LocalRoots, k = 1 \/ k \in Attached
  PROVE  Stands(k, k)
<1>1. k \in Serialized(k) /\ k \in Nat /\ Below(k) \subseteq 1..k
  BY FramesAre, PageTyped DEF Inv
<1>2. \A a \in Serialized(k) : a \in Nat /\ k <= a
  BY PageTyped DEF Inv, Serialized
<1>3. \A a \in Below(k) \cap Serialized(k) : a = k
  BY <1>1, <1>2
<1> QED BY <1>1, <1>3 DEF Stands, Pruned

LEMMA InlineStands ==
  ASSUME Inv, frames # <<>>, NEW k \in LocalRoots, NEW m \in Nodes, Stands(m, k),
         NEW n \in Inline(m, k)
  PROVE  Stands(n, k)
<1> DEFINE way == page[n].above \cap Serialized(k)
<1>1. /\ m \in Serialized(k) /\ n \in Serialized(k) /\ ~ Pruned(n, k)
      /\ m \in page[n].above /\ m = Max(way) /\ n \in Nodes
  <2>1. m \in Serialized(k) /\ n \in frames[k].childIds[m] /\ ~ Pruned(n, k)
    BY DEF Stands, Inline
  <2>2. frames[k].childIds = ChildIds(k) /\ Serialized(k) \subseteq Nodes
    BY FramesAre
  <2>3. n \in ChildIds(k)[m]
    BY <2>1, <2>2
  <2> QED BY <2>1, <2>2, <2>3 DEF ChildIds
<1>2. \A a \in way : a <= m
  <2>1. way \in SUBSET (0..n) /\ n \in Nat /\ way # {}
    <3>1. n \in Nat /\ page[n].above \subseteq 1..(n - 1)
      BY <1>1, PageTyped DEF Inv
    <3> QED BY <1>1, <3>1
  <2> QED BY <1>1, <2>1, MaxOf
<1>3. ASSUME NEW a \in way PROVE a \in Below(m)
  <2>1. TreeOK(page) /\ n \in DOMAIN page /\ m \in Nodes
    BY <1>1, PageTyped DEF Inv
  <2>2. page[m].above = {b \in page[n].above : b < m}
    BY <1>1, <2>1 DEF TreeOK
  <2>3. a \in Nat /\ m \in Nat /\ a \in page[n].above
    BY <1>1, <2>1, PageTyped
  <2> QED BY <1>2, <1>3, <2>2, <2>3 DEF Below
<1>4. \A a \in Below(n) \cap Serialized(k) : a = n \/ a \in Below(m) \cap Serialized(k)
  BY <1>3 DEF Below
<1> QED BY <1>1, <1>4 DEF Stands

LEMMA BuiltStands ==
  ASSUME Inv, frames # <<>>
  PROVE  \A n \in Nodes : \A k \in Places[n] : Stands(n, k)
<1> DEFINE S == {n \in Nodes : \E k \in Places[n] : ~ Stands(n, k)}
<1> SUFFICES ASSUME S # {} PROVE FALSE
  OBVIOUS
<1>1. PICK n \in S : \A m \in Nodes : m < n => m \notin S
  <2> S \in SUBSET Nodes
    OBVIOUS
  <2> HIDE DEF S
  <2> QED BY FirstNode DEF Inv
<1>2. PICK k \in Places[n] : ~ Stands(n, k)
  BY <1>1
<1>3. \A m \in Nodes : m < n => \A l \in Places[m] : Stands(m, l)
  BY <1>1
<1>4. Places[n] = PlacesBy(Places, n) /\ n \in Nodes
  BY PlacesAre
<1> HIDE DEF S
<1>5. CASE n = 1
  <2>1. k = 1
    BY <1>2, <1>4, <1>5 DEF PlacesBy
  <2> QED BY <1>2, <1>5, <2>1, RootStands, FramesAre
<1>6. CASE /\ n # 1 /\ k \in DOMAIN frames
           /\ \E m \in DOMAIN frames[k].childIds : m < n /\ n \in Inline(m, k) /\ k \in Places[m]
  <2>1. PICK m \in Nodes : m < n /\ n \in Inline(m, k) /\ k \in Places[m]
    BY <1>6, FramesAre
  <2> QED BY <1>2, <1>3, <1>6, <2>1, InlineStands, FramesAre
<1>7. CASE /\ n # 1 /\ k = n /\ k \in DOMAIN frames
           /\ \E l \in DOMAIN frames : \E m \in DOMAIN frames[l].childIds :
                 m < n /\ n \in SplicedAt(m, l) /\ l \in Places[m]
  <2>1. n \in Attached
    BY <1>7, SplicedAtOwner
  <2> QED BY <1>2, <1>7, <2>1, RootStands, FramesAre
<1>8. n # 1 => \/ /\ k \in DOMAIN frames
                  /\ \E m \in DOMAIN frames[k].childIds :
                        m < n /\ n \in Inline(m, k) /\ k \in Places[m]
               \/ /\ k = n /\ k \in DOMAIN frames
                  /\ \E l \in DOMAIN frames : \E m \in DOMAIN frames[l].childIds :
                        m < n /\ n \in SplicedAt(m, l) /\ l \in Places[m]
  BY <1>2, <1>4 DEF PlacesBy
<1> QED BY <1>5, <1>6, <1>7, <1>8

(* A node below two frames of its process is below the root of the inner   *)
(* one in the outer one's tree, and that copy is pruned.                   *)
LEMMA NotInOuterFrame ==
  ASSUME Inv, frames # <<>>, NEW n \in Nodes, NEW k \in Nodes, NEW l \in Nodes,
         Stands(n, k), Stands(n, l)
  PROVE  ~ (k < l)
<1> SUFFICES ASSUME k < l PROVE FALSE
  OBVIOUS
<1>1. /\ k \in Below(n) /\ l \in Below(n) /\ l \in LocalRoots
      /\ page[k].process = page[n].process /\ page[l].process = page[n].process
      /\ l = 1 \/ l \in Attached
  BY DEF Stands, Serialized
<1>2. n \in Nat /\ k \in Nat /\ l \in Nat /\ k >= 1 /\ k <= n /\ l <= n /\ TreeOK(page)
  BY <1>1, PageTyped DEF Inv, Nodes
<1>3. l \in Attached /\ page[l].kind = "root"
  BY <1>1, <1>2 DEF LocalRoots, TreeOK
<1>4. k \in Below(l)
  <2>1. l # n => page[l].above = {b \in page[n].above : b < l}
    BY <1>1, <1>2, PageTyped DEF TreeOK, Below
  <2> QED BY <1>1, <1>2, <2>1 DEF Below
<1>5. l \in Serialized(k)
  BY <1>1, <1>2, <1>3, <1>4, PageTyped DEF TreeOK, Serialized
<1>6. Pruned(l, k)
  BY <1>2, <1>3 DEF Pruned, SplicedRootUrls
<1> QED BY <1>1, <1>5, <1>6 DEF Stands

(* Each node of any page is built at one place at most, however its        *)
(* documents are spread over processes, whatever urls they share and       *)
(* whichever owners the trees lack: ComposeSnapshot shows nothing twice.   *)
LEMMA InvBuiltOnce == Inv => BuiltOnce
<1> SUFFICES ASSUME Inv, frames # <<>>, NEW n \in Nodes, NEW k \in Places[n], NEW l \in Places[n]
             PROVE  k = l
  BY DEF BuiltOnce
<1>1. Stands(n, k) /\ Stands(n, l)
  BY BuiltStands
<1>2. k \in Nodes /\ l \in Nodes /\ k \in Nat /\ l \in Nat
  BY <1>1, FramesAre, PageTyped DEF Stands, Inv
<1>3. ~ (k < l) /\ ~ (l < k)
  BY <1>1, <1>2, NotInOuterFrame
<1> QED BY <1>2, <1>3

LEMMA InvTypeOK == Inv => TypeOK
<1> SUFFICES ASSUME Inv PROVE TypeOK
  OBVIOUS
<1>1. \A n \in Nodes : /\ page[n].kind \in ElementKinds \cup {"root", "owner"}
                        /\ page[n].above \subseteq 1..(n - 1)
                        /\ page[n].process \in Processes
  BY PageTyped DEF Inv, PageNode
<1>2. CASE frames = <<>>
  <2>1. DOMAIN frames = {}
    BY <1>2
  <2> QED BY <1>1, <2>1 DEF Inv, TypeOK
<1>3. CASE frames # <<>>
  <2>1. DOMAIN frames = LocalRoots /\ LocalRoots \subseteq Nodes
    BY <1>3, FramesAre
  <2>2. ASSUME NEW j \in DOMAIN frames \ {1}
        PROVE  frames[j].parent \in DOMAIN frames /\ frames[j].parent < j
    <3>1. frames[j].parent = Host(Parent(j)) /\ j \in Nodes \ {1}
      BY <1>3, <2>1, FramesAre
    <3>2. Parent(j) \in Nodes /\ Parent(j) < j /\ j \in Nat /\ Parent(j) \in Nat
      BY <3>1, ParentOf, PageTyped DEF Inv
    <3>3. Host(Parent(j)) \in LocalRoots /\ Host(Parent(j)) \in 1..Parent(j)
      BY <3>2, HostOf, PageTyped DEF Inv
    <3> QED BY <2>1, <3>1, <3>2, <3>3
  <2>3. ASSUME NEW j \in DOMAIN frames \ {1} PROVE frames[j].owner \in Nat \ {0}
    <3>1. frames[j].owner = BackendId(Parent(j)) /\ Parent(j) \in Nodes
      BY <1>3, <2>1, FramesAre, ParentOf DEF Inv
    <3> QED BY <3>1, IdsOfOneProcess DEF Inv
  <2>4. ASSUME NEW j \in DOMAIN frames
        PROVE  frames[j].childIds \in [Serialized(j) -> SUBSET Serialized(j)]
    <3>1. frames[j].childIds = ChildIds(j)
      BY <1>3, <2>1, FramesAre
    <3>2. ChildIds(j) \in [Serialized(j) -> SUBSET Serialized(j)]
      <4>1. \A n \in Serialized(j) :
               {m \in Serialized(j) : /\ n \in page[m].above
                                      /\ n = Max(page[m].above \cap Serialized(j))}
                  \in SUBSET Serialized(j)
        OBVIOUS
      <4> QED BY <4>1 DEF ChildIds
    <3> QED BY <3>1, <3>2
  <2> QED BY <1>1, <2>1, <2>2, <2>3, <2>4 DEF Inv, TypeOK
<1> QED BY <1>2, <1>3

(* The page is in document order, with each node below its parent, and the *)
(* frames the job collects of it are in order too: a frame comes after the *)
(* frame its owner is in, and its tree is among the nodes of its process.  *)
THEOREM TypeCorrect == PageSpec => []TypeOK
BY SpecInv, InvTypeOK, PTL
-----------------------------------------------------------------------------
(* Pages whose urls tell documents apart and whose owners are all in the   *)
(* trees.                                                                  *)
Clear == Inv /\ frames # <<>> /\ DistinctUrls /\ AllOwnersExposed

LEMMA OfItsFrame ==
  ASSUME Inv, AllOwnersExposed, NEW n \in Nodes
  PROVE  n \in Serialized(Host(n))
BY HostOf, ProcessOfHost DEF Inv, AllOwnersExposed, Serialized

LEMMA PrunedAre ==
  ASSUME Clear, NEW n \in Nodes, NEW k
  PROVE  Pruned(n, k) <=> n # k /\ n \in LocalRoots \ {1}
<1>1. DOMAIN frames = LocalRoots /\ LocalRoots \subseteq Nodes
  BY FramesAre DEF Clear
<1>2. ASSUME NEW j \in LocalRoots \ {1} PROVE j \in Attached
  <2>1. j \in Nodes \ {1} /\ TreeOK(page) /\ Parent(j) \in Nodes
    BY <1>1, ParentOf DEF Clear, Inv
  <2>2. Host(Parent(j)) \in LocalRoots /\ Parent(j) \in Serialized(Host(Parent(j)))
    BY <2>1, HostOf, OfItsFrame DEF Clear
  <2>3. BackendId(Parent(j)) # 0
    BY <2>1, IdsOfOneProcess
  <2>4. /\ frames[j].parent = Host(Parent(j)) /\ frames[j].owner = BackendId(Parent(j))
        /\ DOMAIN frames[Host(Parent(j))].childIds = Serialized(Host(Parent(j)))
    BY <2>2, FramesAre DEF Clear
  <2> QED BY <1>1, <2>2, <2>3, <2>4 DEF Attached
<1>3. Attached = LocalRoots \ {1}
  BY <1>1, <1>2 DEF Attached
<1>4. Pruned(n, k) => n \in Attached
  BY <1>1, <1>3 DEF Pruned, SplicedRootUrls, Clear, DistinctUrls
<1>5. n \in Attached /\ n # k => Pruned(n, k)
  BY <1>3 DEF Pruned, SplicedRootUrls, LocalRoots
<1>6. Pruned(n, k) => n # k
  BY DEF Pruned
<1> QED BY <1>3, <1>4, <1>5, <1>6

(* Below a node of the built tree: the local roots it owns, and inline     *)
(* whatever else is below it.                                              *)
LEMMA SplicedAre ==
  ASSUME Clear, NEW n \in Nodes
  PROVE  SplicedAt(n, Host(n)) = {m \in Nodes \ {1} : Parent(m) = n /\ m \in LocalRoots}
<1>1. /\ DOMAIN frames = LocalRoots /\ LocalRoots \subseteq Nodes /\ Host(n) \in LocalRoots
      /\ n \in DOMAIN frames[Host(n)].childIds
  BY FramesAre, HostOf, OfItsFrame DEF Clear, Inv
<1>2. ASSUME NEW m \in SplicedAt(n, Host(n)) PROVE Parent(m) = n /\ m \in LocalRoots \ {1}
  BY <1>1, <1>2, SplicedAtOwner DEF Clear, SplicedAt
<1>3. ASSUME NEW m \in LocalRoots \ {1}, Parent(m) = n PROVE m \in SplicedAt(n, Host(n))
  BY <1>1, <1>3, FramesAre DEF Clear, SplicedAt
<1> QED BY <1>1, <1>2, <1>3

LEMMA InlineAre ==
  ASSUME Clear, NEW n \in Nodes
  PROVE  Inline(n, Host(n)) = {m \in Nodes \ {1} : Parent(m) = n /\ m \notin LocalRoots}
<1> DEFINE h == Host(n)
           way(m) == page[m].above \cap Serialized(h)
<1>1. /\ TreeOK(page) /\ Nodes \subseteq Nat /\ 1 \in LocalRoots
      /\ h \in LocalRoots /\ h \in Below(n) /\ n \in Serialized(h) /\ h \in Nat /\ h <= n
      /\ frames[h].childIds = ChildIds(h) /\ Serialized(h) \subseteq Nodes
  BY FramesAre, HostOf, OfItsFrame, PageTyped DEF Clear, Inv
<1>2. \A m : m \in Inline(n, h) <=> /\ m \in Serialized(h) /\ n \in page[m].above
                                     /\ n = Max(way(m)) /\ ~ Pruned(m, h)
  BY <1>1 DEF Inline, ChildIds
<1> HIDE DEF h
<1>3. ASSUME NEW m \in Nodes \ {1}
      PROVE  /\ way(m) \in SUBSET (0..m) /\ m \in Nat
             /\ Parent(m) \in page[m].above /\ Parent(m) \in Nat /\ Parent(m) < m
             /\ \A a \in page[m].above : a \in Nat /\ a <= Parent(m)
  <2>1. m \in Nat /\ page[m].above \in SUBSET (0..m) /\ page[m].above \subseteq Nodes
    BY <1>1, PageTyped
  <2>2. Parent(m) \in page[m].above /\ Parent(m) \in Nodes /\ Parent(m) < m
        /\ page[m].above = Below(Parent(m))
    BY <1>1, ParentOf
  <2>3. \A a \in page[m].above : a <= Parent(m)
    BY <1>1, <2>2, PageTyped
  <2> QED BY <1>1, <2>1, <2>2, <2>3
<1>4. ASSUME NEW m \in Inline(n, h)
      PROVE  m \in Nodes \ {1} /\ Parent(m) = n /\ m \notin LocalRoots
  <2>1. m \in Serialized(h) /\ n \in page[m].above /\ n = Max(way(m)) /\ ~ Pruned(m, h)
    BY <1>2, <1>4
  <2>2. m \in Nodes \ {1} /\ n < m
    <3>1. m \in Nodes
      BY <1>1, <2>1
    <3>2. m \in Nat /\ n \in 1..(m - 1)
      BY <1>1, <2>1, <3>1, PageTyped
    <3> QED BY <3>1, <3>2
  <2>3. m \notin LocalRoots
    <3>1. m # h
      BY <1>1, <1>3, <2>2
    <3> QED BY <2>1, <2>2, <3>1, PrunedAre
  <2>4. Parent(m) \in way(m)
    <3>1. page[m].process = page[Parent(m)].process /\ Parent(m) \in Nodes
          /\ page[m].above = Below(Parent(m))
      BY <1>1, <2>2, <2>3, ParentOf DEF LocalRoots
    <3>2. h \in page[m].above
      BY <1>1, <1>3, <2>1, <2>2 DEF Serialized, Below
    <3>3. Parent(m) \in Serialized(h)
      BY <2>1, <3>1, <3>2 DEF Serialized, Clear, AllOwnersExposed
    <3> QED BY <1>3, <2>2, <3>3
  <2>5. Parent(m) <= n
    BY <1>3, <2>1, <2>2, <2>4, MaxOf, Zenon
  <2> QED BY <1>1, <1>3, <2>1, <2>2, <2>3, <2>5
<1>5. ASSUME NEW m \in Nodes \ {1}, Parent(m) = n, m \notin LocalRoots
      PROVE  m \in Inline(n, h)
  <2>1. n \in way(m)
    BY <1>1, <1>3, <1>5
  <2>2. n = Max(way(m))
    <3>1. Max(way(m)) \in way(m) /\ n <= Max(way(m))
      BY <1>3, <2>1, MaxOf, Zenon
    <3> QED BY <1>1, <1>3, <1>5, <3>1
  <2>3. m \in Serialized(h)
    <3>1. page[m].process = page[n].process /\ page[m].above = Below(n)
      BY <1>1, <1>5, ParentOf DEF LocalRoots
    <3> QED BY <1>1, <3>1 DEF Serialized, Clear, AllOwnersExposed, Below
  <2>4. ~ Pruned(m, h)
    BY <1>5, PrunedAre
  <2> QED BY <1>2, <2>1, <2>2, <2>3, <2>4
<1> QED BY <1>4, <1>5 DEF h

LEMMA PlacedInItsFrame ==
  ASSUME Clear
  PROVE  \A n \in Nodes : Places[n] = {Host(n)}
<1> DEFINE S == {n \in Nodes : Places[n] # {Host(n)}}
<1> SUFFICES ASSUME S # {} PROVE FALSE
  OBVIOUS
<1>1. PICK n \in S : \A m \in Nodes : m < n => m \notin S
  <2> S \in SUBSET Nodes
    OBVIOUS
  <2> HIDE DEF S
  <2> QED BY FirstNode DEF Clear, Inv
<1>2. \A m \in Nodes : m < n => Places[m] = {Host(m)}
  BY <1>1
<1>3. Places[n] # {Host(n)} /\ n \in Nodes
  BY <1>1
<1> HIDE DEF S
<1>4. /\ Places[n] = PlacesBy(Places, n) /\ TreeOK(page) /\ DOMAIN frames = LocalRoots
      /\ LocalRoots \subseteq Nodes /\ 1 \in LocalRoots
      /\ \A d \in LocalRoots : DOMAIN frames[d].childIds \subseteq Nodes
  BY <1>3, PlacesAre, FramesAre DEF Clear, Inv
<1>5. n # 1
  BY <1>3, <1>4, HostOf DEF PlacesBy
<1> DEFINE p == Parent(n)
           h == Host(p)
<1>6. /\ p \in Nodes /\ p < n /\ Places[p] = {h} /\ h \in LocalRoots
      /\ p \in DOMAIN frames[h].childIds
  BY <1>2, <1>3, <1>4, <1>5, ParentOf, HostOf, OfItsFrame, FramesAre DEF Clear
<1>7. ASSUME NEW k \in Places[n] PROVE k = Host(n)
  <2>1. CASE \E m \in DOMAIN frames[k].childIds : m < n /\ n \in Inline(m, k) /\ k \in Places[m]
    <3>1. k \in LocalRoots
      BY <1>4, <1>5, <1>7 DEF PlacesBy
    <3>2. PICK m \in Nodes : m < n /\ n \in Inline(m, k) /\ k \in Places[m]
      BY <1>4, <2>1, <3>1
    <3>3. k = Host(m)
      BY <1>2, <3>2
    <3>4. Parent(n) = m /\ n \notin LocalRoots
      BY <3>2, <3>3, InlineAre
    <3> QED BY <1>3, <1>4, <3>3, <3>4, HostOf
  <2>2. CASE /\ k = n
             /\ \E l \in DOMAIN frames : \E m \in DOMAIN frames[l].childIds :
                   m < n /\ n \in SplicedAt(m, l) /\ l \in Places[m]
    <3>1. n \in LocalRoots
      BY <1>4, <2>2 DEF SplicedAt
    <3> QED BY <1>3, <1>4, <2>2, <3>1, HostOf
  <2> QED BY <1>4, <1>5, <1>7, <2>1, <2>2 DEF PlacesBy
<1>8. Host(n) \in Places[n]
  <2>1. CASE n \in LocalRoots
    <3>1. n \in SplicedAt(p, h)
      BY <1>3, <1>5, <1>6, <2>1, SplicedAre
    <3>2. Host(n) = n
      BY <1>3, <1>4, <2>1, HostOf
    <3> QED BY <1>4, <1>5, <1>6, <2>1, <3>1, <3>2 DEF PlacesBy
  <2>2. CASE n \notin LocalRoots
    <3>1. n \in Inline(p, h)
      BY <1>3, <1>5, <1>6, <2>2, InlineAre
    <3>2. Host(n) = h
      BY <1>3, <1>4, <2>2, HostOf
    <3> QED BY <1>4, <1>5, <1>6, <3>1, <3>2 DEF PlacesBy
  <2> QED BY <2>1, <2>2
<1> QED BY <1>3, <1>7, <1>8

LEMMA InvLikeThePage == Inv => BuiltLikeThePage
<1> SUFFICES ASSUME Clear, NEW n \in Nodes
             PROVE  /\ Places[n] = {Host(n)}
                    /\ Inline(n, Host(n)) \cup SplicedAt(n, Host(n)) =
                          {m \in Nodes \ {1} : Parent(m) = n}
  BY DEF BuiltLikeThePage, Clear
<1>1. Places[n] = {Host(n)}
  BY PlacedInItsFrame
<1>2. Inline(n, Host(n)) \cup SplicedAt(n, Host(n)) = {m \in Nodes \ {1} : Parent(m) = n}
  BY InlineAre, SplicedAre
<1> QED BY <1>1, <1>2

(* ComposeSnapshot builds no node twice, and where urls tell documents     *)
(* apart and every owner is in the tree of its frame, it builds the page:  *)
(* each node in its own frame and nowhere else, and below it its children, *)
(* whichever process they are of.                                          *)
THEOREM LikeThePage == PageSpec => []BuiltInPlace
<1>1. Inv => BuiltInPlace
  BY InvBuiltOnce, InvLikeThePage DEF BuiltInPlace
<1> QED BY <1>1, SpecInv, PTL
=============================================================================
