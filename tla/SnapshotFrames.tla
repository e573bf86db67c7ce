---------------------------- MODULE SnapshotFrames ----------------------------
(***************************************************************************)
(* The frames of a page, and where ComposeSnapshot puts each of their      *)
(* nodes: what it prunes, what it splices, and the tree that makes of the  *)
(* local roots' accessibility trees.  SnapshotComposer builds that tree    *)
(* and prints it.                                                          *)
(*                                                                         *)
(* The state machine only makes pages: every page of at most MaxParts      *)
(* parts, in document order.  A part is an element, or an iframe element   *)
(* with its document.  A frame is known by its local root; the order of    *)
(* numbers is document order, in which SnapshotJob collects the frames.    *)
(***************************************************************************)
EXTENDS Integers, Sequences, FiniteSets, FiniteSetsExt

CONSTANTS MaxParts,     \* parts after the top document
          Processes     \* renderer processes; backend node ids are theirs

ASSUME ComposerAssumption == /\ MaxParts \in Nat
                             /\ Processes # {}

VARIABLES page,      \* nodes in document order
          parts,     \* parts added so far
          frames     \* what the job collected of it by local root, <<>> before that

pageVars == <<page, parts, frames>>

\* Roles up to what MapRole, ActionableRoles and ContainerRoles make of them: a
\* "container" is of a curated role or has a name, "plain" is neither, an "owner"
\* is an <iframe>, which is plain.  Ignored nodes have no name.
ElementKinds == {"container", "actionable", "plain", "ignored", "text"}
Actionable(n) == page[n].kind = "actionable"

\* above: the ancestors.  exposed: the accessibility tree has the node.
Node(above, kind, off, process, url, exposed) ==
    [above |-> above, kind |-> kind, off |-> off, process |-> process,
     url |-> url, exposed |-> exposed]
Below(n) == page[n].above \cup {n}

PageInit == /\ \E p \in Processes : page = <<Node({}, "root", FALSE, p, 1, TRUE)>>
            /\ parts = 0
            /\ frames = <<>>

\* In document order the next node is below the last one or one of its ancestors.
OpenNodes == {n \in Below(Len(page)) : page[n].kind \notin {"text", "owner"}}

\* off: the box of the element is outside the viewport of its frame.
AddElement(parent, kind, off) ==
    /\ frames = <<>> /\ parts < MaxParts /\ parent \in OpenNodes
    /\ off => kind = "actionable"
    /\ page' = Append(page, Node(Below(parent), kind, off, page[parent].process, 0, TRUE))
    /\ parts' = parts + 1
    /\ UNCHANGED frames

\* An <iframe> and its document.  The url may be one the page has already.  A
\* document in another process is a frame even when its <iframe> is not displayed.
AddDocument(parent, process, url, exposed) ==
    /\ frames = <<>> /\ parts < MaxParts /\ parent \in OpenNodes
    /\ exposed \/ process # page[parent].process
    /\ url \in {Len(page) + 2} \cup ({page[n].url : n \in 2..Len(page)} \ {0})
    /\ page' = Append(Append(page,
                 Node(Below(parent), "owner", FALSE, page[parent].process, 0, exposed)),
                 Node(Below(parent) \cup {Len(page) + 1}, "root", FALSE, process, url, TRUE))
    /\ parts' = parts + 1
    /\ UNCHANGED frames

-----------------------------------------------------------------------------
(***************************************************************************)
(* The frames the composer is given.                                       *)
(***************************************************************************)

Nodes == 1..Len(page)

BackendId(n) == Cardinality({m \in 1..n : page[m].process = page[n].process})
Parent(n) == Max(page[n].above)

LocalRoots == {1} \cup {d \in Nodes \ {1} : /\ page[d].kind = "root"
                                          /\ page[d].process # page[Parent(d)].process}

\* The nearest enclosing local root.
Host(n) == Max(LocalRoots \cap Below(n))

\* A process serializes all its documents below a local root d: a document whose
\* parent is another process's appears inline, below the nearest node there is.
Serialized(d) == {n \in Nodes : /\ d \in Below(n) /\ page[n].exposed
                                /\ page[n].process = page[d].process}

ChildIds(d) == [n \in Serialized(d) |->
                   {m \in Serialized(d) : /\ n \in page[m].above
                                          /\ n = Max(page[m].above \cap Serialized(d))}]

(* Mutant: the frame is its own parent. *)
CollectedUnderItself ==
    [d \in LocalRoots |-> [parent |-> d, owner |-> 0, childIds |-> ChildIds(d)]]

Collected ==
    [d \in LocalRoots |->
        [parent   |-> IF d = 1 THEN 0 ELSE Host(Parent(d)),
         owner    |-> IF d = 1 THEN 0 ELSE BackendId(Parent(d)),
         childIds |-> ChildIds(d)]]

Collect == /\ frames = <<>>
           /\ frames' = Collected
           /\ UNCHANGED <<page, parts>>

PageNext == \/ \E parent \in OpenNodes, kind \in ElementKinds, off \in BOOLEAN :
                  AddElement(parent, kind, off)
            \/ \E parent \in OpenNodes, process \in Processes, url \in 2..(Len(page) + 2),
                  exposed \in BOOLEAN :
                  AddDocument(parent, process, url, exposed)
            \/ Collect

PageSpec == PageInit /\ [][PageNext]_pageVars
-----------------------------------------------------------------------------
(***************************************************************************)
(* The tree ComposeSnapshot builds of them.                                *)
(***************************************************************************)

\* The first loop: frames whose owner is in the tree of their parent.
Attached == {j \in DOMAIN frames \ {1} :
                /\ frames[j].owner # 0
                /\ \E n \in DOMAIN frames[frames[j].parent].childIds :
                      BackendId(n) = frames[j].owner}
SplicedRootUrls == {page[j].url : j \in Attached}

(* Mutant: inline copies stay. *)
PrunedNever(n, k) == FALSE

\* An inline document that is spliced elsewhere.
Pruned(n, k) == page[n].kind = "root" /\ n # k /\ page[n].url \in SplicedRootUrls

Inline(n, k) == {m \in frames[k].childIds[n] : ~Pruned(m, k)}

(* Mutant: whoever its parent is. *)
SplicedByIdAlone(n, k) ==
    {j \in DOMAIN frames \ {1} : j > k /\ frames[j].owner = BackendId(n)}

\* Frames whose owner is node n of frame k; ids of other frames do not count.
SplicedAt(n, k) ==
    {j \in DOMAIN frames \ {1} : frames[j].parent = k /\ frames[j].owner = BackendId(n)}

\* The frames as nodes of which node n is built.
Places[n \in Nodes] ==
    IF n = 1 THEN {1}
    ELSE {k \in DOMAIN frames :
             \/ \E m \in DOMAIN frames[k].childIds :
                   m < n /\ n \in Inline(m, k) /\ k \in Places[m]
             \/ /\ k = n
                /\ \E l \in DOMAIN frames : \E m \in DOMAIN frames[l].childIds :
                      m < n /\ n \in SplicedAt(m, l) /\ l \in Places[m]}
-----------------------------------------------------------------------------
\* The page in document order, each node below its parent; who is collected has a
\* parent collected before it, an owner, and children among its own nodes.
TypeOK == /\ parts \in 0..MaxParts
          /\ Len(page) <= 1 + 2 * parts
          /\ \A n \in Nodes : /\ page[n].kind \in ElementKinds \cup {"root", "owner"}
                              /\ page[n].above \subseteq 1..(n - 1)
                              /\ page[n].process \in Processes
          /\ DOMAIN frames \subseteq Nodes
          /\ \A j \in DOMAIN frames \ {1} : /\ frames[j].parent \in DOMAIN frames
                                            /\ frames[j].parent < j
                                            /\ frames[j].owner \in Nat \ {0}
          /\ \A j \in DOMAIN frames : frames[j].childIds \in [Serialized(j) -> SUBSET Serialized(j)]

DistinctUrls == \A d, e \in Nodes : page[d].kind = "root" /\ page[d].url = page[e].url => d = e
AllOwnersExposed == \A n \in Nodes : page[n].exposed

\* On any page, whatever urls its documents share and whichever owners the
\* trees lack, ComposeSnapshot builds a node once: a document is not at its owner
\* and an inline copy besides, nor in two places by an id two processes share.
BuiltOnce == frames # <<>> => \A n \in Nodes : \A k, l \in Places[n] : k = l

\* Where urls tell documents apart and all owners are in the tree, the tree
\* ComposeSnapshot builds is that of the page: every node is there, as one of its
\* own frame, and below it what is below it in the page and nothing else.
BuiltLikeThePage ==
    frames # <<>> /\ DistinctUrls /\ AllOwnersExposed =>
        \A n \in Nodes :
            /\ Places[n] = {Host(n)}
            /\ Inline(n, Host(n)) \cup SplicedAt(n, Host(n)) = {m \in Nodes \ {1} : Parent(m) = n}

\* No node is built twice on any page; each where it belongs if the page is clear.
BuiltInPlace == BuiltOnce /\ BuiltLikeThePage
=============================================================================
