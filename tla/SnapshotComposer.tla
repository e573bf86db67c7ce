--------------------------- MODULE SnapshotComposer ---------------------------
(***************************************************************************)
(* ComposeSnapshot: the accessibility trees of a page's local roots are    *)
(* joined into one tree, which a Renderer prints as lines and refs.        *)
(*                                                                         *)
(* The properties compare what the composer prints of the frames of every  *)
(* page (SnapshotFrames) with the page itself, and with what the composer  *)
(* of the host (host/src/snapshot.js) prints.                              *)
(***************************************************************************)
EXTENDS SnapshotFrames, SequencesExt

VARIABLE snapshot   \* the lines composed, with and without the viewport filter

vars == <<page, parts, frames, snapshot>>

Init == PageInit /\ snapshot = <<>>

InOrder(S) == SelectSeq([n \in Nodes |-> n], LAMBDA n : n \in S)
-----------------------------------------------------------------------------
(***************************************************************************)
(* ComposeSnapshot.                                                        *)
(***************************************************************************)

RECURSIVE Build(_, _)
Build(n, k) ==
    LET own  == InOrder(Inline(n, k))
        here == InOrder(SplicedAt(n, k))
    IN [node |-> n,
        children |-> [i \in DOMAIN own |-> Build(own[i], k)]
                     \o [i \in DOMAIN here |-> Build(here[i], here[i])]]

RECURSIVE HasActionableDescendant(_)
HasActionableDescendant(tree) ==
    \E i \in DOMAIN tree.children : \/ Actionable(tree.children[i].node)
                                    \/ HasActionableDescendant(tree.children[i])

\* A printed line: the node, or the texts that merged into it, and its ref.
Line(depth, nodes, ref) == <<[depth |-> depth, nodes |-> nodes, ref |-> ref]>>
FlushText(texts, depth) == IF texts = <<>> THEN <<>> ELSE Line(depth, texts, 0)

\* Unnamed nodes of no known role have no line unless something to act on is below.
(* Mutant: whatever is below. *)
SkippedRegardless(tree) == page[tree.node].kind \in {"plain", "owner"}

Skipped(tree) == /\ page[tree.node].kind \in {"plain", "owner"}
                 /\ ~HasActionableDescendant(tree)

Ref(n) == IF Actionable(n) THEN BackendId(n) ELSE 0

RECURSIVE Render(_, _, _), RenderNode(_, _, _), RenderChildren(_, _, _, _, _)

\* An ignored node hands its children to Render one by one.
Render(tree, depth, viewportOnly) ==
    IF page[tree.node].kind = "ignored"
    THEN FlattenSeq([i \in DOMAIN tree.children |->
                        Render(tree.children[i], depth, viewportOnly)])
    ELSE IF viewportOnly /\ page[tree.node].off THEN <<>>
    ELSE RenderNode(tree, depth, viewportOnly)

\* A text is left to the merging of its parent.
RenderNode(tree, depth, viewportOnly) ==
    IF page[tree.node].kind = "text" \/ Skipped(tree)
    THEN RenderChildren(tree.children, 1, <<>>, depth, viewportOnly)
    ELSE Line(depth, <<tree.node>>, Ref(tree.node))
         \o RenderChildren(tree.children, 1, <<>>, depth + 1, viewportOnly)

\* Consecutive texts merge into one line.
RenderChildren(children, i, texts, depth, viewportOnly) ==
    IF i > Len(children) THEN FlushText(texts, depth)
    ELSE IF page[children[i].node].kind = "text"
    THEN RenderChildren(children, i + 1, Append(texts, children[i].node), depth, viewportOnly)
    ELSE FlushText(texts, depth) \o Render(children[i], depth, viewportOnly)
         \o RenderChildren(children, i + 1, <<>>, depth, viewportOnly)

\* refs: an entry for each id when it is first printed (seen_refs_).
(* Mutant: seen_refs_ is not consulted. *)
RefsWithRepeats(lines) ==
    FoldLeft(LAMBDA refs, line :
               IF line.ref = 0 THEN refs
               ELSE Append(refs, [ref |-> line.ref, node |-> line.nodes[1]]),
             <<>>, lines)

RefsOf(lines) ==
    FoldLeft(LAMBDA refs, line :
               IF line.ref = 0 \/ \E i \in DOMAIN refs : refs[i].ref = line.ref THEN refs
               ELSE Append(refs, [ref |-> line.ref, node |-> line.nodes[1]]),
             <<>>, lines)

ComposeSnapshot ==
    /\ frames # <<>> /\ snapshot = <<>>
    /\ snapshot' = LET tree == Build(1, 1) IN [only \in BOOLEAN |-> Render(tree, 0, only)]
    /\ UNCHANGED pageVars

Next == \/ PageNext /\ UNCHANGED snapshot
        \/ ComposeSnapshot

Spec == Init /\ [][Next]_vars
-----------------------------------------------------------------------------
(***************************************************************************)
(* The host's composer, which sees the tree of one target.                 *)
(***************************************************************************)

RECURSIVE Visit(_, _), VisitChildren(_, _, _, _)

Visit(tree, depth) ==
    IF \/ page[tree.node].kind \in {"ignored", "text"}
       \/ page[tree.node].kind \in {"plain", "owner"} /\ ~HasActionableDescendant(tree)
    THEN VisitChildren(tree.children, 1, <<>>, depth)
    ELSE Line(depth, <<tree.node>>, Ref(tree.node))
         \o VisitChildren(tree.children, 1, <<>>, depth + 1)

VisitChildren(children, i, texts, depth) ==
    IF i > Len(children) THEN FlushText(texts, depth)
    ELSE IF page[children[i].node].kind = "text"
    THEN VisitChildren(children, i + 1, Append(texts, children[i].node), depth)
    ELSE FlushText(texts, depth) \o Visit(children[i], depth)
         \o VisitChildren(children, i + 1, <<>>, depth)
-----------------------------------------------------------------------------
RECURSIVE PageTree(_)
PageTree(n) == LET below == InOrder({m \in Nodes \ {1} : Parent(m) = n})
               IN [node |-> n, children |-> [i \in DOMAIN below |-> PageTree(below[i])]]

Composed == snapshot # <<>>

\* Splicing restores the page: however its documents are spread over processes,
\* and whatever ids the processes share, the frames compose to what one tree of
\* the whole page renders to, with and without the viewport filter.  Documents
\* are told apart by their url, so it takes distinct urls, and owners in the tree.
\* On any page, whatever its urls and owners, no node is printed twice: not at its
\* owner and as an inline copy besides.  With all owners in the tree lines follow it.
PrintedLikeThePage ==
    Composed => \A only \in BOOLEAN :
        LET lines   == snapshot[only]
            printed == FlattenSeq([i \in DOMAIN lines |-> lines[i].nodes])
        IN /\ DistinctUrls /\ AllOwnersExposed => lines = Render(PageTree(1), 0, only)
           /\ \A i, j \in DOMAIN printed :
                i < j => /\ printed[i] # printed[j]
                         /\ AllOwnersExposed => printed[i] < printed[j]

\* A ref that is printed is in the list, once, and stands there for the first
\* node printed with it; only nodes of two processes share one.
RefsNameWhatIsPrinted ==
    Composed =>
    LET lines == snapshot[FALSE]
        refs  == RefsOf(lines)
    IN /\ {refs[i].ref : i \in DOMAIN refs} = {lines[i].ref : i \in DOMAIN lines} \ {0}
       /\ \A i, j \in DOMAIN refs : refs[i].ref = refs[j].ref => i = j
       /\ \A i \in DOMAIN refs, l \in DOMAIN lines :
            lines[l].ref = refs[i].ref =>
                \/ lines[l].nodes[1] = refs[i].node
                \/ page[refs[i].node].process # page[lines[l].nodes[1]].process

\* Of a page in one process the two composers print the same.
SameAsTheHost ==
    Composed /\ DOMAIN frames = {1} => snapshot[FALSE] = Visit(PageTree(1), 0)

\* They do where no text is directly below an ignored node.
SameAsTheHostButForIgnored ==
    (\A n \in Nodes : page[n].kind = "text" => page[Parent(n)].kind # "ignored")
        => SameAsTheHost
=============================================================================
