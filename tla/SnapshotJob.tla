---------------------------- MODULE SnapshotJob ----------------------------
(***************************************************************************)
(* One Prism.snapshot call in the kernel: a self-owned job that walks the  *)
(* local-root frames of a page one after the other, over the DevTools      *)
(* session of each: viewport size, accessibility tree, owner element (asked*)
(* of the parent's session), the box of each actionable node, next frame.  *)
(*                                                                         *)
(* Every callback of the job is one task of the UI thread, but the page is *)
(* free between them: frames go, agent hosts close, answers fail or never  *)
(* come, and the watchdog may beat any of them.                            *)
(*                                                                         *)
(* Frames are numbered in the preorder CollectFrames finds them in, the    *)
(* top frame first; frames in the process of another are part of it.  The  *)
(* agent host of a frame, and the job's session with it, has its number.   *)
(***************************************************************************)
EXTENDS Integers, Sequences

CONSTANTS
    MaxFrames,    \* how many local roots a page has at most
    MaxBoxes      \* how many actionable nodes a frame has at most

ASSUME BoundsAssumption == MaxFrames \in Nat \ {0} /\ MaxBoxes \in Nat

VARIABLES
    job,          \* the life of the job
    viewport,     \* options_.only_within_viewport
    frames,       \* frames_, with what has been learnt of each
    attached,     \* the agent hosts the job is a client of
    current,      \* current_frame_, counted from 1
    boxes,        \* pending_box_nodes_.size() and current_box_node_
    request,      \* pending_requests_: the request in flight, if any
    watchdog,     \* watchdog_ is running
    replies,      \* how often the callback of the command was run
    alive,        \* the frames whose FrameTreeNode still exists
    joined        \* those of them that are not a local root any more

page == <<alive, joined>>
vars == <<job, viewport, frames, attached, current, boxes, request, watchdog, replies, page>>

NoParent == 0
NoHost == 0
FrameId == 1 .. MaxFrames
NoRequest == [kind |-> "none", session |-> NoHost]
Frame == [parent : 0 .. MaxFrames, host : 0 .. MaxFrames, tree : 0 .. MaxFrames,
          owner : BOOLEAN, nodes : 0 .. MaxBoxes, asked : 0 .. MaxBoxes]
Untouched(p) == [parent |-> p, host |-> NoHost, tree |-> NoHost,
                 owner |-> FALSE, nodes |-> 0, asked |-> 0]

TypeOK ==
    /\ job \in {"new", "running", "done", "failed", "crashed"}
    /\ viewport \in BOOLEAN
    /\ frames \in Seq(Frame) /\ Len(frames) <= MaxFrames
    /\ attached \subseteq FrameId
    /\ current \in FrameId
    /\ boxes \in [total : 0 .. MaxBoxes, next : 0 .. MaxBoxes]
    /\ request \in [kind : {"none", "dims", "tree", "owner", "box"}, session : 0 .. MaxFrames]
    /\ watchdog \in BOOLEAN
    /\ replies \in Nat
    /\ alive \subseteq FrameId /\ joined \subseteq alive

Init ==
    /\ job = "new"
    /\ viewport \in BOOLEAN
    /\ frames = << >>
    /\ attached = {}
    /\ current = 1
    /\ boxes = [total |-> 0, next |-> 0]
    /\ request = NoRequest
    /\ watchdog = FALSE
    /\ replies = 0
    /\ alive = {}
    /\ joined = {}

-----------------------------------------------------------------------------
(* What CollectFrames can find: the parent of every frame, where the parent *)
(* of the next frame is the frame before it or one that encloses that one.  *)
Enclosing(up) ==
    LET above[f \in DOMAIN up] ==
          {f} \cup IF up[f] \in 1 .. f - 1 THEN above[up[f]] ELSE {}
    IN  above
Preorder(up) ==
    \A f \in DOMAIN up : IF f = 1 THEN up[f] = NoParent
                                  ELSE up[f] \in Enclosing(up)[f - 1] \cap (1 .. f - 1)
LocalRoots == {up \in UNION {[1 .. n -> 0 .. MaxFrames] : n \in 0 .. MaxFrames} : Preorder(up)}

Parents == [f \in DOMAIN frames |-> frames[f].parent]
Inside(f) == {g \in DOMAIN frames : f \in Enclosing(Parents)[g]}

(* Mutant: only the session of the frame at hand is given up. *)
DetachCurrent == attached \ {current}
(* DetachAll: every host once, though frames may share one. *)
DetachAll == attached \ {frames[f].host : f \in DOMAIN frames}

(* Finish and Fail: stop the watchdog, detach everywhere, run the callback, *)
(* delete the job.                                                          *)
End(fs, how) ==
    /\ frames' = fs
    /\ job' = how
    /\ watchdog' = FALSE
    /\ attached' = DetachAll
    /\ replies' = replies + 1
    /\ request' = NoRequest
    /\ UNCHANGED <<viewport, current, boxes>>
Fail == End(frames, "failed")

SendCommand(kind, session) == request' = [kind |-> kind, session |-> session]

(* GetOrCreateFor answers with the host of the nearest local root. *)
HostOf(fs, f) == IF f \in joined THEN fs[fs[f].parent].host ELSE f
FirstRequest == IF viewport THEN "dims" ELSE "tree"

(* ProcessNextFrame, about to take frame f, with the frames as fs.  The     *)
(* node of f was found by CollectFrames; nothing tells the job that it is   *)
(* gone, and asking for its agent host then reads freed memory.             *)
ProcessFrame(fs, f) ==
    \/ /\ f > Len(fs)
       /\ End(fs, "done")
    \/ /\ f \in DOMAIN fs \ alive
       /\ job' = "crashed"
       /\ UNCHANGED <<viewport, frames, attached, request, watchdog, replies, current, boxes>>
    \/ /\ f \in DOMAIN fs \cap alive
       /\ frames' = [fs EXCEPT ![f].host = HostOf(fs, f)]
       /\ attached' = attached \cup {HostOf(fs, f)}
       /\ SendCommand(FirstRequest, HostOf(fs, f))
       /\ current' = f
       /\ UNCHANGED <<job, viewport, watchdog, replies, boxes>>
    \/ f \in DOMAIN fs \cap alive /\ End(fs, "failed")     \* no agent host for the frame

(* Mutant: the last index is one beyond the queue. *)
NextBoxInclusive(fs, b) ==
    IF b.next <= b.total
      THEN /\ frames' = [fs EXCEPT ![current].asked = @ + 1]
           /\ SendCommand("box", fs[current].host)
           /\ boxes' = [b EXCEPT !.next = @ + 1]
           /\ UNCHANGED <<job, viewport, attached, current, watchdog, replies>>
      ELSE ProcessFrame(fs, current + 1)
(* SendNextBoxModelQuery and FinishFrame: the next box of the current       *)
(* frame, or the next frame.                                                *)
NextBox(fs, b) ==
    IF b.next < b.total
      THEN /\ frames' = [fs EXCEPT ![current].asked = @ + 1]
           /\ SendCommand("box", fs[current].host)
           /\ boxes' = [b EXCEPT !.next = @ + 1]
           /\ UNCHANGED <<job, viewport, attached, current, watchdog, replies>>
      ELSE ProcessFrame(fs, current + 1)

(* Mutant: current_box_node_ is not reset. *)
QueryBoxesOn(fs) ==
    NextBox(fs, [total |-> IF viewport THEN fs[current].nodes ELSE 0, next |-> boxes.next])
(* MaybeQueryBoxes. *)
QueryBoxes(fs) ==
    NextBox(fs, [total |-> IF viewport THEN fs[current].nodes ELSE 0, next |-> 0])

-----------------------------------------------------------------------------
(* Run starts the watchdog, collects the frames and takes the first.  The   *)
(* frames just collected are all there.                                     *)
Run ==
    /\ job = "new"
    /\ \E up \in LocalRoots :
         LET fs == [f \in DOMAIN up |-> Untouched(up[f])] IN
         /\ alive' = DOMAIN up
         /\ \/ /\ fs # << >>
               /\ job' = "running"
               /\ watchdog' = TRUE
               /\ frames' = [fs EXCEPT ![1].host = 1]
               /\ attached' = {1}
               /\ SendCommand(FirstRequest, 1)
               /\ UNCHANGED replies
            \/ /\ job' = "failed"     \* no frame, or no agent host for the first
               /\ frames' = fs
               /\ replies' = replies + 1
               /\ UNCHANGED <<attached, request, watchdog>>
    /\ UNCHANGED <<viewport, current, boxes, joined>>

(* DispatchProtocolMessage with the answer to the request in flight. *)
Answer(kind) ==
    /\ job = "running"
    /\ request.kind = kind
    /\ UNCHANGED page

OnError == (\E kind \in {"dims", "tree", "owner"} : Answer(kind)) /\ Fail

OnViewportDims ==
    /\ Answer("dims")
    /\ SendCommand("tree", frames[current].host)
    /\ UNCHANGED <<job, viewport, frames, attached, current, boxes, watchdog, replies>>

OnAXTree ==
    /\ Answer("tree")
    /\ \E n \in 0 .. MaxBoxes :
         LET fs == [frames EXCEPT ![current].tree = request.session,
                                  ![current].nodes = n]
         IN  \/ current = 1 /\ QueryBoxes(fs)
             \/ /\ current # 1
                /\ frames' = fs
                /\ SendCommand("owner", frames[frames[current].parent].host)
                /\ UNCHANGED <<job, viewport, attached, current, boxes, watchdog, replies>>

OnFrameOwner ==
    /\ Answer("owner")
    /\ QueryBoxes([frames EXCEPT ![current].owner = TRUE])

(* A box that could not be had is left out, and the job goes on. *)
OnBoxModel == Answer("box") /\ NextBox(frames, boxes)

(* Mutant: the watchdog looks after the requests that fail the job. *)
TimeoutUnlessBox ==
    /\ job = "running"
    /\ watchdog
    /\ request.kind # "box"
    /\ Fail
    /\ UNCHANGED page
Timeout ==
    /\ job = "running"
    /\ watchdog
    /\ Fail
    /\ UNCHANGED page

(* AgentHostClosed, when one of the hosts that close is attached. *)
HostsClose(hosts) ==
    IF job = "running" /\ hosts \cap attached # {} THEN Fail
    ELSE UNCHANGED <<job, viewport, frames, attached, current, boxes, request, watchdog, replies>>

(* Mutant: AgentHostClosed is not overridden. *)
RemoveFrameUnheard(f) ==
    /\ f \in alive
    /\ alive' = alive \ Inside(f)
    /\ joined' = joined \ Inside(f)
    /\ HostsClose({})
(* A frame goes with those inside it; the first takes the page along. *)
RemoveFrame(f) ==
    /\ f \in alive
    /\ alive' = alive \ Inside(f)
    /\ joined' = joined \ Inside(f)
    /\ HostsClose(Inside(f))

(* A subframe navigates into the process of its parent: its own frames go,  *)
(* and its agent host closes, as it has none any more.                      *)
JoinParent(f) ==
    /\ f \in alive \ (joined \cup {1})
    /\ alive' = alive \ (Inside(f) \ {f})
    /\ joined' = (joined \ Inside(f)) \cup {f}
    /\ HostsClose(Inside(f))

Next == \/ Run \/ OnError \/ OnViewportDims \/ OnAXTree \/ OnFrameOwner
        \/ OnBoxModel \/ Timeout
        \/ \E f \in FrameId : RemoveFrame(f) \/ JoinParent(f)

(* The timer fires; answers and the page owe the job nothing. *)
Spec == Init /\ [][Next]_vars /\ WF_vars(Timeout)
-----------------------------------------------------------------------------
Over == job \in {"done", "failed"}

(* The command is answered exactly once, when the job is over, and then no  *)
(* session of the job is left attached and no timer is left running:        *)
(* whichever of an answer, an error, a closed host and the watchdog came    *)
(* first.                                                                   *)
AnsweredOnce ==
    /\ replies = IF Over THEN 1 ELSE 0
    /\ Over => ~ watchdog /\ attached = {}

(* A snapshot that succeeds has a tree for every frame, got over the host   *)
(* the frame was attached to, the owner element of every frame but the top  *)
(* one, and with the viewport filter it has asked for every box.            *)
CompleteSnapshot ==
    job = "done" =>
      \A f \in DOMAIN frames :
        /\ frames[f].host # NoHost /\ frames[f].tree = frames[f].host
        /\ f > 1 => frames[f].owner
        /\ viewport => frames[f].asked = frames[f].nodes

(* A request in flight is on a session the job holds with a frame that is   *)
(* there: when frames vanish under it, parents included, the job ends       *)
(* before it could wait for the answer of a host that is gone.              *)
RequestOnHeldSession ==
    job = "running" =>
      /\ request.kind # "none"
      /\ request.session \in attached \cap alive

(* Every snapshot is answered, also when the page never does. *)
SnapshotAnswered == job = "running" ~> (Over \/ job = "crashed")

-----------------------------------------------------------------------------
(* snapshot_job.h says that the job attaches to the agent host of each      *)
(* local-root frame of the tab's frame tree; one that was removed since     *)
(* CollectFrames is used all the same, and one that has joined its parent's *)
(* process is read as a second copy of the parent.                          *)
OwnHostOfEachFrame ==
    /\ job # "crashed"
    /\ \A f \in DOMAIN frames : frames[f].host \in {NoHost, f}
=============================================================================
