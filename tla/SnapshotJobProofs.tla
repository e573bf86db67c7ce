------------------------- MODULE SnapshotJobProofs -------------------------
(***************************************************************************)
(* Safety of SnapshotJob for pages of any size: types, that the command is *)
(* answered once and everything let go of then, that what it answers is    *)
(* complete, and that it never waits for a host that is gone.              *)
(*                                                                         *)
(* All of it rests on where the job is in its frames: those before the     *)
(* current one are complete, the current one has what its request came     *)
(* after, those behind are untouched; the sessions of all frames so far    *)
(* are held, and every session held is with a frame that is there.         *)
(***************************************************************************)
EXTENDS SnapshotJob, SequenceTheorems, TLAPS

Complete(fs, f) ==
    /\ fs[f].host # NoHost /\ fs[f].tree = fs[f].host
    /\ f > 1 => fs[f].owner
    /\ viewport => fs[f].asked = fs[f].nodes

Total(fs) == IF viewport THEN fs[current].nodes ELSE 0

(* Parents come first. *)
Ordered == \A f \in DOMAIN frames : f > 1 => frames[f].parent \in 1 .. f - 1

Fresh == job = "new" => /\ alive = {} /\ attached = {}
                        /\ ~ watchdog /\ current = 1

Sessions ==
    /\ current \in DOMAIN frames
    /\ attached \subseteq alive
    /\ \A h \in attached : \E f \in DOMAIN frames : frames[f].host = h
    /\ \A f \in 1 .. current : frames[f].host \in attached

Progress ==
    /\ \A f \in 1 .. current - 1 : Complete(frames, f)
    /\ \A f \in DOMAIN frames : f > current => frames[f].asked = 0 /\ frames[f].host = NoHost
    /\ request.kind # "none"
    /\ request.kind # "box" => frames[current].asked = 0
    /\ request.kind = "owner" => /\ current > 1
                                 /\ request.session = frames[frames[current].parent].host
    /\ request.kind # "owner" => request.session = frames[current].host
    /\ request.kind \in {"owner", "box"} => frames[current].tree = frames[current].host
    /\ request.kind = "box" => /\ current > 1 => frames[current].owner
                               /\ boxes.total = Total(frames)
                               /\ boxes.next = frames[current].asked
                               /\ boxes.next <= boxes.total

Inv == /\ TypeOK /\ Ordered /\ Fresh /\ AnsweredOnce /\ CompleteSnapshot
       /\ job = "running" => Sessions /\ Progress

(* The frames with the current one brought up to date. *)
Updated(fs) ==
    /\ fs \in Seq(Frame) /\ Len(fs) = Len(frames)
    /\ \A f \in DOMAIN frames : /\ fs[f].parent = frames[f].parent
                                /\ fs[f].host = frames[f].host
                                /\ f # current => fs[f] = frames[f]

USE BoundsAssumption DEF NoHost, NoParent, FrameId

-----------------------------------------------------------------------------
(* A field of a frame is set. *)
LEMMA SetFrame ==
    ASSUME NEW fs \in Seq(Frame), NEW f \in DOMAIN fs, NEW e \in Frame
    PROVE  /\ [fs EXCEPT ![f] = e] \in Seq(Frame)
           /\ Len([fs EXCEPT ![f] = e]) = Len(fs)
           /\ DOMAIN [fs EXCEPT ![f] = e] = DOMAIN fs
           /\ \A g \in DOMAIN fs : [fs EXCEPT ![f] = e][g] = IF g = f THEN e ELSE fs[g]
<1>1. DOMAIN fs = 1 .. Len(fs)
  BY LenProperties
<1> QED BY <1>1, ExceptSeq

LEMMA DomainOf == ASSUME NEW fs \in Seq(Frame) PROVE DOMAIN fs = 1 .. Len(fs) /\ Len(fs) \in Nat
                                                     /\ \A f \in DOMAIN fs : fs[f] \in Frame
BY LenProperties, ElementOfSeq

LEMMA HostSet ==
    ASSUME NEW r \in Frame, NEW h \in 0 .. MaxFrames
    PROVE  LET e == [r EXCEPT !.host = h]
           IN  e \in Frame /\ e.host = h /\ e.asked = r.asked /\ e.parent = r.parent
BY DEF Frame

LEMMA AskedSet ==
    ASSUME NEW r \in Frame, r.asked + 1 \in 0 .. MaxBoxes
    PROVE  LET e == [r EXCEPT !.asked = @ + 1]
           IN  /\ e \in Frame /\ e.asked = r.asked + 1
               /\ e.host = r.host /\ e.parent = r.parent
               /\ e.tree = r.tree /\ e.owner = r.owner /\ e.nodes = r.nodes
BY DEF Frame

(* An end of the job: all sessions held are with its frames, so all go. *)
LEMMA Ended ==
    ASSUME Inv, job = "running", NEW fs, Updated(fs), NEW how \in {"done", "failed"},
           End(fs, how), alive' \subseteq FrameId, joined' \subseteq alive',
           how = "done" => \A f \in DOMAIN fs : Complete(fs, f)
    PROVE  Inv'
<1>1. attached' = {}
  BY DEF End, DetachAll, Inv, Sessions
<1>2. Len(fs) <= MaxFrames /\ fs \in Seq(Frame) /\ DOMAIN fs = DOMAIN frames
  BY DomainOf DEF Updated, Inv, TypeOK
<1>3. TypeOK'
  <2>1. /\ frames' = fs /\ job' = how /\ replies' = replies + 1 /\ request' = NoRequest
        /\ watchdog' = FALSE /\ UNCHANGED <<viewport, current, boxes>>
    BY DEF End
  <2>2. NoRequest \in [kind : {"none", "dims", "tree", "owner", "box"}, session : 0 .. MaxFrames]
    BY DEF NoRequest
  <2>3. job' \in {"new", "running", "done", "failed", "crashed"} /\ replies' \in Nat
    BY <2>1 DEF Inv, TypeOK
  <2> QED BY <1>1, <1>2, <2>1, <2>2, <2>3 DEF Inv, TypeOK
<1>4. Ordered'
  BY <1>2 DEF End, Updated, Inv, Ordered
<1>5. AnsweredOnce'
  BY <1>1 DEF End, Inv, AnsweredOnce, Over
<1>6. CompleteSnapshot'
  BY <1>2 DEF End, CompleteSnapshot, Complete
<1> QED BY <1>3, <1>4, <1>5, <1>6 DEF End, Inv, Fresh

(* From one frame to the next, or to the end. *)
LEMMA FrameStep ==
    ASSUME Inv, job = "running", NEW fs, Updated(fs), Complete(fs, current),
           ProcessFrame(fs, current + 1), UNCHANGED page
    PROVE  Inv'
<1> DEFINE f == current + 1
<1>1. /\ DOMAIN fs = DOMAIN frames /\ DOMAIN fs = 1 .. Len(fs) /\ Len(fs) \in Nat
      /\ current \in 1 .. Len(fs) /\ Len(fs) <= MaxFrames
      /\ \A g \in DOMAIN fs : fs[g] \in Frame
  BY DomainOf DEF Updated, Inv, TypeOK, Sessions
<1>2. \A g \in 1 .. current : Complete(fs, g)
  BY <1>1 DEF Updated, Complete, Inv, Progress
<1>0. alive' \subseteq FrameId /\ joined' \subseteq alive'
  BY DEF page, Inv, TypeOK
<1>3. CASE f > Len(fs) /\ End(fs, "done")
  <2>1. \A g \in DOMAIN fs : Complete(fs, g)
    BY <1>1, <1>2, <1>3
  <2> QED BY <1>3, <1>0, <2>1, Ended
<1>4. CASE f \in DOMAIN fs /\ End(fs, "failed")
  BY <1>4, <1>0, Ended
<1>5. CASE /\ job' = "crashed"
           /\ UNCHANGED <<viewport, frames, attached, request, watchdog, replies, current, boxes>>
  BY <1>5 DEF page, Inv, TypeOK, Ordered, Fresh, AnsweredOnce, Over, CompleteSnapshot
<1>6. CASE /\ f \in DOMAIN fs \cap alive
           /\ frames' = [fs EXCEPT ![f].host = HostOf(fs, f)]
           /\ attached' = attached \cup {HostOf(fs, f)}
           /\ SendCommand(FirstRequest, HostOf(fs, f))
           /\ current' = f
           /\ UNCHANGED <<job, viewport, watchdog, replies, boxes>>
  <2> DEFINE h == HostOf(fs, f)
             e == [fs[f] EXCEPT !.host = h]
  <2>1. fs[f].parent \in 1 .. current
    BY <1>1, <1>6 DEF Updated, Inv, Ordered
  <2>2. \A g \in 1 .. current : fs[g].host \in attached
    BY <1>1 DEF Updated, Inv, Sessions
  <2>3. h \in alive /\ h \in FrameId
    BY <1>1, <1>6, <2>1, <2>2 DEF HostOf, Inv, TypeOK, Sessions
  <2>4. e \in Frame /\ e.host = h /\ e.asked = fs[f].asked /\ e.parent = fs[f].parent
    BY <1>1, <1>6, <2>3, HostSet
  <2>5. frames' = [fs EXCEPT ![f] = e]
    BY <1>6
  <2>6. /\ frames' \in Seq(Frame) /\ Len(frames') = Len(fs) /\ DOMAIN frames' = DOMAIN fs
        /\ \A g \in DOMAIN fs : frames'[g] = IF g = f THEN e ELSE fs[g]
    BY <1>6, <2>4, <2>5, SetFrame DEF Updated
  <2>7. /\ request'.kind \in {"dims", "tree"} /\ request'.session = h
        /\ request' \in [kind : {"none", "dims", "tree", "owner", "box"}, session : 0 .. MaxFrames]
    BY <1>6, <2>3 DEF SendCommand, FirstRequest
  <2>8. TypeOK'
    BY <1>1, <1>6, <2>3, <2>6, <2>7 DEF page, Inv, TypeOK
  <2>9. Ordered'
    BY <1>1, <2>4, <2>6 DEF Updated, Inv, Ordered
  <2>10. Sessions'
    <3>1. \A x \in attached' : \E g \in DOMAIN frames' : frames'[g].host = x
      <4> SUFFICES ASSUME NEW x \in attached' PROVE \E g \in DOMAIN frames' : frames'[g].host = x
        OBVIOUS
      <4>1. CASE x = h
        BY <1>6, <2>4, <2>6, <4>1
      <4>2. CASE x \in attached /\ x # h
        <5>1. PICK g \in DOMAIN frames : frames[g].host = x
          BY <4>2 DEF Inv, Sessions
        <5>2. CASE g # f
          BY <1>1, <2>6, <5>1, <5>2 DEF Updated
        <5>3. CASE g = f
          BY <4>2, <5>1, <5>3 DEF Inv, TypeOK, Progress
        <5> QED BY <5>2, <5>3
      <4> QED BY <1>6, <4>1, <4>2
    <3> QED BY <1>1, <1>6, <2>2, <2>3, <2>4, <2>6, <3>1 DEF page, Inv, Sessions
  <2>11. Progress'
    <3>1. \A g \in 1 .. current : Complete(fs, g)'
      BY <1>2, <1>6 DEF Complete
    <3>2. \A g \in 1 .. current : frames'[g] = fs[g]
      BY <1>1, <2>6
    <3>3. \A g \in 1 .. current : Complete(frames, g)'
      BY <3>1, <3>2 DEF Complete
    <3>4. \A g \in DOMAIN frames : g > current => fs[g] = frames[g]
      BY <1>1 DEF Updated
    <3>5. \A g \in DOMAIN frames' : g > f => frames'[g].asked = 0 /\ frames'[g].host = NoHost
      BY <1>1, <2>6, <3>4 DEF Inv, Progress
    <3>6. frames'[f].asked = 0 /\ frames'[f].host = h
      BY <1>1, <1>6, <2>4, <2>6, <3>4 DEF Inv, Progress
    <3>7. current' = current + 1 /\ current' - 1 = current
      BY <1>1, <1>6
    <3> QED BY <2>7, <3>3, <3>5, <3>6, <3>7 DEF Progress, Complete
  <2>12. AnsweredOnce' /\ CompleteSnapshot' /\ Fresh'
    BY <1>6 DEF Inv, AnsweredOnce, Over, CompleteSnapshot, Fresh
  <2> QED BY <2>8, <2>9, <2>10, <2>11, <2>12 DEF Inv
<1> QED BY <1>3, <1>4, <1>5, <1>6 DEF ProcessFrame

(* The next box of the current frame, or the next frame. *)
LEMMA BoxStep ==
    ASSUME Inv, job = "running", NEW fs, Updated(fs), NEW b, NextBox(fs, b), UNCHANGED page,
           fs[current].tree = fs[current].host, current > 1 => fs[current].owner,
           b \in [total : 0 .. MaxBoxes, next : 0 .. MaxBoxes],
           b.total = Total(fs), b.next = fs[current].asked, b.next <= b.total
    PROVE  Inv'
<1>1. /\ DOMAIN fs = DOMAIN frames /\ DOMAIN fs = 1 .. Len(fs) /\ Len(fs) \in Nat
      /\ current \in DOMAIN fs /\ Len(fs) <= MaxFrames /\ fs \in Seq(Frame)
      /\ \A g \in DOMAIN fs : fs[g] \in Frame
  BY DomainOf DEF Updated, Inv, TypeOK, Sessions
<1>2. fs[current].host = frames[current].host /\ fs[current].host \in attached
  BY <1>1 DEF Updated, Inv, Sessions
<1>3. CASE ~ (b.next < b.total)
  <2>1. b.next = b.total
    BY <1>3
  <2>2. Complete(fs, current)
    BY <1>2, <2>1 DEF Complete, Total, Inv, TypeOK
  <2> QED BY <1>3, <2>2, FrameStep DEF NextBox
<1>4. CASE b.next < b.total
  <2> DEFINE e == [fs[current] EXCEPT !.asked = @ + 1]
  <2>1. /\ frames' = [fs EXCEPT ![current] = e]
        /\ SendCommand("box", fs[current].host)
        /\ boxes' = [b EXCEPT !.next = @ + 1]
        /\ UNCHANGED <<job, viewport, attached, current, watchdog, replies>>
    BY <1>4 DEF NextBox
  <2>2. /\ e \in Frame /\ e.asked = b.next + 1 /\ e.host = fs[current].host
        /\ e.parent = fs[current].parent /\ e.tree = fs[current].tree
        /\ e.owner = fs[current].owner /\ e.nodes = fs[current].nodes
    BY <1>1, <1>4, AskedSet
  <2>3. /\ frames' \in Seq(Frame) /\ Len(frames') = Len(fs) /\ DOMAIN frames' = DOMAIN fs
        /\ \A g \in DOMAIN fs : frames'[g] = IF g = current THEN e ELSE fs[g]
    BY <1>1, <2>1, <2>2, SetFrame
  <2>4. /\ boxes' \in [total : 0 .. MaxBoxes, next : 0 .. MaxBoxes]
        /\ boxes'.total = b.total /\ boxes'.next = b.next + 1
    BY <1>4, <2>1
  <2>5. /\ request'.kind = "box" /\ request'.session = fs[current].host
        /\ request' \in [kind : {"none", "dims", "tree", "owner", "box"}, session : 0 .. MaxFrames]
    BY <1>2, <2>1 DEF SendCommand, Inv, TypeOK
  <2>6. TypeOK'
    BY <1>1, <2>1, <2>3, <2>4, <2>5 DEF page, Inv, TypeOK
  <2>7. \A g \in DOMAIN frames : /\ frames'[g].parent = frames[g].parent
                                 /\ frames'[g].host = frames[g].host
                                 /\ g # current => frames'[g] = frames[g]
    BY <1>1, <2>2, <2>3, ZenonT(40) DEF Updated
  <2>8. Ordered' /\ Sessions'
    <3>1. Ordered'
      BY <1>1, <2>3, <2>7 DEF Inv, Ordered
    <3>2. \A h \in attached : \E g \in DOMAIN frames' : frames'[g].host = h
      BY <1>1, <2>3, <2>7 DEF Inv, Sessions
    <3>3. \A g \in 1 .. current : frames'[g].host \in attached
      BY <1>1, <2>7 DEF Inv, Sessions
    <3> QED BY <1>1, <2>1, <2>3, <3>1, <3>2, <3>3 DEF page, Inv, Sessions
  <2>9. Progress'
    <3>1. \A g \in 1 .. current - 1 : frames'[g] = frames[g]
      BY <1>1, <2>7
    <3>2. \A g \in 1 .. current - 1 : Complete(frames, g)'
      BY <2>1, <3>1 DEF Complete, Inv, Progress
    <3>3. \A g \in DOMAIN frames' : g > current => frames'[g].asked = 0 /\ frames'[g].host = NoHost
      BY <1>1, <2>3, <2>7, SMTT(30) DEF Inv, Progress, TypeOK
    <3>4. Total(frames)' = Total(fs)
      BY <1>1, <2>1, <2>2, <2>3 DEF Total
    <3>5. /\ frames'[current].asked = b.next + 1 /\ frames'[current].host = fs[current].host
          /\ frames'[current].tree = fs[current].tree /\ frames'[current].owner = fs[current].owner
      BY <1>1, <2>2, <2>3
    <3>6. b.next + 1 <= b.total
      BY <1>4
    <3>7. current' = current
      BY <2>1
    <3> QED BY <2>4, <2>5, <3>2, <3>3, <3>4, <3>5, <3>6, <3>7 DEF Progress, Complete
  <2>10. AnsweredOnce' /\ CompleteSnapshot' /\ Fresh'
    BY <2>1 DEF Inv, AnsweredOnce, Over, CompleteSnapshot, Fresh
  <2> QED BY <2>6, <2>8, <2>9, <2>10 DEF Inv
<1> QED BY <1>3, <1>4

-----------------------------------------------------------------------------
LEMMA InitInv == Init => Inv
<1> SUFFICES ASSUME Init PROVE Inv
  OBVIOUS
<1>1. frames = << >> /\ frames \in Seq(Frame) /\ Len(frames) = 0 /\ DOMAIN frames = {}
  BY EmptySeq, DomainOf DEF Init
<1>2. TypeOK
  <2>1. request \in [kind : {"none", "dims", "tree", "owner", "box"}, session : 0 .. MaxFrames]
    BY DEF Init, NoRequest
  <2>2. boxes \in [total : 0 .. MaxBoxes, next : 0 .. MaxBoxes] /\ current \in FrameId
    BY DEF Init
  <2>3. replies \in Nat /\ viewport \in BOOLEAN /\ watchdog \in BOOLEAN /\ job = "new"
    BY DEF Init
  <2>4. attached = {} /\ alive = {} /\ joined = {}
    BY DEF Init
  <2> QED BY <1>1, <2>1, <2>2, <2>3, <2>4 DEF TypeOK
<1>3. Ordered /\ Fresh /\ AnsweredOnce /\ CompleteSnapshot
  BY DEF Init, Ordered, Fresh, AnsweredOnce, Over, CompleteSnapshot
<1> QED BY <1>1, <1>2, <1>3 DEF Init, Inv

(* The frames that CollectFrames finds, the first of them attached to. *)
LEMMA RunStep == ASSUME Inv, Run PROVE Inv'
<1>1. job = "new" /\ UNCHANGED <<viewport, current, boxes, joined>>
  BY DEF Run
<1>2. alive = {} /\ attached = {} /\ ~ watchdog /\ current = 1 /\ joined = {} /\ replies = 0
  BY <1>1 DEF Inv, Fresh, AnsweredOnce, Over, TypeOK
<1>3. PICK up \in LocalRoots :
        LET fs == [f \in DOMAIN up |-> Untouched(up[f])] IN
        /\ alive' = DOMAIN up
        /\ \/ /\ fs # << >>
              /\ job' = "running"
              /\ watchdog' = TRUE
              /\ frames' = [fs EXCEPT ![1].host = 1]
              /\ attached' = {1}
              /\ SendCommand(FirstRequest, 1)
              /\ UNCHANGED replies
           \/ /\ job' = "failed"
              /\ frames' = fs
              /\ replies' = replies + 1
              /\ UNCHANGED <<attached, request, watchdog>>
  BY DEF Run
<1> DEFINE fs == [f \in DOMAIN up |-> Untouched(up[f])]
<1>4. PICK n \in 0 .. MaxFrames : up \in [1 .. n -> 0 .. MaxFrames]
  BY DEF LocalRoots
<1>5. \A f \in 1 .. n : f > 1 => up[f] \in 1 .. f - 1
  BY <1>4 DEF LocalRoots, Preorder
<1>6. /\ fs \in Seq(Frame) /\ Len(fs) = n /\ DOMAIN fs = 1 .. n
      /\ \A f \in 1 .. n : fs[f] = Untouched(up[f])
  <2>1. \A f \in 1 .. n : Untouched(up[f]) \in Frame
    BY <1>4 DEF Untouched, Frame
  <2>2. fs \in [1 .. n -> Frame]
    BY <1>4, <2>1
  <2>3. fs \in Seq(Frame)
    BY <1>4, <2>2, SeqDef
  <2> QED BY <1>4, <2>2, <2>3, DomainOf
<1> HIDE DEF fs
<1>7. CASE /\ job' = "failed"
           /\ frames' = fs
           /\ replies' = replies + 1
           /\ UNCHANGED <<attached, request, watchdog>>
  <2>1. alive' = 1 .. n
    BY <1>3, <1>4
  <2>2. TypeOK'
    BY <1>1, <1>2, <1>6, <1>7, <2>1 DEF Inv, TypeOK
  <2>3. Ordered'
    BY <1>5, <1>6, <1>7 DEF Ordered, Untouched
  <2> QED BY <1>2, <1>7, <2>2, <2>3 DEF Inv, Fresh, AnsweredOnce, Over, CompleteSnapshot
<1>8. CASE /\ fs # << >>
           /\ job' = "running"
           /\ watchdog' = TRUE
           /\ frames' = [fs EXCEPT ![1].host = 1]
           /\ attached' = {1}
           /\ SendCommand(FirstRequest, 1)
           /\ UNCHANGED replies
  <2> DEFINE e == [fs[1] EXCEPT !.host = 1]
  <2>1. alive' = 1 .. n /\ 1 \in 0 .. MaxFrames
    BY <1>3, <1>4
  <2>2. n >= 1
    BY <1>4, <1>6, <1>8, EmptySeq
  <2>3. fs[1] \in Frame /\ fs[1] = Untouched(up[1])
    BY <1>6, <2>2, DomainOf
  <2>4. e \in Frame /\ e.host = 1 /\ e.asked = 0
    <3>1. e \in Frame /\ e.host = 1 /\ e.asked = fs[1].asked
      BY <2>1, <2>3, HostSet
    <3> QED BY <2>3, <3>1 DEF Untouched
  <2>5. /\ frames' \in Seq(Frame) /\ Len(frames') = n /\ DOMAIN frames' = 1 .. n
        /\ \A f \in 1 .. n : frames'[f] = IF f = 1 THEN e ELSE fs[f]
        /\ frames'[1] = e /\ 1 \in DOMAIN frames'
    BY <1>6, <1>8, <2>2, <2>4, SetFrame
  <2>6. /\ request'.kind \in {"dims", "tree"} /\ request'.session = 1
        /\ request' \in [kind : {"none", "dims", "tree", "owner", "box"}, session : 0 .. MaxFrames]
    BY <1>8 DEF SendCommand, FirstRequest
  <2>7. TypeOK'
    BY <1>1, <1>2, <1>8, <2>1, <2>2, <2>5, <2>6 DEF Inv, TypeOK
  <2>8. Ordered'
    BY <1>5, <1>6, <2>5 DEF Ordered, Untouched
  <2>9. Sessions'
    <3>1. current' = 1 /\ attached' = {1} /\ frames'[1].host = 1
      BY <1>1, <1>2, <1>8, <2>4, <2>5
    <3>2. attached' \subseteq alive'
      BY <2>1, <2>2, <3>1
    <3>3. \A h \in attached' : \E f \in DOMAIN frames' : frames'[f].host = h
      BY <2>5, <3>1
    <3>4. \A f \in 1 .. current' : frames'[f].host \in attached'
      BY <3>1
    <3> QED BY <2>5, <3>1, <3>2, <3>3, <3>4 DEF Sessions
  <2>10. Progress'
    <3>1. current' = 1 /\ frames'[1].host = 1 /\ frames'[1].asked = 0
      BY <1>1, <1>2, <2>2, <2>4, <2>5
    <3>2. \A f \in DOMAIN frames' : f > 1 => frames'[f].asked = 0 /\ frames'[f].host = NoHost
      BY <1>6, <2>5 DEF Untouched
    <3> QED BY <2>6, <3>1, <3>2 DEF Progress
  <2> QED BY <1>2, <1>8, <2>7, <2>8, <2>9, <2>10 DEF Inv, Fresh, AnsweredOnce, Over, CompleteSnapshot
<1> QED BY <1>3, <1>7, <1>8 DEF fs

(* An error, the watchdog, or a host that closes. *)
LEMMA FailStep ==
    ASSUME Inv, job = "running", Fail, alive' \subseteq alive, joined' \subseteq alive'
    PROVE  Inv'
<1>1. Updated(frames)
  BY DEF Updated, Inv, TypeOK
<1> QED BY <1>1, Ended DEF Fail, Inv, TypeOK

(* Frames go: either none of the hosts that close is attached, or the job   *)
(* is over.                                                                 *)
LEMMA PageStep ==
    ASSUME Inv, NEW f \in FrameId, RemoveFrame(f) \/ JoinParent(f) PROVE Inv'
<1>1. /\ alive' \subseteq alive /\ joined' \subseteq alive'
      /\ \A h \in alive : h \in alive' \/ h \in Inside(f)
      /\ HostsClose(Inside(f))
  BY DEF RemoveFrame, JoinParent, Inv, TypeOK
<1>2. CASE job = "running" /\ Inside(f) \cap attached # {}
  BY <1>1, <1>2, FailStep DEF HostsClose
<1>3. CASE ~ (job = "running" /\ Inside(f) \cap attached # {})
  <2>1. UNCHANGED <<job, viewport, frames, attached, current, boxes, request, watchdog, replies>>
    BY <1>1, <1>3 DEF HostsClose
  <2>2. TypeOK'
    BY <1>1, <2>1 DEF Inv, TypeOK
  <2>3. job = "running" => attached \subseteq alive'
    BY <1>1, <1>3 DEF Inv, Sessions
  <2>4. job' = "running" => Sessions' /\ Progress'
    BY <2>1, <2>3 DEF Inv, Sessions, Progress, Complete, Total
  <2>5. Ordered' /\ Fresh' /\ AnsweredOnce' /\ CompleteSnapshot'
    BY <1>1, <2>1 DEF Inv, Ordered, Fresh, AnsweredOnce, Over, CompleteSnapshot
  <2> QED BY <2>2, <2>4, <2>5 DEF Inv
<1> QED BY <1>2, <1>3

(* What an answer brings is written to the current frame. *)
LEMMA UpdateFrame ==
    ASSUME Inv, job = "running", NEW e \in Frame,
           e.parent = frames[current].parent, e.host = frames[current].host
    PROVE  /\ Updated([frames EXCEPT ![current] = e])
           /\ [frames EXCEPT ![current] = e][current] = e
<1>1. frames \in Seq(Frame) /\ current \in DOMAIN frames
  BY DEF Inv, TypeOK, Sessions
<1> QED BY <1>1, SetFrame DEF Updated

LEMMA DimsStep == ASSUME Inv, OnViewportDims PROVE Inv'
<1>1. /\ job = "running" /\ request.kind = "dims" /\ UNCHANGED page
      /\ request' = [kind |-> "tree", session |-> frames[current].host]
      /\ UNCHANGED <<job, viewport, frames, attached, current, boxes, watchdog, replies>>
  BY DEF OnViewportDims, Answer, SendCommand
<1>2. frames[current].host \in 0 .. MaxFrames
  BY <1>1, DomainOf DEF Inv, TypeOK, Sessions, Frame
<1>3. TypeOK'
  BY <1>1, <1>2 DEF page, Inv, TypeOK
<1>4. Sessions' /\ Progress'
  BY <1>1 DEF page, Inv, Sessions, Progress, Complete
<1> QED BY <1>1, <1>3, <1>4 DEF Inv, Ordered, Fresh, AnsweredOnce, Over, CompleteSnapshot

LEMMA TreeStep == ASSUME Inv, OnAXTree PROVE Inv'
<1>1. job = "running" /\ request.kind = "tree" /\ UNCHANGED page
  BY DEF OnAXTree, Answer
<1>2. PICK n \in 0 .. MaxBoxes :
        LET fs == [frames EXCEPT ![current].tree = request.session,
                                 ![current].nodes = n]
        IN  \/ current = 1 /\ QueryBoxes(fs)
            \/ /\ current # 1
               /\ frames' = fs
               /\ SendCommand("owner", frames[frames[current].parent].host)
               /\ UNCHANGED <<job, viewport, attached, current, boxes, watchdog, replies>>
  BY DEF OnAXTree
<1> DEFINE e == [frames[current] EXCEPT !.tree = request.session, !.nodes = n]
           fs == [frames EXCEPT ![current] = e]
<1>3. /\ DOMAIN frames = 1 .. Len(frames) /\ Len(frames) \in Nat
      /\ current \in DOMAIN frames /\ frames \in Seq(Frame) /\ frames[current] \in Frame
      /\ request.session = frames[current].host /\ frames[current].asked = 0
  BY <1>1, DomainOf DEF Inv, TypeOK, Sessions, Progress
<1>4. /\ e \in Frame /\ e.parent = frames[current].parent /\ e.host = frames[current].host
      /\ e.tree = frames[current].host /\ e.nodes = n /\ e.asked = 0
  BY <1>3 DEF Frame
<1>5. [frames EXCEPT ![current].tree = request.session, ![current].nodes = n] = fs
  BY <1>3
<1>6. Updated(fs) /\ fs[current] = e
  BY <1>1, <1>4, UpdateFrame
<1> HIDE DEF fs, e
<1>7. CASE current = 1 /\ QueryBoxes(fs)
  <2> DEFINE b == [total |-> IF viewport THEN fs[current].nodes ELSE 0, next |-> 0]
  <2>1. /\ NextBox(fs, b) /\ b.total = Total(fs) /\ b.next = 0
        /\ b \in [total : 0 .. MaxBoxes, next : 0 .. MaxBoxes]
    BY <1>4, <1>6, <1>7 DEF QueryBoxes, Total
  <2>2. b.next = fs[current].asked /\ b.next <= b.total
    BY <1>4, <1>6, <2>1 DEF Total
  <2> HIDE DEF b
  <2> QED BY <1>1, <1>4, <1>6, <1>7, <2>1, <2>2, BoxStep
<1>8. CASE /\ current # 1
           /\ frames' = fs
           /\ SendCommand("owner", frames[frames[current].parent].host)
           /\ UNCHANGED <<job, viewport, attached, current, boxes, watchdog, replies>>
  <2> DEFINE p == frames[current].parent
  <2>1. p \in 1 .. current - 1 /\ current > 1
    BY <1>3, <1>8 DEF Inv, Ordered
  <2>2. frames[p].host \in 0 .. MaxFrames
    <3>1. frames[p] \in Frame
      BY <1>3, <2>1, DomainOf
    <3> QED BY <3>1 DEF Frame
  <2>3. /\ request' \in [kind : {"none", "dims", "tree", "owner", "box"}, session : 0 .. MaxFrames]
        /\ request'.kind = "owner" /\ request'.session = frames[p].host
    BY <1>8, <2>2 DEF SendCommand
  <2>4. /\ DOMAIN frames' = DOMAIN frames /\ frames' \in Seq(Frame) /\ Len(frames') = Len(frames)
        /\ \A f \in DOMAIN frames : /\ frames'[f].parent = frames[f].parent
                                    /\ frames'[f].host = frames[f].host
                                    /\ f # current => frames'[f] = frames[f]
    BY <1>3, <1>6, <1>8, DomainOf DEF Updated
  <2>5. TypeOK'
    BY <1>1, <1>8, <2>3, <2>4 DEF page, Inv, TypeOK
  <2>6. Ordered'
    BY <1>3, <2>4 DEF Inv, Ordered
  <2>7. Sessions'
    <3>1. \A h \in attached : \E g \in DOMAIN frames' : frames'[g].host = h
      BY <1>1, <2>4 DEF Inv, Sessions
    <3>2. \A g \in 1 .. current : frames'[g].host \in attached
      BY <1>1, <1>3, <2>4 DEF Inv, Sessions
    <3> QED BY <1>1, <1>3, <1>8, <2>4, <3>1, <3>2 DEF page, Inv, Sessions
  <2>8. Progress'
    <3>1. \A g \in 1 .. current - 1 : frames'[g] = frames[g]
      BY <1>3, <2>4
    <3>2. \A g \in 1 .. current - 1 : Complete(frames, g)'
      BY <1>1, <1>8, <3>1 DEF Complete, Inv, Progress
    <3>3. \A g \in DOMAIN frames' : g > current => frames'[g].asked = 0 /\ frames'[g].host = NoHost
      BY <1>1, <1>3, <2>4 DEF Inv, Progress
    <3>4. frames'[current] = e /\ frames'[frames'[current].parent].host = frames[p].host
      BY <1>3, <1>4, <1>6, <1>8, <2>1, <2>4
    <3>5. current' = current
      BY <1>8
    <3> QED BY <1>4, <2>1, <2>3, <3>2, <3>3, <3>4, <3>5 DEF Progress, Complete
  <2>9. Fresh' /\ AnsweredOnce' /\ CompleteSnapshot'
    BY <1>1, <1>8 DEF Inv, Fresh, AnsweredOnce, Over, CompleteSnapshot
  <2> QED BY <2>5, <2>6, <2>7, <2>8, <2>9 DEF Inv
<1> QED BY <1>2, <1>5, <1>7, <1>8

LEMMA OwnerStep == ASSUME Inv, OnFrameOwner PROVE Inv'
<1> DEFINE e == [frames[current] EXCEPT !.owner = TRUE]
           fs == [frames EXCEPT ![current] = e]
           b == [total |-> IF viewport THEN fs[current].nodes ELSE 0, next |-> 0]
<1>1. job = "running" /\ request.kind = "owner" /\ UNCHANGED page /\ NextBox(fs, b)
  BY DEF OnFrameOwner, Answer, QueryBoxes
<1>2. /\ current \in DOMAIN frames /\ frames \in Seq(Frame) /\ frames[current] \in Frame
      /\ frames[current].tree = frames[current].host /\ frames[current].asked = 0
  BY <1>1, DomainOf DEF Inv, TypeOK, Sessions, Progress
<1>3. /\ e \in Frame /\ e.parent = frames[current].parent /\ e.host = frames[current].host
      /\ e.tree = frames[current].host /\ e.owner /\ e.nodes \in 0 .. MaxBoxes /\ e.asked = 0
  BY <1>2 DEF Frame
<1>4. Updated(fs) /\ fs[current] = e
  BY <1>1, <1>3, UpdateFrame
<1> HIDE DEF fs, e
<1>5. /\ b.total = Total(fs) /\ b.next = 0
      /\ b \in [total : 0 .. MaxBoxes, next : 0 .. MaxBoxes]
  BY <1>3, <1>4 DEF Total
<1>6. b.next = fs[current].asked /\ b.next <= b.total
  BY <1>3, <1>4, <1>5 DEF Total
<1> HIDE DEF b
<1> QED BY <1>1, <1>3, <1>4, <1>5, <1>6, BoxStep

LEMMA BoxModelStep == ASSUME Inv, OnBoxModel PROVE Inv'
<1>1. job = "running" /\ request.kind = "box" /\ UNCHANGED page /\ NextBox(frames, boxes)
  BY DEF OnBoxModel, Answer
<1>2. Updated(frames)
  BY DEF Updated, Inv, TypeOK
<1>3. /\ frames[current].tree = frames[current].host
      /\ current > 1 => frames[current].owner
      /\ boxes.total = Total(frames) /\ boxes.next = frames[current].asked
      /\ boxes.next <= boxes.total /\ boxes \in [total : 0 .. MaxBoxes, next : 0 .. MaxBoxes]
  BY <1>1 DEF Inv, TypeOK, Progress
<1> QED BY <1>1, <1>2, <1>3, BoxStep

LEMMA NextInv == Inv /\ [Next]_vars => Inv'
<1> SUFFICES ASSUME Inv, [Next]_vars PROVE Inv'
  OBVIOUS
<1>1. CASE Run
  BY <1>1, RunStep
<1>2. CASE OnError \/ Timeout
  <2>1. job = "running" /\ Fail /\ alive' = alive /\ joined' = joined
    BY <1>2 DEF OnError, Timeout, Answer, page
  <2> QED BY <2>1, FailStep DEF Inv, TypeOK
<1>3. CASE OnViewportDims
  BY <1>3, DimsStep
<1>4. CASE OnAXTree
  BY <1>4, TreeStep
<1>5. CASE OnFrameOwner
  BY <1>5, OwnerStep
<1>6. CASE OnBoxModel
  BY <1>6, BoxModelStep
<1>7. ASSUME NEW f \in FrameId, RemoveFrame(f) \/ JoinParent(f) PROVE Inv'
  BY <1>7, PageStep
<1>8. CASE UNCHANGED vars
  BY <1>8 DEF vars, page, Inv, TypeOK, Ordered, Fresh, AnsweredOnce, Over, CompleteSnapshot,
              Sessions, Progress, Complete, Total
<1> QED BY <1>1, <1>2, <1>3, <1>4, <1>5, <1>6, <1>7, <1>8 DEF Next

LEMMA SpecInv == Spec => []Inv
BY InitInv, NextInv, PTL DEF Spec

-----------------------------------------------------------------------------
(* The members of a job keep their types, for any number of frames and of   *)
(* nodes: no index runs beyond the queue of boxes or of frames.             *)
THEOREM TypeCorrect == Spec => []TypeOK
<1>1. Inv => TypeOK
  BY DEF Inv
<1> QED BY <1>1, SpecInv, PTL

(* The command is answered once, when the job is over, and everything is    *)
(* let go of then.                                                          *)
THEOREM Answered == Spec => []AnsweredOnce
<1>1. Inv => AnsweredOnce
  BY DEF Inv
<1> QED BY <1>1, SpecInv, PTL

(* What is answered as a success is complete.                               *)
THEOREM SnapshotComplete == Spec => []CompleteSnapshot
<1>1. Inv => CompleteSnapshot
  BY DEF Inv
<1> QED BY <1>1, SpecInv, PTL

(* The job never waits for an answer on a session it has lost.              *)
THEOREM WaitsOnHeldSession == Spec => []RequestOnHeldSession
<1>1. Inv => RequestOnHeldSession
  <2> SUFFICES ASSUME Inv, job = "running" PROVE request.kind # "none" /\ request.session \in attached \cap alive
    BY DEF RequestOnHeldSession
  <2>1. current \in 1 .. Len(frames) /\ Len(frames) \in Nat
    BY DomainOf DEF Inv, TypeOK, Sessions
  <2>2. request.kind = "owner" => frames[current].parent \in 1 .. current - 1
    BY <2>1 DEF Inv, Ordered, Sessions, Progress
  <2> QED BY <2>1, <2>2 DEF Inv, Sessions, Progress
<1> QED BY <1>1, SpecInv, PTL
=============================================================================
