----------------------------- MODULE HostDaemon -----------------------------
(***************************************************************************)
(* The prism-host daemon: many command line clients over the one DevTools  *)
(* pipe of a stock browser, with task spaces simulated as browser contexts.*)
(*                                                                         *)
(* A handler is atomic up to its `await`.  What it sent is a call; the     *)
(* browser answers calls in any order, but its messages arrive in order.   *)
(* The daemon reads a chunk of them in one go, and only then, before any   *)
(* other event, the handlers go on whose calls the chunk has settled.      *)
(*                                                                         *)
(* host.reset replaces the registry at once and the browser later, so that *)
(* there are generations of both: `gen` counts registries, `cdp` browsers. *)
(* Ids of spaces start anew with each registry.                            *)
(*                                                                         *)
(* A connection that is dropped calls no more; its handlers go on.         *)
(*                                                                         *)
(* Left out: attached sessions and the routing of events, listTabs,        *)
(* snapshot and other passthrough, which change nothing that is kept here. *)
(***************************************************************************)
EXTENDS Integers, SequencesExt, FiniteSets

CONSTANTS
    Clients,      \* connections; one that was dropped calls no more
    Targets,      \* ids of page targets, never reused
    MaxSpaces,    \* how many spaces a registry ever creates
    MaxResets,    \* how often the browser is reset
    MaxCalls,     \* how many calls are in flight at once
    MaxUnread     \* with so many messages unread, a browser does nothing

ASSUME BoundsAssumption ==
    /\ {MaxSpaces, MaxResets, MaxCalls, MaxUnread} \subseteq Nat
    /\ IsFiniteSet(Targets)

VARIABLES
    selected,     \* selectedSpaceId of each client; NoSpace is null
    gen,          \* which registry is in place
    born,         \* born[g]: #nextId of registry g
    spaces,       \* #spaces of the registry in place
    known,        \* the keys of #targets
    cdp,          \* the browser #cdp is connected to
    launching,    \* a reset waits to launch the next browser
    browser,      \* browser[g]: the life of browser g
    inbox,        \* inbox[g]: its messages that the daemon has not read
    closed,       \* the browsers whose CdpConnection is closed
    chunk,        \* the browser whose chunk is being read, if any
    calls,        \* the calls in flight, with what their handlers hold
    contexts,     \* contexts[g]: the contexts that exist in browser g
    page          \* the context each target was created in, and whether it lives

registry == <<gen, born, spaces>>
browsers == <<browser, inbox, contexts, page>>
vars == <<selected, registry, known, cdp, launching, browsers,
          closed, chunk, calls>>

NoSpace == 0
SpaceId == 1 .. MaxSpaces
Gen == 0 .. MaxResets
Slot == 1 .. MaxCalls

(* A context is named by the space it was asked for. *)
NoContext == <<0, NoSpace>>
Context == Gen \X SpaceId
NoTarget == "none"
Unborn == [context |-> NoContext, alive |-> FALSE]

Space == [ownership : {"absent", "agent", "agentDelegatedToUser"},
          context : {NoContext} \cup Context, current : {NoTarget} \cup Targets]
Absent == [ownership |-> "absent", context |-> NoContext, current |-> NoTarget]
NewSpace == [Absent EXCEPT !.ownership = "agent"]

Call == [kind : {"context", "dispose", "tab", "closeTab"},
         state : {"sent", "replied", "done", "failed", "stale"},
         client : Clients, space : {NoSpace} \cup SpaceId, via : Gen, fresh : BOOLEAN,
         context : {NoContext} \cup Context, target : {NoTarget} \cup Targets]
NoCall == [kind |-> "none"]

Message == [type : {"done", "failed", "stale"}, call : Slot]
             \cup [type : {"targetCreated", "targetDestroyed"}, target : Targets]

TypeOK ==
    /\ selected \in [Clients -> {NoSpace} \cup SpaceId]
    /\ gen \in Gen /\ cdp \in Gen /\ cdp <= gen
    /\ born \in [Gen -> 1 .. MaxSpaces + 1]
    /\ spaces \in [SpaceId -> Space]
    /\ \A s \in SpaceId : spaces[s].ownership = "absent" => spaces[s] = Absent
    /\ known \subseteq Targets
    /\ launching \in BOOLEAN
    /\ browser \in [Gen -> {"none", "up", "dying", "gone"}]
    /\ inbox \in [Gen -> Seq(Message)]
    /\ closed \subseteq Gen
    /\ chunk \in {-1} \cup Gen
    /\ calls \in [Slot -> {NoCall} \cup Call]
    /\ contexts \in [Gen -> SUBSET Context]
    /\ page \in [Targets -> [context : {NoContext} \cup Context, alive : BOOLEAN]]

Init ==
    /\ selected = [c \in Clients |-> NoSpace]
    /\ gen = 0
    /\ born = [g \in Gen |-> 1]
    /\ spaces = [s \in SpaceId |-> Absent]
    /\ known = {}
    /\ cdp = 0
    /\ launching = FALSE
    /\ browser = [g \in Gen |-> IF g = 0 THEN "up" ELSE "none"]
    /\ inbox = [g \in Gen |-> << >>]
    /\ closed = {}
    /\ chunk = -1
    /\ calls = [i \in Slot |-> NoCall]
    /\ contexts = [g \in Gen |-> {}]
    /\ page = [t \in Targets |-> Unborn]

-----------------------------------------------------------------------------
Exists(s) == s \in SpaceId /\ spaces[s].ownership # "absent"
Existing == {s \in SpaceId : Exists(s)}
Pages(ctx) == {t \in Targets : page[t].alive /\ page[t].context = ctx}
Settled(i) == calls[i] # NoCall /\ calls[i].state \in {"done", "failed", "stale"}

(* Between two events: no chunk is being read, and no handler can go on. *)
Idle == chunk = -1 /\ \A i \in Slot : ~ Settled(i)
Free == {i \in Slot : calls[i] = NoCall}

(* CdpConnection.send: a write to the pipe of a browser that is gone does   *)
(* not fail, and with the connection closed nobody rejects the call either: *)
(* it waits forever.                                                        *)
Sent(rec) == [rec EXCEPT !.via = cdp, !.state = "sent"]
Send(rec) ==
    /\ Free # {}
    /\ LET i == CHOOSE i \in Free : \A j \in Free : i <= j
       IN  calls' = [calls EXCEPT ![i] = Sent(rec)]
Asking(kind, c, s) ==
    [kind |-> kind, state |-> "sent", client |-> c, space |-> s, via |-> cdp,
     fresh |-> FALSE, context |-> NoContext, target |-> NoTarget]
EndCall(i) == calls' = [calls EXCEPT ![i] = NoCall]

-----------------------------------------------------------------------------
(* The calls of clients. *)

RequireSelected(c) == Idle /\ Exists(selected[c])

(* Mutant: the next id is one more than there are spaces. *)
NextIdByCount == Cardinality(Existing) + 1
NextId == born[gen]
CreateTaskSpace(c) ==
    /\ Idle
    /\ NextId \in SpaceId
    /\ born' = [born EXCEPT ![gen] = @ + 1]
    /\ spaces' = [spaces EXCEPT ![NextId] = NewSpace]
    /\ Send([Asking("context", c, NextId) EXCEPT !.context = <<gen, NextId>>])
    /\ UNCHANGED <<selected, gen, known, cdp, launching, browsers, closed, chunk>>

UseTaskSpace(c, s) ==
    /\ Idle
    /\ Exists(s)
    /\ selected' = [selected EXCEPT ![c] = s]
    /\ UNCHANGED <<registry, known, cdp, launching, browsers, closed, chunk, calls>>

ClaimTaskSpace(c, s) ==
    /\ Idle
    /\ Exists(s)
    /\ spaces' = [spaces EXCEPT ![s].ownership = "agent"]
    /\ selected' = [selected EXCEPT ![c] = s]
    /\ UNCHANGED <<gen, born, known, cdp, launching, browsers, closed, chunk, calls>>

ChangeOwnership(c, from, to) ==
    /\ RequireSelected(c)
    /\ spaces[selected[c]].ownership = from
    /\ spaces' = [spaces EXCEPT ![selected[c]].ownership = to]
    /\ UNCHANGED <<selected, gen, born, known, cdp, launching, browsers, closed, chunk, calls>>
HandOffTaskSpace(c) == ChangeOwnership(c, "agent", "agentDelegatedToUser")
TakeOverTaskSpace(c) == ChangeOwnership(c, "agentDelegatedToUser", "agent")

(* registry.remove and the cleared selection, at once for a space that has  *)
(* no context yet, else when the context is disposed of.                    *)
RemoveSpace(c, s) ==
    /\ spaces' = IF Exists(s) THEN [spaces EXCEPT ![s] = Absent] ELSE spaces
    /\ selected' = [selected EXCEPT ![c] = NoSpace]
CloseTaskSpace(c) ==
    /\ RequireSelected(c)
    /\ LET s == selected[c] IN
         \/ /\ spaces[s].context = NoContext
            /\ RemoveSpace(c, s)
            /\ UNCHANGED calls
         \/ /\ spaces[s].context # NoContext
            /\ Send([Asking("dispose", c, s) EXCEPT !.context = spaces[s].context])
            /\ UNCHANGED <<spaces, selected>>
    /\ UNCHANGED <<gen, born, known, cdp, launching, browsers, closed, chunk>>

(* The bound on target ids: one is left for this tab. *)
IdsLeft ==
    Cardinality({t \in Targets : page[t] = Unborn})
      > Cardinality({i \in Slot : calls[i] # NoCall /\ calls[i].kind = "tab"
                                   /\ calls[i].target = NoTarget})

(* #createTabInSpace, for the binding and for Target.createTarget: the first *)
(* tab of a context opens its window, as far as the cache of targets tells.  *)
CreateTab(c) ==
    /\ RequireSelected(c)
    /\ spaces[selected[c]].context # NoContext
    /\ IdsLeft
    /\ LET ctx == spaces[selected[c]].context
           hasWindow == \E t \in known : page[t].context = ctx
       IN  Send([Asking("tab", c, selected[c]) EXCEPT !.context = ctx, !.fresh = ~ hasWindow])
    /\ UNCHANGED <<selected, registry, known, cdp, launching, browsers, closed, chunk>>

(* A raw Target.closeTarget, which stands for all that is passed through. *)
CloseTab(c, t) ==
    /\ RequireSelected(c)
    /\ spaces[selected[c]].ownership = "agent"
    /\ t \in known
    /\ Send([Asking("closeTab", c, NoSpace) EXCEPT !.target = t])
    /\ UNCHANGED <<selected, registry, known, cdp, launching, browsers, closed, chunk>>

(* Mutant: the clients keep what they selected. *)
DeselectedNone == selected
Deselected == [c \in Clients |-> NoSpace]
(* host.reset: the registry and all selections go at once, the browser is   *)
(* asked to go, and the next one starts 300 ms later.  Bound: a reset that  *)
(* overlaps another is left out.                                            *)
Reset ==
    /\ Idle
    /\ gen < MaxResets
    /\ ~ launching
    /\ gen' = gen + 1
    /\ spaces' = [s \in SpaceId |-> Absent]
    /\ selected' = Deselected
    /\ known' = {}
    /\ browser' = [browser EXCEPT ![cdp] = IF @ = "up" THEN "dying" ELSE @]
    /\ launching' = TRUE
    /\ UNCHANGED <<born, cdp, inbox, contexts, page, closed, chunk, calls>>

LaunchBrowser ==
    /\ Idle
    /\ launching
    /\ launching' = FALSE
    /\ cdp' = gen
    /\ browser' = [browser EXCEPT ![gen] = "up"]
    /\ UNCHANGED <<selected, registry, known, inbox, contexts, page, closed, chunk, calls>>

-----------------------------------------------------------------------------
(* The pipe. *)

InState(i, state) == [calls EXCEPT ![i].state = state]

(* CdpConnection's #onMessage settles a call; #onCdpEvent keeps the cache.  *)
(* The chunk may go on or end with this message.                            *)
ReadMessage(g) ==
    /\ Idle \/ chunk = g
    /\ inbox[g] # << >>
    /\ LET m == Head(inbox[g]) IN
         \/ /\ m.type \in {"done", "failed", "stale"}
            /\ calls' = InState(m.call, m.type)
            /\ UNCHANGED <<known, spaces>>
         \/ /\ m.type = "targetCreated"
            /\ known' = known \cup {m.target}
            /\ UNCHANGED <<calls, spaces>>
         \/ /\ m.type = "targetDestroyed"
            /\ known' = known \ {m.target}
            /\ spaces' = [s \in SpaceId |->
                            IF spaces[s].current = m.target
                              THEN [spaces[s] EXCEPT !.current = NoTarget] ELSE spaces[s]]
            /\ UNCHANGED calls
    /\ inbox' = [inbox EXCEPT ![g] = Tail(@)]
    /\ chunk' \in IF Len(inbox[g]) = 1 THEN {-1} ELSE {-1, g}
    /\ UNCHANGED <<selected, gen, born, cdp, launching, browser, contexts, page, closed>>

(* Mutant: the pending calls are forgotten and not rejected. *)
FailAllForgets(g) == calls
FailAll(g) ==
    [i \in Slot |-> IF calls[i] # NoCall /\ calls[i].via = g /\ calls[i].state \in {"sent", "replied"}
                      THEN [calls[i] EXCEPT !.state = "failed"] ELSE calls[i]]
PipeClosed(g) ==
    /\ Idle
    /\ browser[g] = "gone"
    /\ g \notin closed
    /\ inbox[g] = << >>
    /\ closed' = closed \cup {g}
    /\ calls' = FailAll(g)
    /\ UNCHANGED <<selected, registry, known, cdp, launching, browsers, chunk>>

-----------------------------------------------------------------------------
(* The handlers go on. *)

GoesOn(i, kind) == chunk = -1 /\ Settled(i) /\ calls[i].kind = kind

(* Mutant: the context goes to the space that was created last. *)
SetBrowserContextOfLast(s, ctx) ==
    IF Exists(NextId - 1) THEN [spaces EXCEPT ![NextId - 1].context = ctx] ELSE spaces
(* setBrowserContext and setCurrentTarget look the id up again. *)
SetBrowserContext(s, ctx) ==
    IF Exists(s) THEN [spaces EXCEPT ![s].context = ctx] ELSE spaces
(* Mutant: the space is taken to be there. *)
SetCurrentTargetUnchecked(s, t) == [spaces EXCEPT ![s].current = t]
SetCurrentTarget(s, t) ==
    IF Exists(s) THEN [spaces EXCEPT ![s].current = t] ELSE spaces

CreateTaskSpaceGoesOn(i) ==
    /\ GoesOn(i, "context")
    /\ spaces' = IF calls[i].state = "done"
                   THEN SetBrowserContext(calls[i].space, calls[i].context) ELSE spaces
    /\ EndCall(i)
    /\ UNCHANGED <<selected, gen, born, known, cdp, launching, browsers, closed, chunk>>

(* Whether the context could be disposed of or not. *)
CloseTaskSpaceGoesOn(i) ==
    /\ GoesOn(i, "dispose")
    /\ RemoveSpace(calls[i].client, calls[i].space)
    /\ EndCall(i)
    /\ UNCHANGED <<gen, born, known, cdp, launching, browsers, closed, chunk>>

(* Mutant: no second try. *)
MayRetryNever(call) == FALSE
(* "no browser is open": the cached window was gone, so ask for a new one. *)
MayRetry(call) == call.state = "stale" /\ ~ call.fresh
(* Mutant: the client's selection is read again after the await. *)
SpaceSelectedNow(call) == selected[call.client]
(* `space` is the object found before the await. *)
SpaceOf(call) == call.space
CreateTabGoesOn(i) ==
    /\ GoesOn(i, "tab")
    /\ \/ /\ calls[i].state = "done"
          /\ spaces' = SetCurrentTarget(SpaceOf(calls[i]), calls[i].target)
          /\ EndCall(i)
       \/ /\ MayRetry(calls[i])
          /\ calls' = [calls EXCEPT ![i] = Sent([@ EXCEPT !.fresh = TRUE])]
          /\ UNCHANGED spaces
       \/ /\ calls[i].state # "done" /\ ~ MayRetry(calls[i])
          /\ EndCall(i)
          /\ UNCHANGED spaces
    /\ UNCHANGED <<selected, gen, born, known, cdp, launching, browsers, closed, chunk>>

CloseTabGoesOn(i) ==
    /\ GoesOn(i, "closeTab")
    /\ EndCall(i)
    /\ UNCHANGED <<selected, registry, known, cdp, launching, browsers, closed, chunk>>

-----------------------------------------------------------------------------
(* The browser.  What it does while the daemon is not idle the daemon sees  *)
(* later all the same, so it is left until then.                            *)

Reply(type, i) == <<[type |-> type, call |-> i]>>
Event(type, t) == <<[type |-> type, target |-> t]>>
DestroyedEvents(order) ==
    [k \in DOMAIN order |-> [type |-> "targetDestroyed", target |-> order[k]]]
Says(g, messages) == inbox' = [inbox EXCEPT ![g] = @ \o messages]
Gone(ts) == [t \in Targets |-> IF t \in ts THEN [page[t] EXCEPT !.alive = FALSE] ELSE page[t]]
Running(g) == browser[g] \in {"up", "dying"} /\ Len(inbox[g]) < MaxUnread
Answerable(i, kind) ==
    /\ Idle
    /\ calls[i] # NoCall /\ calls[i].kind = kind /\ calls[i].state = "sent"
    /\ Running(calls[i].via)

AnswerContext(i) ==
    /\ Answerable(i, "context")
    /\ contexts' = [contexts EXCEPT ![calls[i].via] = @ \cup {calls[i].context}]
    /\ Says(calls[i].via, Reply("done", i))
    /\ calls' = InState(i, "replied")
    /\ page' = page

(* The pages of the context go before or after the answer. *)
AnswerDispose(i) ==
    /\ Answerable(i, "dispose")
    /\ LET ctx == calls[i].context
           g   == calls[i].via
       IN  \/ /\ ctx \in contexts[g]
              /\ contexts' = [contexts EXCEPT ![g] = @ \ {ctx}]
              /\ page' = Gone(Pages(ctx))
              /\ \E order \in SetToSeqs(Pages(ctx)) :
                   \/ Says(g, DestroyedEvents(order) \o Reply("done", i))
                   \/ Says(g, Reply("done", i) \o DestroyedEvents(order))
           \/ /\ ctx \notin contexts[g]
              /\ Says(g, Reply("failed", i))
              /\ UNCHANGED <<contexts, page>>
    /\ calls' = InState(i, "replied")

AnswerTab(i) ==
    /\ Answerable(i, "tab")
    /\ LET ctx == calls[i].context
           g   == calls[i].via
           windowless == Pages(ctx) = {} /\ ~ calls[i].fresh
       IN  \/ /\ ctx \notin contexts[g]
              /\ Says(g, Reply("failed", i))
              /\ calls' = InState(i, "replied")
              /\ page' = page
           \/ /\ ctx \in contexts[g] /\ windowless
              /\ Says(g, Reply("stale", i))
              /\ calls' = InState(i, "replied")
              /\ page' = page
           \/ /\ ctx \in contexts[g] /\ ~ windowless
              /\ \E t \in Targets :
                   /\ page[t] = Unborn
                   /\ page' = [page EXCEPT ![t] = [context |-> ctx, alive |-> TRUE]]
                   /\ Says(g, Event("targetCreated", t) \o Reply("done", i))
                   /\ calls' = [calls EXCEPT ![i].state = "replied", ![i].target = t]
    /\ contexts' = contexts

(* The answer comes before the event. *)
AnswerCloseTab(i) ==
    /\ Answerable(i, "closeTab")
    /\ \/ /\ page[calls[i].target].alive
          /\ page' = Gone({calls[i].target})
          /\ Says(calls[i].via, Reply("done", i) \o Event("targetDestroyed", calls[i].target))
       \/ /\ ~ page[calls[i].target].alive
          /\ Says(calls[i].via, Reply("failed", i))
          /\ page' = page
    /\ calls' = InState(i, "replied")
    /\ contexts' = contexts

Answer(i) ==
    /\ AnswerContext(i) \/ AnswerDispose(i) \/ AnswerTab(i) \/ AnswerCloseTab(i)
    /\ UNCHANGED <<selected, registry, known, cdp, launching, browser, closed, chunk>>

(* The user closes a tab, or the page does. *)
ClosePage(t) ==
    /\ Idle
    /\ \E g \in Gen :
         /\ Running(g) /\ browser[g] = "up"
         /\ t \in UNION {Pages(ctx) : ctx \in contexts[g]}
         /\ Says(g, Event("targetDestroyed", t))
    /\ page' = Gone({t})
    /\ UNCHANGED <<selected, registry, known, cdp, launching, browser,
                   contexts, closed, chunk, calls>>

(* It was asked to, or it crashes. *)
Exit(g) ==
    /\ Idle
    /\ Running(g)
    /\ browser' = [browser EXCEPT ![g] = "gone"]
    /\ page' = Gone(UNION {Pages(ctx) : ctx \in contexts[g]})
    /\ contexts' = [contexts EXCEPT ![g] = {}]
    /\ UNCHANGED <<selected, registry, known, cdp, launching, inbox,
                   closed, chunk, calls>>

-----------------------------------------------------------------------------
ClientStep(c) ==
    \/ CreateTaskSpace(c) \/ CloseTaskSpace(c) \/ CreateTab(c)
    \/ HandOffTaskSpace(c) \/ TakeOverTaskSpace(c)
    \/ \E s \in SpaceId : UseTaskSpace(c, s) \/ ClaimTaskSpace(c, s)
    \/ \E t \in Targets : CloseTab(c, t)

GoOn(i) ==
    CreateTaskSpaceGoesOn(i) \/ CloseTaskSpaceGoesOn(i) \/ CreateTabGoesOn(i) \/ CloseTabGoesOn(i)
PipeStep(g) == ReadMessage(g) \/ PipeClosed(g)

Next ==
    \/ \E c \in Clients : ClientStep(c)
    \/ Reset \/ LaunchBrowser
    \/ \E g \in Gen : PipeStep(g) \/ Exit(g)
    \/ \E i \in Slot : GoOn(i) \/ Answer(i)
    \/ \E t \in Targets : ClosePage(t)

Spec == Init /\ [][Next]_vars

(* The daemon's event loop serves both pipes, and a settled promise is gone *)
(* on with.  Outside the code: a browser answers what it is asked, unless   *)
(* it exits.  Reading and answering are disabled again and again while the  *)
(* loop is busy with something else, hence the strong fairness.             *)
Fairness ==
    /\ \A g \in Gen : SF_vars(PipeStep(g))
    /\ \A i \in Slot : WF_vars(GoOn(i)) /\ SF_vars(Answer(i))
FairSpec == Spec /\ Fairness
-----------------------------------------------------------------------------
(* The daemon moves every space of every registry through the life that     *)
(* SpaceOwnership promises, whatever handlers are cut in two by whatever    *)
(* else, a reset and the next registry's equal ids included.                *)
Control ==
    [id \in Gen \X SpaceId |->
       IF id[1] = gen /\ Exists(id[2])
         THEN IF spaces[id[2]].ownership = "agent" THEN "agent" ELSE "delegated"
         ELSE IF id[2] < born[id[1]] THEN "closed" ELSE "unborn"]
Promise == INSTANCE SpaceOwnership WITH SpaceIds <- Gen \X SpaceId, control <- Control
RefinesOwnership == Promise!Spec

(* A space has the context that was made for a space of its id, however     *)
(* many are being created at once and in whatever order they are answered.  *)
OwnContext ==
    \A s \in SpaceId : spaces[s].context \in {NoContext} \cup (Gen \X {s})

(* Until a reset the current target of a space is one that was created in   *)
(* its context, though clients select, close and create while the browser   *)
(* creates it.                                                              *)
CurrentOfOwnContext ==
    gen = 0 => \A s \in SpaceId :
                 spaces[s].current # NoTarget =>
                   page[spaces[s].current].context = spaces[s].context

(* A tab is refused only when its context or its browser is gone, and never *)
(* because the cache of targets took a window for open that is not.         *)
TabRefusedOnlyIfGone ==
    [][\A i \in Slot :
         /\ calls[i] # NoCall /\ calls'[i] = NoCall
         /\ calls[i].kind = "tab" /\ calls[i].state # "done"
         => calls[i].context \notin contexts[calls[i].via]]_vars

(* What is written to a pipe that is open is settled in the end: answered,  *)
(* or rejected when the pipe ends, though a reset replaces the registry,    *)
(* the selections and the browser under the handlers that wait.             *)
CallsSettled ==
    \A i \in Slot :
      (calls[i] # NoCall /\ calls[i].state = "sent" /\ calls[i].via \notin closed)
        ~> Settled(i)

(* A selection does not survive the registry it was made in, else its       *)
(* client would act in the space of another that is given the same id.      *)
SelectedWasCreated ==
    \A c \in Clients : selected[c] # NoSpace => selected[c] < born[gen]
=============================================================================
