# A TLA+ model of Prism

Prism is a Chromium fork for people and agents: agents drive pages inside *task
spaces*, the user watches them, takes them over, hands them back. This directory
models the parts of it where several actors meet: the kernel's registry of
spaces and the DevTools sessions over it, the banners over the spaces' windows,
the socket agents connect to, the snapshot job and what is composed of its
answers, the daemon that stands in for the kernel on a stock browser, and the
runtime of the agent's script at the other end. TLC checks the models on small
instances; TLAPS proves the safety of most of them for instances of any size.

Read in this order: `SpaceOwnership`, `SpaceRegistry`, `PrismDomain`; then
`AgentSurfaces`, `AgentSocket`, `SnapshotJob`, `SnapshotFrames` and
`SnapshotComposer`, which extends it; then `HostDaemon`, which keeps the promises of `SpaceOwnership` too, and
`HarnessRuntime`. The proofs of a module are in the modules named after it.

## The system

### Inventory

| component | code | state it keeps | operations | who calls it |
|---|---|---|---|---|
| SpaceManager | `prism/browser/spaces/space_manager.*` | spaces by id with ownership, tab records, shown flag; next id; focused id | Create, Use, Claim, HandOff, TakeOver, StopAgent, Close, AddTab, RemoveTab, SetWindowShown, set_focused | handlers, wall, banner, cycling key; one instance per browser |
| PrismDomainHandler | `prism/browser/devtools/prism_domain_handler.*` | per session: selected space, headless pages it owns, observers | the `Prism.*` commands; command gating and target filtering for patches 0006, 0007; callbacks of pages that close | one per client session, on the UI thread |
| Space windows | `chrome/browser/prism/prism_space_window_delegate.*` | window address per space, banners, dismissed banners, spaces-mode walls | show a space, append a tab, cycle, animate, reconcile every second | handlers (through `SpaceWindowDelegate`), wall, accelerators, a timer |
| Spaces wall | `chrome/browser/ui/webui/prism_spaces/` | none of its own | create, delete all, view, focus, exit, hand off, take over, close | the user's page |
| AgentSocketServer | `prism/browser/agent_socket/` | listening descriptor, stop flag, accept thread, connections by id | Start, Stop, accept loop, hand-over, disconnect | browser main loop, accept thread, pipe handlers |
| SnapshotJob | `prism/browser/snapshot/snapshot_job.*` | frames with what was learnt, position, box queue, pending request, watchdog | run, one callback per kind of answer, agent host closed, timeout | `Prism.snapshot` of a session; DevTools agent hosts |
| SnapshotComposer | `prism/browser/snapshot/snapshot_composer.*` | none, a pure function | compose the frames' trees into text and refs | SnapshotJob |
| Host daemon | `host/src/daemon.js`, `spaces.js`, `cdp.js`, `pipe.js` | clients and selections, sessions by owner, targets, simulated spaces, pending requests | raw CDP routing, the bindings, browser events, reset | command line processes over a Unix socket; a stock Chromium over a pipe |
| Host clients | `host/src/client.js`, `kernel.js`, `cli.js`, `chrome.js` | pending requests by id | call, send, receive, fail all; launch of daemon or browser | the harness |
| Update and upgrade | `host/src/update.js`, `upgrade.js` | a cache file, the installed app | check, compare versions, download, swap, reopen | command line |
| Harness runtime | `package/prism-browser/src/browser-runtime.ts`, `state.ts` | pending requests, cached session, event buffer, waiters, dialogs | request, attach, invalidate, message, send error | page helpers, scripts of the agent |
| Harness output | `output-sink.ts`, `run.ts`, `update-notice.ts` | buffered lines, first hard stop, notice, flushed flag | buffer, mark, flush | one script run |
| Page helpers, learning | `helpers.ts`, `driver/`, `learning/` | refs, downloads, screencasts | what scripts call | scripts |
| Importers, onboarding, branding | `chrome/browser/prism/*importer*`, patches | platform files | import, show | the user |

Paths in the first seven rows are below `src/chromium/src-overlay/`.

### How the parts interact

    harness script -- kernel.js --(Unix socket)-- AgentSocketServer -- DevTools session
                                                                          |
         the user --- wall, banner, key ---+                    PrismDomainHandler (one each)
                                           |                         |         |
                                       SpaceManager  <---------------+    SnapshotJob
                                           |                         |
                                     space windows  <-- pages move --+

    harness script -- client.js --(Unix socket)-- daemon.js --(pipe)-- stock Chromium

In the kernel everything but the accept thread runs on the UI thread, one task
at a time, so a handler is atomic; what interleaves is the *order* of handlers
of different sessions and of the user's actions, and every asynchronous answer
is a task of its own. In the daemon and the harness a handler is atomic only up
to its next `await`.

### What is hard here

* **Who owns a page.** It is created by a session, lives in that session's
  `tabs_`, moves to a window's tab strip, and dies in one of five ways.
* **Who controls a space.** Four actors change its ownership, while sessions
  keep a selection made earlier.
* **Names that outlive what they name.** Window addresses, descriptor numbers,
  frame tree nodes, target ids of tabs in closed windows.
* **Two threads.** The accept thread and `Stop`.
* **Answers that come late, twice over another's, or never.** The snapshot job,
  the daemon and the harness.
* **Control that changes unheard.** Nobody tells the banners; a timer looks.
* **Trees that are joined by names which are not unique.** The composer.
* **Half-done work.** A tab that cannot be appended; the swap of an upgrade.

`PROJECT.json` lists these hazards one by one at the line where each bites, with
the property that watches it, or why none does.

## The modules

### SpaceRegistry: `prism::SpaceManager`

Pure operators from registry to registry, one per method, with the code's names.
A space that is not in `spaces_` has the ownership `"absent"`. `focused` is 0
for the default browsing area. `AddedTab` and `RemovedTab` are the loops over
`space->tabs` that keep one tab active. `NextOnWheel` is the order of
`CycleToNextSpace`. `RegistryOK` is what all of them preserve.

### SpaceOwnership: the abstract specification

The life of a space, whoever implements the registry: unborn, the agent's,
delegated, the user's, closed. Closed ids stay closed; only the agent's space is
delegated; a step changes one space unless it closes several.

### PrismDomain: sessions, spaces, pages and windows together

| variable | code |
|---|---|
| `reg` | the `SpaceManager` singleton |
| `connected`, `selected`, `tabs` | the sessions' handlers: existing, `selected_space_id_`, the keys of `tabs_` |
| `place` | where a page (`WebContents`) is: unborn, headless in a handler, in the window at an address, dead |
| `window`, `open` | `windows_` of the delegate; the addresses live windows have |
| `input` | parity of the driving commands a page executed; only a witness for properties about driving |
| `up` | the browser has not crashed |

One action per `Prism.*` command, per callback of a page that closes, and per
action of the wall, the banner, the cycling key, the timer and the user's
windows. Some that deserve a note:

* `CreateTab` in a space that is marked shown passes the page by value to the
  delegate; without a live window the page dies there and the handler keeps a
  null pointer under its id. `tabs` keeps the key, `place` says dead.
* `ShowTaskSpace` moves the caller's own pages of that space; meeting such a
  null pointer it ends the browser (`up' = FALSE`).
* `CloseTaskSpace` destroys the caller's pages of the space and forgets the
  others' records; `Disconnect` destroys the session's pages and, its observers
  being dropped first, leaves the records.
* `CloseContents` erases the map entry whose key it holds by reference and then
  searches the registry with that reference: the record is pruned, or missed.
* `CloseSpaces` (the wall) asks every recorded page to close while walking the
  list the closing prunes: any subset may be gone when the space is.
* `CloseWindow` frees an address which `OpenWindow` and `ShowIn` may use again.
* `ShowIn` without a page to move gives up when no profile is loaded; its callers
  mark the space shown all the same.

`Drive` is a raw driving command; which page it reaches is the client's choice,
because `ShouldBlock` looks at the sender's selection only.

### AgentSurfaces: the banner of `PrismSpaceWindowDelegate`

| variable | code |
|---|---|
| `control` | `SpaceManager`, as far as `SpaceOwnership` goes |
| `windows`, `banners`, `dismissed` | `windows_`, `banners_`, `dismissed_banners_` |
| `strips`, `active`, `bars` | the browser: tab strips, active tabs, info bars on tabs |
| `closed`, `missed` | history: the spaces whose bar the user closed in this stint of the agent, or in one whose end no tick has seen; only witnesses |

`SyncAgentSurfaces` is one tick of the one-second timer over all spaces it knows.
It reads each space as it was before the tick, since its iterations touch
different spaces; that two of them share no window is in `TypeOK`. `Accept` and
`Cancel` are the buttons of a bar that may be out of date, `OnBannerDismissed`
its cross. The histories are kept by the events themselves (`StintsEnd`) and not
by what the delegate does with `dismissed`, so that `BannerShown` can judge it: a
dismissal that is remembered too long keeps a banner away that is due. The theorem
`DismissalAccounted` says that `dismissed` is exactly the two together. Between ticks tabs close, move to other windows and navigate, which
takes their bars away. `LookUp` is any call of `FindSpaceWindow`, which prunes.
Assumed: spaces have distinct names, since a tab refuses a second bar with the
same text; a tab or window that is still pointed to is not allocated again
(`raw_ptr`). Toolbar badges and button counts are left out.

### AgentSocket: `AgentSocketServer`

`Stop` line by line on the UI thread against the accept thread's test, poll,
accept and post, with clients that connect and hang up at any time, a `poll` or
`accept` that fails for want of memory or descriptors, and a descriptor number
that the process may reuse once it is closed, be it for another listener. `conn` follows
each connection from the backlog to where its descriptor ends. `Start` may fail
and never runs twice, as patch 0002 calls it.

### SnapshotJob: one `Prism.snapshot`

Frames are numbered in the preorder in which `CollectFrames` finds local roots;
`LocalRoots` is every nesting of at most `MaxFrames` of them. Each answer is an
action; `ProcessFrame`, `NextBox` and `QueryBoxes` are the calls the callbacks
make in the same task. Between them frames go (`RemoveFrame`), change process
(`JoinParent`), hosts close (`HostsClose`, which is `AgentHostClosed`), and the
watchdog fires. Both actions of the page are outside `src/`: they say what
Chromium's frame tree and agent hosts do.

### SnapshotFrames and SnapshotComposer: `ComposeSnapshot`

A pure algorithm, so the state machine only makes its inputs: every page of up
to `MaxParts` parts in document order, each an element or an iframe with its
document, in any process, with or without a url of its own, inside or outside
the viewport. `Collect` gives the frames as `SnapshotJob` collects them, known
by their local roots, whose order is that of the indices in the code.

`SnapshotFrames` says which nodes `build` makes of these frames: `Inline` are
the children a node keeps, `SplicedAt` the roots spliced below it, `Places` the
frames as nodes of which a node is built when all starts at the top. It has no
recursive operators, so it can be proved about. `SnapshotComposer` runs the
composer: `Build` makes the tree of `Inline` and `SplicedAt`, `Render` prints
it. A step of it is one of `SnapshotFrames` or leaves the page alone, so what
holds of `PageSpec` holds of `Spec`. Three references judge the result: the page itself
(`PageTree`, rendered as one tree), document order, and the composer of the host
(`host/src/snapshot.js`), which sees only one target. Names and texts are the
nodes they belong to; roles are told apart as `MapRole` and the two role lists
do.

### HostDaemon: `HostServer` with `SpaceRegistry`, `CdpConnection`, `PipeTransport`

A handler that awaits the browser is two actions, the second named `...GoesOn`;
between them the call is in a slot of `calls` with what the handler's closure
holds (its client, the id of its space, the context it asked for). The daemon
reads the pipe in chunks (`chunk`, `inbox`): all messages of a chunk are handled
before any handler goes on, and all of those before any other event, which is
what `Idle` says and what promises do. A handler writes by id, so it meets
whatever has that id when it goes on.

`Reset` replaces the registry, the target cache and all selections at once and
the browser later. So `gen` numbers registries and `cdp` the browser calls are
sent to; contexts and `Control`, the state of `SpaceOwnership`, are per
generation. A browser answers calls in any order, dies at any time, and what it
said before dying is still read. A call sent on a connection that has closed
already stays `"sent"` for ever: `send` neither writes nor rejects, and nobody
fails it any more.

Context and target ids are the browser's, and never reused. `CloseTab` stands for
the raw commands. The two answers of `Target.closeTarget` and
`Target.disposeBrowserContext` may come before the events they cause, as the
comment on the stale window in `#createTabInSpace` says.

### HarnessRuntime: `browser-runtime.ts`

| variable | code |
|---|---|
| `calls` | one `browserCdp` each, by where it awaits |
| `flight` | `state.sessionInflight`, by where `ensureSession` awaits |
| `cache`, `preferred`, `pageEnabled`, `pendingDialogs` | the fields of `state` |
| `tabs`, `attached`, `enabled`, `dialogs`, `executed` | the browser and what took effect in it |
| `requests`, `wire` | on the way there and back, the latter in order |

`Continue` is the continuation of an await; `draining` keeps messages out while
several are due, as promises do. `Timeout` and `FlightTimeout` are the 15 s
timers. Ids are not reused, so an answer that comes after its entry is gone is
ignored: the answer of a request that lost its entry is left out (`stale`), and one
already on the wire becomes `Late`: it is read and does nothing.
`RefuseToSend` is the host's `onSendError`, which names no request. The browser
may refuse, lose or never answer anything except `listTabs`, which is the host's
own and has no timer, but may answer with an error. `want` is the tab the script switched to, as long as that
binds the next command; only a witness for `SwitchSticks`.

## What is checked

| run | instance | shows |
|---|---|---|
| `sessions` | 2 sessions, 2 spaces, 1 page, 1 window address | `SoleOwner`, `NoNewTabWhileDelegated`, `SelectionStable`, `UserSpaceIsClaimed`, and that the whole refines `SpaceOwnership` |
| `windows` | 1 session, 2 spaces, 2 pages, 2 window addresses | `OneActiveRecord` and `LivePagesRecorded` while pages and windows come and go |
| `agent_socket` | 3 connections | no session outlives `Stop`, descriptors closed for good stay closed, `Stop` returns, clients are answered |
| `snapshot` | up to 3 local roots, 2 boxes a frame | answered exactly once, complete, requests only on held sessions, every snapshot answered |
| `daemon` | 2 clients, 2 spaces, 2 targets, 2 calls in flight, no reset | `OwnContext`, `CurrentOfOwnContext`, `TabRefusedOnlyIfGone`: what is written after an await lands where it belongs, and a stale window is never the reason a tab is refused |
| `daemon_reset` | 1 client, 1 space a registry, 1 target, 2 calls, 1 reset, fair | the daemon refines `SpaceOwnership` across registries; `SelectedWasCreated`; what was sent on an open pipe is answered or rejected in the end (`CallsSettled`) |
| `compose` | pages of up to 4 parts, 2 processes | nodes are built once and as in the page (`BuiltInPlace`), and printed once, in order and as the page alone would be (`PrintedLikeThePage`), refs name what is printed, and the host's composer prints the same |
| `surfaces` | 2 spaces, 2 windows, 3 tabs | one bar a space, tracked; a dismissed one stays away for the stint and no longer; bars follow control |
| `harness` | 2 calls, 2 tabs, 2 sessions, 2 troubles | a command takes effect at most once, goes to the tab switched to, leaves no ghost of a dialog, and comes back |
| `v_tab_kept` and the other `v_` runs | small | a sentence of the code's comments that the code does not keep; TLC shows how |

**Bounds.** Ids of spaces and pages are never reused, so the numbers of spaces
and pages bound how many are ever created, not how many are alive. Two sessions
give every pair of roles (the one that selected, the one that changes the space
underneath); a property that names a session and "another" cannot need a third.
Two spaces make a tab move, a wheel turn and a second space be left alone. Two
pages make a list with an active and an inactive tab; two addresses make a
space's window and one that is not, and reuse. The two runs split what does not
interact: one page suffices for who may do what, one session for what the lists
hold. Three connections put one in the backlog, one in hand and one served. Three
local roots give a chain and siblings; two boxes a first and a last. Two calls in
flight are the least that overlap: one client can have both, as the daemon does
not make a connection wait, so `daemon_reset` needs one client only;
what it asks is about two registries and not about two spaces of one (there
`ImplementsOwnership` is proved), so one space a registry does, as both then give
out the same id, with a call of the old browser beside one of the new. `MaxSpaces`
counts per registry, `Targets` over all generations. `MaxUnread` keeps a browser from
speaking while that many messages are unread; two let the answers of two calls,
or an answer and the event it races, share a chunk. Four parts (`MaxParts`) make
a document in a document beside an element or a third one, and an inline copy
that competes with a frame for an owner; two processes share ids. Three tabs
leave one behind when one is dragged away and one becomes active. Two calls share
a flight or come one after another; two sessions (`MaxSessions`) are the one that
was lost and the one attached anew. `MaxTrouble` counts in one budget what
happens to a script from outside: switches, closings, refusals, errors of
`listTabs`, dialogs opened or closed and expiries of the cached session; two make every pair of them, in
particular a dialog with a closing, and a switch with whatever it races.

**Symmetry** is used for sessions, clients, targets and window addresses in the
safety runs of `PrismDomain` and in `daemon`, never for spaces, whose order the wheel and the ids depend on, and not in a run that
checks liveness.

**Deadlock** is not checked where the system does stop: the browser after a
crash (`up = FALSE`, and nothing runs), the server after `Stop`, a job that is
over, a daemon whose browser is gone and whose slots are all waiting, a page that
is composed, a script whose calls have all come back. In `AgentSurfaces` the
timer ticks for ever, but a tick may change nothing.

**Fairness.** `PrismDomain` has none and no liveness: nothing obliges a client
or the user. In `AgentSocket` the accept thread is scheduled, the UI thread
serves posted tasks while the server runs and finishes a `Stop` it began; nobody
is obliged to call `Stop`, to connect or to hang up. `HostDaemon` has none in
`daemon`; `FairSpec` of `daemon_reset` says that the event loop reads both
pipes and sees them end, that settled promises are gone on with, and, of what is
outside the code, that a browser that does not exit answers. Reading and answering
wait for the loop to be idle, which it is again and again but not for good, hence
strong fairness; with weak fairness TLC would show a loop that other events keep
from ever reading. In `SnapshotJob` only the
timer is fair; answers and the page owe nothing, so `SnapshotAnswered` rests on
the watchdog alone. In `AgentSurfaces` the timer ticks; the user, the pages and
the sessions owe nothing, and `BannerShown` says no more than that the bars are
right again and again, as they are wrong between ticks. It excuses the bars the
user closed (`closed`, `missed`), never what the delegate has in
`dismissed_banners_`; that `missed` is not empty is the code's own failure (below). In `HarnessRuntime` the
timers fire, what arrived is handled, continuations run, and the host answers
`listTabs`: the browser itself owes no answer.

### What the code's comments say and the code does not

* `TabKept`: `space_window_delegate.h` promises that a page for a space without
  a live window stays with its caller. It is destroyed, a null pointer stays in
  `tabs_`, and a later `showTaskSpace` dereferences it. The shown flag is never
  reset, so closing the space's window is enough to get there.
* `DelegatedPageUndriven`: the driving policy asks which space the *sender*
  selected, so a session with another selection, or none, drives the pages of a
  delegated space.
* `OwnHostOfEachFrame`: the job uses frame tree nodes it found at the start; one
  whose turn has not come may be gone by then, and one that has joined its
  parent's process is read as a copy of its parent.

Three more are in the models as the code has them, and excused where a property
meets them, but are no runs of their own:

* A dismissal is to last until the ownership leaves the agent
  (`prism_space_window_delegate.h:141`, `.cc:488`). The delegate forgets it only
  when a tick finds the space out of the agent's control and its window on record:
  hand-off and take-over within a second, or while the window is closed, or a cross
  that is pressed just after control has left, and the next stint has no banner at
  all. `missed` has exactly these spaces, and `BannerShown` without it fails.
* "Stop agent" is to stop it for good (`prism_space_window_delegate.cc:64`), and
  agents are to select the user's own spaces but not drive them
  (`space_manager.h:27`). `RequireSelectedSpace` refuses a space only while it is
  *delegated* (`prism_domain_handler.cc:575`), so a session that had selected the
  space goes on adding tabs to it, without a claim, and drives it.
* `DestroyTab` is to prune the record of the page (`prism_domain_handler.cc:107`,
  `:228`), and `CloseContents` hands it a reference to the key it erases first
  (`:110`); the search may miss, and the record of the dead page stays.

Seen while modelling and not made into runs: tabs of a closed window keep their
record; `focused` may be the id of a space that is gone; a tab in a window, or in
another session, gives an empty snapshot; closing a space leaves the headless
pages other sessions have in it alive and unrecorded (`LivePagesRecorded` is
stated up to the first closed space for this reason); the wall closes the pages
in windows, which its comment says stay with the user; `Stop` drops connections
without closing their descriptors; an `accept` that fails for want of
descriptors ends the accept thread for good; when another session closes the
selected space, the filter of `Target.getTargets` is off rather than empty. In
the daemon: a creation or a close that waits across a reset writes to the space
that has its id in the new registry; a target that died in the chunk that
reported it becomes the current one; a write to a dead pipe never fails at once,
so the `false` of `PipeTransport.send` is not seen and such a call waits forever.

Other places where code and text differ, which the models contain:

* May an agent *select* a space of the user's? `Use` refuses it, as
  `space_manager.h:82`, `prism_domain_handler.cc:194` and the unit test
  `UseRejectsUserOwnedSpaces` have it; `space_manager.h:27`,
  `prism_spaces_ui.cc:959` and `docs/binding-contract.md:82` say that it may be
  selected and refused later. The two cannot both hold; `SelectionStable` states
  the first, which is what the code does.
* `Stop` closes the listener before it joins the thread that polls it
  (`agent_socket_server.cc:123`).
* The daemon's `closeTaskSpace` clears the selection after its await, and so
  undoes a `useTaskSpace` of the same connection (`daemon.js:323`,
  `docs/binding-contract.md:72`).
* Text directly below an ignored node is dropped, where the host's composer,
  which this one is to agree with, prints it (`snapshot_composer.cc:149`,
  `snapshot_composer.h:24`, `host/src/snapshot.js:142`): the exception in
  `SameAsTheHostButForIgnored`.
* A bar outlives the agent's control when its tab was dragged to another window
  and the space's own window has gone: the tick walks `windows_` only
  (`prism_space_window_delegate.cc:62`, `:481`): the exception in
  `StaleBannerGoes`.
* When the session is lost while `ensureSession` awaits `Page.enable`, the waiting
  command is sent without a session (`browser-runtime.ts:138`,
  `docs/binding-contract.md:33`): `SwitchSticks` says "a session" for this reason.
* A lookup that is in flight while `switchTab` returns overwrites the switch, for
  up to two seconds (`browser-runtime.ts:133`): `SwitchSticks` excludes it.
* Dialogs are known by session, so one that is open when the script switches away
  and back is forgotten (`browser-runtime.ts:146`): `NoGhostDialog` has no
  converse.

## What is proved

For any number of clients, windows, tabs, spaces, frames, calls and so on; the
assumptions are those of the modules (bounds are numbers, the words for "none"
are no ids, sets of targets are finite).

| module | theorems |
|---|---|
| `PrismDomainProofs` | `TypeCorrect`, `OneOwner` (`SoleOwner`), `RegistryConsistent` (`OneActiveRecord`), `DelegatedSpaceKeepsTabs` (`NoNewTabWhileDelegated`), `ImplementsOwnership` (`RefinesOwnership`), `UserSpaceOnlyClaimed` (`UserSpaceIsClaimed`), `SelectionsStable` (`SelectionStable`), `PagesOnRecord` (`LivePagesRecorded`) |
| `AgentSurfacesProofs` | `TypeCorrect`, `OneBanner` (`OneBannerEach`), `DismissalKept` (`ClosedStaysClosed`), `DismissalAccounted` |
| `AgentSocketProofs` | `TypeCorrect`, `SessionsEnd` (`NoSessionOutlivesStop`), `ClosedOnce` (`ClosedForGood`) |
| `SnapshotJobProofs` | `TypeCorrect`, `Answered` (`AnsweredOnce`), `SnapshotComplete` (`CompleteSnapshot`), `WaitsOnHeldSession` (`RequestOnHeldSession`) |
| `SnapshotFramesProofs` | `TypeCorrect`, `LikeThePage` (`BuiltInPlace`) |
| `HostDaemonProofs` | `TypeCorrect`, `OwnContexts` (`OwnContext`), `SelectionsCreated` (`SelectedWasCreated`), `CurrentInContext` (`CurrentOfOwnContext`), `NoAnswerLost`, `RefusedOnlyIfGone` (`TabRefusedOnlyIfGone`), `ImplementsOwnership` (`RefinesOwnership`) |
| `HarnessRuntimeProofs` | `TypeCorrect`, `NeverTwice` (`ExecutedOnce`), `SwitchesStick` (`SwitchSticks`), `NoGhosts` (`NoGhostDialog`) |

`SpaceRegistryProofs` has the lemmas about the operators that `PrismDomain` is
built from: what `AddedTab` and `RemovedTab` do to a list of tabs, what every
mutator does to owners and ids, and that all preserve `RegistryOK`.

**PrismDomain.** The inductive invariant is `TypeOK`, `SoleOwner` and
`OneActiveRecord`, in which each needs the others: removing a tab keeps *one*
active tab only if lists are duplicate-free, which needs a created page to be on
no list yet, which is `OneActiveRecord`'s last line; and that a page created by
one session is owned by no other needs `SoleOwner`'s clause about unborn pages.
`StepInv` has one step per action. The rest builds on it. `RecordSteps` says what
every action can add to a record, `ControlSteps` what it does to the owners of
spaces: keep them, create one, close some, or move one space in one of four ways.
`MovesRefine` maps each of these to a step of `SpaceOwnership`, and the two action
properties follow by cases of it. `SelectionSteps` says the same of selections:
what every action gives to one session (`Gives`) or takes from it as it closes the
space (`OneSession`), and that no other action touches them; `SelectionStable` also
needs that what is selected was created (`SelectedBorn`) and that no closed id
returns (`NoReturn`);
`LivePagesRecorded` that no page is recorded in a space that is gone
(`NoGhosts`).

**AgentSurfaces.** `Remembered` adds that `dismissed_banners_` has exactly the
spaces of `closed` and `missed`, and that the agent controls those of `closed`, so
that no tick forgets a bar closed in this stint or keeps one for longer than until
it sees the stint's end; that a tick finds every
bar it must remove is `OneBannerEach` itself, so the two go together.

**AgentSocket.** `Held` says what the accept thread has in hand: exactly the
connection it has accepted and not yet posted, so none unless it is about to post,
and that the thread does not run while the server is off.

**SnapshotJob.** `Progress` says what has been learnt of the frames before the
current one, `Sessions` which agent hosts the job is attached to; a callback
leaves both true or ends the job.

**SnapshotFrames.** `TreeOK` is the inductive invariant: what is above a node is
one path from the top, its parent is the last of it, and only a document is of
another process than its parent. Of a page like that: all nodes of a frame are of
its root's process (`ProcessOfHost`), where backend ids are unique
(`IdsOfOneProcess`), so a frame is spliced at its owner and nowhere else
(`SplicedAtOwner`). A node that is built in a frame stands there (`Stands`): the
frame is the top or attached, and nothing between its root and the node was
pruned. Were a node built in two frames, one would enclose the other, and the
inner one's root, whose url is among the spliced ones, would be pruned from the
outer (`NotInOuterFrame`): this needs no url to be unique, as pruning too much
builds nothing twice. With unique urls and all owners in the trees, exactly the
copies of spliced roots are pruned (`PrunedAre`) and what is built below a node is
what is below it in the page (`InlineAre`, `SplicedAre`).
Inductions over the page are made by its first node for which the claim fails
(`FirstNode`); that the recursion in `Places` defines it is shown the same way
(`PlacesAre`).

**HostDaemon.** A handler that goes on writes by the id it kept, so the invariant
must say what a call in flight holds: a context asked for is that of its space's
id (`Asked`), and until the first reset, when no id is used twice, a tab is
created in the context its space still has (`FirstLife`). After a reset the latter
is false, as noted above, which is why `CurrentOfOwnContext` is about the first
life. `QuietStep` covers every step that adds nothing to spaces, pages and calls.
The refinement needs only that existing spaces were created in this registry
(`ExistingBorn`): a reset closes them all in one step, and their ids are those of
another generation from then on.

That a tab is refused only if its context or its browser is gone
(`TabRefusedOnlyIfGone`) is about what the browser knew when it answered, and the
handler reads the answer later. `Matched` bridges the two: every reply that is not
read yet is the only one for its call, which waits for it, and says what is true of
the call's context (`Replied`); a settled call keeps that (`Refused`). It stays
true while the reply waits because no context comes into being again:
`AskedOnce` says that it was asked for by one call at most, and that spaces and
tabs only name contexts whose call has been answered. `MoreReplies` and
`FewerReplies` are the two ways the unread messages change, and every step of the
proof is one of them or leaves them alone. `NoAnswerLost` is the other direction:
every call the browser has answered finds its answer among the unread messages of
its pipe (`AnswersKept`), which reading another message, a reset and the browser's
exit leave there. Since `PipeClosed` comes when nothing is unread, what `#failAll`
rejects was not answered. That each call is settled in the end is liveness, and
TLC's (`CallsSettled`).

**HarnessRuntime.** The invariant follows what is under way. Of a command that is
one thing at most, a request the browser has not answered or an answer that is not
read, and a request that has not been answered has had no effect (`Commands`): so
neither the retry on a lost session nor a timeout can run a command twice, and an
answer that is late meets no command any more. The shared lookup, which several
commands wait for, is due one answer, to its last question (`OneAnswer`), and what
it holds between its awaits is right (`FlightRight`). `SwitchSticks` needs that
the preferred tab, the cached session and the lookup agree on the tab that was
switched to as long as it is open (`Wanted`). A dialog that is remembered but has
gone still has its closing, or its session's end, on the wire after it
(`Heard`, `NoGhostDialog`). Two lemmas say what any handler does to the wire: it
adds at the end (`Longer`), or takes one message and turns answers nobody waits for
into late ones (`Shortened`).

**Model-checked only.** Liveness (`StopReturns`, `ClientAnswered`, `SnapshotAnswered`,
`BannerShown`, `StaleBannerGoes`, `CallsSettled`, `CallsSettle`), which needs the rules for fairness and
`ENABLED` that this prover does not have. Of the composer, what is printed of the
tree it builds (`PrintedLikeThePage`, `RefsNameWhatIsPrinted`, `SameAsTheHostButForIgnored`): `Build` and `Render` are recursive operators over
trees, which are out of this prover's reach. `LikeThePage` is about the same
`Inline` and `SplicedAt` that `Build` goes by, and stops where the printing begins.

## Where the models are coarser than the code

* `HostDaemon`: a second try of a tab asks for the context the first one asked for,
  while the code reads it from its space object again (`daemon.js:454`); only a
  creation that went on across a reset can have changed it there. A write to the
  pipe of a browser that has died and whose end was not read yet does nothing; in
  the daemon the write may fail, and nobody listens for that error
  (`pipe.js:16`).
* `HarnessRuntime`: a tab that closes sends the sessions' detachments and not the
  separate `Target.targetDestroyed`, which can only invalidate once more a session
  of a tab that is gone (`browser-runtime.ts:252`). `sendCDPMessage` never throws:
  neither host's does, a failure is its `onSendError` (`browser-runtime.ts:71`). A
  `createTab` whose answer has no target id only invalidates, which is
  `SwitchTab` of the tab preferred already, or `UseTaskSpace` if there is none.
* `SnapshotComposer`: a node is ignored or a text, never both. An ignored text is
  merged into its parent's by the kernel (`snapshot_composer.cc:171`) and skipped
  by the host (`host/src/snapshot.js:127`), one more place where the two disagree
  on ignored nodes: `SameAsTheHostButForIgnored` does not cover it either.
* `AgentSocket`: a connection that `accept` takes from a listener that is not the
  server's any more is nobody's in the model, and closed by the handover.

## Not modelled

* Names, titles, texts of answers, geometry and animation; the wall's page;
  DevTools itself and Chromium's frame tree, tab strips and info bars, of which
  only what this code relies on appears, marked external.
* The two generated `assets.gen.cc` of the onboarding and welcome pages, which
  hold more than three quarters of the C++ lines of the repository (26355 of
  33726) and are bytes of images and scripts. No share of these can be modelled,
  so the mapped share of all lines stays small; the hand-written C++ is about
  7400 lines, of which the two pages' settings forms and the importers are input
  and output to platform files.
* The spaces-mode host and the chrome buttons: views code whose state is an
  animation. Read and noted: the 470 ms exit of one presentation may end a later
  one, and the entering chord is accepted again while a wall is up. Thumbnails:
  a cache of pictures with no one relying on it.
* The daemon's attached sessions and the routing of their events
  (`daemon.js:179`): nothing in `HostDaemon` depends on them, and their owner map
  would double its state.
* The clients of daemon and kernel (`client.js`, `kernel.js`, `cli.js`): each is a
  map of pending calls over a socket; what the harness sees of them is
  `RefuseToSend` and requests that are never answered. The race of two command
  lines that both start a daemon (`cli.js:70`) ends with one of them unreachable
  and needs processes and a file system to show.
* The cached release check and the upgrade (`update.js`, `upgrade.js`): file
  system steps of one process. Read and noted: when the copy fails half-way, the
  restore renames the backup onto a directory that is not empty, which the system
  refuses, so half an app and a backup remain (`upgrade.js:80`).
* The event buffer, waiters and page helpers of the harness, its output sink and
  the learning notes: mostly scripts sent to a page and formatting. Read and
  noted: waiters for network idleness that overlap switch the events off for each
  other (`driver/waits.ts:449`).

## Plan

| step | modules | content |
|---|---|---|
| done | `SpaceOwnership`, `SpaceRegistry`, `PrismDomain` | the core; all its properties proved |
| done | `AgentSurfaces` | banners, dismissals and the timer; safety proved, liveness checked |
| done | `AgentSocket`, `SnapshotJob`, `SnapshotFrames`, `SnapshotComposer` | threads; asynchronous answers; the composer against three references; safety proved but for what is printed |
| done | `HostDaemon` | handlers cut at each `await`, one pipe, reset and a browser that dies; safety and refinement proved |
| done | `HarnessRuntime` | sessions, retries, timeouts and dialogs over a host that may not answer; safety proved, liveness checked |
| left | `Upgrade` | the swap with a failure or a crash at every step, and the cached check |
| left | `HostDaemon` | attached sessions and the events routed to their owners |
| left | proofs | what the two left modules promise; every safety property of the runs is proved but for the three about what the composer prints |
