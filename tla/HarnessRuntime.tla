--------------------------- MODULE HarnessRuntime ----------------------------
(***************************************************************************)
(* The harness's side of the DevTools protocol (browser-runtime.ts): the   *)
(* helpers of a script send page commands without naming a session, and    *)
(* the runtime attaches one to the current tab, keeps it for two seconds,  *)
(* watches its dialogs, and attaches anew when the browser has lost it.    *)
(*                                                                         *)
(* Everything runs on one thread, but each await lets messages and other   *)
(* helpers in.  Message ids are never reused, so an answer that comes too  *)
(* late finds no entry and is ignored: here a request whose entry is gone  *)
(* is marked stale, and its answer, if there is one yet, late.  The        *)
(* browser and the host answer, fail, or never answer; what they send      *)
(* arrives in order.                                                       *)
(***************************************************************************)
EXTENDS Naturals, FiniteSets, Sequences, SequencesExt

CONSTANTS Calls,       \* the page commands of the script
          Targets,     \* tabs; an id is not used again
          MaxSessions, \* a bound on how often the browser attaches
          None,
          MaxTrouble   \* a bound on switches, closings, refusals, dialogs and expiries in all

ASSUME HarnessAssumption == /\ None \notin Targets \cup Nat /\ "flight" \notin Calls
                            /\ MaxSessions \in Nat /\ MaxTrouble \in Nat

VARIABLES tabs,       \* open tabs
          attached,   \* the tab of each session there was, None when it is closed
          enabled,    \* sessions that sent Page.enable
          dialogs,    \* tabs with an open dialog
          requests,   \* on their way to the browser
          wire,       \* on its way to the harness
          executed,   \* how often each command took effect
          calls,      \* where each browserCdp is
          flight,     \* where state.sessionInflight is
          cache,      \* sessionId, sessionTargetId, and whether it is recent
          preferred,  \* preferredTargetId
          pageEnabled, pendingDialogs,
          draining,   \* continuations are running: no more messages till they are done
          want,       \* the tab the script has switched to
          trouble     \* how much of MaxTrouble there has been

browser == <<tabs, attached, enabled, dialogs>>
page == <<pageEnabled, pendingDialogs>>
vars == <<browser, requests, wire, executed, calls, flight, cache, preferred, page,
          draining, want, trouble>>

Idle == [at |-> "idle", tabs |-> {}, active |-> None, session |-> None]
NoSession == [session |-> None, target |-> None, recent |-> FALSE]
NewCall == [at |-> "new", session |-> None, retried |-> FALSE, want |-> None]

Init == /\ tabs = Targets /\ dialogs = {} /\ enabled = {}
        /\ attached = <<>>
        /\ requests = {} /\ wire = <<>>
        /\ executed = [c \in Calls |-> 0]
        /\ calls = [c \in Calls |-> NewCall]
        /\ flight = Idle /\ cache = NoSession /\ preferred = None
        /\ pageEnabled = {} /\ pendingDialogs = {}
        /\ draining = FALSE /\ want = None /\ trouble = 0

Settled == {"done", "failed"}

\* A continuation is due: it runs before the thread does anything else than handle
\* what came in the same chunk.
Due == \/ flight.at \in {"listed", "attached", "refused", "paged"}
       \/ \E c \in Calls : calls[c].at = "lost"

Trouble == trouble < MaxTrouble /\ trouble' = trouble + 1

Request(from, what, arg) == [from |-> from, what |-> what, arg |-> arg, stale |-> FALSE]
Answer(r, result, value) ==
    [kind |-> "answer", from |-> r.from, result |-> result, value |-> value]

\* pending loses the entries of these: their answers are not waited for any more.
StaleRequests(froms) == {IF r.from \in froms THEN [r EXCEPT !.stale = TRUE] ELSE r : r \in requests}
Late == [kind |-> "late"]
LateAnswers(froms, w) ==
    [i \in DOMAIN w |-> IF w[i].kind = "answer" /\ w[i].from \in froms THEN Late ELSE w[i]]

-----------------------------------------------------------------------------
(***************************************************************************)
(* ensureSession and browserCdp.  A call waits for the flight there is, or *)
(* starts one, unless a recent session is there.                           *)
(***************************************************************************)

\* invalidateSession, and the sessions that lose their page state with it.
Invalidated(S) == IF cache.session = None THEN S ELSE S \ {cache.session}
InvalidateSession == /\ cache' = NoSession
                     /\ pageEnabled' = Invalidated(pageEnabled)
                     /\ pendingDialogs' = Invalidated(pendingDialogs)

Send(call, session) == [call EXCEPT !.at = "sent", !.session = session]

\* Call c goes on with session cache k.
EnsureSession(c, call, k) ==
    IF k.session # None /\ k.recent
    THEN /\ calls' = [calls EXCEPT ![c] = Send(call, k.session)]
         /\ requests' = requests \cup {Request(c, "command", k.session)}
         /\ UNCHANGED flight
    ELSE /\ calls' = [calls EXCEPT ![c] = [call EXCEPT !.at = "waiting"]]
         /\ IF flight.at # "idle" THEN UNCHANGED <<flight, requests>>
            ELSE /\ flight' = [Idle EXCEPT !.at = "listing"]
                 /\ requests' = requests \cup {Request("flight", "list", None)}

BrowserCdp(c) ==
    /\ ~Due /\ calls[c].at = "new"
    /\ EnsureSession(c, [calls[c] EXCEPT !.want = want], cache)
    /\ UNCHANGED <<browser, wire, executed, cache, preferred, page, draining, want, trouble>>

\* The catch of browserCdp, once.
Retry(c) ==
    /\ calls[c].at = "lost"
    /\ InvalidateSession
    /\ EnsureSession(c, [calls[c] EXCEPT !.retried = TRUE], NoSession)
    /\ UNCHANGED <<browser, wire, executed, preferred, want>>

Waiting == {c \in Calls : calls[c].at = "waiting"}

\* Page.enable, if the session has not had it; reqs: the requests besides.
EnablePageEvents(session, k, enabledPages) ==
    IF session = None \/ session \in enabledPages
    THEN \* sessionAt is now, and whoever waits gets what sessionId is by now.
         /\ cache' = [k EXCEPT !.recent = TRUE]
         /\ flight' = Idle
         /\ calls' = [c \in Calls |-> IF c \in Waiting THEN Send(calls[c], k.session) ELSE calls[c]]
         /\ requests' = requests \cup {Request(c, "command", k.session) : c \in Waiting}
    ELSE /\ cache' = k
         /\ flight' = [Idle EXCEPT !.at = "enabling", !.session = session]
         /\ requests' = requests \cup {Request("flight", "enable", session)}
         /\ UNCHANGED calls

FlightFails ==
    /\ flight' = Idle
    /\ calls' = [c \in Calls |-> IF c \in Waiting THEN [calls[c] EXCEPT !.at = "failed"] ELSE calls[c]]

\* The tab to attach to.
Picked == IF preferred \in flight.tabs THEN preferred ELSE flight.active

FlightListed ==
    /\ flight.at = "listed"
    /\ IF flight.tabs = {} THEN FlightFails /\ UNCHANGED <<cache, requests>>
       ELSE IF Picked # cache.target \/ cache.session = None
       THEN /\ flight' = [Idle EXCEPT !.at = "attaching", !.active = Picked]
            /\ requests' = requests \cup {Request("flight", "attach", Picked)}
            /\ UNCHANGED <<cache, calls>>
       ELSE EnablePageEvents(cache.session, cache, pageEnabled)
    /\ UNCHANGED <<browser, wire, executed, preferred, page, want>>

FlightAttached ==
    /\ flight.at = "attached"
    /\ EnablePageEvents(flight.session,
                        [cache EXCEPT !.session = flight.session, !.target = flight.active],
                        pageEnabled)
    /\ UNCHANGED <<browser, wire, executed, preferred, page, want>>

FlightRefused ==
    /\ flight.at = "refused"
    /\ FlightFails
    /\ UNCHANGED <<browser, requests, wire, executed, cache, preferred, page, want>>

\* active is not None when Page.enable succeeded; a failure is ignored.
FlightPaged ==
    /\ flight.at = "paged"
    /\ pageEnabled' = pageEnabled \cup ({flight.session} \ {None})
    /\ EnablePageEvents(None, cache, {})
    /\ UNCHANGED <<browser, wire, executed, preferred, pendingDialogs, want>>

Continue == /\ \/ \E c \in Calls : Retry(c)
               \/ FlightListed \/ FlightAttached \/ FlightRefused \/ FlightPaged
            /\ draining' = Due'
            /\ UNCHANGED trouble

-----------------------------------------------------------------------------
(* Timers. *)

(* Mutant: a command that timed out is sent again, as one whose session was lost. *)
TriesAgain(c) ==
    /\ ~Due /\ calls[c].at = "sent"
    /\ calls' = [calls EXCEPT ![c].at = IF calls[c].retried THEN "failed" ELSE "lost"]
    /\ requests' = StaleRequests({c}) /\ wire' = LateAnswers({c}, wire)
    /\ UNCHANGED <<browser, executed, flight, cache, preferred, page, draining, want, trouble>>
(* Mutant: the entry stays in pending. *)
KeepsItsEntry(c) ==
    /\ ~Due /\ calls[c].at = "sent"
    /\ calls' = [calls EXCEPT ![c].at = "failed"]
    /\ UNCHANGED <<browser, requests, wire, executed, flight, cache, preferred, page, draining,
                   want, trouble>>
Timeout(c) ==
    /\ ~Due /\ calls[c].at = "sent"
    /\ calls' = [calls EXCEPT ![c].at = "failed"]
    /\ requests' = StaleRequests({c}) /\ wire' = LateAnswers({c}, wire)
    /\ UNCHANGED <<browser, executed, flight, cache, preferred, page, draining, want, trouble>>

(* Mutant: attaching has no timer. *)
TimesOutEnabling ==
    /\ ~Due /\ flight.at = "enabling"
    /\ flight' = [Idle EXCEPT !.at = "paged"]
    /\ requests' = StaleRequests({"flight"}) /\ wire' = LateAnswers({"flight"}, wire)
    /\ UNCHANGED <<browser, executed, calls, cache, preferred, page, draining, want, trouble>>
FlightTimeout ==
    /\ ~Due /\ flight.at \in {"attaching", "enabling"}
    /\ flight' = IF flight.at = "attaching" THEN [Idle EXCEPT !.at = "refused"]
                 ELSE [Idle EXCEPT !.at = "paged"]
    /\ requests' = StaleRequests({"flight"}) /\ wire' = LateAnswers({"flight"}, wire)
    /\ UNCHANGED <<browser, executed, calls, cache, preferred, page, draining, want, trouble>>

Expire == /\ ~Due /\ cache.recent /\ Trouble
          /\ cache' = [cache EXCEPT !.recent = FALSE]
          /\ UNCHANGED <<browser, requests, wire, executed, calls, flight, preferred, page,
                         draining, want>>

-----------------------------------------------------------------------------
(* handleMessage and handleSendError, for the first message there is. *)

OnLate(m) == m.kind = "late" /\ UNCHANGED <<requests, calls, flight, cache, page>>

OnAnswer(m) ==
    /\ m.kind = "answer"
    /\ IF m.from \in Calls
       THEN /\ calls' = [calls EXCEPT ![m.from].at =
                           CASE m.result = "ok" -> "done"
                             [] m.result = "lost" /\ ~calls[m.from].retried -> "lost"
                             [] OTHER -> "failed"]
            /\ UNCHANGED flight
       ELSE /\ flight' = CASE flight.at = "listing" ->
                                [Idle EXCEPT !.at = "listed", !.tabs = m.value, !.active = m.result]
                           [] flight.at = "attaching" /\ m.result = "ok" ->
                                [flight EXCEPT !.at = "attached", !.session = m.value]
                           [] flight.at = "attaching" /\ m.result # "ok" -> [Idle EXCEPT !.at = "refused"]
                           [] OTHER ->
                                [Idle EXCEPT !.at = "paged",
                                             !.session = IF m.result = "ok" THEN m.value ELSE None]
            /\ UNCHANGED calls
    /\ UNCHANGED <<requests, cache, page>>

(* Mutant: the dialogs of the session stay. *)
KeepsItsDialog(m) ==
    /\ m.kind = "detached"
    /\ cache' = IF m.target = cache.target THEN NoSession ELSE cache
    /\ pageEnabled' = pageEnabled \ {m.session}
    /\ UNCHANGED <<requests, calls, flight, pendingDialogs>>
OnDetached(m) ==
    /\ m.kind = "detached"
    /\ IF m.target = cache.target
       THEN /\ cache' = NoSession
            /\ pageEnabled' = Invalidated(pageEnabled) \ {m.session}
            /\ pendingDialogs' = Invalidated(pendingDialogs) \ {m.session}
       ELSE /\ pageEnabled' = pageEnabled \ {m.session}
            /\ pendingDialogs' = pendingDialogs \ {m.session}
            /\ UNCHANGED cache
    /\ UNCHANGED <<requests, calls, flight>>

OnDialog(m) ==
    /\ m.kind = "dialog"
    /\ pendingDialogs' = IF m.open THEN pendingDialogs \cup {m.session}
                         ELSE pendingDialogs \ {m.session}
    /\ UNCHANGED <<requests, calls, flight, cache, pageEnabled>>

\* Every request on its way is rejected; whose failure it was is not known.
HandleSendError(m) ==
    /\ m.kind = "sendError"
    /\ calls' = [c \in Calls |-> IF calls[c].at = "sent" THEN [calls[c] EXCEPT !.at = "failed"]
                                 ELSE calls[c]]
    /\ flight' = CASE flight.at = "attaching" -> [Idle EXCEPT !.at = "refused"]
                   [] flight.at = "enabling" -> [Idle EXCEPT !.at = "paged"]
                   [] OTHER -> flight
    /\ UNCHANGED <<cache, page>>

Rejected == {c \in Calls : calls[c].at = "sent"}
            \cup IF flight.at \in {"attaching", "enabling"} THEN {"flight"} ELSE {}

HandleMessage ==
    /\ wire # <<>> /\ ~draining
    /\ LET m == Head(wire) IN
       \/ (OnLate(m) \/ OnAnswer(m) \/ OnDetached(m) \/ OnDialog(m)) /\ wire' = Tail(wire)
       \/ /\ HandleSendError(m)
          /\ requests' = StaleRequests(Rejected)
          /\ wire' = LateAnswers(Rejected, Tail(wire))
    /\ UNCHANGED <<browser, executed, preferred, draining, want, trouble>>

-----------------------------------------------------------------------------
(* Other helpers of the script. *)

\* What a call wanted it need not get after another switch.
Forgotten == [c \in Calls |-> IF calls[c].at = "new" THEN calls[c] ELSE [calls[c] EXCEPT !.want = None]]

(* Mutant: the cached session stays. *)
OnlyPrefers(t) ==
    /\ ~Due /\ Trouble
    /\ preferred' = t
    /\ want' = IF flight.at = "idle" THEN t ELSE None
    /\ calls' = Forgotten
    /\ UNCHANGED <<browser, requests, wire, executed, flight, cache, page, draining>>
\* The end of switchTab, and of createTab, once the browser has done its part.  A
\* createTab that names no target prefers what was preferred before: with nothing
\* preferred that is the effect of UseTaskSpace.
SwitchTab(t) ==
    /\ ~Due /\ Trouble
    /\ InvalidateSession
    /\ preferred' = t
    /\ want' = IF flight.at = "idle" THEN t ELSE None
    /\ calls' = Forgotten
    /\ UNCHANGED <<browser, requests, wire, executed, flight, draining>>

\* The methods wrapped by wrapInvalidating: another task space is current.
UseTaskSpace ==
    /\ ~Due /\ Trouble
    /\ InvalidateSession
    /\ preferred' = None
    /\ want' = None
    /\ calls' = Forgotten
    /\ UNCHANGED <<browser, requests, wire, executed, flight, draining>>

-----------------------------------------------------------------------------
(***************************************************************************)
(* The browser and the host.  A request may stay unanswered for ever.      *)
(***************************************************************************)
Answers(r, result, value) == /\ requests' = requests \ {r}
                             /\ wire' = IF r.stale THEN wire ELSE Append(wire, Answer(r, result, value))
Harness == <<calls, flight, cache, preferred, page, draining, want>>

\* An error is to the harness what a space without tabs is.
ListTabs(r) ==
    /\ r.what = "list"
    /\ \/ /\ \E t \in IF tabs = {} THEN {None} ELSE tabs : Answers(r, t, tabs)
          /\ UNCHANGED trouble
       \/ Trouble /\ Answers(r, None, {})
    /\ UNCHANGED <<browser, executed, Harness>>

AttachToTarget(r) ==
    /\ r.what = "attach"
    /\ \/ Answers(r, "error", None) /\ UNCHANGED attached
       \/ /\ r.arg \in tabs /\ Len(attached) < MaxSessions
          /\ attached' = Append(attached, r.arg)
          /\ Answers(r, "ok", Len(attached) + 1)
    /\ UNCHANGED <<tabs, enabled, dialogs, executed, Harness, trouble>>

PageEnable(r) ==
    /\ r.what = "enable"
    /\ IF attached[r.arg] = None THEN Answers(r, "lost", None) /\ UNCHANGED enabled
       ELSE Answers(r, "ok", r.arg) /\ enabled' = enabled \cup {r.arg}
    /\ UNCHANGED <<tabs, attached, dialogs, executed, Harness, trouble>>

\* Without a session the command is the browser's own, which has no such method.
Execute(r) ==
    /\ r.what = "command"
    /\ IF r.arg = None THEN Answers(r, "error", None) /\ UNCHANGED executed
       ELSE IF attached[r.arg] = None THEN Answers(r, "lost", None) /\ UNCHANGED executed
       ELSE /\ Answers(r, "ok", None)
            /\ executed' = [executed EXCEPT ![r.from] = @ + 1]
    /\ UNCHANGED <<browser, Harness, trouble>>

\* The host does not send it: the task is not active, or not the agent's.
RefuseToSend(r) ==
    /\ r.what # "list" /\ Trouble
    /\ requests' = requests \ {r}
    /\ wire' = Append(wire, [kind |-> "sendError"])
    /\ UNCHANGED <<browser, executed, Harness>>

SessionsOf(t) == {s \in DOMAIN attached : attached[s] = t}

CloseTab(t) ==
    /\ t \in tabs /\ Trouble
    /\ tabs' = tabs \ {t}
    /\ dialogs' = dialogs \ {t}
    /\ attached' = [s \in DOMAIN attached |-> IF attached[s] = t THEN None ELSE attached[s]]
    /\ \E order \in SetToSeqs(SessionsOf(t)) :
         wire' = wire \o [i \in DOMAIN order |->
                            [kind |-> "detached", session |-> order[i], target |-> t]]
    /\ UNCHANGED <<enabled, requests, executed, Harness>>

Dialog(t, open) ==
    /\ t \in tabs /\ open # (t \in dialogs) /\ Trouble
    /\ dialogs' = IF open THEN dialogs \cup {t} ELSE dialogs \ {t}
    /\ \E order \in SetToSeqs(SessionsOf(t) \cap enabled) :
         wire' = wire \o [i \in DOMAIN order |->
                            [kind |-> "dialog", session |-> order[i], open |-> open]]
    /\ UNCHANGED <<tabs, attached, enabled, requests, executed, Harness>>

Next == \/ \E c \in Calls : BrowserCdp(c) \/ Timeout(c)
        \/ Continue \/ FlightTimeout \/ Expire
        \/ HandleMessage
        \/ \E t \in Targets : SwitchTab(t)
        \/ UseTaskSpace
        \/ \E r \in requests : \/ ListTabs(r) \/ AttachToTarget(r) \/ PageEnable(r)
                               \/ Execute(r) \/ RefuseToSend(r)
        \/ \E t \in Targets, open \in BOOLEAN : CloseTab(t) \/ Dialog(t, open)

\* Timers fire, what arrives is handled, and the host answers listTabs, which has no
\* timer.
Spec == /\ Init /\ [][Next]_vars
        /\ WF_vars(\E c \in Calls : Timeout(c)) /\ WF_vars(FlightTimeout)
        /\ WF_vars(Continue) /\ WF_vars(HandleMessage)
        /\ WF_vars(\E r \in requests : ListTabs(r))
-----------------------------------------------------------------------------
TypeOK ==
    /\ tabs \subseteq Targets /\ dialogs \subseteq tabs /\ enabled \subseteq DOMAIN attached
    /\ attached \in Seq(tabs \cup {None}) /\ Len(attached) <= MaxSessions
    /\ cache \in [session : DOMAIN attached \cup {None}, target : Targets \cup {None}, recent : BOOLEAN]
    /\ pageEnabled \subseteq DOMAIN attached /\ pendingDialogs \subseteq pageEnabled \cup enabled
    /\ preferred \in Targets \cup {None}
    /\ \A c \in Calls : calls[c].at = "waiting" => flight.at # "idle"
    /\ \A r \in requests :
         ~r.stale => IF r.from \in Calls THEN calls[r.from].at = "sent"
                     ELSE flight.at \in {"listing", "attaching", "enabling"}

\* Whatever is lost, late, refused or tried again, a command takes effect at most
\* once, and one that is reported done has.
ExecutedOnce == \A c \in Calls : /\ executed[c] <= 1
                                 /\ calls[c].at = "done" => executed[c] = 1

\* A command issued after a switch goes to no other tab as long as that is open, if
\* no session was being looked up as the switch was made.
SwitchSticks ==
    \A c \in Calls :
      calls[c].at \in {"sent", "done"} /\ calls[c].session # None /\ calls[c].want \in tabs =>
          attached[calls[c].session] = calls[c].want

\* No dialog is reported that is not there: a pending one is open, or news of it is
\* on its way.
NoGhostDialog ==
    \A s \in pendingDialogs :
      \/ attached[s] \in dialogs
      \/ \E i \in DOMAIN wire : wire[i].kind \in {"dialog", "detached"} /\ wire[i].session = s

\* Every call comes back: no lost answer, error without an id or failed attach leaves
\* one waiting.
CallsSettle == []<>(\A c \in Calls : calls[c].at \in Settled \cup {"new"})
=============================================================================
