---------------------------- MODULE AgentSurfaces ----------------------------
(***************************************************************************)
(* The "Agent is in control" banner of PrismSpaceWindowDelegate: an info   *)
(* bar on the active tab of a space's window while the agent controls the  *)
(* space.  Nothing tells the delegate of a change of control, so a timer   *)
(* reconciles the bars with the registry once a second; in between tabs    *)
(* and windows close, tabs move, and the user presses what buttons a bar   *)
(* still shows.                                                            *)
(*                                                                         *)
(* Control changes as SpaceOwnership allows, which the registry behind the *)
(* DevTools handlers implements.  The names of spaces differ: a tab has no *)
(* two bars with the same text.                                            *)
(***************************************************************************)
EXTENDS FiniteSets

CONSTANTS Spaces, Windows, Tabs, NoWindow, NoTab

ASSUME SurfacesAssumption == NoWindow \notin Windows /\ NoTab \notin Tabs

VARIABLES control,    \* who controls each space, as SpaceManager has it
          windows,    \* windows_: the window opened for a space
          strips,     \* the tabs of each browser window; a closed one has none
          active,     \* the active tab of each window
          bars,       \* the info bars there are: <<tab, space>>
          banners,    \* banners_: the tab whose bar is tracked for a space
          dismissed,  \* dismissed_banners_
          closed,     \* history: whose bar the user closed in this stint of the agent
          missed      \* history: ... in a stint whose end no tick has seen yet

vars == <<control, windows, strips, active, bars, banners, dismissed, closed, missed>>
history == <<closed, missed>>
browser == <<strips, active>>

Ownership == INSTANCE SpaceOwnership WITH SpaceIds <- Spaces

Init == /\ Ownership!Init
        /\ windows = [s \in Spaces |-> NoWindow]
        /\ strips = [w \in Windows |-> {}]
        /\ active = [w \in Windows |-> NoTab]
        /\ bars = {}
        /\ banners = [s \in Spaces |-> NoTab]
        /\ dismissed = {}
        /\ closed = {}
        /\ missed = {}

InControl(s) == control[s] = "agent"
Exists(s) == control[s] \in Ownership!Alive
Hosted(t) == \E w \in Windows : t \in strips[w]

\* What is still pointed to is not allocated again (raw_ptr).
FreshWindow(w) == strips[w] = {} /\ \A s \in Spaces : windows[s] # w
FreshTabs == {t \in Tabs : ~Hosted(t) /\ \A s \in Spaces : banners[s] # t}

-----------------------------------------------------------------------------
(* Other handlers, and the pages and the user of the browser. *)

\* With these controllers the stints of the others are over.
StintsEnd(controllers) ==
    /\ closed' = {s \in closed : controllers[s] = "agent"}
    /\ missed' = missed \cup (closed \ closed')

ControlMoves == /\ Ownership!Next
                /\ StintsEnd(control')
                /\ UNCHANGED <<windows, strips, active, bars, banners, dismissed>>

Activate(w, t) == /\ t \in strips[w] \ {active[w]}
                  /\ active' = [active EXCEPT ![w] = t]
                  /\ UNCHANGED <<control, windows, strips, bars, banners, dismissed, history>>

\* A window of the user's own.
OpenWindow(w, t) ==
    /\ FreshWindow(w) /\ t \in FreshTabs
    /\ strips' = [strips EXCEPT ![w] = {t}]
    /\ active' = [active EXCEPT ![w] = t]
    /\ UNCHANGED <<control, windows, bars, banners, dismissed, history>>

\* Of the tabs that stay one becomes the active one.
Leaves(gone, w) ==
    IF strips[w] \subseteq gone THEN {NoTab}
    ELSE IF active[w] \in gone THEN strips[w] \ gone ELSE {active[w]}

\* One tab, or all of a window: the bars go with their tabs.
CloseTabs(w, gone) ==
    /\ gone # {} /\ (gone = strips[w] \/ \E t \in strips[w] : gone = {t})
    /\ strips' = [strips EXCEPT ![w] = @ \ gone]
    /\ \E t \in Leaves(gone, w) : active' = [active EXCEPT ![w] = t]
    /\ bars' = {b \in bars : b[1] \notin gone}
    /\ UNCHANGED <<control, windows, banners, dismissed, history>>

\* To another window or out to a new one; the tab keeps its bars.
DragTab(t, from, to) ==
    /\ t \in strips[from] /\ from # to
    /\ strips[to] # {} \/ (FreshWindow(to) /\ strips[from] # {t})
    /\ strips' = [strips EXCEPT ![from] = @ \ {t}, ![to] = @ \cup {t}]
    /\ \E u \in Leaves({t}, from) : active' = [active EXCEPT ![from] = u, ![to] = t]
    /\ UNCHANGED <<control, windows, bars, banners, dismissed, history>>

\* The bars of a tab expire when it navigates.
Navigate(t) == /\ \E s \in Spaces : <<t, s>> \in bars
               /\ bars' = {b \in bars : b[1] # t}
               /\ UNCHANGED <<control, windows, browser, banners, dismissed, history>>

-----------------------------------------------------------------------------
(* The delegate. *)

(* Mutant: the window is not looked for among the open ones. *)
FindSpaceWindowAsKept(s) == windows[s]

\* The window of a space, if it is still open; a lookup prunes what is not.
FindSpaceWindow(s) ==
    IF windows[s] \in Windows /\ strips[windows[s]] # {} THEN windows[s] ELSE NoWindow

\* AppendTabToSpaceWindow, FocusSpaceWindow and AnimateClickHighlight begin so,
\* and SpaceIdForWebContents is a row of these.
LookUp(s) == /\ windows[s] # FindSpaceWindow(s)
             /\ windows' = [windows EXCEPT ![s] = FindSpaceWindow(s)]
             /\ UNCHANGED <<control, browser, bars, banners, dismissed, history>>

AppendTabToSpaceWindow(s, t) ==
    /\ FindSpaceWindow(s) # NoWindow /\ t \in FreshTabs
    /\ strips' = [strips EXCEPT ![windows[s]] = @ \cup {t}]
    /\ UNCHANGED <<control, windows, active, bars, banners, dismissed, history>>

\* A window opens with its identity tab.
ShowTaskSpace(s, w, t) ==
    /\ Exists(s) /\ FindSpaceWindow(s) = NoWindow
    /\ FreshWindow(w) /\ t \in FreshTabs
    /\ windows' = [windows EXCEPT ![s] = w]
    /\ strips' = [strips EXCEPT ![w] = {t}]
    /\ active' = [active EXCEPT ![w] = t]
    /\ UNCHANGED <<control, bars, banners, dismissed, history>>

RemoveBar(t, s) == <<t, s>> \in bars /\ bars' = bars \ {<<t, s>>}

\* A pressed button removes its bar, which stays tracked until the next tick.
\* The bar may be a second old: control may have gone elsewhere.
Accept(t, s) ==
    /\ RemoveBar(t, s)
    /\ Ownership!HandOff(s) \/ (~InControl(s) /\ UNCHANGED control)
    /\ StintsEnd(control')
    /\ UNCHANGED <<windows, browser, banners, dismissed>>

Cancel(t, s) ==
    /\ RemoveBar(t, s)
    /\ Ownership!StopAgent(s) \/ (control[s] \notin {"agent", "delegated"} /\ UNCHANGED control)
    /\ StintsEnd(control')
    /\ UNCHANGED <<windows, browser, banners, dismissed>>

OnBannerDismissed(t, s) ==
    /\ RemoveBar(t, s)
    /\ dismissed' = dismissed \cup {s}
    /\ banners' = [banners EXCEPT ![s] = NoTab]
    /\ IF InControl(s) THEN closed' = closed \cup {s} /\ UNCHANGED missed
                       ELSE missed' = missed \cup {s} /\ UNCHANGED closed
    /\ UNCHANGED <<control, windows, browser>>

(***************************************************************************)
(* The timer.  ids is what windows_ has as it fires; a space not in it is  *)
(* left alone.                                                             *)
(***************************************************************************)
ActiveTab(s) == IF FindSpaceWindow(s) = NoWindow THEN NoTab ELSE active[FindSpaceWindow(s)]
Tracked(s) == IF Hosted(banners[s]) /\ <<banners[s], s>> \in bars THEN banners[s] ELSE NoTab

(* Mutant: a bar is shown whether the user closed it or not. *)
AddsAgain(s) == InControl(s) /\ ActiveTab(s) \notin {NoTab, Tracked(s)}

(* Mutant: a space whose bar is still on some tab gets no new one. *)
AddsOnce(s) == InControl(s) /\ ActiveTab(s) # NoTab /\ s \notin dismissed /\ Tracked(s) = NoTab

Adds(s) == InControl(s) /\ ActiveTab(s) \notin {NoTab, Tracked(s)} /\ s \notin dismissed

(* Mutant: the bar of the tab that was active stays. *)
RetiresWhenOver(s) == ~InControl(s)

(* Mutant: only the bar of the tab that was active goes. *)
RetiresWhenMoved(s) == Adds(s)

Retires(s) == Adds(s) \/ ~InControl(s)

SyncedBanner(s) == IF Adds(s) THEN ActiveTab(s)
                   ELSE IF Retires(s) THEN NoTab ELSE Tracked(s)

(* Mutant: a dismissal is never forgotten. *)
StaysDismissedForGood(s) == s \in dismissed

\* "re-arm for the next agent stint"
StaysDismissed(s) == s \in dismissed /\ (windows[s] # NoWindow => InControl(s))

SyncAgentSurfaces ==
    LET ids == {s \in Spaces : windows[s] # NoWindow}
    IN /\ windows' = [s \in Spaces |-> FindSpaceWindow(s)]
       /\ dismissed' = {s \in Spaces : StaysDismissed(s)}
       /\ banners' = [s \in Spaces |-> IF s \in ids THEN SyncedBanner(s) ELSE banners[s]]
       /\ bars' = (bars \ {<<Tracked(s), s>> : s \in {i \in ids : Retires(i)}})
                  \cup {<<ActiveTab(s), s>> : s \in {i \in ids : Adds(i)}}
       /\ missed' = {s \in missed : s \in ids => InControl(s)}
       /\ UNCHANGED <<control, browser, closed>>

User == \/ \E w \in Windows : \/ \E t \in Tabs : Activate(w, t) \/ OpenWindow(w, t)
                              \/ \E gone \in SUBSET strips[w] : CloseTabs(w, gone)
        \/ \E t \in Tabs, v, w \in Windows : DragTab(t, v, w)
        \/ \E t \in Tabs, s \in Spaces : \/ Accept(t, s)
                                         \/ Cancel(t, s)
                                         \/ OnBannerDismissed(t, s)

Next == \/ ControlMoves
        \/ User
        \/ \E t \in Tabs : Navigate(t)
        \/ \E s \in Spaces :
             \/ LookUp(s)
             \/ \E t \in Tabs : AppendTabToSpaceWindow(s, t)
             \/ \E w \in Windows, t \in Tabs : ShowTaskSpace(s, w, t)
        \/ SyncAgentSurfaces

Spec == Init /\ [][Next]_vars /\ WF_vars(SyncAgentSurfaces)
-----------------------------------------------------------------------------
\* A tab is in one strip, an open window has an active tab of its own, a tab with
\* a bar is in a window, and no two spaces have the same window.
TypeOK ==
    /\ Ownership!TypeOK
    /\ windows \in [Spaces -> Windows \cup {NoWindow}]
    /\ strips \in [Windows -> SUBSET Tabs]
    /\ active \in [Windows -> Tabs \cup {NoTab}]
    /\ bars \subseteq Tabs \X Spaces
    /\ banners \in [Spaces -> Tabs \cup {NoTab}]
    /\ dismissed \subseteq Spaces
    /\ closed \subseteq Spaces /\ missed \subseteq Spaces
    /\ \A v, w \in Windows : v # w => strips[v] \cap strips[w] = {}
    /\ \A w \in Windows : IF strips[w] = {} THEN active[w] = NoTab ELSE active[w] \in strips[w]
    /\ \A b \in bars : Hosted(b[1])
    /\ \A r, s \in Spaces : windows[r] = windows[s] /\ windows[r] # NoWindow => r = s

\* No bar is left behind untracked: wherever its tab was dragged, a space has at
\* most one bar, and it is the one the next tick would find and remove.
OneBannerEach == \A b \in bars : banners[b[2]] = b[1]

\* A bar the user closed does not come back while the agent stays in control,
\* though its window closes, opens again, and its entry is pruned in between.
ClosedStaysClosed == \A s \in closed : \A t \in Tabs : <<t, s>> \notin bars

\* A banner that is due: the agent is in control, and the window is open.
Due(s) == InControl(s) /\ ActiveTab(s) # NoTab

\* Again and again all banners are right at once: each space in the agent's control
\* with an open window has it on the tab that is active now, unless the user closed
\* it in this stint, or in one whose end went unseen.  What the delegate remembers
\* as dismissed is no excuse: that the agent lost control must re-arm the banner
\* with the first tick that can see it.
BannerShown ==
    []<>(\A s \in Spaces : Due(s) /\ s \notin closed \cup missed => <<ActiveTab(s), s>> \in bars)

\* And again and again no bar outlives the agent's control, of the spaces that the
\* delegate knows a window of.
StaleBannerGoes ==
    []<>(\A t \in Tabs, s \in Spaces :
           <<t, s>> \in bars /\ windows[s] # NoWindow => InControl(s))
=============================================================================
