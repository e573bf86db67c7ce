---------------------------- MODULE PrismDomain ----------------------------
(***************************************************************************)
(* The Prism.* DevTools domain: one PrismDomainHandler per client session, *)
(* all of them over the one registry of spaces, together with the browser  *)
(* windows that host shown spaces and the actions of the user's chrome.    *)
(*                                                                         *)
(* Every action is one task of the browser's UI thread, which runs the     *)
(* whole handler.  A page (WebContents) is owned either by the handler     *)
(* that created it, headless, or by the tab strip of a window; what moves  *)
(* between the two and what dies where is the heart of this module.        *)
(*                                                                         *)
(* Windows are named by the address of their BrowserWindowInterface, the   *)
(* only thing the delegate keeps of them: an address is free again once    *)
(* its window is closed.                                                   *)
(***************************************************************************)
EXTENDS SpaceRegistry

CONSTANTS
    Clients,      \* client connections, each with its own browser session
    Windows       \* the addresses a browser window can live at

ASSUME PlacesDistinct ==
    {"unborn", "dead", "headless", "none"} \cap Windows = {}

VARIABLES
    up,           \* the browser process runs
    reg,          \* the SpaceManager singleton
    connected,    \* the clients with a live session
    selected,     \* selected_space_id_ of each session; NoSpace is nullopt
    tabs,         \* the keys of tabs_ of each session
    place,        \* where the page of each target id is
    window,       \* windows_: the window address kept for each space
    open,         \* the addresses of the windows that exist
    input         \* the parity of the driving commands a page has executed

vars == <<up, reg, connected, selected, tabs, place, window, open, input>>

NoSpace == 0
NoWindow == "none"
Place == {"unborn", "headless", "dead"} \cup Windows

TypeOK ==
    /\ up \in BOOLEAN
    /\ reg \in Registry
    /\ connected \subseteq Clients
    /\ selected \in [Clients -> {NoSpace} \cup SpaceId]
    /\ tabs \in [Clients -> SUBSET Targets]
    /\ place \in [Targets -> Place]
    /\ window \in [SpaceId -> {NoWindow} \cup Windows]
    /\ open \subseteq Windows
    /\ input \in [Targets -> {0, 1}]

Init ==
    /\ up = TRUE
    /\ reg = EmptyRegistry
    /\ connected = {}
    /\ selected = [c \in Clients |-> NoSpace]
    /\ tabs = [c \in Clients |-> {}]
    /\ place = [t \in Targets |-> "unborn"]
    /\ window = [s \in SpaceId |-> NoWindow]
    /\ open = {}
    /\ input = [t \in Targets |-> 0]

-----------------------------------------------------------------------------
(* What the handlers and the delegate look up. *)

Live(t) == place[t] = "headless" \/ place[t] \in open

(* RequireSelectedSpace, for the management commands and for the others. *)
Selected(c) == c \in connected /\ Exists(reg, selected[c])
(* Mutant: the page commands take the check of the management commands. *)
MayDriveAny(c) == Selected(c)
MayDrive(c) == Selected(c) /\ reg.spaces[selected[c]].ownership # "delegated"

(* ShouldBlockCommand, for a method with one of the driving prefixes. *)
ShouldBlock(c) == OwnedBy(reg, selected[c], "delegated")

(* FindSpaceWindow compares addresses, and forgets one that is not in use. *)
HasWindow(s) == window[s] \in open
Found(s) == [window EXCEPT ![s] = IF HasWindow(s) THEN @ ELSE NoWindow]

(* Mutant: the pages leave tabs_ and reach no tab strip. *)
ShowInWithout(s, w, moved) ==
    /\ IF HasWindow(s) THEN w = window[s] ELSE w \notin open
    /\ window' = [window EXCEPT ![s] = w]
    /\ open' = open \cup {w}
    /\ place' = place

(* The delegate's ShowTaskSpace: the window that hosts s, opened if needed *)
(* at an address w no window uses, and the moved pages in its tab strip.   *)
(* With no page to take a profile from and no profile loaded it gives up,  *)
(* and its callers mark the space shown all the same.                      *)
ShowIn(s, w, moved) ==
    \/ /\ IF HasWindow(s) THEN w = window[s] ELSE w \notin open
       /\ window' = [window EXCEPT ![s] = w]
       /\ open' = open \cup {w}
       /\ place' = [t \in Targets |-> IF t \in moved THEN w ELSE place[t]]
    \/ /\ ~ HasWindow(s)
       /\ moved = {}
       /\ window' = Found(s)
       /\ UNCHANGED <<open, place>>

-----------------------------------------------------------------------------
(* Sessions. *)

Connect(c) ==
    /\ up
    /\ c \notin connected
    /\ connected' = connected \cup {c}
    /\ UNCHANGED <<up, reg, selected, tabs, place, window, open, input>>

(* The session's handler dies with its headless pages; its destructor      *)
(* drops the observers first, so the registry is not told.                 *)
Disconnect(c) ==
    /\ up
    /\ c \in connected
    /\ connected' = connected \ {c}
    /\ selected' = [selected EXCEPT ![c] = NoSpace]
    /\ tabs' = [tabs EXCEPT ![c] = {}]
    /\ place' = [t \in Targets |-> IF t \in tabs[c] THEN "dead" ELSE place[t]]
    /\ UNCHANGED <<up, reg, window, open, input>>

-----------------------------------------------------------------------------
(* Prism.* commands of a session: task spaces. *)

CreateTaskSpace(c) ==
    /\ up
    /\ c \in connected
    /\ CanCreate(reg)
    /\ reg' = Create(reg, "agent")
    /\ UNCHANGED <<up, connected, selected, tabs, place, window, open, input>>

UseTaskSpace(c, s) ==
    /\ up
    /\ c \in connected
    /\ MayUse(reg, s)
    /\ selected' = [selected EXCEPT ![c] = s]
    /\ UNCHANGED <<up, reg, connected, tabs, place, window, open, input>>

ClaimTaskSpace(c, s) ==
    /\ up
    /\ c \in connected
    /\ Exists(reg, s)
    /\ reg' = Claim(reg, s)
    /\ selected' = [selected EXCEPT ![c] = s]
    /\ UNCHANGED <<up, connected, tabs, place, window, open, input>>

(* DestroyTab of every recorded tab: each erases this session's own entry, *)
(* so the pages of other sessions and of windows live on.  The records go  *)
(* with the space.                                                         *)
CloseTaskSpace(c) ==
    /\ up
    /\ Selected(c)
    /\ LET mine == tabs[c] \cap RecordedIn(reg, selected[c]) IN
         /\ tabs' = [tabs EXCEPT ![c] = @ \ mine]
         /\ place' = [t \in Targets |-> IF t \in mine THEN "dead" ELSE place[t]]
    /\ reg' = Close(reg, selected[c])
    /\ selected' = [selected EXCEPT ![c] = NoSpace]
    /\ UNCHANGED <<up, connected, window, open, input>>

(* Mutant: the session lets go of the space it hands off. *)
HandOffTaskSpaceLetsGo(c) ==
    /\ up
    /\ Selected(c)
    /\ reg' = HandOff(reg, selected[c])
    /\ selected' = [selected EXCEPT ![c] = NoSpace]
    /\ UNCHANGED <<up, connected, tabs, place, window, open, input>>

HandOffTaskSpace(c) ==
    /\ up
    /\ Selected(c)
    /\ reg' = HandOff(reg, selected[c])
    /\ UNCHANGED <<up, connected, selected, tabs, place, window, open, input>>

TakeOverTaskSpace(c) ==
    /\ up
    /\ Selected(c)
    /\ reg' = TakeOver(reg, selected[c])
    /\ UNCHANGED <<up, connected, selected, tabs, place, window, open, input>>

-----------------------------------------------------------------------------
(* Prism.* commands of a session: tabs and windows. *)

(* A space that is marked shown gets the new page in its window.  The page *)
(* goes to AppendTabToSpaceWindow by value, so when that finds no window   *)
(* the page is destroyed and the handler keeps a null pointer under its    *)
(* target id.                                                              *)
CreateTab(c, t) ==
    /\ up
    /\ MayDrive(c)
    /\ place[t] = "unborn"
    /\ LET s == selected[c]
           shown == reg.spaces[s].shown
           keep == ~ shown \/ ~ HasWindow(s)
       IN  /\ reg' = AddTab(reg, s, t)
           /\ place' = [place EXCEPT ![t] = IF ~ shown THEN "headless"
                                            ELSE IF HasWindow(s) THEN window[s]
                                            ELSE "dead"]
           /\ tabs' = [tabs EXCEPT ![c] = IF keep THEN @ \cup {t} ELSE @]
           /\ window' = IF shown THEN Found(s) ELSE window
    /\ UNCHANGED <<up, connected, selected, open, input>>

(* Any session may show any space.  Its own tabs of that space move to the *)
(* window; a null pointer among them is dereferenced, which ends the       *)
(* browser.                                                                *)
ShowTaskSpace(c, s) ==
    /\ up
    /\ c \in connected
    /\ Exists(reg, s)
    /\ LET moving == tabs[c] \cap RecordedIn(reg, s) IN
         IF \E t \in moving : place[t] = "dead"
           THEN /\ up' = FALSE
                /\ UNCHANGED <<reg, tabs, place, window, open>>
           ELSE /\ \E w \in Windows : ShowIn(s, w, moving)
                /\ tabs' = [tabs EXCEPT ![c] = @ \ moving]
                /\ reg' = SetWindowShown(reg, s)
                /\ up' = up
    /\ UNCHANGED <<connected, selected, input>>

AnimationHighlight(c) ==
    /\ up
    /\ MayDrive(c)
    /\ window' = Found(selected[c])
    /\ UNCHANGED <<up, reg, connected, selected, tabs, place, open, input>>

(* A raw driving command on a target session of this connection.  Which    *)
(* page it reaches is up to the client: Target.attachToTarget is not       *)
(* gated, and the policy is that of the root session alone.                *)
Drive(c, t) ==
    /\ up
    /\ c \in connected
    /\ Live(t)
    /\ ~ ShouldBlock(c)
    /\ input' = [input EXCEPT ![t] = 1 - @]
    /\ UNCHANGED <<up, reg, connected, selected, tabs, place, window, open>>

-----------------------------------------------------------------------------
(* Pages that close on their own. *)

(* window.close() of a headless page, or the arrival of an agent host's    *)
(* Close.  DestroyTab gets a reference to the key it erases from tabs_, so *)
(* RemoveTab searches for freed memory: it prunes the record or misses it. *)
CloseContents(c, t) ==
    /\ up
    /\ t \in tabs[c]
    /\ place[t] = "headless"
    /\ tabs' = [tabs EXCEPT ![c] = @ \ {t}]
    /\ place' = [place EXCEPT ![t] = "dead"]
    /\ reg' \in {RemoveTab(reg, t), reg}
    /\ UNCHANGED <<up, connected, selected, window, open, input>>

(* The safety net: a headless page destroyed by anything else. *)
OnTabWebContentsDestroyed(c, t) ==
    /\ up
    /\ t \in tabs[c]
    /\ place[t] = "headless"
    /\ tabs' = [tabs EXCEPT ![c] = @ \ {t}]
    /\ place' = [place EXCEPT ![t] = "dead"]
    /\ reg' = RemoveTab(reg, t)
    /\ UNCHANGED <<up, connected, selected, window, open, input>>

(* A page of a tab strip is no longer in any tabs_, so when it goes nobody *)
(* prunes its record.                                                      *)
CloseWindowTab(t) ==
    /\ up
    /\ place[t] \in open
    /\ place' = [place EXCEPT ![t] = "dead"]
    /\ UNCHANGED <<up, reg, connected, selected, tabs, window, open, input>>

-----------------------------------------------------------------------------
(* The user: windows, the wall, the agent banner and the cycling key. *)

OpenWindow(w) ==
    /\ up
    /\ w \notin open
    /\ open' = open \cup {w}
    /\ UNCHANGED <<up, reg, connected, selected, tabs, place, window, input>>

CloseWindow(w) ==
    /\ up
    /\ w \in open
    /\ open' = open \ {w}
    /\ place' = [t \in Targets |-> IF place[t] = w THEN "dead" ELSE place[t]]
    /\ UNCHANGED <<up, reg, connected, selected, tabs, window, input>>

WallCreate ==
    /\ up
    /\ CanCreate(reg)
    /\ reg' = Create(reg, "user")
    /\ UNCHANGED <<up, connected, selected, tabs, place, window, open, input>>

WallHandOff(s) ==
    /\ up
    /\ reg' = HandOff(reg, s)
    /\ UNCHANGED <<up, connected, selected, tabs, place, window, open, input>>

WallTakeOver(s) ==
    /\ up
    /\ reg' = TakeOver(reg, s)
    /\ UNCHANGED <<up, connected, selected, tabs, place, window, open, input>>

(* "Take over" on the banner is WallHandOff; "Stop agent" is this one. *)
BannerStopAgent(s) ==
    /\ up
    /\ reg' = StopAgent(reg, s)
    /\ UNCHANGED <<up, connected, selected, tabs, place, window, open, input>>

(* Every recorded page is asked to close.  A page without an unload        *)
(* handler goes at once, which shrinks the list being walked, so any of    *)
(* the others may be skipped; one that goes later, or never, is left to    *)
(* CloseContents and CloseWindowTab.                                       *)
CloseSpaces(S) ==
    /\ up
    /\ \E gone \in SUBSET {t \in UNION {RecordedIn(reg, s) : s \in S} : Live(t)} :
         /\ place' = [t \in Targets |-> IF t \in gone THEN "dead" ELSE place[t]]
         /\ tabs' = [c \in Clients |-> tabs[c] \ gone]
    /\ reg' = CloseAll(reg, S)
    /\ UNCHANGED <<up, connected, selected, window, open, input>>

WallClose(s) == CloseSpaces({s})
WallDeleteAll == CloseSpaces(Existing(reg))

(* The cards "view" and "focus", and "exitSpaces" of the window wall: the  *)
(* card may be of a space that is gone, or of the default one.             *)
WallFocus(s) ==
    /\ up
    /\ IF Exists(reg, s)
         THEN \E w \in Windows : ShowIn(s, w, {})
         ELSE UNCHANGED <<window, open, place>>
    /\ reg' = SetWindowShown(SetFocused(reg, s), s)
    /\ UNCHANGED <<up, connected, selected, tabs, input>>

CycleToNextSpace ==
    /\ up
    /\ LET next == NextOnWheel(reg) IN
         IF next # DefaultSpace /\ ~ HasWindow(next)
           THEN /\ \E w \in Windows : ShowIn(next, w, {})
                /\ reg' = SetWindowShown(SetFocused(reg, next), next)
           ELSE /\ reg' = SetFocused(reg, next)
                /\ UNCHANGED <<window, open, place>>
    /\ UNCHANGED <<up, connected, selected, tabs, input>>

(* The one-second timer looks every tracked window up. *)
SyncAgentSurfaces ==
    /\ up
    /\ window' = [s \in SpaceId |-> Found(s)[s]]
    /\ UNCHANGED <<up, reg, connected, selected, tabs, place, open, input>>

-----------------------------------------------------------------------------
Born == 1 .. reg.nextId - 1

ClientStep(c) ==
    \/ Connect(c) \/ Disconnect(c)
    \/ CreateTaskSpace(c) \/ CloseTaskSpace(c)
    \/ HandOffTaskSpace(c) \/ TakeOverTaskSpace(c) \/ AnimationHighlight(c)
    \/ \E s \in Born : \/ UseTaskSpace(c, s)
                       \/ ClaimTaskSpace(c, s)
                       \/ ShowTaskSpace(c, s)
    \/ \E t \in Targets : CreateTab(c, t) \/ Drive(c, t)

PageStep ==
    \E t \in Targets :
      \/ CloseWindowTab(t)
      \/ \E c \in Clients : CloseContents(c, t) \/ OnTabWebContentsDestroyed(c, t)

UserStep ==
    \/ WallCreate \/ WallDeleteAll \/ CycleToNextSpace \/ SyncAgentSurfaces
    \/ \E w \in Windows : OpenWindow(w) \/ CloseWindow(w)
    \/ \E s \in Born : \/ WallHandOff(s) \/ WallTakeOver(s)
                       \/ BannerStopAgent(s) \/ WallClose(s)
    \/ \E s \in {DefaultSpace} \cup Born : WallFocus(s)

Next == (\E c \in Clients : ClientStep(c)) \/ PageStep \/ UserStep

Spec == Init /\ [][Next]_vars
-----------------------------------------------------------------------------
(* Safety. *)

(* A page that is alive has exactly one owner: the one connected session    *)
(* whose tabs_ holds it, or the tab strip of one existing window.  Two      *)
(* unique_ptrs over the same page would free it twice, none would leak it.  *)
(* A session that is gone, and a page that is yet to come, own nothing.     *)
SoleOwner ==
    /\ \A t \in Targets :
         /\ place[t] = "headless" =>
              \E c \in connected : /\ t \in tabs[c]
                                   /\ \A d \in Clients \ {c} : t \notin tabs[d]
         /\ place[t] \in Windows \cup {"unborn"} => \A c \in Clients : t \notin tabs[c]
         /\ place[t] \in Windows => place[t] \in open
    /\ \A c \in Clients \ connected : tabs[c] = {}

(* The registry lists a tab in one place only, a space that has tabs has    *)
(* exactly one active tab, whatever order tabs are created, closed by their *)
(* page or lost in, and only pages that were born are listed: listTabs,     *)
(* snapshot and the filter of Target.getTargets rely on it.                 *)
OneActiveRecord ==
    /\ RegistryOK(reg)
    /\ \A t \in Recorded(reg) : place[t] # "unborn"

(* While a space is delegated to the user no session adds a tab to it, also *)
(* not one that selected it before another actor handed it off.             *)
NoNewTabWhileDelegated ==
    [][\A s \in SpaceId :
         OwnedBy(reg, s, "delegated") =>
           RecordedIn(reg', s) \subseteq RecordedIn(reg, s)]_vars

(* No page is forgotten: as long as no space was closed every living page,  *)
(* headless or in a window, whoever created it, is on the record of a space *)
(* and so within reach of listTabs, closeTaskSpace and the wall.            *)
LivePagesRecorded ==
    Born \subseteq Existing(reg) => \A t \in Targets : Live(t) => t \in Recorded(reg)

(* What a session has selected changes by its own doing only: no step       *)
(* changes it for two sessions, it goes to a space that exists and is not   *)
(* the user's, or to none in the step that closes the space.  So a hand-off,*)
(* a stop, or a closing by another session or the wall leaves a selection   *)
(* where it is, and no stale one ever comes to mean another space.          *)
SelectionStable ==
    [][/\ \A c \in connected \cap connected' : selected'[c] # selected[c] =>
            \/ Exists(reg', selected'[c]) /\ ~ OwnedBy(reg', selected'[c], "user")
            \/ selected'[c] = NoSpace /\ Exists(reg, selected[c]) /\ ~ Exists(reg', selected[c])
       /\ \A c, d \in Clients :
            selected'[c] # selected[c] /\ selected'[d] # selected[d] => c = d
       /\ \A c \in connected : Exists(reg', selected[c]) => Exists(reg, selected[c])]_vars

(* The user's own space becomes the agent's only in the hands of a session  *)
(* that selects it in the same step (ClaimTaskSpace): neither the wall, the *)
(* banner nor another session's takeOver brings it over.                    *)
UserSpaceIsClaimed ==
    [][\A s \in SpaceId :
         OwnedBy(reg, s, "user") /\ Exists(reg', s) /\ ~ OwnedBy(reg', s, "user")
           => /\ OwnedBy(reg', s, "agent")
              /\ \E c \in connected : selected'[c] = s]_vars

(* Handlers, wall, banner and cycling key together move each space through  *)
(* the life SpaceOwnership promises: ids are not reused, only the agent's   *)
(* space can be delegated, and no step changes two spaces except a closing. *)
Control == [s \in SpaceId |->
              IF Exists(reg, s) THEN reg.spaces[s].ownership
              ELSE IF s < reg.nextId THEN "closed" ELSE "unborn"]
Promise == INSTANCE SpaceOwnership WITH SpaceIds <- SpaceId, control <- Control
RefinesOwnership == Promise!Spec

-----------------------------------------------------------------------------
(* What comments say of the code, and the code does not do. *)

(* space_window_delegate.h: when the space has no live window the caller    *)
(* keeps the tab windowless, so tabs_ holds living pages.                   *)
TabKept == \A c \in Clients : \A t \in tabs[c] : place[t] = "headless"

(* space_manager.h, kAgentDelegatedToUser: the user is in control until     *)
(* take-over, so no agent drives the space's pages.                         *)
DelegatedPageUndriven ==
    [][\A s \in SpaceId, t \in Targets :
         OwnedBy(reg, s, "delegated") /\ t \in RecordedIn(reg, s)
           => input'[t] = input[t]]_vars
=============================================================================
