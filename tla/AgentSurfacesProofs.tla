------------------------ MODULE AgentSurfacesProofs ------------------------
(***************************************************************************)
(* Type correctness of AgentSurfaces and its two safety invariants, for    *)
(* any spaces, windows and tabs.                                           *)
(*                                                                         *)
(* OneBannerEach is inductive with the types.  ClosedStaysClosed needs to  *)
(* know why a closed bar stays away: as long as the agent is in control,   *)
(* the dismissal is remembered, whatever becomes of the window.  And what  *)
(* is remembered is no more than what happened: a bar closed in this stint *)
(* of the agent, or in one whose end no tick has seen.                     *)
(***************************************************************************)
EXTENDS AgentSurfaces, TLAPS

Remembered == dismissed = closed \cup missed /\ \A s \in closed : InControl(s)

Inv == TypeOK /\ OneBannerEach /\ Remembered /\ ClosedStaysClosed

(* Control stays typed, as SpaceOwnership has it. *)
LEMMA ControlTyped ==
    ASSUME Ownership!TypeOK, Ownership!Next PROVE Ownership!TypeOK'
<1>1. ASSUME NEW s \in Spaces, Ownership!Create(s) PROVE Ownership!TypeOK'
  BY <1>1 DEF Ownership!Create, Ownership!Move, Ownership!TypeOK, Ownership!Stage
<1>2. ASSUME NEW s \in Spaces, Ownership!Claim(s) PROVE Ownership!TypeOK'
  BY <1>2 DEF Ownership!Claim, Ownership!Move, Ownership!TypeOK, Ownership!Stage
<1>3. ASSUME NEW s \in Spaces, Ownership!HandOff(s) PROVE Ownership!TypeOK'
  BY <1>3 DEF Ownership!HandOff, Ownership!Move, Ownership!TypeOK, Ownership!Stage
<1>4. ASSUME NEW s \in Spaces, Ownership!TakeOver(s) PROVE Ownership!TypeOK'
  BY <1>4 DEF Ownership!TakeOver, Ownership!Move, Ownership!TypeOK, Ownership!Stage
<1>5. ASSUME NEW s \in Spaces, Ownership!StopAgent(s) PROVE Ownership!TypeOK'
  BY <1>5 DEF Ownership!StopAgent, Ownership!Move, Ownership!TypeOK, Ownership!Stage
<1>6. ASSUME Ownership!CloseSome PROVE Ownership!TypeOK'
  BY <1>6 DEF Ownership!CloseSome, Ownership!TypeOK, Ownership!Stage
<1> QED BY <1>1, <1>2, <1>3, <1>4, <1>5, <1>6 DEF Ownership!Next

(* A button moves the control of its own space only. *)
LEMMA ButtonMoves ==
    ASSUME Ownership!TypeOK, NEW s \in Spaces,
           Ownership!HandOff(s) \/ Ownership!StopAgent(s) \/ UNCHANGED control
    PROVE  /\ Ownership!TypeOK'
           /\ \A r \in Spaces \ {s} : control'[r] = control[r]
           /\ [Ownership!Next]_control
<1>1. CASE Ownership!HandOff(s)
  BY <1>1 DEF Ownership!HandOff, Ownership!Move, Ownership!TypeOK, Ownership!Stage, Ownership!Next
<1>2. CASE Ownership!StopAgent(s)
  BY <1>2 DEF Ownership!StopAgent, Ownership!Move, Ownership!TypeOK, Ownership!Stage,
              Ownership!Next
<1>3. CASE UNCHANGED control
  BY <1>3 DEF Ownership!TypeOK
<1> QED BY <1>1, <1>2, <1>3

(* The tab that becomes active is one of those that stay. *)
LEMMA LeavesOne ==
    ASSUME TypeOK, NEW w \in Windows, strips[w] # {},
           NEW gone, NEW t \in Leaves(gone, w)
    PROVE  IF strips[w] \ gone = {} THEN t = NoTab ELSE t \in strips[w] \ gone
<1>1. active[w] \in strips[w]
  BY DEF TypeOK
<1> QED BY <1>1 DEF Leaves

(* An open window has an active tab, which is in it. *)
LEMMA ActiveTabHosted ==
    ASSUME TypeOK, NEW s \in Spaces, ActiveTab(s) # NoTab
    PROVE  ActiveTab(s) \in Tabs /\ Hosted(ActiveTab(s))
<1>1. /\ FindSpaceWindow(s) # NoWindow
      /\ ActiveTab(s) = active[FindSpaceWindow(s)]
  BY DEF ActiveTab
<1>2. FindSpaceWindow(s) \in Windows /\ strips[FindSpaceWindow(s)] # {}
  BY <1>1 DEF FindSpaceWindow
<1>3. ActiveTab(s) \in strips[FindSpaceWindow(s)]
  BY <1>1, <1>2 DEF TypeOK
<1> QED BY <1>2, <1>3 DEF Hosted, TypeOK

-----------------------------------------------------------------------------
LEMMA InitInv == Init => Inv
<1> SUFFICES ASSUME Init PROVE Inv
  OBVIOUS
<1>1. TypeOK
  BY SurfacesAssumption DEF Init, TypeOK, Ownership!Init, Ownership!TypeOK, Ownership!Stage
<1> QED BY <1>1 DEF Init, Inv, OneBannerEach, Remembered, ClosedStaysClosed

(* Strips and windows: the steps that leave control and what is dismissed. *)
LEMMA BrowserSteps ==
    ASSUME Inv,
           \/ \E w \in Windows, t \in Tabs : Activate(w, t) \/ OpenWindow(w, t)
           \/ \E w \in Windows : \E gone \in SUBSET strips[w] : CloseTabs(w, gone)
           \/ \E t \in Tabs, v, w \in Windows : DragTab(t, v, w)
           \/ \E t \in Tabs : Navigate(t)
           \/ \E s \in Spaces : LookUp(s)
           \/ \E s \in Spaces, t \in Tabs : AppendTabToSpaceWindow(s, t)
           \/ \E s \in Spaces, w \in Windows, t \in Tabs : ShowTaskSpace(s, w, t)
    PROVE  Inv' /\ UNCHANGED control
<1> USE SurfacesAssumption
<1>1. ASSUME NEW w \in Windows, NEW t \in Tabs, Activate(w, t)
      PROVE  Inv' /\ UNCHANGED control
  <2>1. TypeOK'
    BY <1>1 DEF Activate, history, Inv, TypeOK, Hosted, Ownership!TypeOK
  <2> QED BY <1>1, <2>1
          DEF Activate, history, Inv, OneBannerEach, Remembered, ClosedStaysClosed, InControl
<1>2. ASSUME NEW w \in Windows, NEW t \in Tabs, OpenWindow(w, t)
      PROVE  Inv' /\ UNCHANGED control
  <2>1. TypeOK'
    BY <1>2 DEF OpenWindow, history, FreshWindow, FreshTabs, Inv, TypeOK, Hosted, Ownership!TypeOK
  <2> QED BY <1>2, <2>1
          DEF OpenWindow, history, Inv, OneBannerEach, Remembered, ClosedStaysClosed, InControl
<1>3. ASSUME NEW w \in Windows, NEW gone \in SUBSET strips[w], CloseTabs(w, gone)
      PROVE  Inv' /\ UNCHANGED control
  <2>1. PICK t \in Leaves(gone, w) : active' = [active EXCEPT ![w] = t]
    BY <1>3 DEF CloseTabs, history
  <2>2. IF strips[w] \ gone = {} THEN t = NoTab ELSE t \in strips[w] \ gone
    BY <1>3, LeavesOne DEF CloseTabs, history, Inv
  <2>3. \A b \in bars' : Hosted(b[1])'
    BY <1>3 DEF CloseTabs, history, Inv, TypeOK, Hosted
  <2>4. TypeOK'
    BY <1>3, <2>1, <2>2, <2>3 DEF CloseTabs, history, Inv, TypeOK, Ownership!TypeOK
  <2> QED BY <1>3, <2>4
          DEF CloseTabs, history, Inv, OneBannerEach, Remembered, ClosedStaysClosed, InControl
<1>4. ASSUME NEW t \in Tabs, NEW v \in Windows, NEW w \in Windows, DragTab(t, v, w)
      PROVE  Inv' /\ UNCHANGED control
  <2>1. PICK u \in Leaves({t}, v) : active' = [active EXCEPT ![v] = u, ![w] = t]
    BY <1>4 DEF DragTab, history
  <2>2. IF strips[v] \ {t} = {} THEN u = NoTab ELSE u \in strips[v] \ {t}
    BY <1>4, LeavesOne DEF DragTab, history, Inv
  <2>3. \A b \in bars' : Hosted(b[1])'
    BY <1>4 DEF DragTab, history, Inv, TypeOK, Hosted
  <2>4. TypeOK'
    BY <1>4, <2>1, <2>2, <2>3 DEF DragTab, history, Inv, TypeOK, Ownership!TypeOK
  <2> QED BY <1>4, <2>4
          DEF DragTab, history, Inv, OneBannerEach, Remembered, ClosedStaysClosed, InControl
<1>5. ASSUME NEW t \in Tabs, Navigate(t)
      PROVE  Inv' /\ UNCHANGED control
  <2>1. TypeOK'
    BY <1>5 DEF Navigate, history, browser, Inv, TypeOK, Hosted, Ownership!TypeOK
  <2> QED BY <1>5, <2>1
          DEF Navigate, history, Inv, OneBannerEach, Remembered, ClosedStaysClosed, InControl
<1>6. ASSUME NEW s \in Spaces, LookUp(s)
      PROVE  Inv' /\ UNCHANGED control
  <2>1. TypeOK'
    BY <1>6 DEF LookUp, history, FindSpaceWindow, browser, Inv, TypeOK, Hosted, Ownership!TypeOK
  <2> QED BY <1>6, <2>1
          DEF LookUp, history, Inv, OneBannerEach, Remembered, ClosedStaysClosed, InControl
<1>7. ASSUME NEW s \in Spaces, NEW t \in Tabs, AppendTabToSpaceWindow(s, t)
      PROVE  Inv' /\ UNCHANGED control
  <2>1. windows[s] \in Windows /\ strips[windows[s]] # {}
    BY <1>7 DEF AppendTabToSpaceWindow, FindSpaceWindow
  <2>2. TypeOK'
    BY <1>7, <2>1 DEF AppendTabToSpaceWindow, history, FreshTabs, Inv, TypeOK, Hosted, Ownership!TypeOK
  <2> QED BY <1>7, <2>2
          DEF AppendTabToSpaceWindow, history, Inv, OneBannerEach, Remembered, ClosedStaysClosed, InControl
<1>8. ASSUME NEW s \in Spaces, NEW w \in Windows, NEW t \in Tabs, ShowTaskSpace(s, w, t)
      PROVE  Inv' /\ UNCHANGED control
  <2>1. TypeOK'
    BY <1>8 DEF ShowTaskSpace, history, FreshWindow, FreshTabs, Inv, TypeOK, Hosted, Ownership!TypeOK
  <2> QED BY <1>8, <2>1
          DEF ShowTaskSpace, history, Inv, OneBannerEach, Remembered, ClosedStaysClosed, InControl
<1> QED BY <1>1, <1>2, <1>3, <1>4, <1>5, <1>6, <1>7, <1>8

(* Control, and the buttons of a bar. *)
LEMMA UserSteps ==
    ASSUME Inv,
           \/ ControlMoves
           \/ \E t \in Tabs, s \in Spaces : Accept(t, s) \/ Cancel(t, s) \/ OnBannerDismissed(t, s)
    PROVE  Inv' /\ [Ownership!Next]_control
<1>1. CASE ControlMoves
  <2>1. Ownership!TypeOK'
    BY <1>1, ControlTyped DEF ControlMoves, StintsEnd, Inv, TypeOK
  <2>2. TypeOK'
    BY <1>1, <2>1 DEF ControlMoves, StintsEnd, Inv, TypeOK, Hosted
  <2> QED BY <1>1, <2>2 DEF ControlMoves, StintsEnd, Inv, OneBannerEach, Remembered, ClosedStaysClosed, InControl
<1>2. ASSUME NEW t \in Tabs, NEW s \in Spaces, Accept(t, s) \/ Cancel(t, s)
      PROVE  Inv' /\ [Ownership!Next]_control
  <2>1. /\ bars' = bars \ {<<t, s>>} /\ StintsEnd(control')
        /\ UNCHANGED <<windows, strips, active, banners, dismissed>>
    BY <1>2 DEF Accept, Cancel, RemoveBar, browser
  <2>2. /\ Ownership!TypeOK'
        /\ \A r \in Spaces \ {s} : control'[r] = control[r]
        /\ [Ownership!Next]_control
    BY <1>2, ButtonMoves DEF Accept, Cancel, Inv, TypeOK
  <2>3. TypeOK'
    BY <2>1, <2>2 DEF StintsEnd, Inv, TypeOK, Hosted
  <2>4. Remembered'
    BY <2>1 DEF StintsEnd, Inv, Remembered, InControl
  <2> QED BY <2>1, <2>2, <2>3, <2>4 DEF StintsEnd, Inv, OneBannerEach, ClosedStaysClosed
<1>3. ASSUME NEW t \in Tabs, NEW s \in Spaces, OnBannerDismissed(t, s)
      PROVE  Inv' /\ [Ownership!Next]_control
  <2>1. /\ <<t, s>> \in bars /\ bars' = bars \ {<<t, s>>}
        /\ dismissed' = dismissed \cup {s}
        /\ banners' = [banners EXCEPT ![s] = NoTab]
        /\ IF InControl(s) THEN closed' = closed \cup {s} /\ UNCHANGED missed
                           ELSE missed' = missed \cup {s} /\ UNCHANGED closed
        /\ UNCHANGED <<control, windows, strips, active>>
    BY <1>3 DEF OnBannerDismissed, RemoveBar, browser
  <2>2. TypeOK'
    BY <2>1 DEF Inv, TypeOK, Hosted, Ownership!TypeOK
  <2>3. \A b \in bars' : b[2] # s
    <3>1. \A b \in bars : b = <<b[1], b[2]>> /\ (b[2] = s => b[1] = t)
      BY <2>1 DEF Inv, TypeOK, OneBannerEach
    <3> QED BY <2>1, <3>1
  <2>4. OneBannerEach'
    BY <2>1, <2>3 DEF Inv, TypeOK, OneBannerEach
  <2>5. Remembered'
    BY <2>1 DEF Inv, Remembered, InControl
  <2>6. ClosedStaysClosed'
    BY <2>1, <2>3 DEF Inv, ClosedStaysClosed
  <2> QED BY <2>1, <2>2, <2>4, <2>5, <2>6 DEF Inv
<1> QED BY <1>1, <1>2, <1>3

(* The tick: of each space that windows_ has, the tracked bar is the only   *)
(* one there is, so that it is gone when another tab gets one.              *)
LEMMA TickStep ==
    ASSUME Inv, SyncAgentSurfaces PROVE Inv' /\ UNCHANGED control
<1> USE SurfacesAssumption
<1> DEFINE ids == {s \in Spaces : windows[s] # NoWindow}
<1>1. /\ windows' = [s \in Spaces |-> FindSpaceWindow(s)]
      /\ dismissed' = {s \in dismissed : s \in ids => InControl(s)}
      /\ missed' = {s \in missed : s \in ids => InControl(s)}
      /\ banners' = [s \in Spaces |-> IF s \in ids THEN SyncedBanner(s) ELSE banners[s]]
      /\ bars' = (bars \ {<<Tracked(s), s>> : s \in {i \in ids : Retires(i)}})
                 \cup {<<ActiveTab(s), s>> : s \in {i \in ids : Adds(i)}}
      /\ UNCHANGED <<control, strips, active, closed>>
  BY DEF SyncAgentSurfaces, StaysDismissed, browser, Inv, TypeOK
<1>2. \A s \in Spaces : Adds(s) => ActiveTab(s) \in Tabs /\ Hosted(ActiveTab(s))
  BY ActiveTabHosted DEF Adds, Inv
<1>3. ASSUME NEW b \in bars
      PROVE  b[2] \in Spaces /\ b = <<b[1], b[2]>> /\ Tracked(b[2]) = b[1]
  BY DEF Inv, TypeOK, OneBannerEach, Tracked
<1>4. ASSUME NEW b \in bars'
      PROVE  \/ b \in bars /\ ~(b[2] \in ids /\ Retires(b[2]))
             \/ b[2] \in ids /\ Adds(b[2]) /\ b = <<ActiveTab(b[2]), b[2]>>
  <2>1. CASE b \in bars
    BY <1>1, <1>3, <2>1
  <2>2. CASE b \notin bars
    BY <1>1, <2>2
  <2> QED BY <2>1, <2>2
<1>5. TypeOK'
  <2>1. windows' \in [Spaces -> Windows \cup {NoWindow}]
    BY <1>1 DEF FindSpaceWindow
  <2>2. \A r, s \in Spaces : windows'[r] = windows'[s] /\ windows'[r] # NoWindow => r = s
    BY <1>1 DEF FindSpaceWindow, Inv, TypeOK
  <2>3. banners' \in [Spaces -> Tabs \cup {NoTab}]
    BY <1>1, <1>2 DEF SyncedBanner, Tracked, Inv, TypeOK
  <2>4. bars' \subseteq Tabs \X Spaces /\ \A b \in bars' : Hosted(b[1])'
    BY <1>1, <1>2, <1>4 DEF Inv, TypeOK, Hosted
  <2> QED BY <1>1, <2>1, <2>2, <2>3, <2>4 DEF Inv, TypeOK, Ownership!TypeOK
<1>6. OneBannerEach'
  <2> SUFFICES ASSUME NEW b \in bars' PROVE banners'[b[2]] = b[1]
    BY DEF OneBannerEach
  <2>1. CASE b \in bars /\ ~(b[2] \in ids /\ Retires(b[2]))
    BY <1>1, <1>3, <2>1 DEF SyncedBanner, Retires, Inv, OneBannerEach
  <2>2. CASE b[2] \in ids /\ Adds(b[2]) /\ b = <<ActiveTab(b[2]), b[2]>>
    BY <1>1, <2>2 DEF SyncedBanner
  <2> QED BY <1>4, <2>1, <2>2
<1>7. Remembered'
  BY <1>1 DEF Inv, Remembered, InControl
<1>8. ClosedStaysClosed'
  <2> SUFFICES ASSUME NEW s \in closed, NEW t \in Tabs, <<t, s>> \in bars' PROVE FALSE
    BY <1>1 DEF ClosedStaysClosed
  <2>1. <<t, s>> \notin bars
    BY DEF Inv, ClosedStaysClosed
  <2>2. s \in dismissed
    BY DEF Inv, Remembered
  <2> QED BY <1>4, <2>1, <2>2 DEF Adds
<1> QED BY <1>1, <1>5, <1>6, <1>7, <1>8 DEF Inv

(* Every step of the delegate, its tabs and its user keeps the invariant,   *)
(* and moves control as SpaceOwnership promises.                            *)
LEMMA NextInv ==
    ASSUME Inv, [Next]_vars PROVE Inv' /\ [Ownership!Next]_control
<1>1. CASE SyncAgentSurfaces
  BY <1>1, TickStep
<1>2. CASE UNCHANGED vars
  <2>1. TypeOK'
    BY <1>2 DEF vars, Inv, TypeOK, Hosted, Ownership!TypeOK
  <2> QED BY <1>2, <2>1 DEF vars, Inv, OneBannerEach, Remembered, ClosedStaysClosed, InControl
<1>3. CASE \/ ControlMoves
           \/ \E t \in Tabs, s \in Spaces :
                Accept(t, s) \/ Cancel(t, s) \/ OnBannerDismissed(t, s)
  BY <1>3, UserSteps
<1> QED BY <1>1, <1>2, <1>3, BrowserSteps DEF Next, User

LEMMA SpecInv == Spec => []Inv
<1>1. Inv /\ [Next]_vars => Inv'
  BY NextInv
<1> QED BY <1>1, InitInv, PTL DEF Spec

-----------------------------------------------------------------------------
(* Tabs, windows, bars and the delegate's tables keep their types: a tab is *)
(* in one strip, an open window has an active tab of its own, and no bar is *)
(* left without a tab.                                                      *)
THEOREM TypeCorrect == Spec => []TypeOK
<1>1. Inv => TypeOK
  BY DEF Inv
<1> QED BY <1>1, SpecInv, PTL

(* However its tab is dragged about and its window pruned, a space has at   *)
(* most one bar, and the delegate can find it.                              *)
THEOREM OneBanner == Spec => []OneBannerEach
<1>1. Inv => OneBannerEach
  BY DEF Inv
<1> QED BY <1>1, SpecInv, PTL

(* No tick brings back a bar that the user closed in this stint.            *)
THEOREM DismissalKept == Spec => []ClosedStaysClosed
<1>1. Inv => ClosedStaysClosed
  BY DEF Inv
<1> QED BY <1>1, SpecInv, PTL

(* The delegate takes a bar for dismissed only if the user closed it, in    *)
(* this stint of the agent or in one that ended between two ticks: nothing  *)
(* else keeps a banner away.                                                *)
THEOREM DismissalAccounted == Spec => [](dismissed = closed \cup missed)
<1>1. Inv => dismissed = closed \cup missed
  BY DEF Inv, Remembered
<1> QED BY <1>1, SpecInv, PTL

(* Late presses of a bar's buttons included, control moves only as          *)
(* SpaceOwnership allows: nothing but a claim takes the user's own space.   *)
THEOREM ControlAsPromised == Spec => Ownership!Spec
<1>1. Init => Ownership!Init
  BY DEF Init
<1>2. Inv /\ [Next]_vars => [Ownership!Next]_control
  BY NextInv
<1> QED BY <1>1, <1>2, SpecInv, PTL DEF Spec, Ownership!Spec
=============================================================================
