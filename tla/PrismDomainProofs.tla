------------------------- MODULE PrismDomainProofs -------------------------
(***************************************************************************)
(* TypeOK, SoleOwner and OneActiveRecord are invariants of PrismDomain for *)
(* any number of clients, spaces, tabs and windows.  The three together    *)
(* are inductive: that a page has one owner needs that a page yet to be    *)
(* created is in no tabs_ and on no record, and the other way round.       *)
(***************************************************************************)
EXTENDS PrismDomain, SpaceRegistryProofs

Inv == TypeOK /\ SoleOwner /\ OneActiveRecord

LEMMA InitInv == Init => Inv
<1> SUFFICES ASSUME Init PROVE Inv
  OBVIOUS
<1>1. RegistryOK(reg) /\ Recorded(reg) = {}
  BY EmptyRegistryOK DEF Init
<1>2. TypeOK
  BY <1>1 DEF Init, TypeOK, RegistryOK, NoSpace, NoWindow, Place
<1>3. SoleOwner
  BY PlacesDistinct DEF Init, SoleOwner
<1>4. OneActiveRecord
  BY <1>1 DEF OneActiveRecord
<1> QED BY <1>2, <1>3, <1>4 DEF Inv

LEMMA BornAreIds == ASSUME TypeOK PROVE Born \subseteq SpaceId
BY MaxSpacesAssumption DEF TypeOK, Registry, Born, SpaceId

(* A step that changes the registry only by a method that records nothing  *)
(* new, and maybe selections.                                              *)
LEMMA RegistrySteps ==
  ASSUME Inv, RegistryOK(reg)',
         \A s \in SpaceId : RecordedIn(reg, s)' \subseteq RecordedIn(reg, s),
         selected' \in [Clients -> {NoSpace} \cup SpaceId],
         UNCHANGED <<up, connected, tabs, place, window, open, input>>
  PROVE  Inv'
<1>1. TypeOK'
  BY DEF Inv, TypeOK, RegistryOK
<1>2. SoleOwner'
  BY DEF Inv, SoleOwner
<1>3. OneActiveRecord'
  BY DEF Inv, OneActiveRecord, Recorded
<1> QED BY <1>1, <1>2, <1>3 DEF Inv

(* A step in which pages die where they are owned: no page is born or      *)
(* moves, a page that stays alive keeps its owners, and one that dies is   *)
(* taken from no one but its owners.                                       *)
LEMMA DyingSteps ==
  ASSUME Inv, RegistryOK(reg)',
         \A s \in SpaceId : RecordedIn(reg, s)' \subseteq RecordedIn(reg, s),
         connected' \subseteq connected,
         selected' \in [Clients -> {NoSpace} \cup SpaceId],
         tabs' \in [Clients -> SUBSET Targets],
         \A c \in Clients : tabs'[c] \subseteq tabs[c],
         place' \in [Targets -> Place],
         \A t \in Targets : place'[t] # place[t] => place[t] # "unborn" /\ place'[t] = "dead",
         \A t \in Targets : place'[t] = "headless" =>
            \A c \in Clients : t \in tabs[c] => t \in tabs'[c] /\ c \in connected',
         \A c \in Clients \ connected' : tabs'[c] = {},
         open' \subseteq open,
         \A t \in Targets : place'[t] \in Windows => place'[t] \in open',
         UNCHANGED <<up, window, input>>
  PROVE  Inv'
<1>1. TypeOK'
  BY DEF Inv, TypeOK, RegistryOK
<1>2. SoleOwner'
  <2>1. ASSUME NEW t \in Targets, place'[t] = "headless"
        PROVE  \E c \in connected' : /\ t \in tabs'[c]
                                     /\ \A d \in Clients \ {c} : t \notin tabs'[d]
    <3>1. place[t] = "headless"
      BY <2>1
    <3>2. PICK c \in connected : t \in tabs[c] /\ \A d \in Clients \ {c} : t \notin tabs[d]
      BY <3>1 DEF Inv, SoleOwner
    <3>3. c \in Clients
      BY DEF Inv, TypeOK
    <3> QED BY <2>1, <3>2, <3>3
  <2>2. ASSUME NEW t \in Targets, place'[t] \in Windows \cup {"unborn"}, NEW c \in Clients
        PROVE  t \notin tabs'[c]
    <3>1. place[t] = place'[t]
      BY <2>2, PlacesDistinct
    <3> QED BY <2>2, <3>1 DEF Inv, SoleOwner
  <2> QED BY <2>1, <2>2 DEF SoleOwner
<1>3. OneActiveRecord'
  <2>1. \A t \in Recorded(reg)' : t \in Recorded(reg)
    BY DEF Recorded
  <2>2. \A s \in SpaceId : RecordedIn(reg, s) \subseteq Targets
    BY SpaceTypes DEF Inv, TypeOK
  <2>3. \A t \in Recorded(reg)' : t \in Targets /\ place[t] # "unborn"
    BY <2>1, <2>2 DEF Inv, OneActiveRecord, Recorded
  <2> QED BY <2>3 DEF OneActiveRecord
<1> QED BY <1>1, <1>2, <1>3 DEF Inv

(* A step that moves headless pages of one session, maybe none, into the   *)
(* window of a space.                                                      *)
LEMMA ShowingSteps ==
  ASSUME Inv, RegistryOK(reg)',
         \A s \in SpaceId : RecordedIn(reg, s)' \subseteq RecordedIn(reg, s),
         NEW s \in SpaceId, NEW w \in Windows, NEW c \in Clients,
         NEW moving \in SUBSET tabs[c],
         \A t \in moving : place[t] # "dead",
         ShowIn(s, w, moving),
         tabs' = [tabs EXCEPT ![c] = @ \ moving],
         UNCHANGED <<up, connected, selected, input>>
  PROVE  Inv'
<1>1. moving \subseteq Targets /\ tabs[c] \subseteq Targets
  BY DEF Inv, TypeOK
<1>2. \A t \in moving : place[t] = "headless"
  <2> SUFFICES ASSUME NEW t \in moving PROVE place[t] = "headless"
    OBVIOUS
  <2>1. place[t] \in Place /\ place[t] \notin Windows \cup {"unborn"}
    BY <1>1 DEF Inv, TypeOK, SoleOwner
  <2> QED BY <2>1 DEF Place
<1>3. \A t \in moving : \A d \in Clients \ {c} : t \notin tabs[d]
  BY <1>1, <1>2 DEF Inv, SoleOwner
<1>4. /\ place' = [t \in Targets |-> IF t \in moving THEN w ELSE place[t]]
      /\ open' \in {open, open \cup {w}}
      /\ moving # {} => open' = open \cup {w}
      /\ \/ window' = [window EXCEPT ![s] = w]
         \/ window' = Found(s)
  BY DEF ShowIn, Inv, TypeOK
<1>5. /\ \A d \in Clients : tabs'[d] = IF d = c THEN tabs[c] \ moving ELSE tabs[d]
      /\ tabs' \in [Clients -> SUBSET Targets]
  BY DEF Inv, TypeOK
<1>6. TypeOK'
  BY <1>4, <1>5 DEF Inv, TypeOK, RegistryOK, Place, Found, NoWindow
<1>7. SoleOwner'
  <2>1. ASSUME NEW t \in Targets, place'[t] = "headless"
        PROVE  \E d \in connected' : /\ t \in tabs'[d]
                                     /\ \A e \in Clients \ {d} : t \notin tabs'[e]
    <3>1. t \notin moving /\ place[t] = "headless"
      BY <1>4, <2>1, PlacesDistinct
    <3>2. PICK d \in connected : t \in tabs[d] /\ \A e \in Clients \ {d} : t \notin tabs[e]
      BY <3>1 DEF Inv, SoleOwner
    <3>3. d \in Clients
      BY DEF Inv, TypeOK
    <3> QED BY <1>5, <3>1, <3>2, <3>3
  <2>2. ASSUME NEW t \in Targets, place'[t] \in Windows \cup {"unborn"}
        PROVE  /\ \A d \in Clients : t \notin tabs'[d]
               /\ place'[t] \in Windows => place'[t] \in open'
    <3>1. CASE t \in moving
      BY <1>3, <1>4, <1>5, <3>1
    <3>2. CASE t \notin moving
      BY <1>4, <1>5, <2>2, <3>2 DEF Inv, SoleOwner
    <3> QED BY <3>1, <3>2
  <2>3. \A d \in Clients \ connected' : tabs'[d] = {}
    BY <1>5 DEF Inv, SoleOwner
  <2> QED BY <2>1, <2>2, <2>3 DEF SoleOwner
<1>8. OneActiveRecord'
  <2>1. \A t \in Recorded(reg)' : t \in Recorded(reg)
    BY DEF Recorded
  <2>2. \A t \in Targets : place'[t] = "unborn" => place[t] = "unborn"
    BY <1>4, PlacesDistinct
  <2>3. \A u \in SpaceId : RecordedIn(reg, u) \subseteq Targets
    BY SpaceTypes DEF Inv, TypeOK
  <2> QED BY <2>1, <2>2, <2>3 DEF Inv, OneActiveRecord, Recorded
<1> QED BY <1>6, <1>7, <1>8 DEF Inv

(* What the four changes of ownership do to the registry. *)
LEMMA OwnershipMethods ==
  ASSUME NEW r, RegistryOK(r), NEW id \in SpaceId,
         NEW q \in {Claim(r, id), HandOff(r, id), TakeOver(r, id), StopAgent(r, id)}
  PROVE  RegistryOK(q) /\ \A s \in SpaceId : RecordedIn(q, s) \subseteq RecordedIn(r, s)
<1>1. \A to \in Ownership : Exists(r, id) =>
        /\ RegistryOK(SetOwnership(r, id, to))
        /\ \A s \in SpaceId : RecordedIn(SetOwnership(r, id, to), s) \subseteq RecordedIn(r, s)
  BY SetOwnershipOK
<1>2. /\ q = r \/ \E to \in Ownership : q = SetOwnership(r, id, to)
      /\ q # r => Exists(r, id)
  BY DEF Claim, HandOff, TakeOver, StopAgent, OwnedBy, Ownership
<1> QED BY <1>1, <1>2

(* The focus of the wall and of the cycling key. *)
LEMMA FocusAndShowOK ==
  ASSUME NEW r, RegistryOK(r), NEW id \in {DefaultSpace} \cup SpaceId
  PROVE  /\ RegistryOK(SetWindowShown(SetFocused(r, id), id))
         /\ \A s \in SpaceId :
              RecordedIn(SetWindowShown(SetFocused(r, id), id), s) \subseteq RecordedIn(r, s)
<1>1. /\ RegistryOK(SetFocused(r, id))
      /\ \A s \in SpaceId : RecordedIn(SetFocused(r, id), s) = RecordedIn(r, s)
  BY SetFocusedOK DEF RecordedIn
<1> QED BY <1>1, SetWindowShownOK

(* A space is brought up in its window without any page moving. *)
LEMMA ShowingNothing ==
  ASSUME Inv, RegistryOK(reg)',
         \A s \in SpaceId : RecordedIn(reg, s)' \subseteq RecordedIn(reg, s),
         NEW s \in SpaceId, NEW w \in Windows,
         ShowIn(s, w, {}),
         UNCHANGED <<up, connected, selected, tabs, input>>
  PROVE  Inv'
<1>1. /\ \A t \in Targets : place'[t] = place[t]
      /\ place' = place
      /\ open' \in {open, open \cup {w}}
      /\ \/ window' = [window EXCEPT ![s] = w]
         \/ window' = Found(s)
  BY DEF ShowIn, Inv, TypeOK
<1>2. TypeOK'
  BY <1>1 DEF Inv, TypeOK, RegistryOK, Found, NoWindow
<1>3. SoleOwner'
  BY <1>1 DEF Inv, SoleOwner
<1>4. OneActiveRecord'
  BY <1>1 DEF Inv, OneActiveRecord, Recorded
<1> QED BY <1>2, <1>3, <1>4 DEF Inv

(* Every action preserves the three together. *)
THEOREM StepInv == ASSUME Inv, Next PROVE Inv'
<1> USE DEF Inv
<1>0. /\ RegistryOK(reg)
      /\ Born \subseteq SpaceId
      /\ \A s \in SpaceId : Exists(reg, s) => s \in Born
      /\ \A c \in connected : c \in Clients
  BY BornAreIds DEF OneActiveRecord, RegistryOK, Registry, Born, SpaceId, TypeOK
<1>1. ASSUME NEW c \in Clients, Connect(c) PROVE Inv'
  <2>1. TypeOK' /\ OneActiveRecord'
    BY <1>1 DEF Connect, TypeOK, OneActiveRecord
  <2>2. SoleOwner'
    BY <1>1 DEF Connect, SoleOwner, TypeOK
  <2> QED BY <2>1, <2>2
<1>2. ASSUME NEW c \in Clients, Disconnect(c) PROVE Inv'
  <2>1. \A d \in Clients : tabs'[d] = IF d = c THEN {} ELSE tabs[d]
    BY <1>2 DEF Disconnect, TypeOK
  <2>2. \A t \in tabs[c] : t \in Targets /\ place[t] # "unborn"
    BY <1>2 DEF TypeOK, SoleOwner
  <2> QED
    BY <1>0, <1>2, <2>1, <2>2, DyingSteps, PlacesDistinct
       DEF Disconnect, TypeOK, SoleOwner, Place, NoSpace
<1>3. ASSUME NEW c \in Clients, CreateTaskSpace(c) PROVE Inv'
  BY <1>0, <1>3, CreateOK, RegistrySteps DEF CreateTaskSpace, Ownership, TypeOK
<1>4. ASSUME NEW c \in Clients, CloseTaskSpace(c) PROVE Inv'
  <2> DEFINE s == selected[c]
             mine == tabs[c] \cap RecordedIn(reg, s)
  <2>1. /\ s \in SpaceId
        /\ c \in connected
        /\ reg' = CloseAll(reg, {s})
        /\ tabs' = [tabs EXCEPT ![c] = @ \ mine]
        /\ place' = [t \in Targets |-> IF t \in mine THEN "dead" ELSE place[t]]
        /\ selected' = [selected EXCEPT ![c] = NoSpace]
        /\ UNCHANGED <<up, connected, window, open, input>>
    BY <1>4 DEF CloseTaskSpace, Selected, Exists, Close
  <2>2. mine \subseteq Targets /\ \A t \in mine : place[t] # "unborn"
    BY DEF TypeOK, SoleOwner
  <2> HIDE DEF s, mine
  <2>3. /\ RegistryOK(reg)'
        /\ \A u \in SpaceId : RecordedIn(reg, u)' \subseteq RecordedIn(reg, u)
    BY <1>0, <2>1, CloseAllOK
  <2>4. /\ \A d \in Clients : tabs'[d] = IF d = c THEN tabs[c] \ mine ELSE tabs[d]
        /\ tabs' \in [Clients -> SUBSET Targets]
    BY <2>1 DEF TypeOK
  <2>5. /\ selected' \in [Clients -> {NoSpace} \cup SpaceId]
        /\ place' \in [Targets -> Place]
    BY <2>1 DEF TypeOK, Place
  <2>6. /\ \A t \in Targets : place'[t] # place[t] => place[t] # "unborn" /\ place'[t] = "dead"
        /\ \A t \in Targets : place'[t] = "headless" => t \notin mine
        /\ \A t \in Targets : place'[t] \in Windows => place[t] = place'[t]
    BY <2>1, <2>2, PlacesDistinct
  <2>7. /\ \A t \in Targets : place'[t] = "headless" =>
             \A d \in Clients : t \in tabs[d] => t \in tabs'[d] /\ d \in connected'
        /\ \A d \in Clients \ connected' : tabs'[d] = {}
        /\ \A t \in Targets : place'[t] \in Windows => place'[t] \in open'
    BY <2>1, <2>4, <2>6 DEF SoleOwner
  <2> QED BY <2>1, <2>3, <2>4, <2>5, <2>6, <2>7, DyingSteps
<1>5. ASSUME NEW c \in Clients, HandOffTaskSpace(c) PROVE Inv'
  BY <1>0, <1>5, OwnershipMethods, RegistrySteps DEF HandOffTaskSpace, Selected, Exists, TypeOK
<1>6. ASSUME NEW c \in Clients, TakeOverTaskSpace(c) PROVE Inv'
  BY <1>0, <1>6, OwnershipMethods, RegistrySteps DEF TakeOverTaskSpace, Selected, Exists, TypeOK
<1>7. ASSUME NEW c \in Clients, AnimationHighlight(c) PROVE Inv'
  <2>1. TypeOK'
    BY <1>7 DEF AnimationHighlight, Found, TypeOK, MayDrive, Selected, Exists
  <2>2. SoleOwner' /\ OneActiveRecord'
    BY <1>7 DEF AnimationHighlight, SoleOwner, OneActiveRecord
  <2> QED BY <2>1, <2>2
<1>8. ASSUME NEW c \in Clients, NEW s \in Born, UseTaskSpace(c, s) PROVE Inv'
  BY <1>0, <1>8, RegistrySteps DEF UseTaskSpace, TypeOK
<1>9. ASSUME NEW c \in Clients, NEW s \in Born, ClaimTaskSpace(c, s) PROVE Inv'
  BY <1>0, <1>9, OwnershipMethods, RegistrySteps DEF ClaimTaskSpace, TypeOK
<1>10. ASSUME NEW c \in Clients, NEW s \in Born, ShowTaskSpace(c, s) PROVE Inv'
  <2> DEFINE moving == tabs[c] \cap RecordedIn(reg, s)
  <2>1. s \in SpaceId
    BY <1>0
  <2>2. CASE \E t \in moving : place[t] = "dead"
    BY <1>10, <2>2 DEF ShowTaskSpace, TypeOK, SoleOwner, OneActiveRecord
  <2>3. CASE ~ \E t \in moving : place[t] = "dead"
    <3>1. /\ moving \in SUBSET tabs[c]
          /\ \A t \in moving : place[t] # "dead"
      BY <2>3
    <3>2. PICK w \in Windows : ShowIn(s, w, moving)
      BY <1>10, <2>3 DEF ShowTaskSpace
    <3>3. /\ reg' = SetWindowShown(reg, s)
          /\ tabs' = [tabs EXCEPT ![c] = @ \ moving]
          /\ UNCHANGED <<up, connected, selected, input>>
      BY <1>10, <2>3 DEF ShowTaskSpace
    <3> HIDE DEF moving
    <3>4. /\ RegistryOK(reg)'
          /\ \A u \in SpaceId : RecordedIn(reg, u)' \subseteq RecordedIn(reg, u)
      BY <1>0, <3>3, SetWindowShownOK
    <3> QED BY <2>1, <3>1, <3>2, <3>3, <3>4, ShowingSteps
  <2> QED BY <2>2, <2>3
<1>11. ASSUME NEW c \in Clients, NEW t \in Targets, CreateTab(c, t) PROVE Inv'
  <2> DEFINE s == selected[c]
             shown == reg.spaces[s].shown
  <2>1. /\ s \in SpaceId
        /\ c \in connected
        /\ place[t] = "unborn"
        /\ reg' = AddTab(reg, s, t)
        /\ UNCHANGED <<up, connected, selected, open, input>>
    BY <1>11 DEF CreateTab, MayDrive, Selected, Exists
  <2>2. /\ t \notin Recorded(reg)
        /\ \A d \in Clients : t \notin tabs[d]
    BY <2>1 DEF OneActiveRecord, SoleOwner
  <2>3. /\ RegistryOK(reg)'
        /\ \A u \in SpaceId : RecordedIn(reg, u)' \subseteq RecordedIn(reg, u) \cup {t}
    BY <1>0, <2>1, <2>2, AddTabOK
  <2>4. /\ \A o \in Targets \ {t} : place'[o] = place[o]
        /\ \A d \in Clients \ {c} : tabs'[d] = tabs[d]
        /\ DOMAIN place' = Targets /\ DOMAIN tabs' = Clients
        /\ window' \in {window, Found(s)}
        /\ \/ place'[t] \in {"headless", "dead"} /\ tabs'[c] = tabs[c] \cup {t}
           \/ place'[t] = window[s] /\ window[s] \in open /\ tabs'[c] = tabs[c]
    BY <1>11 DEF CreateTab, HasWindow, TypeOK
  <2> HIDE DEF s, shown
  <2>5. TypeOK'
    <3>1. place' \in [Targets -> Place]
      <4>1. place'[t] \in Place
        BY <2>4 DEF TypeOK, Place
      <4>2. place' = [o \in Targets |-> IF o = t THEN place'[t] ELSE place[o]]
        BY <1>11 DEF CreateTab, TypeOK
      <4> QED BY <4>1, <4>2 DEF TypeOK
    <3>2. tabs' \in [Clients -> SUBSET Targets]
      <4>1. tabs'[c] \subseteq Targets
        BY <2>4 DEF TypeOK
      <4>2. tabs' = [d \in Clients |-> IF d = c THEN tabs'[c] ELSE tabs[d]]
        BY <1>11 DEF CreateTab, TypeOK
      <4> QED BY <4>1, <4>2 DEF TypeOK
    <3>3. window' \in [SpaceId -> {NoWindow} \cup Windows]
      BY <2>1, <2>4 DEF Found, TypeOK
    <3> QED BY <2>1, <2>3, <3>1, <3>2, <3>3 DEF TypeOK, RegistryOK
  <2>6. SoleOwner'
    <3>1. ASSUME NEW o \in Targets, place'[o] = "headless"
          PROVE  \E d \in connected' : /\ o \in tabs'[d]
                                       /\ \A e \in Clients \ {d} : o \notin tabs'[e]
      <4>1. CASE o = t
        <5>1. t \in tabs'[c] /\ \A e \in Clients \ {c} : t \notin tabs'[e]
          BY <2>2, <2>4, <3>1, <4>1, PlacesDistinct DEF TypeOK
        <5> QED BY <2>1, <4>1, <5>1
      <4>2. CASE o # t
        <5>1. place[o] = "headless"
          BY <2>4, <3>1, <4>2
        <5>2. PICK d \in connected : o \in tabs[d] /\ \A e \in Clients \ {d} : o \notin tabs[e]
          BY <5>1 DEF SoleOwner
        <5>3. /\ d \in Clients
              /\ \A e \in Clients : o \in tabs'[e] => o \in tabs[e]
              /\ o \in tabs'[d]
          BY <1>0, <2>4, <4>2, <5>2
        <5> QED BY <2>1, <5>2, <5>3
      <4> QED BY <4>1, <4>2
    <3>2. ASSUME NEW o \in Targets, place'[o] \in Windows \cup {"unborn"}
          PROVE  /\ \A d \in Clients : o \notin tabs'[d]
                 /\ place'[o] \in Windows => place'[o] \in open'
      <4>1. CASE o = t
        BY <2>1, <2>2, <2>4, <3>2, <4>1, PlacesDistinct
      <4>2. CASE o # t
        BY <2>1, <2>4, <3>2, <4>2 DEF SoleOwner
      <4> QED BY <4>1, <4>2
    <3>3. \A d \in Clients \ connected' : tabs'[d] = {}
      BY <2>1, <2>4 DEF SoleOwner
    <3> QED BY <3>1, <3>2, <3>3 DEF SoleOwner
  <2>7. OneActiveRecord'
    <3>1. ASSUME NEW o \in Recorded(reg)' PROVE place'[o] # "unborn"
      <4>1. PICK u \in SpaceId : o \in RecordedIn(reg, u) \cup {t}
        BY <2>3 DEF Recorded
      <4>2. CASE o = t
        BY <2>4, <4>2, PlacesDistinct DEF TypeOK
      <4>3. CASE o # t
        <5>1. o \in Recorded(reg) /\ o \in Targets
          BY <4>1, <4>3, SpaceTypes DEF Recorded, TypeOK
        <5> QED BY <2>4, <4>3, <5>1 DEF OneActiveRecord
      <4> QED BY <4>2, <4>3
    <3> QED BY <2>3, <3>1 DEF OneActiveRecord
  <2> QED BY <2>5, <2>6, <2>7
<1>12. ASSUME NEW c \in Clients, NEW t \in Targets, Drive(c, t) PROVE Inv'
  BY <1>12 DEF Drive, TypeOK, SoleOwner, OneActiveRecord
<1>13. ASSUME NEW c \in Clients, NEW t \in Targets, CloseContents(c, t) PROVE Inv'
  <2>1. /\ place[t] = "headless"
        /\ place' = [place EXCEPT ![t] = "dead"]
        /\ tabs' = [tabs EXCEPT ![c] = @ \ {t}]
        /\ reg' \in {RemoveTab(reg, t), reg}
        /\ UNCHANGED <<up, connected, selected, window, open, input>>
    BY <1>13 DEF CloseContents
  <2>2. /\ RegistryOK(reg)'
        /\ \A s \in SpaceId : RecordedIn(reg, s)' \subseteq RecordedIn(reg, s)
    BY <1>0, <2>1, RemoveTabOK
  <2>3. /\ \A d \in Clients : tabs'[d] = IF d = c THEN tabs[c] \ {t} ELSE tabs[d]
        /\ tabs' \in [Clients -> SUBSET Targets]
        /\ \A o \in Targets : place'[o] = IF o = t THEN "dead" ELSE place[o]
        /\ place' \in [Targets -> Place]
        /\ selected' \in [Clients -> {NoSpace} \cup SpaceId]
    BY <2>1 DEF TypeOK, Place
  <2>4. \A o \in Targets : place'[o] = "headless" =>
           \A d \in Clients : o \in tabs[d] => o \in tabs'[d] /\ d \in connected'
    BY <2>1, <2>3 DEF SoleOwner
  <2>5. /\ \A d \in Clients \ connected' : tabs'[d] = {}
        /\ \A o \in Targets : place'[o] \in Windows => place'[o] \in open'
    BY <2>1, <2>3, PlacesDistinct DEF SoleOwner
  <2> QED BY <2>1, <2>2, <2>3, <2>4, <2>5, DyingSteps
<1>14. ASSUME NEW c \in Clients, NEW t \in Targets, OnTabWebContentsDestroyed(c, t) PROVE Inv'
  <2>1. /\ place[t] = "headless"
        /\ place' = [place EXCEPT ![t] = "dead"]
        /\ tabs' = [tabs EXCEPT ![c] = @ \ {t}]
        /\ reg' \in {RemoveTab(reg, t), reg}
        /\ UNCHANGED <<up, connected, selected, window, open, input>>
    BY <1>14 DEF OnTabWebContentsDestroyed
  <2>2. /\ RegistryOK(reg)'
        /\ \A s \in SpaceId : RecordedIn(reg, s)' \subseteq RecordedIn(reg, s)
    BY <1>0, <2>1, RemoveTabOK
  <2>3. /\ \A d \in Clients : tabs'[d] = IF d = c THEN tabs[c] \ {t} ELSE tabs[d]
        /\ tabs' \in [Clients -> SUBSET Targets]
        /\ \A o \in Targets : place'[o] = IF o = t THEN "dead" ELSE place[o]
        /\ place' \in [Targets -> Place]
        /\ selected' \in [Clients -> {NoSpace} \cup SpaceId]
    BY <2>1 DEF TypeOK, Place
  <2>4. \A o \in Targets : place'[o] = "headless" =>
           \A d \in Clients : o \in tabs[d] => o \in tabs'[d] /\ d \in connected'
    BY <2>1, <2>3 DEF SoleOwner
  <2>5. /\ \A d \in Clients \ connected' : tabs'[d] = {}
        /\ \A o \in Targets : place'[o] \in Windows => place'[o] \in open'
    BY <2>1, <2>3, PlacesDistinct DEF SoleOwner
  <2> QED BY <2>1, <2>2, <2>3, <2>4, <2>5, DyingSteps
<1>15. ASSUME NEW t \in Targets, CloseWindowTab(t) PROVE Inv'
  <2>1. /\ place' \in [Targets -> Place]
        /\ \A o \in Targets : place'[o] = IF o = t THEN "dead" ELSE place[o]
        /\ \A o \in Targets : o = t => place[o] \in Windows
        /\ open' \subseteq open
        /\ UNCHANGED <<up, reg, connected, selected, tabs, window, input>>
    BY <1>15 DEF CloseWindowTab, TypeOK, Place
  <2>2. \A o \in Targets : place'[o] # place[o] => place[o] # "unborn" /\ place'[o] = "dead"
    BY <2>1, PlacesDistinct
  <2>3. \A o \in Targets : place'[o] = "headless" => place[o] = "headless"
    BY <2>1
  <2>4. \A o \in Targets : place'[o] \in Windows => place'[o] \in open'
    BY <1>15, <2>1, PlacesDistinct DEF CloseWindowTab, SoleOwner
  <2>5. \A o \in Targets : place[o] = "headless" =>
           \A d \in Clients : o \in tabs[d] => d \in connected
    BY DEF SoleOwner
  <2>6. /\ RegistryOK(reg)'
        /\ \A s \in SpaceId : RecordedIn(reg, s)' \subseteq RecordedIn(reg, s)
    BY <1>0, <2>1
  <2>7. /\ selected' \in [Clients -> {NoSpace} \cup SpaceId]
        /\ tabs' \in [Clients -> SUBSET Targets]
        /\ \A d \in Clients \ connected' : tabs'[d] = {}
    BY <2>1 DEF TypeOK, SoleOwner
  <2> QED BY <2>1, <2>2, <2>3, <2>4, <2>5, <2>6, <2>7, DyingSteps
<1>16. CASE WallCreate
  BY <1>0, <1>16, CreateOK, RegistrySteps DEF WallCreate, Ownership, TypeOK
<1>17. CASE CycleToNextSpace
  <2> DEFINE next == NextOnWheel(reg)
  <2>1. next \in {DefaultSpace} \cup SpaceId
    BY <1>0, NextOnWheelIsSpace DEF RegistryOK
  <2>2. UNCHANGED <<up, connected, selected, tabs, input>>
    BY <1>17 DEF CycleToNextSpace
  <2>3. CASE next # DefaultSpace /\ ~ HasWindow(next)
    <3>1. /\ \E w \in Windows : ShowIn(next, w, {})
          /\ reg' = SetWindowShown(SetFocused(reg, next), next)
      BY <1>17, <2>3 DEF CycleToNextSpace
    <3>2. next \in SpaceId
      BY <2>1, <2>3
    <3> HIDE DEF next
    <3>3. /\ RegistryOK(reg)'
          /\ \A s \in SpaceId : RecordedIn(reg, s)' \subseteq RecordedIn(reg, s)
      BY <1>0, <2>1, <3>1, FocusAndShowOK
    <3> QED BY <2>2, <3>1, <3>2, <3>3, ShowingNothing
  <2>4. CASE ~ (next # DefaultSpace /\ ~ HasWindow(next))
    <3>1. reg' = SetFocused(reg, next) /\ UNCHANGED <<window, open, place>>
      BY <1>17, <2>4 DEF CycleToNextSpace
    <3> HIDE DEF next
    <3>2. /\ RegistryOK(reg)'
          /\ \A s \in SpaceId : RecordedIn(reg, s)' \subseteq RecordedIn(reg, s)
      BY <1>0, <2>1, <3>1, SetFocusedOK DEF RecordedIn
    <3>3. selected' \in [Clients -> {NoSpace} \cup SpaceId]
      BY <2>2 DEF TypeOK
    <3> QED BY <2>2, <3>1, <3>2, <3>3, RegistrySteps
  <2> QED BY <2>3, <2>4
<1>18. CASE SyncAgentSurfaces
  <2>1. TypeOK'
    BY <1>18 DEF SyncAgentSurfaces, Found, TypeOK
  <2>2. SoleOwner' /\ OneActiveRecord'
    BY <1>18 DEF SyncAgentSurfaces, SoleOwner, OneActiveRecord
  <2> QED BY <2>1, <2>2
<1>19. ASSUME NEW w \in Windows, OpenWindow(w) PROVE Inv'
  <2>1. TypeOK' /\ OneActiveRecord'
    BY <1>19 DEF OpenWindow, TypeOK, OneActiveRecord
  <2>2. SoleOwner'
    BY <1>19 DEF OpenWindow, SoleOwner
  <2> QED BY <2>1, <2>2
<1>20. ASSUME NEW w \in Windows, CloseWindow(w) PROVE Inv'
  <2>1. /\ place' \in [Targets -> Place]
        /\ \A o \in Targets : place'[o] = IF place[o] = w THEN "dead" ELSE place[o]
        /\ \A o \in Targets : place[o] = w => place[o] \in Windows
        /\ open' \subseteq open
        /\ UNCHANGED <<up, reg, connected, selected, tabs, window, input>>
    BY <1>20 DEF CloseWindow, TypeOK, Place
  <2>2. \A o \in Targets : place'[o] # place[o] => place[o] # "unborn" /\ place'[o] = "dead"
    BY <2>1, PlacesDistinct
  <2>3. \A o \in Targets : place'[o] = "headless" => place[o] = "headless"
    BY <2>1
  <2>4. \A o \in Targets : place'[o] \in Windows => place'[o] \in open'
    BY <1>20, <2>1, PlacesDistinct DEF CloseWindow, SoleOwner
  <2>5. \A o \in Targets : place[o] = "headless" =>
           \A d \in Clients : o \in tabs[d] => d \in connected
    BY DEF SoleOwner
  <2>6. /\ RegistryOK(reg)'
        /\ \A s \in SpaceId : RecordedIn(reg, s)' \subseteq RecordedIn(reg, s)
    BY <1>0, <2>1
  <2>7. /\ selected' \in [Clients -> {NoSpace} \cup SpaceId]
        /\ tabs' \in [Clients -> SUBSET Targets]
        /\ \A d \in Clients \ connected' : tabs'[d] = {}
    BY <2>1 DEF TypeOK, SoleOwner
  <2> QED BY <2>1, <2>2, <2>3, <2>4, <2>5, <2>6, <2>7, DyingSteps
<1>21. ASSUME NEW s \in Born, WallHandOff(s) PROVE Inv'
  BY <1>0, <1>21, OwnershipMethods, RegistrySteps DEF WallHandOff, TypeOK
<1>22. ASSUME NEW s \in Born, WallTakeOver(s) PROVE Inv'
  BY <1>0, <1>22, OwnershipMethods, RegistrySteps DEF WallTakeOver, TypeOK
<1>23. ASSUME NEW s \in Born, BannerStopAgent(s) PROVE Inv'
  BY <1>0, <1>23, OwnershipMethods, RegistrySteps DEF BannerStopAgent, TypeOK
<1>24. ASSUME NEW S \in SUBSET SpaceId, CloseSpaces(S) PROVE Inv'
  <2>1. PICK gone \in SUBSET {t \in UNION {RecordedIn(reg, s) : s \in S} : Live(t)} :
          /\ place' = [t \in Targets |-> IF t \in gone THEN "dead" ELSE place[t]]
          /\ tabs' = [c \in Clients |-> tabs[c] \ gone]
    BY <1>24 DEF CloseSpaces
  <2>2. /\ reg' = CloseAll(reg, S)
        /\ UNCHANGED <<up, connected, selected, window, open, input>>
    BY <1>24 DEF CloseSpaces
  <2>3. /\ RegistryOK(reg)'
        /\ \A s \in SpaceId : RecordedIn(reg, s)' \subseteq RecordedIn(reg, s)
    BY <1>0, <2>2, CloseAllOK
  <2>4. \A t \in gone : place[t] # "unborn"
    BY PlacesDistinct DEF Live, TypeOK
  <2>5. /\ place' \in [Targets -> Place]
        /\ tabs' \in [Clients -> SUBSET Targets]
        /\ selected' \in [Clients -> {NoSpace} \cup SpaceId]
    BY <2>1, <2>2 DEF TypeOK, Place
  <2>6. \A t \in Targets : place'[t] # place[t] => place[t] # "unborn" /\ place'[t] = "dead"
    BY <2>1, <2>4
  <2>7. /\ \A t \in Targets : place'[t] = "headless" => t \notin gone /\ place[t] = "headless"
        /\ \A t \in Targets : place'[t] \in Windows => place[t] = place'[t]
    BY <2>1, PlacesDistinct
  <2>8. /\ \A t \in Targets : place'[t] = "headless" =>
             \A d \in Clients : t \in tabs[d] => t \in tabs'[d] /\ d \in connected'
        /\ \A d \in Clients \ connected' : tabs'[d] = {}
        /\ \A t \in Targets : place'[t] \in Windows => place'[t] \in open'
        /\ \A d \in Clients : tabs'[d] \subseteq tabs[d]
    BY <2>1, <2>2, <2>7 DEF SoleOwner
  <2> QED BY <2>2, <2>3, <2>5, <2>6, <2>8, DyingSteps
<1>25. ASSUME NEW s \in {DefaultSpace} \cup Born, WallFocus(s) PROVE Inv'
  <2>1. /\ s \in {DefaultSpace} \cup SpaceId
        /\ reg' = SetWindowShown(SetFocused(reg, s), s)
        /\ UNCHANGED <<up, connected, selected, tabs, input>>
    BY <1>0, <1>25 DEF WallFocus
  <2>2. /\ RegistryOK(reg)'
        /\ \A u \in SpaceId : RecordedIn(reg, u)' \subseteq RecordedIn(reg, u)
    BY <1>0, <2>1, FocusAndShowOK
  <2>3. CASE Exists(reg, s)
    <3>1. s \in SpaceId /\ \E w \in Windows : ShowIn(s, w, {})
      BY <1>25, <2>3 DEF WallFocus, Exists
    <3> QED BY <2>1, <2>2, <3>1, ShowingNothing
  <2>4. CASE ~ Exists(reg, s)
    <3>1. UNCHANGED <<window, open, place>>
      BY <1>25, <2>4 DEF WallFocus
    <3>2. selected' \in [Clients -> {NoSpace} \cup SpaceId]
      BY <2>1 DEF TypeOK
    <3> QED BY <2>1, <2>2, <3>1, <3>2, RegistrySteps
  <2> QED BY <2>3, <2>4
<1> QED
  <2>1. CASE \E c \in Clients : ClientStep(c)
    BY <2>1, <1>1, <1>2, <1>3, <1>4, <1>5, <1>6, <1>7, <1>8, <1>9, <1>10, <1>11, <1>12
       DEF ClientStep
  <2>2. CASE PageStep
    BY <2>2, <1>13, <1>14, <1>15 DEF PageStep
  <2>3. CASE UserStep
    <3>1. \A s \in Born : {s} \in SUBSET SpaceId
      BY <1>0
    <3>2. Existing(reg) \in SUBSET SpaceId
      BY DEF Existing
    <3> QED
      BY <2>3, <3>1, <3>2, <1>16, <1>17, <1>18, <1>19, <1>20, <1>21, <1>22, <1>23, <1>24, <1>25
         DEF UserStep, WallClose, WallDeleteAll
  <2> QED BY <2>1, <2>2, <2>3 DEF Next

(* The invariant holds in every behaviour. *)
THEOREM SpecInv == Spec => []Inv
<1>1. Inv /\ UNCHANGED vars => Inv'
  BY DEF vars, Inv, TypeOK, SoleOwner, OneActiveRecord
<1>2. Inv /\ [Next]_vars => Inv'
  BY <1>1, StepInv
<1> QED BY InitInv, <1>2, PTL DEF Spec

(* Every variable of the handlers, the registry and the windows keeps its  *)
(* type.                                                                   *)
THEOREM TypeCorrect == Spec => []TypeOK
<1>1. Inv => TypeOK
  BY DEF Inv
<1> QED BY <1>1, SpecInv, PTL

(* No page is ever owned by two sessions, or by a session and a window,    *)
(* and none that is alive is owned by nobody.                              *)
THEOREM OneOwner == Spec => []SoleOwner
<1>1. Inv => SoleOwner
  BY DEF Inv
<1> QED BY <1>1, SpecInv, PTL

(* A tab is recorded in one space, and a space with tabs has exactly one   *)
(* active tab.                                                             *)
THEOREM RegistryConsistent == Spec => []OneActiveRecord
<1>1. Inv => OneActiveRecord
  BY DEF Inv
<1> QED BY <1>1, SpecInv, PTL

(* Only createTab records a tab, and in the space its session selected. *)
LEMMA RecordSteps ==
  ASSUME Inv, Next, NEW s \in SpaceId
  PROVE  \/ RecordedIn(reg', s) \subseteq RecordedIn(reg, s)
         \/ \E c \in Clients, t \in Targets : CreateTab(c, t) /\ selected[c] = s
<1> DEFINE Shrinks == RecordedIn(reg', s) \subseteq RecordedIn(reg, s)
<1>0. /\ RegistryOK(reg)
      /\ Born \subseteq SpaceId
      /\ "agent" \in Ownership /\ "user" \in Ownership
  BY BornAreIds DEF Inv, OneActiveRecord, Ownership
<1>1. ASSUME NEW c \in Clients, ClientStep(c), ~ \E t \in Targets : CreateTab(c, t)
      PROVE  Shrinks
  <2>1. ASSUME Selected(c) PROVE selected[c] \in SpaceId
    BY <2>1 DEF Selected, Exists
  <2>2. CASE CreateTaskSpace(c)
    BY <1>0, <2>2, CreateOK DEF CreateTaskSpace
  <2>3. CASE CloseTaskSpace(c)
    BY <1>0, <2>1, <2>3, CloseAllOK DEF CloseTaskSpace, Close
  <2>4. CASE HandOffTaskSpace(c) \/ TakeOverTaskSpace(c)
    BY <1>0, <2>1, <2>4, OwnershipMethods DEF HandOffTaskSpace, TakeOverTaskSpace
  <2>5. ASSUME NEW u \in Born, ClaimTaskSpace(c, u) PROVE Shrinks
    BY <1>0, <2>5, OwnershipMethods DEF ClaimTaskSpace
  <2>6. ASSUME NEW u \in Born, ShowTaskSpace(c, u) PROVE Shrinks
    <3>1. reg' \in {reg, SetWindowShown(reg, u)}
      BY <2>6 DEF ShowTaskSpace
    <3> QED BY <1>0, <3>1, SetWindowShownOK
  <2>7. ASSUME UNCHANGED reg PROVE Shrinks
    BY <2>7
  <2> QED
    BY <1>1, <2>2, <2>3, <2>4, <2>5, <2>6, <2>7
       DEF ClientStep, Connect, Disconnect, AnimationHighlight, UseTaskSpace, Drive
<1>2. ASSUME NEW c \in Clients, NEW t \in Targets, CreateTab(c, t), selected[c] # s
      PROVE  Shrinks
  <2>1. t \notin Recorded(reg) /\ reg' = AddTab(reg, selected[c], t)
    BY <1>2 DEF CreateTab, Inv, OneActiveRecord
  <2> QED BY <1>0, <1>2, <2>1, AddTabOK
<1>3. CASE PageStep
  <2>1. reg' = reg \/ \E t \in Targets : reg' = RemoveTab(reg, t)
    BY <1>3 DEF PageStep, CloseContents, OnTabWebContentsDestroyed, CloseWindowTab
  <2> QED BY <1>0, <2>1, RemoveTabOK
<1>4. CASE UserStep
  <2>1. CASE WallCreate
    BY <1>0, <2>1, CreateOK DEF WallCreate
  <2>2. ASSUME NEW S \in SUBSET SpaceId, CloseSpaces(S) PROVE Shrinks
    BY <1>0, <2>2, CloseAllOK DEF CloseSpaces
  <2>3. CASE CycleToNextSpace
    <3>1. NextOnWheel(reg) \in {DefaultSpace} \cup SpaceId
      BY <1>0, NextOnWheelIsSpace DEF RegistryOK
    <3>2. \/ reg' = SetWindowShown(SetFocused(reg, NextOnWheel(reg)), NextOnWheel(reg))
          \/ reg' = SetFocused(reg, NextOnWheel(reg))
      BY <2>3 DEF CycleToNextSpace
    <3>3. RecordedIn(SetFocused(reg, NextOnWheel(reg)), s) = RecordedIn(reg, s)
      BY <1>0, <3>1, SetFocusedOK DEF RecordedIn
    <3> QED BY <1>0, <3>1, <3>2, <3>3, FocusAndShowOK
  <2>4. ASSUME NEW u \in Born, WallHandOff(u) \/ WallTakeOver(u) \/ BannerStopAgent(u)
        PROVE  Shrinks
    BY <1>0, <2>4, OwnershipMethods DEF WallHandOff, WallTakeOver, BannerStopAgent
  <2>5. ASSUME NEW u \in {DefaultSpace} \cup Born, WallFocus(u) PROVE Shrinks
    BY <1>0, <2>5, FocusAndShowOK DEF WallFocus
  <2>6. ASSUME UNCHANGED reg PROVE Shrinks
    BY <2>6
  <2>7. /\ \A u \in Born : {u} \in SUBSET SpaceId
        /\ Existing(reg) \in SUBSET SpaceId
    BY <1>0 DEF Existing
  <2> QED
    BY <1>4, <2>1, <2>2, <2>3, <2>4, <2>5, <2>6, <2>7
       DEF UserStep, WallClose, WallDeleteAll, SyncAgentSurfaces, OpenWindow, CloseWindow
<1> QED BY <1>1, <1>2, <1>3, <1>4 DEF Next

(* No session adds a tab to a space while the user holds it. *)
THEOREM DelegatedSpaceKeepsTabs == Spec => NoNewTabWhileDelegated
<1> DEFINE Kept == \A s \in SpaceId :
                     OwnedBy(reg, s, "delegated") => RecordedIn(reg', s) \subseteq RecordedIn(reg, s)
<1>1. Inv /\ Next => Kept
  BY RecordSteps DEF CreateTab, MayDrive, OwnedBy
<1>2. Inv /\ [Next]_vars => [Kept]_vars
  BY <1>1
<1> QED BY <1>2, SpecInv, PTL DEF Spec, NoNewTabWhileDelegated
-----------------------------------------------------------------------------
(***************************************************************************)
(* PrismDomain implements SpaceOwnership, for any clients, windows, tabs   *)
(* and number of spaces, and with it two promises about who may change the *)
(* control of a space, and what becomes of a selection; and no page is     *)
(* forgotten before a space is closed.                                     *)
(*                                                                         *)
(* Every step changes ownerships by one method of the registry at most     *)
(* (ControlSteps).  That a closed space does not come back needs ids of    *)
(* existing spaces below next_id_, which RegistryOK has, and for the       *)
(* sessions that the space they selected was born, which SelectedBorn adds.*)
(***************************************************************************)

Own(r, s) == r.spaces[s].ownership

Kept(r, q) == q.nextId = r.nextId /\ \A s \in SpaceId : Own(q, s) = Own(r, s)

(* Ownership as one method leaves it: `to` for s, the same for all others. *)
Given(r, q, s, to) ==
    /\ q.nextId = r.nextId
    /\ \A u \in SpaceId : Own(q, u) = IF u = s THEN to ELSE Own(r, u)

Created(r, q) ==
    /\ r.nextId \in SpaceId /\ q.nextId = r.nextId + 1
    /\ \E owner \in {"agent", "user"} :
         \A u \in SpaceId : Own(q, u) = IF u = r.nextId THEN owner ELSE Own(r, u)

Claimed(r, q, s)  == Exists(r, s) /\ Given(r, q, s, "agent")
HandedOff(r, q, s)  == Own(r, s) = "agent" /\ Given(r, q, s, "delegated")
TakenOver(r, q, s) == Own(r, s) = "delegated" /\ Given(r, q, s, "agent")
Stopped(r, q, s) == Exists(r, s) /\ Given(r, q, s, "user")

Closed(r, q) ==
    /\ q.nextId = r.nextId
    /\ \E S \in SUBSET SpaceId :
         \A u \in SpaceId : /\ Own(q, u) = IF u \in S THEN "absent" ELSE Own(r, u)
                            /\ u \in S => RecordedIn(q, u) = {}

(* What a step makes of the registry. *)
Moved ==
    \/ Kept(reg, reg') \/ Created(reg, reg') \/ Closed(reg, reg')
    \/ \E s \in SpaceId : \/ HandedOff(reg, reg', s) \/ TakenOver(reg, reg', s)
                          \/ Stopped(reg, reg', s)
                          \/ /\ Claimed(reg, reg', s)
                             /\ \E c \in connected : selected'[c] = s

(* The methods of the registry, one relation each. *)
LEMMA MethodsMove ==
  ASSUME NEW r, RegistryOK(r)
  PROVE  /\ CanCreate(r) => \A owner \in {"agent", "user"} : Created(r, Create(r, owner))
         /\ \A s \in SpaceId :
              /\ Exists(r, s) => Claimed(r, Claim(r, s), s)
              /\ Kept(r, HandOff(r, s)) \/ HandedOff(r, HandOff(r, s), s)
              /\ Kept(r, TakeOver(r, s)) \/ TakenOver(r, TakeOver(r, s), s)
              /\ Kept(r, StopAgent(r, s)) \/ Stopped(r, StopAgent(r, s), s)
         /\ \A S \in SUBSET SpaceId : Closed(r, CloseAll(r, S))
         /\ \A t \in Targets : /\ Kept(r, RemoveTab(r, t))
                               /\ t \notin Recorded(r) =>
                                    \A s : Kept(r, AddTab(r, s, t))
         /\ \A s : Kept(r, SetWindowShown(r, s))
         /\ \A s \in {DefaultSpace} \cup SpaceId :
              Kept(r, SetFocused(r, s)) /\ Kept(r, SetWindowShown(SetFocused(r, s), s))
<1>0. r \in Registry /\ "agent" \in Ownership /\ "user" \in Ownership /\ "delegated" \in Ownership
  BY DEF RegistryOK, Ownership
<1>1. ASSUME CanCreate(r), NEW owner \in {"agent", "user"} PROVE Created(r, Create(r, owner))
  <2>1. /\ Create(r, owner).nextId = r.nextId + 1
        /\ \A u \in SpaceId : Create(r, owner).spaces[u]
                                = IF u = r.nextId THEN NewSpace(owner) ELSE r.spaces[u]
    BY <1>0 DEF Create, Registry
  <2> QED BY <1>1, <2>1 DEF Created, Own, NewSpace, CanCreate
<1>2. ASSUME NEW s \in SpaceId, Exists(r, s), NEW to \in Ownership
      PROVE  Given(r, SetOwnership(r, s, to), s, to)
  BY <1>2, SetOwnershipOK DEF Given, Own
<1>3. ASSUME NEW s \in SpaceId
      PROVE  /\ Exists(r, s) => Claimed(r, Claim(r, s), s)
             /\ Kept(r, HandOff(r, s)) \/ HandedOff(r, HandOff(r, s), s)
             /\ Kept(r, TakeOver(r, s)) \/ TakenOver(r, TakeOver(r, s), s)
             /\ Kept(r, StopAgent(r, s)) \/ Stopped(r, StopAgent(r, s), s)
  <2>1. Kept(r, r)
    BY DEF Kept
  <2> QED
    BY <1>0, <1>2, <2>1
       DEF Claim, Claimed, HandOff, HandedOff, TakeOver, TakenOver, StopAgent, Stopped, OwnedBy, Own
<1>4. ASSUME NEW S \in SUBSET SpaceId PROVE Closed(r, CloseAll(r, S))
  <2>1. \A u \in SpaceId : Own(CloseAll(r, S), u) = IF u \in S THEN "absent" ELSE Own(r, u)
    BY CloseAllOK DEF Own, Absent, NewSpace
  <2>2. \A u \in S : RecordedIn(CloseAll(r, S), u) = {}
    BY CloseAllOK, NoTabs DEF RecordedIn, TargetsOf, Absent, NewSpace
  <2> QED BY <2>1, <2>2, CloseAllOK DEF Closed
<1>5. ASSUME NEW t \in Targets
      PROVE  /\ Kept(r, RemoveTab(r, t))
             /\ t \notin Recorded(r) => \A s : Kept(r, AddTab(r, s, t))
  BY RemoveTabOK, AddTabOK DEF Kept, Own
<1>6. \A s : Kept(r, SetWindowShown(r, s))
  BY SetWindowShownOK DEF Kept, Own
<1>7. ASSUME NEW s \in {DefaultSpace} \cup SpaceId
      PROVE  Kept(r, SetFocused(r, s)) /\ Kept(r, SetWindowShown(SetFocused(r, s), s))
  <2>1. RegistryOK(SetFocused(r, s)) /\ Kept(r, SetFocused(r, s))
    BY SetFocusedOK DEF Kept, Own
  <2>2. Kept(SetFocused(r, s), SetWindowShown(SetFocused(r, s), s))
    BY <2>1, SetWindowShownOK DEF Kept, Own
  <2> QED BY <2>1, <2>2 DEF Kept
<1> QED BY <1>1, <1>3, <1>4, <1>5, <1>6, <1>7

(* Whoever acts, a session, a page or the user. *)
LEMMA ControlSteps == ASSUME Inv, Next PROVE Moved
<1>0. RegistryOK(reg) /\ Born \subseteq SpaceId /\ Kept(reg, reg)
  BY BornAreIds DEF Inv, OneActiveRecord, Kept
<1>1. ASSUME NEW c \in Clients, ClientStep(c) PROVE Moved
  <2>1. ASSUME Selected(c) PROVE selected[c] \in SpaceId
    BY <2>1 DEF Selected, Exists
  <2>2. CASE CreateTaskSpace(c)
    BY <1>0, <2>2, MethodsMove DEF CreateTaskSpace, Moved
  <2>3. CASE CloseTaskSpace(c)
    BY <1>0, <2>1, <2>3, MethodsMove DEF CloseTaskSpace, Close, Moved
  <2>4. CASE HandOffTaskSpace(c) \/ TakeOverTaskSpace(c)
    BY <1>0, <2>1, <2>4, MethodsMove DEF HandOffTaskSpace, TakeOverTaskSpace, Moved
  <2>5. ASSUME NEW s \in Born, ClaimTaskSpace(c, s) PROVE Moved
    <3>1. s \in SpaceId /\ c \in connected /\ selected'[c] = s
      BY <1>0, <2>5 DEF ClaimTaskSpace, Inv, TypeOK
    <3>2. Claimed(reg, reg', s)
      BY <1>0, <2>5, <3>1, MethodsMove DEF ClaimTaskSpace
    <3> QED BY <3>1, <3>2 DEF Moved
  <2>6. ASSUME NEW s \in Born, ShowTaskSpace(c, s) PROVE Moved
    <3>1. reg' \in {reg, SetWindowShown(reg, s)}
      BY <2>6 DEF ShowTaskSpace
    <3> QED BY <1>0, <3>1, MethodsMove DEF Moved
  <2>7. ASSUME NEW t \in Targets, CreateTab(c, t) PROVE Moved
    <3>1. t \notin Recorded(reg) /\ reg' = AddTab(reg, selected[c], t)
      BY <2>7 DEF CreateTab, Inv, OneActiveRecord
    <3> QED BY <1>0, <3>1, MethodsMove DEF Moved
  <2>8. ASSUME UNCHANGED reg PROVE Moved
    BY <1>0, <2>8 DEF Moved
  <2> QED
    BY <1>1, <2>2, <2>3, <2>4, <2>5, <2>6, <2>7, <2>8
       DEF ClientStep, Connect, Disconnect, AnimationHighlight, UseTaskSpace, Drive
<1>2. CASE PageStep
  <2>1. reg' = reg \/ \E t \in Targets : reg' = RemoveTab(reg, t)
    BY <1>2 DEF PageStep, CloseContents, OnTabWebContentsDestroyed, CloseWindowTab
  <2> QED BY <1>0, <2>1, MethodsMove DEF Moved
<1>3. CASE UserStep
  <2>1. CASE WallCreate
    BY <1>0, <2>1, MethodsMove DEF WallCreate, Moved
  <2>2. ASSUME NEW S \in SUBSET SpaceId, CloseSpaces(S) PROVE Moved
    BY <1>0, <2>2, MethodsMove DEF CloseSpaces, Moved
  <2>3. CASE CycleToNextSpace
    <3>1. NextOnWheel(reg) \in {DefaultSpace} \cup SpaceId
      BY <1>0, NextOnWheelIsSpace DEF RegistryOK
    <3>2. \/ reg' = SetWindowShown(SetFocused(reg, NextOnWheel(reg)), NextOnWheel(reg))
          \/ reg' = SetFocused(reg, NextOnWheel(reg))
      BY <2>3 DEF CycleToNextSpace
    <3> QED BY <1>0, <3>1, <3>2, MethodsMove DEF Moved
  <2>4. ASSUME NEW s \in Born, WallHandOff(s) \/ WallTakeOver(s) \/ BannerStopAgent(s)
        PROVE  Moved
    <3>1. s \in SpaceId
      BY <1>0
    <3>2. \/ reg' = HandOff(reg, s) \/ reg' = TakeOver(reg, s) \/ reg' = StopAgent(reg, s)
      BY <2>4 DEF WallHandOff, WallTakeOver, BannerStopAgent
    <3> QED BY <1>0, <3>1, <3>2, MethodsMove DEF Moved
  <2>5. ASSUME NEW s \in {DefaultSpace} \cup Born, WallFocus(s) PROVE Moved
    <3>1. s \in {DefaultSpace} \cup SpaceId
      BY <1>0
    <3> QED BY <1>0, <2>5, <3>1, MethodsMove DEF WallFocus, Moved
  <2>6. ASSUME UNCHANGED reg PROVE Moved
    BY <1>0, <2>6 DEF Moved
  <2>7. /\ \A s \in Born : {s} \in SUBSET SpaceId
        /\ Existing(reg) \in SUBSET SpaceId
    BY <1>0 DEF Existing
  <2> QED
    BY <1>3, <2>1, <2>2, <2>3, <2>4, <2>5, <2>6, <2>7
       DEF UserStep, WallClose, WallDeleteAll, SyncAgentSurfaces, OpenWindow, CloseWindow
<1> QED BY <1>1, <1>2, <1>3 DEF Next

-----------------------------------------------------------------------------
(* Each relation is a step of SpaceOwnership, or none. *)
LEMMA MovesRefine ==
  ASSUME RegistryOK(reg), RegistryOK(reg'), Moved
  PROVE  Promise!Next \/ UNCHANGED Control
<1> DEFINE At(r, s) == IF Exists(r, s) THEN Own(r, s)
                       ELSE IF s < r.nextId THEN "closed" ELSE "unborn"
<1>0. /\ reg.nextId \in Nat
      /\ SpaceId \subseteq Nat
      /\ \A s \in SpaceId : /\ Own(reg, s) \in Ownership \cup {"absent"}
                            /\ Exists(reg, s) <=> Own(reg, s) # "absent"
                            /\ Exists(reg', s) <=> Own(reg', s) # "absent"
                            /\ Exists(reg, s) => s < reg.nextId
                            /\ Control[s] = At(reg, s)
                            /\ Control'[s] = At(reg', s)
  BY MaxSpacesAssumption DEF RegistryOK, Registry, Space, SpaceId, Exists, Own, Control
<1>1. Control' = [s \in SpaceId |-> At(reg', s)]
  BY DEF Control, Own
<1>2. Control = [s \in SpaceId |-> At(reg, s)]
  BY DEF Control, Own
<1>3. ASSUME NEW s \in SpaceId, NEW to \in Ownership,
             Exists(reg, s), Given(reg, reg', s, to)
      PROVE  Control' = [Control EXCEPT ![s] = to] /\ Control[s] = Own(reg, s)
  <2>1. \A u \in SpaceId : Control'[u] = IF u = s THEN to ELSE Control[u]
    BY <1>0, <1>3 DEF Given, Ownership
  <2>2. Control[s] = Own(reg, s)
    BY <1>0, <1>3
  <2> QED BY <1>1, <1>2, <2>1, <2>2
<1>4. CASE Kept(reg, reg')
  <2>1. \A u \in SpaceId : At(reg', u) = At(reg, u)
    BY <1>0, <1>4 DEF Kept
  <2> QED BY <1>1, <1>2, <2>1
<1>5. CASE Created(reg, reg')
  <2>1. PICK owner \in {"agent", "user"} :
               \A u \in SpaceId : Own(reg', u) = IF u = reg.nextId THEN owner ELSE Own(reg, u)
    BY <1>5 DEF Created
  <2>2. /\ reg.nextId \in SpaceId /\ reg'.nextId = reg.nextId + 1
        /\ ~ Exists(reg, reg.nextId)
    BY <1>0, <1>5 DEF Created
  <2>3. Control[reg.nextId] = "unborn"
    BY <1>0, <2>2
  <2>4. \A u \in SpaceId : Control'[u] = IF u = reg.nextId THEN owner ELSE Control[u]
    BY <1>0, <2>1, <2>2
  <2>5. Control' = [Control EXCEPT ![reg.nextId] = owner]
    BY <1>1, <1>2, <2>4
  <2>6. Promise!Create(reg.nextId)
    BY <2>3, <2>5 DEF Promise!Create, Promise!Move
  <2> QED BY <2>2, <2>6 DEF Promise!Next
<1>6. CASE Closed(reg, reg')
  <2>1. PICK S \in SUBSET SpaceId :
               \A u \in SpaceId : Own(reg', u) = IF u \in S THEN "absent" ELSE Own(reg, u)
    BY <1>6 DEF Closed
  <2> DEFINE gone == {s \in S : Exists(reg, s)}
  <2>2. \A u \in SpaceId : Control'[u] = IF u \in gone THEN "closed" ELSE Control[u]
    BY <1>0, <1>6, <2>1 DEF Closed
  <2>3. gone \in SUBSET {s \in SpaceId : Control[s] \in Promise!Alive}
    BY <1>0 DEF Promise!Alive, Ownership
  <2>4. Control' = [s \in SpaceId |-> IF s \in gone THEN "closed" ELSE Control[s]]
    BY <1>1, <2>2
  <2>5. Promise!CloseSome
    BY <2>3, <2>4 DEF Promise!CloseSome
  <2> QED BY <2>5 DEF Promise!Next
<1>7. ASSUME NEW s \in SpaceId,
             HandedOff(reg, reg', s) \/ TakenOver(reg, reg', s)
               \/ Stopped(reg, reg', s) \/ Claimed(reg, reg', s)
      PROVE  Promise!Next \/ UNCHANGED Control
  <2>1. Exists(reg, s) /\ Own(reg, s) \in Ownership
    BY <1>0, <1>7 DEF HandedOff, TakenOver, Stopped, Claimed
  <2>2. CASE HandedOff(reg, reg', s)
    BY <1>3, <2>1, <2>2 DEF HandedOff, Promise!HandOff, Promise!Move, Promise!Next, Ownership
  <2>3. CASE TakenOver(reg, reg', s)
    BY <1>3, <2>1, <2>3 DEF TakenOver, Promise!TakeOver, Promise!Move, Promise!Next, Ownership
  <2>4. CASE Claimed(reg, reg', s)
    BY <1>3, <2>1, <2>4 DEF Claimed, Promise!Claim, Promise!Move, Promise!Alive, Promise!Next, Ownership
  <2>5. CASE Stopped(reg, reg', s)
    <3>1. CASE Own(reg, s) = "user"
      <4>1. \A u \in SpaceId : At(reg', u) = At(reg, u)
        BY <1>0, <2>5, <3>1 DEF Stopped, Given
      <4> QED BY <1>1, <1>2, <4>1
    <3>2. CASE Own(reg, s) # "user"
      BY <1>3, <2>1, <2>5, <3>2
         DEF Stopped, Promise!StopAgent, Promise!Move, Promise!Next, Ownership
    <3> QED BY <3>1, <3>2
  <2> QED BY <1>7, <2>2, <2>3, <2>4, <2>5
<1> QED BY <1>4, <1>5, <1>6, <1>7 DEF Moved

(* However sessions, pages and the user interleave, a space goes through    *)
(* the life SpaceOwnership promises: no id comes back, only the agent's     *)
(* space is delegated, and only a claim takes the user's own.               *)
THEOREM ImplementsOwnership == Spec => RefinesOwnership
<1>1. Init => Promise!Init
  <2>1. ASSUME Init, NEW s \in SpaceId PROVE Control[s] = "unborn"
    BY <2>1, MaxSpacesAssumption
       DEF Init, EmptyRegistry, Absent, NewSpace, Control, Exists, SpaceId
  <2> QED BY <2>1 DEF Promise!Init, Control
<1>2. Inv /\ Inv' /\ [Next]_vars => [Promise!Next]_Control
  <2>1. ASSUME Inv, Inv', Next PROVE Promise!Next \/ UNCHANGED Control
    BY <2>1, ControlSteps, MovesRefine DEF Inv, OneActiveRecord
  <2>2. UNCHANGED vars => UNCHANGED Control
    BY DEF vars, Control, Exists
  <2> QED BY <2>1, <2>2
<1> QED BY <1>1, <1>2, SpecInv, PTL DEF Spec, RefinesOwnership, Promise!Spec

(* Neither the wall nor the banner nor a session that takes over brings the *)
(* user's own space to the agent, only the session that claims it.          *)
THEOREM UserSpaceOnlyClaimed == Spec => UserSpaceIsClaimed
<1> DEFINE Step ==
      \A s \in SpaceId :
         OwnedBy(reg, s, "user") /\ Exists(reg', s) /\ ~ OwnedBy(reg', s, "user")
           => /\ OwnedBy(reg', s, "agent")
              /\ \E c \in connected : selected'[c] = s
<1>1. Inv /\ Next => Step
  <2> SUFFICES ASSUME Inv, Next, NEW s \in SpaceId,
                      OwnedBy(reg, s, "user"), Exists(reg', s), ~ OwnedBy(reg', s, "user")
               PROVE  /\ OwnedBy(reg', s, "agent")
                      /\ \E c \in connected : selected'[c] = s
    OBVIOUS
  <2>1. s < reg.nextId /\ reg.nextId \in Nat /\ s \in Nat
    BY MaxSpacesAssumption DEF Inv, OneActiveRecord, RegistryOK, Registry, OwnedBy, SpaceId
  <2>2. /\ Own(reg, s) = "user"
        /\ Own(reg', s) \notin {"user", "absent"}
    BY DEF OwnedBy, Exists, Own
  <2>3. ~ Kept(reg, reg') /\ ~ Created(reg, reg') /\ ~ Closed(reg, reg')
    BY <2>1, <2>2 DEF Kept, Created, Closed
  <2>4. PICK u \in SpaceId : \/ HandedOff(reg, reg', u) \/ TakenOver(reg, reg', u)
                            \/ Stopped(reg, reg', u)
                            \/ /\ Claimed(reg, reg', u)
                               /\ \E c \in connected : selected'[c] = u
    BY <2>3, ControlSteps DEF Moved
  <2>5. u = s /\ Claimed(reg, reg', s)
    BY <2>2, <2>4 DEF HandedOff, TakenOver, Stopped, Claimed, Given
  <2> QED BY <2>2, <2>4, <2>5 DEF Claimed, Given, OwnedBy, Own, HandedOff, TakenOver, Stopped
<1>2. Inv /\ [Next]_vars => [Step]_vars
  BY <1>1
<1> QED BY <1>2, SpecInv, PTL DEF Spec, UserSpaceIsClaimed

-----------------------------------------------------------------------------
SelectedBorn == \A c \in Clients : selected[c] < reg.nextId

(* What closes stays closed, and ids only grow. *)
LEMMA NoReturn ==
  ASSUME Inv, Next
  PROVE  /\ reg'.nextId \in Nat /\ reg.nextId \in Nat /\ reg.nextId <= reg'.nextId
         /\ \A s \in SpaceId : s < reg.nextId /\ ~ Exists(reg, s) => ~ Exists(reg', s)
<1>1. reg.nextId \in Nat /\ SpaceId \subseteq Nat
  BY MaxSpacesAssumption DEF Inv, OneActiveRecord, RegistryOK, Registry, SpaceId
<1>2. reg'.nextId \in {reg.nextId, reg.nextId + 1}
  BY ControlSteps DEF Moved, Kept, Created, Closed, HandedOff, TakenOver, Stopped, Claimed, Given
<1>3. ASSUME NEW s \in SpaceId, s < reg.nextId, Own(reg, s) = "absent"
      PROVE  Own(reg', s) = "absent"
  <2>1. CASE Kept(reg, reg')
    BY <1>3, <2>1 DEF Kept
  <2>2. CASE Created(reg, reg')
    BY <1>1, <1>3, <2>2 DEF Created
  <2>3. CASE Closed(reg, reg')
    BY <1>3, <2>3 DEF Closed
  <2>4. ASSUME NEW u \in SpaceId,
               HandedOff(reg, reg', u) \/ TakenOver(reg, reg', u)
                 \/ Stopped(reg, reg', u) \/ Claimed(reg, reg', u)
        PROVE  Own(reg', s) = "absent"
    BY <1>3, <2>4 DEF HandedOff, TakenOver, Stopped, Claimed, Given, Exists, Own
  <2> QED BY <2>1, <2>2, <2>3, <2>4, ControlSteps DEF Moved
<1> QED BY <1>1, <1>2, <1>3 DEF Exists, Own

(* What a session comes to select is a space that exists and is not the     *)
(* user's; it drops its selection by going away or by closing the space.    *)
Chosen(q, s) == Exists(q, s) /\ ~ OwnedBy(q, s, "user")
Gives(r, q, here, s, u) ==
    \/ Chosen(q, u)
    \/ u = NoSpace /\ (here => Exists(r, s) /\ ~ Exists(q, s))
OneSession(r, q, here, sel, new) ==
    \/ new = sel
    \/ \E d \in Clients : /\ \A c \in Clients \ {d} : new[c] = sel[c]
                         /\ Gives(r, q, d \in here, sel[d], new[d])

(* No step touches the selections of two sessions. *)
LEMMA SelectionSteps ==
  ASSUME Inv, Next
  PROVE  OneSession(reg, reg', connected', selected, selected')
<1> DEFINE Good(d) == /\ \A c \in Clients \ {d} : selected'[c] = selected[c]
                      /\ Gives(reg, reg', d \in connected', selected[d], selected'[d])
<1>0. /\ selected \in [Clients -> {NoSpace} \cup SpaceId]
      /\ RegistryOK(reg) /\ Born \subseteq SpaceId
  BY BornAreIds DEF Inv, TypeOK, OneActiveRecord
<1>1. ASSUME NEW d \in Clients, ClientStep(d) PROVE UNCHANGED selected \/ Good(d)
  <2>1. ASSUME NEW s \in Born, UseTaskSpace(d, s) PROVE Good(d)
    BY <1>0, <2>1 DEF UseTaskSpace, MayUse, OwnedBy, Chosen, Gives
  <2>2. ASSUME NEW s \in Born, ClaimTaskSpace(d, s) PROVE Good(d)
    <3>1. s \in SpaceId /\ Claimed(reg, reg', s)
      BY <1>0, <2>2, MethodsMove DEF ClaimTaskSpace
    <3>2. Exists(reg', s) /\ ~ OwnedBy(reg', s, "user")
      BY <3>1 DEF Claimed, Given, Own, Exists, OwnedBy
    <3> QED BY <1>0, <2>2, <3>2 DEF ClaimTaskSpace, Chosen, Gives
  <2>3. CASE Disconnect(d)
    BY <1>0, <2>3 DEF Disconnect, Gives
  <2>4. CASE CloseTaskSpace(d)
    <3>1. Exists(reg, selected[d]) /\ ~ Exists(reg', selected[d])
      BY <2>4 DEF CloseTaskSpace, Selected, Close, CloseAll, Exists, Absent, NewSpace
    <3> QED BY <1>0, <2>4, <3>1 DEF CloseTaskSpace, Gives
  <2>5. ASSUME UNCHANGED selected PROVE UNCHANGED selected
    BY <2>5
  <2> QED
    BY <1>1, <2>1, <2>2, <2>3, <2>4, <2>5
       DEF ClientStep, Connect, CreateTaskSpace, HandOffTaskSpace, TakeOverTaskSpace,
           AnimationHighlight, ShowTaskSpace, CreateTab, Drive
<1>2. ASSUME PageStep PROVE UNCHANGED selected
  BY <1>2 DEF PageStep, CloseContents, OnTabWebContentsDestroyed, CloseWindowTab
<1>3. ASSUME UserStep PROVE UNCHANGED selected
  BY <1>3 DEF UserStep, WallCreate, WallDeleteAll, WallClose, CloseSpaces, CycleToNextSpace,
              SyncAgentSurfaces, OpenWindow, CloseWindow, WallHandOff, WallTakeOver,
              BannerStopAgent, WallFocus
<1> QED BY <1>1, <1>2, <1>3 DEF Next, OneSession

LEMMA SelectedAreBorn == Spec => []SelectedBorn
<1>1. Init => SelectedBorn
  BY DEF Init, SelectedBorn, EmptyRegistry, NoSpace
<1>2. Inv /\ Inv' /\ SelectedBorn /\ [Next]_vars => SelectedBorn'
  <2>1. ASSUME Inv, Inv', SelectedBorn, Next, NEW c \in Clients
        PROVE  selected'[c] < reg'.nextId
    <3>1. selected[c] \in Nat /\ reg.nextId \in Nat /\ reg'.nextId \in Nat
          /\ reg.nextId <= reg'.nextId /\ selected[c] < reg.nextId
      BY <2>1, NoReturn, MaxSpacesAssumption DEF Inv, TypeOK, SpaceId, NoSpace, SelectedBorn
    <3>2. CASE selected'[c] \in {selected[c], NoSpace}
      BY <3>1, <3>2 DEF NoSpace
    <3>3. CASE Exists(reg', selected'[c])
      BY <2>1, <3>3 DEF Inv, OneActiveRecord, RegistryOK, Exists
    <3>4. \/ selected'[c] \in {selected[c], NoSpace}
          \/ Exists(reg', selected'[c])
      BY <2>1, SelectionSteps DEF OneSession, Gives, Chosen
    <3> QED BY <3>2, <3>3, <3>4
  <2>2. SelectedBorn /\ UNCHANGED vars => SelectedBorn'
    BY DEF SelectedBorn, vars
  <2> QED BY <2>1, <2>2 DEF SelectedBorn
<1> QED BY <1>1, <1>2, SpecInv, PTL DEF Spec

(* A selection changes by the session's own doing only, to a space that is  *)
(* not the user's, or to none with the space closing; a selected space that *)
(* is closed does not come back under the selection.                        *)
THEOREM SelectionsStable == Spec => SelectionStable
<1> DEFINE Step ==
      /\ \A c \in connected \cap connected' : selected'[c] # selected[c] =>
           \/ Exists(reg', selected'[c]) /\ ~ OwnedBy(reg', selected'[c], "user")
           \/ selected'[c] = NoSpace /\ Exists(reg, selected[c]) /\ ~ Exists(reg', selected[c])
      /\ \A c, d \in Clients :
           selected'[c] # selected[c] /\ selected'[d] # selected[d] => c = d
      /\ \A c \in connected : Exists(reg', selected[c]) => Exists(reg, selected[c])
<1>1. Inv /\ SelectedBorn /\ Next => Step
  <2> SUFFICES ASSUME Inv, SelectedBorn, Next PROVE Step
    OBVIOUS
  <2>1. /\ connected \subseteq Clients
        /\ \A c \in Clients : selected[c] \in {NoSpace} \cup SpaceId
    BY DEF Inv, TypeOK
  <2>2. /\ \A c \in connected \cap connected' : selected'[c] # selected[c] =>
             \/ Exists(reg', selected'[c]) /\ ~ OwnedBy(reg', selected'[c], "user")
             \/ selected'[c] = NoSpace /\ Exists(reg, selected[c]) /\ ~ Exists(reg', selected[c])
        /\ \A c, d \in Clients :
             selected'[c] # selected[c] /\ selected'[d] # selected[d] => c = d
    BY <2>1, SelectionSteps DEF OneSession, Gives, Chosen
  <2>3. ASSUME NEW c \in connected, Exists(reg', selected[c]) PROVE Exists(reg, selected[c])
    BY <2>1, <2>3, NoReturn DEF SelectedBorn, Exists
  <2> QED BY <2>2, <2>3
<1>2. Inv /\ SelectedBorn /\ [Next]_vars => [Step]_vars
  BY <1>1
<1> QED BY <1>2, SpecInv, SelectedAreBorn, PTL DEF Spec, SelectionStable

-----------------------------------------------------------------------------
(***************************************************************************)
(* No page is forgotten before a space is closed: LivePagesRecorded.       *)
(*                                                                         *)
(* It is inductive with Inv: a page comes to life on the record of its     *)
(* space, and leaves the record only with its space or when it dies.  As   *)
(* closed spaces do not come back (NoReturn), spaces that are all there    *)
(* after a step were all there before it.                                  *)
(***************************************************************************)

Gone == {"unborn", "dead"}

LEMMA LiveIsPlaced == ASSUME Inv, NEW t \in Targets PROVE Live(t) <=> place[t] \notin Gone
<1>1. place[t] \in Place /\ (place[t] \in Windows => place[t] \in open) /\ open \subseteq Windows
  BY DEF Inv, TypeOK, SoleOwner
<1> QED BY <1>1, PlacesDistinct DEF Live, Place, Gone

(* Only createTab brings a page to life. *)
LEMMA BirthSteps ==
  ASSUME Inv, Next, NEW t \in Targets, place[t] \in Gone, place'[t] \notin Gone
  PROVE  \E c \in Clients : CreateTab(c, t)
<1>0. /\ place \in [Targets -> Place]
      /\ \A c \in Clients : place[t] = "unborn" => t \notin tabs[c]
  BY DEF Inv, TypeOK, SoleOwner
<1>1. ASSUME NEW c \in Clients, ClientStep(c) PROVE CreateTab(c, t)
  <2>1. CASE Disconnect(c)
    BY <1>0, <2>1 DEF Disconnect, Gone
  <2>2. CASE CloseTaskSpace(c)
    BY <1>0, <2>2 DEF CloseTaskSpace, Gone
  <2>3. ASSUME NEW u \in Targets, CreateTab(c, u), u # t PROVE FALSE
    BY <1>0, <2>3 DEF CreateTab
  <2>4. ASSUME NEW s \in Born, ShowTaskSpace(c, s) PROVE FALSE
    BY <1>0, <2>4 DEF ShowTaskSpace, ShowIn, Gone
  <2>5. place' # place
    OBVIOUS
  <2> QED
    BY <1>1, <2>1, <2>2, <2>3, <2>4, <2>5
       DEF ClientStep, Connect, CreateTaskSpace, HandOffTaskSpace, TakeOverTaskSpace,
           AnimationHighlight, UseTaskSpace, ClaimTaskSpace, Drive, Gone
<1>2. CASE PageStep
  BY <1>0, <1>2 DEF PageStep, CloseContents, OnTabWebContentsDestroyed, CloseWindowTab, Gone
<1>3. CASE UserStep
  <2>1. ASSUME NEW S, CloseSpaces(S) PROVE FALSE
    BY <1>0, <2>1 DEF CloseSpaces, Gone
  <2>2. ASSUME NEW w \in Windows, CloseWindow(w) PROVE FALSE
    BY <1>0, <2>2 DEF CloseWindow, Gone
  <2>3. ASSUME NEW s, WallFocus(s) PROVE FALSE
    BY <1>0, <2>3 DEF WallFocus, ShowIn
  <2>4. CASE CycleToNextSpace
    BY <1>0, <2>4 DEF CycleToNextSpace, ShowIn
  <2> QED
    BY <1>3, <2>1, <2>2, <2>3, <2>4
       DEF UserStep, WallCreate, WallDeleteAll, WallClose, SyncAgentSurfaces, OpenWindow,
           WallHandOff, WallTakeOver, BannerStopAgent
<1> QED BY <1>1, <1>2, <1>3 DEF Next

(* The methods that close nothing take at most one target off the records. *)
LEMMA MethodsKeepRecords ==
  ASSUME NEW r, RegistryOK(r)
  PROVE  /\ CanCreate(r) => \A owner \in {"agent", "user"} :
              Recorded(r) \subseteq Recorded(Create(r, owner)) \cup RecordedIn(r, r.nextId)
         /\ \A s \in SpaceId :
              \A q \in {Claim(r, s), HandOff(r, s), TakeOver(r, s), StopAgent(r, s)} :
                Recorded(q) = Recorded(r)
         /\ \A t \in Targets :
              /\ Recorded(RemoveTab(r, t)) = Recorded(r) \ {t}
              /\ t \notin Recorded(r) =>
                   \A s : /\ Recorded(r) \subseteq Recorded(AddTab(r, s, t))
                          /\ Exists(r, s) => t \in Recorded(AddTab(r, s, t))
         /\ \A s : Recorded(SetWindowShown(r, s)) = Recorded(r)
         /\ \A s \in {DefaultSpace} \cup SpaceId :
              /\ Recorded(SetFocused(r, s)) = Recorded(r)
              /\ Recorded(SetWindowShown(SetFocused(r, s), s)) = Recorded(r)
<1>1. ASSUME CanCreate(r), NEW owner \in {"agent", "user"}
      PROVE  Recorded(r) \subseteq Recorded(Create(r, owner)) \cup RecordedIn(r, r.nextId)
  <2>1. \A s \in SpaceId \ {r.nextId} : RecordedIn(Create(r, owner), s) = RecordedIn(r, s)
    BY DEF Create, RegistryOK, Registry, RecordedIn
  <2> QED BY <2>1 DEF Recorded
<1>2. ASSUME NEW s \in SpaceId,
             NEW q \in {Claim(r, s), HandOff(r, s), TakeOver(r, s), StopAgent(r, s)}
      PROVE  Recorded(q) = Recorded(r)
  <2>1. \A to \in Ownership : Exists(r, s) => Recorded(SetOwnership(r, s, to)) = Recorded(r)
    BY SetOwnershipOK DEF Recorded
  <2>2. /\ q = r \/ \E to \in Ownership : q = SetOwnership(r, s, to)
        /\ q # r => Exists(r, s)
    BY DEF Claim, HandOff, TakeOver, StopAgent, OwnedBy, Ownership
  <2> QED BY <2>1, <2>2
<1>3. ASSUME NEW t \in Targets PROVE Recorded(RemoveTab(r, t)) = Recorded(r) \ {t}
  BY RemoveTabOK DEF Recorded
<1>4. ASSUME NEW t \in Targets, t \notin Recorded(r), NEW s
      PROVE  /\ Recorded(r) \subseteq Recorded(AddTab(r, s, t))
             /\ Exists(r, s) => t \in Recorded(AddTab(r, s, t))
  BY <1>4, AddTabOK DEF Recorded, Exists
<1>5. \A s : Recorded(SetWindowShown(r, s)) = Recorded(r)
  BY SetWindowShownOK DEF Recorded
<1>6. ASSUME NEW s \in {DefaultSpace} \cup SpaceId
      PROVE  /\ Recorded(SetFocused(r, s)) = Recorded(r)
             /\ Recorded(SetWindowShown(SetFocused(r, s), s)) = Recorded(r)
  <2>1. RegistryOK(SetFocused(r, s)) /\ Recorded(SetFocused(r, s)) = Recorded(r)
    BY SetFocusedOK DEF Recorded, RecordedIn
  <2> QED BY <2>1, SetWindowShownOK DEF Recorded
<1> QED BY <1>1, <1>2, <1>3, <1>4, <1>5, <1>6

NoGhosts == \A s \in SpaceId : ~ Exists(reg, s) => RecordedIn(reg, s) = {}

(* The records of a space go with it. *)
LEMMA RecordsGoWithSpace == Spec => []NoGhosts
<1>1. Init => NoGhosts
  BY EmptyRegistryOK DEF Init, NoGhosts, Recorded
<1>2. Inv /\ NoGhosts /\ [Next]_vars => NoGhosts'
  <2>1. ASSUME Inv, NoGhosts, Next, NEW s \in SpaceId, ~ Exists(reg', s)
        PROVE  RecordedIn(reg', s) = {}
    <3>1. CASE ~ Exists(reg, s)
      BY <2>1, <3>1, RecordSteps DEF NoGhosts, CreateTab, MayDrive, Selected
    <3>2. CASE Exists(reg, s)
      <4>1. Own(reg, s) # "absent" /\ Own(reg', s) = "absent"
        BY <2>1, <3>2 DEF Exists, Own
      <4> QED
        BY <2>1, <4>1, ControlSteps
           DEF Moved, Kept, Created, Closed, HandedOff, TakenOver, Stopped, Claimed, Given
    <3> QED BY <3>1, <3>2
  <2>2. NoGhosts /\ UNCHANGED vars => NoGhosts'
    BY DEF NoGhosts, vars, Exists, RecordedIn
  <2>3. Inv /\ NoGhosts /\ Next => NoGhosts'
    BY <2>1 DEF NoGhosts, Exists, RecordedIn
  <2> QED BY <2>2, <2>3
<1> QED BY <1>1, <1>2, SpecInv, PTL DEF Spec

(* As long as no space is closed, a page goes off the records only when it  *)
(* dies.                                                                    *)
LEMMA RecordsStay ==
  ASSUME Inv, NoGhosts, Next, (Born \subseteq Existing(reg))',
         NEW t \in Recorded(reg), place'[t] # "dead"
  PROVE  t \in Recorded(reg')
<1> DEFINE Stays == t \in Recorded(reg')
<1>0. /\ RegistryOK(reg) /\ Born \subseteq SpaceId /\ t \in Targets
      /\ place \in [Targets -> Place]
  BY BornAreIds, SpaceTypes DEF Inv, TypeOK, OneActiveRecord, RegistryOK, Recorded
<1>1. ASSUME NEW S \in SUBSET SpaceId, \A s \in S : s < reg.nextId, reg' = CloseAll(reg, S)
      PROVE  Stays
  <2>1. ASSUME NEW s \in S PROVE FALSE
    <3>1. s \in Born' /\ ~ Exists(reg', s)
      BY <1>0, <1>1, CloseAllOK, MaxSpacesAssumption, SMTT(30)
         DEF Born, Exists, Absent, NewSpace, RegistryOK, Registry, SpaceId
    <3> QED BY <3>1 DEF Existing
  <2>2. \A s \in SpaceId : RecordedIn(reg', s) = RecordedIn(reg, s)
    BY <1>0, <1>1, <2>1, CloseAllOK DEF RecordedIn
  <2> QED BY <2>2 DEF Recorded
<1>11. ASSUME NEW s \in SpaceId, s < reg.nextId, reg' = CloseAll(reg, {s}) PROVE Stays
  BY <1>1, <1>11
<1>2. ASSUME CanCreate(reg), NEW owner \in {"agent", "user"}, reg' = Create(reg, owner)
      PROVE  Stays
  <2>1. reg.nextId \in SpaceId /\ ~ Exists(reg, reg.nextId)
    BY <1>0, <1>2, MaxSpacesAssumption DEF CanCreate, RegistryOK, SpaceId
  <2> QED BY <1>0, <1>2, <2>1, MethodsKeepRecords DEF NoGhosts
<1>3. ASSUME NEW c \in Clients, ClientStep(c) PROVE Stays
  <2>1. ASSUME Selected(c) PROVE selected[c] \in SpaceId /\ selected[c] < reg.nextId
    BY <1>0, <2>1 DEF Selected, Exists, RegistryOK
  <2>2. CASE CreateTaskSpace(c)
    BY <1>2, <2>2 DEF CreateTaskSpace
  <2>3. CASE CloseTaskSpace(c)
    BY <1>11, <2>1, <2>3 DEF CloseTaskSpace, Close
  <2>4. CASE HandOffTaskSpace(c) \/ TakeOverTaskSpace(c)
    BY <1>0, <2>1, <2>4, MethodsKeepRecords DEF HandOffTaskSpace, TakeOverTaskSpace
  <2>5. ASSUME NEW s \in Born, ClaimTaskSpace(c, s) PROVE Stays
    BY <1>0, <2>5, MethodsKeepRecords DEF ClaimTaskSpace
  <2>6. ASSUME NEW s \in Born, ShowTaskSpace(c, s) PROVE Stays
    <3>1. reg' \in {reg, SetWindowShown(reg, s)}
      BY <2>6 DEF ShowTaskSpace
    <3> QED BY <1>0, <3>1, MethodsKeepRecords
  <2>7. ASSUME NEW u \in Targets, CreateTab(c, u) PROVE Stays
    <3>1. u \notin Recorded(reg) /\ reg' = AddTab(reg, selected[c], u)
      BY <2>7 DEF CreateTab, Inv, OneActiveRecord
    <3> QED BY <1>0, <3>1, MethodsKeepRecords
  <2>8. ASSUME UNCHANGED reg PROVE Stays
    BY <2>8
  <2> QED
    BY <1>3, <2>2, <2>3, <2>4, <2>5, <2>6, <2>7, <2>8
       DEF ClientStep, Connect, Disconnect, AnimationHighlight, UseTaskSpace, Drive
<1>4. CASE PageStep
  <2>1. ASSUME NEW u \in Targets, NEW c \in Clients,
               CloseContents(c, u) \/ OnTabWebContentsDestroyed(c, u)
        PROVE  Stays
    <3>1. place' = [place EXCEPT ![u] = "dead"] /\ reg' \in {RemoveTab(reg, u), reg}
      BY <2>1 DEF CloseContents, OnTabWebContentsDestroyed
    <3>2. u # t
      BY <1>0, <3>1
    <3> QED BY <1>0, <3>1, <3>2, MethodsKeepRecords
  <2>2. ASSUME NEW u \in Targets, CloseWindowTab(u) PROVE Stays
    BY <2>2 DEF CloseWindowTab
  <2> QED BY <1>4, <2>1, <2>2 DEF PageStep
<1>5. CASE UserStep
  <2>1. CASE WallCreate
    BY <1>2, <2>1 DEF WallCreate
  <2>2. ASSUME NEW s \in Born, WallClose(s) PROVE Stays
    <3>1. s \in SpaceId /\ s < reg.nextId
      BY <1>0, MaxSpacesAssumption DEF Born, RegistryOK, Registry
    <3> QED BY <1>11, <2>2, <3>1 DEF WallClose, CloseSpaces
  <2>3. CASE WallDeleteAll
    BY <1>0, <1>1, <2>3 DEF WallDeleteAll, CloseSpaces, Existing, RegistryOK
  <2>4. CASE CycleToNextSpace
    <3>1. NextOnWheel(reg) \in {DefaultSpace} \cup SpaceId
      BY <1>0, NextOnWheelIsSpace DEF RegistryOK
    <3>2. \/ reg' = SetWindowShown(SetFocused(reg, NextOnWheel(reg)), NextOnWheel(reg))
          \/ reg' = SetFocused(reg, NextOnWheel(reg))
      BY <2>4 DEF CycleToNextSpace
    <3> QED BY <1>0, <3>1, <3>2, MethodsKeepRecords
  <2>5. ASSUME NEW s \in Born, WallHandOff(s) \/ WallTakeOver(s) \/ BannerStopAgent(s)
        PROVE  Stays
    BY <1>0, <2>5, MethodsKeepRecords DEF WallHandOff, WallTakeOver, BannerStopAgent
  <2>6. ASSUME NEW s \in {DefaultSpace} \cup Born, WallFocus(s) PROVE Stays
    BY <1>0, <2>6, MethodsKeepRecords DEF WallFocus
  <2>7. ASSUME UNCHANGED reg PROVE Stays
    BY <2>7
  <2> QED
    BY <1>5, <2>1, <2>2, <2>3, <2>4, <2>5, <2>6, <2>7
       DEF UserStep, SyncAgentSurfaces, OpenWindow, CloseWindow
<1> QED BY <1>3, <1>4, <1>5 DEF Next

-----------------------------------------------------------------------------
(* As long as no space was closed, every living page is on the record of a  *)
(* space, so that listTabs, closeTaskSpace and the wall can reach it,       *)
(* whoever created it and wherever it was moved.                            *)
THEOREM PagesOnRecord == Spec => []LivePagesRecorded
<1>1. Init => LivePagesRecorded
  BY PlacesDistinct DEF Init, LivePagesRecorded, Live
<1>2. Inv /\ Inv' /\ NoGhosts /\ LivePagesRecorded /\ [Next]_vars => LivePagesRecorded'
  <2>1. ASSUME Inv, Inv', NoGhosts, LivePagesRecorded, Next,
               (Born \subseteq Existing(reg))', NEW t \in Targets, Live(t)'
        PROVE  t \in Recorded(reg')
    <3>1. place'[t] \notin Gone
      <4>1. place'[t] \in Place /\ (place'[t] \in Windows => place'[t] \in open')
            /\ open' \subseteq Windows
        BY <2>1 DEF Inv, TypeOK, SoleOwner
      <4> QED BY <2>1, <4>1, PlacesDistinct DEF Live, Place, Gone
    <3>2. Born \subseteq Existing(reg)
      <4>1. /\ Born \subseteq SpaceId /\ SpaceId \subseteq Nat
            /\ reg'.nextId \in Nat /\ reg.nextId \in Nat /\ reg.nextId <= reg'.nextId
        BY <2>1, BornAreIds, NoReturn, MaxSpacesAssumption DEF Inv, SpaceId
      <4>2. ASSUME NEW s \in Born PROVE Exists(reg', s) /\ s < reg.nextId
        BY <2>1, <4>1 DEF Born, Existing
      <4> QED BY <2>1, <4>1, <4>2, NoReturn DEF Existing
    <3>3. CASE place[t] \notin Gone
      <4>1. t \in Recorded(reg)
        BY <2>1, <3>2, <3>3, LiveIsPlaced DEF LivePagesRecorded
      <4> QED BY <2>1, <3>1, <4>1, RecordsStay DEF Gone
    <3>4. CASE place[t] \in Gone
      <4>1. PICK c \in Clients : CreateTab(c, t)
        BY <2>1, <3>1, <3>4, BirthSteps
      <4>2. /\ t \notin Recorded(reg) /\ reg' = AddTab(reg, selected[c], t)
            /\ Exists(reg, selected[c]) /\ RegistryOK(reg)
        BY <2>1, <4>1 DEF CreateTab, MayDrive, Selected, Inv, OneActiveRecord
      <4> QED BY <4>2, MethodsKeepRecords
    <3> QED BY <3>3, <3>4
  <2>2. Inv /\ Inv' /\ NoGhosts /\ LivePagesRecorded /\ Next => LivePagesRecorded'
    BY <2>1 DEF LivePagesRecorded
  <2>3. LivePagesRecorded /\ UNCHANGED vars => LivePagesRecorded'
    BY DEF LivePagesRecorded, vars, Live, Born
  <2> QED BY <2>2, <2>3
<1> QED BY <1>1, <1>2, SpecInv, RecordsGoWithSpace, PTL DEF Spec
=============================================================================
