--------------------------- MODULE SpaceRegistry ---------------------------
(***************************************************************************)
(* The browser-wide registry of task spaces, prism::SpaceManager, as pure  *)
(* operators: each one maps the registry to the registry the C++ method of *)
(* that name leaves behind.  A registry is a record                        *)
(*                                                                         *)
(*   spaces    the space of each id, Absent when spaces_ has no such key   *)
(*   nextId    next_id_, the id the next space gets                        *)
(*   focused   focused_space_id_, 0 for the default browsing area          *)
(*                                                                         *)
(* Names, labels, titles and urls are display text and are left out, and   *)
(* so is created_by, which is set once and only ever shown.                *)
(***************************************************************************)
EXTENDS Integers, SequencesExt

CONSTANTS
    MaxSpaces,    \* how many spaces are ever created (ids 1 .. MaxSpaces)
    Targets       \* the DevTools target ids of agent tabs, never reused

ASSUME MaxSpacesAssumption == MaxSpaces \in Nat \ {0}

SpaceId == 1 .. MaxSpaces
DefaultSpace == 0
Ownership == {"agent", "user", "delegated"}
TabRecord == [target : Targets, active : BOOLEAN]
Space == [ownership : Ownership \cup {"absent"},
          tabs : Seq(TabRecord), shown : BOOLEAN]
Registry == [spaces  : [SpaceId -> Space],
             nextId  : 1 .. MaxSpaces + 1,
             focused : {DefaultSpace} \cup SpaceId]

NewSpace(owner) == [ownership |-> owner, tabs |-> << >>, shown |-> FALSE]
Absent == NewSpace("absent")
EmptyRegistry == [spaces |-> [s \in SpaceId |-> Absent],
                  nextId |-> 1, focused |-> DefaultSpace]

-----------------------------------------------------------------------------
(* Queries. *)

Exists(r, id) == id \in SpaceId /\ r.spaces[id].ownership # "absent"
Existing(r) == {id \in SpaceId : Exists(r, id)}
OwnedBy(r, id, who) == Exists(r, id) /\ r.spaces[id].ownership = who
TargetsOf(s) == {s.tabs[k].target : k \in DOMAIN s.tabs}
RecordedIn(r, id) == TargetsOf(r.spaces[id])
Recorded(r) == UNION {RecordedIn(r, id) : id \in SpaceId}

(* A list of tabs names a target once and, unless empty, has one active tab. *)
TabsOK(tabs) ==
    /\ \A k, l \in DOMAIN tabs : tabs[k].target = tabs[l].target => k = l
    /\ tabs # << >> =>
         \E k \in DOMAIN tabs :
           tabs[k].active /\ \A l \in DOMAIN tabs : tabs[l].active => l = k

(* Mutant: Use answers for the user's own space, too. *)
MayUseAny(r, id) == Exists(r, id)
(* What Use answers: kNone only for an existing space that is not kUser. *)
MayUse(r, id) == Exists(r, id) /\ r.spaces[id].ownership # "user"

-----------------------------------------------------------------------------
(* Mutators. *)

CanCreate(r) == r.nextId \in SpaceId
Create(r, owner) ==
    [spaces  |-> [r.spaces EXCEPT ![r.nextId] = NewSpace(owner)],
     nextId  |-> r.nextId + 1,
     focused |-> r.focused]

SetOwnership(r, id, to) == [r EXCEPT !.spaces[id].ownership = to]
Claim(r, id) == IF Exists(r, id) THEN SetOwnership(r, id, "agent") ELSE r
(* Mutant: any existing space can be handed off. *)
HandOffAny(r, id) == IF Exists(r, id) THEN SetOwnership(r, id, "delegated") ELSE r
HandOff(r, id) ==
    IF OwnedBy(r, id, "agent") THEN SetOwnership(r, id, "delegated") ELSE r
(* Mutant: the user's own space can be taken over, too. *)
TakeOverAny(r, id) == IF Exists(r, id) THEN SetOwnership(r, id, "agent") ELSE r
TakeOver(r, id) ==
    IF OwnedBy(r, id, "delegated") THEN SetOwnership(r, id, "agent") ELSE r
StopAgent(r, id) == IF Exists(r, id) THEN SetOwnership(r, id, "user") ELSE r

(* Mutant: the focus moves on to the next id, whether there is one or not. *)
CloseAllNextFocus(r, ids) ==
    [spaces  |-> [s \in SpaceId |-> IF s \in ids THEN Absent ELSE r.spaces[s]],
     nextId  |-> r.nextId,
     focused |-> IF Exists(r, r.focused) /\ r.focused \in ids THEN r.focused + 1
                 ELSE r.focused]
CloseAll(r, ids) ==
    [spaces  |-> [s \in SpaceId |-> IF s \in ids THEN Absent ELSE r.spaces[s]],
     nextId  |-> r.nextId,
     focused |-> IF Exists(r, r.focused) /\ r.focused \in ids THEN DefaultSpace
                 ELSE r.focused]
Close(r, id) == CloseAll(r, {id})

(* The pushed tab is the active one and every other flag is cleared. *)
AddedTab(tabs, t) ==
    Append([k \in 1 .. Len(tabs) |-> [target |-> tabs[k].target, active |-> FALSE]],
           [target |-> t, active |-> TRUE])
WithTabs(r, id, list) == [r EXCEPT !.spaces[id].tabs = list]
AddTab(r, id, t) ==
    IF Exists(r, id) THEN WithTabs(r, id, AddedTab(r.spaces[id].tabs, t)) ELSE r

(* Mutant: no other tab becomes active when the active one goes. *)
RemovedTabOnly(tabs, k) == RemoveAt(tabs, k)
(* Removing the active tab makes the last remaining one active. *)
RemovedTab(tabs, k) ==
    LET rest == RemoveAt(tabs, k) IN
    IF tabs[k].active /\ rest # << >>
      THEN [rest EXCEPT ![Len(rest)] = [target |-> @.target, active |-> TRUE]]
      ELSE rest
FirstHolder(r, t) ==
    CHOOSE i \in SpaceId :
      t \in RecordedIn(r, i) /\ \A j \in SpaceId : t \in RecordedIn(r, j) => i <= j
(* Mutant: the position of the active tab, whatever tab is looked for. *)
FirstPositionActive(list, t) == CHOOSE k \in DOMAIN list : list[k].active
FirstPosition(list, t) ==
    CHOOSE k \in DOMAIN list :
      list[k].target = t /\ \A l \in DOMAIN list : list[l].target = t => k <= l
RemoveTab(r, t) ==
    IF t \notin Recorded(r) THEN r
    ELSE LET list == r.spaces[FirstHolder(r, t)].tabs IN
         WithTabs(r, FirstHolder(r, t), RemovedTab(list, FirstPosition(list, t)))

SetWindowShown(r, id) ==
    IF Exists(r, id) THEN [r EXCEPT !.spaces[id].shown = TRUE] ELSE r
SetFocused(r, id) == [r EXCEPT !.focused = id]

(* The wheel of CycleToNextSpace: 0 and then the ids in order; a focus that *)
(* is not on it counts as 0.                                                *)
NextOnWheel(r) ==
    LET wheel == {DefaultSpace} \cup Existing(r)
        here  == IF r.focused \in wheel THEN r.focused ELSE DefaultSpace
        above == {i \in wheel : i > here}
    IN  IF above = {} THEN DefaultSpace
        ELSE CHOOSE i \in above : \A j \in above : i <= j

-----------------------------------------------------------------------------
(* What every method preserves: the types, lists of tabs in order and       *)
(* pairwise disjoint, and ids of existing spaces below next_id_.            *)
RegistryOK(r) ==
    /\ r \in Registry
    /\ \A s \in SpaceId : TabsOK(r.spaces[s].tabs)
    /\ \A s, u \in SpaceId : s # u => RecordedIn(r, s) \cap RecordedIn(r, u) = {}
    /\ \A s \in SpaceId : Exists(r, s) => s < r.nextId
=============================================================================
