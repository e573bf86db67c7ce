------------------------ MODULE SpaceRegistryProofs ------------------------
(***************************************************************************)
(* Lemmas about the operators of SpaceRegistry: every method keeps the     *)
(* registry well typed and its tab lists in order, and what it does to the *)
(* set of recorded targets and to the ownership of each space.             *)
(***************************************************************************)
EXTENDS SpaceRegistry, SequenceTheorems, WellFoundedInduction, TLAPS

-----------------------------------------------------------------------------
(* Lists of tabs. *)

(* Removing position k shifts the later positions down by one. *)
LEMMA RemoveAtShifts ==
  ASSUME NEW S, NEW s \in Seq(S), NEW k \in 1 .. Len(s)
  PROVE  /\ RemoveAt(s, k) \in Seq(S)
         /\ Len(RemoveAt(s, k)) = Len(s) - 1
         /\ \A j \in 1 .. Len(s) - 1 :
              RemoveAt(s, k)[j] = IF j < k THEN s[j] ELSE s[j + 1]
<1> DEFINE low == SubSeq(s, 1, k - 1)
           high == SubSeq(s, k + 1, Len(s))
<1>0. Len(s) \in Nat
  BY LenProperties
<1>1. /\ low \in Seq(S)
      /\ Len(low) = k - 1
      /\ \A i \in 1 .. k - 1 : low[i] = s[i]
  <2>1. \A i \in 1 .. k - 1 : s[i] \in S
    BY <1>0, ElementOfSeq
  <2>2. /\ SubSeq(s, 1, k - 1) \in Seq(S)
        /\ Len(SubSeq(s, 1, k - 1)) = IF 1 <= k - 1 THEN k - 1 - 1 + 1 ELSE 0
        /\ \A i \in 1 .. k - 1 - 1 + 1 : SubSeq(s, 1, k - 1)[i] = s[1 + i - 1]
    BY <1>0, <2>1, SubSeqProperties
  <2> QED BY <1>0, <2>2
<1>2. /\ high \in Seq(S)
      /\ Len(high) = Len(s) - k
      /\ \A i \in 1 .. Len(s) - k : high[i] = s[k + i]
  <2>1. \A i \in k + 1 .. Len(s) : s[i] \in S
    BY <1>0, ElementOfSeq
  <2>2. /\ SubSeq(s, k + 1, Len(s)) \in Seq(S)
        /\ Len(SubSeq(s, k + 1, Len(s)))
             = IF k + 1 <= Len(s) THEN Len(s) - (k + 1) + 1 ELSE 0
        /\ \A i \in 1 .. Len(s) - (k + 1) + 1 :
             SubSeq(s, k + 1, Len(s))[i] = s[(k + 1) + i - 1]
    BY <1>0, <2>1, SubSeqProperties
  <2> QED BY <1>0, <2>2
<1>3. /\ low \o high \in Seq(S)
      /\ Len(low \o high) = Len(low) + Len(high)
      /\ \A i \in 1 .. Len(low) + Len(high) :
           (low \o high)[i] = IF i <= Len(low) THEN low[i] ELSE high[i - Len(low)]
  BY <1>1, <1>2, ConcatProperties
<1>4. RemoveAt(s, k) = low \o high
  BY DEF RemoveAt
<1> HIDE DEF low, high
<1>5. ASSUME NEW j \in 1 .. Len(s) - 1
      PROVE  (low \o high)[j] = IF j < k THEN s[j] ELSE s[j + 1]
  <2>1. CASE j < k
    BY <1>0, <1>1, <1>2, <1>3, <2>1
  <2>2. CASE ~ (j < k)
    <3>1. (low \o high)[j] = high[j - (k - 1)]
      BY <1>0, <1>1, <1>2, <1>3, <2>2
    <3>2. j - (k - 1) \in 1 .. Len(s) - k
      BY <1>0, <2>2
    <3>3. high[j - (k - 1)] = s[k + (j - (k - 1))]
      BY <1>2, <3>2
    <3>4. k + (j - (k - 1)) = j + 1
      BY <1>0
    <3> QED BY <1>0, <2>2, <3>1, <3>3, <3>4
  <2> QED BY <2>1, <2>2
<1>6. Len(low \o high) = Len(s) - 1
  BY <1>0, <1>1, <1>2, <1>3
<1> QED BY <1>3, <1>4, <1>5, <1>6

(* A pushed tab is the last one, and the only active one. *)
LEMMA AddedTabShape ==
  ASSUME NEW tabs \in Seq(TabRecord), NEW t \in Targets
  PROVE  /\ AddedTab(tabs, t) \in Seq(TabRecord)
         /\ Len(AddedTab(tabs, t)) = Len(tabs) + 1
         /\ \A j \in 1 .. Len(tabs) :
              AddedTab(tabs, t)[j] = [target |-> tabs[j].target, active |-> FALSE]
         /\ AddedTab(tabs, t)[Len(tabs) + 1] = [target |-> t, active |-> TRUE]
<1> DEFINE quiet == [k \in 1 .. Len(tabs) |->
                       [target |-> tabs[k].target, active |-> FALSE]]
<1>1. /\ Len(tabs) \in Nat
      /\ \A k \in 1 .. Len(tabs) : tabs[k] \in TabRecord
  BY LenProperties, ElementOfSeq
<1>2. quiet \in Seq(TabRecord) /\ Len(quiet) = Len(tabs)
  BY <1>1 DEF TabRecord
<1>3. [target |-> t, active |-> TRUE] \in TabRecord
  BY DEF TabRecord
<1>4. AddedTab(tabs, t) = Append(quiet, [target |-> t, active |-> TRUE])
  BY DEF AddedTab
<1> HIDE DEF quiet
<1>5. /\ Append(quiet, [target |-> t, active |-> TRUE]) \in Seq(TabRecord)
      /\ Len(Append(quiet, [target |-> t, active |-> TRUE])) = Len(quiet) + 1
      /\ \A i \in 1 .. Len(quiet) :
           Append(quiet, [target |-> t, active |-> TRUE])[i] = quiet[i]
      /\ Append(quiet, [target |-> t, active |-> TRUE])[Len(quiet) + 1]
           = [target |-> t, active |-> TRUE]
  BY <1>2, <1>3, AppendProperties
<1>6. \A k \in 1 .. Len(tabs) :
        quiet[k] = [target |-> tabs[k].target, active |-> FALSE]
  BY DEF quiet
<1> QED BY <1>2, <1>4, <1>5, <1>6

(* Adding a new target keeps the list in order. *)
LEMMA AddedTabOK ==
  ASSUME NEW tabs \in Seq(TabRecord), NEW t \in Targets, TabsOK(tabs),
         \A k \in DOMAIN tabs : tabs[k].target # t
  PROVE  /\ AddedTab(tabs, t) \in Seq(TabRecord)
         /\ TabsOK(AddedTab(tabs, t))
         /\ {AddedTab(tabs, t)[k].target : k \in DOMAIN AddedTab(tabs, t)}
              = {tabs[k].target : k \in DOMAIN tabs} \cup {t}
<1> DEFINE new == AddedTab(tabs, t)
<1>1. /\ Len(tabs) \in Nat
      /\ DOMAIN tabs = 1 .. Len(tabs)
  BY LenProperties
<1>2. /\ new \in Seq(TabRecord)
      /\ Len(new) = Len(tabs) + 1
      /\ \A j \in 1 .. Len(tabs) :
           new[j] = [target |-> tabs[j].target, active |-> FALSE]
      /\ new[Len(tabs) + 1] = [target |-> t, active |-> TRUE]
  BY AddedTabShape
<1> HIDE DEF new
<1>3. DOMAIN new = 1 .. Len(tabs) + 1
  BY <1>2, LenProperties
<1>4. /\ \A j \in 1 .. Len(tabs) : new[j].target = tabs[j].target
      /\ \A j \in 1 .. Len(tabs) : ~ new[j].active
      /\ new[Len(tabs) + 1].target = t
      /\ new[Len(tabs) + 1].active
  <2>1. ASSUME NEW j \in 1 .. Len(tabs)
        PROVE  new[j].target = tabs[j].target /\ ~ new[j].active
    <3>1. new[j] = [target |-> tabs[j].target, active |-> FALSE]
      BY <1>2
    <3>2. new[j].target = tabs[j].target
      BY <3>1
    <3>3. new[j].active = FALSE
      BY <3>1
    <3> QED BY <3>2, <3>3
  <2>2. new[Len(tabs) + 1].target = t
    BY <1>2
  <2>3. new[Len(tabs) + 1].active = TRUE
    BY <1>2
  <2> QED BY <2>1, <2>2, <2>3
<1>5. \A k, l \in DOMAIN new : new[k].target = new[l].target => k = l
  BY <1>1, <1>3, <1>4 DEF TabsOK
<1>6. /\ Len(tabs) + 1 \in DOMAIN new
      /\ \A l \in DOMAIN new : new[l].active => l = Len(tabs) + 1
  BY <1>1, <1>3, <1>4
<1>7. TabsOK(new)
  BY <1>4, <1>5, <1>6 DEF TabsOK
<1>8. {new[k].target : k \in DOMAIN new}
        = {tabs[k].target : k \in DOMAIN tabs} \cup {t}
  BY <1>1, <1>3, <1>4
<1> QED BY <1>2, <1>7, <1>8 DEF new

(* Removing a tab keeps the list in order and drops that target alone. *)
LEMMA RemovedTabOK ==
  ASSUME NEW tabs \in Seq(TabRecord), TabsOK(tabs), NEW k \in DOMAIN tabs
  PROVE  /\ RemovedTab(tabs, k) \in Seq(TabRecord)
         /\ TabsOK(RemovedTab(tabs, k))
         /\ {RemovedTab(tabs, k)[j].target : j \in DOMAIN RemovedTab(tabs, k)}
              = {tabs[j].target : j \in DOMAIN tabs \ {k}}
<1> DEFINE rest == RemoveAt(tabs, k)
           n == Len(tabs) - 1
           new == RemovedTab(tabs, k)
           up(j) == IF j < k THEN j ELSE j + 1
<1>1. /\ Len(tabs) \in Nat
      /\ DOMAIN tabs = 1 .. Len(tabs)
      /\ \A j \in DOMAIN tabs : tabs[j] \in TabRecord
  BY LenProperties, ElementOfSeq
<1>2. /\ rest \in Seq(TabRecord)
      /\ Len(rest) = n
      /\ \A j \in 1 .. n : rest[j] = IF j < k THEN tabs[j] ELSE tabs[j + 1]
  BY <1>1, RemoveAtShifts
<1>3. \A j \in 1 .. n : up(j) \in DOMAIN tabs \ {k} /\ rest[j] = tabs[up(j)]
  BY <1>1, <1>2
<1>31. \A m \in DOMAIN tabs \ {k} : \E j \in 1 .. n : up(j) = m
  <2> SUFFICES ASSUME NEW m \in DOMAIN tabs \ {k} PROVE \E j \in 1 .. n : up(j) = m
    OBVIOUS
  <2>1. CASE m < k
    BY <1>1, <2>1
  <2>2. CASE m > k
    <3>1. m - 1 \in 1 .. n /\ up(m - 1) = m
      BY <1>1, <2>2
    <3> QED BY <3>1
  <2> QED BY <1>1, <2>1, <2>2
<1>4. /\ n \in Nat
      /\ DOMAIN rest = 1 .. n
      /\ rest # << >> <=> n > 0
  BY <1>1, <1>2, LenProperties, EmptySeq
<1>5. new = IF tabs[k].active /\ rest # << >>
              THEN [rest EXCEPT ![Len(rest)] = [target |-> @.target, active |-> TRUE]]
              ELSE rest
  BY DEF RemovedTab
<1> HIDE DEF rest, new, n
<1>6. \A j \in 1 .. n : rest[j] \in TabRecord
  BY <1>1, <1>3
<1>7. CASE tabs[k].active /\ n > 0
  <2> DEFINE last == [target |-> rest[n].target, active |-> TRUE]
  <2>1. last \in TabRecord
    BY <1>4, <1>6, <1>7 DEF TabRecord
  <2>2. new = [rest EXCEPT ![n] = last]
    BY <1>2, <1>4, <1>5, <1>7
  <2> HIDE DEF last
  <2>3. /\ new \in Seq(TabRecord)
        /\ Len(new) = n
        /\ \A j \in 1 .. n : new[j] = IF j = n THEN last ELSE rest[j]
    BY <1>2, <1>4, <1>7, <2>1, <2>2, ExceptSeq
  <2>4. DOMAIN new = 1 .. n
    BY <2>3, LenProperties
  <2>5. \A j \in 1 .. n : new[j].target = tabs[up(j)].target
    BY <1>3, <2>3 DEF last
  <2>6. \A j, l \in 1 .. n : new[j].target = new[l].target => j = l
    <3>1. \A j, l \in 1 .. n : up(j) = up(l) => j = l
      BY <1>1, <1>4
    <3> QED BY <1>3, <2>5, <3>1 DEF TabsOK
  <2>7. new[n].active /\ \A j \in 1 .. n : new[j].active => j = n
    <3>1. \A j \in 1 .. n : ~ tabs[up(j)].active
      BY <1>1, <1>3, <1>7 DEF TabsOK
    <3>2. \A j \in 1 .. n : j # n => ~ new[j].active
      BY <1>3, <2>3, <3>1
    <3>3. n \in 1 .. n /\ new[n] = last
      BY <1>4, <1>7, <2>3
    <3> QED BY <3>2, <3>3 DEF last
  <2>8. TabsOK(new)
    BY <1>4, <1>7, <2>4, <2>6, <2>7 DEF TabsOK
  <2>9. {new[j].target : j \in DOMAIN new} = {tabs[j].target : j \in DOMAIN tabs \ {k}}
    BY <1>3, <1>31, <2>4, <2>5, SMTT(30)
  <2> QED BY <2>3, <2>8, <2>9 DEF new
<1>8. CASE ~ (tabs[k].active /\ n > 0)
  <2>1. new = rest
    BY <1>4, <1>5, <1>8
  <2>2. \A j, l \in 1 .. n : rest[j].target = rest[l].target => j = l
    <3>1. \A j, l \in 1 .. n : up(j) = up(l) => j = l
      BY <1>1, <1>4
    <3> QED BY <1>3, <3>1 DEF TabsOK
  <2>3. ASSUME n > 0
        PROVE  \E j \in 1 .. n :
                 rest[j].active /\ \A l \in 1 .. n : rest[l].active => l = j
    <3>1. PICK m \in DOMAIN tabs :
            tabs[m].active /\ \A l \in DOMAIN tabs : tabs[l].active => l = m
      BY <1>1, <1>4, <2>3, EmptySeq DEF TabsOK, n
    <3>2. m # k
      BY <1>8, <2>3, <3>1
    <3>3. PICK j \in 1 .. n : up(j) = m
      BY <1>31, <3>2
    <3>4. \A l \in 1 .. n : up(l) = m <=> l = j
      BY <1>1, <1>4, <3>3
    <3>5. rest[j].active /\ \A l \in 1 .. n : rest[l].active => l = j
      BY <1>3, <3>1, <3>4
    <3> QED BY <3>5
  <2>4. TabsOK(rest)
    BY <1>4, <2>2, <2>3 DEF TabsOK
  <2>5. {rest[j].target : j \in DOMAIN rest} = {tabs[j].target : j \in DOMAIN tabs \ {k}}
    BY <1>3, <1>31, <1>4
  <2> QED BY <1>2, <2>1, <2>4, <2>5 DEF new
<1> QED BY <1>1, <1>4, <1>7, <1>8

-----------------------------------------------------------------------------
(* Registries. *)

LEMMA SpaceTypes ==
  ASSUME NEW r \in Registry, NEW s \in SpaceId
  PROVE  /\ r.spaces[s] \in Space
         /\ r.spaces[s].tabs \in Seq(TabRecord)
         /\ RecordedIn(r, s) \subseteq Targets
<1>1. r.spaces[s] \in Space
  BY DEF Registry
<1>2. r.spaces[s].tabs \in Seq(TabRecord)
  BY <1>1 DEF Space
<1>3. \A k \in DOMAIN r.spaces[s].tabs : r.spaces[s].tabs[k] \in TabRecord
  BY <1>2, LenProperties, ElementOfSeq
<1> QED BY <1>1, <1>2, <1>3 DEF RecordedIn, TargetsOf, TabRecord

(* The empty list is in order and records nothing. *)
LEMMA NoTabs == TabsOK(<< >>) /\ << >> \in Seq(TabRecord) /\ DOMAIN << >> = {}
<1>1. << >> \in Seq(TabRecord) /\ Len(<< >>) = 0
  BY EmptySeq
<1>2. DOMAIN << >> = {}
  BY <1>1, LenProperties
<1> QED BY <1>1, <1>2 DEF TabsOK

(* A method that leaves every list of tabs alone, or empties some. *)
LEMMA ListsKeptOrEmptied ==
  ASSUME NEW r, RegistryOK(r), NEW q \in Registry,
         \A s \in SpaceId : q.spaces[s].tabs \in {r.spaces[s].tabs, << >>},
         \A s \in SpaceId : Exists(q, s) => s < q.nextId
  PROVE  /\ RegistryOK(q)
         /\ \A s \in SpaceId : RecordedIn(q, s) \subseteq RecordedIn(r, s)
<1>1. \A s \in SpaceId : RecordedIn(q, s) \subseteq RecordedIn(r, s)
  BY NoTabs DEF RecordedIn, TargetsOf
<1>2. \A s \in SpaceId : TabsOK(q.spaces[s].tabs)
  BY NoTabs DEF RegistryOK
<1>3. \A s, u \in SpaceId : s # u => RecordedIn(q, s) \cap RecordedIn(q, u) = {}
  BY <1>1 DEF RegistryOK
<1> QED BY <1>1, <1>2, <1>3 DEF RegistryOK

LEMMA EmptyRegistryOK == RegistryOK(EmptyRegistry) /\ Recorded(EmptyRegistry) = {}
<1>1. EmptyRegistry \in Registry
  BY NoTabs, MaxSpacesAssumption
     DEF EmptyRegistry, Registry, Absent, NewSpace, Space, SpaceId, DefaultSpace
<1>2. \A s \in SpaceId : EmptyRegistry.spaces[s] = Absent
  BY DEF EmptyRegistry
<1>3. \A s \in SpaceId : EmptyRegistry.spaces[s].tabs = << >>
  BY <1>2 DEF Absent, NewSpace
<1>4. \A s \in SpaceId : RecordedIn(EmptyRegistry, s) = {}
  BY <1>3, NoTabs DEF RecordedIn, TargetsOf
<1>5. \A s \in SpaceId : ~ Exists(EmptyRegistry, s)
  BY <1>2 DEF Exists, Absent, NewSpace
<1> QED BY <1>1, <1>3, <1>4, <1>5, NoTabs DEF RegistryOK, Recorded

LEMMA CreateOK ==
  ASSUME NEW r, RegistryOK(r), CanCreate(r), NEW owner \in Ownership
  PROVE  /\ RegistryOK(Create(r, owner))
         /\ \A s \in SpaceId : RecordedIn(Create(r, owner), s) \subseteq RecordedIn(r, s)
<1> DEFINE q == Create(r, owner)
<1>1. /\ r \in Registry
      /\ r.nextId \in SpaceId
  BY DEF RegistryOK, CanCreate
<1>2. NewSpace(owner) \in Space
  BY NoTabs DEF NewSpace, Space
<1>3. /\ q.spaces = [r.spaces EXCEPT ![r.nextId] = NewSpace(owner)]
      /\ q.nextId = r.nextId + 1
      /\ q = [spaces |-> q.spaces, nextId |-> q.nextId, focused |-> r.focused]
  BY DEF Create
<1> HIDE DEF q
<1>31. q.nextId \in 1 .. MaxSpaces + 1
  BY <1>1, <1>3, MaxSpacesAssumption DEF SpaceId
<1>32. q \in Registry
  BY <1>1, <1>2, <1>3, <1>31 DEF Registry
<1>4. \A s \in SpaceId :
        q.spaces[s] = IF s = r.nextId THEN NewSpace(owner) ELSE r.spaces[s]
  BY <1>1, <1>3 DEF Registry
<1>5. \A s \in SpaceId : q.spaces[s].tabs \in {r.spaces[s].tabs, << >>}
  BY <1>4 DEF NewSpace
<1>6. \A s \in SpaceId : Exists(q, s) => s < q.nextId
  <2> SUFFICES ASSUME NEW s \in SpaceId, Exists(q, s) PROVE s < q.nextId
    OBVIOUS
  <2>1. CASE s = r.nextId
    BY <1>1, <1>3, <2>1 DEF SpaceId
  <2>2. CASE s # r.nextId
    <3>1. Exists(r, s)
      BY <1>4, <2>2 DEF Exists
    <3> QED BY <1>1, <1>3, <3>1 DEF RegistryOK, SpaceId
  <2> QED BY <2>1, <2>2
<1> QED BY <1>32, <1>5, <1>6, ListsKeptOrEmptied DEF q

LEMMA SetOwnershipOK ==
  ASSUME NEW r, RegistryOK(r), NEW id \in SpaceId, Exists(r, id), NEW to \in Ownership
  PROVE  /\ RegistryOK(SetOwnership(r, id, to))
         /\ \A s \in SpaceId :
              /\ RecordedIn(SetOwnership(r, id, to), s) = RecordedIn(r, s)
              /\ SetOwnership(r, id, to).spaces[s].ownership
                   = IF s = id THEN to ELSE r.spaces[s].ownership
         /\ SetOwnership(r, id, to).nextId = r.nextId
<1> DEFINE q == SetOwnership(r, id, to)
           moved == [r.spaces[id] EXCEPT !.ownership = to]
<1>1. r \in Registry /\ r.spaces[id] \in Space
  BY SpaceTypes DEF RegistryOK
<1>2. moved \in Space /\ moved.tabs = r.spaces[id].tabs /\ moved.ownership = to
  BY <1>1 DEF Space
<1>3. /\ q.spaces = [r.spaces EXCEPT ![id] = moved]
      /\ q.nextId = r.nextId
      /\ q.focused = r.focused
      /\ q = [spaces |-> q.spaces, nextId |-> q.nextId, focused |-> q.focused]
  BY <1>1 DEF SetOwnership, Registry
<1> HIDE DEF moved, q
<1>4. /\ q \in Registry
      /\ \A s \in SpaceId : q.spaces[s] = IF s = id THEN moved ELSE r.spaces[s]
  BY <1>1, <1>2, <1>3 DEF Registry
<1>5. \A s \in SpaceId :
        /\ q.spaces[s].tabs = r.spaces[s].tabs
        /\ q.spaces[s].ownership = IF s = id THEN to ELSE r.spaces[s].ownership
  BY <1>2, <1>4
<1>6. \A s \in SpaceId : Exists(q, s) => s < q.nextId
  BY <1>3, <1>5 DEF Exists, RegistryOK
<1>7. RegistryOK(q)
  BY <1>4, <1>5, <1>6, ListsKeptOrEmptied
<1>8. \A s \in SpaceId : RecordedIn(q, s) = RecordedIn(r, s)
  BY <1>5 DEF RecordedIn, TargetsOf
<1> QED BY <1>3, <1>5, <1>7, <1>8 DEF q

LEMMA CloseAllOK ==
  ASSUME NEW r, RegistryOK(r), NEW ids \in SUBSET SpaceId
  PROVE  /\ RegistryOK(CloseAll(r, ids))
         /\ \A s \in SpaceId :
              /\ RecordedIn(CloseAll(r, ids), s) \subseteq RecordedIn(r, s)
              /\ CloseAll(r, ids).spaces[s] = IF s \in ids THEN Absent ELSE r.spaces[s]
         /\ CloseAll(r, ids).nextId = r.nextId
<1> DEFINE q == CloseAll(r, ids)
<1>1. r \in Registry
  BY DEF RegistryOK
<1>2. Absent \in Space /\ Absent.tabs = << >>
  BY NoTabs DEF Absent, NewSpace, Space
<1>3. /\ q.spaces = [s \in SpaceId |-> IF s \in ids THEN Absent ELSE r.spaces[s]]
      /\ q.nextId = r.nextId
      /\ q.focused \in {DefaultSpace, r.focused}
      /\ q = [spaces |-> q.spaces, nextId |-> q.nextId, focused |-> q.focused]
  BY DEF CloseAll
<1> HIDE DEF q
<1>4. \A s \in SpaceId : q.spaces[s] = IF s \in ids THEN Absent ELSE r.spaces[s]
  BY <1>3
<1>5. q \in Registry
  BY <1>1, <1>2, <1>3 DEF Registry
<1>6. \A s \in SpaceId : q.spaces[s].tabs \in {r.spaces[s].tabs, << >>}
  BY <1>2, <1>4
<1>7. \A s \in SpaceId : Exists(q, s) => s < q.nextId
  BY <1>3, <1>4 DEF Exists, RegistryOK, Absent, NewSpace
<1>8. /\ RegistryOK(q)
      /\ \A s \in SpaceId : RecordedIn(q, s) \subseteq RecordedIn(r, s)
  BY <1>5, <1>6, <1>7, ListsKeptOrEmptied
<1> QED BY <1>3, <1>4, <1>8 DEF q

LEMMA SetFocusedOK ==
  ASSUME NEW r, RegistryOK(r), NEW id \in {DefaultSpace} \cup SpaceId
  PROVE  /\ RegistryOK(SetFocused(r, id))
         /\ SetFocused(r, id).spaces = r.spaces
         /\ SetFocused(r, id).nextId = r.nextId
<1> DEFINE q == SetFocused(r, id)
<1>1. r \in Registry
  BY DEF RegistryOK
<1>2. q = [spaces |-> r.spaces, nextId |-> r.nextId, focused |-> id]
  BY <1>1 DEF SetFocused, Registry
<1> HIDE DEF q
<1>3. q \in Registry /\ q.spaces = r.spaces /\ q.nextId = r.nextId
  BY <1>1, <1>2 DEF Registry
<1> QED BY <1>3 DEF RegistryOK, RecordedIn, Exists, q

LEMMA SetWindowShownOK ==
  ASSUME NEW r, RegistryOK(r), NEW id
  PROVE  /\ RegistryOK(SetWindowShown(r, id))
         /\ \A s \in SpaceId :
              /\ RecordedIn(SetWindowShown(r, id), s) = RecordedIn(r, s)
              /\ SetWindowShown(r, id).spaces[s].ownership = r.spaces[s].ownership
         /\ SetWindowShown(r, id).nextId = r.nextId
<1>1. CASE ~ Exists(r, id)
  BY <1>1 DEF SetWindowShown
<1>2. CASE Exists(r, id)
  <2> DEFINE q == SetWindowShown(r, id)
             seen == [r.spaces[id] EXCEPT !.shown = TRUE]
  <2>1. r \in Registry /\ id \in SpaceId /\ r.spaces[id] \in Space
    BY <1>2, SpaceTypes DEF RegistryOK, Exists
  <2>2. /\ seen \in Space
        /\ seen.tabs = r.spaces[id].tabs
        /\ seen.ownership = r.spaces[id].ownership
    BY <2>1 DEF Space
  <2>3. /\ q.spaces = [r.spaces EXCEPT ![id] = seen]
        /\ q.nextId = r.nextId
        /\ q.focused = r.focused
        /\ q = [spaces |-> q.spaces, nextId |-> q.nextId, focused |-> q.focused]
    BY <1>2, <2>1 DEF SetWindowShown, Registry
  <2> HIDE DEF seen, q
  <2>4. /\ q \in Registry
        /\ \A s \in SpaceId : q.spaces[s] = IF s = id THEN seen ELSE r.spaces[s]
    BY <2>1, <2>2, <2>3 DEF Registry
  <2>5. \A s \in SpaceId :
          /\ q.spaces[s].tabs = r.spaces[s].tabs
          /\ q.spaces[s].ownership = r.spaces[s].ownership
    BY <2>2, <2>4
  <2>6. \A s \in SpaceId : Exists(q, s) => s < q.nextId
    BY <2>3, <2>5 DEF Exists, RegistryOK
  <2>7. RegistryOK(q)
    BY <2>4, <2>5, <2>6, ListsKeptOrEmptied
  <2>8. \A s \in SpaceId : RecordedIn(q, s) = RecordedIn(r, s)
    BY <2>5 DEF RecordedIn, TargetsOf
  <2> QED BY <2>3, <2>5, <2>7, <2>8 DEF q
<1> QED BY <1>1, <1>2

(* Replacing one list of tabs by a list in order that records no target of  *)
(* another space.                                                           *)
LEMMA ListReplaced ==
  ASSUME NEW r, RegistryOK(r), NEW id \in SpaceId,
         NEW list \in Seq(TabRecord), TabsOK(list),
         \A s \in SpaceId \ {id} :
           {list[k].target : k \in DOMAIN list} \cap RecordedIn(r, s) = {}
  PROVE  /\ RegistryOK(WithTabs(r, id, list))
         /\ \A s \in SpaceId :
              /\ RecordedIn(WithTabs(r, id, list), s) =
                   IF s = id THEN {list[k].target : k \in DOMAIN list}
                   ELSE RecordedIn(r, s)
              /\ WithTabs(r, id, list).spaces[s].ownership = r.spaces[s].ownership
         /\ WithTabs(r, id, list).nextId = r.nextId
<1> DEFINE q == WithTabs(r, id, list)
           new == [r.spaces[id] EXCEPT !.tabs = list]
<1>1. r \in Registry /\ r.spaces[id] \in Space
  BY SpaceTypes DEF RegistryOK
<1>2. new \in Space /\ new.tabs = list /\ new.ownership = r.spaces[id].ownership
  BY <1>1 DEF Space
<1>3. /\ q.spaces = [r.spaces EXCEPT ![id] = new]
      /\ q.nextId = r.nextId
      /\ q.focused = r.focused
      /\ q = [spaces |-> q.spaces, nextId |-> q.nextId, focused |-> q.focused]
  BY <1>1, SMTT(30) DEF WithTabs, Registry
<1> HIDE DEF new, q
<1>4. /\ q \in Registry
      /\ \A s \in SpaceId : q.spaces[s] = IF s = id THEN new ELSE r.spaces[s]
  BY <1>1, <1>2, <1>3 DEF Registry
<1>5. \A s \in SpaceId :
        /\ q.spaces[s].tabs = IF s = id THEN list ELSE r.spaces[s].tabs
        /\ q.spaces[s].ownership = r.spaces[s].ownership
  BY <1>2, <1>4
<1>6. \A s \in SpaceId :
        RecordedIn(q, s) = IF s = id THEN {list[k].target : k \in DOMAIN list}
                           ELSE RecordedIn(r, s)
  BY <1>5 DEF RecordedIn, TargetsOf
<1>7. \A s \in SpaceId : TabsOK(q.spaces[s].tabs)
  BY <1>5 DEF RegistryOK
<1>8. \A s, u \in SpaceId : s # u => RecordedIn(q, s) \cap RecordedIn(q, u) = {}
  BY <1>6 DEF RegistryOK
<1>9. \A s \in SpaceId : Exists(q, s) => s < q.nextId
  BY <1>3, <1>5 DEF Exists, RegistryOK
<1>10. RegistryOK(q)
  BY <1>4, <1>7, <1>8, <1>9 DEF RegistryOK
<1> QED BY <1>3, <1>5, <1>6, <1>10 DEF q

LEMMA AddTabOK ==
  ASSUME NEW r, RegistryOK(r), NEW id, NEW t \in Targets, t \notin Recorded(r)
  PROVE  /\ RegistryOK(AddTab(r, id, t))
         /\ \A s \in SpaceId :
              /\ RecordedIn(AddTab(r, id, t), s)
                   = IF s = id /\ Exists(r, id) THEN RecordedIn(r, s) \cup {t}
                     ELSE RecordedIn(r, s)
              /\ AddTab(r, id, t).spaces[s].ownership = r.spaces[s].ownership
         /\ AddTab(r, id, t).nextId = r.nextId
<1>1. CASE ~ Exists(r, id)
  BY <1>1 DEF AddTab
<1>2. CASE Exists(r, id)
  <2> DEFINE list == AddedTab(r.spaces[id].tabs, t)
  <2>1. /\ id \in SpaceId
        /\ r.spaces[id].tabs \in Seq(TabRecord)
        /\ TabsOK(r.spaces[id].tabs)
        /\ \A s \in SpaceId : t \notin RecordedIn(r, s)
    BY <1>2, SpaceTypes DEF RegistryOK, Exists, Recorded
  <2>2. \A k \in DOMAIN r.spaces[id].tabs : r.spaces[id].tabs[k].target # t
    BY <2>1 DEF RecordedIn, TargetsOf
  <2>3. /\ list \in Seq(TabRecord)
        /\ TabsOK(list)
        /\ {list[k].target : k \in DOMAIN list} = RecordedIn(r, id) \cup {t}
    BY <2>1, <2>2, AddedTabOK DEF RecordedIn, TargetsOf
  <2>4. AddTab(r, id, t) = WithTabs(r, id, list)
    BY <1>2 DEF AddTab
  <2> HIDE DEF list
  <2>5. \A s \in SpaceId \ {id} :
          {list[k].target : k \in DOMAIN list} \cap RecordedIn(r, s) = {}
    BY <2>1, <2>3 DEF RegistryOK
  <2>6. /\ RegistryOK(AddTab(r, id, t))
        /\ \A s \in SpaceId :
             /\ RecordedIn(AddTab(r, id, t), s)
                  = IF s = id THEN {list[k].target : k \in DOMAIN list}
                    ELSE RecordedIn(r, s)
             /\ AddTab(r, id, t).spaces[s].ownership = r.spaces[s].ownership
        /\ AddTab(r, id, t).nextId = r.nextId
    BY <2>1, <2>3, <2>4, <2>5, ListReplaced
  <2> QED BY <1>2, <2>3, <2>6
<1> QED BY <1>1, <1>2

LEMMA RemoveTabOK ==
  ASSUME NEW r, RegistryOK(r), NEW t
  PROVE  /\ RegistryOK(RemoveTab(r, t))
         /\ \A s \in SpaceId :
              /\ RecordedIn(RemoveTab(r, t), s) = RecordedIn(r, s) \ {t}
              /\ RemoveTab(r, t).spaces[s].ownership = r.spaces[s].ownership
         /\ RemoveTab(r, t).nextId = r.nextId
<1>1. CASE t \notin Recorded(r)
  BY <1>1 DEF RemoveTab, Recorded
<1>2. CASE t \in Recorded(r)
  <2> DEFINE id == FirstHolder(r, t)
             tabs == r.spaces[id].tabs
             k == FirstPosition(tabs, t)
             list == RemovedTab(tabs, k)
  <2>1. id \in SpaceId /\ t \in RecordedIn(r, id)
    <3>1. PICK i \in SpaceId : t \in RecordedIn(r, i)
      BY <1>2 DEF Recorded
    <3>2. \A j \in SpaceId : t \in RecordedIn(r, j) => j = i
      BY <3>1 DEF RegistryOK
    <3>3. \A j \in SpaceId : t \in RecordedIn(r, j) => i <= j
      BY <3>2 DEF SpaceId
    <3> QED BY <3>1, <3>3 DEF FirstHolder
  <2> HIDE DEF id
  <2>2. tabs \in Seq(TabRecord) /\ TabsOK(tabs)
    BY <2>1, SpaceTypes DEF RegistryOK
  <2>3. k \in DOMAIN tabs /\ tabs[k].target = t
    <3>1. PICK i \in DOMAIN tabs : tabs[i].target = t
      BY <2>1 DEF RecordedIn, TargetsOf
    <3>2. \A l \in DOMAIN tabs : tabs[l].target = t => i = l
      BY <2>2, <3>1 DEF TabsOK
    <3>3. \A l \in DOMAIN tabs : tabs[l].target = t => i <= l
      <4>1. DOMAIN tabs = 1 .. Len(tabs) /\ Len(tabs) \in Nat
        BY <2>2, LenProperties
      <4> QED BY <3>2, <4>1
    <3> QED BY <3>1, <3>3 DEF FirstPosition
  <2> HIDE DEF k
  <2>4. /\ list \in Seq(TabRecord)
        /\ TabsOK(list)
        /\ {list[j].target : j \in DOMAIN list} = {tabs[j].target : j \in DOMAIN tabs \ {k}}
    BY <2>2, <2>3, RemovedTabOK
  <2>5. RemoveTab(r, t) = WithTabs(r, id, list)
    BY <1>2 DEF RemoveTab, id, k
  <2>6. {list[j].target : j \in DOMAIN list} = RecordedIn(r, id) \ {t}
    <3>1. \A j \in DOMAIN tabs : tabs[j].target = t <=> j = k
      BY <2>2, <2>3 DEF TabsOK
    <3>2. RecordedIn(r, id) = {tabs[j].target : j \in DOMAIN tabs}
      BY DEF RecordedIn, TargetsOf
    <3> QED BY <2>4, <3>1, <3>2
  <2> HIDE DEF list, tabs
  <2>7. \A s \in SpaceId \ {id} :
          {list[j].target : j \in DOMAIN list} \cap RecordedIn(r, s) = {}
    BY <2>1, <2>6 DEF RegistryOK
  <2>8. /\ RegistryOK(RemoveTab(r, t))
        /\ \A s \in SpaceId :
             /\ RecordedIn(RemoveTab(r, t), s)
                  = IF s = id THEN {list[j].target : j \in DOMAIN list}
                    ELSE RecordedIn(r, s)
             /\ RemoveTab(r, t).spaces[s].ownership = r.spaces[s].ownership
        /\ RemoveTab(r, t).nextId = r.nextId
    BY <2>1, <2>4, <2>5, <2>7, ListReplaced
  <2>9. \A s \in SpaceId \ {id} : t \notin RecordedIn(r, s)
    BY <2>1 DEF RegistryOK
  <2> QED BY <2>6, <2>8, <2>9
<1> QED BY <1>1, <1>2

(* The wheel of the cycling key stops at the default space or at an id. *)
LEMMA NextOnWheelIsSpace ==
  ASSUME NEW r \in Registry
  PROVE  NextOnWheel(r) \in {DefaultSpace} \cup SpaceId
<1> DEFINE wheel == {DefaultSpace} \cup Existing(r)
           here == IF r.focused \in wheel THEN r.focused ELSE DefaultSpace
           above == {i \in wheel : i > here}
<1>1. above \subseteq Nat /\ above \subseteq {DefaultSpace} \cup SpaceId
  BY MaxSpacesAssumption DEF Existing, SpaceId, DefaultSpace
<1>2. NextOnWheel(r) = IF above = {} THEN DefaultSpace
                       ELSE CHOOSE i \in above : \A j \in above : i <= j
  BY DEF NextOnWheel
<1> HIDE DEF above
<1>3. CASE above # {}
  <2>1. PICK m \in above : \A j \in above : ~ (<<j, m>> \in OpToRel(<, Nat))
    BY <1>1, <1>3, WFMin, NatLessThanWellFounded
  <2>2. \A j \in above : ~ (j < m)
    BY <1>1, <2>1 DEF OpToRel
  <2>3. \A j \in above : m <= j
    BY <1>1, <2>2
  <2> QED BY <1>1, <1>2, <1>3, <2>3
<1> QED BY <1>2, <1>3
=============================================================================
