------------------------- MODULE AgentSocketProofs -------------------------
(***************************************************************************)
(* Safety of AgentSocket for any number of clients: types, that no session *)
(* outlives Stop, and that no descriptor is touched once it is closed.     *)
(*                                                                         *)
(* The latter two need to know what the accept thread holds: the one       *)
(* connection it has accepted and not yet posted.                          *)
(***************************************************************************)
EXTENDS AgentSocket, FiniteSetTheorems, TLAPS

Held == /\ taken = In("taken")
        /\ accepter # "post" => taken = {}
        /\ ui = "off" => accepter = "none"

Inv == TypeOK /\ Held /\ NoSessionOutlivesStop

LEMMA Singleton == \A c : IsFiniteSet({c}) /\ Cardinality({c}) = 1
BY FS_Singleton

LEMMA Empty == IsFiniteSet({}) /\ Cardinality({}) = 0
BY FS_EmptySet

LEMMA InitInv == Init => Inv
<1> SUFFICES ASSUME Init PROVE Inv
  OBVIOUS
<1>1. TypeOK
  <2>1. taken = {} /\ Cardinality(taken) <= 1
    BY Empty DEF Init
  <2>2. conn \in [Clients -> Where]
    BY DEF Init, Where
  <2> QED BY <2>1, <2>2 DEF Init, TypeOK, Phase
<1>2. Held
  BY DEF Init, Held, In
<1>3. NoSessionOutlivesStop
  BY DEF Init, NoSessionOutlivesStop
<1> QED BY <1>1, <1>2, <1>3 DEF Inv

(* The steps of Stop. *)
LEMMA StopSteps == ASSUME Inv, StopStep PROVE Inv'
<1>1. CASE StopClearsConnections
  BY <1>1 DEF StopClearsConnections, Move, Inv, TypeOK, Held, NoSessionOutlivesStop, In, Phase, Where
<1>2. CASE StopSetsFlag
  BY <1>2 DEF StopSetsFlag, Inv, TypeOK, Held, NoSessionOutlivesStop, In, Phase
<1>3. CASE StopClosesListener
  BY <1>3 DEF StopClosesListener, Move, Inv, TypeOK, Held, NoSessionOutlivesStop, In, Phase, Where
<1>4. CASE StopJoins
  BY <1>4 DEF StopJoins, Inv, TypeOK, Held, NoSessionOutlivesStop, In, Phase
<1> QED BY <1>1, <1>2, <1>3, <1>4 DEF StopStep

(* The accept thread holds at most one connection. *)
LEMMA AcceptSteps == ASSUME Inv, AcceptStep PROVE Inv'
<1>1. CASE TestFlag
  BY <1>1 DEF TestFlag, Inv, TypeOK, Held, NoSessionOutlivesStop, In
<1>2. CASE Poll
  BY <1>2 DEF Poll, Inv, TypeOK, Held, NoSessionOutlivesStop, In
<1>3. CASE Accept
  <2>1. taken = {}
    BY <1>3 DEF Accept, Inv, Held
  <2>2. ASSUME NEW c \in In("backlog"), taken' = taken \cup {c}, Move({c}, "taken"),
               accepter' = "post", UNCHANGED <<ui, stopFlag, number, notices>>
        PROVE  Inv'
    <3>1. taken' = {c} /\ c \in Clients
      BY <2>1, <2>2 DEF In
    <3>2. TypeOK'
      BY <2>2, <3>1, Singleton DEF Move, Inv, TypeOK, Where
    <3>3. Held'
      BY <1>3, <2>1, <2>2, <3>1 DEF Accept, Move, Inv, Held, In
    <3>4. NoSessionOutlivesStop'
      BY <2>2 DEF Move, Inv, NoSessionOutlivesStop, In
    <3> QED BY <3>2, <3>3, <3>4 DEF Inv
  <2>3. CASE UNCHANGED <<taken, conn>>
    BY <1>3, <2>1, <2>3 DEF Accept, Inv, TypeOK, Held, NoSessionOutlivesStop, In
  <2> QED BY <1>3, <2>2, <2>3 DEF Accept
<1>4. CASE Post
  <2>1. TypeOK'
    BY <1>4, Empty DEF Post, Move, Inv, TypeOK, Where
  <2> QED BY <1>4, <2>1 DEF Post, Move, Inv, TypeOK, Held, NoSessionOutlivesStop, In
<1> QED BY <1>1, <1>2, <1>3, <1>4 DEF AcceptStep

(* Tasks of the UI thread, and clients. *)
LEMMA ClientSteps ==
    ASSUME Inv, NEW c \in Clients, TaskOf(c) \/ ConnectClient(c) \/ HangUp(c) PROVE Inv'
<1>1. CASE OnConnectionAccepted(c)
  BY <1>1 DEF OnConnectionAccepted, Listening, Move, Inv, TypeOK, Held, NoSessionOutlivesStop, In, Where
<1>2. CASE OnClientDisconnected(c)
  BY <1>2 DEF OnClientDisconnected, Move, Inv, TypeOK, Held, NoSessionOutlivesStop, In, Where
<1>3. CASE ConnectClient(c)
  BY <1>3 DEF ConnectClient, Move, Inv, TypeOK, Held, NoSessionOutlivesStop, In, Where
<1>4. CASE HangUp(c)
  BY <1>4 DEF HangUp, Move, Inv, TypeOK, Held, NoSessionOutlivesStop, In, Where
<1> QED BY <1>1, <1>2, <1>3, <1>4 DEF TaskOf

LEMMA NextInv == Inv /\ [Next]_vars => Inv'
<1> SUFFICES ASSUME Inv, [Next]_vars PROVE Inv'
  OBVIOUS
<1>1. CASE Start
  BY <1>1 DEF Start, Inv, TypeOK, Held, NoSessionOutlivesStop, In, Phase
<1>2. CASE ReuseNumber
  BY <1>2 DEF ReuseNumber, Inv, TypeOK, Held, NoSessionOutlivesStop, In
<1>3. CASE UNCHANGED vars
  BY <1>3 DEF vars, Inv, TypeOK, Held, NoSessionOutlivesStop, In
<1> QED BY <1>1, <1>2, <1>3, StopSteps, AcceptSteps, ClientSteps DEF Next

LEMMA SpecInv == Spec => []Inv
BY InitInv, NextInv, PTL DEF Spec

(* A connection that was closed or let go of is in no step's hands. *)
LEMMA ClosedStep ==
    ASSUME Inv, [Next]_vars, NEW c \in Clients, conn[c] \in {"closed", "leaked"}
    PROVE  conn'[c] = conn[c]
<1>1. c \notin taken
  BY DEF Inv, Held, In
<1>2. CASE StopStep
  BY <1>2 DEF StopStep, StopClearsConnections, StopSetsFlag, StopClosesListener, StopJoins, Move, In
<1>3. CASE AcceptStep
  BY <1>1, <1>3 DEF AcceptStep, TestFlag, Poll, Accept, Post, Move, In
<1>4. CASE Start \/ ReuseNumber \/ UNCHANGED vars
  BY <1>4 DEF Start, ReuseNumber, vars
<1>5. ASSUME NEW d \in Clients, TaskOf(d) \/ ConnectClient(d) \/ HangUp(d)
      PROVE  conn'[c] = conn[c]
  BY <1>5 DEF TaskOf, OnConnectionAccepted, OnClientDisconnected, ConnectClient, HangUp, Move, In
<1> QED BY <1>2, <1>3, <1>4, <1>5 DEF Next

-----------------------------------------------------------------------------
(* Threads, numbers and connections keep their types; the accept thread     *)
(* never holds two connections.                                             *)
THEOREM TypeCorrect == Spec => []TypeOK
<1>1. Inv => TypeOK
  BY DEF Inv
<1> QED BY <1>1, SpecInv, PTL

(* No session is created by a handover that comes after Stop has begun.     *)
THEOREM SessionsEnd == Spec => []NoSessionOutlivesStop
<1>1. Inv => NoSessionOutlivesStop
  BY DEF Inv
<1> QED BY <1>1, SpecInv, PTL

(* No descriptor is touched once the server has closed it or let it go.     *)
THEOREM ClosedOnce == Spec => ClosedForGood
<1>1. Inv /\ [Next]_vars
        => [\A c \in Clients : conn[c] \in {"closed", "leaked"} => conn'[c] = conn[c]]_vars
  BY ClosedStep
<1> QED BY <1>1, SpecInv, PTL DEF Spec, ClosedForGood
=============================================================================
