---------------------------- MODULE AgentSocket ----------------------------
(***************************************************************************)
(* AgentSocketServer, the kernel's endpoint for agent clients: an accept   *)
(* thread takes connections from the listening socket and posts them to    *)
(* the browser's UI thread, which gives each one a DevTools pipe session.  *)
(*                                                                         *)
(* Stop runs on the UI thread while the accept thread is anywhere in its   *)
(* loop: every line of either that the other can observe is a step here.   *)
(* The accept thread holds the listener as a number, and the number of a   *)
(* closed descriptor goes to whatever the process opens next.              *)
(*                                                                         *)
(* Start and Stop run once each in the life of the browser (patch 0002).   *)
(***************************************************************************)
EXTENDS FiniteSets, Naturals

CONSTANT Clients      \* the connections that clients ever make

VARIABLES
    ui,          \* where the UI thread is in the server's life
    accepter,    \* where the accept thread is in AcceptLoop
    taken,       \* the clients whose descriptor the accept thread holds
    stopFlag,    \* stop_accept_loop_
    number,      \* what the listener's descriptor number refers to
    conn,        \* where the connection of each client is
    notices      \* the clients whose disconnect callback is posted

vars == <<ui, accepter, taken, stopFlag, number, conn, notices>>

Phase == {"off", "failed", "running", "cleared", "flagged", "closed", "stopped"}
Where == {"idle", "backlog", "taken", "posted", "served",
          "closed", "leaked", "reset"}

TypeOK ==
    /\ ui \in Phase
    /\ accepter \in {"none", "test", "poll", "accept", "post", "done", "gaveup"}
    /\ taken \in SUBSET Clients /\ Cardinality(taken) <= 1
    /\ stopFlag \in BOOLEAN
    /\ number \in {"free", "listener", "foreign"}
    /\ conn \in [Clients -> Where]
    /\ notices \subseteq Clients

Init ==
    /\ ui = "off"
    /\ accepter = "none"
    /\ taken = {}
    /\ stopFlag = FALSE
    /\ number = "free"
    /\ conn = [c \in Clients |-> "idle"]
    /\ notices = {}

(* Mutant: the handover asks whether the server was ever started. *)
ListeningOnceStarted == ui # "off"
(* listen_fd_ >= 0. *)
Listening == ui \in {"running", "cleared", "flagged"}
In(place) == {c \in Clients : conn[c] = place}
Move(cs, place) == conn' = [c \in Clients |-> IF c \in cs THEN place ELSE conn[c]]

-----------------------------------------------------------------------------
(* The UI thread.  It runs Stop line by line and no posted task meanwhile. *)

(* Any of the calls that Start makes may fail; then there is no listener. *)
Start ==
    /\ ui = "off"
    /\ \/ /\ ui' = "running"
          /\ number' = "listener"
          /\ accepter' = "test"
       \/ /\ ui' = "failed"
          /\ UNCHANGED <<number, accepter>>
    /\ UNCHANGED <<taken, stopFlag, conn, notices>>

(* connections_.clear() ends the sessions; it closes no descriptor. *)
StopClearsConnections ==
    /\ ui \in {"running", "failed"}
    /\ ui' = "cleared"
    /\ Move(In("served"), "leaked")
    /\ UNCHANGED <<accepter, taken, stopFlag, number, notices>>

StopSetsFlag ==
    /\ ui = "cleared"
    /\ ui' = "flagged"
    /\ stopFlag' = TRUE
    /\ UNCHANGED <<accepter, taken, number, conn, notices>>

(* Closing the listener resets the connections nobody has accepted. *)
StopClosesListener ==
    /\ ui = "flagged"
    /\ ui' = "closed"
    /\ number' = "free"
    /\ Move(In("backlog"), "reset")
    /\ UNCHANGED <<accepter, taken, stopFlag, notices>>

(* accept_thread_->Stop() waits for the loop to return. *)
StopJoins ==
    /\ ui = "closed"
    /\ accepter \in {"none", "done", "gaveup"}
    /\ ui' = "stopped"
    /\ accepter' = "none"
    /\ UNCHANGED <<taken, stopFlag, number, conn, notices>>

OnConnectionAccepted(c) ==
    /\ ui \in {"running", "failed", "stopped"}
    /\ conn[c] = "posted"
    /\ Move({c}, IF Listening THEN "served" ELSE "closed")
    /\ UNCHANGED <<ui, accepter, taken, stopFlag, number, notices>>

(* Mutant: the callback trusts its connection to be there. *)
OnClientDisconnectedUnchecked(c) ==
    /\ ui \in {"running", "failed", "stopped"}
    /\ c \in notices
    /\ notices' = notices \ {c}
    /\ Move({c}, "closed")
    /\ UNCHANGED <<ui, accepter, taken, stopFlag, number>>

(* The pipe handler's reader met the end of the stream.  The connection may *)
(* be gone by the time the callback runs.                                   *)
OnClientDisconnected(c) ==
    /\ ui \in {"running", "failed", "stopped"}
    /\ c \in notices
    /\ notices' = notices \ {c}
    /\ Move({c} \cap In("served"), "closed")
    /\ UNCHANGED <<ui, accepter, taken, stopFlag, number>>

-----------------------------------------------------------------------------
(* The accept thread. *)

(* Mutant: the loop relies on poll() to fail when the listener is closed. *)
TestNothing ==
    /\ accepter = "test"
    /\ accepter' = "poll"
    /\ UNCHANGED <<ui, taken, stopFlag, number, conn, notices>>

TestFlag ==
    /\ accepter = "test"
    /\ accepter' = IF stopFlag THEN "done" ELSE "poll"
    /\ UNCHANGED <<ui, taken, stopFlag, number, conn, notices>>

(* Mutant: a poll() that times out ends the loop. *)
PollOnce ==
    /\ accepter = "poll"
    /\ accepter' = IF number = "listener" /\ In("backlog") # {} THEN "accept" ELSE "done"
    /\ UNCHANGED <<ui, taken, stopFlag, number, conn, notices>>

(* poll() times out, reports a client, reports a number not in use, or     *)
(* fails of itself; on a descriptor of someone else it may do anything.    *)
Poll ==
    /\ accepter = "poll"
    /\ \/ number = "listener" /\ accepter' = IF In("backlog") # {} THEN "accept" ELSE "test"
       \/ number = "listener" /\ accepter' = "gaveup"
       \/ number = "free" /\ accepter' \in {"test", "done"}
       \/ number = "foreign" /\ accepter' \in {"test", "accept", "done"}
    /\ UNCHANGED <<ui, taken, stopFlag, number, conn, notices>>

(* accept() fails when the client is gone or when the process is out of    *)
(* descriptors; the first goes on with the loop, the second ends it.  Of a *)
(* listener of someone else's it takes a connection that is no client's,   *)
(* and which the handover closes, as the server's own listener is gone.    *)
Accept ==
    /\ accepter = "accept"
    /\ \/ /\ number = "listener"
          /\ \E c \in In("backlog") :
               taken' = taken \cup {c} /\ Move({c}, "taken") /\ accepter' = "post"
       \/ /\ number = "listener"
          /\ accepter' \in IF In("backlog") = {} THEN {"test", "gaveup"} ELSE {"gaveup"}
          /\ UNCHANGED <<taken, conn>>
       \/ /\ number # "listener"
          /\ accepter' \in IF number = "free" THEN {"gaveup"} ELSE {"test", "post", "gaveup"}
          /\ UNCHANGED <<taken, conn>>
    /\ UNCHANGED <<ui, stopFlag, number, notices>>

(* Mutant: the descriptor stays with the accept thread, too. *)
PostAndKeep ==
    /\ accepter = "post"
    /\ Move(taken, "posted")
    /\ accepter' = "test"
    /\ UNCHANGED <<ui, taken, stopFlag, number, notices>>

Post ==
    /\ accepter = "post"
    /\ Move(taken, "posted")
    /\ taken' = {}
    /\ accepter' = "test"
    /\ UNCHANGED <<ui, stopFlag, number, notices>>

-----------------------------------------------------------------------------
(* Outside: clients, and whatever else opens descriptors in the browser. *)

ConnectClient(c) ==
    /\ number = "listener"
    /\ conn[c] = "idle"
    /\ Move({c}, "backlog")
    /\ UNCHANGED <<ui, accepter, taken, stopFlag, number, notices>>

HangUp(c) ==
    /\ \/ conn[c] = "backlog" /\ Move({c}, "reset") /\ UNCHANGED notices
       \/ conn[c] = "served" /\ notices' = notices \cup {c} /\ UNCHANGED conn
    /\ UNCHANGED <<ui, accepter, taken, stopFlag, number>>

ReuseNumber ==
    /\ ui = "closed"
    /\ number = "free"
    /\ number' = "foreign"
    /\ UNCHANGED <<ui, accepter, taken, stopFlag, conn, notices>>

-----------------------------------------------------------------------------
StopStep == StopClearsConnections \/ StopSetsFlag \/ StopClosesListener \/ StopJoins
AcceptStep == TestFlag \/ Poll \/ Accept \/ Post
TaskOf(c) == OnConnectionAccepted(c) \/ OnClientDisconnected(c)

Next ==
    \/ Start \/ StopStep \/ AcceptStep \/ ReuseNumber
    \/ \E c \in Clients : TaskOf(c) \/ ConnectClient(c) \/ HangUp(c)

(* Threads run, the UI thread serves posted tasks until Stop (it is called *)
(* when the message loop is over), and a Stop that has begun goes on.      *)
(* Nothing says that the browser ever stops, or that clients come or go.   *)
Fairness ==
    /\ WF_vars(AcceptStep)
    /\ \A c \in Clients : WF_vars(ui = "running" /\ TaskOf(c))
    /\ WF_vars(StopSetsFlag \/ StopClosesListener \/ StopJoins)

Spec == Init /\ [][Next]_vars /\ Fairness
-----------------------------------------------------------------------------
(* A session is created only while the server runs: a connection accepted   *)
(* before Stop and handed over after it is closed, so that no session and   *)
(* no DevTools attachment outlives the server.                              *)
NoSessionOutlivesStop ==
    ui \in {"cleared", "flagged", "closed", "stopped"} => In("served") = {}

(* A descriptor the server closed, or let go of in Stop, is never touched   *)
(* again: its number may be somebody else's by then, and a disconnect       *)
(* callback may come after the connection it is about has gone.             *)
ClosedForGood ==
    [][\A c \in Clients : conn[c] \in {"closed", "leaked"} => conn'[c] = conn[c]]_vars

(* Stop comes back: the accept thread notices the flag wherever it is, also *)
(* when the number it polls is in use by somebody else.                     *)
StopReturns == ui = "cleared" ~> ui = "stopped"

(* A client that connects does not wait forever, unless the accept thread   *)
(* has given up on a failing poll() or accept(): it gets its session, or    *)
(* learns that there is none.                                               *)
ClientAnswered ==
    \A c \in Clients :
      conn[c] = "backlog" ~> \/ conn[c] \in {"served", "closed", "leaked", "reset"}
                             \/ ui # "running"
                             \/ accepter = "gaveup"
=============================================================================
