--------------------------- MODULE SpaceOwnership ---------------------------
(***************************************************************************)
(* What a registry of task spaces promises about who controls a space,     *)
(* whatever implements it: the kernel's SpaceManager behind the DevTools   *)
(* domain handlers and the chrome surfaces, or the host's SpaceRegistry.   *)
(*                                                                         *)
(* A space is unborn, controlled by the agent, delegated to the user who   *)
(* may be asked for it back, the user's own, or closed.  Only a claim      *)
(* brings the user's own space to the agent, and a closed space stays so.  *)
(***************************************************************************)
CONSTANT SpaceIds

VARIABLE control    \* control[s]: where space s is in its life

Stage == {"unborn", "agent", "delegated", "user", "closed"}
Alive == {"agent", "delegated", "user"}

TypeOK == control \in [SpaceIds -> Stage]

Init == control = [s \in SpaceIds |-> "unborn"]

Move(s, from, to) ==
    /\ control[s] \in from
    /\ control' = [control EXCEPT ![s] = to]

Create(s)    == \E owner \in {"agent", "user"} : Move(s, {"unborn"}, owner)
Claim(s)     == Move(s, Alive, "agent")
HandOff(s)   == Move(s, {"agent"}, "delegated")
TakeOver(s)  == Move(s, {"delegated"}, "agent")
StopAgent(s) == Move(s, {"agent", "delegated"}, "user")

(* One command may close several spaces ("delete all" on the wall). *)
CloseSome ==
    \E S \in SUBSET {s \in SpaceIds : control[s] \in Alive} :
      control' = [s \in SpaceIds |-> IF s \in S THEN "closed" ELSE control[s]]

Next == \/ \E s \in SpaceIds : \/ Create(s)
                               \/ Claim(s)
                               \/ HandOff(s)
                               \/ TakeOver(s)
                               \/ StopAgent(s)
        \/ CloseSome

Spec == Init /\ [][Next]_control
=============================================================================
