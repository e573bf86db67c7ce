-------------------------- MODULE HostDaemonProofs --------------------------
(***************************************************************************)
(* Safety of HostDaemon for any clients, targets, spaces, resets and calls *)
(* in flight, and that it implements SpaceOwnership.                       *)
(*                                                                         *)
(* A handler that goes on writes by the id it kept.  So the invariant says *)
(* what a call in flight holds: the context asked for is that of its space *)
(* (Asked), and until the first reset, when ids are not used twice, a tab  *)
(* is created in the context its space still has (FirstLife).              *)
(*                                                                         *)
(* For SpaceOwnership it is enough that existing spaces were created in    *)
(* this registry (ExistingBorn): a step leaves them, begins some, or drops *)
(* some.                                                                   *)
(*                                                                         *)
(* That a tab is refused only if its context or browser is gone needs      *)
(* Matched: a reply on its way is the only one for its call and right when *)
(* it was sent (Replied), and what is right about it stays, as a context   *)
(* that a space or a tab names was asked for once, was answered, and so    *)
(* never comes into being a second time (AskedOnce).                       *)
(*                                                                         *)
(* CallsSettled is liveness and left to TLC; the invariant it rests on is  *)
(* proved: the answer to an answered call is still to be read.             *)
(***************************************************************************)
EXTENDS HostDaemon, FiniteSetTheorems, SequenceTheorems, TLAPS

InFlight(i, kind) == calls[i] # NoCall /\ calls[i].kind = kind

ExistingBorn == \A s \in SpaceId : Exists(s) => s < born[gen]

Asked ==
    \A i \in Slot :
      /\ InFlight(i, "context") =>
           calls[i].space \in SpaceId /\ calls[i].context \in Gen \X {calls[i].space}
      /\ InFlight(i, "closeTab") => calls[i].target \in Targets

FirstLife ==
    gen = 0 =>
      /\ \A s \in SpaceId :
           /\ spaces[s].context \in {NoContext, <<0, s>>}
           /\ spaces[s].current # NoTarget =>
                spaces[s].context = <<0, s>> /\ page[spaces[s].current].context = <<0, s>>
      /\ \A i \in Slot : InFlight(i, "context") => calls[i].context = <<0, calls[i].space>>
      /\ \A i \in Slot : InFlight(i, "tab") =>
           /\ calls[i].space \in SpaceId /\ calls[i].space < born[0]
           /\ calls[i].context = <<0, calls[i].space>>
           /\ Exists(calls[i].space) => spaces[calls[i].space].context = calls[i].context
           /\ calls[i].target # NoTarget => page[calls[i].target].context = calls[i].context

Rest == ExistingBorn /\ SelectedWasCreated /\ OwnContext /\ Asked /\ FirstLife
Inv == TypeOK /\ Rest

-----------------------------------------------------------------------------
(* Calls. *)

LEMMA IsCall == ASSUME NEW call \in Call PROVE call # NoCall
BY DEF Call, NoCall

LEMMA NoCallStays == ASSUME NEW x PROVE [NoCall EXCEPT !.state = x] = NoCall
BY DEF NoCall

State == {"sent", "replied", "done", "failed", "stale"}

LEMMA InStateTyped ==
  ASSUME NEW call \in Call, NEW x \in State
  PROVE  /\ [call EXCEPT !.state = x] \in Call
         /\ [call EXCEPT !.state = x].kind = call.kind
         /\ [call EXCEPT !.state = x].space = call.space
         /\ [call EXCEPT !.state = x].context = call.context
         /\ [call EXCEPT !.state = x].target = call.target
BY DEF Call, State

LEMMA SentTyped ==
  ASSUME TypeOK, NEW call \in Call
  PROVE  /\ Sent(call) \in Call
         /\ Sent(call).kind = call.kind /\ Sent(call).space = call.space
         /\ Sent(call).context = call.context /\ Sent(call).target = call.target
BY DEF TypeOK, Sent, Call

LEMMA AskingTyped ==
  ASSUME TypeOK, NEW kind \in {"context", "dispose", "tab", "closeTab"},
         NEW c \in Clients, NEW s \in {NoSpace} \cup SpaceId
  PROVE  /\ Asking(kind, c, s) \in Call
         /\ Asking(kind, c, s).kind = kind /\ Asking(kind, c, s).space = s
         /\ Asking(kind, c, s).context = NoContext /\ Asking(kind, c, s).target = NoTarget
BY DEF TypeOK, Asking, Call

(* One call more, or the same. *)
LEMMA SendTyped ==
  ASSUME TypeOK, NEW call \in Call, Send(call)
  PROVE  /\ calls' \in [Slot -> {NoCall} \cup Call]
         /\ \A i \in Slot : calls'[i] \in {calls[i], Sent(call)}
<1>1. PICK i : calls' = [calls EXCEPT ![i] = Sent(call)]
  BY DEF Send
<1>2. calls \in [Slot -> {NoCall} \cup Call] /\ Sent(call) \in Call
  BY SentTyped DEF TypeOK
<1> QED BY <1>1, <1>2

(* What a step that keeps the calls, but for their states, and ends some.   *)
Settles ==
    /\ calls' \in [Slot -> {NoCall} \cup Call]
    /\ \A i \in Slot : calls'[i] # NoCall =>
         /\ calls[i] # NoCall
         /\ calls'[i].kind = calls[i].kind /\ calls'[i].space = calls[i].space
         /\ calls'[i].context = calls[i].context
         /\ calls'[i].target = calls[i].target

LEMMA SettlesByCall ==
  ASSUME TypeOK, calls' \in [Slot -> {NoCall} \cup Call],
         \A i \in Slot : \/ calls'[i] = calls[i]
                        \/ \E x \in State : calls'[i] = [calls[i] EXCEPT !.state = x]
  PROVE  Settles
<1> SUFFICES ASSUME NEW i \in Slot, calls'[i] # NoCall
             PROVE  /\ calls[i] # NoCall
                    /\ calls'[i].kind = calls[i].kind /\ calls'[i].space = calls[i].space
                    /\ calls'[i].context = calls[i].context
                    /\ calls'[i].target = calls[i].target
  BY DEF Settles
<1>1. CASE calls'[i] = calls[i]
  BY <1>1
<1>2. ASSUME NEW x \in State, calls'[i] = [calls[i] EXCEPT !.state = x]
      PROVE  calls[i] \in Call
  BY <1>2, NoCallStays DEF TypeOK
<1>3. ASSUME NEW x \in State, calls'[i] = [calls[i] EXCEPT !.state = x]
      PROVE  /\ calls[i] # NoCall
             /\ calls'[i].kind = calls[i].kind /\ calls'[i].space = calls[i].space
             /\ calls'[i].context = calls[i].context
             /\ calls'[i].target = calls[i].target
  BY <1>2, <1>3, InStateTyped, IsCall
<1> QED BY <1>1, <1>3

LEMMA StatesSettle ==
  ASSUME TypeOK
  PROVE  /\ UNCHANGED calls => Settles
         /\ \A i : EndCall(i) => Settles
         /\ \A i : \A x \in State : calls' = InState(i, x) => Settles
         /\ \A g : calls' = FailAll(g) => Settles
<1>0. calls \in [Slot -> {NoCall} \cup Call]
  BY DEF TypeOK
<1>1. UNCHANGED calls => Settles
  BY <1>0 DEF Settles
<1>2. ASSUME NEW i, EndCall(i) PROVE Settles
  BY <1>0, <1>2 DEF Settles, EndCall
<1>3. ASSUME NEW i, NEW x \in State, calls' = InState(i, x) PROVE Settles
  <2>1. \A j \in Slot : calls'[j] = IF j = i THEN [calls[j] EXCEPT !.state = x] ELSE calls[j]
    BY <1>0, <1>3 DEF InState
  <2>2. \A j \in Slot : [calls[j] EXCEPT !.state = x] \in {NoCall} \cup Call
    BY <1>0, NoCallStays, InStateTyped
  <2>3. calls' \in [Slot -> {NoCall} \cup Call]
    BY <1>0, <1>3, <2>1, <2>2 DEF InState
  <2> QED BY <2>1, <2>3, SettlesByCall
<1>4. ASSUME NEW g, calls' = FailAll(g) PROVE Settles
  <2>1. \A j \in Slot : \/ calls'[j] = calls[j]
                        \/ calls[j] # NoCall /\ calls'[j] = [calls[j] EXCEPT !.state = "failed"]
    BY <1>4 DEF FailAll
  <2>2. calls' \in [Slot -> {NoCall} \cup Call]
    BY <1>0, <1>4, <2>1, InStateTyped DEF FailAll, State
  <2> QED BY <2>1, <2>2, SettlesByCall DEF State
<1> QED BY <1>1, <1>2, <1>3, <1>4

-----------------------------------------------------------------------------
(* Spaces, pages, selections and calls, each as most steps leave them. *)

SpaceKept(s) ==
    /\ Exists(s)' => Exists(s) /\ spaces'[s].context = spaces[s].context
    /\ spaces'[s].context \in {NoContext, spaces[s].context}
    /\ spaces'[s].current # NoTarget =>
         /\ spaces'[s].current = spaces[s].current
         /\ spaces'[s].context = spaces[s].context

PageKept == \A t \in Targets : page[t].context # NoContext => page'[t].context = page[t].context

SelectionKept == \A c \in Clients : \/ selected'[c] \in {NoSpace, selected[c]}
                                    \/ Exists(selected'[c])

SameCall(i) ==
    /\ calls[i] # NoCall
    /\ calls'[i].kind = calls[i].kind /\ calls'[i].space = calls[i].space
    /\ calls'[i].context = calls[i].context /\ calls'[i].target = calls[i].target

(* What Asked and FirstLife say of one call. *)
CallRight(i) ==
    /\ calls[i].kind = "context" =>
         /\ calls[i].space \in SpaceId /\ calls[i].context \in Gen \X {calls[i].space}
         /\ gen = 0 => calls[i].context = <<0, calls[i].space>>
    /\ calls[i].kind = "closeTab" => calls[i].target \in Targets
    /\ calls[i].kind = "tab" /\ gen = 0 =>
         /\ calls[i].space \in SpaceId /\ calls[i].space < born[0]
         /\ calls[i].context = <<0, calls[i].space>>
         /\ Exists(calls[i].space) => spaces[calls[i].space].context = calls[i].context
         /\ calls[i].target # NoTarget => page[calls[i].target].context = calls[i].context

CallsRight == \A i \in Slot : calls[i] # NoCall => CallRight(i)

LEMMA RestIsCallsRight ==
  Rest <=> /\ ExistingBorn /\ SelectedWasCreated /\ OwnContext /\ CallsRight
           /\ gen = 0 => \A s \in SpaceId :
                /\ spaces[s].context \in {NoContext, <<0, s>>}
                /\ spaces[s].current # NoTarget =>
                     spaces[s].context = <<0, s>> /\ page[spaces[s].current].context = <<0, s>>
BY DEF Rest, Asked, FirstLife, CallsRight, CallRight, InFlight

LEMMA Bounds == MaxSpaces \in Nat /\ MaxResets \in Nat /\ MaxCalls \in Nat
BY BoundsAssumption

LEMMA BornNat == ASSUME TypeOK PROVE born[gen] \in Nat /\ SpaceId \subseteq Nat /\ 0 \in Gen
<1>1. born[gen] \in 1 .. MaxSpaces + 1
  BY DEF TypeOK
<1> QED BY <1>1, Bounds DEF Gen, SpaceId

LEMMA TargetIsId ==
  ASSUME TypeOK
  PROVE  /\ \A s \in SpaceId : spaces[s].current # NoTarget => spaces[s].current \in Targets
         /\ \A i \in Slot : calls[i] # NoCall /\ calls[i].target # NoTarget => calls[i].target \in Targets
BY DEF TypeOK, Space, Call

(* A call that was right stays so as long as its space and its page do. *)
LEMMA CallStaysRight ==
  ASSUME Inv, UNCHANGED <<gen, born>>, \A s \in SpaceId : SpaceKept(s), PageKept,
         NEW i \in Slot, SameCall(i)
  PROVE  CallRight(i)'
<1>1. CallRight(i)
  BY RestIsCallsRight DEF Inv, CallsRight, SameCall
<1>2. ASSUME calls[i].kind = "tab", gen = 0, calls[i].target # NoTarget
      PROVE  page'[calls[i].target].context = calls[i].context
  <2>1. /\ calls[i].target \in Targets
        /\ calls[i].context = <<0, calls[i].space>> /\ calls[i].space \in SpaceId
        /\ page[calls[i].target].context = calls[i].context
    BY <1>1, <1>2, TargetIsId DEF Inv, SameCall, CallRight
  <2>2. calls[i].context # NoContext
    BY <2>1 DEF NoContext, NoSpace, SpaceId
  <2> QED BY <2>1, <2>2 DEF PageKept
<1>3. ASSUME calls[i].kind = "tab", gen = 0
      PROVE  /\ calls[i].space \in SpaceId /\ calls[i].space < born'[0]
             /\ calls[i].context = <<0, calls[i].space>>
             /\ spaces'[calls[i].space].ownership # "absent" =>
                  spaces'[calls[i].space].context = calls[i].context
  <2>1. PICK s \in SpaceId : s = calls[i].space
    BY <1>1, <1>3 DEF CallRight
  <2>2. spaces'[s].ownership # "absent" =>
          spaces[s].ownership # "absent" /\ spaces'[s].context = spaces[s].context
    BY DEF SpaceKept, Exists
  <2> QED BY <1>1, <1>3, <2>1, <2>2 DEF CallRight, Exists
<1>4. /\ calls'[i].kind = calls[i].kind /\ calls'[i].space = calls[i].space
      /\ calls'[i].context = calls[i].context /\ calls'[i].target = calls[i].target
  BY DEF SameCall
<1>5. /\ calls[i].kind = "context" =>
           /\ calls[i].space \in SpaceId /\ calls[i].context \in Gen \X {calls[i].space}
           /\ gen = 0 => calls[i].context = <<0, calls[i].space>>
      /\ calls[i].kind = "closeTab" => calls[i].target \in Targets
  BY <1>1 DEF CallRight
<1> QED BY <1>2, <1>3, <1>4, <1>5 DEF CallRight, Exists

LEMMA QuietStep ==
  ASSUME Inv, TypeOK', UNCHANGED <<gen, born>>,
         \A s \in SpaceId : SpaceKept(s), PageKept, SelectionKept,
         \A i \in Slot : calls'[i] # NoCall => SameCall(i) \/ CallRight(i)'
  PROVE  Rest'
<1>1. ExistingBorn'
  BY DEF Inv, Rest, ExistingBorn, SpaceKept
<1>2. SelectedWasCreated'
  BY BornNat DEF Inv, Rest, SelectedWasCreated, SelectionKept, ExistingBorn, Exists
<1>3. OwnContext'
  BY DEF Inv, Rest, OwnContext, SpaceKept
<1>4. CallsRight'
  BY CallStaysRight DEF CallsRight
<1>5. ASSUME gen' = 0, NEW s \in SpaceId
      PROVE  /\ spaces'[s].context \in {NoContext, <<0, s>>}
             /\ spaces'[s].current # NoTarget =>
                  spaces'[s].context = <<0, s>> /\ page'[spaces'[s].current].context = <<0, s>>
  <2>1. spaces'[s].context \in {NoContext, <<0, s>>}
    BY <1>5 DEF Inv, Rest, FirstLife, SpaceKept
  <2>2. ASSUME spaces'[s].current # NoTarget
        PROVE  spaces'[s].context = <<0, s>> /\ page'[spaces'[s].current].context = <<0, s>>
    <3>1. /\ spaces[s].current = spaces'[s].current /\ spaces[s].current \in Targets
          /\ spaces'[s].context = spaces[s].context
      BY <2>2, TargetIsId DEF Inv, SpaceKept
    <3>2. spaces[s].context = <<0, s>> /\ page[spaces[s].current].context = <<0, s>>
      BY <1>5, <2>2, <3>1 DEF Inv, Rest, FirstLife
    <3>3. <<0, s>> # NoContext
      BY DEF NoContext, NoSpace, SpaceId
    <3> QED BY <3>1, <3>2, <3>3 DEF PageKept
  <2> QED BY <2>1, <2>2
<1>6. Asked' /\ FirstLife'
  BY <1>4, <1>5 DEF Asked, FirstLife, CallsRight, CallRight, InFlight
<1> QED BY <1>1, <1>2, <1>3, <1>6 DEF Rest

LEMMA UnchangedKept ==
  /\ UNCHANGED spaces => \A s \in SpaceId : SpaceKept(s)
  /\ UNCHANGED page => PageKept
  /\ UNCHANGED selected => SelectionKept
  /\ Settles => \A i \in Slot : calls'[i] # NoCall => SameCall(i)
BY DEF SpaceKept, PageKept, SelectionKept, Settles, SameCall, Exists

LEMMA SendAdds ==
  ASSUME TypeOK, NEW call \in Call, Send(call)
  PROVE  \A i \in Slot : calls'[i] # NoCall => SameCall(i) \/ calls'[i] = Sent(call)
BY SendTyped DEF SameCall

-----------------------------------------------------------------------------
(* The steps of a client. *)

LEMMA CreateStep == ASSUME Inv, NEW c \in Clients, CreateTaskSpace(c) PROVE Inv'
<1> DEFINE ctx == <<gen, NextId>>
           call == [Asking("context", c, NextId) EXCEPT !.context = ctx]
<1>0. /\ TypeOK /\ NextId \in SpaceId /\ NextId = born[gen] /\ gen \in Gen
      /\ Send(call) /\ ctx \in Context
  BY DEF CreateTaskSpace, Inv, TypeOK, NextId, Context
<1>1. /\ call \in Call /\ call.kind = "context" /\ call.space = NextId /\ call.context = ctx
  BY <1>0, AskingTyped DEF Call, Asking
<1> HIDE DEF call
<1>2. /\ calls' \in [Slot -> {NoCall} \cup Call]
      /\ \A i \in Slot : calls'[i] # NoCall => SameCall(i) \/ calls'[i] = Sent(call)
  BY <1>0, <1>1, SendTyped, SendAdds
<1>3. /\ born' = [born EXCEPT ![gen] = @ + 1] /\ born' \in [Gen -> 1 .. MaxSpaces + 1]
      /\ born'[gen] = NextId + 1 /\ gen' = gen
  BY <1>0, Bounds, SMTT(30) DEF CreateTaskSpace, TypeOK, SpaceId
<1>4. /\ NewSpace \in Space /\ NewSpace.ownership = "agent"
      /\ NewSpace.context = NoContext /\ NewSpace.current = NoTarget
  BY DEF NewSpace, Absent, Space
<1>5. /\ spaces' \in [SpaceId -> Space]
      /\ \A s \in SpaceId : spaces'[s] = IF s = NextId THEN NewSpace ELSE spaces[s]
  BY <1>0, <1>4 DEF CreateTaskSpace, TypeOK
<1>6. TypeOK'
  BY <1>0, <1>2, <1>3, <1>4, <1>5 DEF CreateTaskSpace, TypeOK, browsers
<1>7. ExistingBorn' /\ SelectedWasCreated'
  <2>1. NextId \in Nat /\ SpaceId \subseteq Nat /\ selected' = selected
    BY <1>0, BornNat DEF CreateTaskSpace
  <2>2. ASSUME NEW d \in Clients PROVE selected[d] \in Nat
    <3>1. selected[d] \in {NoSpace} \cup SpaceId
      BY <1>0 DEF TypeOK
    <3> QED BY <3>1 DEF NoSpace, SpaceId
  <2>3. ASSUME NEW s \in SpaceId, spaces'[s].ownership # "absent" PROVE s < NextId + 1
    BY <1>0, <1>5, <2>1, <2>3 DEF Inv, Rest, ExistingBorn, Exists
  <2>4. ASSUME NEW d \in Clients, selected[d] # NoSpace PROVE selected[d] < NextId + 1
    BY <1>0, <2>1, <2>2, <2>4 DEF Inv, Rest, SelectedWasCreated
  <2> QED BY <1>3, <2>1, <2>3, <2>4 DEF ExistingBorn, SelectedWasCreated, Exists
<1>8. OwnContext'
  BY <1>4, <1>5 DEF Inv, Rest, OwnContext
<1>9. ASSUME NEW i \in Slot, calls'[i] # NoCall PROVE CallRight(i)'
  <2>1. CASE calls'[i] = Sent(call)
    <3>1. calls'[i].kind = "context" /\ calls'[i].space = NextId /\ calls'[i].context = ctx
      BY <1>0, <1>1, <2>1, SentTyped
    <3> QED BY <1>0, <1>3, <3>1 DEF CallRight
  <2>2. CASE SameCall(i)
    <3>1. CallRight(i)
      BY <2>2, RestIsCallsRight DEF Inv, CallsRight, SameCall
    <3>2. ASSUME calls[i].kind = "tab", gen = 0
          PROVE  /\ calls[i].space \in SpaceId /\ calls[i].space < born'[0]
                 /\ calls[i].space # NextId
      <4>1. calls[i].space \in SpaceId /\ calls[i].space < born[0]
        BY <3>1, <3>2 DEF CallRight
      <4>2. calls[i].space \in Nat /\ born[0] \in Nat /\ born'[0] = born[0] + 1 /\ born[0] = NextId
        BY <1>0, <1>3, <3>2, <4>1, BornNat
      <4> QED BY <4>1, <4>2
    <3>3. /\ calls'[i].kind = calls[i].kind /\ calls'[i].space = calls[i].space
          /\ calls'[i].context = calls[i].context /\ calls'[i].target = calls[i].target
          /\ page' = page
      BY <2>2 DEF SameCall, CreateTaskSpace, browsers
    <3> QED BY <1>3, <1>5, <3>1, <3>2, <3>3 DEF CallRight, Exists
  <2> QED BY <1>2, <1>9, <2>1, <2>2
<1>10. Asked' /\ FirstLife'
  <2>1. ASSUME gen' = 0, NEW s \in SpaceId
        PROVE  /\ spaces'[s].context \in {NoContext, <<0, s>>}
               /\ spaces'[s].current # NoTarget =>
                    spaces'[s].context = <<0, s>> /\ page'[spaces'[s].current].context = <<0, s>>
    <3>1. page' = page
      BY DEF CreateTaskSpace, browsers
    <3> QED BY <1>3, <1>4, <1>5, <2>1, <3>1 DEF Inv, Rest, FirstLife
  <2> QED BY <1>9, <2>1 DEF Asked, FirstLife, CallRight, InFlight
<1> QED BY <1>6, <1>7, <1>8, <1>10 DEF Inv, Rest

(* A client asks the browser for something; the registry stays. *)
LEMMA AskingStep ==
  ASSUME Inv, NEW call \in Call, Send(call),
         UNCHANGED <<selected, registry, known, cdp, launching, browsers, closed, chunk>>,
         call.kind \in {"dispose", "tab", "closeTab"},
         call.kind = "tab" =>
           /\ Exists(call.space) /\ spaces[call.space].context = call.context
           /\ call.context # NoContext /\ call.target = NoTarget,
         call.kind = "closeTab" => call.target \in Targets
  PROVE  Inv'
<1>0. TypeOK /\ calls' \in [Slot -> {NoCall} \cup Call]
      /\ UNCHANGED <<selected, gen, born, spaces, page, browser, inbox, contexts>>
  BY SendTyped DEF Inv, registry, browsers
<1>1. TypeOK'
  BY <1>0 DEF TypeOK
<1>2. ASSUME NEW i \in Slot, calls'[i] = Sent(call) PROVE CallRight(i)'
  <2>1. /\ calls'[i].kind = call.kind /\ calls'[i].space = call.space
        /\ calls'[i].context = call.context /\ calls'[i].target = call.target
    BY <1>0, <1>2, SentTyped
  <2>2. ASSUME call.kind = "tab", gen = 0
        PROVE  /\ call.space \in SpaceId /\ call.space < born[0]
               /\ call.context = <<0, call.space>>
    BY <2>2 DEF Inv, Rest, ExistingBorn, FirstLife, Exists
  <2> QED BY <1>0, <2>1, <2>2 DEF CallRight, Exists
<1>3. \A i \in Slot : calls'[i] # NoCall => SameCall(i) \/ CallRight(i)'
  BY <1>0, <1>2, SendAdds
<1>4. (\A s \in SpaceId : SpaceKept(s)) /\ PageKept /\ SelectionKept
  BY <1>0, UnchangedKept
<1>5. Rest'
  BY <1>0, <1>1, <1>3, <1>4, QuietStep
<1> QED BY <1>1, <1>5 DEF Inv

LEMMA RemoveSpaceKept ==
  ASSUME TypeOK, NEW c \in Clients, NEW s, RemoveSpace(c, s)
  PROVE  /\ selected' \in [Clients -> {NoSpace} \cup SpaceId]
         /\ spaces' \in [SpaceId -> Space]
         /\ \A u \in SpaceId : spaces'[u].ownership = "absent" => spaces'[u] = Absent
         /\ \A u \in SpaceId : SpaceKept(u)
         /\ SelectionKept
<1>1. Absent \in Space /\ Absent.ownership = "absent"
      /\ Absent.context = NoContext /\ Absent.current = NoTarget
  BY DEF Absent, Space
<1>2. /\ spaces' \in [SpaceId -> Space]
      /\ \A u \in SpaceId : spaces'[u] = IF u = s THEN Absent ELSE spaces[u]
  BY <1>1 DEF RemoveSpace, TypeOK, Exists
<1> QED BY <1>1, <1>2 DEF RemoveSpace, TypeOK, SpaceKept, SelectionKept, Exists

LEMMA ClientSteps == ASSUME Inv, NEW c \in Clients, ClientStep(c) PROVE Inv'
<1>0. TypeOK /\ \A s : Exists(s) => s \in SpaceId
  BY DEF Inv, Exists
<1>1. CASE CreateTaskSpace(c)
  BY <1>1, CreateStep
<1>2. CASE CloseTaskSpace(c)
  <2> DEFINE s == selected[c]
             call == [Asking("dispose", c, s) EXCEPT !.context = spaces[s].context]
  <2>0. s \in SpaceId
    BY <1>0, <1>2 DEF CloseTaskSpace, RequireSelected
  <2>1. CASE RemoveSpace(c, s) /\ UNCHANGED calls
    <3>1. TypeOK'
      BY <1>0, <1>2, <2>1, RemoveSpaceKept DEF CloseTaskSpace, TypeOK, browsers
    <3>2. \A i \in Slot : calls'[i] # NoCall => SameCall(i)
      BY <1>0, <2>1, StatesSettle, UnchangedKept
    <3>3. UNCHANGED <<gen, born, page>>
      BY <1>2 DEF CloseTaskSpace, browsers
    <3>4. Rest'
      BY <1>0, <2>1, <3>1, <3>2, <3>3, RemoveSpaceKept, UnchangedKept, QuietStep
    <3> QED BY <3>1, <3>4 DEF Inv
  <2>2. CASE Send(call) /\ UNCHANGED <<spaces, selected>>
    <3>1. spaces[s].context \in {NoContext} \cup Context
      BY <1>0, <2>0 DEF TypeOK, Space
    <3>2. Asking("dispose", c, s) \in Call /\ Asking("dispose", c, s).kind = "dispose"
      BY <1>0, <2>0, AskingTyped
    <3>3. call \in Call /\ call.kind = "dispose"
      BY <3>1, <3>2 DEF Call
    <3> HIDE DEF call, s
    <3>4. UNCHANGED <<selected, registry, known, cdp, launching, browsers, closed, chunk>>
      BY <1>2, <2>2 DEF CloseTaskSpace, registry
    <3> QED BY <2>2, <3>3, <3>4, AskingStep
  <2> QED BY <1>2, <2>1, <2>2 DEF CloseTaskSpace
<1>3. CASE CreateTab(c)
  <2> DEFINE s == selected[c]
             ctx == spaces[s].context
             fresh == ~ \E t \in known : page[t].context = ctx
             call == [Asking("tab", c, s) EXCEPT !.context = ctx, !.fresh = fresh]
  <2>1. Exists(s) /\ s \in SpaceId /\ ctx # NoContext /\ Send(call)
    BY <1>0, <1>3 DEF CreateTab, RequireSelected
  <2>2. ctx \in {NoContext} \cup Context /\ fresh \in BOOLEAN
    BY <1>0, <2>1 DEF TypeOK, Space
  <2> HIDE DEF fresh, ctx
  <2>3. /\ call \in Call /\ call.kind = "tab" /\ call.space = s
        /\ call.context = ctx /\ call.target = NoTarget
    BY <1>0, <2>1, <2>2, AskingTyped, ZenonT(40) DEF Call, Asking
  <2> HIDE DEF call, s
  <2>4. Exists(call.space) /\ spaces[call.space].context = call.context
    BY <2>1, <2>3 DEF ctx
  <2>5. UNCHANGED <<selected, registry, known, cdp, launching, browsers, closed, chunk>>
    BY <1>3 DEF CreateTab
  <2> QED BY <2>1, <2>3, <2>4, <2>5, AskingStep
<1>4. ASSUME NEW t \in Targets, CloseTab(c, t) PROVE Inv'
  <2> DEFINE call == [Asking("closeTab", c, NoSpace) EXCEPT !.target = t]
  <2>1. call \in Call /\ call.kind = "closeTab" /\ call.target = t
    BY <1>0, AskingTyped DEF Call, Asking
  <2>2. Send(call)
        /\ UNCHANGED <<selected, registry, known, cdp, launching, browsers, closed, chunk>>
    BY <1>4 DEF CloseTab
  <2> HIDE DEF call
  <2> QED BY <2>1, <2>2, AskingStep
<1>5. ASSUME NEW s \in SpaceId, UseTaskSpace(c, s) PROVE Inv'
  <2>1. TypeOK'
    BY <1>0, <1>5 DEF UseTaskSpace, TypeOK, registry, browsers
  <2>2. UNCHANGED <<gen, born, spaces, page, calls>>
    BY <1>5 DEF UseTaskSpace, registry, browsers
  <2>3. SelectionKept
    BY <1>0, <1>5 DEF UseTaskSpace, SelectionKept, TypeOK
  <2>4. Rest'
    BY <1>0, <2>1, <2>2, <2>3, StatesSettle, UnchangedKept, QuietStep
  <2> QED BY <2>1, <2>4 DEF Inv
<1>6. ASSUME NEW s \in SpaceId, ClaimTaskSpace(c, s) PROVE Inv'
  <2>1. /\ spaces' \in [SpaceId -> Space]
        /\ \A u \in SpaceId : u # s => spaces'[u] = spaces[u]
        /\ spaces'[s].ownership = "agent" /\ spaces'[s].context = spaces[s].context
        /\ spaces'[s].current = spaces[s].current
    BY <1>0, <1>6, ZenonT(40) DEF ClaimTaskSpace, TypeOK, Space
  <2>2. TypeOK'
    BY <1>0, <1>6, <2>1 DEF ClaimTaskSpace, TypeOK, browsers
  <2>3. UNCHANGED <<gen, born, page, calls>>
    BY <1>6 DEF ClaimTaskSpace, browsers
  <2>4. SelectionKept /\ \A u \in SpaceId : SpaceKept(u)
    BY <1>0, <1>6, <2>1 DEF ClaimTaskSpace, SelectionKept, SpaceKept, TypeOK, Exists
  <2>5. Rest'
    BY <1>0, <2>2, <2>3, <2>4, StatesSettle, UnchangedKept, QuietStep
  <2> QED BY <2>2, <2>5 DEF Inv
<1>7. CASE HandOffTaskSpace(c) \/ TakeOverTaskSpace(c)
  <2>1. PICK to \in {"agent", "agentDelegatedToUser"} :
          spaces' = [spaces EXCEPT ![selected[c]].ownership = to]
    BY <1>7 DEF HandOffTaskSpace, TakeOverTaskSpace, ChangeOwnership
  <2>2. /\ Exists(selected[c])
        /\ UNCHANGED <<selected, gen, born, known, cdp, launching, browsers, closed, chunk, calls>>
    BY <1>7 DEF HandOffTaskSpace, TakeOverTaskSpace, ChangeOwnership, RequireSelected
  <2> DEFINE s == selected[c]
  <2>3. /\ spaces' \in [SpaceId -> Space]
        /\ \A u \in SpaceId : u # s => spaces'[u] = spaces[u]
        /\ spaces'[s].ownership = to /\ spaces'[s].context = spaces[s].context
        /\ spaces'[s].current = spaces[s].current
    <3>1. spaces[s] \in Space /\ s \in SpaceId
      BY <1>0, <2>2 DEF TypeOK
    <3>2. /\ [spaces[s] EXCEPT !.ownership = to] \in Space
          /\ [spaces[s] EXCEPT !.ownership = to].ownership = to
          /\ [spaces[s] EXCEPT !.ownership = to].context = spaces[s].context
          /\ [spaces[s] EXCEPT !.ownership = to].current = spaces[s].current
      BY <3>1 DEF Space
    <3>3. spaces' = [spaces EXCEPT ![s] = [spaces[s] EXCEPT !.ownership = to]]
      BY <2>1
    <3> QED BY <1>0, <3>1, <3>2, <3>3 DEF TypeOK
  <2> HIDE DEF s
  <2>4. TypeOK'
    BY <1>0, <2>2, <2>3 DEF TypeOK, browsers
  <2>5. UNCHANGED <<gen, born, page, calls, selected>>
    BY <2>2 DEF browsers
  <2>6. \A u \in SpaceId : SpaceKept(u)
    BY <2>2, <2>3 DEF SpaceKept, Exists, s
  <2>7. Rest'
    BY <1>0, <2>4, <2>5, <2>6, StatesSettle, UnchangedKept, QuietStep
  <2> QED BY <2>4, <2>7 DEF Inv
<1> QED BY <1>1, <1>2, <1>3, <1>4, <1>5, <1>6, <1>7 DEF ClientStep

-----------------------------------------------------------------------------
(* Reset, the next browser, and the pipe. *)

LEMMA ResetSteps == ASSUME Inv, Reset \/ LaunchBrowser PROVE Inv'
<1>0. TypeOK
  BY DEF Inv
<1>1. CASE Reset
  <2>1. /\ gen' = gen + 1 /\ gen' \in Gen /\ gen' # 0 /\ cdp <= gen'
    BY <1>0, <1>1, Bounds DEF Reset, TypeOK, Gen
  <2>2. /\ Absent \in Space /\ Absent.ownership = "absent" /\ Absent.context = NoContext
        /\ spaces' \in [SpaceId -> Space] /\ \A s \in SpaceId : spaces'[s] = Absent
        /\ \A c \in Clients : selected'[c] = NoSpace
    BY <1>1 DEF Reset, Absent, Space, Deselected
  <2>3. TypeOK'
    BY <1>0, <1>1, <2>1, <2>2 DEF Reset, TypeOK, Deselected
  <2>4. UNCHANGED calls
    BY <1>1 DEF Reset
  <2>5. ExistingBorn' /\ SelectedWasCreated' /\ OwnContext' /\ Asked' /\ FirstLife'
    BY <2>1, <2>2, <2>4
       DEF ExistingBorn, Exists, SelectedWasCreated, OwnContext, Asked, InFlight, FirstLife, Inv, Rest
  <2> QED BY <2>3, <2>5 DEF Inv, Rest
<1>2. CASE LaunchBrowser
  <2>0. gen \in Gen /\ gen <= gen /\ cdp' = gen /\ gen' = gen
    BY <1>0, <1>2, Bounds DEF LaunchBrowser, TypeOK, registry, Gen
  <2>1. TypeOK'
    <3>1. browser' \in [Gen -> {"none", "up", "dying", "gone"}] /\ launching' \in BOOLEAN
      BY <1>0, <1>2, <2>0 DEF LaunchBrowser, TypeOK
    <3>2. UNCHANGED <<selected, born, spaces, known, inbox, contexts, page, closed, chunk, calls>>
      BY <1>2 DEF LaunchBrowser, registry
    <3> QED BY <1>0, <2>0, <3>1, <3>2 DEF TypeOK
  <2>2. UNCHANGED <<gen, born, spaces, page, calls, selected>>
    BY <1>2 DEF LaunchBrowser, registry
  <2>3. Rest'
    BY <1>0, <2>1, <2>2, StatesSettle, UnchangedKept, QuietStep
  <2> QED BY <2>1, <2>3 DEF Inv
<1> QED BY <1>1, <1>2

LEMMA PipeSteps == ASSUME Inv, NEW g \in Gen, PipeStep(g) PROVE Inv'
<1>0. TypeOK
  BY DEF Inv
<1>1. CASE ReadMessage(g)
  <2> DEFINE m == Head(inbox[g])
  <2>1. /\ inbox[g] \in Seq(Message) /\ inbox[g] # << >>
        /\ m \in Message /\ Tail(inbox[g]) \in Seq(Message)
    BY <1>0, <1>1, HeadTailProperties DEF ReadMessage, TypeOK
  <2>2. inbox' \in [Gen -> Seq(Message)] /\ chunk' \in {-1} \cup Gen
    BY <1>0, <1>1, <2>1 DEF ReadMessage, TypeOK
  <2>3. UNCHANGED <<selected, gen, born, cdp, launching, browser, contexts, page, closed>>
    BY <1>1 DEF ReadMessage
  <2> DEFINE Unset == [s \in SpaceId |->
                         IF spaces[s].current = m.target
                           THEN [spaces[s] EXCEPT !.current = NoTarget] ELSE spaces[s]]
  <2>4. /\ \/ UNCHANGED calls
           \/ m.type \in {"done", "failed", "stale"} /\ calls' = InState(m.call, m.type)
        /\ \/ UNCHANGED known \/ known' = known \ {m.target}
           \/ m.type = "targetCreated" /\ known' = known \cup {m.target}
        /\ UNCHANGED spaces \/ spaces' = Unset
    <3>1. CASE m.type \in {"done", "failed", "stale"}
      BY <1>1, <3>1 DEF ReadMessage
    <3>2. CASE m.type = "targetCreated"
      BY <1>1, <3>2 DEF ReadMessage
    <3>3. CASE m.type = "targetDestroyed"
      BY <1>1, <3>3 DEF ReadMessage
    <3> QED BY <1>1, <3>1, <3>2, <3>3 DEF ReadMessage
  <2> HIDE DEF m
  <2>12. Settles
    BY <1>0, <2>4, StatesSettle DEF State
  <2>5. known' \subseteq Targets
    BY <1>0, <2>1, <2>4 DEF TypeOK, Message
  <2>6. /\ spaces' \in [SpaceId -> Space]
        /\ \A s \in SpaceId : spaces'[s] = spaces[s] \/ spaces'[s] = [spaces[s] EXCEPT !.current = NoTarget]
    <3>1. ASSUME NEW r \in Space PROVE [r EXCEPT !.current = NoTarget] \in Space
      BY DEF Space
    <3>2. CASE UNCHANGED spaces
      BY <1>0, <3>2 DEF TypeOK
    <3>3. CASE spaces' = Unset
      <4>1. \A s \in SpaceId : Unset[s] \in Space
        BY <1>0, <3>1 DEF TypeOK
      <4>2. spaces' \in [SpaceId -> Space]
        BY <3>3, <4>1
      <4> QED BY <3>3, <4>2
    <3> QED BY <2>4, <3>2, <3>3
  <2>7. \A s \in SpaceId : /\ spaces'[s].ownership = spaces[s].ownership
                           /\ spaces'[s].context = spaces[s].context
                           /\ spaces'[s].current \in {NoTarget, spaces[s].current}
    BY <1>0, <2>6 DEF TypeOK, Space
  <2>8. \A s \in SpaceId : spaces'[s].ownership = "absent" => spaces'[s] = Absent
    <3>1. Absent.current = NoTarget /\ [Absent EXCEPT !.current = NoTarget] = Absent
      BY DEF Absent
    <3> QED BY <1>0, <2>6, <2>7, <3>1, ZenonT(40) DEF TypeOK
  <2>9. TypeOK'
    BY <1>0, <2>2, <2>3, <2>5, <2>6, <2>8, <2>12 DEF TypeOK, Settles
  <2>10. \A s \in SpaceId : SpaceKept(s)
    BY <2>7 DEF SpaceKept, Exists
  <2>11. Rest'
    BY <2>3, <2>9, <2>10, <2>12, UnchangedKept, QuietStep
  <2> QED BY <2>9, <2>11 DEF Inv
<1>2. CASE PipeClosed(g)
  <2>1. Settles
    BY <1>0, <1>2, StatesSettle DEF PipeClosed
  <2>2. TypeOK'
    BY <1>0, <1>2, <2>1 DEF PipeClosed, TypeOK, registry, browsers, Settles
  <2>3. UNCHANGED <<gen, born, spaces, page, selected>>
    BY <1>2 DEF PipeClosed, registry, browsers
  <2>4. Rest'
    BY <2>1, <2>2, <2>3, UnchangedKept, QuietStep
  <2> QED BY <2>2, <2>4 DEF Inv
<1> QED BY <1>1, <1>2 DEF PipeStep

-----------------------------------------------------------------------------
(* The handlers that go on. *)

LEMMA GoOnSteps == ASSUME Inv, NEW i \in Slot, GoOn(i) PROVE Inv'
<1>0. /\ TypeOK /\ spaces \in [SpaceId -> Space]
      /\ calls[i] # NoCall => calls[i] \in Call
  BY DEF Inv, TypeOK
<1>1. CASE CreateTaskSpaceGoesOn(i)
  <2> DEFINE s == calls[i].space
             ctx == calls[i].context
  <2>1. /\ s \in SpaceId /\ ctx \in Gen \X {s} /\ (gen = 0 => ctx = <<0, s>>)
        /\ ctx \in {NoContext} \cup Context
    BY <1>0, <1>1
       DEF CreateTaskSpaceGoesOn, GoesOn, Settled, InFlight, Inv, Rest, Asked, FirstLife, Call
  <2>2. /\ EndCall(i) /\ Settles
        /\ UNCHANGED <<selected, gen, born, known, cdp, launching, closed, chunk,
                       browser, inbox, contexts, page>>
    BY <1>0, <1>1, StatesSettle DEF CreateTaskSpaceGoesOn, browsers
  <2>3. \/ spaces' = spaces
        \/ Exists(s) /\ spaces' = [spaces EXCEPT ![s].context = ctx]
    BY <1>1 DEF CreateTaskSpaceGoesOn, SetBrowserContext
  <2> HIDE DEF s, ctx
  <2>4. CASE spaces' = spaces
    <3>1. TypeOK'
      BY <1>0, <2>2, <2>4 DEF TypeOK, Settles
    <3>2. Rest'
      BY <2>2, <2>4, <3>1, UnchangedKept, QuietStep
    <3> QED BY <3>1, <3>2 DEF Inv
  <2>5. CASE Exists(s) /\ spaces' = [spaces EXCEPT ![s].context = ctx]
    <3> DEFINE new == [spaces[s] EXCEPT !.context = ctx]
    <3>1. /\ new \in Space /\ new.context = ctx
          /\ new.ownership = spaces[s].ownership /\ new.current = spaces[s].current
      BY <1>0, <2>1 DEF Space
    <3>2. spaces' = [spaces EXCEPT ![s] = new]
      BY <2>5
    <3> HIDE DEF new
    <3>3. /\ spaces' \in [SpaceId -> Space]
          /\ \A u \in SpaceId : spaces'[u] = IF u = s THEN new ELSE spaces[u]
      BY <1>0, <3>1, <3>2
    <3>4. TypeOK'
      BY <1>0, <2>2, <2>5, <3>1, <3>3 DEF TypeOK, Settles, Exists
    <3>5. ExistingBorn' /\ SelectedWasCreated' /\ OwnContext'
      BY <2>1, <2>2, <3>1, <3>3
         DEF Inv, Rest, ExistingBorn, SelectedWasCreated, OwnContext, Exists
    <3>6. ASSUME NEW j \in Slot, calls'[j] # NoCall PROVE CallRight(j)'
      <4>1. /\ CallRight(j) /\ calls[j] # NoCall
            /\ calls'[j].kind = calls[j].kind /\ calls'[j].space = calls[j].space
            /\ calls'[j].context = calls[j].context /\ calls'[j].target = calls[j].target
        BY <2>2, <3>6, RestIsCallsRight DEF Inv, CallsRight, Settles
      <4> QED BY <2>1, <2>2, <3>1, <3>3, <4>1 DEF CallRight, Exists
    <3>7. ASSUME gen' = 0, NEW u \in SpaceId
          PROVE  /\ spaces'[u].context \in {NoContext, <<0, u>>}
                 /\ spaces'[u].current # NoTarget =>
                      spaces'[u].context = <<0, u>> /\ page'[spaces'[u].current].context = <<0, u>>
      <4>1. /\ spaces[u].context \in {NoContext, <<0, u>>}
            /\ spaces[u].current # NoTarget =>
                 spaces[u].context = <<0, u>> /\ page[spaces[u].current].context = <<0, u>>
        BY <2>2, <3>7 DEF Inv, Rest, FirstLife
      <4>2. ctx = <<0, s>> /\ page' = page
        BY <2>1, <2>2, <3>7
      <4>3. CASE u # s
        <5> spaces'[u] = spaces[u]
          BY <3>3, <4>3
        <5> QED BY <4>1, <4>2
      <4>4. CASE u = s
        <5> spaces'[u].context = <<0, u>> /\ spaces'[u].current = spaces[u].current
          BY <3>1, <3>3, <4>2, <4>4
        <5> QED BY <4>1, <4>2
      <4> QED BY <4>3, <4>4
    <3>8. Asked' /\ FirstLife'
      BY <3>6, <3>7 DEF Asked, FirstLife, CallRight, InFlight
    <3> QED BY <3>4, <3>5, <3>8 DEF Inv, Rest
  <2> QED BY <2>3, <2>4, <2>5
<1>2. CASE CloseTaskSpaceGoesOn(i)
  <2>1. /\ RemoveSpace(calls[i].client, calls[i].space) /\ calls[i].client \in Clients /\ Settles
        /\ UNCHANGED <<gen, born, known, cdp, launching, closed, chunk,
                       browser, inbox, contexts, page>>
    BY <1>0, <1>2, StatesSettle DEF CloseTaskSpaceGoesOn, GoesOn, Settled, Call, browsers
  <2>2. TypeOK'
    BY <1>0, <2>1, RemoveSpaceKept DEF TypeOK, Settles
  <2>3. Rest'
    BY <1>0, <2>1, <2>2, RemoveSpaceKept, UnchangedKept, QuietStep
  <2> QED BY <2>2, <2>3 DEF Inv
<1>3. CASE CreateTabGoesOn(i)
  <2>0. /\ calls[i] \in Call /\ calls[i] # NoCall /\ calls[i].kind = "tab"
        /\ UNCHANGED <<selected, gen, born, known, cdp, launching, closed, chunk,
                       browser, inbox, contexts, page>>
    BY <1>0, <1>3 DEF CreateTabGoesOn, GoesOn, Settled, browsers
  <2>1. CASE UNCHANGED spaces /\ EndCall(i)
    <3>1. Settles
      BY <1>0, <2>1, StatesSettle
    <3>2. TypeOK'
      BY <1>0, <2>0, <2>1, <3>1 DEF TypeOK, Settles
    <3>3. Rest'
      BY <2>0, <2>1, <3>1, <3>2, UnchangedKept, QuietStep
    <3> QED BY <3>2, <3>3 DEF Inv
  <2>2. CASE UNCHANGED spaces /\ calls' = [calls EXCEPT ![i] = Sent([@ EXCEPT !.fresh = TRUE])]
    <3> DEFINE again == [calls[i] EXCEPT !.fresh = TRUE]
    <3>1. /\ again \in Call /\ again.kind = calls[i].kind /\ again.space = calls[i].space
          /\ again.context = calls[i].context /\ again.target = calls[i].target
      BY <2>0 DEF Call
    <3>2. calls' = [calls EXCEPT ![i] = Sent(again)]
      BY <2>2
    <3> HIDE DEF again
    <3>3. calls' \in [Slot -> {NoCall} \cup Call] /\ \A j \in Slot : calls'[j] # NoCall => SameCall(j)
      BY <1>0, <2>0, <3>1, <3>2, SentTyped DEF TypeOK, SameCall
    <3>4. TypeOK'
      BY <1>0, <2>0, <2>2, <3>3 DEF TypeOK
    <3>5. Rest'
      BY <2>0, <2>2, <3>3, <3>4, UnchangedKept, QuietStep
    <3> QED BY <3>4, <3>5 DEF Inv
  <2>3. CASE /\ EndCall(i) /\ Exists(calls[i].space)
             /\ spaces' = [spaces EXCEPT ![calls[i].space].current = calls[i].target]
    <3> DEFINE s == calls[i].space
               t == calls[i].target
               new == [spaces[s] EXCEPT !.current = t]
    <3>0. s \in SpaceId /\ t \in {NoTarget} \cup Targets /\ Exists(s)
      BY <2>0, <2>3 DEF Exists, Call
    <3>1. /\ new \in Space /\ new.current = t
          /\ new.ownership = spaces[s].ownership /\ new.context = spaces[s].context
      BY <1>0, <3>0 DEF Space
    <3>2. spaces' = [spaces EXCEPT ![s] = new] /\ Settles
      BY <1>0, <2>3, StatesSettle
    <3>3. gen = 0 => /\ spaces[s].context = <<0, s>>
                     /\ t # NoTarget => page[t].context = <<0, s>>
      BY <2>0, <3>0 DEF Inv, Rest, FirstLife, InFlight
    <3> HIDE DEF new, s, t
    <3>4. /\ spaces' \in [SpaceId -> Space]
          /\ \A u \in SpaceId : spaces'[u] = IF u = s THEN new ELSE spaces[u]
      BY <1>0, <3>1, <3>2
    <3>5. TypeOK'
      BY <1>0, <2>0, <3>0, <3>1, <3>2, <3>4 DEF TypeOK, Settles, Exists
    <3>6. ExistingBorn' /\ SelectedWasCreated' /\ OwnContext'
      BY <2>0, <3>1, <3>4 DEF Inv, Rest, ExistingBorn, SelectedWasCreated, OwnContext, Exists
    <3>7. ASSUME NEW j \in Slot, calls'[j] # NoCall PROVE CallRight(j)'
      <4>1. /\ CallRight(j) /\ calls[j] # NoCall
            /\ calls'[j].kind = calls[j].kind /\ calls'[j].space = calls[j].space
            /\ calls'[j].context = calls[j].context /\ calls'[j].target = calls[j].target
        BY <3>2, <3>7, RestIsCallsRight DEF Inv, CallsRight, Settles
      <4> QED BY <2>0, <3>1, <3>4, <4>1 DEF CallRight, Exists
    <3>8. ASSUME gen' = 0, NEW u \in SpaceId
          PROVE  /\ spaces'[u].context \in {NoContext, <<0, u>>}
                 /\ spaces'[u].current # NoTarget =>
                      spaces'[u].context = <<0, u>> /\ page'[spaces'[u].current].context = <<0, u>>
      BY <2>0, <3>1, <3>3, <3>4, <3>8 DEF Inv, Rest, FirstLife
    <3>9. Asked' /\ FirstLife'
      BY <3>7, <3>8 DEF Asked, FirstLife, CallRight, InFlight
    <3> QED BY <3>5, <3>6, <3>9 DEF Inv, Rest
  <2> QED BY <1>3, <2>1, <2>2, <2>3 DEF CreateTabGoesOn, SpaceOf, SetCurrentTarget
<1>4. CASE CloseTabGoesOn(i)
  <2>1. /\ Settles
        /\ UNCHANGED <<selected, gen, born, spaces, known, cdp, launching, closed, chunk,
                       browser, inbox, contexts, page>>
    BY <1>0, <1>4, StatesSettle DEF CloseTabGoesOn, registry, browsers
  <2>2. TypeOK'
    BY <1>0, <2>1 DEF TypeOK, Settles
  <2>3. Rest'
    BY <2>1, <2>2, UnchangedKept, QuietStep
  <2> QED BY <2>2, <2>3 DEF Inv
<1> QED BY <1>1, <1>2, <1>3, <1>4 DEF GoOn
-----------------------------------------------------------------------------
(* The browsers. *)

Received == inbox' \in [Gen -> Seq(Message)]

LEMMA SaysTyped ==
  ASSUME TypeOK, NEW g \in Gen, NEW messages \in Seq(Message), Says(g, messages)
  PROVE  Received
<1>1. inbox[g] \in Seq(Message)
  BY DEF TypeOK
<1>2. inbox[g] \o messages \in Seq(Message)
  BY <1>1, ConcatProperties
<1> QED BY <1>2 DEF Says, TypeOK, Received

LEMMA MessagesTyped ==
  /\ \A i \in Slot : \A type \in {"done", "failed", "stale"} : Reply(type, i) \in Seq(Message)
  /\ \A t \in Targets : \A type \in {"targetCreated", "targetDestroyed"} :
       Event(type, t) \in Seq(Message)
<1>1. ASSUME NEW i \in Slot, NEW type \in {"done", "failed", "stale"}
      PROVE  Reply(type, i) \in Seq(Message)
  <2>1. [type |-> type, call |-> i] \in Message
    BY DEF Message
  <2> QED BY <2>1 DEF Reply
<1>2. ASSUME NEW t \in Targets, NEW type \in {"targetCreated", "targetDestroyed"}
      PROVE  Event(type, t) \in Seq(Message)
  <2>1. [type |-> type, target |-> t] \in Message
    BY DEF Message
  <2> QED BY <2>1 DEF Event
<1> QED BY <1>1, <1>2

LEMMA DestroyedTyped ==
  ASSUME NEW ts \in SUBSET Targets, NEW order \in SetToSeqs(ts)
  PROVE  DestroyedEvents(order) \in Seq(Message)
<1>1. IsFiniteSet(ts) /\ Cardinality(ts) \in Nat
  BY BoundsAssumption, FS_Subset, FS_CardinalityType
<1>2. order \in [1 .. Cardinality(ts) -> ts]
  BY DEF SetToSeqs
<1>3. \A k \in 1 .. Cardinality(ts) :
        [type |-> "targetDestroyed", target |-> order[k]] \in Message
  BY <1>2 DEF Message
<1>4. DestroyedEvents(order) \in [1 .. Cardinality(ts) -> Message]
  BY <1>2, <1>3 DEF DestroyedEvents
<1> QED BY <1>1, <1>4, IsASeq

LEMMA GoneKept ==
  ASSUME TypeOK, NEW ts, page' = Gone(ts)
  PROVE  /\ page' \in [Targets -> [context : {NoContext} \cup Context, alive : BOOLEAN]]
         /\ PageKept
<1>1. ASSUME NEW p \in [context : {NoContext} \cup Context, alive : BOOLEAN]
      PROVE  /\ [p EXCEPT !.alive = FALSE] \in [context : {NoContext} \cup Context, alive : BOOLEAN]
             /\ [p EXCEPT !.alive = FALSE].context = p.context
  OBVIOUS
<1>2. \A t \in Targets : /\ page[t] \in [context : {NoContext} \cup Context, alive : BOOLEAN]
                         /\ page'[t] = IF t \in ts THEN [page[t] EXCEPT !.alive = FALSE] ELSE page[t]
  BY DEF TypeOK, Gone
<1>3. page' = [t \in Targets |-> page'[t]]
  BY DEF Gone
<1> QED BY <1>1, <1>2, <1>3 DEF PageKept

LEMMA BrowserStep ==
  ASSUME Inv, UNCHANGED <<selected, registry, known, cdp, launching, closed, chunk>>,
         browser' \in [Gen -> {"none", "up", "dying", "gone"}],
         Received, contexts' \in [Gen -> SUBSET Context],
         page' \in [Targets -> [context : {NoContext} \cup Context, alive : BOOLEAN]],
         PageKept,
         calls' \in [Slot -> {NoCall} \cup Call],
         \A i \in Slot : calls'[i] # NoCall => SameCall(i) \/ CallRight(i)'
  PROVE  Inv'
<1>0. UNCHANGED <<selected, gen, born, spaces, known, cdp, launching, closed, chunk>>
  BY DEF registry
<1>1. TypeOK'
  BY <1>0 DEF Inv, TypeOK, Received
<1>2. Rest'
  BY <1>0, <1>1, UnchangedKept, QuietStep
<1> QED BY <1>1, <1>2 DEF Inv

LEMMA AnswerSteps == ASSUME Inv, NEW i \in Slot, Answer(i) PROVE Inv'
<1> DEFINE g == calls[i].via
           ctx == calls[i].context
<1>0. /\ TypeOK /\ calls[i] \in Call /\ calls[i] # NoCall /\ g \in Gen
      /\ UNCHANGED <<selected, registry, known, cdp, launching, browser, closed, chunk>>
      /\ browser' \in [Gen -> {"none", "up", "dying", "gone"}]
  BY DEF Answer, AnswerContext, AnswerDispose, AnswerTab, AnswerCloseTab, Answerable,
         Inv, TypeOK, Call
<1>1. ASSUME calls' = InState(i, "replied")
      PROVE  Settles
  BY <1>0, <1>1, StatesSettle DEF State
<1>2. \A j \in Slot : \A type \in {"done", "failed", "stale"} : Reply(type, j) \in Seq(Message)
  BY MessagesTyped
<1>3. ASSUME calls' = InState(i, "replied"), Received, contexts' \in [Gen -> SUBSET Context],
             page' = page \/ \E ts : page' = Gone(ts)
      PROVE  Inv'
  <2>1. /\ page' \in [Targets -> [context : {NoContext} \cup Context, alive : BOOLEAN]]
        /\ PageKept
    BY <1>0, <1>3, GoneKept DEF TypeOK, PageKept
  <2>2. Settles /\ calls' \in [Slot -> {NoCall} \cup Call]
    BY <1>1, <1>3 DEF Settles
  <2> QED BY <1>0, <1>3, <2>1, <2>2, UnchangedKept, BrowserStep
<1>4. CASE AnswerContext(i)
  <2>1. Says(g, Reply("done", i)) /\ calls' = InState(i, "replied") /\ page' = page
        /\ contexts' = [contexts EXCEPT ![g] = @ \cup {ctx}] /\ InFlight(i, "context")
    BY <1>4 DEF AnswerContext, Answerable, InFlight
  <2>2. ctx \in Context
    BY <2>1 DEF Inv, Rest, Asked, Context
  <2>3. contexts' \in [Gen -> SUBSET Context]
    BY <1>0, <2>1, <2>2 DEF TypeOK
  <2>4. Received
    BY <1>0, <1>2, <2>1, SaysTyped
  <2> QED BY <1>3, <2>1, <2>3, <2>4
<1>5. CASE AnswerDispose(i)
  <2>1. calls' = InState(i, "replied")
    BY <1>5 DEF AnswerDispose
  <2>2. CASE /\ contexts' = [contexts EXCEPT ![g] = @ \ {ctx}]
             /\ page' = Gone(Pages(ctx))
             /\ \E order \in SetToSeqs(Pages(ctx)) :
                   \/ Says(g, DestroyedEvents(order) \o Reply("done", i))
                   \/ Says(g, Reply("done", i) \o DestroyedEvents(order))
    <3>1. PICK order \in SetToSeqs(Pages(ctx)) :
                   \/ Says(g, DestroyedEvents(order) \o Reply("done", i))
                   \/ Says(g, Reply("done", i) \o DestroyedEvents(order))
      BY <2>2
    <3>2. Pages(ctx) \in SUBSET Targets
      BY DEF Pages
    <3>3. DestroyedEvents(order) \in Seq(Message) /\ Reply("done", i) \in Seq(Message)
      BY <1>2, <3>2, DestroyedTyped
    <3>4. /\ DestroyedEvents(order) \o Reply("done", i) \in Seq(Message)
          /\ Reply("done", i) \o DestroyedEvents(order) \in Seq(Message)
      BY <3>3, ConcatProperties
    <3>5. Received
      BY <1>0, <3>1, <3>4, SaysTyped
    <3>6. contexts' \in [Gen -> SUBSET Context]
      BY <1>0, <2>2 DEF TypeOK
    <3> QED BY <1>3, <2>1, <2>2, <3>5, <3>6
  <2>3. CASE Says(g, Reply("failed", i)) /\ UNCHANGED <<contexts, page>>
    <3>1. Received
      BY <1>0, <1>2, <2>3, SaysTyped
    <3>2. contexts' \in [Gen -> SUBSET Context]
      BY <1>0, <2>3 DEF TypeOK
    <3> QED BY <1>3, <2>1, <2>3, <3>1, <3>2
  <2> QED BY <1>5, <2>2, <2>3 DEF AnswerDispose
<1>6. CASE AnswerTab(i)
  <2>0. contexts' = contexts /\ contexts' \in [Gen -> SUBSET Context]
    BY <1>0, <1>6 DEF AnswerTab, TypeOK
  <2>1. CASE /\ Says(g, Reply("failed", i)) \/ Says(g, Reply("stale", i))
             /\ calls' = InState(i, "replied") /\ page' = page
    <3>1. Received
      BY <1>0, <1>2, <2>1, SaysTyped
    <3> QED BY <1>3, <2>0, <2>1, <3>1
  <2>2. ASSUME NEW t \in Targets, page[t] = Unborn, ctx \in contexts[g],
               page' = [page EXCEPT ![t] = [context |-> ctx, alive |-> TRUE]],
               Says(g, Event("targetCreated", t) \o Reply("done", i)),
               calls' = [calls EXCEPT ![i].state = "replied", ![i].target = t]
        PROVE  Inv'
    <3>1. Event("targetCreated", t) \o Reply("done", i) \in Seq(Message)
      BY <1>2, MessagesTyped, ConcatProperties
    <3>2. Received
      BY <1>0, <2>2, <3>1, SaysTyped
    <3>3. ctx \in Context
      BY <1>0, <2>2 DEF TypeOK
    <3>4. /\ page' \in [Targets -> [context : {NoContext} \cup Context, alive : BOOLEAN]]
          /\ page'[t].context = ctx
          /\ \A u \in Targets : u # t => page'[u] = page[u]
      BY <1>0, <2>2, <3>3 DEF TypeOK
    <3>5. PageKept
      BY <2>2, <3>4 DEF PageKept, Unborn
    <3> DEFINE new == [calls[i] EXCEPT !.state = "replied", !.target = t]
    <3>6. /\ new \in Call /\ new.kind = calls[i].kind /\ new.space = calls[i].space
          /\ new.context = ctx /\ new.target = t
      BY <1>0 DEF Call
    <3>7. calls' = [calls EXCEPT ![i] = new]
      BY <2>2
    <3> HIDE DEF new
    <3>8. /\ calls' \in [Slot -> {NoCall} \cup Call]
          /\ \A j \in Slot : calls'[j] = IF j = i THEN new ELSE calls[j]
      BY <1>0, <3>6, <3>7 DEF TypeOK
    <3>9. CallRight(i)'
      <4>1. CallRight(i) /\ calls[i].kind = "tab"
        BY <1>0, <1>6, RestIsCallsRight DEF Inv, CallsRight, AnswerTab, Answerable
      <4>2. UNCHANGED <<gen, born, spaces>>
        BY <1>0 DEF registry
      <4> QED BY <3>4, <3>6, <3>8, <4>1, <4>2 DEF CallRight, Exists
    <3>10. \A j \in Slot : calls'[j] # NoCall => SameCall(j) \/ CallRight(j)'
      BY <3>8, <3>9 DEF SameCall
    <3> QED BY <1>0, <2>0, <3>2, <3>4, <3>5, <3>8, <3>10, BrowserStep
  <2> QED BY <1>6, <2>1, <2>2 DEF AnswerTab
<1>7. CASE AnswerCloseTab(i)
  <2>0. /\ contexts' \in [Gen -> SUBSET Context] /\ calls' = InState(i, "replied")
        /\ \/ page' = page /\ Says(g, Reply("failed", i))
           \/ /\ page' = Gone({calls[i].target})
              /\ Says(g, Reply("done", i) \o Event("targetDestroyed", calls[i].target))
    BY <1>0, <1>7 DEF AnswerCloseTab, TypeOK
  <2>3. calls[i].target \in Targets
    BY <1>0, <1>7 DEF AnswerCloseTab, Answerable, InFlight, Inv, Rest, Asked
  <2>1. CASE page' = page /\ Says(g, Reply("failed", i))
    <3>1. Received
      BY <1>0, <1>2, <2>1, SaysTyped
    <3> QED BY <1>3, <2>0, <2>1, <3>1
  <2>2. CASE /\ page' = Gone({calls[i].target})
             /\ Says(g, Reply("done", i) \o Event("targetDestroyed", calls[i].target))
    <3>1. Reply("done", i) \o Event("targetDestroyed", calls[i].target) \in Seq(Message)
      BY <1>2, <2>3, MessagesTyped, ConcatProperties
    <3>2. Received
      BY <1>0, <2>2, <3>1, SaysTyped
    <3> QED BY <1>3, <2>0, <2>2, <3>2
  <2> QED BY <2>0, <2>1, <2>2
<1> QED BY <1>4, <1>5, <1>6, <1>7 DEF Answer

LEMMA CloseAndExitSteps ==
  ASSUME Inv, (\E t \in Targets : ClosePage(t)) \/ (\E g \in Gen : Exit(g))
  PROVE  Inv'
<1>0. TypeOK
  BY DEF Inv
<1>1. ASSUME NEW t \in Targets, ClosePage(t) PROVE Inv'
  <2>1. PICK g \in Gen : Says(g, Event("targetDestroyed", t))
    BY <1>1 DEF ClosePage
  <2>2. Received
    BY <1>0, <2>1, MessagesTyped, SaysTyped
  <2>3. /\ page' = Gone({t})
        /\ UNCHANGED <<selected, registry, known, cdp, launching, browser,
                       contexts, closed, chunk, calls>>
    BY <1>1 DEF ClosePage
  <2>4. /\ page' \in [Targets -> [context : {NoContext} \cup Context, alive : BOOLEAN]]
        /\ PageKept
    BY <1>0, <2>3, GoneKept
  <2>5. /\ browser' \in [Gen -> {"none", "up", "dying", "gone"}]
        /\ contexts' \in [Gen -> SUBSET Context]
        /\ calls' \in [Slot -> {NoCall} \cup Call]
    BY <1>0, <2>3 DEF TypeOK
  <2>6. \A i \in Slot : calls'[i] # NoCall => SameCall(i)
    BY <2>3 DEF SameCall
  <2> QED BY <2>2, <2>3, <2>4, <2>5, <2>6, BrowserStep
<1>2. ASSUME NEW g \in Gen, Exit(g) PROVE Inv'
  <2>1. /\ browser' = [browser EXCEPT ![g] = "gone"]
        /\ page' = Gone(UNION {Pages(ctx) : ctx \in contexts[g]})
        /\ contexts' = [contexts EXCEPT ![g] = {}]
        /\ UNCHANGED <<selected, registry, known, cdp, launching, inbox, closed, chunk, calls>>
    BY <1>2 DEF Exit
  <2>2. /\ page' \in [Targets -> [context : {NoContext} \cup Context, alive : BOOLEAN]]
        /\ PageKept
    BY <1>0, <2>1, GoneKept
  <2>3. /\ browser' \in [Gen -> {"none", "up", "dying", "gone"}]
        /\ contexts' \in [Gen -> SUBSET Context]
        /\ calls' \in [Slot -> {NoCall} \cup Call]
        /\ Received
    BY <1>0, <2>1 DEF TypeOK, Received
  <2>4. \A i \in Slot : calls'[i] # NoCall => SameCall(i)
    BY <2>1 DEF SameCall
  <2> QED BY <2>1, <2>2, <2>3, <2>4, BrowserStep
<1> QED BY <1>1, <1>2

-----------------------------------------------------------------------------
LEMMA InitInv == ASSUME Init PROVE Inv
<1>1. 0 \in Gen /\ 1 \in 1 .. MaxSpaces + 1 /\ 0 <= 0
  BY Bounds DEF Gen
<1>2. /\ Absent \in Space /\ Absent.ownership = "absent"
      /\ Absent.context = NoContext /\ Absent.current = NoTarget
  BY DEF Absent, Space
<1>3. Unborn \in [context : {NoContext} \cup Context, alive : BOOLEAN]
  BY DEF Unborn
<1>4. << >> \in Seq(Message)
  OBVIOUS
<1>5. TypeOK
  BY <1>1, <1>2, <1>3, <1>4 DEF Init, TypeOK
<1>6. ExistingBorn /\ SelectedWasCreated /\ OwnContext /\ Asked /\ FirstLife
  BY <1>2 DEF Init, ExistingBorn, Exists, SelectedWasCreated, OwnContext, Asked, FirstLife, InFlight
<1> QED BY <1>5, <1>6 DEF Inv, Rest

LEMMA StepInv == ASSUME Inv, Next PROVE Inv'
BY ClientSteps, ResetSteps, PipeSteps, GoOnSteps, AnswerSteps, CloseAndExitSteps DEF Next

LEMMA StutterInv == ASSUME Inv, UNCHANGED vars PROVE Inv'
<1>1. TypeOK'
  BY DEF Inv, TypeOK, vars, registry, browsers
<1>2. Rest'
  BY DEF Inv, Rest, ExistingBorn, Exists, SelectedWasCreated, OwnContext, Asked, FirstLife,
         InFlight, vars, registry, browsers
<1> QED BY <1>1, <1>2 DEF Inv

LEMMA SpecInv == Spec => []Inv
<1>1. Inv /\ [Next]_vars => Inv'
  BY StepInv, StutterInv
<1> QED BY <1>1, InitInv, PTL DEF Spec

(* What the daemon keeps of clients, spaces, calls and browsers has its     *)
(* type: no handler that goes on writes a context or a target that is none. *)
THEOREM TypeCorrect == Spec => []TypeOK
BY SpecInv, PTL DEF Inv

(* The answers to Target.createBrowserContext, however many are in flight   *)
(* and in whatever order they come, a reset included, never give a space    *)
(* the context that was made for another id.                                *)
THEOREM OwnContexts == Spec => []OwnContext
<1>1. Inv => OwnContext
  BY DEF Inv, Rest
<1> QED BY <1>1, SpecInv, PTL

(* No client has a space selected that its registry never made: a selection *)
(* does not outlive a reset, whatever calls and handlers do.                *)
THEOREM SelectionsCreated == Spec => []SelectedWasCreated
<1>1. Inv => SelectedWasCreated
  BY DEF Inv, Rest
<1> QED BY <1>1, SpecInv, PTL

(* Until the first reset the tab a space takes for its current one is in    *)
(* its own context, however createTab, close and claim interleave.          *)
THEOREM CurrentInContext == Spec => []CurrentOfOwnContext
<1>1. Inv => CurrentOfOwnContext
  <2> SUFFICES ASSUME Inv, gen = 0, NEW s \in SpaceId, spaces[s].current # NoTarget
               PROVE  page[spaces[s].current].context = spaces[s].context
    BY DEF CurrentOfOwnContext
  <2> QED BY DEF Inv, Rest, FirstLife
<1> QED BY <1>1, SpecInv, PTL
-----------------------------------------------------------------------------
(* What a step does to who controls the spaces. *)

Own(s) == spaces[s].ownership
Kept == UNCHANGED <<gen, born>> /\ \A s \in SpaceId : Own(s)' = Own(s)
Given(s, from, to) ==
    /\ UNCHANGED <<gen, born>>
    /\ Own(s) \in from
    /\ \A u \in SpaceId : Own(u)' = IF u = s THEN to ELSE Own(u)
Moves ==
    \E s \in SpaceId : \/ Given(s, {"agent"}, "agentDelegatedToUser")
                       \/ Given(s, {"agentDelegatedToUser"}, "agent")
                       \/ Given(s, {"agent", "agentDelegatedToUser"}, "agent")
Begun ==
    /\ NextId \in SpaceId
    /\ gen' = gen /\ born' = [born EXCEPT ![gen] = @ + 1]
    /\ \A u \in SpaceId : Own(u)' = IF u = NextId THEN "agent" ELSE Own(u)
Dropped ==
    /\ gen' \in Gen /\ born' = born
    /\ \E S \in SUBSET SpaceId :
         /\ gen' # gen => S = SpaceId
         /\ \A u \in SpaceId : Own(u)' = IF u \in S THEN "absent" ELSE Own(u)

LEMMA RemoveDrops ==
  ASSUME TypeOK, NEW c, NEW s, RemoveSpace(c, s), UNCHANGED <<gen, born>>
  PROVE  Dropped
<1>1. Absent.ownership = "absent" /\ gen \in Gen
  BY DEF Absent, TypeOK
<1>2. \A u \in SpaceId : Own(u)' = IF u \in SpaceId \cap {s} THEN "absent" ELSE Own(u)
  BY <1>1 DEF RemoveSpace, TypeOK, Exists, Own
<1> QED BY <1>1, <1>2 DEF Dropped

LEMMA ClientMoves == ASSUME Inv, NEW c \in Clients, ClientStep(c) PROVE Kept \/ Moves \/ Begun \/ Dropped
<1>0. TypeOK /\ \A s \in SpaceId : Exists(s) => Own(s) \in {"agent", "agentDelegatedToUser"}
  BY DEF Inv, TypeOK, Space, Exists, Own
<1>1. CASE CreateTaskSpace(c)
  <2>1. NewSpace.ownership = "agent"
    BY DEF NewSpace, Absent
  <2> QED BY <1>0, <1>1, <2>1 DEF CreateTaskSpace, Begun, Own, TypeOK
<1>2. CASE CloseTaskSpace(c)
  <2>1. UNCHANGED <<gen, born>>
    BY <1>2 DEF CloseTaskSpace
  <2>2. UNCHANGED spaces \/ RemoveSpace(c, selected[c])
    BY <1>2 DEF CloseTaskSpace
  <2>3. CASE UNCHANGED spaces
    BY <2>1, <2>3 DEF Kept, Own
  <2>4. CASE RemoveSpace(c, selected[c])
    BY <1>0, <2>1, <2>4, RemoveDrops
  <2> QED BY <2>2, <2>3, <2>4
<1>3. CASE CreateTab(c) \/ (\E s \in SpaceId : UseTaskSpace(c, s)) \/ (\E t \in Targets : CloseTab(c, t))
  <2>1. UNCHANGED registry
    BY <1>3 DEF CreateTab, UseTaskSpace, CloseTab
  <2> QED BY <2>1 DEF registry, Kept, Own
<1>4. ASSUME NEW s \in SpaceId, ClaimTaskSpace(c, s) PROVE Moves
  <2>1. Own(s) \in {"agent", "agentDelegatedToUser"} /\ UNCHANGED <<gen, born>>
    BY <1>0, <1>4 DEF ClaimTaskSpace
  <2>2. \A u \in SpaceId : Own(u)' = IF u = s THEN "agent" ELSE Own(u)
    BY <1>0, <1>4 DEF ClaimTaskSpace, Own, TypeOK, Space
  <2> QED BY <2>1, <2>2 DEF Moves, Given
<1>5. ASSUME NEW from, NEW to, ChangeOwnership(c, from, to)
      PROVE  Given(selected[c], {from}, to) /\ selected[c] \in SpaceId
  <2>1. /\ selected[c] \in SpaceId /\ Own(selected[c]) = from /\ UNCHANGED <<gen, born>>
        /\ spaces' = [spaces EXCEPT ![selected[c]].ownership = to]
    BY <1>5 DEF ChangeOwnership, RequireSelected, Exists, Own
  <2>2. spaces[selected[c]] \in Space /\ spaces \in [SpaceId -> Space]
    BY <1>0, <2>1 DEF TypeOK
  <2>3. \A u \in SpaceId : Own(u)' = IF u = selected[c] THEN to ELSE Own(u)
    <3>1. [spaces[selected[c]] EXCEPT !.ownership = to].ownership = to
      BY <2>2 DEF Space
    <3> QED BY <2>1, <2>2, <3>1 DEF Own
  <2> QED BY <2>1, <2>3 DEF Given
<1>6. CASE HandOffTaskSpace(c) \/ TakeOverTaskSpace(c)
  BY <1>5, <1>6 DEF HandOffTaskSpace, TakeOverTaskSpace, Moves
<1> QED BY <1>1, <1>2, <1>3, <1>4, <1>6 DEF ClientStep

LEMMA OtherMoves ==
  ASSUME Inv, Next, ~ \E c \in Clients : ClientStep(c)
  PROVE  Kept \/ Dropped
<1>0. TypeOK
  BY DEF Inv
<1>1. CASE Reset
  <2>1. gen' \in Gen /\ gen' # gen /\ born' = born
    BY <1>0, <1>1, Bounds DEF Reset, TypeOK, Gen
  <2>2. \A s \in SpaceId : Own(s)' = "absent"
    BY <1>1 DEF Reset, Own, Absent
  <2> QED BY <2>1, <2>2 DEF Dropped
<1>2. CASE LaunchBrowser
  BY <1>2 DEF LaunchBrowser, registry, Kept, Own
<1>3. ASSUME NEW g \in Gen, PipeStep(g) PROVE Kept
  <2>1. UNCHANGED <<gen, born>>
    BY <1>3 DEF PipeStep, ReadMessage, PipeClosed, registry
  <2>2. \/ UNCHANGED spaces
        \/ spaces' = [s \in SpaceId |->
                        IF spaces[s].current = Head(inbox[g]).target
                          THEN [spaces[s] EXCEPT !.current = NoTarget] ELSE spaces[s]]
    <3>1. CASE PipeClosed(g)
      BY <3>1 DEF PipeClosed, registry
    <3>2. CASE ReadMessage(g) /\ Head(inbox[g]).type = "targetDestroyed"
      BY <3>2 DEF ReadMessage
    <3>3. CASE ReadMessage(g) /\ Head(inbox[g]).type # "targetDestroyed"
      BY <3>3 DEF ReadMessage
    <3> QED BY <1>3, <3>1, <3>2, <3>3 DEF PipeStep
  <2>3. ASSUME NEW r \in Space PROVE [r EXCEPT !.current = NoTarget].ownership = r.ownership
    BY DEF Space
  <2>4. \A s \in SpaceId : spaces[s] \in Space
    BY <1>0 DEF TypeOK
  <2> QED BY <2>1, <2>2, <2>3, <2>4 DEF Kept, Own
<1>4. ASSUME NEW g \in Gen, Exit(g) PROVE Kept
  BY <1>4 DEF Exit, registry, Kept, Own
<1>5. ASSUME NEW t \in Targets, ClosePage(t) PROVE Kept
  BY <1>5 DEF ClosePage, registry, Kept, Own
<1>6. ASSUME NEW i \in Slot, Answer(i) PROVE Kept
  BY <1>6 DEF Answer, registry, Kept, Own
<1>7. ASSUME NEW i \in Slot, GoOn(i) PROVE Kept \/ Dropped
  <2>1. UNCHANGED <<gen, born>>
    BY <1>7 DEF GoOn, CreateTaskSpaceGoesOn, CloseTaskSpaceGoesOn, CreateTabGoesOn, CloseTabGoesOn, registry
  <2>2. CASE CloseTaskSpaceGoesOn(i)
    BY <1>0, <2>1, <2>2, RemoveDrops DEF CloseTaskSpaceGoesOn
  <2>3. CASE CreateTaskSpaceGoesOn(i) \/ CreateTabGoesOn(i) \/ CloseTabGoesOn(i)
    <3>1. \/ UNCHANGED spaces
          \/ \E s, x : Exists(s) /\ spaces' = [spaces EXCEPT ![s].context = x]
          \/ \E s, x : Exists(s) /\ spaces' = [spaces EXCEPT ![s].current = x]
      BY <2>3 DEF CreateTaskSpaceGoesOn, CreateTabGoesOn, CloseTabGoesOn, SetBrowserContext,
                  SetCurrentTarget, SpaceOf, registry
    <3>2. ASSUME NEW r \in Space, NEW x
          PROVE  /\ [r EXCEPT !.context = x].ownership = r.ownership
                 /\ [r EXCEPT !.current = x].ownership = r.ownership
      BY DEF Space
    <3>3. spaces \in [SpaceId -> Space]
      BY <1>0 DEF TypeOK
    <3>4. CASE UNCHANGED spaces
      BY <3>4, <2>1 DEF Kept, Own
    <3>5. ASSUME NEW s, NEW x, Exists(s), \/ spaces' = [spaces EXCEPT ![s].context = x]
                                          \/ spaces' = [spaces EXCEPT ![s].current = x]
          PROVE  Kept
      <4>1. s \in SpaceId /\ spaces[s] \in Space
        BY <3>3, <3>5 DEF Exists
      <4>2. \A u \in SpaceId : u # s => spaces'[u] = spaces[u]
        BY <3>3, <3>5
      <4> DEFINE new == [spaces[s] EXCEPT !.context = x]
                 old == [spaces[s] EXCEPT !.current = x]
      <4>3. /\ spaces' = [spaces EXCEPT ![s] = new] \/ spaces' = [spaces EXCEPT ![s] = old]
            /\ new.ownership = spaces[s].ownership /\ old.ownership = spaces[s].ownership
        BY <3>2, <3>5, <4>1
      <4> HIDE DEF new, old
      <4>4. spaces'[s].ownership = spaces[s].ownership
        BY <3>3, <4>1, <4>3
      <4> QED BY <2>1, <4>2, <4>4 DEF Kept, Own
    <3> QED BY <3>1, <3>4, <3>5
  <2> QED BY <1>7, <2>2, <2>3 DEF GoOn
<1> QED BY <1>1, <1>2, <1>3, <1>4, <1>5, <1>6, <1>7 DEF Next

LEMMA MovesArePromised ==
  ASSUME Inv, Kept \/ Moves \/ Begun \/ Dropped
  PROVE  Promise!Next \/ UNCHANGED Control
<1> DEFINE Id == Gen \X SpaceId
           Life(id) == IF id[1] = gen /\ Own(id[2]) # "absent"
                         THEN IF Own(id[2]) = "agent" THEN "agent" ELSE "delegated"
                         ELSE IF id[2] < born[id[1]] THEN "closed" ELSE "unborn"
           LifeNext(id) == IF id[1] = gen' /\ Own(id[2])' # "absent"
                             THEN IF Own(id[2])' = "agent" THEN "agent" ELSE "delegated"
                             ELSE IF id[2] < born'[id[1]] THEN "closed" ELSE "unborn"
<1>0. /\ gen \in Gen /\ SpaceId \subseteq Nat /\ born \in [Gen -> Nat]
      /\ \A s \in SpaceId : Own(s) # "absent" => s < born[gen]
      /\ \A s \in SpaceId : Own(s) \in {"absent", "agent", "agentDelegatedToUser"}
  BY Bounds DEF Inv, Rest, TypeOK, ExistingBorn, Exists, Own, Space, SpaceId
<1>1. /\ Control = [id \in Id |-> Life(id)] /\ Control' = [id \in Id |-> LifeNext(id)]
      /\ \A id \in Id : id[1] \in Gen /\ id[2] \in SpaceId /\ id = <<id[1], id[2]>>
  BY DEF Control, Exists, Own
<1>2. CASE Kept
  <2>1. \A id \in Id : LifeNext(id) = Life(id)
    BY <1>1, <1>2 DEF Kept
  <2> QED BY <1>1, <2>1
<1>3. ASSUME NEW s \in SpaceId, NEW from \in SUBSET {"agent", "agentDelegatedToUser"},
             NEW to \in {"agent", "agentDelegatedToUser"}, Given(s, from, to)
      PROVE  /\ <<gen, s>> \in Id
             /\ Control[<<gen, s>>] = IF Own(s) = "agent" THEN "agent" ELSE "delegated"
             /\ Control' = [Control EXCEPT ![<<gen, s>>] = IF to = "agent" THEN "agent" ELSE "delegated"]
  <2>1. <<gen, s>> \in Id /\ Own(s) # "absent"
    BY <1>0, <1>3 DEF Given
  <2>2. \A id \in Id : LifeNext(id) = IF id = <<gen, s>>
                                        THEN IF to = "agent" THEN "agent" ELSE "delegated" ELSE Life(id)
    BY <1>0, <1>1, <1>3, <2>1 DEF Given
  <2> QED BY <1>1, <2>1, <2>2
<1>4. CASE Moves
  <2>1. PICK s \in SpaceId : \/ Given(s, {"agent"}, "agentDelegatedToUser")
                             \/ Given(s, {"agentDelegatedToUser"}, "agent")
                             \/ Given(s, {"agent", "agentDelegatedToUser"}, "agent")
    BY <1>4 DEF Moves
  <2>2. CASE Given(s, {"agent"}, "agentDelegatedToUser")
    <3>1. Promise!HandOff(<<gen, s>>) /\ <<gen, s>> \in Id
      BY <1>3, <2>2 DEF Given, Promise!HandOff, Promise!Move
    <3> QED BY <3>1 DEF Promise!Next
  <2>3. CASE Given(s, {"agentDelegatedToUser"}, "agent")
    <3>1. Promise!TakeOver(<<gen, s>>) /\ <<gen, s>> \in Id
      BY <1>3, <2>3 DEF Given, Promise!TakeOver, Promise!Move
    <3> QED BY <3>1 DEF Promise!Next
  <2>4. CASE Given(s, {"agent", "agentDelegatedToUser"}, "agent")
    <3>1. Promise!Claim(<<gen, s>>) /\ <<gen, s>> \in Id
      BY <1>3, <2>4 DEF Given, Promise!Claim, Promise!Move, Promise!Alive
    <3> QED BY <3>1 DEF Promise!Next
  <2> QED BY <2>1, <2>2, <2>3, <2>4
<1>5. CASE Begun
  <2> DEFINE new == <<gen, NextId>>
  <2>1. new \in Id /\ NextId = born[gen] /\ Own(NextId) = "absent" /\ Life(new) = "unborn"
    BY <1>0, <1>5 DEF Begun, NextId
  <2>2. \A id \in Id : LifeNext(id) = IF id = new THEN "agent" ELSE Life(id)
    <3>1. /\ gen' = gen /\ \A u \in SpaceId : Own(u)' = IF u = born[gen] THEN "agent" ELSE Own(u)
          /\ born'[gen] = born[gen] + 1 /\ \A g \in Gen : g # gen => born'[g] = born[g]
      BY <1>0, <1>5, <2>1 DEF Begun
    <3>2. \A u \in SpaceId : u < born[gen] + 1 <=> u < born[gen] \/ u = born[gen]
      BY <1>0
    <3>3. ASSUME NEW g \in Gen, NEW u \in SpaceId
          PROVE  LifeNext(<<g, u>>) = IF g = gen /\ u = born[gen] THEN "agent" ELSE Life(<<g, u>>)
      <4>1. CASE g # gen
        BY <3>1, <4>1
      <4>2. CASE g = gen
        BY <3>1, <3>2, <4>2
      <4> QED BY <4>1, <4>2
    <3> QED BY <1>1, <2>1, <3>3
  <2>3. Promise!Create(new)
    BY <1>1, <2>1, <2>2, ZenonT(40) DEF Promise!Create, Promise!Move
  <2> QED BY <2>1, <2>3 DEF Promise!Next
<1>6. CASE Dropped
  <2>1. PICK S \in SUBSET SpaceId :
               /\ gen' # gen => S = SpaceId
               /\ \A u \in SpaceId : Own(u)' = IF u \in S THEN "absent" ELSE Own(u)
    BY <1>6 DEF Dropped
  <2> DEFINE over == {id \in Id : id[1] = gen /\ id[2] \in S /\ Own(id[2]) # "absent"}
  <2>2. \A id \in Id : LifeNext(id) = IF id \in over THEN "closed" ELSE Life(id)
    BY <1>0, <1>1, <1>6, <2>1 DEF Dropped
  <2>3. over \in SUBSET {id \in Id : Control[id] \in Promise!Alive}
    BY <1>1 DEF Promise!Alive
  <2>4. Control' = [id \in Id |-> IF id \in over THEN "closed" ELSE Control[id]]
    BY <1>1, <2>2
  <2>5. Promise!CloseSome
    BY <2>3, <2>4 DEF Promise!CloseSome
  <2> QED BY <2>5 DEF Promise!Next
<1> QED BY <1>2, <1>4, <1>5, <1>6

(* Whatever handlers a step of the daemon interrupts, a space of any        *)
(* registry goes through the life SpaceOwnership promises: an id is made    *)
(* once in its registry, and a reset closes the spaces it drops.            *)
THEOREM ImplementsOwnership == Spec => RefinesOwnership
<1>1. Init => Promise!Init
  <2>1. ASSUME Init, NEW id \in Gen \X SpaceId PROVE Control[id] = "unborn"
    BY <2>1, Bounds DEF Init, Absent, Control, Exists, SpaceId
  <2> QED BY <2>1 DEF Promise!Init, Control
<1>2. Inv /\ [Next]_vars => [Promise!Next]_Control
  <2>1. ASSUME Inv, Next PROVE Promise!Next \/ UNCHANGED Control
    BY <2>1, ClientMoves, OtherMoves, MovesArePromised
  <2>2. UNCHANGED vars => UNCHANGED Control
    BY DEF vars, registry, Control, Exists
  <2> QED BY <2>1, <2>2
<1> QED BY <1>1, <1>2, SpecInv, PTL DEF Spec, RefinesOwnership, Promise!Spec
-----------------------------------------------------------------------------
(* What the clients ask for. *)

LEMMA AsksWithCall ==
  ASSUME Inv, NEW c \in Clients, ClientStep(c)
  PROVE  UNCHANGED calls \/ \E call \in Call : Send(call)
<1>0. TypeOK /\ \A s \in SpaceId : spaces[s] \in Space
  BY DEF Inv, TypeOK
<1>1. CASE CreateTaskSpace(c)
  <2> DEFINE call == [Asking("context", c, NextId) EXCEPT !.context = <<gen, NextId>>]
  <2>1. Send(call) /\ NextId \in SpaceId /\ gen \in Gen
    BY <1>0, <1>1 DEF CreateTaskSpace, TypeOK
  <2>2. call \in Call
    BY <1>0, <2>1, AskingTyped, ZenonT(40) DEF Call, Asking, Context
  <2> QED BY <2>1, <2>2
<1>2. CASE CloseTaskSpace(c) /\ ~ UNCHANGED calls
  <2> DEFINE s == selected[c]
             call == [Asking("dispose", c, s) EXCEPT !.context = spaces[s].context]
  <2>1. Send(call) /\ s \in SpaceId
    BY <1>2 DEF CloseTaskSpace, RequireSelected, Exists
  <2>2. spaces[s].context \in {NoContext} \cup Context
    BY <1>0, <2>1 DEF Space
  <2>3. call \in Call
    BY <1>0, <2>1, <2>2, AskingTyped DEF Call, Asking
  <2> QED BY <2>1, <2>3
<1>3. CASE CreateTab(c)
  <2>1. PICK ctx \in {spaces[selected[c]].context}, fresh \in BOOLEAN :
          Send([Asking("tab", c, selected[c]) EXCEPT !.context = ctx, !.fresh = fresh])
    BY <1>3 DEF CreateTab
  <2>2. selected[c] \in SpaceId
    BY <1>3 DEF CreateTab, RequireSelected, Exists
  <2>3. ctx \in {NoContext} \cup Context
    BY <1>0, <2>2 DEF Space
  <2>4. [Asking("tab", c, selected[c]) EXCEPT !.context = ctx, !.fresh = fresh] \in Call
    BY <1>0, <2>2, <2>3, AskingTyped, ZenonT(40) DEF Call, Asking
  <2> QED BY <2>1, <2>4
<1>4. ASSUME NEW t \in Targets, CloseTab(c, t) PROVE \E call \in Call : Send(call)
  <2>1. [Asking("closeTab", c, NoSpace) EXCEPT !.target = t] \in Call
    BY <1>0, AskingTyped, ZenonT(40) DEF Call, Asking
  <2> QED BY <1>4, <2>1 DEF CloseTab
<1>5. CASE \/ HandOffTaskSpace(c) \/ TakeOverTaskSpace(c)
           \/ \E s \in SpaceId : UseTaskSpace(c, s) \/ ClaimTaskSpace(c, s)
  BY <1>5 DEF HandOffTaskSpace, TakeOverTaskSpace, ChangeOwnership, UseTaskSpace, ClaimTaskSpace
<1> QED BY <1>1, <1>2, <1>3, <1>4, <1>5 DEF ClientStep

-----------------------------------------------------------------------------
(***************************************************************************)
(* Why a tab is refused.  A failure comes from a browser that has not got  *)
(* the context, or is gone; the context does not come back, since it is    *)
(* asked for once.  "No browser is open" is not the answer to a call that  *)
(* asked for a window of its own.  So each answer on its way has its call, *)
(* which no other answer is for.                                           *)
(***************************************************************************)

Pending(i) == InFlight(i, "context") /\ calls[i].state = "sent"
Issued(ctx) == ctx \in Gen \X ({NoSpace} \cup SpaceId) /\ ctx[2] < born[ctx[1]]

(* A context that was asked for and will not come into being any more. *)
Made(ctx) == Issued(ctx) /\ \A i \in Slot : Pending(i) => calls[i].context # ctx

AskedOnce ==
    /\ \A i \in Slot : InFlight(i, "context") => Issued(calls[i].context)
    /\ \A i, j \in Slot :
         InFlight(i, "context") /\ InFlight(j, "context") /\ calls[i].context = calls[j].context => i = j
    /\ \A s \in SpaceId : Made(spaces[s].context)
    /\ \A i \in Slot : InFlight(i, "tab") => Made(calls[i].context)

GoneIsEmpty == \A g \in Gen : browser[g] = "gone" => contexts[g] = {}

IsReply(m) == m.type \in {"done", "failed", "stale"}
RightReply(m, g) ==
    /\ calls[m.call] # NoCall /\ calls[m.call].state = "replied" /\ calls[m.call].via = g
    /\ calls[m.call].kind = "tab" =>
         /\ m.type = "stale" => ~ calls[m.call].fresh
         /\ m.type = "failed" => calls[m.call].context \notin contexts[g]
Replied ==
    \A g \in Gen :
      /\ \A k \in DOMAIN inbox[g] : IsReply(inbox[g][k]) => RightReply(inbox[g][k], g)
      /\ \A k, l \in DOMAIN inbox[g] :
           IsReply(inbox[g][k]) /\ IsReply(inbox[g][l]) /\ inbox[g][k].call = inbox[g][l].call => k = l

Refusal(i) == /\ calls[i].state = "stale" => ~ calls[i].fresh
              /\ calls[i].state = "failed" => calls[i].context \notin contexts[calls[i].via]
Refused == \A i \in Slot : InFlight(i, "tab") => Refusal(i)

Matched == AskedOnce /\ GoneIsEmpty /\ Replied /\ Refused

(* No browser has a context more that a tab waits to be created in. *)
NotGrown == \A i \in Slot : InFlight(i, "tab") =>
              \A g \in Gen : calls[i].context \in contexts'[g] => calls[i].context \in contexts[g]

LEMMA NoContextMade == ASSUME Inv PROVE Made(NoContext)
<1>1. born[0] \in 1 .. MaxSpaces + 1 /\ 0 \in Gen
  BY BornNat DEF Inv, TypeOK
<1>2. Issued(NoContext)
  BY <1>1, Bounds DEF Issued, NoContext, NoSpace
<1>3. \A i \in Slot : Pending(i) => calls[i].context # NoContext
  BY DEF Inv, Rest, Asked, Pending, NoContext, NoSpace, SpaceId
<1> QED BY <1>2, <1>3 DEF Made

LEMMA MadeStays ==
  ASSUME TypeOK, TypeOK', \A g \in Gen : born[g] <= born'[g], NEW ctx, Made(ctx),
         \A i \in Slot : Pending(i)' => \/ Pending(i) /\ calls'[i].context = calls[i].context
                                        \/ ~ Issued(calls'[i].context)
  PROVE  Made(ctx)'
<1>1. ctx[1] \in Gen /\ ctx[2] \in Nat
  <2> ctx \in Gen \X ({NoSpace} \cup SpaceId)
    BY DEF Made, Issued
  <2> QED BY BornNat DEF NoSpace
<1>2. born[ctx[1]] \in Nat /\ born'[ctx[1]] \in Nat
  <2> born[ctx[1]] \in 1 .. MaxSpaces + 1 /\ born'[ctx[1]] \in 1 .. MaxSpaces + 1
    BY <1>1 DEF TypeOK
  <2> QED BY Bounds
<1>3. Issued(ctx)'
  BY <1>1, <1>2 DEF Made, Issued
<1>4. \A i \in Slot : Pending(i)' => calls'[i].context # ctx
  BY DEF Made
<1> QED BY <1>3, <1>4 DEF Made

(* What a call for a context may become. *)
Continues(i) ==
    InFlight(i, "context")' =>
      /\ InFlight(i, "context") /\ calls'[i].context = calls[i].context
      /\ calls'[i].state = "sent" => calls[i].state = "sent"

LEMMA AskedOnceStays ==
  ASSUME Inv, TypeOK', AskedOnce, UNCHANGED born, \A i \in Slot : Continues(i),
         \A s \in SpaceId :
           \/ spaces'[s].context \in {NoContext, spaces[s].context}
           \/ \E i \in Slot : /\ InFlight(i, "context") /\ calls[i].state = "done"
                             /\ spaces'[s].context = calls[i].context,
         \A i \in Slot : InFlight(i, "tab")' =>
           \/ \E j \in Slot : InFlight(j, "tab") /\ calls'[i].context = calls[j].context
           \/ \E s \in SpaceId : calls'[i].context = spaces[s].context
  PROVE  AskedOnce'
<1>1. TypeOK /\ \A g \in Gen : born[g] <= born'[g]
  <2> \A g \in Gen : born[g] \in 1 .. MaxSpaces + 1
    BY DEF Inv, TypeOK
  <2> QED BY Bounds DEF Inv
<1>2. \A i \in Slot : Pending(i)' => Pending(i) /\ calls'[i].context = calls[i].context
  BY DEF Continues, Pending, InFlight
<1>3. \A ctx : Made(ctx) => Made(ctx)'
  BY <1>1, <1>2, MadeStays
<1>4. \A i \in Slot : InFlight(i, "context")' => Issued(calls[i].context)'
  BY DEF AskedOnce, Continues, Issued
<1>5. \A i, j \in Slot : InFlight(i, "context")' /\ InFlight(j, "context")'
                         /\ calls'[i].context = calls'[j].context => i = j
  BY DEF AskedOnce, Continues
<1>6. ASSUME NEW s \in SpaceId PROVE Made(spaces[s].context)'
  <2>1. PICK ctx : ctx = spaces'[s].context
    OBVIOUS
  <2>2. Made(ctx)
    <3>1. CASE ctx \in {NoContext, spaces[s].context}
      BY <3>1, NoContextMade DEF AskedOnce
    <3>2. ASSUME NEW i \in Slot, InFlight(i, "context"), ctx = calls[i].context, calls[i].state = "done"
          PROVE  Made(ctx)
      BY <3>2 DEF AskedOnce, Made, Pending
    <3> QED BY <2>1, <3>1, <3>2
  <2>3. Made(ctx)'
    BY <1>3, <2>2
  <2> QED BY <2>1, <2>3 DEF Made, Issued
<1>7. ASSUME NEW i \in Slot, InFlight(i, "tab")' PROVE Made(calls[i].context)'
  <2>1. PICK ctx : ctx = calls'[i].context
    OBVIOUS
  <2>2. Made(ctx)
    BY <1>7, <2>1 DEF AskedOnce
  <2>3. Made(ctx)'
    BY <1>3, <2>2
  <2> QED BY <2>1, <2>3 DEF Made, Issued
<1> QED BY <1>4, <1>5, <1>6, <1>7 DEF AskedOnce

(* A call that has a reply on its way is left alone. *)
Untouched(i) == calls[i] # NoCall /\ calls[i].state = "replied" => calls'[i] = calls[i]

LEMMA ReplyIsRight ==
  ASSUME Inv, Replied, NotGrown, NEW g \in Gen, NEW k \in DOMAIN inbox[g], NEW m,
         m = inbox[g][k], IsReply(m), Untouched(m.call)
  PROVE  m.call \in Slot /\ RightReply(m, g) /\ RightReply(m, g)'
<1>1. inbox[g] \in Seq(Message) /\ inbox[g][k] \in Message
  BY ElementOfSeq, LenProperties DEF Inv, TypeOK
<1>2. m.call \in Slot /\ RightReply(m, g)
  BY <1>1 DEF IsReply, Message, Replied
<1>3. calls'[m.call] = calls[m.call]
  BY <1>2 DEF RightReply, Untouched
<1>4. RightReply(m, g)'
  BY <1>2, <1>3 DEF RightReply, NotGrown, InFlight
<1> QED BY <1>2, <1>4

LEMMA RepliedStays ==
  ASSUME Inv, Replied, UNCHANGED inbox, NotGrown,
         \A i \in Slot : Untouched(i) \/ inbox[calls[i].via] = << >>
  PROVE  Replied'
<1> SUFFICES ASSUME NEW g \in Gen, NEW k \in DOMAIN inbox[g], IsReply(inbox[g][k])
             PROVE  RightReply(inbox[g][k], g)'
  BY DEF Replied, IsReply
<1>1. inbox[g] \in Seq(Message) /\ inbox[g] # << >> /\ inbox[g][k] \in Message
  BY ElementOfSeq, LenProperties, EmptySeq DEF Inv, TypeOK
<1>2. PICK m \in Message : m = inbox[g][k]
  BY <1>1
<1>3. m.call \in Slot /\ RightReply(m, g)
  BY <1>2 DEF IsReply, Message, Replied
<1>4. calls'[m.call] = calls[m.call]
  BY <1>1, <1>3 DEF RightReply, Untouched
<1>5. RightReply(m, g)'
  BY <1>3, <1>4 DEF RightReply, NotGrown, InFlight
<1> QED BY <1>2, <1>5 DEF RightReply

LEMMA RefusedStays ==
  ASSUME Inv, Refused, NotGrown,
         \A i \in Slot : \/ calls'[i] = calls[i] \/ calls'[i] = NoCall
                         \/ calls'[i].state \notin {"stale", "failed"}
                         \/ calls'[i].kind = "tab" => Refusal(i)'
  PROVE  Refused'
<1> SUFFICES ASSUME NEW i \in Slot, InFlight(i, "tab")', calls'[i] = calls[i] PROVE Refusal(i)'
  BY DEF Refused, Refusal, InFlight
<1>1. InFlight(i, "tab") /\ calls[i].via \in Gen
  BY DEF InFlight, Inv, TypeOK, Call
<1> QED BY <1>1 DEF Refused, Refusal, NotGrown

(* Of some slots one is the first: no slots are fewer than those before it. *)
LEMMA FirstSlot == ASSUME NEW S \in SUBSET Slot, S # {} PROVE \E i \in S : \A j \in S : i <= j
<1> DEFINE UpTo(i) == {j \in S : j <= i}
           R == StrictSubsetOrdering(S)
           D == FiniteSubsetsOf(S)
           T == {UpTo(i) : i \in S}
<1>1. S \subseteq Nat /\ IsFiniteSet(S)
  <2>1. IsFiniteSet(Slot) /\ Slot \subseteq Nat
    BY Bounds, FS_Interval DEF Slot
  <2> QED BY <2>1, FS_Subset
<1>2. T \subseteq D /\ T # {}
  <2>1. D = SUBSET S
    BY <1>1, FS_FiniteSubsetsOfFinite
  <2>2. \A i \in S : UpTo(i) \in SUBSET S
    OBVIOUS
  <2> HIDE DEF UpTo, D
  <2> QED BY <2>1, <2>2
<1>3. \E x \in T : \A y \in T : <<y, x>> \notin R
  <2>1. IsWellFoundedOn(R, D)
    BY FS_StrictSubsetOrderingWellFounded
  <2> HIDE DEF R, D, T
  <2> QED BY <1>2, <2>1, WFMin
<1>4. PICK i \in S : \A j \in S : <<UpTo(j), UpTo(i)>> \notin R
  BY <1>3
<1>5. ASSUME NEW j \in S, j < i PROVE FALSE
  <2>1. UpTo(j) \subseteq UpTo(i) /\ i \in UpTo(i) /\ i \notin UpTo(j)
    <3>1. (\A k \in S : k <= j => k <= i) /\ i <= i /\ ~ i <= j
      BY <1>1, <1>5
    <3> QED BY <3>1, Zenon
  <2>2. <<UpTo(j), UpTo(i)>> \in R
    <3> DEFINE A == UpTo(j)
               B == UpTo(i)
    <3>1. A \in SUBSET S /\ B \in SUBSET S /\ A \subseteq B /\ A # B
      BY <2>1
    <3> HIDE DEF A, B
    <3>2. <<A, B>> \in R
      BY <3>1 DEF StrictSubsetOrdering
    <3> QED BY <3>2 DEF A, B
  <2> QED BY <1>4, <2>2
<1> QED BY <1>1, <1>4, <1>5

LEMMA SendTakesFree ==
  ASSUME NEW call, Send(call)
  PROVE  \E i \in Slot : calls[i] = NoCall /\ calls' = [calls EXCEPT ![i] = Sent(call)]
<1> DEFINE first == CHOOSE i \in Free : \A j \in Free : i <= j
<1>1. Free # {} /\ Free \subseteq Slot
  BY DEF Send, Free
<1>2. first \in Free
  BY <1>1, FirstSlot
<1> HIDE DEF first
<1> QED BY <1>1, <1>2 DEF Send, Free, first

(* A browser says more: what it answers was not answered before. *)
LEMMA MoreReplies ==
  ASSUME Inv, Replied, NotGrown, \A i \in Slot : Untouched(i),
         NEW g \in Gen, NEW v \in Seq(Message), Says(g, v),
         \A k \in DOMAIN v : IsReply(v[k]) =>
           /\ RightReply(v[k], g)'
           /\ calls[v[k].call] # NoCall => calls[v[k].call].state # "replied",
         \A k, l \in DOMAIN v : IsReply(v[k]) /\ IsReply(v[l]) => k = l
  PROVE  Replied'
<1> DEFINE u == inbox[g]
           n == Len(u)
<1>1. u \in Seq(Message) /\ n \in Nat /\ DOMAIN u = 1 .. n
  BY LenProperties DEF Inv, TypeOK
<1>2. /\ inbox'[g] = u \o v /\ \A h \in Gen : h # g => inbox'[h] = inbox[h]
      /\ DOMAIN v = 1 .. Len(v) /\ Len(v) \in Nat
  BY LenProperties DEF Says, Inv, TypeOK
<1>3. DOMAIN (u \o v) = 1 .. n + Len(v)
  BY <1>1, <1>2, ConcatProperties, LenProperties
<1>4. ASSUME NEW k \in DOMAIN (u \o v)
      PROVE  \/ k \in DOMAIN u /\ (u \o v)[k] = u[k]
             \/ k \in Nat /\ k - n \in DOMAIN v /\ (u \o v)[k] = v[k - n]
  BY <1>1, <1>2, <1>3, ConcatProperties
<1> HIDE DEF u, n
<1>5. ASSUME NEW h \in Gen, NEW k \in DOMAIN inbox'[h], NEW m, m = inbox'[h][k], IsReply(m)
      PROVE  /\ RightReply(m, h)'
             /\ \/ calls[m.call] # NoCall /\ calls[m.call].state = "replied"
                  /\ k \in DOMAIN inbox[h] /\ m = inbox[h][k]
                \/ h = g /\ k \in Nat /\ k - n \in DOMAIN v /\ m = v[k - n]
                  /\ (calls[m.call] # NoCall => calls[m.call].state # "replied")
  <2>1. CASE k \in DOMAIN inbox[h] /\ m = inbox[h][k]
    <3>1. inbox[h] \in Seq(Message)
      BY DEF Inv, TypeOK
    <3>2. m \in Message
      BY <2>1, <3>1, ElementOfSeq, LenProperties
    <3>3. m.call \in Slot
      BY <1>5, <3>2 DEF IsReply, Message
    <3> QED BY <1>5, <2>1, <3>3, ReplyIsRight DEF RightReply
  <2>2. CASE h = g /\ k \in Nat /\ k - n \in DOMAIN v /\ m = v[k - n]
    <3>1. PICK l \in DOMAIN v : l = k - n
      BY <2>2
    <3> QED BY <1>5, <2>2, <3>1
  <2>3. CASE h # g
    BY <1>2, <1>5, <2>1, <2>3
  <2>4. CASE h = g
    BY <1>2, <1>4, <1>5, <2>1, <2>2, <2>4 DEF u
  <2> QED BY <2>3, <2>4
<1>6. ASSUME NEW h \in Gen, NEW k \in DOMAIN inbox'[h], NEW l \in DOMAIN inbox'[h],
             IsReply(inbox'[h][k]), IsReply(inbox'[h][l]), inbox'[h][k].call = inbox'[h][l].call
      PROVE  k = l
  <2>1. PICK m, o : m = inbox'[h][k] /\ o = inbox'[h][l]
    OBVIOUS
  <2>2. CASE k \in DOMAIN inbox[h] /\ m = inbox[h][k] /\ l \in DOMAIN inbox[h] /\ o = inbox[h][l]
    BY <1>6, <2>1, <2>2 DEF Replied
  <2>3. CASE /\ h = g /\ k \in Nat /\ k - n \in DOMAIN v /\ m = v[k - n]
             /\ l \in Nat /\ l - n \in DOMAIN v /\ o = v[l - n]
    <3>1. k - n = l - n
      BY <1>6, <2>1, <2>3
    <3> QED BY <1>1, <2>3, <3>1
  <2> QED BY <1>5, <1>6, <2>1, <2>2, <2>3
<1>7. ASSUME NEW h \in Gen, NEW k \in DOMAIN inbox'[h], IsReply(inbox'[h][k])
      PROVE  RightReply(inbox[h][k], h)'
  <2>1. PICK m : m = inbox'[h][k]
    OBVIOUS
  <2>2. RightReply(m, h)'
    BY <1>5, <1>7, <2>1
  <2> QED BY <2>1, <2>2 DEF RightReply
<1> QED BY <1>6, <1>7 DEF Replied, IsReply

(* The daemon reads a message: if it is a reply, no other is for its call. *)
LEMMA FewerReplies ==
  ASSUME Inv, Matched, NEW g \in Gen, ReadMessage(g)
  PROVE  Replied' /\ Refused'
<1> DEFINE s == inbox[g]
           first == Head(inbox[g])
<1>1. /\ s \in Seq(Message) /\ s # << >> /\ first \in Message /\ Len(s) \in Nat
      /\ first = s[1] /\ 1 \in DOMAIN s
      /\ DOMAIN s = 1 .. Len(s)
  BY HeadTailProperties, EmptySeq, LenProperties DEF ReadMessage, Inv, TypeOK
<1>2. /\ inbox'[g] = Tail(s) /\ \A h \in Gen : h # g => inbox'[h] = inbox[h]
      /\ \A k \in DOMAIN inbox'[g] : k \in Nat /\ k + 1 \in DOMAIN s /\ inbox'[g][k] = s[k + 1]
                                       /\ k + 1 # 1
  <2>1. inbox'[g] = Tail(s) /\ \A h \in Gen : h # g => inbox'[h] = inbox[h]
    BY DEF ReadMessage, Inv, TypeOK
  <2>2. /\ Tail(s) \in Seq(Message) /\ Len(Tail(s)) = Len(s) - 1
        /\ \A k \in 1 .. Len(Tail(s)) : Tail(s)[k] = s[k + 1]
    BY <1>1, HeadTailProperties
  <2>3. DOMAIN Tail(s) = 1 .. Len(s) - 1
    BY <2>2, LenProperties
  <2> HIDE DEF s
  <2> QED BY <1>1, <2>1, <2>2, <2>3
<1>3. contexts' = contexts
  BY DEF ReadMessage
<1>4. NotGrown
  BY <1>3 DEF NotGrown
<1>7. ASSUME \A h \in Gen : \A k \in DOMAIN inbox[h] : \A o :
                o = inbox[h][k] /\ IsReply(o) /\ (h = g => k # 1) => RightReply(o, h)'
      PROVE  Replied'
  <2> DEFINE old(h, k) == IF h = g THEN k + 1 ELSE k
  <2>1. ASSUME NEW h \in Gen, NEW k \in DOMAIN inbox'[h]
        PROVE  /\ old(h, k) \in DOMAIN inbox[h] /\ inbox'[h][k] = inbox[h][old(h, k)]
               /\ h = g => old(h, k) # 1 /\ k \in Nat
    <3>1. CASE h = g
      BY <1>2, <3>1
    <3>2. CASE h # g
      BY <1>2, <3>2
    <3> QED BY <3>1, <3>2
  <2>2. ASSUME NEW h \in Gen, NEW k \in DOMAIN inbox'[h], IsReply(inbox'[h][k])
        PROVE  RightReply(inbox[h][k], h)'
    <3>1. PICK o : o = inbox'[h][k]
      OBVIOUS
    <3>2. RightReply(o, h)'
      BY <1>7, <2>1, <2>2, <3>1
    <3> QED BY <3>1, <3>2 DEF RightReply
  <2>3. ASSUME NEW h \in Gen, NEW k \in DOMAIN inbox'[h], NEW l \in DOMAIN inbox'[h],
               IsReply(inbox'[h][k]), IsReply(inbox'[h][l]), inbox'[h][k].call = inbox'[h][l].call
        PROVE  k = l
    <3>1. old(h, k) = old(h, l)
      BY <2>1, <2>3 DEF Matched, Replied
    <3> QED BY <2>1, <2>3, <3>1
  <2> QED BY <2>2, <2>3 DEF Replied, IsReply
<1>5. CASE IsReply(first)
  <2>1. PICK m : m = first /\ m = inbox[g][1]
    BY <1>1
  <2>2. m.call \in Slot /\ RightReply(m, g) /\ m.type \in {"done", "failed", "stale"}
    BY <1>1, <1>5, <2>1 DEF Matched, Replied, IsReply, Message
  <2>3. calls' = InState(m.call, m.type)
    <3>1. m.type # "targetCreated" /\ m.type # "targetDestroyed"
      BY <2>2
    <3> QED BY <2>1, <3>1 DEF ReadMessage
  <2>4. /\ calls[m.call] \in Call
        /\ calls'[m.call] = [calls[m.call] EXCEPT !.state = m.type]
        /\ \A i \in Slot : i # m.call => calls'[i] = calls[i]
    BY <2>2, <2>3 DEF RightReply, InState, Inv, TypeOK
  <2>5. /\ calls'[m.call].state = m.type /\ calls'[m.call].kind = calls[m.call].kind
        /\ calls'[m.call].via = calls[m.call].via /\ calls'[m.call].fresh = calls[m.call].fresh
        /\ calls'[m.call].context = calls[m.call].context
    BY <2>4 DEF Call
  <2>7. ASSUME NEW i \in Slot, calls'[i] # calls[i], calls'[i].kind = "tab" PROVE Refusal(i)'
    <3>1. i = m.call
      BY <2>4, <2>7
    <3> QED BY <1>3, <2>2, <2>5, <2>7, <3>1 DEF Refusal, RightReply
  <2>8. Refused'
    BY <1>4, <2>7, RefusedStays DEF Matched
  <2>9. ASSUME NEW h \in Gen, NEW k \in DOMAIN inbox[h], NEW o, o = inbox[h][k], IsReply(o),
               h = g => k # 1
        PROVE  RightReply(o, h)'
    <3>1. inbox[h] \in Seq(Message)
      BY DEF Inv, TypeOK
    <3>2. o \in Message
      BY <2>9, <3>1, ElementOfSeq, LenProperties
    <3>3. o.call \in Slot /\ RightReply(o, h)
      BY <2>9, <3>2 DEF IsReply, Message, Matched, Replied
    <3>4. o.call # m.call
      <4>1. SUFFICES ASSUME o.call = m.call PROVE FALSE
        OBVIOUS
      <4>2. h = g
        BY <2>2, <3>3, <4>1 DEF RightReply
      <4> QED BY <1>1, <1>5, <2>1, <2>9, <4>1, <4>2 DEF Matched, Replied
    <3>5. Untouched(o.call)
      BY <2>4, <3>3, <3>4 DEF Untouched
    <3> QED BY <1>4, <2>9, <3>5, ReplyIsRight DEF Matched
  <2> QED BY <1>7, <2>8, <2>9
<1>6. CASE ~ IsReply(first)
  <2>1. UNCHANGED calls
    <3> DEFINE m == Head(inbox[g])
    <3>1. m.type \notin {"done", "failed", "stale"}
      BY <1>6 DEF IsReply
    <3> HIDE DEF m
    <3> QED BY <3>1 DEF ReadMessage, m
  <2>2. Refused'
    BY <1>4, <2>1, RefusedStays DEF Matched
  <2>3. \A i : Untouched(i)
    BY <2>1 DEF Untouched
  <2>4. ASSUME NEW h \in Gen, NEW k \in DOMAIN inbox[h], NEW o, o = inbox[h][k], IsReply(o)
        PROVE  RightReply(o, h)'
    BY <1>4, <2>3, <2>4, ReplyIsRight DEF Matched
  <2> QED BY <1>7, <2>2, <2>4
<1> QED BY <1>5, <1>6

-----------------------------------------------------------------------------
(* The steps that leave the messages and the contexts alone. *)

ContextsKept ==
    /\ UNCHANGED <<inbox, contexts>>
    /\ \A g \in Gen : browser'[g] = "gone" => browser[g] = "gone"

LEMMA DaemonStep ==
  ASSUME Inv, Inv', Matched, UNCHANGED born, ContextsKept,
         \A s \in SpaceId :
           \/ spaces'[s].context \in {NoContext, spaces[s].context}
           \/ \E i \in Slot : /\ InFlight(i, "context") /\ calls[i].state = "done"
                             /\ spaces'[s].context = calls[i].context,
         \A i \in Slot :
           \/ calls'[i] = calls[i] \/ calls'[i] = NoCall
           \/ calls'[i].kind \notin {"context", "tab"}
           \/ /\ calls'[i].kind = "tab" /\ calls'[i].state \notin {"stale", "failed"}
              /\ \/ \E j \in Slot : InFlight(j, "tab") /\ calls'[i].context = calls[j].context
                 \/ \E s \in SpaceId : calls'[i].context = spaces[s].context,
         \A i \in Slot : Untouched(i)
  PROVE  Matched'
<1>1. NotGrown
  BY DEF NotGrown, ContextsKept
<1>2. \A i \in Slot : Continues(i)
  BY DEF Continues, InFlight
<1>3. \A i \in Slot : InFlight(i, "tab")' =>
           \/ \E j \in Slot : InFlight(j, "tab") /\ calls'[i].context = calls[j].context
           \/ \E s \in SpaceId : calls'[i].context = spaces[s].context
  BY DEF InFlight
<1>4. AskedOnce'
  BY <1>2, <1>3, AskedOnceStays DEF Inv, Matched
<1>5. GoneIsEmpty'
  BY DEF Matched, GoneIsEmpty, ContextsKept
<1>6. Replied'
  BY <1>1, RepliedStays DEF Matched, ContextsKept
<1>7. Refused'
  <2>1. \A i \in Slot : \/ calls'[i] = calls[i] \/ calls'[i] = NoCall
                        \/ calls'[i].state \notin {"stale", "failed"}
                        \/ calls'[i].kind = "tab" => Refusal(i)'
    OBVIOUS
  <2> QED BY <1>1, <2>1, RefusedStays DEF Matched
<1> QED BY <1>4, <1>5, <1>6, <1>7 DEF Matched

LEMMA CreateMatched ==
  ASSUME Inv, Inv', Matched, NEW c \in Clients, CreateTaskSpace(c)
  PROVE  Matched'
<1> DEFINE ctx == <<gen, NextId>>
           call == [Asking("context", c, NextId) EXCEPT !.context = ctx]
<1>0. /\ TypeOK /\ NextId \in SpaceId /\ NextId = born[gen] /\ gen \in Gen /\ ctx \in Context
      /\ Send(call) /\ ContextsKept
  BY DEF CreateTaskSpace, Inv, TypeOK, NextId, Context, ContextsKept, browsers
<1>1. /\ call \in Call /\ call.kind = "context" /\ call.context = ctx
  BY <1>0, AskingTyped DEF Call, Asking
<1>2. PICK new \in Slot : calls[new] = NoCall /\ calls' = [calls EXCEPT ![new] = Sent(call)]
  BY <1>0, SendTakesFree
<1> HIDE DEF call
<1>3. /\ calls'[new] = Sent(call) /\ calls'[new].kind = "context" /\ calls'[new].context = ctx
      /\ calls'[new].state = "sent"
      /\ \A i \in Slot : i # new => calls'[i] = calls[i]
  <2>1. Sent(call).state = "sent"
    BY <1>1 DEF Sent, Call
  <2> QED BY <1>0, <1>1, <1>2, <2>1, SentTyped DEF TypeOK
<1>4. /\ born'[gen] = NextId + 1 /\ \A g \in Gen : g # gen => born'[g] = born[g]
      /\ \A g \in Gen : born[g] \in Nat /\ born'[g] \in Nat /\ born[g] <= born'[g]
  BY <1>0, Bounds, SMTT(30) DEF CreateTaskSpace, TypeOK, SpaceId
<1>5. ~ Issued(ctx) /\ \A x : Issued(x) => Issued(x)'
  <2>1. ~ Issued(ctx)
    BY <1>0, <1>4 DEF Issued
  <2>2. ASSUME NEW x, Issued(x) PROVE Issued(x)'
    <3>1. x[1] \in Gen /\ x[2] \in Nat /\ x[2] < born[x[1]]
      BY <2>2, BornNat, <1>0 DEF Issued, NoSpace
    <3> QED BY <1>4, <2>2, <3>1 DEF Issued
  <2> QED BY <2>1, <2>2
<1>6. \A x : Made(x) => Made(x)'
  <2>1. \A i \in Slot : Pending(i)' => \/ Pending(i) /\ calls'[i].context = calls[i].context
                                       \/ ~ Issued(calls'[i].context)
    BY <1>3, <1>5 DEF Pending, InFlight
  <2> QED BY <1>0, <1>4, <2>1, MadeStays DEF Inv
<1>7. PICK own : own = ctx /\ Issued(own)'
  <2>1. PICK own : own = ctx
    OBVIOUS
  <2>2. own \in Context /\ own[1] = gen /\ own[2] = NextId /\ NextId \in Nat
    BY <1>0, <2>1, BornNat
  <2>3. Issued(own)'
    BY <1>0, <1>4, <2>2 DEF Issued, Context
  <2> QED BY <2>1, <2>3
<1>8. AskedOnce'
  <2>1. ASSUME NEW i \in Slot, InFlight(i, "context")' PROVE Issued(calls[i].context)'
    <3>1. PICK x : x = calls'[i].context
      OBVIOUS
    <3>2. Issued(x)'
      BY <1>3, <1>5, <1>7, <2>1, <3>1 DEF Matched, AskedOnce, InFlight
    <3> QED BY <3>1, <3>2 DEF Issued
  <2>2. ASSUME NEW i \in Slot, NEW j \in Slot, InFlight(i, "context")', InFlight(j, "context")',
               calls'[i].context = calls'[j].context
        PROVE  i = j
    BY <1>3, <1>5, <2>2 DEF Matched, AskedOnce, InFlight
  <2>3. ASSUME NEW s \in SpaceId PROVE Made(spaces[s].context)'
    <3>1. PICK x : x = spaces'[s].context
      OBVIOUS
    <3>2. x = spaces[s].context \/ x = NoContext
      BY <1>0, <3>1 DEF CreateTaskSpace, TypeOK, NewSpace, Absent
    <3>3. Made(x)'
      BY <1>6, <3>2, NoContextMade DEF Matched, AskedOnce
    <3> QED BY <3>1, <3>3 DEF Made, Issued
  <2>4. ASSUME NEW i \in Slot, InFlight(i, "tab")' PROVE Made(calls[i].context)'
    <3>1. PICK x : x = calls'[i].context
      OBVIOUS
    <3>2. Made(x)'
      BY <1>3, <1>6, <2>4, <3>1 DEF Matched, AskedOnce, InFlight
    <3> QED BY <3>1, <3>2 DEF Made, Issued
  <2> QED BY <2>1, <2>2, <2>3, <2>4 DEF AskedOnce
<1>9. NotGrown /\ \A i \in Slot : Untouched(i)
  BY <1>0, <1>2, <1>3 DEF NotGrown, ContextsKept, Untouched
<1>10. Replied' /\ GoneIsEmpty'
  BY <1>0, <1>9, RepliedStays DEF Matched, GoneIsEmpty, ContextsKept
<1>11. Refused'
  <2>1. \A i \in Slot : calls'[i] = calls[i] \/ calls'[i].state \notin {"stale", "failed"}
    BY <1>3
  <2> QED BY <1>9, <2>1, RefusedStays DEF Matched
<1> QED BY <1>8, <1>10, <1>11 DEF Matched

LEMMA AskingMatched ==
  ASSUME Inv, Inv', Matched, NEW call \in Call, Send(call), UNCHANGED <<born, spaces>>, ContextsKept,
         \/ call.kind \notin {"context", "tab"}
         \/ call.kind = "tab" /\ \E s \in SpaceId : call.context = spaces[s].context
  PROVE  Matched'
<1>1. PICK new \in Slot : calls[new] = NoCall /\ calls' = [calls EXCEPT ![new] = Sent(call)]
  BY SendTakesFree
<1>2. /\ calls'[new].kind = call.kind /\ calls'[new].context = call.context
      /\ calls'[new].state = "sent"
      /\ \A i \in Slot : i # new => calls'[i] = calls[i]
  <2>1. Sent(call).state = "sent"
    BY DEF Sent, Call
  <2> QED BY <1>1, <2>1, SentTyped DEF Inv, TypeOK
<1>3. \A i \in Slot : Untouched(i)
  BY <1>1, <1>2 DEF Untouched
<1>4. \A i \in Slot :
        \/ calls'[i] = calls[i]
        \/ calls'[i].kind \notin {"context", "tab"}
        \/ /\ calls'[i].kind = "tab" /\ calls'[i].state \notin {"stale", "failed"}
           /\ \E s \in SpaceId : calls'[i].context = spaces[s].context
  BY <1>2
<1> QED BY <1>3, <1>4, DaemonStep

LEMMA ClientMatched ==
  ASSUME Inv, Inv', Matched, NEW c \in Clients, ClientStep(c)
  PROVE  Matched'
<1>0. /\ TypeOK /\ \A s \in SpaceId : spaces[s] \in Space
      /\ Absent.context = NoContext
  BY DEF Inv, TypeOK, Absent
<1>1. ASSUME UNCHANGED <<born, calls>>, ContextsKept,
             \A s \in SpaceId : spaces'[s].context \in {NoContext, spaces[s].context}
      PROVE  Matched'
  BY <1>1, DaemonStep DEF Untouched
<1>2. CASE CreateTaskSpace(c)
  BY <1>2, CreateMatched
<1>3. CASE CloseTaskSpace(c)
  <2> DEFINE s == selected[c]
             call == [Asking("dispose", c, s) EXCEPT !.context = spaces[s].context]
  <2>1. ContextsKept /\ UNCHANGED born /\ s \in SpaceId
    BY <1>3 DEF CloseTaskSpace, RequireSelected, Exists, ContextsKept, browsers
  <2>2. CASE RemoveSpace(c, s) /\ UNCHANGED calls
    <3>1. \A u \in SpaceId : spaces'[u].context \in {NoContext, spaces[u].context}
      BY <1>0, <2>2, RemoveSpaceKept DEF SpaceKept
    <3> QED BY <1>1, <2>1, <2>2, <3>1
  <2>3. CASE Send(call) /\ UNCHANGED <<spaces, selected>>
    <3>1. spaces[s].context \in {NoContext} \cup Context
      BY <1>0, <2>1 DEF Space
    <3>2. Asking("dispose", c, s) \in Call /\ Asking("dispose", c, s).kind = "dispose"
      BY <1>0, <2>1, AskingTyped
    <3>3. call \in Call /\ call.kind = "dispose"
      BY <3>1, <3>2 DEF Call
    <3> HIDE DEF call, s
    <3> QED BY <2>1, <2>3, <3>3, AskingMatched
  <2> QED BY <1>3, <2>2, <2>3 DEF CloseTaskSpace
<1>4. CASE CreateTab(c)
  <2>1. PICK ctx \in {spaces[selected[c]].context}, fresh \in BOOLEAN :
          Send([Asking("tab", c, selected[c]) EXCEPT !.context = ctx, !.fresh = fresh])
    BY <1>4 DEF CreateTab
  <2>2. selected[c] \in SpaceId /\ UNCHANGED <<born, spaces>> /\ ContextsKept
    BY <1>4 DEF CreateTab, RequireSelected, Exists, ContextsKept, registry, browsers
  <2>3. ctx \in {NoContext} \cup Context
    BY <1>0, <2>2 DEF Space
  <2> DEFINE call == [Asking("tab", c, selected[c]) EXCEPT !.context = ctx, !.fresh = fresh]
  <2>4. call \in Call /\ call.kind = "tab" /\ call.context = ctx
    BY <1>0, <2>2, <2>3, AskingTyped, ZenonT(40) DEF Call, Asking
  <2>5. Send(call)
    BY <2>1
  <2> HIDE DEF call
  <2> QED BY <2>2, <2>4, <2>5, AskingMatched
<1>5. ASSUME NEW t \in Targets, CloseTab(c, t) PROVE Matched'
  <2> DEFINE call == [Asking("closeTab", c, NoSpace) EXCEPT !.target = t]
  <2>1. call \in Call /\ call.kind = "closeTab"
    BY <1>0, AskingTyped, ZenonT(40) DEF Call, Asking
  <2>2. Send(call) /\ UNCHANGED <<born, spaces>> /\ ContextsKept
    BY <1>5 DEF CloseTab, ContextsKept, registry, browsers
  <2> HIDE DEF call
  <2> QED BY <2>1, <2>2, AskingMatched
<1>6. ASSUME NEW s \in SpaceId, UseTaskSpace(c, s) PROVE Matched'
  BY <1>1, <1>6 DEF UseTaskSpace, ContextsKept, registry, browsers
<1>7. ASSUME NEW s \in SpaceId, ClaimTaskSpace(c, s) PROVE Matched'
  <2>1. UNCHANGED <<born, calls>> /\ ContextsKept
    BY <1>7 DEF ClaimTaskSpace, ContextsKept, browsers
  <2>2. \A u \in SpaceId : spaces'[u].context = spaces[u].context
    BY <1>0, <1>7 DEF ClaimTaskSpace, TypeOK, Space
  <2> QED BY <1>1, <2>1, <2>2
<1>8. ASSUME NEW from, NEW to, ChangeOwnership(c, from, to) PROVE Matched'
  <2>1. UNCHANGED <<born, calls>> /\ ContextsKept
    BY <1>8 DEF ChangeOwnership, ContextsKept, browsers
  <2>2. ASSUME NEW u \in SpaceId PROVE spaces'[u].context = spaces[u].context
    <3>1. [spaces[u] EXCEPT !.ownership = to].context = spaces[u].context
      BY <1>0 DEF Space
    <3>2. spaces'[u] = spaces[u] \/ spaces'[u] = [spaces[u] EXCEPT !.ownership = to]
      BY <1>0, <1>8 DEF ChangeOwnership, TypeOK
    <3> QED BY <3>1, <3>2
  <2> QED BY <1>1, <2>1, <2>2
<1> QED BY <1>2, <1>3, <1>4, <1>5, <1>6, <1>7, <1>8 DEF ClientStep, HandOffTaskSpace, TakeOverTaskSpace

LEMMA GoOnMatched ==
  ASSUME Inv, Inv', Matched, NEW i \in Slot, GoOn(i)
  PROVE  Matched'
<1>0. /\ TypeOK /\ calls[i] # NoCall /\ calls[i] \in Call
      /\ calls[i].state \in {"done", "failed", "stale"}
      /\ UNCHANGED born /\ ContextsKept
  BY DEF GoOn, CreateTaskSpaceGoesOn, CloseTaskSpaceGoesOn, CreateTabGoesOn, CloseTabGoesOn,
         GoesOn, Settled, ContextsKept, registry, browsers, Inv, TypeOK
<1>1. ASSUME EndCall(i),
             \A s \in SpaceId :
               \/ spaces'[s].context \in {NoContext, spaces[s].context}
               \/ InFlight(i, "context") /\ calls[i].state = "done" /\ spaces'[s].context = calls[i].context
      PROVE  Matched'
  <2>1. \A j \in Slot : calls'[j] = IF j = i THEN NoCall ELSE calls[j]
    BY <1>0, <1>1 DEF EndCall, TypeOK
  <2>2. \A j \in Slot : Untouched(j)
    BY <1>0, <2>1 DEF Untouched
  <2> QED BY <1>0, <1>1, <2>1, <2>2, DaemonStep
<1>2. CASE CreateTaskSpaceGoesOn(i)
  <2>1. EndCall(i) /\ InFlight(i, "context")
    BY <1>0, <1>2 DEF CreateTaskSpaceGoesOn, GoesOn, InFlight
  <2>2. ASSUME NEW s \in SpaceId, spaces'[s] # spaces[s]
        PROVE  calls[i].state = "done" /\ spaces'[s].context = calls[i].context
    <3>1. [spaces[s] EXCEPT !.context = calls[i].context].context = calls[i].context
      BY <1>0 DEF TypeOK, Space
    <3>2. calls[i].state = "done" /\ spaces'[s] = [spaces[s] EXCEPT !.context = calls[i].context]
      BY <1>0, <1>2, <2>2 DEF CreateTaskSpaceGoesOn, SetBrowserContext, TypeOK
    <3> QED BY <3>1, <3>2
  <2> QED BY <1>1, <2>1, <2>2
<1>3. CASE CloseTaskSpaceGoesOn(i)
  <2>1. RemoveSpace(calls[i].client, calls[i].space) /\ calls[i].client \in Clients /\ EndCall(i)
    BY <1>0, <1>3 DEF CloseTaskSpaceGoesOn, Call
  <2>2. \A s \in SpaceId : spaces'[s].context \in {NoContext, spaces[s].context}
    BY <1>0, <2>1, RemoveSpaceKept DEF SpaceKept
  <2> QED BY <1>1, <2>1, <2>2
<1>4. CASE CreateTabGoesOn(i)
  <2>0. calls[i].kind = "tab"
    BY <1>4 DEF CreateTabGoesOn, GoesOn
  <2>1. CASE EndCall(i)
    <3>1. ASSUME NEW s \in SpaceId PROVE spaces'[s].context = spaces[s].context
      <4>1. [spaces[s] EXCEPT !.current = calls[i].target].context = spaces[s].context
        BY <1>0 DEF TypeOK, Space
      <4>2. spaces' = spaces \/ spaces' = [spaces EXCEPT ![calls[i].space].current = calls[i].target]
        BY <1>4, <2>1 DEF CreateTabGoesOn, SetCurrentTarget, SpaceOf
      <4>3. spaces'[s] = spaces[s] \/ spaces'[s] = [spaces[s] EXCEPT !.current = calls[i].target]
        BY <1>0, <4>2, ZenonT(40) DEF TypeOK
      <4> QED BY <4>1, <4>3
    <3> QED BY <1>1, <2>1, <3>1
  <2>2. CASE UNCHANGED spaces /\ calls' = [calls EXCEPT ![i] = Sent([@ EXCEPT !.fresh = TRUE])]
    <3> DEFINE again == [calls[i] EXCEPT !.fresh = TRUE]
    <3>1. again \in Call /\ again.kind = "tab" /\ again.context = calls[i].context
      BY <1>0, <2>0 DEF Call
    <3>2. calls' = [calls EXCEPT ![i] = Sent(again)]
      BY <2>2
    <3>3. Sent(again).state = "sent"
      <4> HIDE DEF again
      <4> QED BY <3>1 DEF Sent, Call
    <3> HIDE DEF again
    <3>4. /\ calls'[i].kind = "tab" /\ calls'[i].context = calls[i].context
          /\ calls'[i].state = "sent"
          /\ \A j \in Slot : j # i => calls'[j] = calls[j]
      BY <1>0, <3>1, <3>2, <3>3, SentTyped DEF TypeOK
    <3>5. \A j \in Slot : Untouched(j)
      BY <1>0, <3>4 DEF Untouched
    <3>6. InFlight(i, "tab")
      BY <1>0, <2>0 DEF InFlight
    <3>7. \A j \in Slot :
            \/ calls'[j] = calls[j]
            \/ /\ calls'[j].kind = "tab" /\ calls'[j].state \notin {"stale", "failed"}
               /\ \E k \in Slot : InFlight(k, "tab") /\ calls'[j].context = calls[k].context
      BY <3>4, <3>6
    <3> QED BY <1>0, <2>2, <3>5, <3>7, DaemonStep
  <2> QED BY <1>4, <2>1, <2>2 DEF CreateTabGoesOn
<1>5. CASE CloseTabGoesOn(i)
  BY <1>1, <1>5 DEF CloseTabGoesOn, registry
<1> QED BY <1>2, <1>3, <1>4, <1>5 DEF GoOn

LEMMA ResetMatched ==
  ASSUME Inv, Inv', Matched, Reset \/ LaunchBrowser
  PROVE  Matched'
<1>1. UNCHANGED <<born, calls>> /\ ContextsKept
  BY DEF Reset, LaunchBrowser, ContextsKept, registry, Inv, TypeOK
<1>2. \A s \in SpaceId : spaces'[s].context \in {NoContext, spaces[s].context}
  BY DEF Reset, LaunchBrowser, registry, Absent
<1> QED BY <1>1, <1>2, DaemonStep DEF Untouched

LEMMA PipeSettles ==
  ASSUME TypeOK, NEW g \in Gen, PipeStep(g), NEW i \in Slot
  PROVE  \/ calls'[i] = calls[i]
         \/ \E x \in {"done", "failed", "stale"} : calls'[i] = [calls[i] EXCEPT !.state = x]
<1>1. CASE PipeClosed(g)
  BY <1>1 DEF PipeClosed, FailAll
<1>2. CASE ReadMessage(g)
  <2>1. UNCHANGED calls \/ \E j : \E x \in {"done", "failed", "stale"} : calls' = InState(j, x)
    BY <1>2 DEF ReadMessage
  <2>2. ASSUME NEW j, NEW x \in {"done", "failed", "stale"}, calls' = InState(j, x)
        PROVE  calls'[i] = calls[i] \/ calls'[i] = [calls[i] EXCEPT !.state = x]
    BY <2>2 DEF InState, TypeOK
  <2> QED BY <2>1, <2>2
<1> QED BY <1>1, <1>2 DEF PipeStep

LEMMA PipeMatched ==
  ASSUME Inv, Inv', Matched, NEW g \in Gen, PipeStep(g)
  PROVE  Matched'
<1>0. TypeOK
  BY DEF Inv
<1>1. Settles /\ UNCHANGED <<born, contexts, browser>>
  BY <1>0, StatesSettle DEF PipeStep, ReadMessage, PipeClosed, registry, browsers, State
<1>2. NotGrown /\ GoneIsEmpty'
  BY <1>1 DEF NotGrown, Matched, GoneIsEmpty
<1>3. \A i \in Slot : calls'[i] # NoCall /\ calls'[i].state = "sent" => calls[i].state = "sent"
  <2>2. SUFFICES ASSUME NEW i \in Slot, NEW x \in {"done", "failed", "stale"}, calls'[i] # NoCall,
                        calls'[i] = [calls[i] EXCEPT !.state = x]
                 PROVE  calls'[i].state # "sent"
    BY <1>0, PipeSettles
  <2>3. calls[i] \in Call
    BY <1>0, <2>2, NoCallStays DEF TypeOK
  <2>4. calls'[i].state = x
    BY <2>2, <2>3 DEF Call
  <2> QED BY <2>4
<1>4. \A i \in Slot : Continues(i)
  BY <1>1, <1>3 DEF Continues, Settles, InFlight
<1>5. \A s \in SpaceId : spaces'[s].context = spaces[s].context
  <2>1. ASSUME NEW s \in SpaceId
        PROVE  \/ spaces'[s] = spaces[s]
               \/ spaces'[s] = [spaces[s] EXCEPT !.current = NoTarget]
    <3>1. CASE PipeClosed(g)
      BY <3>1 DEF PipeClosed, registry
    <3>2. CASE ReadMessage(g)
      BY <3>2 DEF ReadMessage
    <3> QED BY <3>1, <3>2 DEF PipeStep
  <2>2. \A s \in SpaceId : [spaces[s] EXCEPT !.current = NoTarget].context = spaces[s].context
    BY <1>0 DEF TypeOK, Space
  <2> QED BY <2>1, <2>2
<1>6. AskedOnce'
  <2>1. \A i \in Slot : InFlight(i, "tab")' => InFlight(i, "tab") /\ calls'[i].context = calls[i].context
    BY <1>1 DEF Settles, InFlight
  <2> QED BY <1>1, <1>4, <1>5, <2>1, AskedOnceStays DEF Inv, Matched
<1>7. CASE ReadMessage(g)
  BY <1>2, <1>6, <1>7, FewerReplies DEF Matched
<1>8. CASE PipeClosed(g)
  <2>1. /\ calls' = FailAll(g) /\ inbox[g] = << >> /\ inbox' = inbox
        /\ browser[g] = "gone" /\ contexts'[g] = {}
    BY <1>1, <1>8 DEF PipeClosed, browsers, Matched, GoneIsEmpty
  <2>2. \A i \in Slot : Untouched(i) \/ inbox[calls[i].via] = << >>
    BY <2>1 DEF Untouched, FailAll
  <2>3. Replied'
    BY <1>2, <2>1, <2>2, RepliedStays DEF Matched
  <2>4. ASSUME NEW i \in Slot, calls'[i] # calls[i] PROVE Refusal(i)'
    <3>1. calls[i] \in Call /\ calls[i].via = g /\ calls'[i] = [calls[i] EXCEPT !.state = "failed"]
      BY <1>0, <2>1, <2>4 DEF FailAll, TypeOK
    <3>2. calls'[i].via = g /\ calls'[i].state = "failed"
      BY <3>1 DEF Call
    <3> QED BY <2>1, <3>2 DEF Refusal
  <2>5. Refused'
    BY <1>2, <2>4, RefusedStays DEF Matched
  <2> QED BY <1>2, <1>6, <2>3, <2>5 DEF Matched
<1> QED BY <1>7, <1>8 DEF PipeStep

-----------------------------------------------------------------------------
(* The browsers answer. *)

(* Of what a browser says one message is the answer. *)
AnswersOnce(v, type, i) ==
    /\ \A k, l \in DOMAIN v : IsReply(v[k]) /\ IsReply(v[l]) => k = l
    /\ \A k \in DOMAIN v : IsReply(v[k]) => v[k] = [type |-> type, call |-> i]
    /\ \E k \in DOMAIN v : IsReply(v[k])

LEMMA OneReply ==
  ASSUME NEW i \in Slot, NEW type \in {"done", "failed", "stale"},
         NEW e \in Seq(Message), \A k \in DOMAIN e : ~ IsReply(e[k]),
         NEW v, v = Reply(type, i) \/ v = e \o Reply(type, i) \/ v = Reply(type, i) \o e
  PROVE  v \in Seq(Message) /\ AnswersOnce(v, type, i)
<1> DEFINE r == Reply(type, i)
           n == Len(e)
<1>1. r \in Seq(Message) /\ Len(r) = 1 /\ DOMAIN r = 1 .. 1 /\ r[1] = [type |-> type, call |-> i]
  <2>1. r \in Seq(Message)
    BY MessagesTyped
  <2>2. r = <<[type |-> type, call |-> i]>>
    BY DEF Reply
  <2> QED BY <2>1, <2>2
<1>2. e \in Seq(Message) /\ n \in Nat /\ DOMAIN e = 1 .. n
  BY LenProperties
<1> HIDE DEF r, n
<1>0. IsReply(r[1])
  BY <1>1 DEF IsReply
<1>3. CASE v = r
  <2>1. 1 \in DOMAIN v /\ \A k \in DOMAIN v : k = 1
    BY <1>1, <1>3
  <2> QED BY <1>0, <1>1, <1>3, <2>1 DEF AnswersOnce
<1>4. CASE v = e \o r
  <2>1. v \in Seq(Message) /\ DOMAIN v = 1 .. n + 1
    <3>1. v \in Seq(Message) /\ Len(v) = n + 1
      BY <1>1, <1>2, <1>4, ConcatProperties, SMTT(30) DEF n
    <3> QED BY <3>1, LenProperties
  <2>2. ASSUME NEW k \in DOMAIN v PROVE IF k <= n THEN ~ IsReply(v[k]) ELSE k = n + 1 /\ v[k] = r[1]
    <3>1. k \in 1 .. n + 1 /\ v[k] = IF k <= n THEN e[k] ELSE r[k - n]
      BY <1>1, <1>2, <1>4, <2>1, ConcatProperties DEF n
    <3>2. k <= n => k \in DOMAIN e
      BY <1>2, <3>1
    <3>3. ~ k <= n => k = n + 1 /\ k - n = 1
      BY <1>2, <3>1
    <3> QED BY <3>1, <3>2, <3>3
  <2>3. n + 1 \in DOMAIN v /\ ~ (n + 1 <= n)
    BY <1>2, <2>1
  <2>4. \A k \in DOMAIN v : IsReply(v[k]) => k = n + 1 /\ v[k] = r[1]
    BY <2>2
  <2>5. v[n + 1] = r[1]
    BY <2>2, <2>3
  <2> HIDE DEF n
  <2> QED BY <1>0, <1>1, <2>1, <2>3, <2>4, <2>5 DEF AnswersOnce
<1>5. CASE v = r \o e
  <2>1. v \in Seq(Message) /\ DOMAIN v = 1 .. 1 + n
    <3>1. r \o e \in Seq(Message) /\ Len(r \o e) = Len(r) + Len(e)
      BY <1>1, <1>2, ConcatProperties
    <3>2. v \in Seq(Message) /\ Len(v) = 1 + n
      BY <1>1, <1>5, <3>1 DEF n
    <3> QED BY <3>2, LenProperties
  <2>2. ASSUME NEW k \in DOMAIN v PROVE IF k = 1 THEN v[k] = r[1] ELSE ~ IsReply(v[k])
    <3>1. k \in 1 .. 1 + n /\ v[k] = IF k <= 1 THEN r[k] ELSE e[k - 1]
      BY <1>1, <1>2, <1>5, <2>1, ConcatProperties DEF n
    <3>2. ~ k <= 1 => k - 1 \in DOMAIN e
      BY <1>2, <3>1
    <3>3. k <= 1 <=> k = 1
      BY <1>2, <3>1
    <3> QED BY <3>1, <3>2, <3>3
  <2>3. 1 \in DOMAIN v
    BY <1>2, <2>1
  <2>4. \A k \in DOMAIN v : IsReply(v[k]) => k = 1 /\ v[k] = r[1]
    BY <2>2
  <2>5. v[1] = r[1]
    BY <2>2, <2>3
  <2> QED BY <1>0, <1>1, <2>1, <2>3, <2>4, <2>5 DEF AnswersOnce
<1> QED BY <1>3, <1>4, <1>5 DEF r

LEMMA EventIsNoReply ==
  ASSUME NEW t \in Targets, NEW type \in {"targetCreated", "targetDestroyed"}
  PROVE  /\ Event(type, t) \in Seq(Message)
         /\ \A k \in DOMAIN Event(type, t) : ~ IsReply(Event(type, t)[k])
<1>1. Event(type, t) \in Seq(Message)
  BY MessagesTyped
<1>2. Event(type, t) = <<[type |-> type, target |-> t]>>
  BY DEF Event
<1>3. [type |-> type, target |-> t].type \notin {"done", "failed", "stale"}
  OBVIOUS
<1> QED BY <1>1, <1>2, <1>3 DEF IsReply

LEMMA AnswerReplies ==
  ASSUME Inv, NEW i \in Slot, Answer(i)
  PROVE  /\ calls[i] \in Call /\ calls[i] # NoCall /\ calls[i].state = "sent"
         /\ calls'[i] # NoCall /\ calls'[i].state = "replied" /\ calls'[i].kind = calls[i].kind
         /\ calls'[i].via = calls[i].via /\ calls'[i].context = calls[i].context
         /\ calls'[i].fresh = calls[i].fresh
         /\ \A j \in Slot : j # i => calls'[j] = calls[j]
<1>0. /\ TypeOK /\ calls[i] \in Call /\ calls[i] # NoCall /\ calls[i].state = "sent"
  BY DEF Answer, AnswerContext, AnswerDispose, AnswerTab, AnswerCloseTab, Answerable, Inv, TypeOK
<1>1. ASSUME NEW t
      PROVE  /\ [calls[i] EXCEPT !.state = "replied", !.target = t].state = "replied"
             /\ [calls[i] EXCEPT !.state = "replied", !.target = t].kind = calls[i].kind
             /\ [calls[i] EXCEPT !.state = "replied", !.target = t].via = calls[i].via
             /\ [calls[i] EXCEPT !.state = "replied", !.target = t].context = calls[i].context
             /\ [calls[i] EXCEPT !.state = "replied", !.target = t].fresh = calls[i].fresh
  BY <1>0 DEF Call
<1>2. /\ [calls[i] EXCEPT !.state = "replied"].state = "replied"
      /\ [calls[i] EXCEPT !.state = "replied"].kind = calls[i].kind
      /\ [calls[i] EXCEPT !.state = "replied"].via = calls[i].via
      /\ [calls[i] EXCEPT !.state = "replied"].context = calls[i].context
      /\ [calls[i] EXCEPT !.state = "replied"].fresh = calls[i].fresh
  BY <1>0 DEF Call
<1>3. \/ calls' = InState(i, "replied")
      \/ \E t : calls' = [calls EXCEPT ![i].state = "replied", ![i].target = t]
  BY DEF Answer, AnswerContext, AnswerDispose, AnswerTab, AnswerCloseTab
<1>4. /\ \/ calls'[i] = [calls[i] EXCEPT !.state = "replied"]
         \/ \E t : calls'[i] = [calls[i] EXCEPT !.state = "replied", !.target = t]
      /\ \A j \in Slot : j # i => calls'[j] = calls[j]
  <2>1. CASE calls' = InState(i, "replied")
    BY <1>0, <2>1 DEF InState, TypeOK
  <2>2. ASSUME NEW t, calls' = [calls EXCEPT ![i].state = "replied", ![i].target = t]
        PROVE  /\ calls'[i] = [calls[i] EXCEPT !.state = "replied", !.target = t]
               /\ \A j \in Slot : j # i => calls'[j] = calls[j]
    BY <1>0, <2>2 DEF TypeOK
  <2> QED BY <1>3, <2>1, <2>2
<1>5. /\ calls'[i].state = "replied" /\ calls'[i].kind = calls[i].kind
      /\ calls'[i].via = calls[i].via /\ calls'[i].context = calls[i].context /\ calls'[i].fresh = calls[i].fresh
  <2>1. CASE calls'[i] = [calls[i] EXCEPT !.state = "replied"]
    BY <1>2, <2>1
  <2>2. ASSUME NEW t, calls'[i] = [calls[i] EXCEPT !.state = "replied", !.target = t]
        PROVE  /\ calls'[i].state = "replied" /\ calls'[i].kind = calls[i].kind
               /\ calls'[i].via = calls[i].via /\ calls'[i].context = calls[i].context /\ calls'[i].fresh = calls[i].fresh
    BY <1>1, <2>2
  <2> QED BY <1>4, <2>1, <2>2
<1>6. calls'[i] # NoCall
  <2>1. calls[i].kind # "none" /\ NoCall.kind = "none"
    BY <1>0 DEF Call, NoCall
  <2> QED BY <1>5, <2>1
<1> QED BY <1>0, <1>4, <1>5, <1>6

LEMMA AnswerMatched ==
  ASSUME Inv, Inv', Matched, NEW i \in Slot, Answer(i)
  PROVE  Matched'
<1>0. /\ TypeOK /\ calls[i] \in Call /\ calls[i] # NoCall /\ calls[i].state = "sent"
      /\ calls[i].via \in Gen
      /\ browser[calls[i].via] # "gone" /\ UNCHANGED <<born, spaces, browser>>
  BY DEF Answer, AnswerContext, AnswerDispose, AnswerTab, AnswerCloseTab, Answerable, Running,
         Inv, TypeOK, Call, registry
<1>1. PICK g \in Gen, ctx \in {calls[i].context}, fresh \in {calls[i].fresh} :
        g = calls[i].via /\ ctx = calls[i].context /\ fresh = calls[i].fresh
  BY <1>0
<1>2. /\ calls'[i] # NoCall /\ calls'[i].state = "replied" /\ calls'[i].kind = calls[i].kind
      /\ calls'[i].via = g /\ calls'[i].context = ctx /\ calls'[i].fresh = fresh
      /\ \A j \in Slot : j # i => calls'[j] = calls[j]
  BY <1>1, AnswerReplies
<1>3. NotGrown
  <2> SUFFICES ASSUME NEW j \in Slot, InFlight(j, "tab"), NEW h \in Gen,
                      calls[j].context \in contexts'[h]
               PROVE  calls[j].context \in contexts[h]
    BY DEF NotGrown
  <2>1. CASE AnswerContext(i)
    <3>1. Pending(i) /\ Made(calls[j].context)
      BY <1>0, <2>1 DEF AnswerContext, Answerable, Pending, InFlight, Matched, AskedOnce
    <3>2. calls[j].context # calls[i].context
      BY <3>1 DEF Made
    <3> QED BY <1>0, <2>1, <3>2 DEF AnswerContext, TypeOK
  <2>2. CASE AnswerDispose(i) \/ AnswerTab(i) \/ AnswerCloseTab(i)
    BY <1>0, <2>2, ZenonT(40) DEF AnswerDispose, AnswerTab, AnswerCloseTab, TypeOK
  <2> QED BY <2>1, <2>2 DEF Answer
<1>4. AskedOnce' /\ GoneIsEmpty' /\ Refused' /\ \A j \in Slot : Untouched(j)
  <2>1. \A j \in Slot : Continues(j) /\ Untouched(j)
    BY <1>0, <1>1, <1>2 DEF Continues, Untouched, InFlight
  <2>2. \A j \in Slot : InFlight(j, "tab")' =>
                         InFlight(j, "tab") /\ calls'[j].context = calls[j].context
    BY <1>0, <1>1, <1>2 DEF InFlight
  <2>3. AskedOnce'
    BY <1>0, <2>1, <2>2, AskedOnceStays DEF Inv, Matched
  <2>4. ASSUME NEW h \in Gen, browser'[h] = "gone" PROVE contexts'[h] = {}
    <3>1. contexts[h] = {} /\ h # g
      BY <1>0, <1>1, <2>4 DEF Matched, GoneIsEmpty
    <3> QED BY <1>0, <1>1, <3>1 DEF Answer, AnswerContext, AnswerDispose, AnswerTab, AnswerCloseTab, TypeOK
  <2>5. \A j \in Slot : calls'[j] = calls[j] \/ calls'[j].state \notin {"stale", "failed"}
    BY <1>2
  <2>6. Refused'
    BY <1>3, <2>5, RefusedStays DEF Matched
  <2> QED BY <2>1, <2>3, <2>4, <2>6 DEF GoneIsEmpty
(* What it says besides the answer is of pages. *)
<1>5. ASSUME NEW type \in {"done", "failed", "stale"}, NEW v \in Seq(Message), Says(g, v),
             calls[i].kind = "tab" =>
               /\ type = "stale" => ~ fresh
               /\ type = "failed" => ctx \notin contexts'[g],
             AnswersOnce(v, type, i)
      PROVE  Matched'
  <2>1. ASSUME NEW k \in DOMAIN v, IsReply(v[k])
        PROVE  RightReply(v[k], g)' /\ calls[v[k].call].state # "replied"
    <3>1. v[k].call = i /\ v[k].type = type
      BY <1>5, <2>1 DEF AnswersOnce
    <3> QED BY <1>0, <1>2, <1>5, <3>1 DEF RightReply
  <2>2. Replied'
    <3>1. \A k, l \in DOMAIN v : IsReply(v[k]) /\ IsReply(v[l]) => k = l
      BY <1>5 DEF AnswersOnce
    <3> QED BY <1>3, <1>4, <1>5, <2>1, <3>1, MoreReplies DEF Matched
  <2> QED BY <1>4, <2>2 DEF Matched
<1>6. ASSUME NEW type \in {"done", "failed", "stale"},
             NEW e \in Seq(Message), \A k \in DOMAIN e : ~ IsReply(e[k]),
             NEW v, v = Reply(type, i) \/ v = e \o Reply(type, i) \/ v = Reply(type, i) \o e,
             Says(g, v),
             calls[i].kind = "tab" =>
               /\ type = "stale" => ~ fresh
               /\ type = "failed" => ctx \notin contexts'[g]
      PROVE  Matched'
  <2>1. v \in Seq(Message) /\ AnswersOnce(v, type, i)
    BY <1>6, OneReply
  <2> QED BY <1>5, <1>6, <2>1
<1>7. ASSUME NEW type \in {"done", "failed", "stale"}, Says(g, Reply(type, i)),
             calls[i].kind = "tab" =>
               /\ type = "stale" => ~ fresh
               /\ type = "failed" => ctx \notin contexts'[g]
      PROVE  Matched'
  <2>1. << >> \in Seq(Message) /\ DOMAIN << >> = {}
    OBVIOUS
  <2> QED BY <1>6, <1>7, <2>1
<1>8. CASE AnswerContext(i)
  BY <1>1, <1>7, <1>8 DEF AnswerContext, Answerable
<1>9. CASE AnswerDispose(i)
  <2>1. CASE Says(g, Reply("failed", i))
    BY <1>7, <1>9, <2>1 DEF AnswerDispose, Answerable
  <2>2. ASSUME NEW order \in SetToSeqs(Pages(ctx)),
               \/ Says(g, DestroyedEvents(order) \o Reply("done", i))
               \/ Says(g, Reply("done", i) \o DestroyedEvents(order))
        PROVE  Matched'
    <3>1. PICK e : e = DestroyedEvents(order)
      OBVIOUS
    <3>2. e \in Seq(Message) /\ \A k \in DOMAIN e : ~ IsReply(e[k])
      BY <3>1, DestroyedTyped DEF Pages, DestroyedEvents, IsReply
    <3> QED BY <1>6, <1>9, <2>2, <3>1, <3>2 DEF AnswerDispose, Answerable
  <2> QED BY <1>1, <1>9, <2>1, <2>2 DEF AnswerDispose
<1>10. CASE AnswerTab(i)
  <2>1. CASE Says(g, Reply("failed", i)) /\ ctx \notin contexts'[g]
    BY <1>7, <2>1
  <2>2. CASE Says(g, Reply("stale", i)) /\ ~ fresh
    BY <1>7, <2>2
  <2>3. ASSUME NEW t \in Targets, Says(g, Event("targetCreated", t) \o Reply("done", i))
        PROVE  Matched'
    <3>1. PICK e : e = Event("targetCreated", t)
      OBVIOUS
    <3>2. e \in Seq(Message) /\ \A k \in DOMAIN e : ~ IsReply(e[k])
      BY <3>1, EventIsNoReply
    <3> QED BY <1>6, <2>3, <3>1, <3>2
  <2> QED BY <1>1, <1>10, <2>1, <2>2, <2>3 DEF AnswerTab
<1>11. CASE AnswerCloseTab(i)
  <2>1. calls[i].target \in Targets /\ calls[i].kind = "closeTab"
    BY <1>0, <1>11 DEF AnswerCloseTab, Answerable, InFlight, Inv, Rest, Asked
  <2>2. CASE Says(g, Reply("failed", i))
    BY <1>7, <2>1, <2>2
  <2>3. CASE Says(g, Reply("done", i) \o Event("targetDestroyed", calls[i].target))
    <3>1. PICK e : e = Event("targetDestroyed", calls[i].target)
      OBVIOUS
    <3>2. e \in Seq(Message) /\ \A k \in DOMAIN e : ~ IsReply(e[k])
      BY <2>1, <3>1, EventIsNoReply
    <3> QED BY <1>6, <2>1, <2>3, <3>1, <3>2
  <2> QED BY <1>1, <1>11, <2>2, <2>3 DEF AnswerCloseTab
<1> QED BY <1>8, <1>9, <1>10, <1>11 DEF Answer

LEMMA CloseAndExitMatched ==
  ASSUME Inv, Inv', Matched, (\E t \in Targets : ClosePage(t)) \/ (\E g \in Gen : Exit(g))
  PROVE  Matched'
<1>1. UNCHANGED <<born, spaces, calls>>
  BY DEF ClosePage, Exit, registry
<1>2. \A i \in Slot : Untouched(i) /\ Continues(i)
  BY <1>1 DEF Untouched, Continues, InFlight
<1>3. AskedOnce'
  BY <1>1, <1>2, AskedOnceStays DEF Inv, Matched, InFlight
<1>4. ASSUME NEW t \in Targets, ClosePage(t) PROVE Matched'
  <2>1. UNCHANGED <<contexts, browser>> /\ NotGrown /\ GoneIsEmpty'
    BY <1>4 DEF ClosePage, NotGrown, Matched, GoneIsEmpty
  <2>2. PICK g \in Gen : Says(g, Event("targetDestroyed", t))
    BY <1>4 DEF ClosePage
  <2>3. PICK v \in Seq(Message) : v = Event("targetDestroyed", t)
    BY MessagesTyped
  <2>4. \A k \in DOMAIN v : ~ IsReply(v[k])
    BY <2>3, EventIsNoReply
  <2>5. Says(g, v)
    BY <2>2, <2>3
  <2>6. Replied'
    BY <1>2, <2>1, <2>4, <2>5, MoreReplies DEF Matched
  <2>7. Refused'
    BY <1>1, <2>1, RefusedStays DEF Matched
  <2> QED BY <1>3, <2>1, <2>6, <2>7 DEF Matched
<1>5. ASSUME NEW g \in Gen, Exit(g) PROVE Matched'
  <2>1. /\ UNCHANGED inbox /\ contexts' = [contexts EXCEPT ![g] = {}]
        /\ browser' = [browser EXCEPT ![g] = "gone"]
    BY <1>5 DEF Exit
  <2>2. \A h \in Gen : contexts'[h] = IF h = g THEN {} ELSE contexts[h]
    BY <2>1 DEF Inv, TypeOK
  <2>3. NotGrown /\ GoneIsEmpty'
    BY <2>1, <2>2 DEF NotGrown, Matched, GoneIsEmpty, Inv, TypeOK
  <2>4. Replied'
    BY <1>2, <2>1, <2>3, RepliedStays DEF Matched
  <2>5. Refused'
    BY <1>1, <2>3, RefusedStays DEF Matched
  <2> QED BY <1>3, <2>3, <2>4, <2>5 DEF Matched
<1> QED BY <1>4, <1>5

LEMMA InitMatched == ASSUME Init PROVE Matched
<1>1. Inv
  BY InitInv
<1>2. \A i \in Slot : \A kind : ~ InFlight(i, kind)
  BY DEF Init, InFlight
<1>3. AskedOnce
  <2>1. \A s \in SpaceId : spaces[s].context = NoContext
    BY DEF Init, Absent
  <2> QED BY <1>1, <1>2, <2>1, NoContextMade DEF AskedOnce
<1>4. GoneIsEmpty /\ Replied /\ Refused
  BY <1>2 DEF Init, GoneIsEmpty, Replied, Refused
<1> QED BY <1>3, <1>4 DEF Matched

LEMMA SpecMatched == Spec => []Matched
<1>1. ASSUME Inv, Inv', Matched, Next PROVE Matched'
  BY <1>1, ClientMatched, ResetMatched, PipeMatched, GoOnMatched, AnswerMatched, CloseAndExitMatched
     DEF Next
<1>2. ASSUME Inv, Inv', Matched, UNCHANGED vars PROVE Matched'
  <2>1. UNCHANGED <<born, spaces, calls>> /\ ContextsKept
    BY <1>2 DEF vars, registry, browsers, ContextsKept
  <2> QED BY <1>2, <2>1, DaemonStep DEF Untouched
<1> QED BY <1>1, <1>2, InitMatched, SpecInv, PTL DEF Spec

(* A tab is refused for no other reason than that its context or its browser *)
(* is gone: a window the cache remembers but the browser has not got any     *)
(* more, a reset between question and answer or an answer that comes after   *)
(* the second try costs no tab.                                              *)
THEOREM RefusedOnlyIfGone == Spec => TabRefusedOnlyIfGone
<1> DEFINE Ends(i) == /\ calls[i] # NoCall /\ calls'[i] = NoCall
                      /\ calls[i].kind = "tab" /\ calls[i].state # "done"
           Right(i) == calls[i].context \notin contexts[calls[i].via]
<1>1. ASSUME Inv, Matched, Next, NEW i \in Slot, Ends(i) PROVE Right(i)
  <2>0. TypeOK /\ calls[i] \in Call /\ \A call \in Call : Sent(call) # NoCall
    BY <1>1, SentTyped, IsCall DEF Inv, TypeOK
  <2>1. ASSUME NEW c \in Clients, ClientStep(c) PROVE FALSE
    <3>1. PICK call \in Call : Send(call)
      BY <1>1, <2>1, AsksWithCall
    <3> QED BY <1>1, <2>0, <3>1, SendTyped
  <2>2. \A x : [calls[i] EXCEPT !.state = x] # NoCall
    <3>1. \A x : [calls[i] EXCEPT !.state = x].kind = "tab" /\ NoCall.kind = "none"
      BY <1>1, <2>0 DEF Call, NoCall
    <3> QED BY <3>1
  <2>3. ASSUME NEW g \in Gen, PipeStep(g) PROVE FALSE
    BY <1>1, <2>0, <2>2, <2>3, PipeSettles
  <2>4. ASSUME NEW j \in Slot, Answer(j) PROVE FALSE
    BY <1>1, <2>4, AnswerReplies
  <2>5. ~ (Reset \/ LaunchBrowser \/ (\E g \in Gen : Exit(g)) \/ (\E t \in Targets : ClosePage(t)))
    BY <1>1 DEF Reset, LaunchBrowser, Exit, ClosePage
  <2>6. ASSUME NEW j \in Slot, GoOn(j) PROVE Right(i)
    <3>1. i = j /\ CreateTabGoesOn(i) /\ ~ MayRetry(calls[i])
      <4>1. EndCall(j) \/ CreateTabGoesOn(j)
        BY <2>6 DEF GoOn, CreateTaskSpaceGoesOn, CloseTaskSpaceGoesOn, CloseTabGoesOn
      <4>2. i = j
        BY <1>1, <2>0, <2>6, <4>1 DEF EndCall, CreateTabGoesOn, TypeOK
      <4>3. CreateTabGoesOn(i)
        BY <1>1, <2>6, <4>2 DEF GoOn, CreateTaskSpaceGoesOn, CloseTaskSpaceGoesOn, CloseTabGoesOn, GoesOn
      <4>4. ~ (MayRetry(calls[i]) /\ calls' = [calls EXCEPT ![i] = Sent([@ EXCEPT !.fresh = TRUE])])
        <5> DEFINE again == [calls[i] EXCEPT !.fresh = TRUE]
        <5>1. again \in Call
          BY <2>0 DEF Call
        <5> HIDE DEF again
        <5>2. calls' # [calls EXCEPT ![i] = Sent(again)]
          BY <1>1, <2>0, <5>1 DEF TypeOK
        <5> QED BY <5>2 DEF again
      <4> QED BY <1>1, <4>2, <4>3, <4>4 DEF CreateTabGoesOn
    <3>2. calls[i].state \in {"failed", "stale"} /\ Refusal(i)
      BY <1>1, <3>1 DEF CreateTabGoesOn, GoesOn, Settled, InFlight, Matched, Refused
    <3> QED BY <3>1, <3>2 DEF Refusal, MayRetry
  <2> QED BY <1>1, <2>1, <2>3, <2>4, <2>5, <2>6 DEF Next
<1>2. ASSUME Inv, Matched, [Next]_vars PROVE [\A i \in Slot : Ends(i) => Right(i)]_vars
  BY <1>1, <1>2
<1> QED BY <1>2, SpecInv, SpecMatched, PTL DEF Spec, TabRefusedOnlyIfGone
-----------------------------------------------------------------------------
(***************************************************************************)
(* No answer gets lost: the call of every answer the browser gave finds it *)
(* among the messages that are still to be read, through other calls,      *)
(* other answers, resets and the browser's end.  As the pipe ends only     *)
(* with everything read, a call that is waiting then was not answered, and *)
(* is rejected.                                                            *)
(***************************************************************************)

Answered(i) == calls[i] # NoCall /\ calls[i].state = "replied"
AnswerIn(box, i) == \E k \in DOMAIN box : IsReply(box[k]) /\ box[k].call = i
AnswersKept == \A i \in Slot : Answered(i) => AnswerIn(inbox[calls[i].via], i)

(* No new call is answered, and no message is read. *)
LEMMA AnswersStay ==
  ASSUME AnswersKept, UNCHANGED inbox, \A i \in Slot : Answered(i)' => calls'[i] = calls[i]
  PROVE  AnswersKept'
BY DEF AnswersKept, Answered

LEMMA SaidIsAppended ==
  ASSUME TypeOK, NEW g \in Gen, NEW v \in Seq(Message), Says(g, v), NEW i
  PROVE  /\ \A h \in Gen : AnswerIn(inbox[h], i) => AnswerIn(inbox'[h], i)
         /\ AnswerIn(v, i) => AnswerIn(inbox'[g], i)
<1> DEFINE u == inbox[g]
           n == Len(u)
<1>1. /\ u \in Seq(Message) /\ n \in Nat /\ DOMAIN u = 1 .. n
      /\ DOMAIN v = 1 .. Len(v) /\ Len(v) \in Nat
  BY LenProperties DEF TypeOK
<1>2. inbox'[g] = u \o v /\ \A h \in Gen : h # g => inbox'[h] = inbox[h]
  BY DEF Says, TypeOK
<1>3. DOMAIN (u \o v) = 1 .. n + Len(v)
  BY <1>1, ConcatProperties, LenProperties
<1>4. ASSUME NEW k \in DOMAIN u PROVE k \in DOMAIN (u \o v) /\ (u \o v)[k] = u[k]
  BY <1>1, <1>3, ConcatProperties
<1>5. ASSUME NEW k \in DOMAIN v PROVE n + k \in DOMAIN (u \o v) /\ (u \o v)[n + k] = v[k]
  BY <1>1, <1>3, ConcatProperties
<1> HIDE DEF n
<1>6. AnswerIn(u, i) => AnswerIn(u \o v, i)
  BY <1>4 DEF AnswerIn
<1>7. AnswerIn(v, i) => AnswerIn(u \o v, i)
  BY <1>5 DEF AnswerIn
<1> QED BY <1>2, <1>6, <1>7

(* What a browser says when it answers, the answer among it. *)
LEMMA AnswerSays ==
  ASSUME Inv, NEW i \in Slot, Answer(i)
  PROVE  \E v \in Seq(Message) : Says(calls[i].via, v) /\ AnswerIn(v, i)
<1>0. PICK g : g = calls[i].via
  OBVIOUS
<1> DEFINE Good == \E v \in Seq(Message) : Says(g, v) /\ AnswerIn(v, i)
<1>1. ASSUME NEW type \in {"done", "failed", "stale"},
             NEW e \in Seq(Message), \A k \in DOMAIN e : ~ IsReply(e[k]),
             NEW v, v = Reply(type, i) \/ v = e \o Reply(type, i) \/ v = Reply(type, i) \o e,
             Says(g, v)
      PROVE  Good
  <2>1. v \in Seq(Message) /\ AnswersOnce(v, type, i)
    BY <1>1, OneReply
  <2>2. AnswerIn(v, i)
    <3>1. PICK k \in DOMAIN v : IsReply(v[k]) /\ v[k] = [type |-> type, call |-> i]
      BY <2>1 DEF AnswersOnce
    <3> QED BY <3>1 DEF AnswerIn
  <2> QED BY <1>1, <2>1, <2>2
<1>2. ASSUME NEW type \in {"done", "failed", "stale"}, Says(g, Reply(type, i)) PROVE Good
  <2>1. << >> \in Seq(Message) /\ DOMAIN << >> = {}
    OBVIOUS
  <2> QED BY <1>1, <1>2, <2>1
<1> SUFFICES Good
  BY <1>0
<1> HIDE DEF Good
<1>3. CASE AnswerContext(i)
  BY <1>0, <1>2, <1>3 DEF AnswerContext
<1>4. CASE AnswerDispose(i)
  <2>1. PICK ctx : ctx = calls[i].context
    OBVIOUS
  <2>3. CASE Says(g, Reply("failed", i))
    BY <1>2, <2>3
  <2>2. ASSUME NEW order \in SetToSeqs(Pages(ctx)),
               \/ Says(g, DestroyedEvents(order) \o Reply("done", i))
               \/ Says(g, Reply("done", i) \o DestroyedEvents(order))
        PROVE  Good
    <3>1. PICK e : e = DestroyedEvents(order)
      OBVIOUS
    <3>2. e \in Seq(Message) /\ \A k \in DOMAIN e : ~ IsReply(e[k])
      BY <3>1, DestroyedTyped DEF Pages, DestroyedEvents, IsReply
    <3> QED BY <1>1, <2>2, <3>1, <3>2
  <2> QED BY <1>0, <1>4, <2>1, <2>2, <2>3 DEF AnswerDispose
<1>5. CASE AnswerTab(i)
  <2>1. ASSUME NEW t \in Targets, Says(g, Event("targetCreated", t) \o Reply("done", i))
        PROVE  Good
    <3>1. PICK e : e = Event("targetCreated", t)
      OBVIOUS
    <3>2. e \in Seq(Message) /\ \A k \in DOMAIN e : ~ IsReply(e[k])
      BY <3>1, EventIsNoReply
    <3> QED BY <1>1, <2>1, <3>1, <3>2
  <2>2. CASE Says(g, Reply("failed", i)) \/ Says(g, Reply("stale", i))
    BY <1>2, <2>2
  <2> QED BY <1>0, <1>5, <2>1, <2>2 DEF AnswerTab
<1>6. CASE AnswerCloseTab(i)
  <2>1. calls[i].target \in Targets
    BY <1>6 DEF AnswerCloseTab, Answerable, InFlight, Inv, Rest, Asked
  <2>2. CASE Says(g, Reply("done", i) \o Event("targetDestroyed", calls[i].target))
    <3>1. PICK e : e = Event("targetDestroyed", calls[i].target)
      OBVIOUS
    <3>2. e \in Seq(Message) /\ \A k \in DOMAIN e : ~ IsReply(e[k])
      BY <2>1, <3>1, EventIsNoReply
    <3> QED BY <1>1, <2>2, <3>1, <3>2
  <2>3. CASE Says(g, Reply("failed", i))
    BY <1>2, <2>3
  <2> QED BY <1>0, <1>6, <2>2, <2>3 DEF AnswerCloseTab
<1> QED BY <1>3, <1>4, <1>5, <1>6 DEF Answer

(* Of the messages one is read; if it was an answer, its call is settled. *)
LEMMA ReadKeepsAnswers ==
  ASSUME Inv, Matched, AnswersKept, NEW g \in Gen, ReadMessage(g)
  PROVE  AnswersKept'
<1> DEFINE s == inbox[g]
<1>1. /\ s \in Seq(Message) /\ s # << >> /\ Head(s) \in Message /\ Len(s) \in Nat
      /\ Head(s) = s[1] /\ DOMAIN s = 1 .. Len(s)
  BY HeadTailProperties, EmptySeq, LenProperties DEF ReadMessage, Inv, TypeOK
<1>2. /\ inbox'[g] = Tail(s) /\ \A h \in Gen : h # g => inbox'[h] = inbox[h]
      /\ DOMAIN Tail(s) = 1 .. Len(s) - 1
      /\ \A k \in 1 .. Len(s) - 1 : Tail(s)[k] = s[k + 1]
  BY <1>1, HeadTailProperties, LenProperties DEF ReadMessage, Inv, TypeOK
<1>3. PICK m : m = Head(s)
  OBVIOUS
<1>4. ASSUME NEW i \in Slot, Answered(i)'
      PROVE  Answered(i) /\ calls'[i] = calls[i] /\ (IsReply(m) => m.call # i)
  <2>1. \/ calls' = InState(m.call, m.type) /\ m.type \in {"done", "failed", "stale"}
        \/ UNCHANGED calls /\ ~ IsReply(m)
    BY <1>3 DEF ReadMessage, IsReply
  <2>2. CASE UNCHANGED calls /\ ~ IsReply(m)
    BY <1>4, <2>2 DEF Answered
  <2>3. CASE calls' = InState(m.call, m.type) /\ m.type \in {"done", "failed", "stale"}
    <3>1. calls \in [Slot -> {NoCall} \cup Call]
      BY DEF Inv, TypeOK
    <3>2. i # m.call
      <4>1. SUFFICES ASSUME i = m.call PROVE FALSE
        OBVIOUS
      <4>2. calls'[i] = [calls[i] EXCEPT !.state = m.type]
        BY <2>3, <3>1, <4>1 DEF InState
      <4>3. calls[i] \in Call
        BY <1>4, <3>1, <4>2, NoCallStays DEF Answered
      <4>4. calls'[i].state = m.type
        BY <4>2, <4>3 DEF Call
      <4> QED BY <1>4, <2>3, <4>4 DEF Answered
    <3>3. calls'[i] = calls[i]
      BY <2>3, <3>1, <3>2 DEF InState
    <3> QED BY <1>4, <3>2, <3>3 DEF Answered
  <2> QED BY <2>1, <2>2, <2>3
<1>5. ASSUME NEW i \in Slot, Answered(i)' PROVE AnswerIn(inbox'[calls'[i].via], i)
  <2>1. PICK h \in Gen : h = calls[i].via /\ h = calls'[i].via
    BY <1>4, <1>5 DEF Answered, Inv, TypeOK, Call
  <2>2. AnswerIn(inbox[h], i)
    BY <1>4, <1>5, <2>1 DEF AnswersKept
  <2>3. CASE h = g
    <3>1. PICK k \in DOMAIN s : IsReply(s[k]) /\ s[k].call = i
      BY <2>2, <2>3 DEF AnswerIn
    <3>2. k # 1
      BY <1>1, <1>3, <1>4, <1>5, <3>1
    <3>3. k - 1 \in 1 .. Len(s) - 1 /\ (k - 1) + 1 = k
      BY <1>1, <3>2
    <3>4. Tail(s)[k - 1] = s[k]
      BY <1>2, <3>3
    <3> QED BY <1>2, <2>1, <2>3, <3>1, <3>3, <3>4 DEF AnswerIn
  <2>4. CASE h # g
    BY <1>2, <2>1, <2>2, <2>4
  <2> QED BY <2>3, <2>4
<1> QED BY <1>5 DEF AnswersKept

(* The answer to a call is never lost on its way to the handler: neither by *)
(* answers read before it, nor by a reset, nor by the end of the browser.   *)
THEOREM NoAnswerLost == Spec => []AnswersKept
<1>1. Init => AnswersKept
  BY DEF Init, AnswersKept, Answered
<1>2. ASSUME Inv, Matched, AnswersKept, Next PROVE AnswersKept'
  <2>0. TypeOK /\ calls \in [Slot -> {NoCall} \cup Call] /\ \A call \in Call : Sent(call).state = "sent"
    BY <1>2, SentTyped DEF Inv, TypeOK, Sent, Call
  <2>1. ASSUME NEW c \in Clients, ClientStep(c) PROVE AnswersKept'
    <3>1. UNCHANGED inbox
      BY <2>1 DEF ClientStep, CreateTaskSpace, CloseTaskSpace, CreateTab, HandOffTaskSpace,
                  TakeOverTaskSpace, ChangeOwnership, UseTaskSpace, ClaimTaskSpace, CloseTab, browsers
    <3>2. ASSUME NEW i \in Slot, Answered(i)' PROVE calls'[i] = calls[i]
      <4>1. CASE UNCHANGED calls
        BY <4>1
      <4>2. ASSUME NEW call \in Call, Send(call) PROVE calls'[i] = calls[i]
        BY <2>0, <3>2, <4>2, SendTyped DEF Answered
      <4> QED BY <1>2, <2>1, <4>1, <4>2, AsksWithCall
    <3> QED BY <1>2, <3>1, <3>2, AnswersStay
  <2>2. CASE Reset \/ LaunchBrowser
    BY <1>2, <2>2, AnswersStay DEF Reset, LaunchBrowser
  <2>3. ASSUME NEW g \in Gen, PipeStep(g) PROVE AnswersKept'
    <3>1. CASE ReadMessage(g)
      BY <1>2, <3>1, ReadKeepsAnswers
    <3>2. CASE PipeClosed(g)
      <4>1. UNCHANGED inbox /\ calls' = FailAll(g)
        BY <3>2 DEF PipeClosed, browsers
      <4>2. ASSUME NEW i \in Slot, Answered(i)' PROVE calls'[i] = calls[i]
        <5>1. CASE calls'[i] = [calls[i] EXCEPT !.state = "failed"] /\ calls[i] # NoCall
          <6>1. calls'[i].state = "failed"
            BY <2>0, <5>1 DEF Call
          <6> QED BY <4>2, <6>1 DEF Answered
        <5> QED BY <4>1, <5>1 DEF FailAll
      <4> QED BY <1>2, <4>1, <4>2, AnswersStay
    <3> QED BY <2>3, <3>1, <3>2 DEF PipeStep
  <2>4. ASSUME NEW g \in Gen, Exit(g) PROVE AnswersKept'
    BY <1>2, <2>4, AnswersStay DEF Exit
  <2>5. ASSUME NEW j \in Slot, GoOn(j) PROVE AnswersKept'
    <3>1. UNCHANGED inbox
      BY <2>5 DEF GoOn, CreateTaskSpaceGoesOn, CloseTaskSpaceGoesOn, CreateTabGoesOn,
                  CloseTabGoesOn, browsers
    <3>2. \/ EndCall(j)
          \/ /\ GoesOn(j, "tab")
             /\ calls' = [calls EXCEPT ![j] = Sent([@ EXCEPT !.fresh = TRUE])]
      BY <2>5 DEF GoOn, CreateTaskSpaceGoesOn, CloseTaskSpaceGoesOn, CreateTabGoesOn, CloseTabGoesOn
    <3>3. ASSUME NEW i \in Slot, Answered(i)' PROVE calls'[i] = calls[i]
      <4>1. CASE EndCall(j)
        BY <2>0, <3>3, <4>1 DEF EndCall, Answered
      <4>2. CASE /\ GoesOn(j, "tab")
                 /\ calls' = [calls EXCEPT ![j] = Sent([@ EXCEPT !.fresh = TRUE])]
        <5> DEFINE again == [calls[j] EXCEPT !.fresh = TRUE]
        <5>1. calls[j] \in Call
          BY <2>0, <4>2 DEF GoesOn, Settled
        <5>2. again \in Call /\ calls' = [calls EXCEPT ![j] = Sent(again)]
          BY <4>2, <5>1 DEF Call
        <5> HIDE DEF again
        <5> QED BY <2>0, <3>3, <5>2 DEF Answered
      <4> QED BY <3>2, <4>1, <4>2
    <3> QED BY <1>2, <3>1, <3>3, AnswersStay
  <2>6. ASSUME NEW j \in Slot, Answer(j) PROVE AnswersKept'
    <3>1. PICK v \in Seq(Message) : Says(calls[j].via, v) /\ AnswerIn(v, j)
      BY <1>2, <2>6, AnswerSays
    <3>2. PICK g \in Gen : g = calls[j].via
      BY <1>2, <2>0, <2>6, AnswerReplies DEF Call
    <3>3. /\ calls'[j].via = g /\ \A i \in Slot : i # j => calls'[i] = calls[i]
      BY <1>2, <2>6, <3>2, AnswerReplies
    <3>4. Says(g, v)
      BY <3>1, <3>2
    <3>5. ASSUME NEW i \in Slot, Answered(i)' PROVE AnswerIn(inbox'[calls'[i].via], i)
      <4>1. CASE i = j
        BY <2>0, <3>1, <3>3, <3>4, <4>1, SaidIsAppended
      <4>2. CASE i # j
        <5>1. Answered(i) /\ calls'[i] = calls[i]
          BY <3>3, <3>5, <4>2 DEF Answered
        <5>2. calls[i].via \in Gen /\ AnswerIn(inbox[calls[i].via], i)
          BY <1>2, <2>0, <5>1 DEF Answered, Call, AnswersKept
        <5> QED BY <2>0, <3>4, <5>1, <5>2, SaidIsAppended
      <4> QED BY <4>1, <4>2
    <3> QED BY <3>5 DEF AnswersKept
  <2>7. ASSUME NEW t \in Targets, ClosePage(t) PROVE AnswersKept'
    <3>1. PICK g \in Gen : Says(g, Event("targetDestroyed", t))
      BY <2>7 DEF ClosePage
    <3>2. PICK v \in Seq(Message) : v = Event("targetDestroyed", t)
      BY MessagesTyped
    <3>3. Says(g, v) /\ UNCHANGED calls
      BY <2>7, <3>1, <3>2 DEF ClosePage
    <3>4. ASSUME NEW i \in Slot, Answered(i)' PROVE AnswerIn(inbox'[calls'[i].via], i)
      <4>1. Answered(i) /\ calls'[i] = calls[i]
        BY <3>3, <3>4 DEF Answered
      <4>2. calls[i].via \in Gen /\ AnswerIn(inbox[calls[i].via], i)
        BY <1>2, <2>0, <4>1 DEF Answered, Call, AnswersKept
      <4> QED BY <2>0, <3>3, <4>1, <4>2, SaidIsAppended
    <3> QED BY <3>4 DEF AnswersKept
  <2> QED BY <1>2, <2>1, <2>2, <2>3, <2>4, <2>5, <2>6, <2>7 DEF Next
<1>3. ASSUME AnswersKept, UNCHANGED vars PROVE AnswersKept'
  BY <1>3, AnswersStay DEF vars, browsers
<1> QED BY <1>1, <1>2, <1>3, SpecInv, SpecMatched, PTL DEF Spec
=============================================================================
