------------------------ MODULE HarnessRuntimeProofs -------------------------
(***************************************************************************)
(* Safety of HarnessRuntime for any commands, tabs, sessions and troubles. *)
(*                                                                         *)
(* A command takes effect once because at most one thing of it is under    *)
(* way, a request the browser has not answered or an answer the runtime    *)
(* has not read, and one that was retried had no effect (Commands).  The   *)
(* shared lookup is the same: it waits for one answer, to what it asked    *)
(* last (OneAnswer), and what it has learnt so far is right (FlightRight). *)
(*                                                                         *)
(* A switch sticks because cached session, preferred tab and lookup agree  *)
(* on the tab that was wanted while it is open (Wanted).  A dialog that is *)
(* pending but closed has the news of it on the wire, or the end of its    *)
(* session (Heard, NoGhostDialog).                                         *)
(***************************************************************************)
EXTENDS HarnessRuntime, FiniteSetTheorems, SequenceTheorems, TLAPS

Sender == Calls \cup {"flight"}
Session == 1 .. Len(attached)
Tab == Targets \cup {None}

Place == {"new", "waiting", "sent", "lost", "done", "failed"}
FlightPlace == {"idle", "listing", "listed", "attaching", "attached", "enabling", "paged", "refused"}

Call == [at : Place, session : Session \cup {None}, retried : BOOLEAN, want : Tab]
Flight == [at : FlightPlace, tabs : SUBSET Targets, active : Tab, session : Session \cup {None}]

RequestOK(r) ==
    \/ r \in [from : {"flight"}, what : {"list"}, arg : {None}, stale : BOOLEAN]
    \/ r \in [from : {"flight"}, what : {"attach"}, arg : Targets, stale : BOOLEAN]
    \/ r \in [from : {"flight"}, what : {"enable"}, arg : Session, stale : BOOLEAN]
    \/ r \in [from : Calls, what : {"command"}, arg : Session \cup {None}, stale : BOOLEAN]

Message ==
    [kind : {"answer"}, from : Sender, result : {"ok", "lost", "error"} \cup Tab,
     value : {None} \cup Nat \cup SUBSET Targets]
    \cup [kind : {"late", "sendError"}]
    \cup [kind : {"detached"}, session : Nat, target : Targets]
    \cup [kind : {"dialog"}, session : Nat, open : BOOLEAN]

News(i, s) == wire[i].kind \in {"dialog", "detached"} /\ wire[i].session = s
AnswerTo(x, i) == wire[i].kind = "answer" /\ wire[i].from = x

Typed ==
    /\ tabs \subseteq Targets /\ dialogs \subseteq tabs /\ enabled \subseteq Session
    /\ attached \in Seq(tabs \cup {None}) /\ Len(attached) <= MaxSessions
    /\ executed \in [Calls -> Nat]
    /\ calls \in [Calls -> Call]
    /\ flight \in Flight
    /\ cache \in [session : Session \cup {None}, target : Tab, recent : BOOLEAN]
    /\ preferred \in Tab /\ want \in Tab
    /\ pageEnabled \subseteq enabled /\ pendingDialogs \subseteq enabled
    /\ \A r \in requests : RequestOK(r)
    /\ wire \in Seq(Message)
    /\ \A i \in DOMAIN wire :
         /\ wire[i].kind = "dialog" => wire[i].session \in enabled
         /\ wire[i].kind = "detached" => wire[i].session \in Session

CommandOK(c) ==
    /\ \A r, q \in requests : r.from = c /\ q.from = c => r = q
    /\ \A i, j \in DOMAIN wire : AnswerTo(c, i) /\ AnswerTo(c, j) => i = j
    /\ \A r \in requests :
         r.from = c => /\ executed[c] = 0
                       /\ calls[c].at = IF r.stale THEN "failed" ELSE "sent"
                       /\ \A i \in DOMAIN wire : ~AnswerTo(c, i)
    /\ \A i \in DOMAIN wire :
         AnswerTo(c, i) => /\ calls[c].at = "sent"
                           /\ executed[c] = IF wire[i].result = "ok" THEN 1 ELSE 0
    /\ executed[c] <= 1
    /\ calls[c].at \in {"new", "waiting", "lost"} => executed[c] = 0
    /\ calls[c].at = "done" => executed[c] = 1
Commands == \A c \in Calls : CommandOK(c)

Serves(s, t) == s \in Session /\ attached[s] = IF t \in tabs THEN t ELSE None

Asked(r) == CASE flight.at = "listing" -> r.what = "list"
              [] flight.at = "attaching" -> r.what = "attach" /\ r.arg = flight.active
              [] flight.at = "enabling" -> r.what = "enable" /\ r.arg = flight.session
              [] OTHER -> FALSE
Awaited(m) == CASE flight.at = "listing" ->
                     /\ m.value \in SUBSET Targets
                     /\ m.value # {} => tabs \subseteq m.value
                     /\ m.result \in IF m.value = {} THEN {None} ELSE m.value
                [] flight.at = "attaching" -> m.result = "ok" => Serves(m.value, flight.active)
                [] flight.at = "enabling" -> m.result = "ok" => m.value \in enabled
                [] OTHER -> FALSE
InFlight(r) == r.from = "flight" /\ ~r.stale
OneAnswer ==
    /\ \A r, q \in requests : InFlight(r) /\ InFlight(q) => r = q
    /\ \A i, j \in DOMAIN wire : AnswerTo("flight", i) /\ AnswerTo("flight", j) => i = j
    /\ \A r \in requests :
         InFlight(r) => Asked(r) /\ \A i \in DOMAIN wire : ~AnswerTo("flight", i)
    /\ \A i \in DOMAIN wire : AnswerTo("flight", i) => Awaited(wire[i])
FlightRight ==
    /\ flight.at = "idle" => \A c \in Calls : calls[c].at # "waiting"
    /\ flight.at = "listed" /\ flight.tabs # {} =>
         tabs \subseteq flight.tabs /\ flight.active \in flight.tabs
    /\ flight.at \in {"attaching", "attached"} => flight.active \in Targets
    /\ flight.at = "attached" => Serves(flight.session, flight.active)
    /\ flight.at = "enabling" => flight.session \in Session
    /\ flight.at = "paged" => flight.session \in enabled \cup {None}

Wanted ==
    /\ cache.session # None => cache.target \in Targets /\ Serves(cache.session, cache.target)
    /\ want \in tabs =>
         /\ preferred = want
         /\ cache.session # None => cache.target = want
         /\ flight.at \in {"attaching", "attached"} => flight.active = want
    /\ \A c \in Calls : /\ calls[c].want \in {None, want}
                        /\ calls[c].at = "new" => calls[c].want = None

Heard ==
    \A i \in DOMAIN wire :
      wire[i].kind = "dialog" /\ wire[i].open =>
        \/ attached[wire[i].session] \in dialogs
        \/ \E j \in DOMAIN wire : j > i /\ News(j, wire[i].session)

Inv == Typed /\ Commands /\ OneAnswer /\ FlightRight /\ Wanted /\ SwitchSticks /\ Heard /\ NoGhostDialog

-----------------------------------------------------------------------------
(* Sequences. *)

LEMMA WireLength ==
  ASSUME Typed
  PROVE  Len(wire) \in Nat /\ DOMAIN wire = 1 .. Len(wire) /\ \A i \in DOMAIN wire : wire[i] \in Message
BY LenProperties, ElementOfSeq DEF Typed

LEMMA AttachedLength ==
  ASSUME Typed
  PROVE  /\ Len(attached) \in Nat /\ DOMAIN attached = Session
         /\ \A s \in Session : attached[s] \in tabs \cup {None}
BY LenProperties, ElementOfSeq DEF Typed, Session

LEMMA Lengthened ==
  ASSUME Typed, NEW m \in Message
  PROVE  /\ Append(wire, m) \in Seq(Message)
         /\ DOMAIN Append(wire, m) = 1 .. Len(wire) + 1
         /\ \A i \in DOMAIN wire : Append(wire, m)[i] = wire[i]
         /\ Append(wire, m)[Len(wire) + 1] = m
BY WireLength, AppendProperties, LenProperties DEF Typed

LEMMA Marked ==
  ASSUME NEW w \in Seq(Message), NEW froms
  PROVE  /\ LateAnswers(froms, w) \in Seq(Message)
         /\ Len(LateAnswers(froms, w)) = Len(w)
         /\ \A i \in 1 .. Len(w) :
              LateAnswers(froms, w)[i] = IF w[i].kind = "answer" /\ w[i].from \in froms THEN Late
                                         ELSE w[i]
<1> DEFINE e(i) == IF w[i].kind = "answer" /\ w[i].from \in froms THEN Late ELSE w[i]
           v == [i \in 1 .. Len(w) |-> e(i)]
<1>1. Len(w) \in Nat /\ DOMAIN w = 1 .. Len(w)
  BY LenProperties
<1>2. \A i \in 1 .. Len(w) : e(i) \in Message
  BY <1>1, ElementOfSeq DEF Late, Message
<1>3. LateAnswers(froms, w) = v
  BY <1>1 DEF LateAnswers
<1>4. v \in [1 .. Len(w) -> Message] /\ \A i \in 1 .. Len(w) : v[i] = e(i)
  BY <1>2
<1> HIDE DEF v
<1>5. v \in Seq(Message) /\ DOMAIN v = 1 .. Len(w)
  BY <1>1, <1>4, SeqDef
<1>6. Len(v) = Len(w)
  BY <1>1, <1>5, LenProperties
<1> QED BY <1>3, <1>4, <1>5, <1>6

(* What is left of the wire when k messages have been taken off it and some *)
(* answers have come to be late.                                            *)
Shortened(k) ==
    /\ k \in {0, 1} /\ wire' \in Seq(Message) /\ Len(wire') = Len(wire) - k
    /\ \A i \in 1 .. Len(wire') : \/ wire'[i] = wire[i + k]
                                  \/ wire[i + k].kind = "answer" /\ wire'[i] = Late

LEMMA Left ==
  ASSUME Typed
  PROVE  /\ UNCHANGED wire => Shortened(0)
         /\ \A froms : wire' = LateAnswers(froms, wire) => Shortened(0)
         /\ wire # <<>> /\ wire' = Tail(wire) => Shortened(1)
         /\ \A froms : wire # <<>> /\ wire' = LateAnswers(froms, Tail(wire)) => Shortened(1)
         /\ wire # <<>> => Head(wire) = wire[1] /\ 1 \in DOMAIN wire
<1>0. wire \in Seq(Message) /\ Len(wire) \in Nat /\ DOMAIN wire = 1 .. Len(wire)
  BY WireLength DEF Typed
<1>1. UNCHANGED wire => Shortened(0)
  BY <1>0 DEF Shortened
<1>2. ASSUME NEW froms, wire' = LateAnswers(froms, wire) PROVE Shortened(0)
  BY <1>0, <1>2, Marked DEF Shortened
<1>3. ASSUME wire # <<>>
      PROVE  /\ Tail(wire) \in Seq(Message) /\ Len(Tail(wire)) = Len(wire) - 1
             /\ \A i \in 1 .. Len(Tail(wire)) : Tail(wire)[i] = wire[i + 1]
  BY <1>0, <1>3, HeadTailProperties
<1>4. wire # <<>> /\ wire' = Tail(wire) => Shortened(1)
  BY <1>3 DEF Shortened
<1>5. ASSUME NEW froms, wire # <<>>, wire' = LateAnswers(froms, Tail(wire)) PROVE Shortened(1)
  <2>1. PICK w \in Seq(Message) : w = Tail(wire)
    BY <1>3, <1>5
  <2>2. /\ wire' \in Seq(Message) /\ Len(wire') = Len(w)
        /\ \A i \in 1 .. Len(w) :
             wire'[i] = IF w[i].kind = "answer" /\ w[i].from \in froms THEN Late ELSE w[i]
    <3> wire' = LateAnswers(froms, w)
      BY <1>5, <2>1
    <3> QED BY Marked
  <2>3. Len(w) = Len(wire) - 1 /\ \A i \in 1 .. Len(w) : w[i] = wire[i + 1]
    BY <1>3, <1>5, <2>1
  <2> QED BY <2>2, <2>3 DEF Shortened
<1>6. wire # <<>> => Head(wire) = wire[1] /\ 1 \in DOMAIN wire
  BY <1>0, EmptySeq
<1> QED BY <1>1, <1>2, <1>4, <1>5, <1>6

(* The members of an order are those of the set that is ordered. *)
LEMMA Ordered ==
  ASSUME NEW S, IsFiniteSet(S), NEW order \in SetToSeqs(S)
  PROVE  /\ order \in Seq(S)
         /\ \A s \in S : \E i \in DOMAIN order : order[i] = s
<1> DEFINE n == Cardinality(S)
<1>1. /\ order \in [1 .. n -> S]
      /\ \A i, j \in 1 .. n : i # j => order[i] # order[j]
  BY DEF SetToSeqs
<1>2. n \in Nat
  BY FS_CardinalityType
<1>3. ASSUME NEW s \in S, \A i \in 1 .. n : order[i] # s PROVE FALSE
  <2>1. IsFiniteSet(S \ {s}) /\ Cardinality(S \ {s}) = n - 1
    BY FS_RemoveElement
  <2>2. IsFiniteSet(1 .. n) /\ Cardinality(1 .. n) = n
    BY <1>2, FS_Interval
  <2>3. order \in [1 .. n -> S \ {s}]
    BY <1>1, <1>3
  <2> HIDE DEF n
  <2>4. Cardinality(S \ {s}) < Cardinality(1 .. n)
    BY <1>2, <2>1, <2>2
  <2>5. \E i, j \in 1 .. n : i # j /\ order[i] = order[j]
    BY <2>1, <2>2, <2>3, <2>4, FS_PigeonHole
  <2> QED BY <1>1, <2>5
<1> HIDE DEF n
<1>4. order \in Seq(S)
  BY <1>1, <1>2, SeqDef
<1> QED BY <1>1, <1>3, <1>4

-----------------------------------------------------------------------------
(* What a step leaves as it was. *)

(* The wire, with new messages after the old. *)
Longer == /\ wire' \in Seq(Message) /\ DOMAIN wire \subseteq DOMAIN wire'
          /\ \A i \in DOMAIN wire : wire'[i] = wire[i]
          /\ \A i \in DOMAIN wire' \ DOMAIN wire, j \in DOMAIN wire : i > j
New == DOMAIN wire' \ DOMAIN wire

LEMMA SameOrLonger ==
  ASSUME Typed
  PROVE  /\ UNCHANGED wire => Longer /\ New = {}
         /\ \A m \in Message : wire' = Append(wire, m) =>
              /\ Longer /\ New = {Len(wire) + 1} /\ wire'[Len(wire) + 1] = m
         /\ \A v \in Seq(Message) : wire' = wire \o v =>
              /\ Longer
              /\ \A i \in New : i - Len(wire) \in DOMAIN v /\ wire'[i] = v[i - Len(wire)]
              /\ \A i \in DOMAIN v : Len(wire) + i \in New /\ wire'[Len(wire) + i] = v[i]
<1>0. wire \in Seq(Message) /\ Len(wire) \in Nat /\ DOMAIN wire = 1 .. Len(wire)
  BY WireLength DEF Typed
<1>1. UNCHANGED wire => Longer /\ New = {}
  BY <1>0 DEF Longer, New
<1>2. ASSUME NEW m \in Message, wire' = Append(wire, m)
      PROVE  Longer /\ New = {Len(wire) + 1} /\ wire'[Len(wire) + 1] = m
  BY <1>0, <1>2, Lengthened DEF Longer, New
<1>3. ASSUME NEW v \in Seq(Message), wire' = wire \o v
      PROVE  /\ Longer
             /\ \A i \in New : i - Len(wire) \in DOMAIN v /\ wire'[i] = v[i - Len(wire)]
             /\ \A i \in DOMAIN v : Len(wire) + i \in New /\ wire'[Len(wire) + i] = v[i]
  <2>1. Len(v) \in Nat /\ DOMAIN v = 1 .. Len(v)
    BY LenProperties
  <2>2. /\ wire' \in Seq(Message) /\ Len(wire') = Len(wire) + Len(v)
        /\ \A i \in 1 .. Len(wire) + Len(v) :
             wire'[i] = IF i <= Len(wire) THEN wire[i] ELSE v[i - Len(wire)]
    BY <1>0, <1>3, ConcatProperties
  <2>3. DOMAIN wire' = 1 .. Len(wire) + Len(v)
    BY <2>2, LenProperties
  <2> QED BY <1>0, <2>1, <2>2, <2>3 DEF Longer, New
<1> QED BY <1>1, <1>2, <1>3

LEMMA CommandStays ==
  ASSUME Inv, NEW c \in Calls, NEW k, Shortened(k),
         executed'[c] = executed[c], calls'[c].at = calls[c].at,
         \A r \in requests' : r.from = c => r \in requests
  PROVE  CommandOK(c)'
<1>1. CommandOK(c) /\ k \in {0, 1}
  BY DEF Inv, Commands, Shortened
<1>2. \A i \in DOMAIN wire' : AnswerTo(c, i)' =>
        i + k \in DOMAIN wire /\ wire'[i] = wire[i + k] /\ AnswerTo(c, i + k)
  BY WireLength, LenProperties DEF Inv, Shortened, AnswerTo, Late
<1>3. DOMAIN wire' \subseteq Nat
  BY LenProperties DEF Shortened
<1> QED BY <1>1, <1>2, <1>3 DEF CommandOK

LEMMA CommandStaysAsWell ==
  ASSUME Inv, NEW c \in Calls, Longer, \A i \in New : ~AnswerTo(c, i)',
         executed'[c] = executed[c], calls'[c].at = calls[c].at,
         \A r \in requests' : r.from = c => r \in requests
  PROVE  CommandOK(c)'
<1>1. CommandOK(c)
  BY DEF Inv, Commands
<1>2. \A i \in DOMAIN wire' : AnswerTo(c, i)' =>
        i \in DOMAIN wire /\ wire'[i] = wire[i] /\ AnswerTo(c, i)
  BY DEF Longer, New, AnswerTo
<1> QED BY <1>1, <1>2 DEF CommandOK

(* What the flight asked for and what it is due to be told stays. *)
BrowserKept ==
    /\ tabs' \subseteq tabs /\ enabled \subseteq enabled' /\ Session \subseteq Session'
    /\ \A s \in Session, t \in Targets : Serves(s, t) => Serves(s, t)'

LEMMA AwaitedStays ==
  ASSUME Inv, BrowserKept, UNCHANGED flight, NEW m, Awaited(m)
  PROVE  Awaited(m)'
<1>1. flight.at = "attaching" => flight.active \in Targets
  BY DEF Inv, FlightRight
<1> QED BY <1>1 DEF Awaited, BrowserKept, Serves

LEMMA AnswerStays ==
  ASSUME Inv, BrowserKept, UNCHANGED flight, NEW k, Shortened(k),
         \A r \in requests' : InFlight(r) => r \in requests
  PROVE  OneAnswer'
<1>1. OneAnswer /\ k \in {0, 1}
  BY DEF Inv, Shortened
<1>2. \A i \in DOMAIN wire' : AnswerTo("flight", i)' =>
        /\ i + k \in DOMAIN wire /\ wire'[i] = wire[i + k] /\ AnswerTo("flight", i + k)
        /\ Awaited(wire'[i])
  BY <1>1, WireLength, LenProperties DEF Inv, Shortened, AnswerTo, Late, OneAnswer
<1>3. DOMAIN wire' \subseteq Nat
  BY LenProperties DEF Shortened
<1>4. \A i \in DOMAIN wire' : AnswerTo("flight", i)' => Awaited(wire[i])'
  BY <1>2, AwaitedStays
<1>5. \A r \in requests' : InFlight(r) => r \in requests /\ Asked(r)'
  BY <1>1 DEF OneAnswer, Asked
<1> QED BY <1>1, <1>2, <1>3, <1>4, <1>5 DEF OneAnswer, InFlight

LEMMA AnswerStaysAsWell ==
  ASSUME Inv, BrowserKept, UNCHANGED flight, Longer, \A i \in New : ~AnswerTo("flight", i)',
         \A r \in requests' : InFlight(r) => r \in requests
  PROVE  OneAnswer'
<1>1. OneAnswer
  BY DEF Inv
<1>2. \A i \in DOMAIN wire' : AnswerTo("flight", i)' =>
        /\ i \in DOMAIN wire /\ wire'[i] = wire[i] /\ AnswerTo("flight", i)
        /\ Awaited(wire'[i])
  BY <1>1 DEF Longer, New, AnswerTo, OneAnswer
<1>4. \A i \in DOMAIN wire' : AnswerTo("flight", i)' => Awaited(wire[i])'
  BY <1>2, AwaitedStays
<1>5. \A r \in requests' : InFlight(r) => r \in requests /\ Asked(r)'
  BY <1>1 DEF OneAnswer, Asked
<1> QED BY <1>1, <1>2, <1>4, <1>5 DEF OneAnswer, InFlight

(* News of a dialog goes by only when what it says is recorded. *)
LEMMA NewsGoesBy ==
  ASSUME Inv, UNCHANGED <<attached, dialogs>>, NEW k, Shortened(k),
         \A s \in pendingDialogs' :
           \/ s \in pendingDialogs /\ (k = 1 => ~News(1, s))
           \/ k = 1 /\ wire[1].kind = "dialog" /\ wire[1].open /\ wire[1].session = s
  PROVE  Heard' /\ NoGhostDialog'
<1>0. /\ k \in {0, 1} /\ DOMAIN wire = 1 .. Len(wire) /\ DOMAIN wire' = 1 .. Len(wire')
      /\ Len(wire) \in Nat /\ Len(wire') \in Nat /\ Len(wire) = Len(wire') + k
  BY WireLength, LenProperties DEF Inv, Shortened
<1>1. \A i \in DOMAIN wire' :
        i + k \in DOMAIN wire /\ (wire'[i].kind = "dialog" => wire'[i] = wire[i + k])
  BY <1>0 DEF Shortened, Late
<1>2. ASSUME NEW s, NEW j \in DOMAIN wire, News(j, s), j > k PROVE j - k \in DOMAIN wire' /\ News(j - k, s)'
  <2>1. j - k \in 1 .. Len(wire') /\ (j - k) + k = j
    BY <1>0, <1>2
  <2>2. wire'[j - k] = wire[j] \/ wire[j].kind = "answer"
    BY <2>1 DEF Shortened
  <2> QED BY <1>0, <1>2, <2>1, <2>2 DEF News
<1>3. Heard'
  <2> SUFFICES ASSUME NEW i \in DOMAIN wire', wire'[i].kind = "dialog", wire'[i].open,
                      attached[wire'[i].session] \notin dialogs
               PROVE  \E j \in DOMAIN wire' : j > i /\ News(j, wire[i].session)'
    BY DEF Heard
  <2>1. PICK j \in DOMAIN wire : j > i + k /\ News(j, wire'[i].session)
    BY <1>1 DEF Inv, Heard
  <2>2. j > k /\ j - k > i /\ i \in Nat
    BY <1>0, <2>1
  <2> QED BY <1>2, <2>1, <2>2
<1>4. NoGhostDialog'
  <2> SUFFICES ASSUME NEW s \in pendingDialogs', attached[s] \notin dialogs
               PROVE  \E j \in DOMAIN wire' : News(j, s)'
    BY DEF NoGhostDialog, News
  <2>1. \E j \in DOMAIN wire : j > k /\ News(j, s)
    <3>1. CASE s \in pendingDialogs /\ (k = 1 => ~News(1, s))
      BY <1>0, <3>1 DEF Inv, NoGhostDialog, News
    <3>2. CASE k = 1 /\ wire[1].kind = "dialog" /\ wire[1].open /\ wire[1].session = s
      <4>1. 1 \in DOMAIN wire
        BY <1>0, <3>2
      <4> QED BY <1>0, <3>2, <4>1 DEF Inv, Heard, News
    <3> QED BY <3>1, <3>2
  <2> QED BY <1>2, <2>1
<1> QED BY <1>3, <1>4

LEMMA NewsComes ==
  ASSUME Inv, Longer, UNCHANGED pendingDialogs,
         \A s \in enabled : attached[s] \in dialogs =>
           attached'[s] \in dialogs' \/ \E i \in New : News(i, s)',
         \A i \in New : wire'[i].kind = "dialog" /\ wire'[i].open =>
           attached'[wire'[i].session] \in dialogs'
  PROVE  Heard' /\ NoGhostDialog'
<1>0. \A i \in DOMAIN wire : wire[i].kind = "dialog" => wire[i].session \in enabled
  BY DEF Inv, Typed
<1>1. Heard'
  <2> SUFFICES ASSUME NEW i \in DOMAIN wire', wire'[i].kind = "dialog", wire'[i].open,
                      attached'[wire'[i].session] \notin dialogs'
               PROVE  \E j \in DOMAIN wire' : j > i /\ News(j, wire[i].session)'
    BY DEF Heard
  <2>1. i \in DOMAIN wire /\ wire'[i] = wire[i]
    BY DEF Longer, New
  <2>2. CASE attached[wire[i].session] \in dialogs
    BY <1>0, <2>1, <2>2 DEF Longer, New
  <2>3. ASSUME NEW j \in DOMAIN wire, j > i, News(j, wire[i].session)
        PROVE  j \in DOMAIN wire' /\ News(j, wire[i].session)'
    BY <2>1, <2>3 DEF Longer, News
  <2> QED BY <2>1, <2>2, <2>3 DEF Inv, Heard
<1>2. NoGhostDialog'
  <2> SUFFICES ASSUME NEW s \in pendingDialogs', attached'[s] \notin dialogs'
               PROVE  \E j \in DOMAIN wire' : News(j, s)'
    BY DEF NoGhostDialog, News
  <2>1. s \in pendingDialogs /\ s \in enabled
    BY DEF Inv, Typed
  <2>2. CASE attached[s] \in dialogs
    BY <2>1, <2>2 DEF New
  <2>3. CASE attached[s] \notin dialogs
    BY <2>1, <2>3 DEF Inv, NoGhostDialog, News, Longer
  <2> QED BY <2>2, <2>3
<1> QED BY <1>1, <1>2

-----------------------------------------------------------------------------
(* The continuations of ensureSession and of browserCdp. *)

LEMMA Facts ==
  ASSUME Inv
  PROVE  /\ calls \in [Calls -> Call] /\ flight \in Flight /\ executed \in [Calls -> Nat]
         /\ None \notin Targets /\ None \notin Nat /\ "flight" \notin Calls
         /\ Len(attached) \in Nat /\ Session \subseteq Nat
         /\ \A r \in requests : RequestOK(r)
BY HarnessAssumption, AttachedLength DEF Inv, Typed, Session

(* Who has nothing under way has no request and no answer either. *)
LEMMA NothingUnderWay ==
  ASSUME Inv
  PROVE  /\ \A c \in Calls : calls[c].at \notin {"sent", "failed"} =>
              /\ \A r \in requests : r.from # c
              /\ \A i \in DOMAIN wire : ~AnswerTo(c, i)
         /\ flight.at \notin {"listing", "attaching", "enabling"} =>
              /\ \A r \in requests : ~InFlight(r)
              /\ \A i \in DOMAIN wire : ~AnswerTo("flight", i)
BY DEF Inv, Commands, CommandOK, OneAnswer, Asked, Awaited

LEMMA Requested ==
  /\ RequestOK(Request("flight", "list", None))
  /\ \A t \in Targets : RequestOK(Request("flight", "attach", t))
  /\ \A s \in Session : RequestOK(Request("flight", "enable", s))
  /\ \A c \in Calls, s \in Session \cup {None} : RequestOK(Request(c, "command", s))
BY DEF RequestOK, Request

(* All that is under way of a call is this one request. *)
LEMMA CommandSent ==
  ASSUME NEW c \in Calls, calls'[c].at = "sent", executed'[c] = 0, NEW q, ~q.stale,
         \A r \in requests' : r.from = c => r = q, \A i \in DOMAIN wire' : ~AnswerTo(c, i)'
  PROVE  CommandOK(c)'
BY DEF CommandOK

LEMMA EnsureStep ==
  ASSUME Inv, NEW c \in Calls, NEW call \in Call, calls[c].at \in {"new", "lost"},
         call.want \in {None, want}, EnsureSession(c, call, cache'), cache' \in {cache, NoSession},
         UNCHANGED <<browser, wire, executed, preferred, want>>,
         pageEnabled' \subseteq pageEnabled, pendingDialogs' \subseteq pendingDialogs
  PROVE  Inv'
<1>0. /\ UNCHANGED <<tabs, attached, enabled, dialogs, wire, executed, preferred, want>>
      /\ Session' = Session /\ Shortened(0) /\ Typed
  BY Left DEF browser, Session, Inv
<1>1. PICK new \in Call :
        /\ calls' = [calls EXCEPT ![c] = new] /\ new.want = call.want
        /\ \/ /\ new.at = "sent" /\ new.session = cache.session /\ cache.session # None
              /\ cache' = cache /\ UNCHANGED flight
              /\ requests' = requests \cup {Request(c, "command", cache.session)}
           \/ /\ new.at = "waiting"
              /\ \/ flight.at # "idle" /\ UNCHANGED <<flight, requests>>
                 \/ /\ flight.at = "idle" /\ flight' = [Idle EXCEPT !.at = "listing"]
                    /\ requests' = requests \cup {Request("flight", "list", None)}
  <2>1. CASE cache'.session # None /\ cache'.recent
    <3>1. cache' = cache /\ cache.session \in Session
      BY <1>0, <2>1 DEF NoSession, Typed
    <3>2. Send(call, cache.session) \in Call
      BY <3>1 DEF Send, Call, Place
    <3>3. /\ Send(call, cache.session).want = call.want /\ Send(call, cache.session).at = "sent"
          /\ Send(call, cache.session).session = cache.session
      BY DEF Send, Call
    <3> QED BY <2>1, <3>1, <3>2, <3>3 DEF EnsureSession
  <2>2. CASE ~(cache'.session # None /\ cache'.recent)
    <3> DEFINE new == [call EXCEPT !.at = "waiting"]
    <3>1. new \in Call /\ new.want = call.want /\ new.at = "waiting"
      BY DEF Call, Place
    <3>2. calls' = [calls EXCEPT ![c] = new]
      BY <2>2 DEF EnsureSession
    <3>3. \/ flight.at # "idle" /\ UNCHANGED <<flight, requests>>
          \/ /\ flight.at = "idle" /\ flight' = [Idle EXCEPT !.at = "listing"]
             /\ requests' = requests \cup {Request("flight", "list", None)}
      BY <2>2 DEF EnsureSession
    <3> QED BY <3>1, <3>2, <3>3
  <2> QED BY <2>1, <2>2
<1>2. /\ calls' \in [Calls -> Call]
      /\ \A d \in Calls : calls'[d] = IF d = c THEN new ELSE calls[d]
  BY <1>1, Facts
<1>3. Typed'
  <2>1. flight' \in Flight
    BY <1>1, Facts DEF Flight, FlightPlace, Idle, Tab
  <2>2. cache' \in [session : Session \cup {None}, target : Tab, recent : BOOLEAN]
    <3> /\ cache \in [session : Session \cup {None}, target : Tab, recent : BOOLEAN]
        /\ NoSession \in [session : Session \cup {None}, target : Tab, recent : BOOLEAN]
      BY <1>0 DEF Typed, NoSession, Tab
    <3> QED OBVIOUS
  <2>3. \A r \in requests' : RequestOK(r)
    <3> cache.session \in Session \cup {None}
      BY <1>0 DEF Typed
    <3> QED BY <1>1, Facts, Requested
  <2> QED BY <1>0, <1>2, <2>1, <2>2, <2>3 DEF Typed, Call, Flight, RequestOK, Session
<1>4. Commands'
  <2> SUFFICES ASSUME NEW d \in Calls PROVE CommandOK(d)'
    BY DEF Commands
  <2>1. CASE d # c
    <3> \A r \in requests' : r.from = d => r \in requests
      BY <1>1, <2>1, Facts DEF Request
    <3> QED BY <1>0, <1>2, <2>1, CommandStays
  <2>2. CASE d = c
    <3>1. /\ \A r \in requests : r.from # c
          /\ \A i \in DOMAIN wire : ~AnswerTo(c, i)
          /\ executed[c] = 0
      BY NothingUnderWay DEF Inv, Commands, CommandOK
    <3>2. \A i \in DOMAIN wire' : ~AnswerTo(c, i)'
      BY <1>0, <3>1 DEF AnswerTo
    <3>3. \A r \in requests' : r.from = c => r = Request(c, "command", cache.session) /\ new.at = "sent"
      BY <1>1, <3>1, Facts DEF Request
    <3>4. CASE new.at = "sent"
      <4> DEFINE q == Request(c, "command", cache.session)
      <4>1. ~q.stale /\ \A r \in requests' : r.from = c => r = q
        BY <3>3 DEF Request
      <4> HIDE DEF q
      <4> QED BY <1>0, <1>2, <2>2, <3>1, <3>2, <3>4, <4>1, CommandSent
    <3>5. CASE new.at # "sent"
      BY <1>0, <1>1, <1>2, <2>2, <3>1, <3>2, <3>3, <3>5 DEF CommandOK
    <3> QED BY <3>4, <3>5
  <2> QED BY <2>1, <2>2
<1>5. OneAnswer'
  <2>1. CASE UNCHANGED flight
    <3>1. \A r \in requests' : InFlight(r) => r \in requests
      BY <1>1, <2>1, Facts DEF InFlight, Request, Idle
    <3>2. BrowserKept
      BY <1>0 DEF BrowserKept, Serves
    <3> QED BY <1>0, <2>1, <3>1, <3>2, AnswerStays
  <2>2. CASE /\ flight.at = "idle" /\ flight' = [Idle EXCEPT !.at = "listing"]
             /\ requests' = requests \cup {Request("flight", "list", None)}
    <3>1. /\ \A r \in requests : ~InFlight(r)
          /\ \A i \in DOMAIN wire' : ~AnswerTo("flight", i)'
      BY <1>0, <2>2, NothingUnderWay DEF AnswerTo
    <3>2. Asked(Request("flight", "list", None))'
      BY <2>2 DEF Asked, Request, Idle
    <3> QED BY <2>2, <3>1, <3>2 DEF OneAnswer, InFlight
  <2> QED BY <1>1, <2>1, <2>2
<1>6. FlightRight'
  BY <1>0, <1>1, <1>2 DEF Inv, FlightRight, Serves, Idle
<1>7. Wanted'
  BY <1>0, <1>1, <1>2 DEF Inv, Wanted, Serves, NoSession, Idle
<1>8. SwitchSticks'
  <2> SUFFICES ASSUME NEW d \in Calls, calls'[d].at \in {"sent", "done"}, calls'[d].session # None,
                      calls'[d].want \in tabs
               PROVE  attached[calls'[d].session] = calls'[d].want
    BY <1>0 DEF SwitchSticks
  <2>1. CASE d # c
    BY <1>2, <2>1 DEF Inv, SwitchSticks
  <2>2. CASE d = c
    <3>1. new.session = cache.session /\ cache.session # None
      BY <1>1, <1>2, <2>2
    <3>2. new.want = want
      BY <1>0, <1>1, <1>2, <2>2, Facts DEF Typed
    <3> QED BY <1>0, <1>2, <2>2, <3>1, <3>2 DEF Inv, Wanted, Serves
  <2> QED BY <2>1, <2>2
<1>9. Heard' /\ NoGhostDialog'
  BY <1>0, NewsGoesBy
<1> QED BY <1>3, <1>4, <1>5, <1>6, <1>7, <1>8, <1>9 DEF Inv

LEMMA EnableStep ==
  ASSUME Inv, NEW session \in Session \cup {None}, NEW pages,
         NEW k \in [session : Session \cup {None}, target : Tab, recent : BOOLEAN],
         k.session # None => k.target \in Targets /\ Serves(k.session, k.target),
         want \in tabs /\ k.session # None => k.target = want,
         flight.at \in {"listed", "attached", "paged"}, EnablePageEvents(session, k, pages),
         UNCHANGED <<browser, wire, executed, preferred, want, pendingDialogs>>,
         pageEnabled' \subseteq enabled
  PROVE  Inv'
<1>0. /\ UNCHANGED <<tabs, attached, enabled, dialogs, wire, executed, preferred, want>>
      /\ Session' = Session /\ Shortened(0) /\ Typed
  BY Left DEF browser, Session, Inv
<1>1. /\ \A r \in requests : ~InFlight(r)
      /\ \A i \in DOMAIN wire' : ~AnswerTo("flight", i)'
  BY <1>0, NothingUnderWay DEF AnswerTo
<1>9. Heard' /\ NoGhostDialog'
  BY <1>0, NewsGoesBy
<1>2. CASE session = None \/ session \in pages
  <2>1. /\ cache' = [k EXCEPT !.recent = TRUE] /\ flight' = Idle
        /\ calls' = [c \in Calls |-> IF c \in Waiting THEN Send(calls[c], k.session) ELSE calls[c]]
        /\ requests' = requests \cup {Request(c, "command", k.session) : c \in Waiting}
    BY <1>2 DEF EnablePageEvents
  <2>2. \A c \in Calls : Send(calls[c], k.session) \in Call
    <3> SUFFICES ASSUME NEW c \in Calls PROVE Send(calls[c], k.session) \in Call
      OBVIOUS
    <3> calls[c] \in Call /\ k.session \in Session \cup {None}
      BY Facts
    <3> QED BY DEF Send, Call, Place
  <2>3. /\ calls' \in [Calls -> Call]
        /\ \A c \in Waiting : /\ calls'[c].at = "sent" /\ calls'[c].session = k.session
                              /\ calls'[c].want = calls[c].want
        /\ \A c \in Calls \ Waiting : calls'[c] = calls[c]
    BY <2>1, <2>2, Facts DEF Waiting, Send, Call
  <2>4. /\ cache' \in [session : Session \cup {None}, target : Tab, recent : BOOLEAN]
        /\ cache'.session = k.session /\ cache'.target = k.target
    BY <2>1
  <2>5. Typed'
    <3>1. flight' \in Flight
      BY <2>1 DEF Flight, FlightPlace, Idle, Tab
    <3>2. \A r \in requests' : RequestOK(r)
      BY <2>1, Facts, Requested DEF Waiting
    <3> QED BY <1>0, <2>3, <2>4, <3>1, <3>2 DEF Typed, Call, Flight, RequestOK, Session
  <2>6. Commands'
    <3> SUFFICES ASSUME NEW c \in Calls PROVE CommandOK(c)'
      BY DEF Commands
    <3>1. CASE c \notin Waiting
      <4> \A r \in requests' : r.from = c => r \in requests
        BY <2>1, <3>1 DEF Request
      <4> QED BY <1>0, <2>3, <3>1, CommandStays
    <3>2. CASE c \in Waiting
      <4>1. /\ \A r \in requests : r.from # c
            /\ \A i \in DOMAIN wire' : ~AnswerTo(c, i)'
            /\ executed[c] = 0
        BY <1>0, <3>2, NothingUnderWay DEF Inv, Commands, CommandOK, Waiting, AnswerTo
      <4>2. \A r \in requests' : r.from = c => r = Request(c, "command", k.session)
        BY <2>1, <4>1 DEF Request
      <4> DEFINE q == Request(c, "command", k.session)
      <4>3. ~q.stale
        BY DEF Request
      <4> HIDE DEF q
      <4> QED BY <1>0, <2>3, <3>2, <4>1, <4>2, <4>3, CommandSent DEF q
    <3> QED BY <3>1, <3>2
  <2>7. OneAnswer'
    <3> \A r \in requests' : ~InFlight(r)
      BY <1>1, <2>1, Facts DEF InFlight, Request, Waiting
    <3> QED BY <1>1 DEF OneAnswer
  <2>8. FlightRight'
    BY <2>1, <2>3 DEF FlightRight, Idle, Waiting
  <2>9. Wanted'
    <3>1. \A c \in Calls : /\ calls'[c].want \in {None, want}
                           /\ calls'[c].at = "new" => calls'[c].want = None
      BY <2>3 DEF Inv, Wanted
    <3>2. /\ cache'.session # None => cache'.target \in Targets /\ Serves(cache'.session, cache'.target)
          /\ want \in tabs => preferred = want /\ (cache'.session # None => cache'.target = want)
      BY <2>4 DEF Inv, Wanted
    <3>3. flight'.at = "idle"
      BY <2>1 DEF Idle
    <3> QED BY <1>0, <3>1, <3>2, <3>3 DEF Wanted, Serves
  <2>10. SwitchSticks'
    <3> SUFFICES ASSUME NEW c \in Calls, calls'[c].at \in {"sent", "done"}, calls'[c].session # None,
                        calls'[c].want \in tabs
                 PROVE  attached[calls'[c].session] = calls'[c].want
      BY <1>0 DEF SwitchSticks
    <3>1. CASE c \notin Waiting
      BY <2>3, <3>1 DEF Inv, SwitchSticks
    <3>2. CASE c \in Waiting
      <4>1. calls'[c].want = want
        <5>1. calls[c].want \in {None, want} /\ calls'[c].want = calls[c].want
          BY <2>3, <3>2 DEF Inv, Wanted
        <5>2. calls'[c].want # None
          BY <1>0, Facts DEF Typed
        <5> QED BY <5>1, <5>2
      <4> QED BY <2>3, <3>2, <4>1 DEF Serves
    <3> QED BY <3>1, <3>2
  <2> QED BY <1>9, <2>5, <2>6, <2>7, <2>8, <2>9, <2>10 DEF Inv
<1>3. CASE ~(session = None \/ session \in pages)
  <2>1. /\ cache' = k /\ flight' = [Idle EXCEPT !.at = "enabling", !.session = session]
        /\ requests' = requests \cup {Request("flight", "enable", session)}
        /\ UNCHANGED calls /\ session \in Session
    BY <1>3 DEF EnablePageEvents
  <2>2. flight' \in Flight /\ flight'.at = "enabling" /\ flight'.session = session
    BY <2>1 DEF Flight, FlightPlace, Idle, Tab
  <2>3. Typed'
    <3> \A r \in requests' : RequestOK(r)
      BY <2>1, Facts, Requested
    <3> QED BY <1>0, <2>1, <2>2 DEF Typed, Call, Flight, RequestOK, Session
  <2>4. Commands'
    <3> \A c \in Calls, r \in requests' : r.from = c => r \in requests
      BY <2>1, Facts DEF Request
    <3> QED BY <1>0, <2>1, CommandStays DEF Commands
  <2>5. OneAnswer'
    <3> Asked(Request("flight", "enable", session))'
      BY <2>2 DEF Asked, Request
    <3> QED BY <1>1, <2>1 DEF OneAnswer, InFlight
  <2>6. FlightRight' /\ Wanted' /\ SwitchSticks'
    BY <1>0, <2>1, <2>2 DEF Inv, FlightRight, Wanted, SwitchSticks, Serves
  <2> QED BY <1>9, <2>3, <2>4, <2>5, <2>6 DEF Inv
<1> QED BY <1>2, <1>3

LEMMA FailStep ==
  ASSUME Inv, flight.at \in {"listed", "refused"}, FlightFails,
         UNCHANGED <<browser, requests, wire, executed, cache, preferred, page, want>>
  PROVE  Inv'
<1>0. /\ UNCHANGED <<tabs, attached, enabled, dialogs, requests, wire, executed, cache, preferred,
                     pageEnabled, pendingDialogs, want>>
      /\ Session' = Session /\ Shortened(0) /\ Typed
  BY Left DEF browser, page, Session, Inv
<1>1. /\ flight' = Idle /\ calls' \in [Calls -> Call]
      /\ \A c \in Waiting : calls'[c].at = "failed" /\ calls'[c].want = calls[c].want
      /\ \A c \in Calls \ Waiting : calls'[c] = calls[c]
  BY Facts DEF FlightFails, Waiting, Call, Place
<1>2. Typed'
  <2> flight' \in Flight
    BY <1>1 DEF Flight, FlightPlace, Idle, Tab
  <2> QED BY <1>0, <1>1 DEF Typed, Call, Flight, RequestOK, Session
<1>3. Commands'
  <2> SUFFICES ASSUME NEW c \in Calls PROVE CommandOK(c)'
    BY DEF Commands
  <2>1. CASE c \notin Waiting
    BY <1>0, <1>1, <2>1, CommandStays
  <2>2. CASE c \in Waiting
    <3>1. /\ \A r \in requests : r.from # c
          /\ \A i \in DOMAIN wire' : ~AnswerTo(c, i)'
          /\ executed[c] = 0
      BY <1>0, <2>2, NothingUnderWay DEF Inv, Commands, CommandOK, Waiting, AnswerTo
    <3> QED BY <1>0, <1>1, <2>2, <3>1 DEF CommandOK
  <2> QED BY <2>1, <2>2
<1>4. OneAnswer'
  BY <1>0, NothingUnderWay DEF OneAnswer, AnswerTo, InFlight
<1>5. FlightRight'
  BY <1>0, <1>1 DEF FlightRight, Idle, Waiting
<1>6. Wanted'
  <2> \A c \in Calls : calls'[c].want = calls[c].want
    BY <1>1
  <2> QED BY <1>0, <1>1 DEF Inv, Wanted, Serves, Idle
<1>7. SwitchSticks'
  BY <1>0, <1>1 DEF Inv, SwitchSticks, Waiting
<1> QED BY <1>0, <1>2, <1>3, <1>4, <1>5, <1>6, <1>7, NewsGoesBy DEF Inv

LEMMA ContinueStep == ASSUME Inv, Continue PROVE Inv'
<1>0. /\ Typed /\ cache \in [session : Session \cup {None}, target : Tab, recent : BOOLEAN]
      /\ pageEnabled \subseteq enabled
  BY DEF Inv, Typed
<1>1. ASSUME NEW c \in Calls, Retry(c) PROVE Inv'
  <2> DEFINE call == [calls[c] EXCEPT !.retried = TRUE]
  <2>1. call \in Call /\ call.want = calls[c].want
    BY Facts DEF Call
  <2>2. calls[c].want \in {None, want}
    BY DEF Inv, Wanted
  <2>3. calls[c].at = "lost" /\ cache' = NoSession /\ EnsureSession(c, call, cache')
    BY <1>1 DEF Retry, InvalidateSession
  <2>4. pageEnabled' \subseteq pageEnabled /\ pendingDialogs' \subseteq pendingDialogs
    BY <1>1 DEF Retry, InvalidateSession, Invalidated
  <2>5. UNCHANGED <<browser, wire, executed, preferred, want>>
    BY <1>1 DEF Retry
  <2> HIDE DEF call
  <2> QED BY <2>1, <2>2, <2>3, <2>4, <2>5, EnsureStep
<1>2. CASE FlightListed
  <2>1. /\ UNCHANGED <<browser, wire, executed, preferred, page, want>>
        /\ UNCHANGED <<pageEnabled, pendingDialogs>> /\ flight.at = "listed"
    BY <1>2 DEF FlightListed, page
  <2>2. CASE flight.tabs = {}
    BY <1>2, <2>1, <2>2, FailStep DEF FlightListed
  <2>3. CASE flight.tabs # {} /\ (Picked # cache.target \/ cache.session = None)
    <3>1. tabs \subseteq flight.tabs /\ flight.active \in flight.tabs /\ flight.tabs \subseteq Targets
      BY <2>1, <2>3, Facts DEF Inv, FlightRight, Flight
    <3>2. PICK t \in Targets : t = Picked /\ (want \in tabs => t = want)
      BY <3>1 DEF Picked, Inv, Wanted
    <3>3. /\ flight' = [Idle EXCEPT !.at = "attaching", !.active = t]
          /\ requests' = requests \cup {Request("flight", "attach", t)}
          /\ UNCHANGED <<cache, calls>>
      BY <1>2, <2>3, <3>2 DEF FlightListed
    <3>4. /\ UNCHANGED <<tabs, attached, enabled, dialogs, wire, executed, preferred, want>>
          /\ Session' = Session /\ Shortened(0)
      BY <1>0, <2>1, Left DEF browser, Session
    <3>5. flight' \in Flight /\ flight'.at = "attaching" /\ flight'.active = t
      BY <3>3, <3>2 DEF Flight, FlightPlace, Idle, Tab
    <3>6. Typed'
      <4> \A r \in requests' : RequestOK(r)
        BY <3>3, <3>2, Facts, Requested
      <4> QED BY <1>0, <2>1, <3>3, <3>4, <3>5 DEF Typed, Call, Flight, RequestOK, Session
    <3>7. Commands'
      <4> \A c \in Calls, r \in requests' : r.from = c => r \in requests
        BY <3>3, Facts DEF Request
      <4> QED BY <3>3, <3>4, CommandStays DEF Commands
    <3>8. OneAnswer'
      <4>1. Asked(Request("flight", "attach", t))'
        BY <3>5 DEF Asked, Request
      <4>2. /\ \A r \in requests : ~InFlight(r)
            /\ \A i \in DOMAIN wire' : ~AnswerTo("flight", i)'
        BY <2>1, <3>4, NothingUnderWay DEF AnswerTo
      <4>3. \A r \in requests' : InFlight(r) => r = Request("flight", "attach", t)
        BY <3>3, <4>2
      <4> QED BY <4>1, <4>2, <4>3 DEF OneAnswer
    <3>9. FlightRight' /\ Wanted' /\ SwitchSticks'
      BY <3>3, <3>2, <3>4, <3>5 DEF Inv, FlightRight, Wanted, SwitchSticks, Serves
    <3> QED BY <2>1, <3>4, <3>6, <3>7, <3>8, <3>9, NewsGoesBy DEF Inv
  <2>4. CASE flight.tabs # {} /\ ~(Picked # cache.target \/ cache.session = None)
    <3>1. EnablePageEvents(cache.session, cache, pageEnabled) /\ cache.session \in Session \cup {None}
      BY <1>0, <1>2, <2>4 DEF FlightListed
    <3>2. /\ cache.session # None => cache.target \in Targets /\ Serves(cache.session, cache.target)
          /\ want \in tabs /\ cache.session # None => cache.target = want
      BY DEF Inv, Wanted
    <3> QED BY <1>0, <2>1, <3>1, <3>2, EnableStep
  <2> QED BY <2>2, <2>3, <2>4
<1>3. CASE FlightAttached
  <2> DEFINE k == [cache EXCEPT !.session = flight.session, !.target = flight.active]
  <2>1. /\ UNCHANGED <<browser, wire, executed, preferred, page, want>>
        /\ UNCHANGED <<pageEnabled, pendingDialogs>> /\ flight.at = "attached"
        /\ EnablePageEvents(flight.session, k, pageEnabled)
    BY <1>3 DEF FlightAttached, page
  <2>2. /\ flight.active \in Targets /\ Serves(flight.session, flight.active)
        /\ flight.session \in Session /\ (want \in tabs => flight.active = want)
    BY <2>1 DEF Inv, FlightRight, Wanted, Serves
  <2>3. /\ k \in [session : Session \cup {None}, target : Tab, recent : BOOLEAN]
        /\ k.session = flight.session /\ k.target = flight.active
    BY <1>0, <2>2 DEF Tab
  <2> HIDE DEF k
  <2> QED BY <1>0, <2>1, <2>2, <2>3, EnableStep
<1>4. CASE FlightRefused
  BY <1>4, FailStep DEF FlightRefused
<1>5. CASE FlightPaged
  <2>1. /\ UNCHANGED <<browser, wire, executed, preferred, pendingDialogs, want>>
        /\ flight.at = "paged" /\ pageEnabled' = pageEnabled \cup ({flight.session} \ {None})
        /\ EnablePageEvents(None, cache, {})
    BY <1>5 DEF FlightPaged
  <2>2. pageEnabled' \subseteq enabled
    BY <1>0, <2>1 DEF Inv, FlightRight
  <2>3. /\ cache.session # None => cache.target \in Targets /\ Serves(cache.session, cache.target)
        /\ want \in tabs /\ cache.session # None => cache.target = want
    BY DEF Inv, Wanted
  <2> QED BY <1>0, <2>1, <2>2, <2>3, EnableStep
<1> QED BY <1>1, <1>2, <1>3, <1>4, <1>5 DEF Continue

LEMMA BrowserCdpStep == ASSUME Inv, NEW c \in Calls, BrowserCdp(c) PROVE Inv'
<1> DEFINE call == [calls[c] EXCEPT !.want = want]
<1>1. call \in Call /\ call.want = want
  BY Facts, ZenonT(40) DEF Call, Inv, Typed
<1>2. /\ calls[c].at = "new" /\ cache' = cache /\ EnsureSession(c, call, cache')
      /\ UNCHANGED <<browser, wire, executed, preferred, want>>
      /\ UNCHANGED <<pageEnabled, pendingDialogs>>
  BY DEF BrowserCdp, page
<1> HIDE DEF call
<1> QED BY <1>1, <1>2, EnsureStep

-----------------------------------------------------------------------------
(* The script switches tabs, and the cached session grows old. *)

LEMMA InvalidateStep ==
  ASSUME Inv, InvalidateSession, calls' = Forgotten, preferred' \in Tab,
         want' \in {None, preferred'}, want' # None => flight.at = "idle",
         UNCHANGED <<browser, requests, wire, executed, flight>>
  PROVE  Inv'
<1>0. /\ UNCHANGED <<tabs, attached, enabled, dialogs, requests, wire, executed, flight>>
      /\ Session' = Session /\ Shortened(0) /\ Typed
  BY Left DEF browser, Session, Inv
<1>1. /\ cache' = NoSession /\ pageEnabled' \subseteq pageEnabled /\ pendingDialogs' \subseteq pendingDialogs
  BY DEF InvalidateSession, Invalidated
<1>2. /\ calls' \in [Calls -> Call]
      /\ \A c \in Calls : /\ calls'[c].at = calls[c].at /\ calls'[c].session = calls[c].session
                          /\ calls'[c].want \in {None, calls[c].want}
                          /\ calls[c].at # "new" => calls'[c].want = None
  BY Facts DEF Forgotten, Call, Tab
<1>3. Typed'
  <2> cache' \in [session : Session \cup {None}, target : Tab, recent : BOOLEAN]
    BY <1>1 DEF NoSession, Tab
  <2> want' \in Tab
    BY DEF Tab
  <2> QED BY <1>0, <1>1, <1>2 DEF Typed, Call, Flight, RequestOK, Session
<1>4. Commands'
  BY <1>0, <1>2, CommandStays DEF Commands
<1>5. OneAnswer'
  <2> BrowserKept
    BY <1>0 DEF BrowserKept, Serves
  <2> QED BY <1>0, AnswerStays
<1>6. FlightRight' /\ SwitchSticks'
  BY <1>0, <1>2, Facts DEF Inv, Typed, FlightRight, SwitchSticks, Serves
<1>7. Wanted'
  BY <1>0, <1>1, <1>2, Facts DEF Inv, Typed, Wanted, NoSession
<1> QED BY <1>0, <1>1, <1>3, <1>4, <1>5, <1>6, <1>7, NewsGoesBy DEF Inv

LEMMA ExpireStep == ASSUME Inv, Expire PROVE Inv'
<1>0. /\ UNCHANGED <<tabs, attached, enabled, dialogs, requests, wire, executed, calls, flight,
                     preferred, pageEnabled, pendingDialogs, want>>
      /\ Session' = Session /\ Shortened(0) /\ Typed
  BY Left DEF Expire, browser, page, Session, Inv
<1>1. /\ cache' \in [session : Session \cup {None}, target : Tab, recent : BOOLEAN]
      /\ cache'.session = cache.session /\ cache'.target = cache.target
  BY <1>0 DEF Expire, Typed
<1>2. Typed'
  BY <1>0, <1>1 DEF Typed, Call, Flight, RequestOK, Session
<1>3. Commands'
  BY <1>0, CommandStays DEF Commands
<1>4. OneAnswer'
  <2> BrowserKept
    BY <1>0 DEF BrowserKept, Serves
  <2> QED BY <1>0, AnswerStays
<1>5. FlightRight' /\ SwitchSticks'
  BY <1>0 DEF Inv, FlightRight, SwitchSticks, Serves
<1>6. Wanted'
  BY <1>0, <1>1 DEF Inv, Wanted, Serves
<1> QED BY <1>0, <1>2, <1>3, <1>4, <1>5, <1>6, NewsGoesBy DEF Inv

-----------------------------------------------------------------------------
(* Timers, and messages that come. *)

LEMMA WireStaysTyped ==
  ASSUME Inv, UNCHANGED <<attached, enabled>>, NEW k, Shortened(k)
  PROVE  /\ wire' \in Seq(Message)
         /\ \A i \in DOMAIN wire' :
              /\ wire'[i].kind = "dialog" => wire'[i].session \in enabled
              /\ wire'[i].kind = "detached" => wire'[i].session \in Session
<1> SUFFICES ASSUME NEW i \in DOMAIN wire'
             PROVE  /\ wire'[i].kind = "dialog" => wire'[i].session \in enabled
                    /\ wire'[i].kind = "detached" => wire'[i].session \in Session
  BY DEF Shortened
<1>1. /\ k \in {0, 1} /\ i \in 1 .. Len(wire') /\ Len(wire) \in Nat /\ Len(wire') = Len(wire) - k
      /\ DOMAIN wire = 1 .. Len(wire)
  BY WireLength, LenProperties DEF Inv, Shortened
<1>2. i + k \in DOMAIN wire
  BY <1>1
<1>3. wire'[i] = wire[i + k] \/ wire'[i].kind = "late"
  BY <1>1 DEF Shortened, Late
<1> QED BY <1>2, <1>3 DEF Inv, Typed

LEMMA NoneInTime ==
  ASSUME NEW w \in Seq(Message), NEW froms, wire' = LateAnswers(froms, w), NEW x \in froms
  PROVE  \A i \in DOMAIN wire' : ~AnswerTo(x, i)'
<1>1. DOMAIN wire' = 1 .. Len(w)
  BY Marked, LenProperties
<1>2. \A i \in 1 .. Len(w) :
        wire'[i] = IF w[i].kind = "answer" /\ w[i].from \in froms THEN Late ELSE w[i]
  BY Marked
<1> QED BY <1>1, <1>2 DEF AnswerTo, Late

LEMMA StaledAre ==
  ASSUME Inv, NEW froms
  PROVE  \A r \in StaleRequests(froms) :
           /\ RequestOK(r)
           /\ IF r.from \in froms
              THEN r.stale /\ \E q \in requests : q.from = r.from /\ r = [q EXCEPT !.stale = TRUE]
              ELSE r \in requests
<1> SUFFICES ASSUME NEW q \in requests, q.from \in froms
             PROVE  /\ RequestOK([q EXCEPT !.stale = TRUE])
                    /\ [q EXCEPT !.stale = TRUE].from = q.from /\ [q EXCEPT !.stale = TRUE].stale
  BY Facts DEF StaleRequests
<1>1. RequestOK(q)
  BY Facts
<1> QED BY <1>1 DEF RequestOK

(* The answers of those in froms, if any come, are not waited for any more. *)
LEMMA AbandonStep ==
  ASSUME Inv, NEW froms, NEW k, Shortened(k), requests' = StaleRequests(froms),
         \A x \in froms, i \in DOMAIN wire' : ~AnswerTo(x, i)',
         k = 1 => \A s : ~News(1, s),
         calls' \in [Calls -> Call],
         \A c \in Calls :
           /\ calls'[c].want = calls[c].want /\ calls'[c].session = calls[c].session
           /\ c \in froms => calls[c].at = "sent" /\ calls'[c].at = "failed"
           /\ c \notin froms => calls'[c].at = calls[c].at,
         flight' \in Flight,
         "flight" \in froms => flight'.at \in {"refused", "paged"} /\ flight'.session = None,
         "flight" \notin froms => UNCHANGED flight,
         UNCHANGED <<browser, executed, cache, preferred, page, want>>
  PROVE  Inv'
<1>0. /\ UNCHANGED <<tabs, attached, enabled, dialogs, executed, cache, preferred, pageEnabled,
                     pendingDialogs, want>>
      /\ Session' = Session /\ Typed
  BY DEF browser, page, Session, Inv
<1>1. Typed'
  BY <1>0, WireStaysTyped, StaledAre DEF Typed, Call, Flight, RequestOK, Session
<1>2. Commands'
  <2> SUFFICES ASSUME NEW c \in Calls PROVE CommandOK(c)'
    BY DEF Commands
  <2>1. CASE c \notin froms
    BY <1>0, <2>1, StaledAre, CommandStays
  <2>2. CASE c \in froms
    <3>1. CommandOK(c) /\ calls[c].at = "sent" /\ calls'[c].at = "failed"
      BY <2>2 DEF Inv, Commands
    <3>2. \A r \in requests' : r.from = c =>
            r.stale /\ \E q \in requests : q.from = c /\ r = [q EXCEPT !.stale = TRUE]
      BY <2>2, StaledAre
    <3>3. \A q, r \in requests : q.from = c /\ r.from = c => q = r /\ executed[c] = 0
      BY <3>1 DEF CommandOK
    <3>4. \A r \in requests' : r.from = c => executed[c] = 0
      BY <3>2, <3>3
    <3>5. ASSUME NEW r \in requests', NEW q \in requests', r.from = c, q.from = c PROVE r = q
      <4>1. PICK a \in requests : a.from = c /\ r = [a EXCEPT !.stale = TRUE]
        BY <3>2, <3>5
      <4>2. PICK b \in requests : b.from = c /\ q = [b EXCEPT !.stale = TRUE]
        BY <3>2, <3>5
      <4>3. a = b
        BY <3>3, <4>1, <4>2
      <4> QED BY <4>1, <4>2, <4>3
    <3>6. \A i \in DOMAIN wire' : ~AnswerTo(c, i)'
      BY <2>2
    <3>7. executed[c] <= 1
      BY <3>1 DEF CommandOK
    <3> QED BY <1>0, <3>1, <3>2, <3>4, <3>5, <3>6, <3>7 DEF CommandOK
  <2> QED BY <2>1, <2>2
<1>3. OneAnswer'
  <2>1. CASE "flight" \in froms
    <3>1. \A r \in requests' : ~InFlight(r)
      BY <2>1, StaledAre DEF InFlight
    <3> QED BY <2>1, <3>1 DEF OneAnswer
  <2>2. CASE "flight" \notin froms
    <3>1. \A r \in requests' : InFlight(r) => r \in requests
      BY <2>2, StaledAre DEF InFlight
    <3>2. BrowserKept
      BY <1>0 DEF BrowserKept, Serves
    <3> QED BY <2>2, <3>1, <3>2, AnswerStays
  <2> QED BY <2>1, <2>2
<1>4. FlightRight'
  <2>1. CASE "flight" \in froms
    BY <2>1 DEF FlightRight
  <2>2. CASE "flight" \notin froms
    BY <1>0, <2>2 DEF Inv, FlightRight, Serves
  <2> QED BY <2>1, <2>2
<1>5. Wanted'
  <2> \A c \in Calls : calls'[c].at = "new" => calls[c].at = "new"
    BY <1>0
  <2> QED BY <1>0 DEF Inv, Wanted, Serves
<1>6. SwitchSticks'
  <2> \A c \in Calls : calls'[c].at \in {"sent", "done"} => calls[c].at = calls'[c].at
    BY <1>0
  <2> QED BY <1>0 DEF Inv, SwitchSticks
<1>7. Heard' /\ NoGhostDialog'
  BY <1>0, NewsGoesBy
<1> QED BY <1>1, <1>2, <1>3, <1>4, <1>5, <1>6, <1>7 DEF Inv

LEMMA TimeoutStep == ASSUME Inv, NEW c \in Calls, Timeout(c) PROVE Inv'
<1>1. /\ requests' = StaleRequests({c}) /\ wire' = LateAnswers({c}, wire)
      /\ calls[c].at = "sent" /\ calls' = [calls EXCEPT ![c].at = "failed"] /\ UNCHANGED flight
      /\ UNCHANGED <<browser, executed, cache, preferred, page, want>>
  BY DEF Timeout
<1>2. /\ calls' \in [Calls -> Call]
      /\ \A d \in Calls : /\ calls'[d].want = calls[d].want /\ calls'[d].session = calls[d].session
                          /\ d \in {c} => calls[d].at = "sent" /\ calls'[d].at = "failed"
                          /\ d \notin {c} => calls'[d].at = calls[d].at
  BY <1>1, Facts DEF Call, Place
<1>3. Shortened(0) /\ \A x \in {c}, i \in DOMAIN wire' : ~AnswerTo(x, i)'
  BY <1>1, Left, NoneInTime DEF Inv, Typed
<1>4. "flight" \notin {c} /\ flight' \in Flight
  BY <1>1, Facts
<1> DEFINE froms == {c}
<1> HIDE DEF froms
<1>5. /\ requests' = StaleRequests(froms) /\ "flight" \notin froms /\ UNCHANGED flight
      /\ UNCHANGED <<browser, executed, cache, preferred, page, want>>
      /\ \A x \in froms, i \in DOMAIN wire' : ~AnswerTo(x, i)'
      /\ \A d \in Calls : /\ calls'[d].want = calls[d].want /\ calls'[d].session = calls[d].session
                          /\ d \in froms => calls[d].at = "sent" /\ calls'[d].at = "failed"
                          /\ d \notin froms => calls'[d].at = calls[d].at
  BY <1>1, <1>2, <1>3, <1>4 DEF froms
<1>6. calls' \in [Calls -> Call] /\ Shortened(0) /\ flight' \in Flight
  BY <1>2, <1>3, <1>4
<1> QED BY <1>5, <1>6, AbandonStep

LEMMA FlightTimeoutStep == ASSUME Inv, FlightTimeout PROVE Inv'
<1>1. /\ requests' = StaleRequests({"flight"}) /\ wire' = LateAnswers({"flight"}, wire)
      /\ flight' \in {[Idle EXCEPT !.at = "refused"], [Idle EXCEPT !.at = "paged"]} /\ UNCHANGED calls
      /\ UNCHANGED <<browser, executed, cache, preferred, page, want>>
  BY DEF FlightTimeout
<1>2. flight' \in Flight /\ flight'.at \in {"refused", "paged"} /\ flight'.session = None
  BY <1>1 DEF Flight, FlightPlace, Idle, Tab
<1>3. Shortened(0) /\ \A i \in DOMAIN wire' : ~AnswerTo("flight", i)'
  BY <1>1, Left, NoneInTime DEF Inv, Typed
<1>4. calls' \in [Calls -> Call] /\ \A c \in Calls : c \notin {"flight"}
  BY <1>1, Facts
<1> QED BY <1>1, <1>2, <1>3, <1>4, AbandonStep

LEMMA SendErrorStep ==
  ASSUME Inv, wire # <<>>, HandleSendError(Head(wire)), requests' = StaleRequests(Rejected),
         wire' = LateAnswers(Rejected, Tail(wire)), UNCHANGED <<browser, executed, preferred, want>>
  PROVE  Inv'
<1>1. Shortened(1) /\ Head(wire) = wire[1] /\ wire[1].kind = "sendError"
  BY Left DEF Inv, HandleSendError
<1>2. \A x \in Rejected, i \in DOMAIN wire' : ~AnswerTo(x, i)'
  <2> Tail(wire) \in Seq(Message)
    BY HeadTailProperties DEF Inv, Typed
  <2> QED BY NoneInTime
<1>3. /\ \A c \in Calls : c \in Rejected <=> calls[c].at = "sent"
      /\ "flight" \in Rejected <=> flight.at \in {"attaching", "enabling"}
  BY Facts DEF Rejected
<1>4. /\ calls' \in [Calls -> Call]
      /\ \A c \in Calls : /\ calls'[c].want = calls[c].want /\ calls'[c].session = calls[c].session
                          /\ c \in Rejected => calls[c].at = "sent" /\ calls'[c].at = "failed"
                          /\ c \notin Rejected => calls'[c].at = calls[c].at
  BY <1>3, Facts DEF HandleSendError, Call, Place
<1>5. CASE flight.at \in {"attaching", "enabling"}
  <2>1. flight' \in {[Idle EXCEPT !.at = "refused"], [Idle EXCEPT !.at = "paged"]}
    BY <1>5 DEF HandleSendError
  <2>2. flight' \in Flight /\ flight'.at \in {"refused", "paged"} /\ flight'.session = None
    BY <2>1 DEF Flight, FlightPlace, Idle, Tab
  <2> QED BY <1>1, <1>2, <1>3, <1>4, <1>5, <2>2, AbandonStep DEF HandleSendError, News
<1>6. CASE flight.at \notin {"attaching", "enabling"}
  <2>1. UNCHANGED flight /\ flight' \in Flight
    BY <1>6, Facts DEF HandleSendError
  <2> QED BY <1>1, <1>2, <1>3, <1>4, <1>6, <2>1, AbandonStep DEF HandleSendError, News
<1> QED BY <1>5, <1>6

(* News, or an answer that comes too late, is taken off the wire. *)
LEMMA NewsStep ==
  ASSUME Inv, Shortened(1), cache' \in {cache, NoSession}, pageEnabled' \subseteq pageEnabled,
         pendingDialogs' \subseteq enabled,
         \A s \in pendingDialogs' :
           \/ s \in pendingDialogs /\ ~News(1, s)
           \/ wire[1].kind = "dialog" /\ wire[1].open /\ wire[1].session = s,
         UNCHANGED <<browser, requests, executed, calls, flight, preferred, want>>
  PROVE  Inv'
<1>0. /\ UNCHANGED <<tabs, attached, enabled, dialogs, requests, executed, calls, flight, preferred,
                     want>>
      /\ Session' = Session /\ Typed
  BY DEF browser, Session, Inv
<1>1. Typed'
  <2> cache' \in [session : Session \cup {None}, target : Tab, recent : BOOLEAN]
    <3> /\ cache \in [session : Session \cup {None}, target : Tab, recent : BOOLEAN]
        /\ NoSession \in [session : Session \cup {None}, target : Tab, recent : BOOLEAN]
      BY <1>0 DEF NoSession, Tab, Typed
    <3> QED OBVIOUS
  <2> QED BY <1>0, WireStaysTyped DEF Typed, Call, Flight, RequestOK, Session
<1>2. Commands'
  BY <1>0, CommandStays DEF Commands
<1>3. OneAnswer'
  <2> BrowserKept
    BY <1>0 DEF BrowserKept, Serves
  <2> QED BY <1>0, AnswerStays
<1>4. FlightRight' /\ SwitchSticks'
  BY <1>0 DEF Inv, FlightRight, SwitchSticks, Serves
<1>5. Wanted'
  BY <1>0 DEF Inv, Wanted, Serves, NoSession
<1>6. Heard' /\ NoGhostDialog'
  BY <1>0, NewsGoesBy
<1> QED BY <1>1, <1>2, <1>3, <1>4, <1>5, <1>6 DEF Inv

LEMMA CallAnswered ==
  ASSUME Inv, NEW c \in Calls, Shortened(1), 1 \in DOMAIN wire, AnswerTo(c, 1),
         calls' = [calls EXCEPT ![c].at =
                     CASE wire[1].result = "ok" -> "done"
                       [] wire[1].result = "lost" /\ ~calls[c].retried -> "lost"
                       [] OTHER -> "failed"],
         UNCHANGED <<browser, requests, executed, flight, cache, preferred, page, want>>
  PROVE  Inv'
<1>0. /\ UNCHANGED <<tabs, attached, enabled, dialogs, requests, executed, flight, cache, preferred,
                     pageEnabled, pendingDialogs, want>>
      /\ Session' = Session /\ Typed
  BY DEF browser, page, Session, Inv
<1>1. /\ CommandOK(c) /\ calls[c].at = "sent"
      /\ executed[c] = IF wire[1].result = "ok" THEN 1 ELSE 0
      /\ \A r \in requests : r.from # c
      /\ \A i \in DOMAIN wire : AnswerTo(c, i) => i = 1
  BY DEF Inv, Commands, CommandOK
<1>2. PICK place \in {"done", "lost", "failed"} :
        /\ calls' = [calls EXCEPT ![c].at = place]
        /\ place = "done" <=> wire[1].result = "ok"
  OBVIOUS
<1>3. /\ calls' \in [Calls -> Call]
      /\ calls'[c].at = place
      /\ \A d \in Calls : /\ calls'[d].want = calls[d].want /\ calls'[d].session = calls[d].session
                          /\ d # c => calls'[d].at = calls[d].at
  BY <1>2, Facts DEF Call, Place
<1>4. Typed'
  BY <1>0, <1>3, WireStaysTyped DEF Typed, Call, Flight, RequestOK, Session
<1>5. Commands'
  <2> SUFFICES ASSUME NEW d \in Calls PROVE CommandOK(d)'
    BY DEF Commands
  <2>1. CASE d # c
    BY <1>0, <1>3, <2>1, CommandStays
  <2>2. CASE d = c
    <3>1. \A i \in DOMAIN wire' : ~AnswerTo(c, i)'
      <4> SUFFICES ASSUME NEW i \in DOMAIN wire', AnswerTo(c, i)' PROVE FALSE
        OBVIOUS
      <4>1. i \in 1 .. Len(wire') /\ Len(wire') = Len(wire) - 1 /\ DOMAIN wire = 1 .. Len(wire)
            /\ Len(wire) \in Nat
        BY <1>0, WireLength, LenProperties DEF Shortened
      <4>2. i + 1 \in DOMAIN wire /\ i + 1 # 1
        BY <4>1
      <4>3. AnswerTo(c, i + 1)
        BY <4>1 DEF Shortened, AnswerTo, Late
      <4> QED BY <1>1, <4>2, <4>3
    <3> QED BY <1>0, <1>1, <1>2, <1>3, <2>2, <3>1 DEF CommandOK
  <2> QED BY <2>1, <2>2
<1>6. OneAnswer'
  <2> BrowserKept
    BY <1>0 DEF BrowserKept, Serves
  <2> QED BY <1>0, AnswerStays
<1>7. FlightRight'
  <2> \A d \in Calls : calls'[d].at = "waiting" => calls[d].at = "waiting"
    BY <1>2, <1>3
  <2> QED BY <1>0 DEF Inv, FlightRight, Serves
<1>8. Wanted'
  <2> \A d \in Calls : calls'[d].at = "new" => calls[d].at = "new"
    BY <1>2, <1>3
  <2> QED BY <1>0, <1>3 DEF Inv, Wanted, Serves
<1>9. SwitchSticks'
  <2> \A d \in Calls : calls'[d].at \in {"sent", "done"} => calls[d].at \in {"sent", "done"}
    BY <1>1, <1>3
  <2> QED BY <1>0, <1>3 DEF Inv, SwitchSticks
<1>10. Heard' /\ NoGhostDialog'
  BY <1>0, NewsGoesBy DEF News, AnswerTo
<1> QED BY <1>4, <1>5, <1>6, <1>7, <1>8, <1>9, <1>10 DEF Inv

LEMMA FlightAnswered ==
  ASSUME Inv, NEW m, m = wire[1], Shortened(1), 1 \in DOMAIN wire, AnswerTo("flight", 1),
         flight' = CASE flight.at = "listing" ->
                          [Idle EXCEPT !.at = "listed", !.tabs = m.value, !.active = m.result]
                     [] flight.at = "attaching" /\ m.result = "ok" ->
                          [flight EXCEPT !.at = "attached", !.session = m.value]
                     [] flight.at = "attaching" /\ m.result # "ok" -> [Idle EXCEPT !.at = "refused"]
                     [] OTHER -> [Idle EXCEPT !.at = "paged",
                                              !.session = IF m.result = "ok" THEN m.value ELSE None],
         UNCHANGED <<browser, requests, executed, calls, cache, preferred, page, want>>
  PROVE  Inv'
<1>0. /\ UNCHANGED <<tabs, attached, enabled, dialogs, requests, executed, calls, cache, preferred,
                     pageEnabled, pendingDialogs, want>>
      /\ Session' = Session /\ Typed /\ flight \in Flight /\ enabled \subseteq Session
  BY DEF browser, page, Session, Inv, Typed
<1>1. /\ Awaited(m) /\ flight.at \in {"listing", "attaching", "enabling"}
      /\ \A r \in requests : ~InFlight(r)
      /\ \A i \in DOMAIN wire : AnswerTo("flight", i) => i = 1
  BY DEF Inv, OneAnswer, Awaited
<1>2. /\ flight' \in Flight /\ flight'.at \in {"listed", "attached", "refused", "paged"}
      /\ flight'.at = "listed" /\ flight'.tabs # {} =>
           tabs \subseteq flight'.tabs /\ flight'.active \in flight'.tabs
      /\ flight'.at = "attached" => /\ flight.at = "attaching" /\ flight'.active = flight.active
                                    /\ Serves(flight'.session, flight.active)
      /\ flight'.at = "paged" => flight'.session \in enabled \cup {None}
  <2>1. CASE flight.at = "listing"
    BY <1>1, <2>1 DEF Awaited, Flight, FlightPlace, Idle, Tab
  <2>2. CASE flight.at = "attaching" /\ m.result = "ok"
    <3>1. flight' = [flight EXCEPT !.at = "attached", !.session = m.value]
      BY <2>2
    <3>2. Serves(m.value, flight.active)
      BY <1>1, <2>2 DEF Awaited
    <3> QED BY <1>0, <2>2, <3>1, <3>2 DEF Serves, Flight, FlightPlace
  <2>3. CASE flight.at = "attaching" /\ m.result # "ok"
    BY <2>3 DEF Flight, FlightPlace, Idle, Tab
  <2>4. CASE flight.at = "enabling"
    <3>1. PICK s \in enabled \cup {None} : flight' = [Idle EXCEPT !.at = "paged", !.session = s]
      BY <1>1, <2>4 DEF Awaited
    <3> QED BY <1>0, <3>1 DEF Flight, FlightPlace, Idle, Tab
  <2> QED BY <1>1, <2>1, <2>2, <2>3, <2>4
<1>3. Typed'
  BY <1>0, <1>2, WireStaysTyped DEF Typed, Call, Flight, RequestOK, Session
<1>4. Commands'
  BY <1>0, CommandStays DEF Commands
<1>5. OneAnswer'
  <2>1. \A i \in DOMAIN wire' : ~AnswerTo("flight", i)'
    <3> SUFFICES ASSUME NEW i \in DOMAIN wire', AnswerTo("flight", i)' PROVE FALSE
      OBVIOUS
    <3>1. i \in 1 .. Len(wire') /\ Len(wire') = Len(wire) - 1 /\ DOMAIN wire = 1 .. Len(wire)
          /\ Len(wire) \in Nat
      BY <1>0, WireLength, LenProperties DEF Shortened
    <3>2. i + 1 \in DOMAIN wire /\ i + 1 # 1
      BY <3>1
    <3>3. AnswerTo("flight", i + 1)
      BY <3>1 DEF Shortened, AnswerTo, Late
    <3> QED BY <1>1, <3>2, <3>3
  <2> QED BY <1>0, <1>1, <2>1 DEF OneAnswer, InFlight
<1>6. FlightRight'
  <2> flight'.at = "attached" => flight'.active \in Targets
    BY <1>2 DEF Inv, FlightRight
  <2> QED BY <1>0, <1>2 DEF FlightRight, Serves
<1>7. Wanted' /\ SwitchSticks'
  BY <1>0, <1>2 DEF Inv, Wanted, SwitchSticks, Serves
<1>8. Heard' /\ NoGhostDialog'
  BY <1>0, NewsGoesBy DEF News, AnswerTo
<1> QED BY <1>3, <1>4, <1>5, <1>6, <1>7, <1>8 DEF Inv

LEMMA HandleMessageStep == ASSUME Inv, HandleMessage PROVE Inv'
<1>0. /\ wire # <<>> /\ UNCHANGED <<browser, executed, preferred, want>>
      /\ Head(wire) = wire[1] /\ 1 \in DOMAIN wire /\ wire[1] \in Message
  BY Left, WireLength DEF Inv, HandleMessage
<1>1. CASE /\ HandleSendError(Head(wire)) /\ requests' = StaleRequests(Rejected)
           /\ wire' = LateAnswers(Rejected, Tail(wire))
  BY <1>0, <1>1, SendErrorStep
<1>2. CASE /\ wire' = Tail(wire) /\ UNCHANGED requests
           /\ \/ OnLate(wire[1]) \/ OnAnswer(wire[1])
              \/ OnDetached(wire[1]) \/ OnDialog(wire[1])
  <2>0. Shortened(1)
    BY <1>0, <1>2, Left DEF Inv
  <2>1. CASE OnLate(wire[1])
    <3> \A s \in pendingDialogs' : s \in pendingDialogs /\ ~News(1, s)
      BY <2>1 DEF OnLate, News, page
    <3> QED BY <1>0, <1>2, <2>0, <2>1, NewsStep DEF OnLate, page, Inv, Typed
  <2>2. CASE OnAnswer(wire[1])
    <3>1. UNCHANGED <<cache, page>> /\ wire[1].kind = "answer" /\ wire[1].from \in Sender
      BY <1>0, <2>2 DEF OnAnswer, Message
    <3>2. CASE wire[1].from \in Calls
      BY <1>0, <1>2, <2>0, <2>2, <3>1, <3>2, CallAnswered DEF OnAnswer, AnswerTo
    <3>3. CASE wire[1].from \notin Calls
      BY <1>0, <1>2, <2>0, <2>2, <3>1, <3>3, FlightAnswered DEF OnAnswer, AnswerTo, Sender
    <3> QED BY <3>2, <3>3
  <2>3. CASE OnDetached(wire[1])
    <3>1. /\ cache' \in {cache, NoSession} /\ pageEnabled' \subseteq pageEnabled
          /\ \A s \in pendingDialogs' : s \in pendingDialogs /\ ~News(1, s)
      BY <2>3 DEF OnDetached, Invalidated, News
    <3> QED BY <1>0, <1>2, <2>0, <2>3, <3>1, NewsStep DEF OnDetached, Inv, Typed
  <2>4. CASE OnDialog(wire[1])
    <3>1. \A s \in pendingDialogs' :
            \/ s \in pendingDialogs /\ ~News(1, s)
            \/ wire[1].kind = "dialog" /\ wire[1].open /\ wire[1].session = s
      BY <2>4 DEF OnDialog, News
    <3>2. pendingDialogs' \subseteq enabled
      BY <1>0, <2>4, <3>1 DEF Inv, Typed
    <3> QED BY <1>0, <1>2, <2>0, <2>4, <3>1, <3>2, NewsStep DEF OnDialog
  <2> QED BY <1>2, <2>1, <2>2, <2>3, <2>4
<1> QED BY <1>0, <1>1, <1>2 DEF HandleMessage, OnLate, OnAnswer, OnDetached, OnDialog

-----------------------------------------------------------------------------
(* The browser and the host. *)

(* Request r is done with: answered, rejected without an id, or its answer left out. *)
LEMMA RequestTaken ==
  ASSUME Inv, NEW r \in requests, requests' = requests \ {r}, NEW m \in Message,
         \/ UNCHANGED wire
         \/ wire' = Append(wire, m) /\ m.kind = "sendError"
         \/ /\ wire' = Append(wire, m) /\ m.kind = "answer" /\ m.from = r.from /\ ~r.stale
            /\ m.from = "flight" => Awaited(m)'
            /\ m.from \in Calls => executed'[m.from] = IF m.result = "ok" THEN 1 ELSE 0,
         UNCHANGED <<tabs, dialogs, Harness>>,
         attached' \in Seq(tabs \cup {None}), Len(attached') <= MaxSessions, Session \subseteq Session',
         enabled \subseteq enabled', enabled' \subseteq Session',
         \A s \in Session : attached'[s] = attached[s],
         executed' \in [Calls -> Nat],
         \A c \in Calls : IF c = r.from THEN executed'[c] <= 1 ELSE executed'[c] = executed[c]
  PROVE  Inv'
<1>0. /\ UNCHANGED <<tabs, dialogs, calls, flight, cache, preferred, pageEnabled, pendingDialogs, want>>
      /\ Typed
  BY DEF Harness, page, Inv
<1>1. /\ Longer
      /\ \A i \in New : wire'[i] = m /\ wire' = Append(wire, m) /\ New = {i}
  BY <1>0, SameOrLonger
<1>2. \A i \in New : wire'[i].kind \notin {"dialog", "detached"}
  BY <1>1
<1>3. Typed'
  <2>1. \A q \in requests' : RequestOK(q)'
    <3> SUFFICES ASSUME NEW q \in requests PROVE RequestOK(q)'
      OBVIOUS
    <3> RequestOK(q)
      BY Facts
    <3> QED BY DEF RequestOK
  <2>2. /\ wire' \in Seq(Message)
        /\ \A i \in DOMAIN wire' : /\ wire'[i].kind = "dialog" => wire'[i].session \in enabled
                                   /\ wire'[i].kind = "detached" => wire'[i].session \in Session
    BY <1>0, <1>1, <1>2 DEF Longer, New, Typed
  <2>3. /\ calls \in [Calls -> Call'] /\ flight \in Flight'
        /\ cache \in [session : Session' \cup {None}, target : Tab, recent : BOOLEAN]
    BY <1>0 DEF Typed, Call, Flight
  <2> QED BY <1>0, <2>1, <2>2, <2>3 DEF Typed
<1>4. Commands'
  <2> SUFFICES ASSUME NEW c \in Calls PROVE CommandOK(c)'
    BY DEF Commands
  <2>1. CASE c # r.from
    <3> \A i \in New : ~AnswerTo(c, i)'
      BY <1>1, <2>1 DEF AnswerTo
    <3> QED BY <1>0, <1>1, <2>1, CommandStaysAsWell
  <2>2. CASE c = r.from
    <3>1. /\ calls[c].at = IF r.stale THEN "failed" ELSE "sent"
          /\ \A q \in requests' : q.from # c
          /\ \A i \in DOMAIN wire : ~AnswerTo(c, i)
      BY <2>2 DEF Inv, Commands, CommandOK
    <3>2. \A i \in DOMAIN wire' : AnswerTo(c, i)' => i \in New
      BY <1>1, <3>1 DEF Longer, New, AnswerTo
    <3>3. \A i \in DOMAIN wire' : AnswerTo(c, i)' =>
            ~r.stale /\ executed'[c] = IF wire'[i].result = "ok" THEN 1 ELSE 0
      <4> SUFFICES ASSUME NEW i \in New, AnswerTo(c, i)'
                   PROVE  ~r.stale /\ executed'[c] = IF wire'[i].result = "ok" THEN 1 ELSE 0
        BY <3>2
      <4>1. wire'[i] = m /\ wire' # wire /\ m.kind = "answer" /\ m.from = c
        BY <1>1 DEF AnswerTo, New
      <4> QED BY <4>1
    <3>4. \A i, j \in DOMAIN wire' : AnswerTo(c, i)' /\ AnswerTo(c, j)' => i = j
      BY <1>1, <3>2
    <3>5. executed'[c] <= 1
      BY <2>2
    <3> QED BY <1>0, <3>1, <3>3, <3>4, <3>5 DEF CommandOK
  <2> QED BY <2>1, <2>2
<1>5. BrowserKept
  BY <1>0 DEF BrowserKept, Serves
<1>6. OneAnswer'
  <2>1. CASE \A i \in New : ~AnswerTo("flight", i)'
    BY <1>0, <1>1, <1>5, <2>1, AnswerStaysAsWell
  <2>2. CASE \E i \in New : AnswerTo("flight", i)'
    <3>1. PICK i \in New : AnswerTo("flight", i)'
      BY <2>2
    <3>2. wire'[i] = m /\ wire' # wire /\ New = {i} /\ m.kind = "answer" /\ m.from = "flight"
      BY <1>1, <3>1 DEF AnswerTo, New
    <3>3. r.from = "flight" /\ InFlight(r) /\ Awaited(wire[i])'
      BY <3>2 DEF InFlight
    <3>4. /\ \A q \in requests' : ~InFlight(q)
          /\ \A j \in DOMAIN wire : ~AnswerTo("flight", j)
      BY <3>3 DEF Inv, OneAnswer
    <3>5. \A j \in DOMAIN wire' : AnswerTo("flight", j)' => j = i
      BY <1>1, <3>2, <3>4 DEF Longer, New, AnswerTo
    <3> QED BY <3>3, <3>4, <3>5 DEF OneAnswer, InFlight
  <2> QED BY <2>1, <2>2
<1>7. FlightRight'
  <2>1. flight.at = "attached" => Serves(flight.session, flight.active)'
    <3> flight.at = "attached" => /\ flight.session \in Session /\ flight.active \in Targets
                                  /\ Serves(flight.session, flight.active)
      BY DEF Inv, FlightRight, Serves
    <3> QED BY <1>0, <1>5 DEF BrowserKept, Serves
  <2> QED BY <1>0, <2>1 DEF Inv, FlightRight
<1>8. Wanted'
  BY <1>0, <1>5 DEF Inv, Wanted, BrowserKept, Serves
<1>9. SwitchSticks'
  <2> \A c \in Calls : calls[c].session # None => calls[c].session \in Session
    BY Facts DEF Call
  <2> QED BY <1>0 DEF Inv, SwitchSticks
<1>10. Heard' /\ NoGhostDialog'
  <2> \A s \in enabled : attached[s] \in dialogs => attached'[s] \in dialogs'
    BY <1>0 DEF Typed
  <2> QED BY <1>0, <1>1, <1>2, NewsComes
<1> QED BY <1>3, <1>4, <1>6, <1>7, <1>8, <1>9, <1>10 DEF Inv

(* The browser sends news v: a tab closes, or a dialog. *)
LEMMA NewsSent ==
  ASSUME Inv, NEW v \in Seq(Message), wire' = wire \o v,
         \A i \in DOMAIN v : \/ v[i].kind = "detached" /\ v[i].session \in Session
                            \/ /\ v[i].kind = "dialog" /\ v[i].session \in enabled
                               /\ v[i].open => attached'[v[i].session] \in dialogs',
         \A s \in enabled : attached[s] \in dialogs =>
           attached'[s] \in dialogs' \/ \E i \in DOMAIN v : v[i].session = s,
         tabs' \subseteq tabs, dialogs' \subseteq tabs', Session' = Session,
         attached' \in Seq(tabs' \cup {None}), Len(attached') = Len(attached),
         \A s \in Session : attached'[s] = IF attached[s] \in tabs' THEN attached[s] ELSE None,
         UNCHANGED <<enabled, requests, executed, Harness>>
  PROVE  Inv'
<1>0. /\ UNCHANGED <<enabled, requests, executed, calls, flight, cache, preferred, pageEnabled,
                     pendingDialogs, want>>
      /\ Typed
  BY DEF Harness, page, Inv
<1>1. /\ Longer
      /\ \A i \in New : i - Len(wire) \in DOMAIN v /\ wire'[i] = v[i - Len(wire)]
      /\ \A i \in DOMAIN v : Len(wire) + i \in New /\ wire'[Len(wire) + i] = v[i]
  BY <1>0, SameOrLonger
<1>2. /\ \A i \in New : wire'[i].kind # "answer"
      /\ \A i \in New : wire'[i].kind = "detached" => wire'[i].session \in Session
      /\ \A i \in New : wire'[i].kind = "dialog" =>
           wire'[i].session \in enabled /\ (wire'[i].open => attached'[wire'[i].session] \in dialogs')
      /\ \A i \in DOMAIN v : \E j \in New : News(j, v[i].session)'
  <2>1. \A i \in DOMAIN v : v[i].kind \in {"detached", "dialog"}
    OBVIOUS
  <2>2. ASSUME NEW i \in DOMAIN v PROVE \E j \in New : News(j, v[i].session)'
    <3>1. PICK j \in New : wire'[j] = v[i]
      BY <1>1
    <3>2. News(j, v[i].session)'
      BY <2>1, <3>1 DEF News
    <3> QED BY <3>2
  <2>3. ASSUME NEW i \in New
        PROVE  /\ wire'[i].kind # "answer"
               /\ wire'[i].kind = "detached" => wire'[i].session \in Session
               /\ wire'[i].kind = "dialog" =>
                    /\ wire'[i].session \in enabled
                    /\ wire'[i].open => attached'[wire'[i].session] \in dialogs'
    <3> PICK j \in DOMAIN v : wire'[i] = v[j]
      BY <1>1
    <3> QED BY <2>1
  <2> QED BY <2>2, <2>3
<1>3. Typed'
  <2>1. \A i \in DOMAIN wire' : /\ wire'[i].kind = "dialog" => wire'[i].session \in enabled
                               /\ wire'[i].kind = "detached" => wire'[i].session \in Session
    BY <1>0, <1>1, <1>2 DEF Longer, New, Typed
  <2>2. wire' \in Seq(Message)
    BY <1>1 DEF Longer
  <2>3. tabs' \subseteq Targets /\ Len(attached') <= MaxSessions
    BY <1>0 DEF Typed
  <2> QED BY <1>0, <2>1, <2>2, <2>3 DEF Typed, Call, Flight, RequestOK
<1>4. Commands'
  <2> \A c \in Calls, i \in New : ~AnswerTo(c, i)'
    BY <1>2 DEF AnswerTo
  <2> QED BY <1>0, <1>1, CommandStaysAsWell DEF Commands
<1>5. BrowserKept
  <2> \A s \in Session, t \in Targets : Serves(s, t) => Serves(s, t)'
    BY <1>0, Facts DEF Typed, Serves
  <2> QED BY <1>0 DEF BrowserKept
<1>6. OneAnswer'
  <2> \A i \in New : ~AnswerTo("flight", i)'
    BY <1>2 DEF AnswerTo
  <2> QED BY <1>0, <1>1, <1>5, AnswerStaysAsWell
<1>7. FlightRight'
  <2>1. flight.at = "attached" => Serves(flight.session, flight.active)'
    <3> flight.at = "attached" => /\ flight.session \in Session /\ flight.active \in Targets
                                  /\ Serves(flight.session, flight.active)
      BY DEF Inv, FlightRight, Serves
    <3> QED BY <1>0, <1>5 DEF BrowserKept, Serves
  <2> QED BY <1>0, <2>1 DEF Inv, FlightRight
<1>8. Wanted'
  <2> cache.session # None => Serves(cache.session, cache.target)'
    <3> cache.session # None => /\ cache.session \in Session /\ cache.target \in Targets
                                /\ Serves(cache.session, cache.target)
      BY DEF Inv, Wanted, Serves
    <3> QED BY <1>0, <1>5 DEF BrowserKept, Serves
  <2> QED BY <1>0, Facts DEF Inv, Wanted
<1>9. SwitchSticks'
  <2> \A c \in Calls : calls[c].session # None => calls[c].session \in Session
    BY Facts DEF Call
  <2> QED BY <1>0 DEF Inv, SwitchSticks
<1>10. Heard' /\ NoGhostDialog'
  <2>1. \A s \in enabled : attached[s] \in dialogs =>
          attached'[s] \in dialogs' \/ \E i \in New : News(i, s)'
    <3> SUFFICES ASSUME NEW s \in enabled, attached[s] \in dialogs, attached'[s] \notin dialogs'
                 PROVE  \E i \in New : News(i, s)'
      OBVIOUS
    <3>1. PICK i \in DOMAIN v : v[i].session = s
      OBVIOUS
    <3>2. PICK j \in New : News(j, v[i].session)'
      BY <1>2
    <3>3. News(j, s)'
      BY <3>1, <3>2 DEF News
    <3> QED BY <3>3
  <2> QED BY <1>0, <1>1, <1>2, <2>1, NewsComes
<1> QED BY <1>3, <1>4, <1>6, <1>7, <1>8, <1>9, <1>10 DEF Inv

LEMMA Answered ==
  ASSUME NEW r, NEW result \in {"ok", "lost", "error"} \cup Tab,
         NEW value, value \in {None} \cup Nat \cup SUBSET Targets,
         Answers(r, result, value), r.from \in Sender
  PROVE  \E m \in Message :
           /\ requests' = requests \ {r}
           /\ UNCHANGED wire \/ (wire' = Append(wire, m) /\ ~r.stale)
           /\ m.kind = "answer" /\ m.from = r.from /\ m.result = result /\ m.value = value
<1> DEFINE m == Answer(r, result, value)
<1>1. m \in Message
  BY DEF Answer, Message
<1>2. m.kind = "answer" /\ m.from = r.from /\ m.result = result /\ m.value = value
  BY DEF Answer
<1>3. requests' = requests \ {r} /\ (UNCHANGED wire \/ (wire' = Append(wire, m) /\ ~r.stale))
  BY DEF Answers
<1> HIDE DEF m
<1> QED BY <1>1, <1>2, <1>3

LEMMA ListTabsStep == ASSUME Inv, NEW r \in requests, ListTabs(r) PROVE Inv'
<1>0. /\ UNCHANGED <<tabs, attached, enabled, dialogs, executed, flight, Harness>> /\ Typed
      /\ Session' = Session /\ tabs \in SUBSET Targets
  BY DEF ListTabs, browser, Harness, Session, Inv, Typed
<1>1. r.from = "flight" /\ r.from \in Sender /\ \A c \in Calls : c # r.from
  BY Facts DEF ListTabs, RequestOK, Sender
<1>2. PICK t, value :
        /\ \/ t \in (IF tabs = {} THEN {None} ELSE tabs) /\ value = tabs
           \/ t = None /\ value = {}
        /\ Answers(r, t, value)
  BY DEF ListTabs
<1>3. Answers(r, t, value)
  BY <1>2
<1>4. t \in Tab /\ value \in SUBSET Targets
  BY <1>0, <1>2 DEF Tab
<1>5. PICK m \in Message :
        /\ requests' = requests \ {r}
        /\ UNCHANGED wire \/ (wire' = Append(wire, m) /\ ~r.stale)
        /\ m.kind = "answer" /\ m.from = r.from /\ m.result = t /\ m.value = value
  BY <1>1, <1>3, <1>4, Answered
<1>6. ~r.stale => Awaited(m)'
  <2>1. ~r.stale => flight.at = "listing"
    <3> ~r.stale => Asked(r)
      BY <1>1 DEF Inv, OneAnswer, InFlight
    <3> QED BY DEF Asked, ListTabs
  <2> QED BY <1>0, <1>2, <1>3, <1>5, <2>1 DEF Awaited
<1>7. enabled' = enabled /\ executed' = executed /\ executed \in [Calls -> Nat]
  BY <1>0 DEF Typed
<1> QED BY <1>0, <1>1, <1>5, <1>6, <1>7, RequestTaken DEF Typed

LEMMA AttachToTargetStep == ASSUME Inv, NEW r \in requests, AttachToTarget(r) PROVE Inv'
<1>0. /\ UNCHANGED <<tabs, enabled, dialogs, executed, flight, Harness>> /\ Typed
  BY DEF AttachToTarget, Harness, Inv
<1>1. r.from = "flight" /\ r.from \in Sender /\ \A c \in Calls : c # r.from
  BY Facts DEF AttachToTarget, RequestOK, Sender
<1>2. ~r.stale => flight.at = "attaching" /\ r.arg = flight.active
  <2> ~r.stale => Asked(r)
    BY <1>1 DEF Inv, OneAnswer, InFlight
  <2> QED BY DEF Asked, AttachToTarget
<1>3. enabled' = enabled /\ executed' = executed /\ executed \in [Calls -> Nat]
  BY <1>0 DEF Typed
<1>4. CASE Answers(r, "error", None) /\ UNCHANGED attached
  <2>1. PICK m \in Message :
          /\ requests' = requests \ {r}
          /\ UNCHANGED wire \/ (wire' = Append(wire, m) /\ ~r.stale)
          /\ m.kind = "answer" /\ m.from = r.from /\ m.result = "error" /\ m.value = None
    <3>1. None \in {None} \cup Nat \cup SUBSET Targets
      OBVIOUS
    <3>2. "error" \in {"ok", "lost", "error"} \cup Tab
      OBVIOUS
    <3>3. Answers(r, "error", None)
      BY <1>4
    <3> QED BY <1>1, <3>1, <3>2, <3>3, Answered
  <2>2. ~r.stale => Awaited(m)'
    BY <1>0, <1>2, <2>1 DEF Awaited
  <2>3. Session' = Session
    BY <1>4 DEF Session
  <2> QED BY <1>0, <1>1, <1>3, <1>4, <2>1, <2>2, <2>3, RequestTaken DEF Typed
<1>5. CASE /\ r.arg \in tabs /\ Len(attached) < MaxSessions
           /\ attached' = Append(attached, r.arg)
           /\ Answers(r, "ok", Len(attached) + 1)
  <2>0. PICK s \in Nat : s = Len(attached) + 1 /\ Answers(r, "ok", s)
    BY <1>5, Facts
  <2>1. PICK m \in Message :
          /\ requests' = requests \ {r}
          /\ UNCHANGED wire \/ (wire' = Append(wire, m) /\ ~r.stale)
          /\ m.kind = "answer" /\ m.from = r.from /\ m.result = "ok" /\ m.value = s
    <3>1. s \in {None} \cup Nat \cup SUBSET Targets
      OBVIOUS
    <3>2. "ok" \in {"ok", "lost", "error"} \cup Tab
      OBVIOUS
    <3>3. Answers(r, "ok", s)
      BY <2>0
    <3> QED BY <1>1, <3>1, <3>2, <3>3, Answered, Zenon
  <2>2. /\ attached' \in Seq(tabs \cup {None}) /\ Len(attached') = Len(attached) + 1
        /\ \A i \in Session : attached'[i] = attached[i]
        /\ attached'[s] = r.arg
    BY <1>0, <1>5, <2>0, AppendProperties, LenProperties DEF Typed, Session
  <2>3. /\ Len(attached') <= MaxSessions /\ Session \subseteq Session' /\ s \in Session'
    BY <1>5, <2>0, <2>2, Facts, HarnessAssumption DEF Session
  <2>4. ~r.stale => Awaited(m)'
    BY <1>0, <1>2, <1>5, <2>1, <2>2, <2>3 DEF Awaited, Serves
  <2>5. enabled \subseteq Session'
    BY <1>0, <2>3 DEF Typed
  <2> QED BY <1>0, <1>1, <1>3, <2>1, <2>2, <2>3, <2>4, <2>5, RequestTaken
<1> QED BY <1>4, <1>5 DEF AttachToTarget

LEMMA PageEnableStep == ASSUME Inv, NEW r \in requests, PageEnable(r) PROVE Inv'
<1>0. /\ UNCHANGED <<tabs, attached, dialogs, executed, flight, Harness>> /\ Typed
      /\ Session' = Session
  BY DEF PageEnable, Harness, Session, Inv
<1>1. /\ r.from = "flight" /\ r.from \in Sender /\ \A c \in Calls : c # r.from
      /\ r.arg \in Session /\ r.arg \in Nat
  BY Facts DEF PageEnable, RequestOK, Sender
<1>2. ~r.stale => flight.at = "enabling"
  <2> ~r.stale => Asked(r)
    BY <1>1 DEF Inv, OneAnswer, InFlight
  <2> QED BY DEF Asked, PageEnable
<1>3. PICK m \in Message :
        /\ requests' = requests \ {r}
        /\ UNCHANGED wire \/ (wire' = Append(wire, m) /\ ~r.stale)
        /\ m.kind = "answer" /\ m.from = r.from
        /\ \/ m.result = "lost" /\ enabled' = enabled
           \/ m.result = "ok" /\ m.value = r.arg /\ enabled' = enabled \cup {r.arg}
  <2>1. {"lost", "ok"} \subseteq {"ok", "lost", "error"} \cup Tab
    OBVIOUS
  <2>2. r.arg \in {None} \cup Nat \cup SUBSET Targets /\ None \in {None} \cup Nat \cup SUBSET Targets
    BY <1>1
  <2>3. CASE Answers(r, "lost", None) /\ UNCHANGED enabled
    BY <1>1, <2>1, <2>2, <2>3, Answered
  <2>4. CASE Answers(r, "ok", r.arg) /\ enabled' = enabled \cup {r.arg}
    BY <1>1, <2>1, <2>2, <2>4, Answered
  <2> QED BY <2>3, <2>4 DEF PageEnable
<1>4. ~r.stale => Awaited(m)'
  BY <1>0, <1>2, <1>3 DEF Awaited
<1>5. executed' = executed /\ executed \in [Calls -> Nat]
  BY <1>0 DEF Typed
<1>6. enabled \subseteq enabled' /\ enabled' \subseteq Session'
  BY <1>0, <1>1, <1>3 DEF Typed
<1> QED BY <1>0, <1>1, <1>3, <1>4, <1>5, <1>6, RequestTaken DEF Typed

LEMMA ExecuteStep == ASSUME Inv, NEW r \in requests, Execute(r) PROVE Inv'
<1>0. /\ UNCHANGED <<tabs, attached, enabled, dialogs, Harness>> /\ Typed /\ Session' = Session
  BY DEF Execute, browser, Harness, Session, Inv
<1>1. r.from \in Calls /\ r.from \in Sender /\ r.from # "flight"
  BY Facts DEF Execute, RequestOK, Sender
<1>2. executed \in [Calls -> Nat] /\ executed[r.from] = 0
  BY <1>0, <1>1 DEF Inv, Commands, CommandOK, Typed
<1>3. PICK m \in Message :
        /\ requests' = requests \ {r}
        /\ UNCHANGED wire \/ (wire' = Append(wire, m) /\ ~r.stale)
        /\ m.kind = "answer" /\ m.from = r.from
        /\ \/ m.result # "ok" /\ executed' = executed
           \/ m.result = "ok" /\ executed' = [executed EXCEPT ![r.from] = @ + 1]
  <2>1. /\ {"lost", "ok", "error"} \subseteq {"ok", "lost", "error"} \cup Tab
        /\ None \in {None} \cup Nat \cup SUBSET Targets
    OBVIOUS
  <2>2. CASE Answers(r, "error", None) /\ UNCHANGED executed
    <3> PICK m \in Message :
          /\ requests' = requests \ {r}
          /\ UNCHANGED wire \/ (wire' = Append(wire, m) /\ ~r.stale)
          /\ m.kind = "answer" /\ m.from = r.from /\ m.result = "error"
      BY <1>1, <2>1, <2>2, Answered
    <3> QED BY <2>2
  <2>3. CASE Answers(r, "lost", None) /\ UNCHANGED executed
    BY <1>1, <2>1, <2>3, Answered
  <2>4. CASE Answers(r, "ok", None) /\ executed' = [executed EXCEPT ![r.from] = @ + 1]
    BY <1>1, <2>1, <2>4, Answered
  <2> QED BY <2>2, <2>3, <2>4 DEF Execute
<1>4. /\ executed' \in [Calls -> Nat]
      /\ executed'[r.from] = IF m.result = "ok" THEN 1 ELSE 0
      /\ \A c \in Calls : c # r.from => executed'[c] = executed[c]
  BY <1>1, <1>2, <1>3
<1>5. /\ executed'[m.from] = IF m.result = "ok" THEN 1 ELSE 0
      /\ \A c \in Calls : IF c = r.from THEN executed'[c] <= 1 ELSE executed'[c] = executed[c]
  BY <1>3, <1>4
<1> QED BY <1>0, <1>1, <1>3, <1>4, <1>5, RequestTaken DEF Typed

LEMMA RefuseToSendStep == ASSUME Inv, NEW r \in requests, RefuseToSend(r) PROVE Inv'
<1>0. /\ UNCHANGED <<tabs, attached, enabled, dialogs, executed, Harness>> /\ Typed
      /\ Session' = Session
  BY DEF RefuseToSend, browser, Session, Inv
<1>1. PICK m \in Message : m.kind = "sendError" /\ wire' = Append(wire, m)
  <2> [kind |-> "sendError"] \in Message
    BY DEF Message
  <2> QED BY DEF RefuseToSend
<1>2. \A c \in Calls : executed[c] <= 1
  BY DEF Inv, Commands, CommandOK
<1>3. requests' = requests \ {r}
  BY DEF RefuseToSend
<1> QED BY <1>0, <1>1, <1>2, <1>3, RequestTaken DEF Typed

LEMMA SessionsOrdered ==
  ASSUME Inv, NEW S, S \subseteq Session, NEW order \in SetToSeqs(S)
  PROVE  /\ order \in Seq(Session)
         /\ \A i \in DOMAIN order : order[i] \in S
         /\ \A s \in S : \E i \in DOMAIN order : order[i] = s
<1>1. IsFiniteSet(Session)
  BY Facts, FS_Interval DEF Session
<1>2. IsFiniteSet(S)
  BY <1>1, FS_Subset
<1>3. order \in Seq(S) /\ \A s \in S : \E i \in DOMAIN order : order[i] = s
  BY <1>2, Ordered
<1>4. Len(order) \in Nat /\ DOMAIN order = 1 .. Len(order) /\ \A i \in DOMAIN order : order[i] \in S
  BY <1>3, LenProperties, ElementOfSeq
<1> QED BY <1>3, <1>4, SeqDef


LEMMA CloseTabStep == ASSUME Inv, NEW t \in Targets, CloseTab(t) PROVE Inv'
<1>0. /\ UNCHANGED <<enabled, requests, executed, Harness>> /\ Typed
      /\ t \in tabs /\ tabs' = tabs \ {t} /\ dialogs' = dialogs \ {t}
      /\ attached' = [s \in DOMAIN attached |-> IF attached[s] = t THEN None ELSE attached[s]]
      /\ tabs \subseteq Targets /\ dialogs \subseteq tabs /\ enabled \subseteq Session
      /\ None \notin tabs
  BY Facts DEF CloseTab, Inv, Typed
<1>1. PICK order \in SetToSeqs(SessionsOf(t)) :
        wire' = wire \o [i \in DOMAIN order |-> [kind |-> "detached", session |-> order[i], target |-> t]]
  BY DEF CloseTab
<1>2. DOMAIN attached = Session /\ Len(attached) \in Nat /\ \A s \in Session : attached[s] \in tabs \cup {None}
  BY <1>0, AttachedLength
<1>3. \A s : s \in SessionsOf(t) <=> s \in Session /\ attached[s] = t
  BY <1>2 DEF SessionsOf
<1>4. /\ order \in Seq(Session)
      /\ \A s \in Session : attached[s] = t => \E i \in DOMAIN order : order[i] = s
  BY <1>3, SessionsOrdered
<1>5. Len(order) \in Nat /\ DOMAIN order = 1 .. Len(order) /\ \A i \in DOMAIN order : order[i] \in Session
  BY <1>4, LenProperties, ElementOfSeq
<1> DEFINE news(s) == [kind |-> "detached", session |-> s, target |-> t]
           v == [i \in DOMAIN order |-> news(order[i])]
<1>6. v \in [1 .. Len(order) -> Message]
  <2> \A s \in Session : news(s) \in Message
    BY Facts DEF Message
  <2> QED BY <1>5
<1>7. /\ v \in Seq(Message) /\ DOMAIN v = DOMAIN order
      /\ \A i \in DOMAIN v : v[i].kind = "detached" /\ v[i].session = order[i]
  BY <1>5, <1>6, SeqDef
<1>8. wire' = wire \o v
  BY <1>1
<1> HIDE DEF v
<1>9. /\ attached' \in [1 .. Len(attached) -> tabs' \cup {None}]
      /\ \A s \in Session : attached'[s] = IF attached[s] \in tabs' THEN attached[s] ELSE None
  BY <1>0, <1>2 DEF Session
<1>10. attached' \in Seq(tabs' \cup {None}) /\ Len(attached') = Len(attached) /\ Session' = Session
  <2>1. attached' \in Seq(tabs' \cup {None})
    BY <1>2, <1>9, SeqDef
  <2>2. Len(attached') \in Nat /\ 1 .. Len(attached') = 1 .. Len(attached)
    BY <1>9, <2>1, LenProperties
  <2> QED BY <1>2, <2>1, <2>2 DEF Session
<1>11. \A s \in enabled : attached[s] \in dialogs =>
         attached'[s] \in dialogs' \/ \E i \in DOMAIN v : v[i].session = s
  BY <1>0, <1>4, <1>7, <1>9
<1>12. \A i \in DOMAIN v : v[i].kind = "detached" /\ v[i].session \in Session
  BY <1>5, <1>7
<1> QED BY <1>0, <1>7, <1>8, <1>9, <1>10, <1>11, <1>12, NewsSent

LEMMA DialogStep == ASSUME Inv, NEW t \in Targets, NEW open \in BOOLEAN, Dialog(t, open) PROVE Inv'
<1>0. /\ UNCHANGED <<tabs, attached, enabled, requests, executed, Harness>> /\ Typed
      /\ t \in tabs /\ dialogs' = IF open THEN dialogs \cup {t} ELSE dialogs \ {t}
      /\ tabs \subseteq Targets /\ dialogs \subseteq tabs /\ enabled \subseteq Session
      /\ attached \in Seq(tabs \cup {None}) /\ Session' = Session
  BY DEF Dialog, Inv, Typed, Session
<1>1. PICK order \in SetToSeqs(SessionsOf(t) \cap enabled) :
        wire' = wire \o [i \in DOMAIN order |-> [kind |-> "dialog", session |-> order[i], open |-> open]]
  BY DEF Dialog
<1>2. DOMAIN attached = Session /\ \A s \in Session : attached[s] \in tabs \cup {None}
  BY <1>0, AttachedLength
<1>3. \A s : s \in SessionsOf(t) \cap enabled <=> s \in enabled /\ attached[s] = t
  BY <1>0, <1>2 DEF SessionsOf
<1>4. /\ order \in Seq(Session)
      /\ \A i \in DOMAIN order : order[i] \in enabled /\ attached[order[i]] = t
      /\ \A s \in enabled : attached[s] = t => \E i \in DOMAIN order : order[i] = s
  <2> SessionsOf(t) \cap enabled \subseteq Session
    BY <1>0
  <2> QED BY <1>3, SessionsOrdered, SMTT(30)
<1>5. Len(order) \in Nat /\ DOMAIN order = 1 .. Len(order) /\ \A i \in DOMAIN order : order[i] \in Session
  BY <1>4, LenProperties, ElementOfSeq
<1> DEFINE news(s) == [kind |-> "dialog", session |-> s, open |-> open]
           v == [i \in DOMAIN order |-> news(order[i])]
<1>6. v \in [1 .. Len(order) -> Message]
  <2> \A s \in Session : news(s) \in Message
    BY Facts DEF Message
  <2> QED BY <1>5
<1>7. /\ v \in Seq(Message) /\ DOMAIN v = DOMAIN order
      /\ \A i \in DOMAIN v : v[i].kind = "dialog" /\ v[i].session = order[i] /\ v[i].open = open
  BY <1>5, <1>6, SeqDef
<1>8. wire' = wire \o v
  BY <1>1
<1> HIDE DEF v
<1>9. \A s \in enabled : attached[s] \in dialogs =>
        attached'[s] \in dialogs' \/ \E i \in DOMAIN v : v[i].session = s
  BY <1>0, <1>4, <1>7
<1>10. \A i \in DOMAIN v : /\ v[i].kind = "dialog" /\ v[i].session \in enabled
                           /\ v[i].open => attached'[v[i].session] \in dialogs'
  BY <1>0, <1>4, <1>7
<1>11. \A s \in Session : attached'[s] = IF attached[s] \in tabs' THEN attached[s] ELSE None
  BY <1>0, <1>2
<1>12. tabs' \subseteq tabs /\ dialogs' \subseteq tabs' /\ attached' \in Seq(tabs' \cup {None})
       /\ Len(attached') = Len(attached)
  BY <1>0
<1> QED BY <1>0, <1>7, <1>8, <1>9, <1>10, <1>11, <1>12, NewsSent

-----------------------------------------------------------------------------
(* The specification. *)

LEMMA InitInv == Init => Inv
<1> SUFFICES ASSUME Init PROVE Inv
  OBVIOUS
<1>1. Len(attached) = 0 /\ attached \in Seq(tabs \cup {None}) /\ wire \in Seq(Message) /\ DOMAIN wire = {}
      /\ DOMAIN attached = {} /\ Session = {}
  BY EmptySeq DEF Init, Session
<1>2. Typed
  BY <1>1, HarnessAssumption
  DEF Init, Typed, NewCall, Call, Place, Idle, Flight, FlightPlace, NoSession, Tab
<1>3. Commands
  BY <1>1 DEF Init, Commands, CommandOK, NewCall
<1>4. OneAnswer /\ FlightRight
  BY <1>1 DEF Init, OneAnswer, FlightRight, Idle, NewCall
<1>5. Wanted /\ SwitchSticks
  BY HarnessAssumption DEF Init, Wanted, SwitchSticks, NewCall, NoSession, Idle
<1>6. Heard /\ NoGhostDialog
  BY <1>1 DEF Init, Heard, NoGhostDialog
<1> QED BY <1>2, <1>3, <1>4, <1>5, <1>6 DEF Inv

LEMMA StepInv == Inv /\ [Next]_vars => Inv'
<1> SUFFICES ASSUME Inv, [Next]_vars PROVE Inv'
  OBVIOUS
<1>1. ASSUME NEW c \in Calls, BrowserCdp(c) \/ Timeout(c) PROVE Inv'
  BY <1>1, BrowserCdpStep, TimeoutStep
<1>2. CASE Continue \/ FlightTimeout \/ Expire \/ HandleMessage
  BY <1>2, ContinueStep, FlightTimeoutStep, ExpireStep, HandleMessageStep
<1>3. ASSUME NEW t \in Targets, SwitchTab(t) PROVE Inv'
  BY <1>3, InvalidateStep DEF SwitchTab, Tab
<1>4. CASE UseTaskSpace
  BY <1>4, InvalidateStep DEF UseTaskSpace, Tab
<1>5. ASSUME NEW r \in requests, \/ ListTabs(r) \/ AttachToTarget(r) \/ PageEnable(r)
                               \/ Execute(r) \/ RefuseToSend(r)
      PROVE  Inv'
  BY <1>5, ListTabsStep, AttachToTargetStep, PageEnableStep, ExecuteStep, RefuseToSendStep
<1>6. ASSUME NEW t \in Targets, NEW open \in BOOLEAN, CloseTab(t) \/ Dialog(t, open) PROVE Inv'
  BY <1>6, CloseTabStep, DialogStep
<1>7. CASE UNCHANGED vars
  BY <1>7 DEF vars, browser, page, Inv, Typed, Call, Flight, RequestOK, Session, Commands, CommandOK,
              AnswerTo, OneAnswer, InFlight, Asked, Awaited, Serves, FlightRight, Wanted,
              SwitchSticks, Heard, News, NoGhostDialog
<1> QED BY <1>1, <1>2, <1>3, <1>4, <1>5, <1>6, <1>7 DEF Next

LEMMA InvImplies == Inv => TypeOK /\ ExecutedOnce /\ SwitchSticks /\ NoGhostDialog
<1> SUFFICES ASSUME Inv PROVE TypeOK /\ ExecutedOnce
  BY DEF Inv
<1>1. ExecutedOnce
  BY DEF Inv, Commands, CommandOK, ExecutedOnce
<1>2. DOMAIN attached = Session /\ Typed
  BY AttachedLength DEF Inv
<1>3. \A c \in Calls : calls[c].at = "waiting" => flight.at # "idle"
  BY DEF Inv, FlightRight
<1>4. ASSUME NEW r \in requests, ~r.stale
      PROVE  IF r.from \in Calls THEN calls[r.from].at = "sent"
             ELSE flight.at \in {"listing", "attaching", "enabling"}
  <2>1. CASE r.from \in Calls
    BY <1>4, <2>1 DEF Inv, Commands, CommandOK
  <2>2. CASE r.from \notin Calls
    <3>1. InFlight(r)
      BY <1>4, <2>2, Facts DEF InFlight, RequestOK
    <3>2. Asked(r)
      BY <3>1 DEF Inv, OneAnswer
    <3> QED BY <2>2, <3>2 DEF Asked
  <2> QED BY <2>1, <2>2
<1>5. TypeOK
  BY <1>2, <1>3, <1>4 DEF TypeOK, Typed, Tab
<1> QED BY <1>1, <1>5

LEMMA Invariant == Spec => []Inv
BY InitInv, StepInv, PTL DEF Spec

(* What the runtime believes of its sessions and dialogs names sessions there have *)
(* been, a caller waits only while a session is looked up, and an answer that is   *)
(* still waited for has somebody who waits: ensureSession and pending.             *)
THEOREM TypeCorrect == Spec => []TypeOK
BY Invariant, InvImplies, PTL

(* However answers are lost, late or refused and the command is tried again on a *)
(* new session, browserCdp makes a command take effect at most once, and says it *)
(* is done only when it has.                                                     *)
THEOREM NeverTwice == Spec => []ExecutedOnce
BY Invariant, InvImplies, PTL

(* A command issued after switchTab goes to that tab as long as it is open,  *)
(* unless ensureSession was under way for another as the switch was made.    *)
THEOREM SwitchesStick == Spec => []SwitchSticks
BY Invariant, InvImplies, PTL

(* A dialog in pendingDialogs is open, or the event that takes it out again is *)
(* on its way: handleMessage never keeps a dialog that is gone.                *)
THEOREM NoGhosts == Spec => []NoGhostDialog
BY Invariant, InvImplies, PTL
=============================================================================
