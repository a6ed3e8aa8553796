---------------------------- MODULE PortalProofs ----------------------------
(***************************************************************************)
(* One portal: its pins run out and are taken down, and its messages keep  *)
(* the version they have, over repeated and late events, connections and   *)
(* restarts.                                                               *)
(***************************************************************************)
EXTENDS Portal, TLAPS

(* The events of the queue. *)

MsgTypes == {"message", "undecryptable", "resend", "edit", "revoke", "receipt"}
PinTypes == {"pin", "matrixpin", "expire"}

MsgEvents == {e \in [type : MsgTypes, msg : Msgs, ver : 0..MaxVer,
                     with : {"file", "caption", "", "url", "error"}] :
                e.type = "edit" => e.ver >= 2}
PinEvents == [type : PinTypes, msg : Pinnable, pin : Nat, until : Nat, seen : SUBSET Nat]
QEvents == MsgEvents \cup PinEvents

Elems(q) == {q[i] : i \in 1..Len(q)}
Before(q, x, y) == \E i, j \in 1..Len(q) : i < j /\ q[i] = x /\ q[j] = y

LEMMA EventsAre ==
    ASSUME NEW e \in QEvents
    PROVE  /\ e.type \in PinTypes => e \in PinEvents
           /\ e.type \in MsgTypes => e \in MsgEvents
           /\ e.type \in PinTypes \cup MsgTypes
  BY DEF QEvents, PinEvents, MsgEvents, PinTypes, MsgTypes

LEMMA PinEventIs ==
    ASSUME NEW e \in PinEvents
    PROVE  /\ e.type \in PinTypes /\ e.msg \in Pinnable
           /\ e.pin \in Nat /\ e.until \in Nat /\ e.seen \subseteq Nat
  BY DEF PinEvents

LEMMA Pushed ==
    ASSUME NEW q \in Seq(QEvents), NEW e \in QEvents
    PROVE  LET r == Append(q, e)
           IN  /\ r \in Seq(QEvents) /\ Elems(r) = Elems(q) \cup {e}
               /\ \A x, y : Before(r, x, y) => Before(q, x, y) \/ (x \in Elems(q) /\ y = e)
               /\ q # <<>> => r # Tail(q)
<1> DEFINE r == Append(q, e)
<1>1. /\ r \in Seq(QEvents) /\ Len(r) = Len(q) + 1 /\ Len(q) \in Nat
      /\ \A i \in 1..Len(q) : r[i] = q[i]
      /\ r[Len(q) + 1] = e
  OBVIOUS
<1>2. q # <<>> => Len(Tail(q)) = Len(q) - 1
  OBVIOUS
<1> HIDE DEF r
<1>3. Elems(r) = Elems(q) \cup {e}
  <2>1. 1..Len(r) = (1..Len(q)) \cup {Len(q) + 1}
    BY <1>1
  <2> QED BY <1>1, <2>1 DEF Elems
<1>4. q # <<>> => r # Tail(q)
  BY <1>1, <1>2
<1>5. ASSUME NEW x, NEW y, Before(r, x, y) PROVE Before(q, x, y) \/ (x \in Elems(q) /\ y = e)
  <2>1. PICK i, j \in 1..(Len(q) + 1) : i < j /\ r[i] = x /\ r[j] = y
    BY <1>1, <1>5 DEF Before
  <2>2. i \in 1..Len(q) /\ x = q[i]
    BY <1>1, <2>1
  <2>3. CASE j = Len(q) + 1
    BY <1>1, <2>1, <2>2, <2>3 DEF Elems
  <2>4. CASE j \in 1..Len(q)
    BY <1>1, <2>1, <2>2, <2>4 DEF Before
  <2> QED BY <1>1, <2>3, <2>4
<1> QED BY <1>1, <1>3, <1>5, <1>4 DEF r

LEMMA Taken ==
    ASSUME NEW q \in Seq(QEvents), q # <<>>
    PROVE  LET t == Tail(q)
           IN  /\ t \in Seq(QEvents) /\ Elems(q) = {Head(q)} \cup Elems(t) /\ Head(q) \in QEvents
               /\ \A x, y : Before(t, x, y) => Before(q, x, y)
               /\ \A x \in Elems(t) : Before(q, Head(q), x)
<1> DEFINE t == Tail(q)
<1>1. /\ t \in Seq(QEvents) /\ Len(t) = Len(q) - 1 /\ Len(q) \in Nat \ {0}
      /\ \A i \in 1..(Len(q) - 1) : t[i] = q[i + 1]
      /\ Head(q) = q[1] /\ Head(q) \in QEvents
  OBVIOUS
<1> HIDE DEF t
<1>2. Elems(q) = {Head(q)} \cup Elems(t)
  <2>1. ASSUME NEW i \in 1..Len(q) PROVE q[i] \in {Head(q)} \cup Elems(t)
    <3>1. CASE i = 1
      BY <1>1, <3>1
    <3>2. CASE i # 1
      <4>1. i - 1 \in 1..(Len(q) - 1) /\ t[i - 1] = q[i]
        BY <1>1, <3>2
      <4> QED BY <1>1, <4>1 DEF Elems
    <3> QED BY <3>1, <3>2
  <2>2. ASSUME NEW i \in 1..Len(t) PROVE t[i] \in Elems(q)
    BY <1>1 DEF Elems
  <2>3. Head(q) \in Elems(q)
    BY <1>1 DEF Elems
  <2> QED BY <2>1, <2>2, <2>3 DEF Elems
<1>3. ASSUME NEW x, NEW y, Before(t, x, y) PROVE Before(q, x, y)
  <2>1. PICK i, j \in 1..Len(t) : i < j /\ t[i] = x /\ t[j] = y
    BY <1>3 DEF Before
  <2>2. i + 1 \in 1..Len(q) /\ j + 1 \in 1..Len(q) /\ i + 1 < j + 1 /\ q[i + 1] = x /\ q[j + 1] = y
    BY <1>1, <2>1
  <2> QED BY <2>2 DEF Before
<1>4. ASSUME NEW x \in Elems(t) PROVE Before(q, Head(q), x)
  <2>1. PICK i \in 1..Len(t) : t[i] = x
    BY DEF Elems
  <2>2. 1 \in 1..Len(q) /\ i + 1 \in 1..Len(q) /\ 1 < i + 1 /\ q[1] = Head(q) /\ q[i + 1] = x
    BY <1>1, <2>1
  <2> QED BY <2>2 DEF Before
<1> QED BY <1>1, <1>2, <1>3, <1>4 DEF t

LEMMA NoneWait == /\ <<>> \in Seq(QEvents) /\ Elems(<<>>) = {}
                  /\ \A x, y : ~Before(<<>>, x, y)
  BY DEF Elems, Before

LEMMA MsgEventIs ==
    ASSUME NEW t \in MsgTypes, NEW m \in Msgs, NEW v \in 0..MaxVer,
           NEW w \in {"file", "caption", "", "url", "error"}, t = "edit" => v >= 2
    PROVE  Event(t, m, v, w) \in MsgEvents
<1> DEFINE e == [type |-> t, msg |-> m, ver |-> v, with |-> w]
<1>1. e \in [type : MsgTypes, msg : Msgs, ver : 0..MaxVer,
            with : {"file", "caption", "", "url", "error"}]
  OBVIOUS
<1>2. e.type = t /\ e.ver = v
  OBVIOUS
<1> HIDE DEF e
<1>3. e \in MsgEvents
  BY <1>1, <1>2 DEF MsgEvents
<1> QED BY <1>3 DEF Event, e

\* What a step of Messages does to the queue.
LEMMA MsgQueueStep ==
    ASSUME MsgNext
    PROVE  \/ queue' = queue
           \/ \E e \in MsgEvents : queue' = Append(queue, e)
           \/ queue # <<>> /\ Head(queue).type \in MsgTypes /\ queue' = Tail(queue)
<1>1. MaxVer \in Nat \ {0} /\ 0 \in 0..MaxVer /\ 1 \in 0..MaxVer
  BY MessagesAssumption
<1>2. ASSUME NEW m \in Msgs, OriginalArrives(m) \/ UndecryptableArrives(m) \/ ResendArrives(m)
               \/ RevokeArrives(m)
      PROVE  queue' = queue \/ \E e \in MsgEvents : queue' = Append(queue, e)
  <2>1. ASSUME NEW t \in {"message", "undecryptable", "resend", "revoke"}, NEW v \in {0, 1},
               NEW w \in {"file", ""}
        PROVE  Event(t, m, v, w) \in MsgEvents
    <3>1. v \in 0..MaxVer
      BY <1>1
    <3>2. t \in MsgTypes /\ t # "edit" /\ w \in {"file", "caption", "", "url", "error"}
      BY DEF MsgTypes
    <3> QED BY <3>1, <3>2, MsgEventIs
  <2> QED BY <1>2, <2>1 DEF OriginalArrives, UndecryptableArrives, ResendArrives, RevokeArrives,
                            Deliver, Refuse
<1>3. ASSUME NEW m \in Msgs, ReceiptArrives(m)
      PROVE  queue' = queue \/ \E e \in MsgEvents : queue' = Append(queue, e)
  <2>1. ASSUME NEW r \in Results PROVE Event("receipt", m, 0, r) \in MsgEvents
    <3>1. 0 \in 0..MaxVer
      BY <1>1
    <3>2. "receipt" \in MsgTypes /\ r \in {"file", "caption", "", "url", "error"}
      BY DEF MsgTypes, Results
    <3> QED BY <3>1, <3>2, MsgEventIs
  <2> QED BY <1>3, <2>1 DEF ReceiptArrives, Deliver, Refuse
<1>4. ASSUME NEW m \in Msgs, EditArrives(m)
      PROVE  queue' = queue \/ \E e \in MsgEvents : queue' = Append(queue, e)
  <2>1. ASSUME NEW v \in 2..MaxVer, NEW w \in {"caption", "file"}
        PROVE  Event("edit", m, v, w) \in MsgEvents
    <3>1. v \in 0..MaxVer /\ v >= 2
      BY <1>1
    <3>2. "edit" \in MsgTypes /\ w \in {"file", "caption", "", "url", "error"}
      BY DEF MsgTypes
    <3> QED BY <3>1, <3>2, MsgEventIs
  <2>2. PICK v \in 2..MaxVer, w \in {"caption", "file"} :
           Deliver(Event("edit", m, v, w)) \/ Refuse
    BY <1>4 DEF EditArrives
  <2> QED BY <2>1, <2>2 DEF Deliver, Refuse
<1>5. ASSUME NEW m \in Msgs, LookRequest(m) \/ SendRequest(m) \/ ExpireCache(m) PROVE queue' = queue
  BY <1>5 DEF LookRequest, SendRequest, ExpireCache, queueVars
<1>6. CASE ListRequests
  BY <1>6 DEF ListRequests, queueVars
<1>7. CASE HandleMessage \/ HandleUndecryptable \/ HandleResend \/ HandleEdit \/ HandleRevoke
             \/ HandleReceipt
  <2>1. \E t \in MsgTypes : Take(t)
    BY <1>7 DEF HandleMessage, HandleUndecryptable, HandleResend, HandleEdit, HandleRevoke,
                HandleReceipt, MsgTypes
  <2> QED BY <2>1 DEF Take, Next1
<1> QED BY <1>2, <1>3, <1>4, <1>5, <1>6, <1>7 DEF MsgNext

-----------------------------------------------------------------------------
(* The pins, for any number of messages, pins, events and connections. *)

PinPushes == {e \in PinEvents : e.type = "pin"}
Tended == timers \cup firing \cup untimed

QueueOK == queue \in Seq(QEvents) /\ arriving \subseteq PinPushes

NumbersOK ==
    /\ made \in Nat
    /\ pinned \in [Pinnable -> Nat] /\ expiry \in [Pinnable -> Nat]
    /\ \A m \in Pinnable : pinned[m] <= made
    /\ \A e \in Elems(queue) \cup arriving : e.type = "pin" => e.pin <= made

\* A pin on its way has had its timer.
WayOK ==
    /\ \A e \in Elems(queue) \cup arriving :
         e.type = "pin" => e.until \in {0, e.pin} /\ (e.until # 0 => <<e.msg, e.until>> \in Tended)
    /\ \A e \in Elems(queue) : e.type = "matrixpin" => e.until = e.pin

\* PinsTended, of the set of the events.
RecordOK ==
    \A m \in Pinnable : expiry[m] # 0 =>
        \/ sweeping
        \/ <<m, expiry[m]>> \in Tended
        \/ \E e \in Elems(queue) : e.type = "expire" /\ e.msg = m

\* A later pin than the one on record was made in Matrix, ...
ShownOK ==
    \A m \in Pinnable :
        /\ pinned[m] # 0 => m \in inDB
        /\ expiry[m] # 0 /\ pinned[m] > expiry[m] => pinned[m] \in byMatrix

\* ... and so was one later than what an event is about, or its timer saw it wait.
EventsOK ==
    \A e \in Elems(queue) :
        /\ e.type = "expire" /\ pinned[e.msg] > e.pin => pinned[e.msg] \in e.seen \cup byMatrix
        /\ e.type = "matrixpin" /\ e.pin # 0 /\ pinned[e.msg] > e.pin => pinned[e.msg] \in byMatrix

\* The pins ahead of an event.
AheadOK ==
    \A x, y \in Elems(queue) : Before(queue, x, y) /\ x.type = "pin" /\ x.msg = y.msg =>
        /\ y.type = "expire" => x.pin \in y.seen
        /\ y.type = "matrixpin" /\ y.pin # 0 => x.pin < y.pin

PinInv == QueueOK /\ NumbersOK /\ WayOK /\ RecordOK /\ ShownOK /\ EventsOK /\ AheadOK

LEMMA PinStarts == Init => PinInv
<1> SUFFICES ASSUME Init PROVE PinInv
  OBVIOUS
<1>1. /\ queue = <<>> /\ arriving = {} /\ made = 0
      /\ pinned = [m \in Pinnable |-> 0] /\ expiry = [m \in Pinnable |-> 0]
  BY DEF Init, PinInit
<1>2. queue \in Seq(QEvents) /\ Elems(queue) = {}
  BY <1>1, NoneWait
<1> QED BY <1>1, <1>2 DEF PinInv, QueueOK, NumbersOK, WayOK, RecordOK, ShownOK, EventsOK, AheadOK

LEMMA PinImplies == PinInv => PinsTended
<1> SUFFICES ASSUME PinInv, NEW m \in Pinnable, expiry[m] # 0,
                    \E e \in Elems(queue) : e.type = "expire" /\ e.msg = m
             PROVE  \E i \in DOMAIN queue : queue[i].type = "expire" /\ queue[i].msg = m
  BY DEF PinInv, RecordOK, PinsTended, Tended
<1>1. DOMAIN queue = 1..Len(queue)
  BY DEF PinInv, QueueOK
<1> QED BY <1>1 DEF Elems

\* What the queue, once an event is pushed or taken, keeps of the old one.
LEMMA AheadKept ==
    ASSUME PinInv, queue' \in Seq(QEvents), arriving' \subseteq PinPushes,
           NEW new, Elems(queue') \subseteq Elems(queue) \cup new,
           \A x, y : Before(queue', x, y) => Before(queue, x, y) \/ (x \in Elems(queue) /\ y \in new),
           \A x \in Elems(queue), y \in new : x.type = "pin" /\ x.msg = y.msg =>
              /\ y.type = "expire" => x.pin \in y.seen
              /\ y.type = "matrixpin" /\ y.pin # 0 => x.pin < y.pin
    PROVE  QueueOK' /\ AheadOK'
<1>1. QueueOK'
  BY DEF QueueOK
<1>2. \A x, y : Before(queue, x, y) => x \in Elems(queue) /\ y \in Elems(queue)
  BY DEF Before, Elems
<1>3. AheadOK'
  BY <1>2 DEF PinInv, AheadOK
<1> QED BY <1>1, <1>3

\* The steps of Messages.
LEMMA MsgKeepsPins ==
    ASSUME PinInv, MsgNext, PinsFollow
    PROVE  PinInv'
<1> USE DEF PinInv
<1>1. /\ UNCHANGED <<made, byMatrix, arriving, expiry, sweeping, Tended>>
      /\ pinned' = [m \in Pinnable |-> IF m \in inDB' THEN pinned[m] ELSE 0]
  BY DEF PinsFollow, Tended
<1> DEFINE Fits(new) ==
      /\ queue' \in Seq(QEvents)
      /\ Elems(queue') \subseteq Elems(queue) \cup new
      /\ \A e \in Elems(queue) : e.type = "expire" => e \in Elems(queue')
      /\ \A x, y : Before(queue', x, y) => Before(queue, x, y) \/ (x \in Elems(queue) /\ y \in new)
<1>2. \E new \in SUBSET MsgEvents : Fits(new)
  <2>1. queue \in Seq(QEvents)
    BY DEF QueueOK
  <2>2. ASSUME queue' = queue PROVE Fits({})
    BY <2>1, <2>2
  <2>3. ASSUME NEW e \in MsgEvents, queue' = Append(queue, e)
        PROVE  Fits({e})
    <3>1. e \in QEvents
      BY DEF QEvents
    <3> QED BY <2>1, <2>3, <3>1, Pushed
  <2>4. ASSUME queue # <<>>, Head(queue).type \in MsgTypes, queue' = Tail(queue) PROVE Fits({})
    <3>1. /\ queue' \in Seq(QEvents) /\ Elems(queue) = {Head(queue)} \cup Elems(queue')
          /\ \A x, y : Before(queue', x, y) => Before(queue, x, y)
      BY <2>1, <2>4, Taken
    <3>2. Head(queue).type # "expire"
      BY <2>4 DEF MsgTypes
    <3> QED BY <3>1, <3>2
  <2> HIDE DEF Fits
  <2>5. {} \in SUBSET MsgEvents /\ \A e \in MsgEvents : {e} \in SUBSET MsgEvents
    OBVIOUS
  <2> QED BY <2>2, <2>3, <2>4, <2>5, MsgQueueStep
<1>3. PICK new \in SUBSET MsgEvents : Fits(new)
  BY <1>2
<1>4. \A e \in new : e.type \notin {"pin", "matrixpin", "expire"}
  BY DEF MsgEvents, MsgTypes
<1>5. /\ \A e \in Elems(queue') : e.type \in {"pin", "matrixpin", "expire"} => e \in Elems(queue)
      /\ \A e \in Elems(queue) : e \in QEvents
  BY <1>3, <1>4 DEF QueueOK, Elems
<1>6. QueueOK' /\ AheadOK'
  BY <1>1, <1>3, <1>4, AheadKept DEF QueueOK
<1>7. \A m \in Pinnable : pinned'[m] \in {pinned[m], 0} /\ pinned[m] \in Nat
  BY <1>1 DEF NumbersOK
<1>8. NumbersOK'
  <2>1. pinned' \in [Pinnable -> Nat] /\ \A m \in Pinnable : pinned'[m] <= made
    BY <1>1, <1>7 DEF NumbersOK
  <2> QED BY <1>1, <1>5, <2>1 DEF NumbersOK
<1>9. WayOK'
  BY <1>1, <1>5 DEF WayOK
<1>10. RecordOK'
  BY <1>1, <1>3 DEF RecordOK
<1>11. ShownOK'
  BY <1>1, <1>7 DEF ShownOK, NumbersOK
<1>12. EventsOK'
  <2> SUFFICES ASSUME NEW e \in Elems(queue), e.type \in {"expire", "matrixpin"}
               PROVE  /\ e.type = "expire" /\ pinned'[e.msg] > e.pin =>
                           pinned'[e.msg] \in e.seen \cup byMatrix
                      /\ e.type = "matrixpin" /\ e.pin # 0 /\ pinned'[e.msg] > e.pin =>
                           pinned'[e.msg] \in byMatrix
    BY <1>1, <1>5 DEF EventsOK
  <2>1. e.msg \in Pinnable /\ e.pin \in Nat
    BY <1>5, EventsAre, PinEventIs DEF PinTypes
  <2>2. ~(0 > e.pin)
    BY <2>1
  <2> QED BY <1>7, <2>1, <2>2 DEF EventsOK
<1> QED BY <1>6, <1>8, <1>9, <1>10, <1>11, <1>12

LEMMA NewPinEvent ==
    ASSUME NEW t \in PinTypes, NEW m \in Pinnable, NEW k \in Nat, NEW x \in Nat, NEW s \in SUBSET Nat
    PROVE  LET e == PinEvent(t, m, k, x, s)
           IN  /\ e \in PinEvents /\ e.type = t /\ e.msg = m /\ e.pin = k /\ e.until = x /\ e.seen = s
  BY DEF PinEvent, PinEvents

LEMMA PinPushedIs ==
    ASSUME PinInv, NEW e \in PinEvents, queue' = Append(queue, e), arriving' \subseteq PinPushes,
           \A x \in Elems(queue) : x.type = "pin" /\ x.msg = e.msg =>
              /\ e.type = "expire" => x.pin \in e.seen
              /\ e.type = "matrixpin" /\ e.pin # 0 => x.pin < e.pin
    PROVE  QueueOK' /\ AheadOK' /\ Elems(queue') = Elems(queue) \cup {e}
<1> DEFINE new == {e}
<1>1. queue \in Seq(QEvents) /\ e \in QEvents
  BY DEF PinInv, QueueOK, QEvents
<1>2. /\ queue' \in Seq(QEvents) /\ Elems(queue') = Elems(queue) \cup new
      /\ \A x, y : Before(queue', x, y) => Before(queue, x, y) \/ (x \in Elems(queue) /\ y \in new)
  BY <1>1, Pushed
<1>3. \A x \in Elems(queue), y \in new : x.type = "pin" /\ x.msg = y.msg =>
        /\ y.type = "expire" => x.pin \in y.seen
        /\ y.type = "matrixpin" /\ y.pin # 0 => x.pin < y.pin
  OBVIOUS
<1> HIDE DEF new
<1>4. QueueOK' /\ AheadOK'
  BY <1>2, <1>3, AheadKept
<1> QED BY <1>2, <1>4 DEF new

LEMMA PinTakenIs ==
    ASSUME PinInv, queue # <<>>, Head(queue).type \in PinTypes, queue' = Tail(queue),
           arriving' = arriving
    PROVE  /\ QueueOK' /\ AheadOK'
           /\ Elems(queue) = {Head(queue)} \cup Elems(queue')
           /\ Head(queue) \in PinEvents /\ Head(queue) \in Elems(queue)
           /\ \A x \in Elems(queue') : Before(queue, Head(queue), x) /\ x \in Elems(queue)
           /\ \A x \in Elems(queue') : x.type \in PinTypes => x \in PinEvents
<1>1. queue \in Seq(QEvents) /\ arriving \subseteq PinPushes
  BY DEF PinInv, QueueOK
<1>2. /\ queue' \in Seq(QEvents) /\ Elems(queue) = {Head(queue)} \cup Elems(queue')
      /\ Head(queue) \in QEvents
      /\ \A x, y : Before(queue', x, y) => Before(queue, x, y)
      /\ \A x \in Elems(queue') : Before(queue, Head(queue), x)
  BY <1>1, Taken
<1>3. QueueOK' /\ AheadOK'
  <2> DEFINE new == {}
  <2>1. /\ Elems(queue') \subseteq Elems(queue) \cup new
        /\ \A x, y : Before(queue', x, y) => Before(queue, x, y) \/ (x \in Elems(queue) /\ y \in new)
        /\ \A x \in Elems(queue), y \in new : x.type = "pin" /\ x.msg = y.msg =>
              /\ y.type = "expire" => x.pin \in y.seen
              /\ y.type = "matrixpin" /\ y.pin # 0 => x.pin < y.pin
    BY <1>2
  <2> HIDE DEF new
  <2> QED BY <1>1, <1>2, <2>1, AheadKept
<1>4. \A x \in Elems(queue') : x \in QEvents
  BY <1>2 DEF Elems
<1> QED BY <1>2, <1>3, <1>4, EventsAre

\* A pin message arrives and is pushed.
LEMMA ArrivingKeeps ==
    ASSUME PinInv, NEW m \in Pinnable, PinArrives(m) \/ PinPushed \/ UnpinArrives(m)
    PROVE  PinInv'
<1> USE DEF PinInv
<1>1. CASE PinArrives(m)
  <2>1. PICK k \in 1..MaxPins : \E x \in {0, k} :
          /\ made' = IF k > made THEN k ELSE made
          /\ arriving' = {PinEvent("pin", m, k, x, {})}
          /\ timers' = timers \cup {key \in {<<m, x>>} : key[2] # 0}
    BY <1>1 DEF PinArrives, Arm
  <2>2. PICK x \in {0, k} :
          /\ made' = IF k > made THEN k ELSE made
          /\ arriving' = {PinEvent("pin", m, k, x, {})}
          /\ timers' = timers \cup {key \in {<<m, x>>} : key[2] # 0}
    BY <2>1
  <2>3. UNCHANGED <<queue, inDB, byMatrix, pinned, expiry, firing, sweeping, untimed>>
    BY <1>1 DEF PinArrives, queueVars
  <2> DEFINE e == PinEvent("pin", m, k, x, {})
  <2>4. e \in PinEvents /\ e.type = "pin" /\ e.msg = m /\ e.pin = k /\ e.until = x
    BY NewPinEvent DEF PinTypes
  <2> HIDE DEF e
  <2>5. made' \in Nat /\ made <= made' /\ k <= made' /\ k \in Nat
    BY <2>2 DEF NumbersOK
  <2>6. Tended \subseteq Tended' /\ (x # 0 => <<m, x>> \in Tended')
    <3>1. x # 0 => <<m, x>> \in timers'
      BY <2>2
    <3> QED BY <2>2, <2>3, <3>1 DEF Tended
  <2>7. QueueOK'
    BY <2>2, <2>3, <2>4 DEF QueueOK, PinPushes, e
  <2>8. AheadOK' /\ ShownOK' /\ EventsOK'
    BY <2>3 DEF AheadOK, ShownOK, EventsOK
  <2>9. NumbersOK'
    <3>1. \A n \in Pinnable : pinned[n] <= made'
      BY <2>5 DEF NumbersOK
    <3>2. ASSUME NEW f \in Elems(queue), f.type = "pin" PROVE f.pin <= made'
      <4>1. f \in QEvents
        BY DEF QueueOK, Elems
      <4>2. f.pin \in Nat
        BY <3>2, <4>1, EventsAre, PinEventIs DEF PinTypes
      <4> QED BY <2>5, <3>2, <4>2 DEF NumbersOK
    <3>3. \A f \in arriving' : f.pin <= made'
      BY <2>2, <2>4, <2>5 DEF e
    <3> QED BY <2>3, <2>5, <3>1, <3>2, <3>3 DEF NumbersOK
  <2>10. WayOK'
    <3>1. \A f \in arriving' : f.until \in {0, f.pin} /\ (f.until # 0 => <<f.msg, f.until>> \in Tended')
      BY <2>2, <2>4, <2>6 DEF e
    <3> QED BY <2>3, <2>6, <3>1 DEF WayOK
  <2>11. RecordOK'
    BY <2>3, <2>6 DEF RecordOK
  <2> QED BY <2>7, <2>8, <2>9, <2>10, <2>11
<1>2. CASE PinPushed
  <2>1. PICK e \in arriving : queue' = Append(queue, e)
    BY <1>2 DEF PinPushed, Deliver
  <2>2. /\ UNCHANGED <<inDB, made, byMatrix, pinned, expiry, sweeping, Tended>>
        /\ arriving' = {}
    BY <1>2 DEF PinPushed, Tended
  <2>3. e \in PinEvents /\ e.type = "pin"
    BY DEF QueueOK, PinPushes
  <2>4. QueueOK' /\ AheadOK' /\ Elems(queue') = Elems(queue) \cup {e}
    BY <2>1, <2>2, <2>3, PinPushedIs
  <2>5. Elems(queue') \cup arriving' \subseteq Elems(queue) \cup arriving
    BY <2>2, <2>4
  <2>6. NumbersOK'
    BY <2>2, <2>5 DEF NumbersOK
  <2>7. WayOK'
    BY <2>2, <2>3, <2>4, <2>5 DEF WayOK
  <2>8. RecordOK'
    BY <2>2, <2>4 DEF RecordOK
  <2>9. ShownOK'
    BY <2>2 DEF ShownOK
  <2>10. EventsOK'
    BY <2>2, <2>3, <2>4 DEF EventsOK
  <2> QED BY <2>4, <2>6, <2>7, <2>8, <2>9, <2>10
<1>3. CASE UnpinArrives(m)
  <2> DEFINE e == PinEvent("pin", m, 0, 0, {})
  <2>1. /\ queue' = Append(queue, e)
        /\ UNCHANGED <<inDB, made, byMatrix, arriving, pinned, expiry, sweeping, Tended>>
    BY <1>3 DEF UnpinArrives, Deliver, pinVars, Tended
  <2>2. e \in PinEvents /\ e.type = "pin" /\ e.pin = 0 /\ e.until = 0
    BY NewPinEvent DEF PinTypes
  <2> HIDE DEF e
  <2>3. arriving' \subseteq PinPushes
    BY <2>1 DEF QueueOK
  <2>4. QueueOK' /\ AheadOK' /\ Elems(queue') = Elems(queue) \cup {e}
    BY <2>1, <2>2, <2>3, PinPushedIs
  <2>5. NumbersOK'
    BY <2>1, <2>2, <2>4 DEF NumbersOK
  <2>6. WayOK'
    BY <2>1, <2>2, <2>4 DEF WayOK
  <2>7. RecordOK'
    BY <2>1, <2>4 DEF RecordOK
  <2>8. ShownOK'
    BY <2>1 DEF ShownOK
  <2>9. EventsOK'
    BY <2>1, <2>2, <2>4 DEF EventsOK
  <2> QED BY <2>4, <2>5, <2>6, <2>7, <2>8, <2>9
<1> QED BY <1>1, <1>2, <1>3

\* A Matrix user pins or unpins.
LEMMA UserKeeps ==
    ASSUME PinInv, NEW m \in Pinnable, UserPins(m)
    PROVE  PinInv'
<1> USE DEF PinInv
<1>1. PICK k \in {0, made + 1} :
        /\ queue' = Append(queue, PinEvent("matrixpin", m, k, k, {}))
        /\ pinned' = [pinned EXCEPT ![m] = k]
        /\ made' = IF k = 0 THEN made ELSE k
        /\ byMatrix' = IF k = 0 THEN byMatrix ELSE byMatrix \cup {k}
  <2>1. made \in Nat
    BY DEF NumbersOK
  <2> QED BY <2>1 DEF UserPins, Deliver
<1>2. /\ m \in inDB /\ UNCHANGED <<inDB, arriving, expiry, sweeping, Tended>>
      /\ made \in Nat /\ k \in Nat
  BY DEF UserPins, Tended, NumbersOK
<1> DEFINE e == PinEvent("matrixpin", m, k, k, {})
<1>3. e \in PinEvents /\ e.type = "matrixpin" /\ e.msg = m /\ e.pin = k /\ e.until = k
  BY <1>2, NewPinEvent DEF PinTypes
<1>4. queue' = Append(queue, e)
  BY <1>1
<1> HIDE DEF e
<1>5. \A f \in Elems(queue) : /\ f \in QEvents
                              /\ f.type \in PinTypes => f.pin \in Nat /\ f.msg \in Pinnable
  BY EventsAre, PinEventIs DEF QueueOK, Elems
<1>6. \A f \in Elems(queue) : f.type = "pin" /\ k # 0 => f.pin < k
  BY <1>1, <1>2, <1>5 DEF NumbersOK, PinTypes
<1>7. QueueOK' /\ AheadOK' /\ Elems(queue') = Elems(queue) \cup {e}
  <2>1. arriving' \subseteq PinPushes
    BY <1>2 DEF QueueOK
  <2> QED BY <1>3, <1>4, <1>6, <2>1, PinPushedIs
<1>8. made' \in Nat /\ made <= made' /\ k <= made'
  BY <1>1, <1>2
<1>9. NumbersOK'
  <2>1. pinned' \in [Pinnable -> Nat] /\ \A n \in Pinnable : pinned'[n] <= made'
    BY <1>1, <1>2, <1>8 DEF NumbersOK
  <2>2. ASSUME NEW f \in Elems(queue') \cup arriving', f.type = "pin" PROVE f.pin <= made'
    <3>1. f \in Elems(queue) \cup arriving
      BY <1>2, <1>3, <1>7, <2>2
    <3>2. f.pin \in Nat
      BY <1>5, <2>2, <3>1, PinEventIs DEF QueueOK, PinPushes, PinTypes
    <3> QED BY <1>2, <1>8, <2>2, <3>1, <3>2 DEF NumbersOK
  <2> QED BY <1>2, <1>8, <2>1, <2>2 DEF NumbersOK
<1>10. WayOK'
  BY <1>2, <1>3, <1>7 DEF WayOK
<1>11. RecordOK'
  BY <1>2, <1>7 DEF RecordOK
<1>12. /\ pinned'[m] = 0 \/ pinned'[m] \in byMatrix'
       /\ \A n \in Pinnable \ {m} : pinned'[n] = pinned[n]
       /\ byMatrix \subseteq byMatrix'
  BY <1>1 DEF NumbersOK
<1>13. ShownOK'
  BY <1>2, <1>12 DEF ShownOK, NumbersOK
<1>14. EventsOK'
  <2>1. \A f \in Elems(queue) : f.type \in PinTypes => ~(0 > f.pin)
    BY <1>5
  <2>2. ASSUME NEW f \in Elems(queue), f.type \in {"expire", "matrixpin"}
        PROVE  /\ f.type = "expire" /\ pinned'[f.msg] > f.pin => pinned'[f.msg] \in f.seen \cup byMatrix'
               /\ f.type = "matrixpin" /\ f.pin # 0 /\ pinned'[f.msg] > f.pin => pinned'[f.msg] \in byMatrix'
    BY <1>5, <1>12, <2>1, <2>2 DEF EventsOK, PinTypes
  <2>3. ~(pinned'[m] > k)
    BY <1>1, <1>2 DEF NumbersOK
  <2> QED BY <1>3, <1>7, <2>2, <2>3 DEF EventsOK
<1> QED BY <1>7, <1>9, <1>10, <1>11, <1>13, <1>14

\* The portal's loop applies a pin, ...
LEMMA HandlePinKeeps == ASSUME PinInv, HandlePin PROVE PinInv'
<1> USE DEF PinInv
<1> DEFINE h == Head(queue)
           m == h.msg
<1>1. /\ queue # <<>> /\ h.type = "pin" /\ queue' = Tail(queue)
      /\ pinned' = [pinned EXCEPT ![m] = IF m \in inDB THEN h.pin ELSE @]
      /\ expiry' = [expiry EXCEPT ![m] = h.until]
      /\ UNCHANGED <<inDB, made, byMatrix, arriving, sweeping, Tended>>
  BY DEF HandlePin, Take, Next1, SetPinned, SetPinExpiry, Tended
<1>2. /\ QueueOK' /\ AheadOK'
      /\ Elems(queue) = {h} \cup Elems(queue')
      /\ h \in PinEvents /\ h \in Elems(queue)
      /\ \A x \in Elems(queue') : Before(queue, h, x) /\ x \in Elems(queue)
      /\ \A x \in Elems(queue') : x.type \in PinTypes => x \in PinEvents
  BY <1>1, PinTakenIs DEF PinTypes
<1>3. m \in Pinnable /\ h.pin \in Nat /\ h.until \in Nat /\ h.pin <= made
  BY <1>1, <1>2, PinEventIs DEF NumbersOK
<1> HIDE DEF h, m
<1>4. h.until \in {0, h.pin} /\ (h.until # 0 => <<m, h.until>> \in Tended)
  BY <1>1, <1>2 DEF WayOK, m
<1>5. /\ pinned' \in [Pinnable -> Nat] /\ expiry' \in [Pinnable -> Nat]
      /\ pinned'[m] = (IF m \in inDB THEN h.pin ELSE 0) /\ expiry'[m] = h.until
      /\ \A n \in Pinnable \ {m} : pinned'[n] = pinned[n] /\ expiry'[n] = expiry[n]
  BY <1>1, <1>3 DEF NumbersOK, ShownOK
<1>6. NumbersOK'
  <2>1. \A n \in Pinnable : pinned'[n] <= made
    BY <1>3, <1>5 DEF NumbersOK
  <2> QED BY <1>1, <1>2, <1>5, <2>1 DEF NumbersOK
<1>7. WayOK'
  BY <1>1, <1>2 DEF WayOK
<1>8. RecordOK'
  BY <1>1, <1>2, <1>4, <1>5 DEF RecordOK
<1>9. ShownOK'
  BY <1>1, <1>3, <1>4, <1>5 DEF ShownOK, NumbersOK
<1>10. EventsOK'
  <2> SUFFICES ASSUME NEW e \in Elems(queue'), e.type \in {"expire", "matrixpin"}
               PROVE  /\ e.type = "expire" /\ pinned'[e.msg] > e.pin =>
                           pinned'[e.msg] \in e.seen \cup byMatrix
                      /\ e.type = "matrixpin" /\ e.pin # 0 /\ pinned'[e.msg] > e.pin =>
                           pinned'[e.msg] \in byMatrix
    BY <1>1 DEF EventsOK
  <2>1. e.msg \in Pinnable /\ e.pin \in Nat /\ e \in Elems(queue)
    BY <1>2, PinEventIs DEF PinTypes
  <2>2. CASE e.msg # m
    BY <1>5, <2>1, <2>2 DEF EventsOK
  <2>3. CASE e.msg = m
    <3>1. /\ e.type = "expire" => h.pin \in e.seen
          /\ e.type = "matrixpin" /\ e.pin # 0 => h.pin < e.pin
      BY <1>1, <1>2, <2>1, <2>3 DEF AheadOK, m
    <3>2. ~(0 > e.pin) /\ (h.pin < e.pin => ~(h.pin > e.pin))
      BY <1>3, <2>1
    <3> QED BY <1>5, <2>3, <3>1, <3>2
  <2> QED BY <2>2, <2>3
<1> QED BY <1>2, <1>6, <1>7, <1>8, <1>9, <1>10

\* ... a user's pin that WhatsApp took or refused, ...
LEMMA HandleMatrixPinKeeps == ASSUME PinInv, HandleMatrixPin PROVE PinInv'
<1> USE DEF PinInv
<1> DEFINE h == Head(queue)
           m == h.msg
<1>1. /\ queue # <<>> /\ h.type = "matrixpin" /\ queue' = Tail(queue)
      /\ UNCHANGED <<inDB, made, byMatrix, arriving, pinned, firing, sweeping, untimed>>
      /\ \/ /\ timers' = timers \cup {key \in {<<m, h.until>>} : key[2] # 0}
            /\ expiry' = [expiry EXCEPT ![m] = h.until]
         \/ UNCHANGED <<timers, expiry>>
  BY DEF HandleMatrixPin, Take, Next1, SetPinExpiry, Arm
<1>2. /\ QueueOK' /\ AheadOK'
      /\ Elems(queue) = {h} \cup Elems(queue')
      /\ h \in PinEvents /\ h \in Elems(queue)
  BY <1>1, PinTakenIs DEF PinTypes
<1>3. m \in Pinnable /\ h.pin \in Nat /\ h.until \in Nat
  BY <1>2, PinEventIs
<1> HIDE DEF h, m
<1>4. h.until = h.pin /\ (h.pin # 0 /\ pinned[m] > h.pin => pinned[m] \in byMatrix)
  BY <1>1, <1>2 DEF WayOK, EventsOK, m
<1>5. /\ expiry' \in [Pinnable -> Nat]
      /\ expiry'[m] = h.until \/ expiry'[m] = expiry[m]
      /\ \A n \in Pinnable \ {m} : expiry'[n] = expiry[n]
  BY <1>1, <1>3 DEF NumbersOK
<1>6. Tended \subseteq Tended' /\ (expiry'[m] = expiry[m] \/ (h.until # 0 => <<m, h.until>> \in Tended'))
  <2>1. CASE UNCHANGED <<timers, expiry>>
    BY <1>1, <2>1 DEF Tended
  <2>2. CASE timers' = timers \cup {key \in {<<m, h.until>>} : key[2] # 0}
    <3>1. h.until # 0 => <<m, h.until>> \in timers'
      BY <2>2
    <3>2. timers \subseteq timers'
      BY <2>2
    <3> QED BY <1>1, <3>1, <3>2 DEF Tended
  <2> QED BY <1>1, <2>1, <2>2
<1>7. NumbersOK'
  BY <1>1, <1>2, <1>5 DEF NumbersOK
<1>8. WayOK'
  BY <1>1, <1>2, <1>6 DEF WayOK
<1>9. RecordOK'
  BY <1>1, <1>2, <1>5, <1>6 DEF RecordOK
<1>10. ShownOK'
  BY <1>1, <1>4, <1>5 DEF ShownOK
<1>11. EventsOK'
  BY <1>1, <1>2 DEF EventsOK
<1> QED BY <1>2, <1>7, <1>8, <1>9, <1>10, <1>11

\* ... and the end of a pin.
LEMMA HandleExpireKeeps == ASSUME PinInv, HandleExpire PROVE PinInv'
<1> USE DEF PinInv
<1> DEFINE h == Head(queue)
           m == h.msg
<1>1. /\ queue # <<>> /\ h.type = "expire" /\ queue' = Tail(queue)
      /\ pinned' = [pinned EXCEPT ![m] = IF m \in inDB THEN 0 ELSE @]
      /\ expiry' = [expiry EXCEPT ![m] = 0]
      /\ UNCHANGED <<inDB, made, byMatrix, arriving, sweeping, Tended>>
  BY DEF HandleExpire, Take, Next1, SetPinned, SetPinExpiry, Tended
<1>2. /\ QueueOK' /\ AheadOK'
      /\ Elems(queue) = {h} \cup Elems(queue')
      /\ h \in PinEvents
      /\ \A x \in Elems(queue') : x.type \in PinTypes => x \in PinEvents
  BY <1>1, PinTakenIs DEF PinTypes
<1>3. m \in Pinnable
  BY <1>2, PinEventIs
<1> HIDE DEF h, m
<1>4. /\ pinned' \in [Pinnable -> Nat] /\ expiry' \in [Pinnable -> Nat]
      /\ pinned'[m] = 0 /\ expiry'[m] = 0
      /\ \A n \in Pinnable \ {m} : pinned'[n] = pinned[n] /\ expiry'[n] = expiry[n]
  BY <1>1, <1>3 DEF NumbersOK, ShownOK
<1>5. NumbersOK'
  BY <1>1, <1>2, <1>3, <1>4 DEF NumbersOK
<1>6. WayOK'
  BY <1>1, <1>2 DEF WayOK
<1>7. RecordOK'
  BY <1>1, <1>2, <1>4 DEF RecordOK, m
<1>8. ShownOK'
  BY <1>1, <1>4 DEF ShownOK
<1>9. EventsOK'
  <2>1. \A e \in Elems(queue') : e.type \in PinTypes => e.msg \in Pinnable /\ ~(0 > e.pin)
    <3>1. ASSUME NEW e \in Elems(queue'), e.type \in PinTypes PROVE e.msg \in Pinnable /\ e.pin \in Nat
      BY <1>2, <3>1, PinEventIs
    <3> QED BY <3>1
  <2> QED BY <1>1, <1>2, <1>4, <2>1 DEF EventsOK, PinTypes
<1> QED BY <1>2, <1>5, <1>6, <1>7, <1>8, <1>9

\* Timers fire and look, and the sweep arms them anew.
LEMMA TimerKeeps ==
    ASSUME PinInv, NEW key \in Keys, TimerFires(key) \/ ExpirePin(key) \/ ExpirePinFails(key)
    PROVE  PinInv'
<1> USE DEF PinInv
<1>1. key[1] \in Pinnable /\ key[2] \in Nat \ {0} /\ key = <<key[1], key[2]>>
  BY PinsAssumption DEF Keys
<1>2. CASE TimerFires(key) \/ ExpirePinFails(key)
  <2>1. /\ UNCHANGED <<queue, inDB, made, byMatrix, arriving, pinned, expiry, sweeping>>
        /\ Tended' = Tended
    BY <1>2 DEF TimerFires, ExpirePinFails, queueVars, Tended
  <2> QED BY <2>1 DEF QueueOK, NumbersOK, WayOK, RecordOK, ShownOK, EventsOK, AheadOK
<1>3. CASE ExpirePin(key)
  <2> DEFINE m == key[1]
             k == key[2]
  <2>1. /\ UNCHANGED <<inDB, made, byMatrix, arriving, pinned, expiry, timers, sweeping>>
        /\ firing' = firing \ {key}
        /\ untimed' = IF k \in Waiting(m) \cup {e.pin : e \in arriving} THEN untimed \cup {key} ELSE untimed
    BY <1>3 DEF ExpirePin
  <2>2. \A x \in Elems(queue) : x.type = "pin" /\ x.msg = m => x.pin \in Waiting(m)
    BY DEF Waiting, Elems, QueueOK
  <2>3. Waiting(m) \in SUBSET Nat
    <3>1. \A x \in Elems(queue) : x \in QEvents
      BY DEF Elems, QueueOK
    <3>2. \A x \in Elems(queue) : x.type = "pin" => x.pin \in Nat
      BY <3>1, EventsAre, PinEventIs DEF PinTypes
    <3>3. DOMAIN queue = 1..Len(queue)
      BY DEF QueueOK
    <3> QED BY <3>2, <3>3 DEF Waiting, Elems
  <2>4. \A f \in Tended : f \in Tended' \/ f = key
    BY <2>1 DEF Tended
  <2>5. ASSUME NEW x \in Elems(queue) \cup arriving, x.type = "pin", x.until # 0
        PROVE  x.until \in {0, x.pin} /\ <<x.msg, x.until>> \in Tended'
    <3>1. x.until = x.pin /\ <<x.msg, x.until>> \in Tended
      BY <2>5 DEF WayOK
    <3>2. CASE <<x.msg, x.until>> = key
      <4>1. x.msg = m /\ x.pin = k
        BY <3>1, <3>2
      <4>2. k \in Waiting(m) \cup {e.pin : e \in arriving}
        BY <2>2, <2>5, <4>1
      <4> QED BY <2>1, <3>1, <3>2, <4>2 DEF Tended
    <3> QED BY <2>4, <3>1, <3>2
  <2>6. CASE expiry[m] # k
    <3>1. queue' = queue
      BY <1>3, <2>6 DEF ExpirePin, Stale, queueVars
    <3>2. QueueOK' /\ NumbersOK' /\ ShownOK' /\ EventsOK' /\ AheadOK'
      BY <2>1, <3>1 DEF QueueOK, NumbersOK, ShownOK, EventsOK, AheadOK
    <3>3. WayOK'
      BY <2>1, <2>5, <3>1 DEF WayOK
    <3>4. \A n \in Pinnable : <<n, expiry[n]>> # key
      BY <1>1, <2>6
    <3>5. RecordOK'
      BY <2>1, <2>4, <3>1, <3>4 DEF RecordOK
    <3> QED BY <3>2, <3>3, <3>5
  <2>7. CASE expiry[m] = k
    <3> DEFINE e == PinEvent("expire", m, k, 0, Waiting(m))
    <3>1. queue' = Append(queue, e)
      BY <1>3, <2>7 DEF ExpirePin, Stale, Push
    <3>2. /\ e \in PinEvents /\ e.type = "expire" /\ e.msg = m /\ e.pin = k /\ e.until = 0
          /\ e.seen = Waiting(m)
      BY <1>1, <2>3, NewPinEvent DEF PinTypes
    <3> HIDE DEF e
    <3>3. QueueOK' /\ AheadOK' /\ Elems(queue') = Elems(queue) \cup {e}
      <4>1. arriving' \subseteq PinPushes
        BY <2>1 DEF QueueOK
      <4> QED BY <2>2, <3>1, <3>2, <4>1, PinPushedIs
    <3>4. NumbersOK'
      BY <2>1, <3>2, <3>3 DEF NumbersOK
    <3>5. WayOK'
      BY <2>1, <2>5, <3>2, <3>3 DEF WayOK
    <3>6. RecordOK'
      <4> SUFFICES ASSUME NEW n \in Pinnable, expiry[n] # 0
                   PROVE  \/ sweeping
                          \/ <<n, expiry[n]>> \in Tended'
                          \/ \E f \in Elems(queue') : f.type = "expire" /\ f.msg = n
        BY <2>1 DEF RecordOK
      <4>1. CASE n = m
        BY <3>2, <3>3, <4>1
      <4>2. CASE n # m
        <5>1. <<n, expiry[n]>> # key
          BY <1>1, <4>2
        <5> QED BY <2>4, <3>3, <5>1 DEF RecordOK
      <4> QED BY <4>1, <4>2
    <3>7. ShownOK'
      BY <2>1 DEF ShownOK
    <3>8. EventsOK'
      <4>1. pinned[m] > k => pinned[m] \in byMatrix
        BY <1>1, <2>7 DEF ShownOK
      <4> QED BY <2>1, <3>2, <3>3, <4>1 DEF EventsOK
    <3> QED BY <3>3, <3>4, <3>5, <3>6, <3>7, <3>8
  <2> QED BY <2>6, <2>7
<1> QED BY <1>2, <1>3

LEMMA SweepKeeps == ASSUME PinInv, Sweep \/ SweepFails PROVE PinInv'
<1> USE DEF PinInv
<1>1. UNCHANGED <<queue, inDB, made, byMatrix, arriving, pinned, expiry, firing>>
  BY DEF Sweep, SweepFails, queueVars
<1>2. Tended \subseteq Tended' /\ \A n \in Pinnable : expiry[n] # 0 => <<n, expiry[n]>> \in Tended'
  <2>1. \A n \in Pinnable : expiry[n] # 0 => <<n, expiry[n]>> \in OnRecord
    BY DEF OnRecord
  <2>2. CASE Sweep
    <3>1. timers' = timers \cup {key \in OnRecord : key[2] # 0} /\ untimed' = untimed \ OnRecord
      BY <2>2 DEF Sweep, Arm
    <3>2. \A key \in OnRecord : key \in timers'
      BY <3>1 DEF OnRecord
    <3> QED BY <1>1, <2>1, <3>1, <3>2 DEF Tended
  <2>3. CASE SweepFails
    <3>1. timers' = timers /\ untimed' = untimed \cup OnRecord
      BY <2>3 DEF SweepFails
    <3> QED BY <1>1, <2>1, <3>1 DEF Tended
  <2> QED BY <2>2, <2>3
<1>3. QueueOK' /\ NumbersOK' /\ ShownOK' /\ EventsOK' /\ AheadOK'
  BY <1>1 DEF QueueOK, NumbersOK, ShownOK, EventsOK, AheadOK
<1>4. WayOK' /\ RecordOK'
  BY <1>1, <1>2 DEF WayOK, RecordOK
<1> QED BY <1>3, <1>4

\* Connections and restarts.
LEMMA ConnectKeeps == ASSUME PinInv, Reconnect \/ Restart PROVE PinInv'
<1> USE DEF PinInv
<1>1. CASE Reconnect
  <2>1. /\ UNCHANGED <<queue, inDB, made, byMatrix, arriving, pinned, expiry, Tended>>
        /\ sweeping' = TRUE
    BY <1>1 DEF Reconnect, PinReconnect, Tended
  <2> QED BY <2>1 DEF QueueOK, NumbersOK, WayOK, RecordOK, ShownOK, EventsOK, AheadOK
<1>2. CASE Restart
  <2>1. /\ queue' = <<>> /\ arriving' = {} /\ sweeping' = TRUE
        /\ UNCHANGED <<inDB, made, byMatrix, pinned, expiry>>
    BY <1>2 DEF Restart, PinRestart, MsgRestart, dbVars
  <2>2. queue' \in Seq(QEvents) /\ Elems(queue') = {}
    BY <2>1, NoneWait
  <2> QED BY <2>1, <2>2 DEF QueueOK, NumbersOK, WayOK, RecordOK, ShownOK, EventsOK, AheadOK
<1> QED BY <1>1, <1>2

LEMMA PinKeeps == PinInv /\ [Next]_vars => PinInv'
<1> SUFFICES ASSUME PinInv, [Next]_vars PROVE PinInv'
  OBVIOUS
<1>1. CASE MsgNext /\ PinsFollow
  BY <1>1, MsgKeepsPins
<1>2. CASE PinNext
  <2>1. ASSUME NEW m \in Pinnable, PinArrives(m) \/ UnpinArrives(m) PROVE PinInv'
    BY <2>1, ArrivingKeeps
  <2>2. ASSUME NEW m \in Pinnable, UserPins(m) PROVE PinInv'
    BY <2>2, UserKeeps
  <2>3. CASE PinPushed
    <3>1. PICK e \in arriving : TRUE
      BY <2>3 DEF PinPushed
    <3>2. e.msg \in Pinnable
      BY PinEventIs DEF PinInv, QueueOK, PinPushes
    <3> QED BY <2>3, <3>2, ArrivingKeeps
  <2>4. CASE HandlePin \/ HandleMatrixPin \/ HandleExpire \/ Sweep \/ SweepFails
    BY <2>4, HandlePinKeeps, HandleMatrixPinKeeps, HandleExpireKeeps, SweepKeeps
  <2>5. ASSUME NEW key \in Keys, TimerFires(key) \/ ExpirePin(key) \/ ExpirePinFails(key) PROVE PinInv'
    BY <2>5, TimerKeeps
  <2> QED BY <1>2, <2>1, <2>2, <2>3, <2>4, <2>5 DEF PinNext
<1>3. CASE Reconnect \/ Restart
  BY <1>3, ConnectKeeps
<1>4. CASE UNCHANGED vars
  <2>1. UNCHANGED <<queue, inDB, made, byMatrix, arriving, pinned, expiry, sweeping, Tended>>
    BY <1>4 DEF vars, queueVars, msgVars, dbVars, pinVars, Tended
  <2> QED BY <2>1 DEF PinInv, QueueOK, NumbersOK, WayOK, RecordOK, ShownOK, EventsOK, AheadOK
<1> QED BY <1>1, <1>2, <1>3, <1>4 DEF Next

LEMMA PinAlways == Spec => []PinInv
  BY PinStarts, PinKeeps, PTL DEF Spec

\* A pin with an expiry on record (SetPinExpiry) always has its timer, the goroutine of one, an
\* event or a sweep to come, or is one whose timer looked before it was on record or whose
\* timer or sweep met an error, whatever the order of pins, timers, errors, connections and
\* restarts (schedulePinExpiry, expirePin, sweepPinExpiry).
THEOREM NoPinIsForgotten == Spec => []PinsTended
  BY PinAlways, PinImplies, PTL

\* A timer takes down no pin that is newer than its own, but those that waited when it
\* looked, or were made in Matrix.
THEOREM NewerPinsStay == Spec => FreshPinKept
<1>1. ASSUME PinInv, Next, queue # <<>>, Head(queue).type = "expire", queue' = Tail(queue)
      PROVE  HandleExpire \/ pinned' = pinned
  <2>1. queue \in Seq(QEvents) /\ arriving \subseteq PinEvents
    BY <1>1 DEF PinInv, QueueOK, PinPushes
  <2>2. \A e \in QEvents : queue' # Append(queue, e)
    BY <1>1, <2>1, Pushed
  <2>3. PinEvents \subseteq QEvents /\ MsgEvents \subseteq QEvents
    BY DEF QEvents
  <2>4. ~MsgNext
    <3>1. "expire" \notin MsgTypes
      BY DEF MsgTypes
    <3>2. queue' # queue
      <4>1. Len(Tail(queue)) = Len(queue) - 1 /\ Len(queue) \in Nat
        BY <1>1, <2>1
      <4>2. Tail(queue) # queue
        BY <4>1
      <4> QED BY <1>1, <4>2
    <3> QED BY <1>1, <2>2, <2>3, <3>1, <3>2, MsgQueueStep
  <2>5. CASE PinNext
    <3>1. ASSUME NEW m \in Pinnable, PinArrives(m) \/ UnpinArrives(m) PROVE pinned' = pinned
      BY <3>1 DEF PinArrives, UnpinArrives, pinVars
    <3>2. ASSUME NEW m \in Pinnable PROVE ~UserPins(m)
      <4>1. \A k \in Nat : PinEvent("matrixpin", m, k, k, {}) \in QEvents
        BY <2>3, NewPinEvent DEF PinTypes
      <4>2. made + 1 \in Nat /\ 0 \in Nat
        BY <1>1 DEF PinInv, NumbersOK
      <4> QED BY <2>2, <4>1, <4>2 DEF UserPins, Deliver
    <3>3. ASSUME NEW key \in Keys, TimerFires(key) \/ ExpirePin(key) \/ ExpirePinFails(key) PROVE pinned' = pinned
      BY <3>3 DEF TimerFires, ExpirePin, ExpirePinFails
    <3>4. ~HandlePin
      BY <1>1 DEF HandlePin, Take, Next1
    <3>5. CASE PinPushed \/ HandleMatrixPin \/ Sweep \/ SweepFails
      BY <3>5 DEF PinPushed, HandleMatrixPin, Sweep, SweepFails
    <3> QED BY <2>5, <3>1, <3>2, <3>3, <3>4, <3>5 DEF PinNext
  <2>6. CASE Reconnect \/ Restart
    BY <2>6 DEF Reconnect, Restart, PinReconnect, PinRestart
  <2> QED BY <1>1, <2>4, <2>5, <2>6 DEF Next
<1>2. ASSUME PinInv, Next, NEW m \in Pinnable,
             queue # <<>>, Head(queue).type = "expire", queue' = Tail(queue),
             pinned'[m] = 0, pinned[m] > Head(queue).pin
      PROVE  pinned[m] \in Head(queue).seen \cup byMatrix
  <2> DEFINE h == Head(queue)
  <2>1. h \in Elems(queue) /\ h \in PinEvents
    <3>1. queue \in Seq(QEvents)
      BY <1>2 DEF PinInv, QueueOK
    <3>2. h \in Elems(queue) /\ h \in QEvents
      BY <1>2, <3>1, Taken
    <3> QED BY <1>2, <3>2, EventsAre DEF PinTypes
  <2>2. h.msg \in Pinnable /\ h.pin \in Nat
    BY <2>1, PinEventIs
  <2> HIDE DEF h
  <2>3. pinned[m] # 0 /\ pinned \in [Pinnable -> Nat]
    BY <1>2, <2>2 DEF PinInv, NumbersOK, h
  <2>4. HandleExpire
    BY <1>1, <1>2, <2>3
  <2>5. m = h.msg
    BY <1>2, <2>3, <2>4 DEF HandleExpire, SetPinned, h
  <2> QED BY <1>2, <2>1, <2>5 DEF PinInv, EventsOK, h
<1>3. PinInv /\ [Next]_vars =>
        [\A m \in Pinnable :
           queue # <<>> /\ Head(queue).type = "expire" /\ queue' = Tail(queue)
             /\ pinned'[m] = 0 /\ pinned[m] > Head(queue).pin =>
                 pinned[m] \in Head(queue).seen \cup byMatrix]_vars
  BY <1>2
<1> QED BY <1>3, PinAlways, PTL DEF Spec, FreshPinKept

-----------------------------------------------------------------------------
(* The messages, for any number of messages, versions and events. *)

Errors == {"ok", "undecryptable", "gone"}
Parts == {NoPart} \cup [err : Errors, saved : Nat]

\* The part of MsgTypeOK that the arguments need.
MetaOK ==
    /\ err \in [Msgs -> Errors] /\ saved \in [Msgs -> Nat]
    /\ edits \in [Msgs -> SUBSET Nat] /\ applied \in [Msgs -> SUBSET Nat]
    /\ ver \in [Msgs -> Nat] /\ file \in [Msgs -> Nat] /\ DOMAIN shown = Msgs
    /\ cache \in [Msgs -> Parts]

\* Media noted as gone, in the metadata or in the cached part, has no file in the room.
FileOK ==
    \A m \in Msgs :
        /\ err[m] = "gone" => file[m] = 0
        /\ cache[m].err = "gone" => file[m] = 0
        /\ m \notin Media => cache[m].err = "none"

\* The versions of a text that were shown are the original and the edits on record, and a
\* message that could not be decrypted was not edited yet.
TextOK ==
    \A m \in Msgs \ Media :
        /\ err[m] # "gone"
        /\ applied[m] \subseteq edits[m] \cup {1}
        /\ err[m] = "undecryptable" => ver[m] <= 1
        /\ m \notin inDB => ver[m] = 0

TxInv == MetaOK /\ FileOK /\ TextOK

LEMMA TxStarts == Init => TxInv
<1>1. NoPart \in Parts /\ NoPart.err = "none"
  BY DEF NoPart, Parts
<1> QED BY <1>1 DEF Init, MsgInit, TxInv, MetaOK, FileOK, TextOK, Errors

\* What a conversion does.
LEMMA ConvertIs ==
    ASSUME MetaOK, NEW m \in Msgs, NEW kind \in MediaOutcomes, NEW v \in Nat, Convert(m, kind, v)
    PROVE  /\ err' \in [Msgs -> Errors] /\ saved' \in [Msgs -> Nat]
           /\ applied' \in [Msgs -> SUBSET Nat] /\ ver' \in [Msgs -> Nat]
           /\ file' \in [Msgs -> Nat] /\ DOMAIN shown' = Msgs
           /\ cache' \in [Msgs -> Parts]
           /\ \A n \in Msgs \ {m} : /\ err'[n] = err[n] /\ applied'[n] = applied[n] /\ ver'[n] = ver[n]
                                    /\ file'[n] = file[n] /\ cache'[n] = cache[n]
           /\ err'[m] = IF kind = "failed" THEN "gone" ELSE "ok"
           /\ applied'[m] = applied[m] \cup {v} /\ ver'[m] = v
           /\ kind # "content" => file'[m] = 0
           /\ cache'[m] = cache[m] \/ cache'[m].err = "ok"
           /\ kind = "content" /\ m \in Media => cache'[m].err = "ok"
           /\ m \notin Media => cache'[m] = cache[m]
<1>1. /\ shown' = [shown EXCEPT ![m] = kind]
      /\ ver' = [ver EXCEPT ![m] = v]
      /\ applied' = [applied EXCEPT ![m] = @ \cup {v}]
      /\ file' = [file EXCEPT ![m] = IF kind = "content" THEN v ELSE 0]
  BY DEF Convert, Show
<1>2. Part("ok", 0) \in Parts /\ Part("ok", 0).err = "ok"
  BY DEF Part, Parts, Errors
<1>3. cache' = IF m \in Media /\ kind = "content" THEN [cache EXCEPT ![m] = Part("ok", 0)] ELSE cache
  BY DEF Convert, Cached
<1>4. /\ Metadata(kind, v).err = IF kind = "failed" THEN "gone" ELSE "ok"
      /\ Metadata(kind, v).saved \in Nat
  BY DEF Metadata, Part
<1>5. /\ err' = [err EXCEPT ![m] = Metadata(kind, v).err]
      /\ saved' = [saved EXCEPT ![m] = IF Metadata(kind, v).saved # 0 THEN Metadata(kind, v).saved ELSE @]
  BY DEF Convert, CopyFrom
<1>6. err' \in [Msgs -> Errors] /\ saved' \in [Msgs -> Nat]
  BY <1>4, <1>5 DEF MetaOK, Errors
<1>7. cache' \in [Msgs -> Parts]
  BY <1>2, <1>3 DEF MetaOK
<1>8. /\ ver' \in [Msgs -> Nat] /\ file' \in [Msgs -> Nat] /\ DOMAIN shown' = Msgs
      /\ applied' \in [Msgs -> SUBSET Nat]
  BY <1>1 DEF MetaOK
<1>9. err'[m] = Metadata(kind, v).err /\ applied'[m] = applied[m] \cup {v} /\ ver'[m] = v
  BY <1>1, <1>5 DEF MetaOK
<1>10. /\ cache'[m] = cache[m] \/ cache'[m].err = "ok"
       /\ kind = "content" /\ m \in Media => cache'[m].err = "ok"
       /\ m \notin Media => cache'[m] = cache[m]
  BY <1>2, <1>3 DEF MetaOK
<1>11. kind # "content" => file'[m] = 0
  BY <1>1 DEF MetaOK
<1>12. \A n \in Msgs \ {m} : /\ err'[n] = err[n] /\ applied'[n] = applied[n] /\ ver'[n] = ver[n]
                              /\ file'[n] = file[n] /\ cache'[n] = cache[n]
  BY <1>1, <1>3, <1>5 DEF MetaOK
<1> QED BY <1>4, <1>6, <1>7, <1>8, <1>9, <1>10, <1>11, <1>12

\* A message whose conversion is the room's new state.
LEMMA ConvertKeeps ==
    ASSUME TxInv, NEW m \in Msgs, NEW kind \in Outcomes(m), NEW v \in Nat, Convert(m, kind, v),
           edits' \in [Msgs -> SUBSET Nat], \A n \in Msgs \ {m} : edits'[n] = edits[n],
           edits[m] \subseteq edits'[m], v = 1 \/ v \in edits'[m],
           m \in inDB', \A n \in Msgs \ {m} : n \in inDB' <=> n \in inDB
    PROVE  TxInv'
<1> USE DEF TxInv
<1>1. kind \in MediaOutcomes /\ (m \notin Media => kind = "content")
  BY DEF Outcomes, MediaOutcomes
<1>2. /\ err' \in [Msgs -> Errors] /\ saved' \in [Msgs -> Nat]
      /\ applied' \in [Msgs -> SUBSET Nat] /\ ver' \in [Msgs -> Nat]
      /\ file' \in [Msgs -> Nat] /\ DOMAIN shown' = Msgs
      /\ cache' \in [Msgs -> Parts]
      /\ \A n \in Msgs \ {m} : /\ err'[n] = err[n] /\ applied'[n] = applied[n] /\ ver'[n] = ver[n]
                               /\ file'[n] = file[n] /\ cache'[n] = cache[n]
      /\ err'[m] = IF kind = "failed" THEN "gone" ELSE "ok"
      /\ applied'[m] = applied[m] \cup {v} /\ ver'[m] = v
      /\ kind # "content" => file'[m] = 0
      /\ cache'[m] = cache[m] \/ cache'[m].err = "ok"
      /\ kind = "content" /\ m \in Media => cache'[m].err = "ok"
      /\ m \notin Media => cache'[m] = cache[m]
  BY <1>1, ConvertIs
<1>3. FileOK'
  BY <1>1, <1>2 DEF FileOK
<1>4. TextOK'
  <2>1. ASSUME NEW n \in Msgs \ Media, n # m
        PROVE  /\ err'[n] # "gone"
               /\ applied'[n] \subseteq edits'[n] \cup {1}
               /\ err'[n] = "undecryptable" => ver'[n] <= 1
               /\ n \notin inDB' => ver'[n] = 0
    BY <1>2, <2>1 DEF TextOK
  <2>2. ASSUME m \notin Media
        PROVE  err'[m] = "ok" /\ applied'[m] \subseteq edits'[m] \cup {1}
    BY <1>1, <1>2, <2>2 DEF TextOK
  <2> QED BY <2>1, <2>2 DEF TextOK
<1> QED BY <1>2, <1>3, <1>4 DEF MetaOK

\* The event that a handler of Messages takes.
LEMMA TakenIs ==
    ASSUME queue \in Seq(QEvents), NEW t \in MsgTypes, Take(t)
    PROVE  /\ queue # <<>> /\ Head(queue).type = t
           /\ Head(queue).msg \in Msgs /\ Head(queue).ver \in Nat
           /\ t = "edit" => Head(queue).ver >= 2
<1>1. queue # <<>> /\ Head(queue).type = t
  BY DEF Take, Next1
<1>2. Head(queue) \in MsgEvents
  <2>1. Head(queue) \in QEvents
    BY <1>1, Taken
  <2> QED BY <1>1, <2>1, EventsAre
<1>3. MaxVer \in Nat
  BY MessagesAssumption
<1>4. /\ Head(queue).msg \in Msgs /\ Head(queue).ver \in 0..MaxVer
      /\ Head(queue).type = "edit" => Head(queue).ver >= 2
  BY <1>2 DEF MsgEvents
<1> QED BY <1>1, <1>3, <1>4

metaVars == <<inDB, err, edits, saved, shown, ver, applied, file>>

LEMMA QuietKeeps == TxInv /\ UNCHANGED metaVars /\ UNCHANGED cache => TxInv'
  BY DEF TxInv, MetaOK, FileOK, TextOK, metaVars

\* Parts that expire, or are lost with the process.
LEMMA DropKeeps ==
    ASSUME TxInv, UNCHANGED metaVars, NEW S \in SUBSET Msgs,
           cache' = [m \in Msgs |-> IF m \in S THEN NoPart ELSE cache[m]]
    PROVE  TxInv'
<1>1. NoPart \in Parts /\ NoPart.err = "none"
  BY DEF NoPart, Parts
<1>2. cache' \in [Msgs -> Parts]
  BY <1>1 DEF TxInv, MetaOK
<1>3. \A m \in Msgs : cache'[m] = cache[m] \/ cache'[m].err = "none"
  BY <1>1
<1>4. MetaOK'
  BY <1>2 DEF TxInv, MetaOK, metaVars
<1>5. FileOK'
  BY <1>3 DEF TxInv, FileOK, metaVars
<1> QED BY <1>4, <1>5 DEF TxInv, TextOK, metaVars

LEMMA HandleMessageKeeps ==
    ASSUME TxInv, queue \in Seq(QEvents), HandleMessage \/ HandleResend
    PROVE  TxInv'
<1> DEFINE m == Head(queue).msg
<1>1. m \in Msgs
  BY TakenIs DEF HandleMessage, HandleResend, MsgTypes
<1> HIDE DEF m
<1>2. CASE \E kind \in Outcomes(m) : Convert(m, kind, 1) /\ m \in inDB' /\ UNCHANGED edits
             /\ \A n \in Msgs \ {m} : n \in inDB' <=> n \in inDB
  <2>1. edits' \in [Msgs -> SUBSET Nat] /\ \A n \in Msgs : edits'[n] = edits[n]
    BY <1>2 DEF TxInv, MetaOK
  <2> QED BY <1>1, <1>2, <2>1, ConvertKeeps
<1>3. CASE NewMessage(m)
  BY <1>2, <1>3 DEF NewMessage
<1>4. CASE m \in inDB /\ NowDecryptable(m)
  BY <1>2, <1>4 DEF NowDecryptable
<1>5. CASE UNCHANGED <<dbVars, roomVars, cache>>
  BY <1>5, QuietKeeps DEF dbVars, roomVars, metaVars
<1> QED BY <1>3, <1>4, <1>5 DEF HandleMessage, HandleResend, m

LEMMA HandleUndecryptableKeeps ==
    ASSUME TxInv, queue \in Seq(QEvents), HandleUndecryptable
    PROVE  TxInv'
<1> DEFINE m == Head(queue).msg
<1>1. m \in Msgs
  BY TakenIs DEF HandleUndecryptable, MsgTypes
<1> HIDE DEF m
<1>2. CASE m \in inDB
  BY <1>2, QuietKeeps DEF HandleUndecryptable, dbVars, roomVars, metaVars, m
<1>3. CASE m \notin inDB
  <2>1. /\ inDB' = inDB \cup {m} /\ UNCHANGED <<edits, saved, file, cache>>
        /\ shown' = [shown EXCEPT ![m] = "waiting"] /\ ver' = [ver EXCEPT ![m] = 1]
        /\ applied' = [applied EXCEPT ![m] = @ \cup {1}]
        /\ err' = [err EXCEPT ![m] = "undecryptable"]
    BY <1>3 DEF HandleUndecryptable, Show, m
  <2>2. MetaOK'
    BY <1>1, <2>1 DEF TxInv, MetaOK, Errors
  <2>3. FileOK'
    BY <1>1, <2>1 DEF TxInv, MetaOK, FileOK
  <2>4. TextOK'
    BY <1>1, <2>1 DEF TxInv, MetaOK, TextOK
  <2> QED BY <2>2, <2>3, <2>4 DEF TxInv
<1> QED BY <1>2, <1>3

LEMMA HandleRevokeKeeps ==
    ASSUME TxInv, queue \in Seq(QEvents), HandleRevoke
    PROVE  TxInv'
<1> DEFINE m == Head(queue).msg
<1>1. m \in Msgs
  BY TakenIs DEF HandleRevoke, MsgTypes
<1> HIDE DEF m
<1>2. /\ inDB' = inDB \ {m} /\ UNCHANGED cache
      /\ err' = [err EXCEPT ![m] = "ok"] /\ edits' = [edits EXCEPT ![m] = {}]
      /\ saved' = [saved EXCEPT ![m] = 0] /\ shown' = [shown EXCEPT ![m] = "no"]
      /\ ver' = [ver EXCEPT ![m] = 0] /\ applied' = [applied EXCEPT ![m] = {}]
      /\ file' = [file EXCEPT ![m] = 0]
  BY DEF HandleRevoke, m
<1>3. MetaOK'
  BY <1>1, <1>2 DEF TxInv, MetaOK, Errors
<1>4. FileOK'
  BY <1>1, <1>2 DEF TxInv, MetaOK, FileOK
<1>5. TextOK'
  BY <1>1, <1>2 DEF TxInv, MetaOK, TextOK
<1> QED BY <1>3, <1>4, <1>5 DEF TxInv

\* A receipt finds only media that is gone.
LEMMA HandleReceiptIs ==
    ASSUME TxInv, queue \in Seq(QEvents), HandleReceipt
    PROVE  LET m == Head(queue).msg
           IN  /\ m \in Msgs /\ UNCHANGED <<dbVars, cache>>
               /\ \/ UNCHANGED roomVars
                  \/ /\ m \in Media /\ err[m] = "gone" /\ file[m] = 0 /\ UNCHANGED file
                     /\ \E kind \in {"content", "error"} : Show(m, kind, saved[m])
<1> DEFINE m == Head(queue).msg
<1>1. m \in Msgs
  BY TakenIs DEF HandleReceipt, MsgTypes
<1> HIDE DEF m
<1>2. err[m] = "gone" => m \in Media /\ file[m] = 0
  BY <1>1 DEF TxInv, FileOK, TextOK
<1> QED BY <1>1, <1>2 DEF HandleReceipt, RetryOutcomes, m

LEMMA HandleReceiptKeeps ==
    ASSUME TxInv, queue \in Seq(QEvents), HandleReceipt
    PROVE  TxInv'
<1> DEFINE m == Head(queue).msg
<1>1. /\ m \in Msgs /\ UNCHANGED <<dbVars, cache>>
      /\ \/ UNCHANGED roomVars
         \/ /\ m \in Media /\ UNCHANGED file
            /\ \E kind \in {"content", "error"} : Show(m, kind, saved[m])
  BY HandleReceiptIs
<1> HIDE DEF m
<1>2. CASE UNCHANGED roomVars
  BY <1>1, <1>2, QuietKeeps DEF dbVars, roomVars, metaVars
<1>3. CASE m \in Media /\ UNCHANGED file /\ \E kind \in {"content", "error"} : Show(m, kind, saved[m])
  <2>1. PICK kind \in {"content", "error"} :
           /\ shown' = [shown EXCEPT ![m] = kind] /\ ver' = [ver EXCEPT ![m] = saved[m]]
           /\ applied' = [applied EXCEPT ![m] = @ \cup {saved[m]}]
    BY <1>3 DEF Show
  <2>2. saved[m] \in Nat
    BY <1>1 DEF TxInv, MetaOK
  <2>3. MetaOK'
    BY <1>1, <1>3, <2>1, <2>2 DEF TxInv, MetaOK, dbVars
  <2>4. FileOK'
    BY <1>1, <1>3, <2>1 DEF TxInv, FileOK, dbVars
  <2>5. \A n \in Msgs \ Media : ver'[n] = ver[n] /\ applied'[n] = applied[n]
    BY <1>1, <1>3, <2>1 DEF TxInv, MetaOK
  <2>6. TextOK'
    BY <1>1, <2>5 DEF TxInv, TextOK, dbVars
  <2> QED BY <2>3, <2>4, <2>6 DEF TxInv
<1> QED BY <1>1, <1>2, <1>3

\* An edit that is applied: of a text it is a conversion, of media perhaps of its caption only.
LEMMA HandleEditIs ==
    ASSUME TxInv, queue \in Seq(QEvents), HandleEdit
    PROVE  LET m == Head(queue).msg
               v == Head(queue).ver
           IN  /\ m \in Msgs /\ v \in Nat /\ v >= 2
               /\ \/ UNCHANGED <<dbVars, roomVars, cache>>
                  \/ /\ m \in inDB /\ v \notin edits[m] /\ UNCHANGED inDB
                     /\ edits' = [edits EXCEPT ![m] = @ \cup {v}]
                     /\ \/ \E kind \in Outcomes(m) : Convert(m, kind, v)
                        \/ m \in Media /\ EditCaption(m, v)
<1> DEFINE m == Head(queue).msg
           v == Head(queue).ver
<1>1. m \in Msgs /\ v \in Nat /\ v >= 2
  BY TakenIs DEF HandleEdit, MsgTypes
<1> HIDE DEF m, v
<1>2. CASE m \notin inDB \/ v \in edits[m]
  BY <1>1, <1>2 DEF HandleEdit, m, v
<1>3. CASE m \in inDB /\ v \notin edits[m]
  BY <1>1, <1>3 DEF HandleEdit, EditWhole, NeedsPreviousPart, m, v
<1> QED BY <1>2, <1>3

LEMMA EditCaptionKeeps ==
    ASSUME TxInv, NEW m \in Media, m \in Msgs, NEW v \in Nat, EditCaption(m, v), UNCHANGED inDB,
           m \in inDB, edits' = [edits EXCEPT ![m] = @ \cup {v}]
    PROVE  TxInv'
<1> USE DEF TxInv
<1>1. edits' \in [Msgs -> SUBSET Nat] /\ \A n \in Msgs \ {m} : edits'[n] = edits[n]
  BY DEF MetaOK
<1>2. edits[m] \subseteq edits'[m] /\ v \in edits'[m]
  BY DEF MetaOK
<1>3. ASSUME NEW kind, Show(m, kind, v), UNCHANGED file,
             err' \in [Msgs -> Errors], saved' \in [Msgs -> Nat],
             cache' \in [Msgs -> Parts],
             \A n \in Msgs \ {m} : err'[n] = err[n] /\ cache'[n] = cache[n],
             err'[m] = "gone" => file[m] = 0, cache'[m].err = "gone" => file[m] = 0
      PROVE  TxInv'
  <2>1. /\ shown' = [shown EXCEPT ![m] = kind] /\ ver' = [ver EXCEPT ![m] = v]
        /\ applied' = [applied EXCEPT ![m] = @ \cup {v}]
    BY <1>3 DEF Show
  <2>2. /\ ver' \in [Msgs -> Nat] /\ applied' \in [Msgs -> SUBSET Nat] /\ DOMAIN shown' = Msgs
        /\ file' \in [Msgs -> Nat]
    BY <1>3, <2>1 DEF MetaOK
  <2>3. MetaOK'
    BY <1>1, <1>3, <2>2 DEF MetaOK
  <2>4. FileOK'
    BY <1>3 DEF FileOK
  <2>5. \A n \in Msgs \ Media : /\ err'[n] = err[n] /\ ver'[n] = ver[n] /\ applied'[n] = applied[n]
                               /\ edits'[n] = edits[n]
    BY <1>1, <1>3, <2>1 DEF MetaOK
  <2>6. TextOK'
    BY <2>5 DEF TextOK
  <2> QED BY <2>3, <2>4, <2>6
<1>4. CASE cache[m] # NoPart /\ Show(m, "content", v)
           /\ CopyFrom(m, cache[m].err, cache[m].saved) /\ UNCHANGED <<cache, file>>
  <2>1. cache[m].err \in Errors /\ cache[m].saved \in Nat
    BY <1>4 DEF MetaOK, Parts
  <2>2. /\ err' = [err EXCEPT ![m] = cache[m].err]
        /\ saved' = [saved EXCEPT ![m] = IF cache[m].saved # 0 THEN cache[m].saved ELSE @]
    BY <1>4 DEF CopyFrom
  <2>3. err' \in [Msgs -> Errors] /\ saved' \in [Msgs -> Nat]
    BY <2>1, <2>2 DEF MetaOK
  <2>4. err'[m] = cache[m].err /\ \A n \in Msgs \ {m} : err'[n] = err[n]
    BY <2>2 DEF MetaOK
  <2>5. cache' \in [Msgs -> Parts] /\ cache' = cache
    BY <1>4 DEF MetaOK
  <2> QED BY <1>3, <1>4, <2>3, <2>4, <2>5 DEF FileOK
<1>5. ASSUME NEW kind, Show(m, kind, v), UNCHANGED <<err, saved, file>>,
             cache' = Cached(m, kind, Part(err[m], saved[m]))
      PROVE  TxInv'
  <2>1. Part(err[m], saved[m]) \in Parts
        /\ Part(err[m], saved[m]).err = err[m]
    BY DEF Part, Parts, MetaOK
  <2>2. /\ cache' \in [Msgs -> Parts]
        /\ cache'[m] = cache[m] \/ cache'[m].err = err[m]
        /\ \A n \in Msgs \ {m} : cache'[n] = cache[n]
    BY <1>5, <2>1 DEF Cached, MetaOK
  <2>3. err' \in [Msgs -> Errors] /\ saved' \in [Msgs -> Nat]
    BY <1>5 DEF MetaOK
  <2> QED BY <1>3, <1>5, <2>2, <2>3 DEF FileOK
<1>6. CASE Convert(m, "error", v)
  <2>1. "error" \in Outcomes(m)
    BY DEF Outcomes, MediaOutcomes
  <2> QED BY <1>1, <1>2, <1>6, <2>1, ConvertKeeps
<1> QED BY <1>4, <1>5, <1>6 DEF EditCaption

LEMMA HandleEditKeeps ==
    ASSUME TxInv, queue \in Seq(QEvents), HandleEdit
    PROVE  TxInv'
<1> DEFINE m == Head(queue).msg
           v == Head(queue).ver
<1>1. /\ m \in Msgs /\ v \in Nat
      /\ \/ UNCHANGED <<dbVars, roomVars, cache>>
         \/ /\ m \in inDB /\ UNCHANGED inDB
            /\ edits' = [edits EXCEPT ![m] = @ \cup {v}]
            /\ \/ \E kind \in Outcomes(m) : Convert(m, kind, v)
               \/ m \in Media /\ EditCaption(m, v)
  BY HandleEditIs
<1> HIDE DEF m, v
<1>2. CASE UNCHANGED <<dbVars, roomVars, cache>>
  BY <1>2, QuietKeeps DEF dbVars, roomVars, metaVars
<1>3. CASE /\ m \in inDB /\ UNCHANGED inDB
           /\ edits' = [edits EXCEPT ![m] = @ \cup {v}]
           /\ \E kind \in Outcomes(m) : Convert(m, kind, v)
  <2>1. /\ edits' \in [Msgs -> SUBSET Nat] /\ \A n \in Msgs \ {m} : edits'[n] = edits[n]
        /\ edits[m] \subseteq edits'[m] /\ v \in edits'[m]
    BY <1>1, <1>3 DEF TxInv, MetaOK
  <2> QED BY <1>1, <1>3, <2>1, ConvertKeeps
<1>4. CASE /\ m \in inDB /\ UNCHANGED inDB
           /\ edits' = [edits EXCEPT ![m] = @ \cup {v}]
           /\ m \in Media /\ EditCaption(m, v)
  BY <1>1, <1>4, EditCaptionKeeps
<1> QED BY <1>1, <1>2, <1>3, <1>4

Handlers ==
    \/ HandleMessage \/ HandleUndecryptable \/ HandleResend \/ HandleEdit \/ HandleRevoke
    \/ HandleReceipt

\* Only the handlers change what the room shows and what the bridge's database says of it.
LEMMA OtherStepsAreQuiet ==
    ASSUME TxInv, Next, ~Handlers
    PROVE  /\ UNCHANGED metaVars
           /\ \E S \in SUBSET Msgs : cache' = [m \in Msgs |-> IF m \in S THEN NoPart ELSE cache[m]]
<1>1. cache = [m \in Msgs |-> IF m \in {} THEN NoPart ELSE cache[m]]
  BY DEF TxInv, MetaOK
<1>2. CASE UNCHANGED <<metaVars, cache>>
  <2>1. cache' = [m \in Msgs |-> IF m \in {} THEN NoPart ELSE cache[m]]
    BY <1>1, <1>2
  <2>2. {} \in SUBSET Msgs
    OBVIOUS
  <2>3. UNCHANGED metaVars
    BY <1>2
  <2> QED BY <2>1, <2>2, <2>3
<1>3. ASSUME NEW m \in Msgs,
             OriginalArrives(m) \/ UndecryptableArrives(m) \/ ResendArrives(m) \/ EditArrives(m)
               \/ RevokeArrives(m) \/ ReceiptArrives(m)
      PROVE  UNCHANGED <<metaVars, cache>>
  BY <1>3 DEF OriginalArrives, UndecryptableArrives, ResendArrives, EditArrives, RevokeArrives,
              ReceiptArrives, msgVars, dbVars, roomVars, metaVars
<1>4. ASSUME NEW m \in Msgs, LookRequest(m) \/ SendRequest(m)
      PROVE  UNCHANGED <<metaVars, cache>>
  BY <1>4 DEF LookRequest, SendRequest, dbVars, roomVars, metaVars
<1>5. CASE ListRequests
  BY <1>2, <1>5 DEF ListRequests, dbVars, roomVars, metaVars
<1>6. ASSUME NEW m \in Msgs, ExpireCache(m)
      PROVE  /\ UNCHANGED metaVars
             /\ cache' = [n \in Msgs |-> IF n \in {m} THEN NoPart ELSE cache[n]]
  BY <1>6 DEF ExpireCache, dbVars, roomVars, metaVars, TxInv, MetaOK
<1>7. CASE PinNext /\ UNCHANGED msgsAlone
  <2>1. UNCHANGED inDB
    BY <1>7 DEF PinNext, PinArrives, UnpinArrives, UserPins, PinPushed, HandlePin, HandleMatrixPin,
                HandleExpire, Sweep, SweepFails, TimerFires, ExpirePin, ExpirePinFails
  <2> QED BY <1>2, <1>7, <2>1 DEF msgsAlone, roomVars, metaVars
<1>8. CASE Reconnect
  BY <1>2, <1>8 DEF Reconnect, msgsAlone, roomVars, metaVars
<1>9. CASE Restart
  <2>1. UNCHANGED metaVars /\ cache' = [m \in Msgs |-> IF m \in Msgs THEN NoPart ELSE cache[m]]
    BY <1>9 DEF Restart, MsgRestart, dbVars, roomVars, metaVars
  <2> QED BY <2>1
<1>10. CASE MsgNext
  <2>1. \A m \in Msgs : {m} \in SUBSET Msgs
    OBVIOUS
  <2> QED BY <1>2, <1>3, <1>4, <1>5, <1>6, <1>10, <2>1 DEF MsgNext, Handlers
<1> QED BY <1>7, <1>8, <1>9, <1>10 DEF Next

LEMMA TxKeeps ==
    ASSUME TxInv, queue \in Seq(QEvents), [Next]_vars
    PROVE  TxInv'
<1>1. CASE Handlers
  BY <1>1, HandleMessageKeeps, HandleUndecryptableKeeps, HandleRevokeKeeps, HandleReceiptKeeps,
     HandleEditKeeps DEF Handlers
<1>2. CASE Next /\ ~Handlers
  <2>1. PICK S \in SUBSET Msgs :
           UNCHANGED metaVars /\ cache' = [m \in Msgs |-> IF m \in S THEN NoPart ELSE cache[m]]
    BY <1>2, OtherStepsAreQuiet
  <2> QED BY <2>1, DropKeeps
<1>3. CASE UNCHANGED vars
  BY <1>3, QuietKeeps DEF vars, msgVars, dbVars, roomVars, metaVars
<1> QED BY <1>1, <1>2, <1>3

LEMMA TxAlways == Spec => [](TxInv /\ queue \in Seq(QEvents))
<1>1. PinInv => queue \in Seq(QEvents)
  BY DEF PinInv, QueueOK
<1>2. TxInv /\ queue \in Seq(QEvents) /\ [Next]_vars => TxInv'
  BY TxKeeps
<1> QED BY <1>1, <1>2, TxStarts, PinAlways, PTL DEF Spec

\* What a handler changes is what it shows of one message.
LEMMA ConvertShows ==
    ASSUME TxInv, NEW m \in Msgs, NEW kind \in Outcomes(m), NEW v \in Nat, Convert(m, kind, v)
    PROVE  ver'[m] = v /\ \A n \in Msgs \ {m} : ver'[n] = ver[n]
  BY DEF Convert, Show, TxInv, MetaOK

\* The text of a message in the room never goes back to an earlier version, whatever is delivered
\* late or again (WAMessageEvent.HandleExisting, WAMessageEvent.ConvertEdit), but for the answer to
\* a placeholder request and for an edit never applied before.
THEOREM TextMovesOn == Spec => TextNeverFallsBack
<1>1. ASSUME TxInv, queue \in Seq(QEvents), Next, NEW m \in Msgs \ Media,
             0 < ver'[m], ver'[m] < ver[m]
      PROVE  Head(queue).type = "resend" \/ (ver'[m] > 1 /\ ver'[m] \notin applied[m])
  <2> DEFINE h == Head(queue).msg
  <2>1. ver[m] \in Nat /\ ver'[m] \in Nat
    BY <1>1, TxKeeps DEF TxInv, MetaOK
  <2>2. ver[m] > 1 /\ ver'[m] # ver[m] /\ ver'[m] # 0
    BY <1>1, <2>1
  <2>3. Handlers
    BY <1>1, <2>2, OtherStepsAreQuiet DEF metaVars
  <2>4. m \in inDB /\ err[m] # "gone" /\ err[m] # "undecryptable"
    BY <1>1, <2>1, <2>2 DEF TxInv, TextOK
  <2>5. CASE HandleMessage
    <3>1. h \in Msgs
      BY <1>1, <2>5, TakenIs DEF HandleMessage, MsgTypes
    <3> HIDE DEF h
    <3>2. h # m => ver'[m] = ver[m]
      BY <1>1, <2>5, <3>1, ConvertShows
         DEF HandleMessage, NewMessage, NowDecryptable, roomVars, h
    <3>3. h = m => ver'[m] = ver[m]
      BY <2>4, <2>5 DEF HandleMessage, roomVars, h
    <3> QED BY <2>2, <3>2, <3>3
  <2>6. CASE HandleUndecryptable
    <3>1. h \in Msgs
      BY <1>1, <2>6, TakenIs DEF HandleUndecryptable, MsgTypes
    <3> HIDE DEF h
    <3>2. h # m => ver'[m] = ver[m]
      BY <1>1, <2>6, <3>1 DEF HandleUndecryptable, Show, roomVars, TxInv, MetaOK, h
    <3>3. h = m => ver'[m] = ver[m]
      BY <2>4, <2>6 DEF HandleUndecryptable, roomVars, h
    <3> QED BY <2>2, <3>2, <3>3
  <2>7. CASE HandleResend
    BY <1>1, <2>7, TakenIs DEF HandleResend, MsgTypes
  <2>8. CASE HandleRevoke
    BY <1>1, <2>2, <2>8 DEF HandleRevoke, TxInv, MetaOK
  <2>9. CASE HandleReceipt
    <3>1. ver'[m] = ver[m]
      <4>1. \/ UNCHANGED roomVars
            \/ h \in Media /\ \E kind \in {"content", "error"} : Show(h, kind, saved[h])
        BY <1>1, <2>9, HandleReceiptIs
      <4> QED BY <1>1, <4>1 DEF Show, roomVars, TxInv, MetaOK
    <3> QED BY <2>2, <3>1
  <2>10. CASE HandleEdit
    <3> DEFINE v == Head(queue).ver
    <3>1. /\ h \in Msgs /\ v \in Nat /\ v >= 2
          /\ \/ UNCHANGED <<dbVars, roomVars, cache>>
             \/ /\ v \notin edits[h]
                /\ \/ \E kind \in Outcomes(h) : Convert(h, kind, v)
                   \/ h \in Media /\ EditCaption(h, v)
      BY <1>1, <2>10, HandleEditIs
    <3> HIDE DEF h, v
    <3>2. CASE UNCHANGED roomVars
      BY <2>2, <3>2 DEF roomVars
    <3>3. CASE h \in Media /\ EditCaption(h, v)
      <4>1. \E kind : Show(h, kind, v)
        BY <3>3 DEF EditCaption, Convert
      <4>2. ver'[m] = ver[m]
        BY <1>1, <3>3, <4>1 DEF Show, TxInv, MetaOK
      <4> QED BY <2>2, <4>2
    <3>4. CASE v \notin edits[h] /\ \E kind \in Outcomes(h) : Convert(h, kind, v)
      <4>1. h = m /\ ver'[m] = v
        BY <1>1, <2>2, <3>1, <3>4, ConvertShows
      <4>2. v \notin applied[m]
        BY <1>1, <3>1, <3>4, <4>1 DEF TxInv, TextOK
      <4> QED BY <3>1, <4>1, <4>2
    <3> QED BY <3>1, <3>2, <3>3, <3>4
  <2> QED BY <2>3, <2>5, <2>6, <2>7, <2>8, <2>9, <2>10 DEF Handlers
<1>2. TxInv /\ queue \in Seq(QEvents) /\ [Next]_vars =>
        [\A m \in Msgs \ Media : 0 < ver'[m] /\ ver'[m] < ver[m] =>
            \/ Head(queue).type = "resend"
            \/ ver'[m] > 1 /\ ver'[m] \notin applied[m]]_vars
  BY <1>1
<1> QED BY <1>2, TxAlways, PTL DEF Spec, TextNeverFallsBack

\* A media receipt (WAMediaRetry.ConvertEdit), however late, leaves a message alone whose file has
\* come since.
THEOREM ReceiptsSpareFiles == Spec => LateReceiptHarmless
<1>1. ASSUME TxInv, queue \in Seq(QEvents), Next,
             queue # <<>>, Head(queue).type = "receipt", NEW m \in Msgs, file[m] # 0
      PROVE  shown'[m] = shown[m] /\ ver'[m] = ver[m]
  <2>1. CASE HandleReceipt
    <3> DEFINE h == Head(queue).msg
    <3>1. \/ UNCHANGED roomVars
          \/ file[h] = 0 /\ \E kind \in {"content", "error"} : Show(h, kind, saved[h])
      BY <1>1, <2>1, HandleReceiptIs
    <3> HIDE DEF h
    <3> QED BY <1>1, <3>1 DEF Show, roomVars, TxInv, MetaOK
  <2>2. CASE Handlers /\ ~HandleReceipt
    BY <1>1, <2>2 DEF Handlers, HandleMessage, HandleUndecryptable, HandleResend, HandleEdit,
                      HandleRevoke, Take, Next1
  <2>3. CASE ~Handlers
    BY <1>1, <2>3, OtherStepsAreQuiet DEF metaVars
  <2> QED BY <2>1, <2>2, <2>3
<1>2. TxInv /\ queue \in Seq(QEvents) /\ [Next]_vars =>
        [queue # <<>> /\ Head(queue).type = "receipt" /\ queue' = Tail(queue) =>
          \A m \in Msgs : file[m] # 0 => shown'[m] = shown[m] /\ ver'[m] = ver[m]]_vars
  BY <1>1
<1> QED BY <1>2, TxAlways, PTL DEF Spec, LateReceiptHarmless

\* A message that was revoked is only bridged again when it is itself delivered again: not by the
\* answer to a placeholder request, an edit or a receipt.
THEOREM DeletedStaysDeleted == Spec => RevokedStaysGone
<1>1. ASSUME TxInv, queue \in Seq(QEvents), Next, NEW m \in Msgs, m \notin inDB, m \in inDB'
      PROVE  Head(queue).type \in {"message", "undecryptable"}
  <2>1. Handlers
    BY <1>1, OtherStepsAreQuiet DEF metaVars
  <2>2. CASE HandleMessage \/ HandleUndecryptable
    BY <2>2 DEF HandleMessage, HandleUndecryptable, Take, Next1
  <2>3. CASE HandleResend \/ HandleEdit \/ HandleRevoke \/ HandleReceipt
    BY <1>1, <2>3 DEF HandleResend, NowDecryptable, HandleEdit, HandleRevoke, HandleReceipt, dbVars
  <2> QED BY <2>1, <2>2, <2>3 DEF Handlers
<1>2. TxInv /\ queue \in Seq(QEvents) /\ [Next]_vars =>
        [\A m \in Msgs : m \notin inDB /\ m \in inDB' =>
           Head(queue).type \in {"message", "undecryptable"}]_vars
  BY <1>1
<1> QED BY <1>2, TxAlways, PTL DEF Spec, RevokedStaysGone
=============================================================================
