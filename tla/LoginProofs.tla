----------------------------- MODULE LoginProofs -----------------------------
(***************************************************************************)
(* Proofs about Login for any number of codes, intervals and rotations.    *)
(***************************************************************************)
EXTENDS Login, TLAPS

\* What the invariants rest on: a 515 follows a pairing, the phone flow alone asks for
\* pairing codes, and a client is only connected between Start and Cancel.
Order ==
    /\ got515 => success
    /\ pc = "pairing" => flow = "phone"
    /\ pc \in {"new", "number"} => sock = "off"

\* The inductive invariant.
LInv == TypeOK /\ OnlyPaired /\ OneSocket /\ FailedIsClosed /\ StaleQRNoticed /\ Order

\* The caller's labels.
LEMMA Labels ==
    {"new", "connecting", "number", "pairing", "shown", "select", "make", "passkey", "confirm",
     "finish", "await", "create", "connect", "complete", "failed", "refused", "panic"} = Steps
  BY DEF Steps, Over

\* A login as CreateLogin makes it satisfies the invariant.
LEMMA LInit == Init => LInv
<1> SUFFICES ASSUME Init PROVE LInv
  OBVIOUS
<1>1. 0 \in 0..Intervals /\ 0 \in 0..MaxRotations
  BY LoginAssumption
<1>2. TypeOK
  BY <1>1, Labels DEF Init, TypeOK
<1>3. OnlyPaired /\ OneSocket /\ FailedIsClosed /\ StaleQRNoticed /\ Order
  BY DEF Init, OnlyPaired, OneSocket, FailedIsClosed, StaleQRNoticed, Order
<1> QED
  BY <1>2, <1>3 DEF LInv

\* The three ways in which a caller moves on keep the types.
LEMMA GoToType == ASSUME NEW l \in Steps, TypeOK, GoTo(l) PROVE TypeOK'
  BY DEF TypeOK, GoTo, conn, codes, told

LEMMA GiveUpType == ASSUME TypeOK, GiveUp PROVE TypeOK'
  BY Labels DEF TypeOK, GiveUp, Cancel, codes, told

LEMMA ChooseType ==
    ASSUME NEW i \in 0..Intervals, NEW p \in 0..Intervals, TypeOK, Choose(i, p) PROVE TypeOK'
  BY Labels, ZenonT(40) DEF TypeOK, Choose, conn, codes

\* Every step of the caller keeps the types.
LEMMA CallerType ==
    ASSUME TypeOK, CallerStep \/ UserStep \/ ContextDone PROVE TypeOK'
<1> USE LoginAssumption, Labels, GoToType, GiveUpType
<1>1. CASE Start \/ SubmitNumber
  <2>1. ASSUME sock' = "on", pc' = "connecting",
               UNCHANGED <<flow, next, prev, shownGen, closed, handler, codes, told>>
        PROVE TypeOK'
    BY <2>1 DEF TypeOK, codes, told
  <2> QED
    BY <1>1, <2>1 DEF Start, SubmitNumber, Connect
<1>2. CASE QRsArrived
  <2>1. CASE flow = "phone" /\ GoTo("pairing")
    BY <2>1
  <2>2. CASE /\ pc' = "shown" /\ shownGen' = gen
             /\ UNCHANGED <<flow, next, prev, conn, handler, codes, told>>
    BY <2>2 DEF TypeOK, conn, codes, told
  <2> QED
    BY <1>2, <2>1, <2>2 DEF QRsArrived
<1>3. CASE WaitEnter
  <2>1. CASE Choose(Current, Current)
    BY <2>1, ChooseType DEF TypeOK, Current
  <2>2. CASE /\ pc' = "select"
             /\ next' = IF Current < Intervals THEN Current + 1 ELSE 0
             /\ UNCHANGED <<flow, prev, shownGen, conn, handler, codes, told>>
    <3>1. next' \in 0..Intervals
      BY <2>2 DEF TypeOK, Current
    <3> QED
      BY <2>2, <3>1 DEF TypeOK, conn, codes, told
  <2> QED
    BY <1>3, <2>1, <2>2 DEF WaitEnter
<1>4. CASE SelectTimer \/ SelectRotate
  BY <1>4, ChooseType DEF TypeOK, SelectTimer, SelectRotate
<1>5. CASE MakeStep
  <2>1. pc' \in Steps
    BY <1>5 DEF MakeStep
  <2> QED
    BY <1>5, <2>1 DEF TypeOK, MakeStep, conn, codes, told
<1>6. CASE Await515
  BY <1>6 DEF TypeOK, Await515, Cancel, codes, told
<1>7. CASE \/ ConnectTimeout \/ PairPhone \/ SelectPasskey \/ SelectConfirmed \/ SelectComplete
           \/ Await515Timeout \/ NewLogin \/ ConnectClient \/ SubmitPasskey \/ UserCancels
           \/ ContextDone
  BY <1>7
  DEF ConnectTimeout, PairPhone, SelectPasskey, SelectConfirmed, SelectComplete,
      OnLoginComplete, Await515Timeout, NewLogin, ConnectClient, SubmitPasskey, UserCancels,
      ContextDone
<1> QED
  BY <1>1, <1>2, <1>3, <1>4, <1>5, <1>6, <1>7 DEF CallerStep, UserStep

\* A step of the caller in any of the five calls preserves the rest of the invariant.
LEMMA CallerKeeps ==
    ASSUME LInv, CallerStep \/ UserStep \/ ContextDone
    PROVE  OnlyPaired' /\ OneSocket' /\ FailedIsClosed' /\ StaleQRNoticed' /\ Order'
<1> USE DEF LInv, OnlyPaired, OneSocket, FailedIsClosed, StaleQRNoticed, Order, conn, codes, told
<1>1. CASE GiveUp
  BY <1>1 DEF GiveUp, Cancel
<1>2. CASE Start
  BY <1>2 DEF Start, Connect, GoTo
<1>3. CASE QRsArrived
  <2>1. OnlyPaired' /\ OneSocket' /\ FailedIsClosed' /\ StaleQRNoticed'
    BY <1>3 DEF QRsArrived, GoTo
  <2>2. CASE flow = "phone" /\ GoTo("pairing")
    BY <2>1, <2>2 DEF GoTo
  <2>3. CASE pc' = "shown" /\ UNCHANGED <<success, got515>>
    BY <2>1, <2>3
  <2> QED
    BY <1>3, <2>2, <2>3 DEF QRsArrived
<1>4. CASE ConnectTimeout
  BY <1>1, <1>4 DEF ConnectTimeout, GoTo
<1>5. CASE PairPhone
  BY <1>5 DEF PairPhone, GoTo
<1>6. CASE WaitEnter
  BY <1>6 DEF WaitEnter, Choose
<1>7. CASE SelectTimer
  BY <1>1, <1>7 DEF SelectTimer, Choose
<1>8. CASE SelectRotate
  BY <1>8 DEF SelectRotate, Choose
<1>9. CASE SelectPasskey
  <2>1. pc' \in {"passkey", "refused"} /\ passkey /\ pc = "select"
    BY <1>9 DEF SelectPasskey, GoTo
  <2>2. UNCHANGED <<conn, flow, handler, codes, told, shownGen>>
    BY <1>9 DEF SelectPasskey, GoTo
  <2> QED BY <2>1, <2>2
<1>10. CASE MakeStep
  BY <1>10 DEF MakeStep
<1>11. CASE SelectConfirmed
  BY <1>1, <1>11 DEF SelectConfirmed, GoTo
<1>12. CASE SelectComplete
  BY <1>1, <1>12 DEF SelectComplete, OnLoginComplete, GoTo
<1>13. CASE Await515
  BY <1>13 DEF Await515, Cancel
<1>14. CASE Await515Timeout
  BY <1>1, <1>14 DEF Await515Timeout
<1>15. CASE NewLogin
  BY <1>15 DEF NewLogin, GoTo
<1>16. CASE ConnectClient
  BY <1>16 DEF ConnectClient, GoTo
<1>17. CASE SubmitNumber
  BY <1>17 DEF SubmitNumber, Connect, GoTo
<1>18. CASE SubmitPasskey
  BY <1>1, <1>18 DEF SubmitPasskey, GoTo
<1>19. CASE UserCancels \/ ContextDone
  BY <1>1, <1>19 DEF UserCancels, ContextDone
<1> QED
  BY <1>2, <1>3, <1>4, <1>5, <1>6, <1>7, <1>8, <1>9, <1>10, <1>11, <1>12, <1>13, <1>14,
     <1>15, <1>16, <1>17, <1>18, <1>19
  DEF CallerStep, UserStep

\* handleEvent, and time, preserve it.
LEMMA EventsKeep == LInv /\ (Events \/ IntervalOver) => LInv'
<1> SUFFICES ASSUME LInv, Events \/ IntervalOver PROVE LInv'
  OBVIOUS
<1> USE LoginAssumption, Labels
    DEF LInv, TypeOK, OnlyPaired, OneSocket, FailedIsClosed, StaleQRNoticed, Order,
        caller, conn, codes, told, Listening
<1>1. CASE QREvent
  BY <1>1 DEF QREvent
<1>2. CASE RotateQRs
  BY <1>2 DEF RotateQRs
<1>3. CASE RotateSet
  BY <1>3 DEF RotateSet
<1>4. CASE PasskeyRequestEvent
  BY <1>4 DEF PasskeyRequestEvent
<1>5. CASE PasskeyConfirmationEvent
  BY <1>5 DEF PasskeyConfirmationEvent
<1>6. CASE PairSuccessEvent
  BY <1>6 DEF PairSuccessEvent
<1>7. CASE Reconnect515Event
  BY <1>7 DEF Reconnect515Event
<1>8. ASSUME NEW gone \in BOOLEAN, ErrorEvent(gone) PROVE LInv'
  BY <1>8 DEF ErrorEvent
<1>9. CASE IntervalOver
  BY <1>9 DEF IntervalOver
<1> QED
  BY <1>1, <1>2, <1>3, <1>4, <1>5, <1>6, <1>7, <1>8, <1>9 DEF Events

\* The invariant is inductive.
LEMMA LStep == LInv /\ [Next]_vars => LInv'
<1> SUFFICES ASSUME LInv, [Next]_vars PROVE LInv'
  OBVIOUS
<1>1. CASE UNCHANGED vars
  BY <1>1
  DEF vars, caller, conn, codes, told, LInv, TypeOK, OnlyPaired, OneSocket, FailedIsClosed,
      StaleQRNoticed, Order
<1> QED
  BY <1>1, CallerType, CallerKeeps, EventsKeep DEF Next, LInv

\* It holds throughout every login.
THEOREM LoginInvariant == Spec => []LInv
  BY LInit, LStep, PTL DEF Spec

\* Every step of the login keeps its fields well typed.
THEOREM LoginTypeCorrect == Spec => []TypeOK
  BY LoginInvariant, PTL DEF LInv

\* A login record is only made from a pairing, so LoginSuccess is never nil there.
THEOREM LoginOnlyPaired == Spec => []OnlyPaired
  BY LoginInvariant, PTL DEF LInv

\* The login's client is disconnected when the new one is made and connected.
THEOREM LoginOneSocket == Spec => []OneSocket
  BY LoginInvariant, PTL DEF LInv

\* A failed login leaves no client connected.
THEOREM LoginFailedIsClosed == Spec => []FailedIsClosed
  BY LoginInvariant, PTL DEF LInv

\* However often the secret is rotated, a QR made with an old one is noticed.
THEOREM LoginStaleQRNoticed == Spec => []StaleQRNoticed
  BY LoginInvariant, PTL DEF LInv
=============================================================================
