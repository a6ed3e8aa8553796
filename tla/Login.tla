------------------------------- MODULE Login -------------------------------
(***************************************************************************)
(* pkg/connector/login.go: one WALogin.  The framework calls Start,        *)
(* SubmitUserInput, Wait, SubmitWebAuthnResponse and Cancel one after the  *)
(* other; `pc` says where that caller is.  Meanwhile whatsmeow calls       *)
(* handleEvent from its own goroutine: the fields and exsync.Events it     *)
(* sets are read by the caller without a lock.  Time is `slot`, the number *)
(* of QR intervals that have passed since the codes came.                  *)
(***************************************************************************)
EXTENDS Naturals

CONSTANTS NumQRs,        \* how many codes WhatsApp sends: len(wl.QRs)
          Intervals,     \* len(qrIntervals)
          MaxRotations   \* bound: rotations of the ADV secret in one login

ASSUME LoginAssumption ==
    /\ NumQRs \in Nat \ {0}
    /\ Intervals \in Nat \ {0}
    /\ MaxRotations \in Nat

VARIABLES
    flow,        \* PhoneCode or not
    pc,          \* where the framework's caller is
    next,        \* index of the QR the caller will show next
    prev,        \* PrevQRIndex
    shownGen,    \* which secret the QR on display was made with
    sock,        \* whether the login's client is connected
    closed,      \* Closed
    handler,     \* whether handleEvent is between rewriting QRs and Set
    qrs,         \* whether QRs and WaitForQRs are set
    gen,         \* which secret the codes in QRs are made with
    slot,        \* intervals passed since StartTime
    rotate,      \* ADVRotate
    passkey,     \* PasskeyRequest
    confirmed,   \* PasskeyConfirmation: "no", "skip" (SkipHandoffUX), "show"
    complete,    \* LoginComplete
    failure,     \* LoginError # nil
    success,     \* LoginSuccess # nil
    got515       \* Received515

caller == <<pc, next, prev, shownGen>>
conn   == <<sock, closed>>
codes  == <<qrs, gen, slot>>
told   == <<rotate, passkey, confirmed, complete, failure, success, got515>>
vars   == <<flow, caller, conn, handler, codes, told>>

\* The ways a login ends, and where its caller can be.
Over == {"complete", "failed", "refused", "panic"}
Steps == Over \cup {"new", "connecting", "number", "pairing", "shown", "select", "make",
                    "passkey", "confirm", "finish", "await", "create", "connect"}

TypeOK ==
    /\ flow \in {"qr", "phone"}
    /\ pc \in Steps
    /\ next \in 0..Intervals
    /\ prev \in 0..Intervals
    /\ shownGen \in 0..MaxRotations
    /\ sock \in {"off", "on"}
    /\ closed \in BOOLEAN
    /\ handler \in {"idle", "rotating"}
    /\ qrs \in BOOLEAN
    /\ gen \in 0..MaxRotations
    /\ slot \in 0..Intervals
    /\ confirmed \in {"no", "skip", "show"}
    /\ rotate \in BOOLEAN /\ passkey \in BOOLEAN /\ complete \in BOOLEAN
    /\ failure \in BOOLEAN /\ success \in BOOLEAN /\ got515 \in BOOLEAN

\* CreateLogin.
Init ==
    /\ flow \in {"qr", "phone"}
    /\ pc = "new" /\ next = 0 /\ prev = 0 /\ shownGen = 0
    /\ sock = "off" /\ closed = FALSE /\ handler = "idle"
    /\ qrs = FALSE /\ gen = 0 /\ slot = 0
    /\ rotate = FALSE /\ passkey = FALSE /\ confirmed = "no"
    /\ complete = FALSE /\ failure = FALSE /\ success = FALSE /\ got515 = FALSE

-----------------------------------------------------------------------------
(* The framework's caller.                                                  *)

\* Mutant of Cancel: the handler is removed, the client stays connected.
CancelConnected == closed' = TRUE /\ UNCHANGED sock

\* Cancel: no more events, and the client is disconnected.
Cancel == closed' = TRUE /\ sock' = "off"

\* The caller gives up through Cancel.
GiveUp ==
    /\ Cancel
    /\ pc' = "failed"
    /\ UNCHANGED <<flow, next, prev, shownGen, handler, codes, told>>

\* The caller moves on and touches nothing else.
GoTo(l) ==
    /\ pc' = l
    /\ UNCHANGED <<flow, next, prev, shownGen, conn, handler, codes, told>>

\* Client.Connect in Start or SubmitUserInput.  On an error nothing was opened.
Connect(otherwise) ==
    \/ /\ sock' = "on" /\ pc' = "connecting"
       /\ UNCHANGED <<flow, next, prev, shownGen, closed, handler, codes, told>>
    \/ GoTo(otherwise)

\* Start: the phone flow asks for a number first, the QR flow connects.  Without its
\* proxy neither does.
Start ==
    /\ pc = "new"
    /\ \/ GoTo("failed")
       \/ flow = "phone" /\ GoTo("number")
       \/ flow = "qr" /\ Connect("failed")

\* SubmitUserInput, or StartWithOverride's automatic submission.
SubmitNumber == pc = "number" /\ Connect("refused")

\* The first QR is there: Start shows it, SubmitUserInput asks for a code.
QRsArrived ==
    /\ pc = "connecting" /\ qrs
    /\ \/ flow = "phone" /\ GoTo("pairing")
       \/ /\ flow = "qr"
          /\ pc' = "shown" /\ shownGen' = gen
          /\ UNCHANGED <<flow, next, prev, conn, handler, codes, told>>

\* LoginConnectWait is over, or the request was cancelled.  Only Start cleans up.
ConnectTimeout ==
    /\ pc = "connecting"
    /\ \/ flow = "qr" /\ GiveUp
       \/ flow = "phone" /\ GoTo("refused")

\* PairPhone: a pairing code, or an error returned without Cancel.
PairPhone == pc = "pairing" /\ (GoTo("shown") \/ GoTo("refused"))

\* getQRIndex; the code's -1 is Intervals here.
Current == slot

\* Wait decides to show the QR with index i: ADVRotate is cleared before QRs is read.
\* On the way out of the timer and of the immediate branch PrevQRIndex is stored.
Choose(i, p) ==
    /\ pc' = "make" /\ next' = i /\ prev' = p
    /\ rotate' = FALSE
    /\ UNCHANGED <<flow, shownGen, conn, handler, codes, passkey, confirmed, complete,
                   failure, success, got515>>

\* Wait up to its select: a QR that is due is returned at once.  When the codes
\* have run out, getQRIndex returns -1 and nextIndex is 0.
WaitEnter ==
    /\ pc = "shown"
    /\ IF flow = "qr" /\ Current < Intervals /\ Current > prev
       THEN Choose(Current, Current)
       ELSE /\ pc' = "select"
            /\ next' = IF Current < Intervals THEN Current + 1 ELSE 0
            /\ UNCHANGED <<flow, prev, shownGen, conn, handler, codes, told>>

NoMoreQRs == next >= NumQRs

\* The interval is over.
SelectTimer ==
    /\ pc = "select" /\ flow = "qr" /\ slot >= next
    /\ \/ NoMoreQRs /\ GiveUp
       \/ ~NoMoreQRs /\ Choose(next, next)

SelectRotate == pc = "select" /\ flow = "qr" /\ rotate /\ Choose(next, prev)

\* makePasskeyStep; its error is returned without Cancel.
SelectPasskey == pc = "select" /\ passkey /\ (GoTo("passkey") \/ GoTo("refused"))

\* makeQRStep(wl.QRs[i]); an index out of range panics.
MakeStep ==
    /\ pc = "make"
    /\ pc' = IF next < NumQRs THEN "shown" ELSE "panic"
    /\ shownGen' = gen
    /\ UNCHANGED <<flow, next, prev, conn, handler, codes, told>>

\* SubmitWebAuthnResponse up to its first select.
SubmitPasskey == pc = "passkey" /\ (GoTo("confirm") \/ GiveUp)

\* The first select: confirmation codes cannot be displayed; sending may fail.
SelectConfirmed ==
    /\ pc = "confirm" /\ confirmed # "no"
    /\ \/ confirmed = "skip" /\ GoTo("finish")
       \/ GiveUp

\* The request's context is done while the caller waits in a select.
ContextDone == pc \in {"select", "confirm", "finish"} /\ GiveUp

\* Mutant of OnLoginComplete: the new login is created without waiting for the 515.
OnLoginCompleteAtOnce == IF failure THEN GiveUp ELSE GoTo("create")

\* onLoginComplete up to the wait for the 515.
OnLoginComplete == IF failure THEN GiveUp ELSE GoTo("await")

\* Mutant of SelectComplete: the wait for a pairing code does not end.
SelectCompleteQROnly ==
    \/ pc \in {"select", "finish"} /\ flow = "qr" /\ complete /\ OnLoginComplete
    \/ pc = "confirm" /\ complete /\ GoTo("finish")

\* A select that takes LoginComplete.
SelectComplete ==
    \/ pc \in {"select", "finish"} /\ complete /\ OnLoginComplete
    \/ pc = "confirm" /\ complete /\ GoTo("finish")

\* Received515 is set: the login's client is disconnected before the new one is made.
Await515 ==
    /\ pc = "await" /\ got515
    /\ Cancel /\ pc' = "create"
    /\ UNCHANGED <<flow, next, prev, shownGen, handler, codes, told>>

\* Ten seconds went by without it.
Await515Timeout == pc = "await" /\ GiveUp

\* NewLogin; it may fail.
NewLogin == pc = "create" /\ (GoTo("connect") \/ GoTo("failed"))

\* WhatsAppClient.connect; the login is complete whether or not it succeeds.
ConnectClient == pc = "connect" /\ GoTo("complete")

\* The framework's cancel while it waits for the user's input.
UserCancels == pc \in {"number", "passkey"} /\ GiveUp

CallerStep ==
    \/ Start \/ QRsArrived \/ ConnectTimeout \/ PairPhone
    \/ WaitEnter \/ SelectTimer \/ SelectRotate \/ SelectPasskey \/ MakeStep
    \/ SelectConfirmed \/ SelectComplete
    \/ Await515 \/ Await515Timeout \/ NewLogin \/ ConnectClient

UserStep == SubmitNumber \/ SubmitPasskey \/ UserCancels

-----------------------------------------------------------------------------
(* handleEvent.  WhatsApp's order of events is external: codes first, the   *)
(* 515 after the pairing succeeded.                                         *)

Listening == sock = "on" /\ ~closed /\ handler = "idle"

QREvent ==
    /\ Listening /\ ~qrs
    /\ qrs' = TRUE /\ slot' = 0
    /\ UNCHANGED <<flow, caller, conn, handler, gen, told>>

\* RotateADVSecret: every code is rewritten,
RotateQRs ==
    /\ Listening /\ qrs /\ gen < MaxRotations
    /\ gen' = gen + 1 /\ handler' = "rotating"
    /\ UNCHANGED <<flow, caller, conn, qrs, slot, told>>

\* Mutant of RotateSet: nobody is told that the codes have changed.
RotateSetSilently ==
    /\ handler = "rotating"
    /\ handler' = "idle" /\ complete' = TRUE
    /\ UNCHANGED <<flow, caller, conn, codes, rotate, passkey, confirmed, failure, success, got515>>

\* then ADVRotate is set, and LoginComplete with it, as this case does not return.
RotateSet ==
    /\ handler = "rotating"
    /\ handler' = "idle" /\ rotate' = TRUE /\ complete' = TRUE
    /\ UNCHANGED <<flow, caller, conn, codes, passkey, confirmed, failure, success, got515>>

PasskeyRequestEvent ==
    /\ Listening /\ qrs /\ ~passkey /\ ~success
    /\ passkey' = TRUE
    /\ UNCHANGED <<flow, caller, conn, handler, codes, rotate, confirmed, complete, failure,
                   success, got515>>

PasskeyConfirmationEvent ==
    /\ Listening /\ pc = "confirm" /\ confirmed = "no"
    /\ confirmed' \in {"skip", "show"}
    /\ UNCHANGED <<flow, caller, conn, handler, codes, rotate, passkey, complete, failure,
                   success, got515>>

\* PairSuccess: the user scanned a code or entered one, and a passkey was accepted.
PairSuccessEvent ==
    /\ Listening /\ qrs /\ pc # "connecting" /\ ~success
    /\ passkey => pc = "finish"
    /\ success' = TRUE /\ complete' = TRUE
    /\ UNCHANGED <<flow, caller, conn, handler, codes, rotate, passkey, confirmed, failure, got515>>

\* ManualLoginReconnect.
Reconnect515Event ==
    /\ Listening /\ success /\ ~got515
    /\ got515' = TRUE /\ complete' = TRUE
    /\ UNCHANGED <<flow, caller, conn, handler, codes, rotate, passkey, confirmed, failure, success>>

\* Every event that sets LoginError; Disconnected also means that the socket is gone.
ErrorEvent(gone) ==
    /\ Listening
    /\ failure' = TRUE /\ complete' = TRUE
    /\ sock' = IF gone THEN "off" ELSE sock
    /\ UNCHANGED <<flow, caller, closed, handler, codes, rotate, passkey, confirmed, success, got515>>

\* Another interval of qrIntervals is over.
IntervalOver ==
    /\ qrs /\ slot < Intervals
    /\ slot' = slot + 1
    /\ UNCHANGED <<flow, caller, conn, handler, qrs, gen, told>>

Events ==
    \/ QREvent \/ RotateQRs \/ RotateSet \/ PasskeyRequestEvent \/ PasskeyConfirmationEvent
    \/ PairSuccessEvent \/ Reconnect515Event \/ \E gone \in BOOLEAN : ErrorEvent(gone)

Next == CallerStep \/ UserStep \/ ContextDone \/ Events \/ IntervalOver

Spec == Init /\ [][Next]_vars

\* The framework goes on from every step it displays, a user asked for input gives it
\* or cancels, time passes, and WhatsApp does not keep a login open for ever.  Go's
\* select takes each of its ready cases some time.
Fairness ==
    /\ WF_vars(CallerStep) /\ WF_vars(UserStep) /\ WF_vars(RotateSet)
    /\ WF_vars(IntervalOver) /\ WF_vars(ErrorEvent(TRUE))
    /\ SF_vars(SelectComplete)

FairSpec == Spec /\ Fairness

-----------------------------------------------------------------------------
(* Properties.                                                              *)

\* onLoginComplete dereferences LoginSuccess when it makes the new login: although
\* other events set LoginComplete too, it only gets there after a pairing.
OnlyPaired == pc \in {"create", "connect", "complete"} => success

\* The new client connects with the device of the login's client: that one must be
\* disconnected by then, or WhatsApp replaces one stream with the other.
OneSocket == pc \in {"create", "connect", "complete"} => sock = "off"

\* A login that ended with an error has not left its client connected (the errors of
\* SubmitUserInput and makePasskeyStep, which do not cancel, are the state "refused").
FailedIsClosed == pc = "failed" => sock = "off"

\* A QR on display that was made with the old ADV secret is noticed: ADVRotate is
\* set, or about to be, and Wait returns another one.
StaleQRNoticed ==
    pc \in {"shown", "select"} /\ flow = "qr" /\ shownGen # gen => rotate \/ handler = "rotating"

\* Whatever WhatsApp, the user and the clock do, a login that was started ends.
LoginEnds == <>(pc \in Over)

=============================================================================
