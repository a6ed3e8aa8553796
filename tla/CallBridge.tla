----------------------------- MODULE CallBridge -----------------------------
(***************************************************************************)
(* pkg/connector/callbridging.go: one WhatsApp call at a time bridged to a *)
(* Matrix 1:1 call.  Every session runs several goroutines that interleave *)
(* freely: its starter (startIncoming or startOutgoing), answerIncoming,   *)
(* the audio pump, the 60 s invite timer, WhatsApp's callbacks, the Matrix *)
(* event handler, and end(), which whoever comes first runs once.  They    *)
(* share the session (under its lock) and waCallBridge.active (under the   *)
(* bridge's lock); a locked section is one step here, everything between   *)
(* two locked sections or network calls may be interrupted.                *)
(***************************************************************************)
EXTENDS Naturals

CONSTANTS Incoming,      \* calls WhatsApp offers
          Outgoing,      \* calls a Matrix user places
          None,          \* the nil session
          PlainContent   \* Matrix event types decoded as BaseCallEventContent

Sessions == Incoming \cup Outgoing

ASSUME SessionsAssumption == Incoming \cap Outgoing = {} /\ None \notin Sessions
ASSUME PlainContentAssumption == PlainContent \subseteq {"reject", "hangup"}

VARIABLES
    active,      \* waCallBridge.active
    pc,          \* where the starter goroutine of a session is
    leg,         \* the Matrix leg object: "none", "open" or "closed"
    mxLeg,       \* the session's mxLeg field is set
    call,        \* the session's call field is set
    answering,   \* the session's answering field
    ans,         \* where answerIncoming is
    cancelled,   \* the session's context is cancelled
    ender,       \* where end() is; "none" until endOnce runs
    notify,      \* end()'s argument
    hadLeg, hadCall, wasAnswering,  \* what end() read of the session
    timer,       \* the invite lifetime timer
    watch,       \* watchCall has registered the callbacks
    media,       \* the Matrix to WhatsApp pump
    wa,          \* WhatsApp's own view of the call
    rejects,     \* how often the bridge declined the call at WhatsApp
    hangups,     \* how often it hung the call up there
    room         \* what the Matrix room shows of an incoming call

starterVars == <<leg, mxLeg, call, watch>>
answerVars  == <<answering, ans>>
snap        == <<notify, hadLeg, hadCall, wasAnswering>>
endVars     == <<ender, snap>>
waTold      == <<rejects, hangups>>
outside     == <<wa, waTold, room>>
vars == <<active, pc, starterVars, answerVars, cancelled, endVars, timer,
          media, outside>>

StarterPC == {"idle", "check", "lookup", "claim", "watch", "newleg", "offer",
              "gather", "invite", "place", "store", "answer", "done",
              "dropped", "rejected"}
AnswerPC  == {"none", "begin", "set", "select", "answer", "done"}
EndPC     == {"none", "snap", "notify", "hangup", "cancel", "close", "clear", "done"}

TypeOK ==
    /\ active \in Sessions \cup {None}
    /\ pc \in [Sessions -> StarterPC]
    /\ leg \in [Sessions -> {"none", "open", "closed"}]
    /\ mxLeg \in [Sessions -> BOOLEAN]
    /\ call \in [Sessions -> BOOLEAN]
    /\ answering \in [Sessions -> BOOLEAN]
    /\ ans \in [Sessions -> AnswerPC]
    /\ cancelled \in [Sessions -> BOOLEAN]
    /\ ender \in [Sessions -> EndPC]
    /\ notify \in [Sessions -> BOOLEAN]
    /\ hadLeg \in [Sessions -> BOOLEAN]
    /\ hadCall \in [Sessions -> BOOLEAN]
    /\ wasAnswering \in [Sessions -> BOOLEAN]
    /\ timer \in [Sessions -> {"off", "armed", "fired"}]
    /\ watch \in [Sessions -> BOOLEAN]
    /\ media \in [Sessions -> {"off", "track", "read", "stopped"}]
    /\ wa \in [Sessions -> {"none", "ringing", "live", "over"}]
    /\ rejects \in [Sessions -> Nat]
    /\ hangups \in [Sessions -> Nat]
    /\ room \in [Sessions -> {"quiet", "ringing", "over"}]

Init ==
    /\ active = None
    /\ pc = [s \in Sessions |-> "idle"]
    /\ leg = [s \in Sessions |-> "none"]
    /\ mxLeg = [s \in Sessions |-> FALSE]
    /\ call = [s \in Sessions |-> s \in Incoming]
    /\ answering = [s \in Sessions |-> FALSE]
    /\ ans = [s \in Sessions |-> "none"]
    /\ cancelled = [s \in Sessions |-> FALSE]
    /\ ender = [s \in Sessions |-> "none"]
    /\ notify = [s \in Sessions |-> FALSE]
    /\ hadLeg = [s \in Sessions |-> FALSE]
    /\ hadCall = [s \in Sessions |-> FALSE]
    /\ wasAnswering = [s \in Sessions |-> FALSE]
    /\ timer = [s \in Sessions |-> "off"]
    /\ watch = [s \in Sessions |-> FALSE]
    /\ media = [s \in Sessions |-> "off"]
    /\ wa = [s \in Sessions |-> "none"]
    /\ rejects = [s \in Sessions |-> 0]
    /\ hangups = [s \in Sessions |-> 0]
    /\ room = [s \in Sessions |-> "quiet"]

-----------------------------------------------------------------------------
Goto(s, l) == pc' = [pc EXCEPT ![s] = l]

\* Mutant of End: no sync.Once, so a later caller runs it again.
EndEveryTime(s, notifyWA) ==
    /\ ender' = [ender EXCEPT ![s] = "snap"]
    /\ notify' = [notify EXCEPT ![s] = notifyWA]
    /\ UNCHANGED <<hadLeg, hadCall, wasAnswering>>

\* s.end(notifyWA): the first caller starts it, everybody after that only waits.
End(s, notifyWA) ==
    IF ender[s] = "none"
    THEN /\ ender' = [ender EXCEPT ![s] = "snap"]
         /\ notify' = [notify EXCEPT ![s] = notifyWA]
         /\ UNCHANGED <<hadLeg, hadCall, wasAnswering>>
    ELSE UNCHANGED endVars

\* call.Reject() and call.Hangup(): the request may fail, and then WhatsApp's
\* side stays as it is.
AtWA(s) == wa' = [wa EXCEPT ![s] = "over"] \/ UNCHANGED wa

Reject(s) == rejects' = [rejects EXCEPT ![s] = @ + 1] /\ UNCHANGED hangups /\ AtWA(s)
Hangup(s) == hangups' = [hangups EXCEPT ![s] = @ + 1] /\ UNCHANGED rejects /\ AtWA(s)

-----------------------------------------------------------------------------
(* Both starters up to taking the slot.                                     *)

\* WhatsApp offers a call: OnIncomingCall runs startIncoming in a goroutine.
Offered(s) ==
    /\ s \in Incoming /\ pc[s] = "idle"
    /\ Goto(s, "check")
    /\ wa' = [wa EXCEPT ![s] = "ringing"]
    /\ UNCHANGED <<active, starterVars, answerVars, cancelled, endVars, timer, media, waTold, room>>

\* A Matrix m.call.invite with an offer, in a DM: startOutgoing in a goroutine.
Invited(s) ==
    /\ s \in Outgoing /\ pc[s] = "idle"
    /\ Goto(s, "check")
    /\ UNCHANGED <<active, starterVars, answerVars, cancelled, endVars, timer, media, outside>>

\* Mutant of TurnAway: the second call is ignored, not declined.
TurnAwaySilently(s) == Goto(s, "rejected") /\ UNCHANGED <<wa, rejects, hangups>>

\* A second call is declined at WhatsApp; a second Matrix invite is ignored.
TurnAway(s) ==
    /\ Goto(s, "rejected")
    /\ IF s \in Incoming THEN Reject(s) ELSE UNCHANGED <<wa, waTold>>

CheckBusy(s) ==
    /\ pc[s] = "check"
    /\ IF active # None THEN TurnAway(s)
                        ELSE Goto(s, "lookup") /\ UNCHANGED <<wa, waTold>>
    /\ UNCHANGED <<active, starterVars, answerVars, cancelled, endVars, timer, media, room>>

\* The portal and the ghost; without them the starter gives up silently.
Lookup(s) ==
    /\ pc[s] = "lookup"
    /\ \/ Goto(s, "claim")
       \/ Goto(s, "dropped")
    /\ UNCHANGED <<active, starterVars, answerVars, cancelled, endVars, timer, media, outside>>

\* Mutant of Claim: trusts the first look at active.
ClaimBlind(s) ==
    /\ pc[s] = "claim"
    /\ active' = s
    /\ Goto(s, IF s \in Incoming THEN "watch" ELSE "newleg")
    /\ UNCHANGED <<starterVars, answerVars, cancelled, endVars, timer, media, outside>>

\* The second look at active, under the same lock that sets it.
Claim(s) ==
    /\ pc[s] = "claim"
    /\ IF active # None
       THEN /\ TurnAway(s)
            /\ cancelled' = [cancelled EXCEPT ![s] = TRUE]
            /\ UNCHANGED active
       ELSE /\ active' = s
            /\ Goto(s, IF s \in Incoming THEN "watch" ELSE "newleg")
            /\ UNCHANGED <<cancelled, wa, waTold>>
    /\ UNCHANGED <<starterVars, answerVars, endVars, timer, media, room>>

\* watchCall: registers OnEnd and OnReady.  A call that is already over may
\* or may not still report its end to a callback registered this late.
Watch(s) ==
    /\ pc[s] = "watch"
    /\ watch' = [watch EXCEPT ![s] = TRUE]
    /\ Goto(s, IF s \in Incoming THEN "newleg" ELSE "answer")
    /\ \/ wa[s] = "over" /\ End(s, FALSE)
       \/ UNCHANGED endVars
    /\ UNCHANGED <<active, leg, mxLeg, call, answerVars, cancelled, timer, media, outside>>

-----------------------------------------------------------------------------
(* startIncoming after the slot is taken: ringMatrix and the timer.         *)

\* newMatrixLeg, then the session's lock: a cancelled session closes the leg.
RingLeg(s) ==
    /\ s \in Incoming /\ pc[s] = "newleg"
    /\ \/ /\ End(s, TRUE)
          /\ Goto(s, "done")
          /\ UNCHANGED <<leg, mxLeg>>
       \/ /\ cancelled[s]
          /\ leg' = [leg EXCEPT ![s] = "closed"]
          /\ End(s, TRUE)
          /\ Goto(s, "done")
          /\ UNCHANGED mxLeg
       \/ /\ ~cancelled[s]
          /\ leg' = [leg EXCEPT ![s] = "open"]
          /\ mxLeg' = [mxLeg EXCEPT ![s] = TRUE]
          /\ Goto(s, "offer")
          /\ UNCHANGED endVars
    /\ UNCHANGED <<active, call, watch, answerVars, cancelled, timer, media, outside>>

RingOffer(s) ==
    /\ s \in Incoming /\ pc[s] = "offer"
    /\ \/ /\ leg' = [leg EXCEPT ![s] = "closed"]
          /\ End(s, TRUE)
          /\ Goto(s, "done")
       \/ /\ Goto(s, "gather")
          /\ UNCHANGED <<leg, endVars>>
    /\ UNCHANGED <<active, mxLeg, call, watch, answerVars, cancelled, timer, media, outside>>

RingGather(s) ==
    /\ s \in Incoming /\ pc[s] = "gather"
    /\ IF cancelled[s]
       THEN End(s, TRUE) /\ Goto(s, "done")
       ELSE Goto(s, "invite") /\ UNCHANGED endVars
    /\ UNCHANGED <<active, starterVars, answerVars, cancelled, timer, media, outside>>

RingInvite(s) ==
    /\ pc[s] = "invite"
    /\ Goto(s, "done")
    /\ \/ /\ ~cancelled[s]
          /\ room' = [room EXCEPT ![s] = "ringing"]
          /\ timer' = [timer EXCEPT ![s] = "armed"]
          /\ UNCHANGED endVars
       \/ /\ End(s, TRUE)
          /\ UNCHANGED <<room, timer>>
    /\ UNCHANGED <<active, starterVars, answerVars, cancelled, media, wa, waTold>>

\* Mutant of InviteExpires: the timer only logs that nobody answered.
InviteExpiresIdly(s) ==
    /\ timer[s] = "armed"
    /\ timer' = [timer EXCEPT ![s] = "fired"]
    /\ UNCHANGED <<active, pc, starterVars, answerVars, cancelled, endVars, media, outside>>

\* The 60 s timer: nobody answered in Matrix.
InviteExpires(s) ==
    /\ timer[s] = "armed"
    /\ timer' = [timer EXCEPT ![s] = "fired"]
    /\ IF ~cancelled[s] /\ ~answering[s] THEN End(s, TRUE) ELSE UNCHANGED endVars
    /\ UNCHANGED <<active, pc, starterVars, answerVars, cancelled, media, outside>>

-----------------------------------------------------------------------------
(* startOutgoing after the slot is taken.                                   *)

OutLeg(s) ==
    /\ s \in Outgoing /\ pc[s] = "newleg"
    /\ \/ /\ End(s, FALSE)
          /\ Goto(s, "done")
          /\ UNCHANGED <<leg, mxLeg>>
       \/ /\ leg' = [leg EXCEPT ![s] = "open"]
          /\ mxLeg' = [mxLeg EXCEPT ![s] = TRUE]
          /\ Goto(s, "offer")
          /\ UNCHANGED endVars
    /\ UNCHANGED <<active, call, watch, answerVars, cancelled, timer, media, outside>>

OutAnswerOffer(s) ==
    /\ s \in Outgoing /\ pc[s] = "offer"
    /\ \/ End(s, FALSE) /\ Goto(s, "done")
       \/ Goto(s, "gather") /\ UNCHANGED endVars
    /\ UNCHANGED <<active, starterVars, answerVars, cancelled, timer, media, outside>>

OutGather(s) ==
    /\ s \in Outgoing /\ pc[s] = "gather"
    /\ Goto(s, IF cancelled[s] THEN "done" ELSE "place")
    /\ UNCHANGED <<active, starterVars, answerVars, cancelled, endVars, timer, media, outside>>

\* mc.Call: a cancelled context fails it, anything else may.
OutPlace(s) ==
    /\ pc[s] = "place"
    /\ \/ /\ ~cancelled[s]
          /\ wa' = [wa EXCEPT ![s] = "ringing"]
          /\ Goto(s, "store")
          /\ UNCHANGED endVars
       \/ /\ End(s, FALSE)
          /\ Goto(s, "done")
          /\ UNCHANGED wa
    /\ UNCHANGED <<active, starterVars, answerVars, cancelled, timer, media, waTold, room>>

OutStore(s) ==
    /\ pc[s] = "store"
    /\ call' = [call EXCEPT ![s] = TRUE]
    /\ Goto(s, "watch")
    /\ UNCHANGED <<active, leg, mxLeg, watch, answerVars, cancelled, endVars, timer, media, outside>>

OutAnswer(s) ==
    /\ pc[s] = "answer"
    /\ Goto(s, "done")
    /\ \/ ~cancelled[s] /\ UNCHANGED endVars
       \/ End(s, TRUE)
    /\ UNCHANGED <<active, starterVars, answerVars, cancelled, timer, media, outside>>

-----------------------------------------------------------------------------
(* Matrix events for the active session.  A user can only name an incoming  *)
(* call after the invite carried its ID to the room; candidates change the  *)
(* leg's own ICE state and nothing here.                                    *)

Nameable(s) ==
    /\ active = s
    /\ s \in Outgoing \/ room[s] # "quiet"

MatrixHangup(s) ==
    /\ PlainContent # {}
    /\ Nameable(s)
    /\ ender[s] = "none"
    /\ End(s, TRUE)
    /\ UNCHANGED <<active, pc, starterVars, answerVars, cancelled, timer, media, outside>>

\* The first answer with an SDP runs answerIncoming; a later one finds
\* answering set and returns.
MatrixAnswer(s) ==
    /\ s \in Incoming /\ Nameable(s) /\ ans[s] = "none"
    /\ ans' = [ans EXCEPT ![s] = "begin"]
    /\ UNCHANGED <<active, pc, starterVars, answering, cancelled, endVars, timer, media, outside>>

\* An answer without an SDP ends the call, whenever it comes.
MatrixEmptyAnswer(s) ==
    /\ s \in Incoming /\ Nameable(s) /\ ender[s] = "none"
    /\ End(s, TRUE)
    /\ UNCHANGED <<active, pc, starterVars, answerVars, cancelled, timer, media, outside>>

AnswerBegin(s) ==
    /\ ans[s] = "begin"
    /\ IF answering[s] \/ cancelled[s]
       THEN ans' = [ans EXCEPT ![s] = "done"] /\ UNCHANGED <<answering, endVars>>
       ELSE /\ answering' = [answering EXCEPT ![s] = TRUE]
            /\ IF mxLeg[s]
               THEN ans' = [ans EXCEPT ![s] = "set"] /\ UNCHANGED endVars
               ELSE ans' = [ans EXCEPT ![s] = "done"] /\ End(s, TRUE)
    /\ UNCHANGED <<active, pc, starterVars, cancelled, timer, media, outside>>

AnswerSet(s) ==
    /\ ans[s] = "set"
    /\ \/ ans' = [ans EXCEPT ![s] = "select"] /\ UNCHANGED endVars
       \/ ans' = [ans EXCEPT ![s] = "done"] /\ End(s, TRUE)
    /\ UNCHANGED <<active, pc, starterVars, answering, cancelled, timer, media, outside>>

\* The select event: a failure to send it is only logged.
AnswerSelect(s) ==
    /\ ans[s] = "select"
    /\ ans' = [ans EXCEPT ![s] = "answer"]
    /\ UNCHANGED <<active, pc, starterVars, answering, cancelled, endVars, timer, media, outside>>

\* call.Answer(): fails unless WhatsApp is still ringing, and may fail anyway.
AnswerWA(s) ==
    /\ ans[s] = "answer"
    /\ ans' = [ans EXCEPT ![s] = "done"]
    /\ \/ /\ wa[s] = "ringing"
          /\ wa' = [wa EXCEPT ![s] = "live"]
          /\ UNCHANGED endVars
       \/ /\ End(s, TRUE)
          /\ UNCHANGED wa
    /\ UNCHANGED <<active, pc, starterVars, answering, cancelled, timer, media, waTold, room>>

-----------------------------------------------------------------------------
(* WhatsApp's side and the media.                                           *)

WAEnds(s) ==
    /\ wa[s] \in {"ringing", "live"}
    /\ wa' = [wa EXCEPT ![s] = "over"]
    /\ IF watch[s] THEN End(s, FALSE) ELSE UNCHANGED endVars
    /\ UNCHANGED <<active, pc, starterVars, answerVars, cancelled, timer, media, waTold, room>>

PeerAccepts(s) ==
    /\ s \in Outgoing /\ wa[s] = "ringing"
    /\ wa' = [wa EXCEPT ![s] = "live"]
    /\ UNCHANGED <<active, pc, starterVars, answerVars, cancelled, endVars, timer, media, waTold, room>>

\* OnReady: startMedia runs the pumps once; without a leg the pump returns,
\* and without an encoder or a decoder it ends the call.
MediaReady(s) ==
    /\ wa[s] = "live" /\ watch[s] /\ media[s] = "off"
    /\ \/ media' = [media EXCEPT ![s] = IF mxLeg[s] THEN "track" ELSE "stopped"] /\ UNCHANGED endVars
       \/ media' = [media EXCEPT ![s] = "stopped"] /\ End(s, TRUE)
    /\ UNCHANGED <<active, pc, starterVars, answerVars, cancelled, timer, outside>>

\* RemoteTrack(ctx) gives up when the session is cancelled.
PumpTrack(s) ==
    /\ media[s] = "track"
    /\ media' = [media EXCEPT ![s] = IF cancelled[s] THEN "stopped" ELSE "read"]
    /\ UNCHANGED <<active, pc, starterVars, answerVars, cancelled, endVars, timer, outside>>

\* ReadRTP fails once the leg is closed; the session's context cannot wake it.
PumpRead(s) ==
    /\ media[s] = "read" /\ leg[s] = "closed"
    /\ media' = [media EXCEPT ![s] = "stopped"]
    /\ UNCHANGED <<active, pc, starterVars, answerVars, cancelled, endVars, timer, outside>>

\* The Matrix track ends, or one more packet shows the loop it is cancelled.
TrackEnds(s) ==
    /\ media[s] = "read"
    /\ media' = [media EXCEPT ![s] = "stopped"]
    /\ UNCHANGED <<active, pc, starterVars, answerVars, cancelled, endVars, timer, outside>>

-----------------------------------------------------------------------------
(* end() and stop().                                                        *)

\* stop(), from Disconnect: ends whatever is in the slot.
Stop ==
    /\ active # None
    /\ ender[active] = "none"
    /\ End(active, TRUE)
    /\ UNCHANGED <<active, pc, starterVars, answerVars, cancelled, timer, media, outside>>

EndSnapshot(s) ==
    /\ ender[s] = "snap"
    /\ hadLeg' = [hadLeg EXCEPT ![s] = mxLeg[s]]
    /\ hadCall' = [hadCall EXCEPT ![s] = call[s]]
    /\ wasAnswering' = [wasAnswering EXCEPT ![s] = answering[s]]
    /\ UNCHANGED notify
    /\ ender' = [ender EXCEPT ![s] = "notify"]
    /\ UNCHANGED <<active, pc, starterVars, answerVars, cancelled, timer, media, outside>>

\* A call never picked up in Matrix is declined, any other is hung up.
EndNotify(s) ==
    /\ ender[s] = "notify"
    /\ ender' = [ender EXCEPT ![s] = "hangup"]
    /\ IF notify[s] /\ hadCall[s]
       THEN IF s \in Incoming /\ ~wasAnswering[s] THEN Reject(s) ELSE Hangup(s)
       ELSE UNCHANGED <<wa, waTold>>
    /\ UNCHANGED <<active, pc, starterVars, answerVars, cancelled, snap, timer, media, room>>

\* The hangup event to the room, which may fail.
EndHangup(s) ==
    /\ ender[s] = "hangup"
    /\ ender' = [ender EXCEPT ![s] = "cancel"]
    /\ \/ room' = [room EXCEPT ![s] = IF @ = "ringing" THEN "over" ELSE @]
       \/ UNCHANGED room
    /\ UNCHANGED <<active, pc, starterVars, answerVars, cancelled, snap, timer, media, wa, waTold>>

EndCancel(s) ==
    /\ ender[s] = "cancel"
    /\ ender' = [ender EXCEPT ![s] = "close"]
    /\ cancelled' = [cancelled EXCEPT ![s] = TRUE]
    /\ UNCHANGED <<active, pc, starterVars, answerVars, snap, timer, media, outside>>

EndClose(s) ==
    /\ ender[s] = "close"
    /\ ender' = [ender EXCEPT ![s] = "clear"]
    /\ leg' = [leg EXCEPT ![s] = IF hadLeg[s] THEN "closed" ELSE @]
    /\ UNCHANGED <<active, pc, mxLeg, call, watch, answerVars, cancelled, snap, timer, media, outside>>

\* Mutant of EndClear: the slot is only given back by a call that was answered.
EndClearAnswered(s) ==
    /\ ender[s] = "clear"
    /\ ender' = [ender EXCEPT ![s] = "done"]
    /\ active' = IF active = s /\ wasAnswering[s] THEN None ELSE active
    /\ UNCHANGED <<pc, starterVars, answerVars, cancelled, snap, timer, media, outside>>

\* The slot is given back under the bridge's lock, and end()'s locals go.
EndClear(s) ==
    /\ ender[s] = "clear"
    /\ ender' = [ender EXCEPT ![s] = "done"]
    /\ active' = IF active = s THEN None ELSE active
    /\ notify' = [notify EXCEPT ![s] = FALSE]
    /\ hadLeg' = [hadLeg EXCEPT ![s] = FALSE]
    /\ hadCall' = [hadCall EXCEPT ![s] = FALSE]
    /\ wasAnswering' = [wasAnswering EXCEPT ![s] = FALSE]
    /\ UNCHANGED <<pc, starterVars, answerVars, cancelled, timer, media, outside>>

-----------------------------------------------------------------------------
Starter(s) ==
    \/ CheckBusy(s) \/ Lookup(s) \/ Claim(s) \/ Watch(s)
    \/ RingLeg(s) \/ RingOffer(s) \/ RingGather(s) \/ RingInvite(s)
    \/ OutLeg(s) \/ OutAnswerOffer(s) \/ OutGather(s) \/ OutPlace(s)
    \/ OutStore(s) \/ OutAnswer(s)

Answerer(s) == AnswerBegin(s) \/ AnswerSet(s) \/ AnswerSelect(s) \/ AnswerWA(s)

Pump(s) == PumpTrack(s) \/ PumpRead(s)

Ender(s) ==
    \/ EndSnapshot(s) \/ EndNotify(s) \/ EndHangup(s)
    \/ EndCancel(s) \/ EndClose(s) \/ EndClear(s)

\* What the two networks and the user decide.
Environment(s) ==
    \/ Offered(s) \/ Invited(s) \/ MatrixHangup(s) \/ MatrixAnswer(s)
    \/ MatrixEmptyAnswer(s) \/ TrackEnds(s) \/ WAEnds(s) \/ PeerAccepts(s) \/ MediaReady(s)

Next ==
    \/ Stop
    \/ \E s \in Sessions :
        \/ Starter(s) \/ Answerer(s) \/ InviteExpires(s) \/ Pump(s)
        \/ Ender(s) \/ Environment(s)

Spec == Init /\ [][Next]_vars

\* A goroutine that can run does; timers fire; the networks promise nothing.
Fairness ==
    \A s \in Sessions :
        /\ WF_vars(Starter(s)) /\ WF_vars(Answerer(s)) /\ WF_vars(Ender(s))
        /\ WF_vars(InviteExpires(s)) /\ WF_vars(Pump(s))

FairSpec == Spec /\ Fairness

-----------------------------------------------------------------------------
(* Safety.                                                                  *)

\* The session took the slot at some point.
Claimed(s) == pc[s] \notin {"idle", "check", "lookup", "claim", "dropped", "rejected"}

\* WhatsApp was told to end the call.
Told(s) == rejects[s] + hangups[s] > 0

\* waCallBridge.active is the one claimed session whose end() has not finished:
\* however starters and enders interleave, no second call is bridged beside it
\* and none is forgotten while its goroutines still run.
OneCall == \A s \in Sessions : active = s <=> Claimed(s) /\ ender[s] # "done"

\* "hanging up twice at WhatsApp turns a normal end into an error": across the
\* starter's reject, the timer, both networks and stop(), WhatsApp is told to
\* end a call at most once.
EndsWAOnce == \A s \in Sessions : rejects[s] + hangups[s] <= 1

\* "a caller who is left with no answer at all cannot tell the difference
\* between busy and broken": when an incoming call was turned away, or end() is
\* through with it, WhatsApp ended the call itself or was told to.
NoOrphanIncoming ==
    \A s \in Incoming : pc[s] = "rejected" \/ ender[s] = "done"
                            => wa[s] = "over" \/ Told(s)

-----------------------------------------------------------------------------
(* Liveness, under FairSpec.                                                *)

\* An incoming call that took the slot is picked up at WhatsApp or gives the
\* slot back: startIncoming's failures, the 60 s timer and answerIncoming's
\* failures leave no path on which the bridge stays busy with a dead call.
IncomingResolves ==
    \A s \in Incoming : active = s ~> wa[s] = "live" \/ active # s

\* Whoever calls end(), the slot becomes free for the next call: a call that is
\* being ended does not keep it.
Ending == \E s \in Sessions : active = s /\ ender[s] # "none"
EndFreesSlot == Ending ~> ~Ending

-----------------------------------------------------------------------------
(* What the comment says and the code does not do (a violation run).        *)

AtRest(s) == pc[s] = "done" /\ ender[s] = "done" /\ ans[s] \in {"none", "done"}

\* "stop ends whatever is bridged, for a logout or a disconnect": when every
\* goroutine of a call is through, the bridge has told WhatsApp of an outgoing
\* call that is still on there, and no Matrix leg is open.
NothingLeft ==
    \A s \in Sessions :
        AtRest(s) => /\ s \in Outgoing /\ wa[s] \in {"ringing", "live"} => Told(s)
                     /\ leg[s] # "open"

-----------------------------------------------------------------------------
(* The slot as an abstract machine.                                         *)

Slot == INSTANCE CallSlot
            WITH holder <- active, spent <- {s \in Sessions : Claimed(s)}

\* The goroutines implement the slot: one holder, taken once, given back.
SlotSpec == Slot!Spec
=============================================================================
