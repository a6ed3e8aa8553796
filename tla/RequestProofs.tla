---------------------------- MODULE RequestProofs ---------------------------
(***************************************************************************)
(* The tables of what was asked for and not answered yet: on-demand        *)
(* history requests, ringing calls, the retry entries of direct media and  *)
(* the reservations of presence subscriptions.                             *)
(***************************************************************************)
EXTENDS OnDemand, Ringing, DirectMedia, PresenceSubs, TLAPS

(* The in-flight table of the on-demand history requests, for any number of chats
   and requests. *)

\* Exactly the requests up to asks were made, and only they get anywhere.
Made ==
    \A r \in Asks : /\ askCall[r] = "none" <=> r > asks
                    /\ askCall[r] = "none" => atPhone[r] = "no"

\* A chat's entry is the last request made for it.
EntryIsNewest ==
    \A c \in OdChats, r \in Asks :
        inFlight[c] # 0 /\ r > inFlight[c] /\ r <= asks => askChat[r] # c

OdInv == OdTypeOK /\ Made /\ EntryIsNewest /\ InFlightIsReal

LEMMA OdStarts == OdInit => OdInv
  BY OdAssumption DEF OdInit, OdInv, OdTypeOK, Made, EntryIsNewest, InFlightIsReal, Asks

LEMMA OdKeeps == OdInv /\ [OdNext]_odVars => OdInv'
<1> SUFFICES ASSUME OdInv, [OdNext]_odVars PROVE OdInv'
  OBVIOUS
<1> USE OdAssumption DEF OdInv, OdTypeOK, Made, EntryIsNewest, Asks
<1>1. CASE FetchFromPhone
  <2>1. OdTypeOK' /\ Made' /\ EntryIsNewest'
    BY <1>1 DEF FetchFromPhone, StartRequest, InFlightIsReal
  <2>2. InFlightIsReal'
    BY <1>1, <2>1 DEF FetchFromPhone, StartRequest, InFlightIsReal
  <2> QED BY <2>1, <2>2
<1>2. ASSUME NEW r \in Asks, Reaches(r) PROVE OdInv'
  BY <1>2 DEF Reaches, InFlightIsReal
<1>3. ASSUME NEW r \in Asks, SendDone(r) PROVE OdInv'
  BY <1>3 DEF SendDone, InFlightIsReal
<1>4. ASSUME NEW r \in Asks, SendFails(r) PROVE OdInv'
  <2>1. OdTypeOK' /\ Made' /\ EntryIsNewest'
    BY <1>4 DEF SendFails, DropFailed
  <2>2. InFlightIsReal'
    BY <1>4, <2>1 DEF SendFails, DropFailed, InFlightIsReal
  <2> QED BY <2>1, <2>2
<1>5. ASSUME NEW r \in Asks, Answers(r) PROVE OdInv'
  BY <1>5 DEF Answers, InFlightIsReal
<1>6. ASSUME NEW r \in Asks, NEW deleted \in BOOLEAN, HandleBlob(r, deleted) PROVE OdInv'
  <2>1. OdTypeOK' /\ Made' /\ EntryIsNewest'
    BY <1>6 DEF HandleBlob, FinishRequest
  <2>2. InFlightIsReal'
    BY <1>6, <2>1 DEF HandleBlob, FinishRequest, InFlightIsReal
  <2> QED BY <2>1, <2>2
<1>7. CASE OdRestart
  BY <1>7 DEF OdRestart, InFlightIsReal
<1>8. CASE UNCHANGED odVars
  BY <1>8 DEF odVars, InFlightIsReal
<1> QED
  BY <1>1, <1>2, <1>3, <1>4, <1>5, <1>6, <1>7, <1>8 DEF OdNext

\* For any chats and any number of requests, the table holds exactly the requests of
\* this process that are on their way or unanswered (fetchMessagesFromPhone and
\* finishOnDemandHistorySyncRequest), but for the entry that a late failure of an
\* earlier request takes out.
THEOREM RequestsInFlightAreReal == OdSpec => []InFlightIsReal
<1>1. OdSpec => []OdInv
  BY OdStarts, OdKeeps, PTL DEF OdSpec
<1> QED
  BY <1>1, PTL DEF OdInv
----------------------------------------------------------------------------
(* The table of ringing calls, for any number of calls and chats. *)

\* Only offered calls are logged, and a call that was over before the handler had
\* entered it was ended by the bridge.
LoggedOK ==
    /\ \A c \in logged : atWA[c] # "new"
    /\ setting # NoCall => setting \in logged
    /\ \A c \in RgCalls : atWA[c] = "over" /\ (c \notin logged \/ setting = c) => c \in raced

RgInv == RgTypeOK /\ LoggedOK /\ RingingIsLatest

LEMMA RgStarts == RgInit => RgInv
  BY RgAssumption DEF RgInit, RgInv, RgTypeOK, LoggedOK, RingingIsLatest

\* The end of a call by the bridge, at any moment between its log entry and its
\* entry in the table, or before both.
LEMMA ReportKeeps ==
    ASSUME RgInv, NEW c \in RgCalls, Report(c), declining' \in [RgChats -> RgCalls \cup {NoCall}]
    PROVE  RgInv'
<1> USE RgAssumption DEF RgInv, Report, Clear
<1>1. RgTypeOK'
  BY DEF RgTypeOK
<1>2. LoggedOK'
  BY DEF RgTypeOK, LoggedOK
<1>3. RingingIsLatest'
  BY DEF RgTypeOK, LoggedOK, RingingIsLatest
<1> QED BY <1>1, <1>2, <1>3

LEMMA RgKeeps == RgInv /\ [RgNext]_rgVars => RgInv'
<1> SUFFICES ASSUME RgInv, [RgNext]_rgVars PROVE RgInv'
  OBVIOUS
<1> USE RgAssumption DEF RgInv, RgTypeOK, LoggedOK, RingingIsLatest
<1>1. ASSUME NEW c \in RgCalls, Offer(c) PROVE RgInv'
  BY <1>1 DEF Offer
<1>2. ASSUME NEW c \in RgCalls, Ends(c) PROVE RgInv'
  BY <1>2 DEF Ends
<1>3. ASSUME NEW c \in RgCalls, LogOffer(c) PROVE RgInv'
  BY <1>3 DEF LogOffer
<1>4. CASE Set
  BY <1>4 DEF Set
<1>5. ASSUME NEW c \in RgCalls, HandleOver(c) PROVE RgInv'
  BY <1>5 DEF HandleOver, Clear
<1>6. ASSUME NEW c \in RgCalls, BridgeReports(c) PROVE RgInv'
  BY <1>6, ReportKeeps DEF BridgeReports
<1>7. ASSUME NEW p \in RgChats, DeclineLook(p) PROVE RgInv'
  BY <1>7 DEF DeclineLook
<1>8. ASSUME NEW p \in RgChats, DeclineCall(p) PROVE RgInv'
  <2>1. declining' \in [RgChats -> RgCalls \cup {NoCall}] /\ declining[p] \in RgCalls
    BY <1>8 DEF DeclineCall
  <2>2. CASE Report(declining[p])
    BY <2>1, <2>2, ReportKeeps
  <2>3. CASE UNCHANGED <<rgChat, atWA, logged, setting, ringing, raced, newest>>
    BY <2>1, <2>3
  <2> QED BY <1>8, <2>2, <2>3 DEF DeclineCall
<1>9. CASE UNCHANGED rgVars
  BY <1>9 DEF rgVars
<1> QED
  BY <1>1, <1>2, <1>3, <1>4, <1>5, <1>6, <1>7, <1>8, <1>9 DEF RgNext

\* For any calls and chats, the call entered last for a chat is in the table for as long
\* as it rings, and nothing else is but a call that the bridge ended before it was
\* entered (ringingCalls, handleWACallEvent, reportBridgedCall).
THEOREM TableNamesTheRingingCall == RgSpec => []RingingIsLatest
<1>1. RgSpec => []RgInv
  BY RgStarts, RgKeeps, PTL DEF RgSpec
<1> QED
  BY <1>1, PTL DEF RgInv
----------------------------------------------------------------------------
(* The retry entries of direct media, for any number of messages, readers and paths. *)

\* The part of DmTypeOK that the argument needs.
EntriesOK ==
    /\ locked \in [DmMsgs -> Readers \cup {NoReader}]
    /\ rd \in [Readers -> RdPC] /\ rdMsg \in [Readers -> DmMsgs]
    /\ sent \in [DmMsgs -> Nat]

\* A lock is held by a reader that sends for that message, and by no other; nothing is
\* sent for a message that was requested.
LockOK ==
    /\ \A m \in DmMsgs : locked[m] # NoReader =>
        rd[locked[m]] = "send" /\ rdMsg[locked[m]] = m /\ m \in entry /\ m \notin requested
    /\ \A r \in Readers : rd[r] = "send" => locked[rdMsg[r]] = r

\* What was requested was sent once and has its entry, and what was answered since has
\* woken those who wait.
AskedOnce ==
    /\ requested \subseteq entry
    /\ \A m \in DmMsgs : sent[m] = IF m \in requested THEN 1 ELSE 0
    /\ answered \subseteq woken

DmInv == EntriesOK /\ LockOK /\ AskedOnce

LEMMA DmStarts == DmInit => DmInv
  BY DmAssumption DEF DmInit, DmInv, EntriesOK, LockOK, AskedOnce, RdPC

LEMMA DmImplies == DmInv => OneAskServesAll
  BY DmAssumption DEF DmInv, EntriesOK, LockOK, AskedOnce, OneAskServesAll

LEMMA DmKeeps == DmInv /\ [DmNext]_dmVars => DmInv'
<1> SUFFICES ASSUME DmInv, [DmNext]_dmVars PROVE DmInv'
  OBVIOUS
<1> USE DmAssumption DEF DmInv, EntriesOK, LockOK, AskedOnce, RdPC, Go, rdVars
<1>1. CASE DmRestart
  BY <1>1 DEF DmRestart
<1>2. ASSUME NEW m \in DmMsgs, Expire(m) PROVE DmInv'
  BY <1>2 DEF Expire
<1>3. ASSUME NEW m \in DmMsgs, PhoneReplies(m) PROVE DmInv'
  BY <1>3 DEF PhoneReplies
<1>4. ASSUME NEW m \in DmMsgs, NEW n \in 0..MaxPaths, Receive(m, n) PROVE DmInv'
  BY <1>4 DEF Receive
<1>5. ASSUME NEW r \in Readers, Open(r) PROVE DmInv'
  BY <1>5 DEF Open
<1>6. ASSUME NEW r \in Readers, Download(r) PROVE DmInv'
  BY <1>6 DEF Download
<1>7. ASSUME NEW r \in Readers, Ask(r) PROVE DmInv'
  BY <1>7 DEF Ask, Create
<1>8. ASSUME NEW r \in Readers, GetsThrough(r) PROVE DmInv'
  BY <1>8 DEF GetsThrough
<1>9. ASSUME NEW r \in Readers, NEW ok \in BOOLEAN, SendReturns(r, ok) PROVE DmInv'
  BY <1>9 DEF SendReturns, Requested
<1>10. ASSUME NEW r \in Readers, Wake(r) PROVE DmInv'
  BY <1>10 DEF Wake
<1>11. ASSUME NEW r \in Readers, WaitOver(r) PROVE DmInv'
  BY <1>11 DEF WaitOver
<1>12. ASSUME NEW r \in Readers, DownloadAgain(r) PROVE DmInv'
  BY <1>12 DEF DownloadAgain
<1>13. CASE UNCHANGED dmVars
  BY <1>13 DEF dmVars
<1> QED
  BY <1>1, <1>2, <1>3, <1>4, <1>5, <1>6, <1>7, <1>8, <1>9, <1>10, <1>11, <1>12, <1>13 DEF DmNext

\* For any messages and readers, the phone is asked once for a message in the life of a
\* process, by the reader that holds the lock, and nobody who waits sleeps through
\* the answer (requestDirectMedia, receiveDirectMediaRetry).
THEOREM OneRequestServesAllReaders == DmSpec => []OneAskServesAll
<1>1. DmSpec => []DmInv
  BY DmStarts, DmKeeps, PTL DEF DmSpec
<1> QED
  BY <1>1, DmImplies, PTL
----------------------------------------------------------------------------
(* The reservations of presence subscriptions, for any persons, caps, plan and number
   of connections. *)

\* The part of SubsTypeOK that the argument needs; the plan may be any.
RunsOK ==
    /\ subConn \in 0..MaxConns
    /\ subRun \in [SubRuns -> RunPC]
    /\ subIdx \in [SubRuns -> Nat]
    /\ subChat \in [Persons -> ChatPC]

\* Somebody works on a reservation of p in presenceSubs, or in presenceMemberSubs.
ChatBusy(p) == p \in Persons /\ subChat[p] \in {"ask", "release"}
WorksOn(r, p, member) ==
    /\ subRun[r] \in {"ask", "release"}
    /\ subPlan[subIdx[r]].jid = p
    /\ IF subPlan[subIdx[r]].member THEN member ELSE ~member
RunBusy(p, member) == \E r \in SubRuns : WorksOn(r, p, member)

Past(labels) == subUp /\ subConn > 0 /\ subRun[subConn] \in labels

\* Each set on its own, from its own reset on.  That somebody works on p does not
\* say on which of the sets, and whoever does takes p out of only one of them.
SubsSubscribed ==
    Past({"resetMembers", "step", "reserve", "ask", "release", "done"}) =>
        \A p \in subs : p \in subServer \/ ChatBusy(p) \/ RunBusy(p, FALSE)

MembersSubscribed ==
    Past({"step", "reserve", "ask", "release", "done"}) =>
        \A p \in memberSubs : p \in subServer \/ RunBusy(p, TRUE)

SubsInv == RunsOK /\ SubsSubscribed /\ MembersSubscribed

LEMMA SubsStarts == SubsInit => SubsInv
  BY SubsAssumption DEF SubsInit, SubsInv, RunsOK, SubsSubscribed, MembersSubscribed, Past,
     RunPC, ChatPC, SubRuns

LEMMA SubsImplies == SubsInv => ReservedIsSubscribed
  BY DEF SubsInv, SubsSubscribed, MembersSubscribed, ReservedIsSubscribed, Past, SubBusy,
     ChatBusy, RunBusy, WorksOn

\* A step of one run leaves what the others work on alone.
LEMMA OthersWorkOn ==
    ASSUME RunsOK, NEW r \in SubRuns, NEW l \in RunPC, RunGoto(r, l),
           \A q \in SubRuns \ {r} : subIdx'[q] = subIdx[q],
           UNCHANGED subPlan,
           NEW p, NEW member \in BOOLEAN, RunBusy(p, member), ~WorksOn(r, p, member)
    PROVE  RunBusy(p, member)'
<1>1. PICK q \in SubRuns : WorksOn(q, p, member)
  BY DEF RunBusy
<1>2. q # r /\ subRun'[q] = subRun[q] /\ subIdx'[q] = subIdx[q]
  BY <1>1 DEF RunsOK, RunGoto
<1>3. WorksOn(q, p, member)'
  BY <1>1, <1>2 DEF WorksOn
<1> QED BY <1>3 DEF RunBusy

\* A step of one run keeps the invariant if it keeps the invariant's parts for what
\* it works on itself and for what it reserves.
LEMMA RunKeeps ==
    ASSUME SubsInv, NEW r \in SubRuns, NEW l \in RunPC, RunGoto(r, l),
           subIdx' = subIdx \/ subIdx' = [subIdx EXCEPT ![r] = @ + 1],
           UNCHANGED <<subPlan, subConn, subUp, subChat>>,
           subServer \subseteq subServer',
           subRun[r] # "none",
           subRun[r] \in {"swap", "reset", "resetMembers"} => l \in {"swap", "reset", "resetMembers"},
           subRun[r] \in {"swap", "reset"} => l \in {"swap", "reset"},
           \A p \in subs' : p \in subs \/ WorksOn(r, p, FALSE)',
           \A p \in memberSubs' : p \in memberSubs \/ WorksOn(r, p, TRUE)',
           \A p \in subs' : WorksOn(r, p, FALSE) => p \in subServer' \/ WorksOn(r, p, FALSE)',
           \A p \in memberSubs' : WorksOn(r, p, TRUE) => p \in subServer' \/ WorksOn(r, p, TRUE)'
    PROVE  SubsInv'
<1>1. RunsOK'
  BY DEF SubsInv, RunsOK, RunGoto
<1>2. \A q \in SubRuns \ {r} : subIdx'[q] = subIdx[q]
  BY DEF SubsInv, RunsOK
<1>3. SubsSubscribed'
  <2> SUFFICES ASSUME Past({"resetMembers", "step", "reserve", "ask", "release", "done"})',
                      NEW p \in subs', p \notin subServer', ~WorksOn(r, p, FALSE)'
               PROVE  ChatBusy(p)' \/ RunBusy(p, FALSE)'
    BY DEF SubsSubscribed, RunBusy
  <2>1. Past({"resetMembers", "step", "reserve", "ask", "release", "done"})
    BY DEF Past, SubsInv, RunsOK, RunGoto, RunPC, SubRuns
  <2>2. p \in subs /\ p \notin subServer /\ ~WorksOn(r, p, FALSE)
    OBVIOUS
  <2>3. ChatBusy(p) \/ RunBusy(p, FALSE)
    BY <2>1, <2>2 DEF SubsInv, SubsSubscribed
  <2>4. CASE ChatBusy(p)
    BY <2>4 DEF ChatBusy
  <2>5. CASE RunBusy(p, FALSE)
    BY <1>2, <2>2, <2>5, OthersWorkOn DEF SubsInv
  <2> QED BY <2>3, <2>4, <2>5
<1>4. MembersSubscribed'
  <2> SUFFICES ASSUME Past({"step", "reserve", "ask", "release", "done"})',
                      NEW p \in memberSubs', p \notin subServer', ~WorksOn(r, p, TRUE)'
               PROVE  RunBusy(p, TRUE)'
    BY DEF MembersSubscribed, RunBusy
  <2>1. Past({"step", "reserve", "ask", "release", "done"})
    BY DEF Past, SubsInv, RunsOK, RunGoto, RunPC, SubRuns
  <2>2. p \in memberSubs /\ p \notin subServer /\ ~WorksOn(r, p, TRUE)
    OBVIOUS
  <2>3. RunBusy(p, TRUE)
    BY <2>1, <2>2 DEF SubsInv, MembersSubscribed
  <2> QED
    BY <1>2, <2>2, <2>3, OthersWorkOn DEF SubsInv
<1> QED BY <1>1, <1>3, <1>4 DEF SubsInv

\* A run reserves the person of its step, or skips the step.
LEMMA ReserveKeeps == ASSUME SubsInv, NEW r \in SubRuns, RunReserve(r) PROVE SubsInv'
<1> PICK j, m : j = subPlan[subIdx[r]].jid /\ m = subPlan[subIdx[r]].member
  OBVIOUS
<1>1. /\ UNCHANGED <<subPlan, subConn, subUp, subChat>> /\ subServer' = subServer
      /\ subRun[r] = "reserve" /\ \A p, member : ~WorksOn(r, p, member)
  BY DEF RunReserve, WorksOn
<1>2. CASE Skip(r) /\ UNCHANGED <<subs, memberSubs>>
  <2>1. RunGoto(r, "step") /\ subIdx' = [subIdx EXCEPT ![r] = @ + 1]
    BY <1>2 DEF Skip
  <2> QED
    BY <1>1, <1>2, <2>1, RunKeeps DEF RunPC
<1>3. CASE RunGoto(r, "ask") /\ m /\ memberSubs' = memberSubs \cup {j} /\ UNCHANGED <<subs, subIdx>>
  <2>1. WorksOn(r, j, TRUE)'
    BY <1>1, <1>3 DEF WorksOn, RunGoto, SubsInv, RunsOK
  <2>2. \A p \in memberSubs' : p \in memberSubs \/ p = j
    BY <1>3
  <2>3. \A p \in memberSubs' : p \in memberSubs \/ WorksOn(r, p, TRUE)'
    BY <2>1, <2>2 DEF WorksOn
  <2> QED
    BY <1>1, <1>3, <2>3, RunKeeps DEF RunPC
<1>4. CASE RunGoto(r, "ask") /\ ~m /\ subs' = subs \cup {j} /\ UNCHANGED <<memberSubs, subIdx>>
  <2>1. WorksOn(r, j, FALSE)'
    BY <1>1, <1>4 DEF WorksOn, RunGoto, SubsInv, RunsOK
  <2>2. \A p \in subs' : p \in subs \/ p = j
    BY <1>4
  <2>3. \A p \in subs' : p \in subs \/ WorksOn(r, p, FALSE)'
    BY <2>1, <2>2 DEF WorksOn
  <2> QED
    BY <1>1, <1>4, <2>3, RunKeeps DEF RunPC
<1> QED BY <1>2, <1>3, <1>4 DEF RunReserve

\* The request of a run succeeds or fails.
LEMMA AskKeeps == ASSUME SubsInv, NEW r \in SubRuns, RunAsk(r) PROVE SubsInv'
<1>1. UNCHANGED <<subPlan, subConn, subUp, subChat, subs, memberSubs>> /\ subRun[r] = "ask"
  BY DEF RunAsk
<1>2. CASE RunGoto(r, "release") /\ UNCHANGED <<subServer, subIdx>>
  <2>1. \A p, member : WorksOn(r, p, member) => WorksOn(r, p, member)'
    BY <1>1, <1>2 DEF WorksOn, RunGoto, SubsInv, RunsOK
  <2> QED
    BY <1>1, <1>2, <2>1, RunKeeps DEF RunPC
<1>3. CASE subServer' = subServer \cup {subPlan[subIdx[r]].jid} /\ Skip(r)
  <2>1. RunGoto(r, "step") /\ subIdx' = [subIdx EXCEPT ![r] = @ + 1]
    BY <1>3 DEF Skip
  <2>2. \A p, member : WorksOn(r, p, member) => p \in subServer'
    BY <1>3 DEF WorksOn
  <2>3. subServer \subseteq subServer'
    BY <1>3
  <2> QED
    BY <1>1, <2>1, <2>2, <2>3, RunKeeps DEF RunPC
<1> QED BY <1>2, <1>3 DEF RunAsk

LEMMA SubsKeeps == SubsInv /\ [SubsNext]_subsVars => SubsInv'
<1> SUFFICES ASSUME SubsInv, [SubsNext]_subsVars PROVE SubsInv'
  OBVIOUS
<1> USE SubsAssumption DEF SubsInv, RunsOK, SubsSubscribed, MembersSubscribed, Past, ChatBusy,
        RunBusy, WorksOn, RunPC, ChatPC, SubRuns, RunGoto, ChatGoto, Skip
<1>1. CASE SubsConnect
  BY <1>1 DEF SubsConnect
<1>2. CASE SubsDrop
  BY <1>2 DEF SubsDrop
<1>3. ASSUME NEW r \in SubRuns, RunSwap(r) PROVE SubsInv'
  BY <1>3, RunKeeps DEF RunSwap
<1>4. ASSUME NEW r \in SubRuns, RunReset(r) PROVE SubsInv'
  BY <1>4 DEF RunReset
<1>5. ASSUME NEW r \in SubRuns, RunResetMembers(r) PROVE SubsInv'
  BY <1>5 DEF RunResetMembers
<1>6. ASSUME NEW r \in SubRuns, RunStep(r) PROVE SubsInv'
  BY <1>6, RunKeeps DEF RunStep
<1>7. ASSUME NEW r \in SubRuns, RunReserve(r) PROVE SubsInv'
  BY <1>7, ReserveKeeps
<1>8. ASSUME NEW r \in SubRuns, RunAsk(r) PROVE SubsInv'
  BY <1>8, AskKeeps
<1>9. ASSUME NEW r \in SubRuns, RunRelease(r) PROVE SubsInv'
  BY <1>9, RunKeeps, ZenonT(40) DEF RunRelease
<1>10. ASSUME NEW p \in Persons, ChatLook(p) PROVE SubsInv'
  BY <1>10 DEF ChatLook
<1>11. ASSUME NEW p \in Persons, ChatReserve(p) PROVE SubsInv'
  BY <1>11, SMTT(30) DEF ChatReserve
<1>12. ASSUME NEW p \in Persons, ChatAsk(p) PROVE SubsInv'
  BY <1>12 DEF ChatAsk
<1>13. ASSUME NEW p \in Persons, ChatRelease(p) PROVE SubsInv'
  BY <1>13 DEF ChatRelease
<1>14. CASE UNCHANGED subsVars
  BY <1>14 DEF subsVars
<1> QED
  BY <1>1, <1>2, <1>3, <1>4, <1>5, <1>6, <1>7, <1>8, <1>9, <1>10, <1>11, <1>12, <1>13, <1>14
  DEF SubsNext

\* For any persons, caps, plan and number of connections, a reservation that nobody is
\* working on stands for a subscription of the live connection once its run has
\* reset the sets (subscribePresences, subscribeChatPresence).
THEOREM NoStaleReservation == SubsSpec => []ReservedIsSubscribed
<1>1. SubsSpec => []SubsInv
  BY SubsStarts, SubsKeeps, PTL DEF SubsSpec
<1> QED
  BY <1>1, SubsImplies, PTL
=============================================================================
