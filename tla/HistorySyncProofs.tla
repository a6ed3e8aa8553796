-------------------------- MODULE HistorySyncProofs --------------------------
(***************************************************************************)
(* The history sync loops, for any announcements, conversations and        *)
(* generations: what was announced is never lost, and what was stored is   *)
(* never forgotten between the two loops.                                  *)
(***************************************************************************)
EXTENDS HistorySync, TLAPS

\* Only what was sent is worked on; what a loop is about to delete from the server has
\* left the queue with its conversations stored.
WorkIsReal ==
  /\ queue \subseteq sent
  /\ \A g \in Gens : main[g] \in {"download", "delete"} => picked[g] \in sent
  /\ \A g \in Gens : main[g] = "delete" =>
       /\ picked[g] \notin queue
       /\ Kind[picked[g]] = "recent" => Holds[picked[g]] \subseteq known

\* No loop of a generation to come runs, and without reconnects only the loops of the
\* current one do.
OneGeneration ==
  \A g \in Gens : g > cur \/ (~MayReconnect /\ g # cur) => main[g] = "off" /\ portal[g] = "off"

HsInv == TypeOK /\ WorkIsReal /\ OneGeneration /\ Recoverable

USE DEF Gens, Runs

LEMMA HsStarts == Init => HsInv /\ NotForgotten
<1> SUFFICES ASSUME Init PROVE HsInv /\ NotForgotten
  OBVIOUS
<1> USE BoundTypes, FlagTypes
<1>1. TypeOK
  <2>1. saved \in BOOLEAN /\ needs \in BOOLEAN /\ isNew \in BOOLEAN /\ wakeup \in BOOLEAN
    BY Zenon DEF Init
  <2>2. armed \in [Gens -> BOOLEAN] /\ pending \in [Gens -> BOOLEAN]
    BY Zenon DEF Init
  <2> QED BY <2>1, <2>2 DEF Init, TypeOK, MainStates, PortalStates
<1>2. WorkIsReal /\ OneGeneration /\ Recoverable /\ NotForgotten
  BY DEF Init, WorkIsReal, OneGeneration, Recoverable, NotForgotten
<1> QED BY <1>1, <1>2 DEF HsInv

\* The Boolean part of the type invariant.
FlagsOK ==
  /\ saved \in BOOLEAN /\ needs \in BOOLEAN /\ isNew \in BOOLEAN /\ wakeup \in BOOLEAN
  /\ armed \in [Gens -> BOOLEAN] /\ pending \in [Gens -> BOOLEAN]

LEMMA HsFlags == FlagsOK /\ [Next]_vars => FlagsOK'
<1> SUFFICES ASSUME FlagsOK, [Next]_vars PROVE FlagsOK'
  OBVIOUS
<1> USE DEF FlagsOK, dbVars, serverVars, procVars, mainVars, timerVars, portalVars
<1>1. CASE Reconnect
  BY <1>1, Zenon DEF Reconnect, Arms
<1>2. CASE Crash
  BY <1>2, Zenon DEF Crash, Arms
<1>3. ASSUME NEW n \in Notifs, Put(n) \/ Notify(n) PROVE FlagsOK'
  BY <1>3, Zenon DEF Put, Notify
<1>4. ASSUME NEW g \in Gens, MainStep(g) PROVE FlagsOK'
  <2>1. CASE Wake(g)
    BY <2>1, Zenon DEF Wake
  <2>2. CASE StopMain(g) \/ SaveFails(g) \/ SaveData(g)
    BY <2>2, Zenon DEF StopMain, SaveFails, SaveData
  <2>3. CASE DeleteBlob(g) \/ PauseOver(g) \/ LoadPending(g)
    BY <2>3, Zenon DEF DeleteBlob, PauseOver, LoadPending
  <2>4. CASE StorePending(g) \/ ResetTimer(g)
    BY <2>4, Zenon DEF StorePending, ResetTimer
  <2> QED BY <1>4, <2>1, <2>2, <2>3, <2>4, Zenon DEF MainStep
<1>5. ASSUME NEW g \in Gens, TimerFires(g) PROVE FlagsOK'
  BY <1>5, Zenon DEF TimerFires
<1>6. ASSUME NEW g \in Gens, PortalStep(g) PROVE FlagsOK'
  BY <1>6, Zenon DEF PortalStep, StopPortals, ClearPending, GetRecent, ListOne, ListDone, ListAborts
<1>7. ASSUME NEW r \in Runs, AllHandled(r) PROVE FlagsOK'
  BY <1>7, Zenon DEF AllHandled
<1>8. ASSUME NEW r \in Runs, NEW c \in Convs, Handled(r, c) PROVE FlagsOK'
  BY <1>8, Zenon DEF Handled
<1>9. CASE UNCHANGED vars
  BY <1>9, Zenon DEF vars
<1> QED
  BY <1>1, <1>2, <1>3, <1>4, <1>5, <1>6, <1>7, <1>8, <1>9, Zenon DEF Next


LEMMA HsTypes == TypeOK /\ OneGeneration /\ [Next]_vars => TypeOK'
<1> SUFFICES ASSUME TypeOK, OneGeneration, [Next]_vars PROVE TypeOK'
  OBVIOUS
<1> USE BoundTypes, FlagTypes, NoNotifOutside DEF TypeOK, MainStates, PortalStates,
        dbVars, serverVars, procVars, mainVars, timerVars, portalVars, Go, At
<1>1. FlagsOK'
  <2>1. FlagsOK
    BY DEF FlagsOK
  <2> QED BY <2>1, HsFlags
<1>2. CASE Reconnect
  BY <1>1, <1>2 DEF Reconnect, FlagsOK, OneGeneration
<1>3. CASE Crash
  BY <1>1, <1>3 DEF Crash, FlagsOK
<1>4. ASSUME NEW n \in Notifs, Put(n) \/ Notify(n) PROVE TypeOK'
  BY <1>1, <1>4 DEF Put, Notify, FlagsOK
<1>5. ASSUME NEW g \in Gens, MainStep(g) PROVE TypeOK'
  <2>1. CASE Wake(g)
    <3>1. CASE picked' = picked /\ Go(g, "load")
      BY <1>1, <2>1, <3>1 DEF Wake, FlagsOK
    <3>2. ASSUME NEW n \in queue, picked' = [picked EXCEPT ![g] = n], Go(g, "download")
          PROVE  TypeOK'
      <4>1. n \in Notifs /\ n # NoNotif
        OBVIOUS
      <4> QED BY <1>1, <2>1, <3>2, <4>1 DEF Wake, FlagsOK
    <3> QED BY <2>1, <3>1, <3>2 DEF Wake
  <2>2. CASE StopMain(g) \/ SaveFails(g)
    <3>1. CASE StopMain(g)
      BY <1>1, <3>1 DEF StopMain, FlagsOK
    <3>2. CASE SaveFails(g)
      BY <1>1, <3>2, SMTT(30) DEF SaveFails, FlagsOK
    <3> QED BY <2>2, <3>1, <3>2
  <2>3. CASE SaveData(g)
    BY <1>1, <2>3, KindType DEF SaveData, FlagsOK
  <2>4. CASE DeleteBlob(g)
    BY <1>1, <2>4 DEF DeleteBlob, FlagsOK
  <2>5. CASE PauseOver(g) \/ StorePending(g) \/ LoadPending(g) \/ ResetTimer(g)
    <3>1. CASE PauseOver(g)
      BY <1>1, <3>1 DEF PauseOver, FlagsOK
    <3>2. CASE StorePending(g)
      BY <1>1, <3>2 DEF StorePending, FlagsOK
    <3>3. CASE LoadPending(g)
      BY <1>1, <3>3 DEF LoadPending, FlagsOK
    <3>4. CASE ResetTimer(g)
      BY <1>1, <3>4 DEF ResetTimer, FlagsOK
    <3> QED BY <2>5, <3>1, <3>2, <3>3, <3>4
  <2> QED BY <1>5, <2>1, <2>2, <2>3, <2>4, <2>5 DEF MainStep
<1>6. ASSUME NEW g \in Gens, TimerFires(g) PROVE TypeOK'
  BY <1>1, <1>6 DEF TimerFires, FlagsOK
<1>7. ASSUME NEW g \in Gens, PortalStep(g) PROVE TypeOK'
  <2>1. CASE StopPortals(g) \/ ClearPending(g)
    <3>1. CASE StopPortals(g)
      BY <1>1, <3>1 DEF StopPortals, FlagsOK
    <3>2. CASE ClearPending(g)
      BY <1>1, <3>2 DEF ClearPending, FlagsOK
    <3> QED BY <2>1, <3>1, <3>2
  <2>2. CASE GetRecent(g)
    <3>1. CASE At(g, "wait") /\ UNCHANGED <<listing, run, todo>>
      BY <1>1, <2>2, <3>1 DEF GetRecent, FlagsOK
    <3>2. ASSUME NEW r \in Runs, NEW S \in SUBSET Convs, run' = [run EXCEPT ![r] = "listing"],
                 todo' = [todo EXCEPT ![r] = S], listing' = [listing EXCEPT ![g] = r],
                 At(g, "list")
          PROVE  TypeOK'
      BY <1>1, <2>2, <3>2, SMTT(30) DEF GetRecent, FlagsOK
    <3> QED BY <2>2, <3>1, <3>2 DEF GetRecent
  <2>3. ASSUME NEW c \in Convs, ListOne(g, c) PROVE TypeOK'
    <3>1. /\ UNCHANGED <<queue, saved, serverVars, procVars, mainVars, timerVars, portal, listing, run, known>>
          /\ stored' \subseteq stored /\ synced' \subseteq synced
          /\ todo' = [todo EXCEPT ![listing[g]] = @ \ {c}]
      BY <2>3 DEF ListOne
    <3>2. events' = events \/ events' = [events EXCEPT ![listing[g]] = @ \cup {c}]
      BY <2>3 DEF ListOne
    <3>3. todo' \in [Runs -> SUBSET Convs]
      BY <3>1
    <3>4. events' \in [Runs -> SUBSET Convs]
      <4>1. \A r \in Runs : events[r] \cup {c} \in SUBSET Convs
        OBVIOUS
      <4>2. events \in [Runs -> SUBSET Convs]
        OBVIOUS
      <4> HIDE DEF TypeOK
      <4> QED BY <3>2, <4>1, <4>2
    <3> HIDE DEF Go, At
    <3>5. queue' \subseteq Notifs /\ stored' \subseteq Convs /\ synced' \subseteq Convs
      BY <3>1
    <3> QED BY <1>1, <3>1, <3>3, <3>4, <3>5 DEF FlagsOK
  <2>4. CASE ListDone(g) \/ ListAborts(g)
    <3>1. listing[g] \in Runs
      BY <2>4 DEF ListDone, ListAborts
    <3>2. CASE ListDone(g)
      BY <1>1, <3>1, <3>2 DEF ListDone, FlagsOK
    <3>3. CASE ListAborts(g)
      BY <1>1, <3>1, <3>3 DEF ListAborts, FlagsOK
    <3> QED BY <2>4, <3>2, <3>3
  <2> QED BY <1>7, <2>1, <2>2, <2>3, <2>4 DEF PortalStep
<1>8. ASSUME NEW r \in Runs, AllHandled(r) PROVE TypeOK'
  BY <1>1, <1>8 DEF AllHandled, FlagsOK
<1>9. ASSUME NEW r \in Runs, NEW c \in Convs, Handled(r, c) PROVE TypeOK'
  BY <1>1, <1>9 DEF Handled, FlagsOK
<1>10. CASE UNCHANGED vars
  BY <1>1, <1>10 DEF vars, FlagsOK
<1> QED
  BY <1>2, <1>3, <1>4, <1>5, <1>6, <1>7, <1>8, <1>9, <1>10 DEF Next

LEMMA HsKeeps == HsInv /\ [Next]_vars => WorkIsReal' /\ OneGeneration' /\ Recoverable'
<1> SUFFICES ASSUME HsInv, [Next]_vars
             PROVE  WorkIsReal' /\ OneGeneration' /\ Recoverable'
  OBVIOUS
<1> USE BoundTypes, FlagTypes, NoNotifOutside DEF HsInv, TypeOK, WorkIsReal, OneGeneration,
        Recoverable, MainStates, PortalStates,
        dbVars, serverVars, procVars, mainVars, timerVars, portalVars, Go, At
<1> DEFINE Goal == WorkIsReal' /\ OneGeneration' /\ Recoverable'
<1>1. CASE Reconnect
  BY <1>1 DEF Reconnect
<1>2. CASE Crash
  BY <1>2 DEF Crash
<1>3. ASSUME NEW n \in Notifs, Put(n) \/ Notify(n) PROVE Goal
  BY <1>3 DEF Put, Notify
<1>4. ASSUME NEW g \in Gens, MainStep(g) PROVE Goal
  <2>1. CASE Wake(g)
    <3>1. CASE picked' = picked /\ Go(g, "load")
      BY <2>1, <3>1 DEF Wake
    <3>2. ASSUME NEW n \in queue, picked' = [picked EXCEPT ![g] = n], Go(g, "download")
          PROVE  Goal
      BY <2>1, <3>2 DEF Wake
    <3> QED BY <2>1, <3>1, <3>2 DEF Wake
  <2>2. CASE StopMain(g)
    BY <2>2 DEF StopMain
  <2>3. CASE SaveFails(g)
    BY <2>3 DEF SaveFails
  <2>4. CASE SaveData(g)
    BY <2>4, KindType DEF SaveData
  <2>5. CASE DeleteBlob(g)
    BY <2>5 DEF DeleteBlob
  <2>6. CASE PauseOver(g) \/ StorePending(g) \/ LoadPending(g) \/ ResetTimer(g)
    <3>1. CASE PauseOver(g)
      BY <3>1, ZenonT(40) DEF PauseOver
    <3>2. CASE StorePending(g)
      BY <3>2 DEF StorePending
    <3>3. CASE LoadPending(g)
      BY <3>3 DEF LoadPending
    <3>4. CASE ResetTimer(g)
      BY <3>4 DEF ResetTimer
    <3> QED BY <2>6, <3>1, <3>2, <3>3, <3>4
  <2> QED BY <1>4, <2>1, <2>2, <2>4, <2>5, <2>6, <2>3 DEF MainStep
<1>5. ASSUME NEW g \in Gens, TimerFires(g) PROVE Goal
  BY <1>5 DEF TimerFires
<1>6. ASSUME NEW g \in Gens, PortalStep(g) PROVE Goal
  <2>1. CASE StopPortals(g)
    BY <2>1 DEF StopPortals
  <2>2. CASE ClearPending(g)
    BY <2>2 DEF ClearPending
  <2>3. CASE GetRecent(g)
    BY <2>3 DEF GetRecent
  <2>4. ASSUME NEW c \in Convs, ListOne(g, c) PROVE Goal
    BY <2>4 DEF ListOne
  <2>5. CASE ListDone(g) \/ ListAborts(g)
    BY <2>5, SMTT(30) DEF ListDone, ListAborts
  <2> QED BY <1>6, <2>1, <2>3, <2>4, <2>5, <2>2 DEF PortalStep
<1>7. ASSUME NEW r \in Runs, AllHandled(r) PROVE Goal
  BY <1>7 DEF AllHandled
<1>8. ASSUME NEW r \in Runs, NEW c \in Convs, Handled(r, c) PROVE Goal
  BY <1>8 DEF Handled
<1>9. CASE UNCHANGED vars
  BY <1>9 DEF vars
<1> QED
  BY <1>1, <1>2, <1>3, <1>4, <1>5, <1>6, <1>7, <1>8, <1>9 DEF Next

\* Whatever fails, and whenever the process dies or reconnects, an announcement is still
\* queued with its blob on the server or its conversations were stored: for any
\* announcements, generations and numbers of runs (handleWAHistorySyncNotification
\* deletes the row with the transaction that stores, and the blob only after it).
THEOREM NothingAnnouncedIsLost == Spec => []Recoverable
<1>1. HsInv /\ [Next]_vars => HsInv'
  BY HsTypes, HsKeeps DEF HsInv
<1>2. HsInv => Recoverable
  BY DEF HsInv
<1> QED BY HsStarts, <1>1, <1>2, PTL DEF Spec
----------------------------------------------------------------------------
(* The wakeups the loops of all connections share. *)

LEMMA AwakeKeeps == HsInv /\ QueueAwake /\ [Next]_vars => QueueAwake'
<1> SUFFICES ASSUME HsInv, QueueAwake, [Next]_vars PROVE QueueAwake'
  OBVIOUS
<1> USE BoundTypes DEF HsInv, TypeOK, QueueAwake, Cancelled, MainStates,
        dbVars, serverVars, procVars, mainVars, timerVars, portalVars, Go, At
<1>1. CASE Reconnect
  BY <1>1 DEF Reconnect
<1>2. CASE Crash
  BY <1>2 DEF Crash
<1>3. ASSUME NEW n \in Notifs, Put(n) \/ Notify(n) PROVE QueueAwake'
  BY <1>3 DEF Put, Notify
<1>4. ASSUME NEW g \in Gens, MainStep(g) PROVE QueueAwake'
  <2>1. CASE Wake(g)
    <3>1. CASE stalled' = (stalled \/ queue # {}) /\ Go(g, "load")
      <4>1. queue' = queue /\ (queue # {} => stalled') /\ main'[cur'] # "off"
        BY <2>1, <3>1 DEF Wake
      <4> QED BY <4>1
    <3>2. CASE Go(g, "download")
      <4>1. main'[g] = "download" /\ main'[cur'] # "off"
        BY <2>1, <3>2 DEF Wake
      <4> QED BY <4>1
    <3> QED BY <2>1, <3>1, <3>2 DEF Wake
  <2>2. CASE StopMain(g)
    <3>1. g # cur /\ UNCHANGED <<queue, cur, wakeup, notify, stalled>>
      BY <2>2 DEF StopMain
    <3>2. /\ main'[cur] # "off"
          /\ \A h \in Gens : main[h] \in {"download", "delete"} => main'[h] = main[h]
      BY <2>2, <3>1 DEF StopMain
    <3> QED BY <3>1, <3>2
  <2>3. CASE SaveFails(g) \/ DeleteBlob(g)
    <3>1. wakeup' /\ main'[cur'] # "off"
      BY <2>3 DEF SaveFails, DeleteBlob
    <3> QED BY <3>1
  <2>4. CASE SaveData(g)
    <3>1. main'[g] = "delete" /\ main'[cur'] # "off"
      BY <2>4 DEF SaveData
    <3> QED BY <3>1
  <2>5. CASE PauseOver(g) \/ StorePending(g) \/ LoadPending(g) \/ ResetTimer(g)
    <3>1. /\ UNCHANGED <<queue, cur, wakeup, notify, stalled>>
          /\ main'[cur] # "off" /\ main[g] \notin {"download", "delete"}
          /\ \A h \in Gens \ {g} : main'[h] = main[h]
      BY <2>5, SMTT(30) DEF PauseOver, StorePending, LoadPending, ResetTimer
    <3> QED BY <3>1
  <2> QED BY <1>4, <2>1, <2>2, <2>3, <2>4, <2>5 DEF MainStep
<1>5. ASSUME NEW g \in Gens, TimerFires(g) \/ PortalStep(g) PROVE QueueAwake'
  <2>1. UNCHANGED <<queue, cur, wakeup, notify, stalled, main>>
    BY <1>5, Zenon DEF TimerFires, PortalStep, StopPortals, ClearPending, GetRecent, ListOne, ListDone,
                ListAborts
  <2> QED BY <2>1
<1>6. ASSUME NEW r \in Runs, AllHandled(r) \/ \E c \in Convs : Handled(r, c) PROVE QueueAwake'
  BY <1>6 DEF AllHandled, Handled
<1>7. CASE UNCHANGED vars
  BY <1>7 DEF vars
<1> QED
  BY <1>1, <1>2, <1>3, <1>4, <1>5, <1>6, <1>7 DEF Next

\* A queue that is not empty keeps the loop of the current connection awake, whatever
\* announcements come, loops of earlier connections take the shared wakeups and requests
\* fail: only a look at the queue that failed leaves it asleep.
THEOREM QueueStaysAwake == Spec => []QueueAwake
<1>1. HsInv /\ QueueAwake /\ [Next]_vars => (HsInv /\ QueueAwake)'
  BY HsTypes, HsKeeps, AwakeKeeps DEF HsInv
<1>2. Init => QueueAwake
  BY BoundTypes DEF Init, QueueAwake
<1> QED BY HsStarts, <1>1, <1>2, PTL DEF Spec
----------------------------------------------------------------------------
(* The hand-over from the main loop to the portal creating loop. *)

LEMMA HandOver == HsInv /\ HsInv' /\ NotForgotten /\ [Next]_vars => NotForgotten'
<1> SUFFICES ASSUME HsInv, HsInv', NotForgotten, [Next]_vars,
                    ~MayFail, ~MayReconnect, Limit < 0, (cur = 1 \/ needs)',
                    NEW c \in Convs, (c \in stored \ (synced \cup Skipped))'
             PROVE  OnItsWay(c)'
  BY DEF NotForgotten, HsInv, TypeOK
<1>1. (cur = 1 \/ needs) /\ c \in stored \ (synced \cup Skipped) => OnItsWay(c)
  BY DEF NotForgotten
<1> HIDE DEF NotForgotten
<1> USE BoundTypes, FlagTypes, NoNotifOutside DEF HsInv, TypeOK, OneGeneration, Cancelled,
        MainStates, PortalStates,
        dbVars, serverVars, procVars, mainVars, timerVars, portalVars, Go, At
<1>2. CASE Crash
  BY <1>2 DEF Crash, OnItsWay, Arms
<1>3. ASSUME NEW n \in Notifs, Put(n) \/ Notify(n) PROVE OnItsWay(c)'
  BY <1>1, <1>3 DEF Put, Notify, OnItsWay
<1>4. ASSUME NEW g \in Gens, MainStep(g) PROVE OnItsWay(c)'
  <2>1. g = cur
    BY <1>4 DEF MainStep, Wake, StopMain, SaveFails, SaveData, DeleteBlob, PauseOver,
                StorePending, LoadPending, ResetTimer
  <2>2. CASE Wake(g)
    BY <1>1, <2>1, <2>2 DEF Wake, OnItsWay
  <2>3. CASE StopMain(g) \/ SaveFails(g)
    BY <1>1, <2>1, <2>3 DEF StopMain, SaveFails, OnItsWay
  <2>4. CASE SaveData(g)
    BY <1>1, <2>1, <2>4, KindType DEF SaveData, OnItsWay
  <2>5. CASE DeleteBlob(g)
    BY <1>1, <2>1, <2>5 DEF DeleteBlob, OnItsWay
  <2>6. CASE PauseOver(g) \/ StorePending(g) \/ LoadPending(g) \/ ResetTimer(g)
    BY <1>1, <2>1, <2>6 DEF PauseOver, StorePending, LoadPending, ResetTimer, OnItsWay
  <2> QED BY <1>4, <2>2, <2>3, <2>4, <2>5, <2>6 DEF MainStep
<1>5. ASSUME NEW g \in Gens, TimerFires(g) PROVE OnItsWay(c)'
  BY <1>1, <1>5 DEF TimerFires, OnItsWay
<1>6. ASSUME NEW g \in Gens, PortalStep(g) PROVE OnItsWay(c)'
  <2>1. g = cur
    BY <1>6 DEF PortalStep, StopPortals, ClearPending, GetRecent, ListOne, ListDone, ListAborts
  <2>2. CASE StopPortals(g) \/ ClearPending(g)
    BY <1>1, <2>1, <2>2 DEF StopPortals, ClearPending, OnItsWay
  <2>3. CASE GetRecent(g)
    BY <1>1, <2>1, <2>3 DEF GetRecent, Recent, OnItsWay
  <2>4. ASSUME NEW d \in Convs, ListOne(g, d) PROVE OnItsWay(c)'
    <3>1. c \in stored \ (synced \cup Skipped) /\ (cur = 1 \/ needs)
      BY <2>4 DEF ListOne
    <3>2. CASE d = c
      BY <2>1, <2>4, <3>1, <3>2 DEF ListOne, OnItsWay
    <3>3. CASE d # c
      <4>1. c \in todo[listing[cur]] => c \in todo'[listing[cur]]
        BY <2>4, <3>3 DEF ListOne
      <4>2. \A r \in Runs : c \in events[r] => c \in events'[r]
        BY <2>4, <3>3, SMTT(30) DEF ListOne
      <4>3. UNCHANGED <<cur, main, picked, pending, armed, wakeup, portal, listing>>
        BY <2>4 DEF ListOne
      <4> QED BY <1>1, <3>1, <4>1, <4>2, <4>3 DEF OnItsWay
    <3> QED BY <3>2, <3>3
  <2>5. CASE ListDone(g)
    BY <1>1, <2>1, <2>5 DEF ListDone, OnItsWay
  <2>6. CASE ListAborts(g)
    BY <2>1, <2>6 DEF ListAborts
  <2> QED BY <1>6, <2>2, <2>3, <2>4, <2>5, <2>6 DEF PortalStep
<1>7. ASSUME NEW r \in Runs, AllHandled(r) PROVE OnItsWay(c)'
  BY <1>1, <1>7 DEF AllHandled, OnItsWay
<1>8. ASSUME NEW r \in Runs, NEW d \in Convs, Handled(r, d) PROVE OnItsWay(c)'
  BY <1>1, <1>8 DEF Handled, OnItsWay
<1>9. CASE UNCHANGED vars
  BY <1>1, <1>9 DEF vars, OnItsWay
<1> QED
  BY <1>2, <1>3, <1>4, <1>5, <1>6, <1>7, <1>8, <1>9 DEF Next, Reconnect

\* However the steps of the main loop, the timer and the portal creating loop interleave,
\* a stored conversation without a portal has the timer armed for it or is in the run in
\* progress: for any conversations, crashes and numbers of runs.
THEOREM NoConversationForgotten == Spec => []NotForgotten
<1>1. HsInv /\ NotForgotten /\ [Next]_vars => (HsInv /\ NotForgotten)'
  BY HsTypes, HsKeeps, HandOver DEF HsInv
<1> QED BY HsStarts, <1>1, PTL DEF Spec
=============================================================================
