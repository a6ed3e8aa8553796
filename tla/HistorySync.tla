---------------------------- MODULE HistorySync ----------------------------
(***************************************************************************)
(* The history sync loops of one WhatsApp login (pkg/connector/backfill.go *)
(* with wadb/hsnotif.go and wadb/conversation.go).                         *)
(*                                                                         *)
(* The phone announces blobs of old conversations.  Each announcement is   *)
(* stored in a database queue; the main loop downloads the blobs one by    *)
(* one and stores their conversations; once no blob has come for a while   *)
(* a timer lets the second, portal creating loop queue a resync event for  *)
(* every stored conversation.  Both loops belong to one connection, called *)
(* a generation here: a reconnect cancels the loops of the generation      *)
(* before without waiting for them, a crash drops everything but the       *)
(* database.  The wakeup channel belongs to the login and outlives the     *)
(* generations of one process.                                             *)
(***************************************************************************)
EXTENDS Integers, FiniteSets

CONSTANTS Notifs,    \* announcements the phone may send
          NoNotif,   \* no announcement
          Convs,     \* conversations
          Holds,     \* Holds[n]: the conversations of n's blob
          Kind,      \* Kind[n]: "recent" (BOOTSTRAP, RECENT, FULL), "ignored"
                     \* (PUSH_NAME, ...) or "ondemand"
          Left,      \* groups the user is not in any more
          Skipped,   \* status broadcasts and PSAs, never given a portal
          Bad,       \* announcements whose download never succeeds
          Limit,     \* max_initial_conversations, -1 for no limit
          MaxGens,   \* bound: generations
          MaxRuns,   \* bound: portal creating runs in flight
          MayCrash,  \* a generation may end by a crash
          MayReconnect, \* a generation may end by a reconnect
          MayFail    \* requests and transactions may fail

ASSUME KindType == /\ Kind \in [Notifs -> {"recent", "ignored", "ondemand"}]
                   /\ Holds \in [Notifs -> SUBSET Convs]
ASSUME NoNotifOutside == NoNotif \notin Notifs
ASSUME SetTypes == Left \subseteq Convs /\ Skipped \subseteq Convs /\ Bad \subseteq Notifs
ASSUME BoundTypes == /\ MaxGens \in Nat \ {0} /\ MaxRuns \in Nat \ {0}
                     /\ Limit \in Int
ASSUME FlagTypes == {MayCrash, MayReconnect, MayFail} \subseteq BOOLEAN

VARIABLES
  (* the database *)
  queue,     \* whatsapp_history_sync_notification
  stored,    \* rows of whatsapp_history_sync_conversation
  synced,    \* those with synced_login_ts = LoggedInAt
  saved,     \* HistorySyncPortalsNeedCreating as last saved
  (* the WhatsApp server *)
  sent,      \* announcements sent so far
  blobs,     \* blobs kept by the media server
  (* the process *)
  cur,       \* the current generation
  isNew,     \* WhatsAppClient.isNewLogin
  needs,     \* UserLoginMetadata.HistorySyncPortalsNeedCreating
  wakeup,    \* the token in historySyncWakeup
  notify,    \* a stored announcement whose wakeup is still to be sent
  main,      \* main[g]: where the main loop of g is
  picked,    \* picked[g]: the announcement it is working on
  armed,     \* armed[g]: dispatchTimer runs, or has expired unread
  pending,   \* pending[g]: timerPending
  portal,    \* portal[g]: where the portal creating loop of g is
  listing,   \* listing[g]: the run it is in
  run,       \* run[r]: how far run r has come
  todo,      \* todo[r]: conversations r has still to look at
  events,    \* events[r]: resync events of r not handled yet
  (* history *)
  known,     \* conversations ever stored
  stalled    \* a wakeup was used up by a look at the queue that failed

dbVars == <<queue, stored, synced, saved>>
procVars == <<cur, isNew, needs>>
serverVars == <<sent, blobs>>
mainVars == <<wakeup, notify, main, picked>>
timerVars == <<armed, pending>>
portalVars == <<portal, listing, run, todo, events>>
vars == <<dbVars, serverVars, procVars, mainVars, timerVars, portalVars, known, stalled>>

Gens == 1..MaxGens
Runs == 1..MaxRuns

MainStates == {"off", "wait", "download", "delete", "pause", "store", "load", "reset"}
PortalStates == {"off", "wait", "fired", "read", "list"}

\* The context of g's loops: a newer generation cancelled it.
Cancelled(g) == g < cur

----------------------------------------------------------------------------
(* Starting and ending generations. *)

\* startLoops and the head of historySyncLoop: the timer runs from the start only
\* when an earlier process left portals to create, and the queue is looked at once.
Arms(new, need) == ~new /\ need

Init ==
  /\ queue = {} /\ stored = {} /\ synced = {} /\ saved = TRUE
  /\ sent = {} /\ blobs = {}
  /\ cur = 1 /\ isNew = TRUE /\ needs = TRUE
  /\ wakeup = TRUE /\ notify = {}
  /\ main = [g \in Gens |-> IF g = 1 THEN "wait" ELSE "off"]
  /\ picked = [g \in Gens |-> NoNotif]
  /\ armed = [g \in Gens |-> FALSE]
  /\ pending = [g \in Gens |-> FALSE]
  /\ portal = [g \in Gens |-> IF g = 1 THEN "wait" ELSE "off"]
  /\ listing = [g \in Gens |-> 0]
  /\ run = [r \in Runs |-> "free"]
  /\ todo = [r \in Runs |-> {}]
  /\ events = [r \in Runs |-> {}]
  /\ known = {} /\ stalled = FALSE

\* Disconnect and connect in one process: the old loops are cancelled, not awaited.
Reconnect ==
  /\ MayReconnect
  /\ cur < MaxGens
  /\ cur' = cur + 1
  /\ main' = [main EXCEPT ![cur + 1] = "wait"]
  /\ portal' = [portal EXCEPT ![cur + 1] = "wait"]
  /\ armed' = [armed EXCEPT ![cur + 1] = Arms(isNew, needs)]
  /\ pending' = [pending EXCEPT ![cur + 1] = Arms(isNew, needs)]
  /\ wakeup' = TRUE /\ stalled' = FALSE
  /\ UNCHANGED <<dbVars, serverVars, isNew, needs, notify, picked, listing, run, todo, events, known>>

\* The process dies and is started again: only the database is left.
Crash ==
  /\ MayCrash
  /\ cur < MaxGens
  /\ cur' = cur + 1
  /\ isNew' = FALSE
  /\ needs' = saved
  /\ main' = [g \in Gens |-> IF g = cur + 1 THEN "wait" ELSE "off"]
  /\ portal' = [g \in Gens |-> IF g = cur + 1 THEN "wait" ELSE "off"]
  /\ picked' = [g \in Gens |-> NoNotif]
  /\ armed' = [g \in Gens |-> g = cur + 1 /\ Arms(FALSE, saved)]
  /\ pending' = [g \in Gens |-> g = cur + 1 /\ Arms(FALSE, saved)]
  /\ wakeup' = TRUE /\ stalled' = FALSE
  /\ notify' = {}
  /\ listing' = [g \in Gens |-> 0]
  /\ run' = [r \in Runs |-> "free"]
  /\ todo' = [r \in Runs |-> {}]
  /\ events' = [r \in Runs |-> {}]
  /\ UNCHANGED <<dbVars, serverVars, known>>

----------------------------------------------------------------------------
(* The event handler: saveWAHistorySyncNotification. *)

Put(n) ==
  /\ n \notin sent
  /\ sent' = sent \cup {n}
  /\ blobs' = blobs \cup {n}
  /\ queue' = queue \cup {n}
  /\ notify' = notify \cup {n}
  /\ UNCHANGED <<stored, synced, saved, procVars, wakeup, main, picked, timerVars, portalVars, known, stalled>>

Notify(n) ==
  /\ n \in notify
  /\ notify' = notify \ {n}
  /\ wakeup' = TRUE /\ stalled' = FALSE
  /\ UNCHANGED <<dbVars, serverVars, procVars, main, picked, timerVars, portalVars, known>>

----------------------------------------------------------------------------
(* The main loop of generation g. *)

Go(g, to) == main' = [main EXCEPT ![g] = to]

\* The wakeup case: the timer is stopped and any row of the queue is next (the query
\* names no order).  A cancelled context fails the query, and then nothing wakes the
\* loop again.
Wake(g) ==
  /\ main[g] = "wait"
  /\ wakeup
  /\ wakeup' = FALSE
  /\ armed' = [armed EXCEPT ![g] = FALSE]
  /\ \/ /\ queue = {} \/ Cancelled(g) \/ MayFail
        /\ Go(g, "load")
        /\ stalled' = (stalled \/ queue # {})
        /\ UNCHANGED picked
     \/ /\ ~Cancelled(g)
        /\ \E n \in queue : picked' = [picked EXCEPT ![g] = n]
        /\ Go(g, "download")
        /\ UNCHANGED stalled
  /\ UNCHANGED <<dbVars, serverVars, procVars, notify, pending, portalVars, known>>

\* The ctx.Done case of the select.
StopMain(g) ==
  /\ main[g] \in {"wait", "pause"}
  /\ Cancelled(g)
  /\ Go(g, "off")
  /\ UNCHANGED <<dbVars, serverVars, procVars, wakeup, notify, picked, timerVars, portalVars, known, stalled>>

\* Mutation of SaveFails: a failed announcement is dropped from the queue.
SaveFailsDropping(g) ==
  /\ main[g] = "download"
  /\ MayFail \/ Cancelled(g) \/ picked[g] \in Bad
  /\ wakeup' = TRUE /\ stalled' = FALSE
  /\ queue' = queue \ {picked[g]}
  /\ picked' = [picked EXCEPT ![g] = NoNotif]
  /\ Go(g, "load")
  /\ UNCHANGED <<stored, synced, saved, serverVars, procVars, notify, timerVars, portalVars, known>>

\* The download or the transaction fails.  Only a panic is treated as an error that
\* makes the loop pause.
SaveFails(g) ==
  /\ main[g] = "download"
  /\ MayFail \/ Cancelled(g) \/ picked[g] \in Bad
  /\ wakeup' = TRUE /\ stalled' = FALSE
  /\ picked' = [picked EXCEPT ![g] = NoNotif]
  /\ \/ Go(g, "load")
     \/ MayFail /\ Go(g, "pause")
  /\ UNCHANGED <<dbVars, serverVars, procVars, notify, timerVars, portalVars, known>>

\* The blob is downloaded and the transaction of handleWAHistorySync commits: the
\* conversations appear and the announcement goes, together.  An on-demand blob is
\* handed to the portal before its announcement is deleted.
SaveData(g) ==
  LET n == picked[g]
      new == IF Kind[n] = "recent" THEN Holds[n] ELSE {}
  IN /\ main[g] = "download"
     /\ ~Cancelled(g)
     /\ n \notin Bad
     /\ n \in blobs
     /\ stored' = stored \cup new
     /\ synced' = synced
     /\ known' = known \cup new
     /\ queue' = queue \ {n}
     /\ Go(g, "delete")
     /\ UNCHANGED <<saved, serverVars, procVars, wakeup, notify, picked, timerVars,
                    portalVars, stalled>>

\* Mutant of DeleteBlob: the loop does not wake itself again.
DeleteBlobQuietly(g) ==
  /\ main[g] = "delete"
  /\ blobs' = blobs \ {picked[g]}
  /\ picked' = [picked EXCEPT ![g] = NoNotif]
  /\ Go(g, IF Kind[picked[g]] = "recent" THEN "store" ELSE "load")
  /\ UNCHANGED <<dbVars, sent, procVars, wakeup, notify, timerVars, portalVars, known, stalled>>

\* DeleteMedia, and the loop wakes itself for the rest of the queue.
DeleteBlob(g) ==
  LET n == picked[g]
  IN /\ main[g] = "delete"
     /\ \/ ~Cancelled(g) /\ blobs' = blobs \ {n}
        \/ (MayFail \/ Cancelled(g)) /\ UNCHANGED blobs
     /\ wakeup' = TRUE /\ stalled' = FALSE
     /\ picked' = [picked EXCEPT ![g] = NoNotif]
     /\ Go(g, IF Kind[n] = "recent" THEN "store" ELSE "load")
     /\ UNCHANGED <<dbVars, sent, procVars, notify, timerVars, portalVars, known>>

\* One minute after a panic.
PauseOver(g) ==
  /\ main[g] = "pause"
  /\ Go(g, "load")
  /\ UNCHANGED <<dbVars, serverVars, procVars, wakeup, notify, picked, timerVars, portalVars, known, stalled>>

\* Mutation of StorePending: a stored payload does not ask for the timer.
StorePendingNot(g) ==
  /\ main[g] = "store"
  /\ Go(g, "load")
  /\ UNCHANGED <<dbVars, serverVars, procVars, wakeup, notify, picked, timerVars, portalVars, known, stalled>>

\* timerPending.Store(true)
StorePending(g) ==
  /\ main[g] = "store"
  /\ pending' = [pending EXCEPT ![g] = TRUE]
  /\ Go(g, "load")
  /\ UNCHANGED <<dbVars, serverVars, procVars, wakeup, notify, picked, armed, portalVars, known, stalled>>

\* Mutation of LoadPending: the timer stopped by a wakeup is not started again.
LoadPendingNot(g) ==
  /\ main[g] = "load"
  /\ Go(g, "wait")
  /\ UNCHANGED <<dbVars, serverVars, procVars, wakeup, notify, picked, timerVars, portalVars, known, stalled>>

\* timerPending.Load()
LoadPending(g) ==
  /\ main[g] = "load"
  /\ Go(g, IF pending[g] THEN "reset" ELSE "wait")
  /\ UNCHANGED <<dbVars, serverVars, procVars, wakeup, notify, picked, timerVars, portalVars, known, stalled>>

\* dispatchTimer.Reset(DispatchWait)
ResetTimer(g) ==
  /\ main[g] = "reset"
  /\ armed' = [armed EXCEPT ![g] = TRUE]
  /\ Go(g, "wait")
  /\ UNCHANGED <<dbVars, serverVars, procVars, wakeup, notify, picked, pending, portalVars, known, stalled>>

----------------------------------------------------------------------------
(* The portal creating loop of generation g: createPortalsFromHistorySync. *)

At(g, to) == portal' = [portal EXCEPT ![g] = to]

TimerFires(g) ==
  /\ portal[g] = "wait"
  /\ armed[g]
  /\ armed' = [armed EXCEPT ![g] = FALSE]
  /\ At(g, "fired")
  /\ UNCHANGED <<dbVars, serverVars, procVars, mainVars, pending, listing, run, todo, events, known, stalled>>

StopPortals(g) ==
  /\ portal[g] = "wait"
  /\ Cancelled(g)
  /\ At(g, "off")
  /\ UNCHANGED <<dbVars, serverVars, procVars, mainVars, timerVars, listing, run, todo, events, known, stalled>>

\* timerPending.Store(false)
ClearPending(g) ==
  /\ portal[g] = "fired"
  /\ pending' = [pending EXCEPT ![g] = FALSE]
  /\ At(g, "read")
  /\ UNCHANGED <<dbVars, serverVars, procVars, mainVars, armed, listing, run, todo, events, known, stalled>>

\* GetRecent: the LIMIT most recent conversations not synced in this login, here any
\* such set since the timestamps are not modelled.
Recent(S) ==
  /\ S \subseteq stored \ synced
  /\ IF Limit < 0 THEN S = stored \ synced
     ELSE Cardinality(S) = IF Cardinality(stored \ synced) < Limit
                           THEN Cardinality(stored \ synced) ELSE Limit

GetRecent(g) ==
  /\ portal[g] = "read"
  /\ \/ /\ MayFail \/ Cancelled(g)
        /\ At(g, "wait")
        /\ UNCHANGED <<listing, run, todo>>
     \/ /\ ~Cancelled(g)
        /\ \E r \in Runs, S \in SUBSET Convs :
             /\ run[r] = "free"
             /\ Recent(S)
             /\ run' = [run EXCEPT ![r] = "listing"]
             /\ todo' = [todo EXCEPT ![r] = S]
             /\ listing' = [listing EXCEPT ![g] = r]
        /\ At(g, "list")
  /\ UNCHANGED <<dbVars, serverVars, procVars, mainVars, timerVars, events, known, stalled>>

\* One turn of the loop over the conversations: skipped kinds, a group the user has
\* left, a failed getChatInfo, or an event for the portal.  A rate limit error repeats
\* the turn and is a stuttering step.
ListOne(g, c) ==
  LET r == listing[g]
  IN /\ portal[g] = "list"
     /\ ~Cancelled(g)
     /\ c \in todo[r]
     /\ todo' = [todo EXCEPT ![r] = @ \ {c}]
     /\ \/ /\ c \in Skipped
           /\ UNCHANGED <<stored, synced, events>>
        \/ /\ c \in Left \ Skipped
           /\ stored' = stored \ {c}
           /\ synced' = synced \ {c}
           /\ UNCHANGED events
        \/ /\ MayFail /\ c \notin Skipped
           /\ UNCHANGED <<stored, synced, events>>
        \/ /\ c \notin Left \cup Skipped
           /\ events' = [events EXCEPT ![r] = @ \cup {c}]
           /\ UNCHANGED <<stored, synced>>
     /\ UNCHANGED <<queue, saved, serverVars, procVars, mainVars, timerVars, portal, listing, run, known, stalled>>

\* The loop is over; a goroutine waits for the events and the next timer is awaited.
ListDone(g) ==
  LET r == listing[g]
  IN /\ portal[g] = "list"
     /\ todo[r] = {}
     /\ run' = [run EXCEPT ![r] = "waiting"]
     /\ listing' = [listing EXCEPT ![g] = 0]
     /\ At(g, "wait")
     /\ UNCHANGED <<dbVars, serverVars, procVars, mainVars, timerVars, todo, events, known, stalled>>

\* A cancelled context, or a queue that refuses the event: the function returns, nobody
\* waits for the events queued so far.
ListAborts(g) ==
  LET r == listing[g]
  IN /\ portal[g] = "list"
     /\ todo[r] # {}
     /\ Cancelled(g) \/ MayFail
     /\ run' = [run EXCEPT ![r] = IF events[r] = {} THEN "free" ELSE "dropped"]
     /\ todo' = [todo EXCEPT ![r] = {}]
     /\ listing' = [listing EXCEPT ![g] = 0]
     /\ At(g, "wait")
     /\ UNCHANGED <<dbVars, serverVars, procVars, mainVars, timerVars, events, known, stalled>>

\* The portal has handled a resync event: PostHandleFunc marks the conversation.
Handled(r, c) ==
  /\ c \in events[r]
  /\ events' = [events EXCEPT ![r] = @ \ {c}]
  /\ \/ synced' = IF c \in stored THEN synced \cup {c} ELSE synced
     \/ MayFail /\ UNCHANGED synced
  /\ run' = IF run[r] = "dropped" /\ events[r] = {c} THEN [run EXCEPT ![r] = "free"] ELSE run
  /\ UNCHANGED <<queue, stored, saved, serverVars, procVars, mainVars, timerVars, portal, listing, todo, known, stalled>>

\* wg.Wait returns: the flag is cleared and saved, which the cancelled context of an
\* earlier generation makes fail.
AllHandled(r) ==
  /\ run[r] = "waiting"
  /\ events[r] = {}
  /\ run' = [run EXCEPT ![r] = "free"]
  /\ needs' = FALSE
  /\ \/ saved' = FALSE
     \/ (MayFail \/ MayReconnect) /\ UNCHANGED saved
  /\ UNCHANGED <<queue, stored, synced, serverVars, cur, isNew, mainVars, timerVars, portal, listing, todo, events, known, stalled>>

----------------------------------------------------------------------------
MainStep(g) == \/ Wake(g) \/ StopMain(g) \/ SaveFails(g) \/ SaveData(g) \/ DeleteBlob(g)
               \/ PauseOver(g) \/ StorePending(g) \/ LoadPending(g) \/ ResetTimer(g)
PortalStep(g) == \/ StopPortals(g) \/ ClearPending(g) \/ GetRecent(g)
                 \/ (\E c \in Convs : ListOne(g, c)) \/ ListDone(g) \/ ListAborts(g)

Next == \/ Reconnect \/ Crash
        \/ \E n \in Notifs : Put(n) \/ Notify(n)
        \/ \E g \in Gens : MainStep(g) \/ TimerFires(g) \/ PortalStep(g)
        \/ \E r \in Runs : AllHandled(r) \/ \E c \in Convs : Handled(r, c)

Spec == Init /\ [][Next]_vars

\* Every goroutine that can run does; an armed timer that is not stopped again fires;
\* a queued portal event is handled.
Fairness ==
  /\ \A n \in Notifs : WF_vars(Notify(n))
  /\ \A g \in Gens : WF_vars(MainStep(g)) /\ WF_vars(TimerFires(g)) /\ WF_vars(PortalStep(g))
  /\ \A r \in Runs : WF_vars(AllHandled(r)) /\ \A c \in Convs : WF_vars(Handled(r, c))

FairSpec == Spec /\ Fairness
----------------------------------------------------------------------------
(* Properties. *)

TypeOK ==
  /\ queue \subseteq Notifs /\ stored \subseteq Convs /\ synced \subseteq Convs
  /\ saved \in BOOLEAN /\ needs \in BOOLEAN /\ isNew \in BOOLEAN
  /\ sent \subseteq Notifs /\ blobs \subseteq Notifs
  /\ cur \in Gens
  /\ wakeup \in BOOLEAN /\ notify \subseteq Notifs
  /\ main \in [Gens -> MainStates]
  /\ picked \in [Gens -> Notifs \cup {NoNotif}]
  /\ \A g \in Gens : main[g] \in {"download", "delete"} <=> picked[g] # NoNotif
  /\ armed \in [Gens -> BOOLEAN] /\ pending \in [Gens -> BOOLEAN]
  /\ portal \in [Gens -> PortalStates]
  /\ listing \in [Gens -> 0..MaxRuns]
  /\ \A g \in Gens : portal[g] = "list" <=> listing[g] # 0
  /\ run \in [Runs -> {"free", "listing", "waiting", "dropped"}]
  /\ todo \in [Runs -> SUBSET Convs]
  /\ events \in [Runs -> SUBSET Convs]
  /\ known \subseteq Convs

\* No announcement is lost, whatever fails and whenever the process dies or reconnects:
\* it is still queued with its blob on the server, or its conversations were stored.
Recoverable ==
  \A n \in sent : \/ n \in queue /\ n \in blobs
                  \/ n \notin queue /\ (Kind[n] = "recent" => Holds[n] \subseteq known)

\* Somebody is on the way to give c a portal.
OnItsWay(c) ==
  \/ main[cur] = "delete" /\ Kind[picked[cur]] = "recent"
  \/ main[cur] = "store"
  \/ pending[cur] /\ (armed[cur] \/ wakeup \/ main[cur] # "wait")
  \/ portal[cur] \in {"fired", "read"}
  \/ portal[cur] = "list" /\ c \in todo[listing[cur]]
  \/ \E r \in Runs : c \in events[r]

\* A stored conversation without a portal is never forgotten between the two loops: the
\* timer is armed or about to be, or a run in progress has the conversation.  It is said
\* of a generation that began with a new login or with portals left to create, and of
\* the default max_initial_conversations.
NotForgotten ==
  (~MayFail /\ ~MayReconnect /\ Limit < 0 /\ (cur = 1 \/ needs))
    => \A c \in stored \ (synced \cup Skipped) : OnItsWay(c)

\* Every conversation received is given its portal.
AllBridged == \A c \in Convs \ (Left \cup Skipped) : c \in known ~> c \in synced

\* The loop of the current connection is there, and a queue that is not empty has it
\* woken, or will: a wakeup is in the channel or about to be, or a loop is at a row and
\* wakes itself after it.  The channel is shared by the loops of all connections, and
\* only a look at the queue that failed, as every look of a cancelled loop does, leaves
\* it asleep (until the next announcement or connection).
QueueAwake ==
  /\ main[cur] # "off"
  /\ queue # {} => \/ wakeup \/ notify # {} \/ stalled
                   \/ \E g \in Gens : main[g] \in {"download", "delete"}

=============================================================================
