------------------------------- MODULE Resync -------------------------------
(***************************************************************************)
(* connector/userinfo.go: the queue of ghosts and portals to resync.  It   *)
(* is a map by JID that the event loops and viewers fill under a lock and  *)
(* that the resync loop takes away whole every four hours.  A direct chat  *)
(* and the ghost of its user have the same JID.                            *)
(***************************************************************************)
EXTENDS Naturals

CONSTANTS RsUsers,      \* people with a direct chat
          RsGroups,
          MaxRsFails    \* bound: batches that do not get everything

ASSUME RsAssumption == RsUsers \cap RsGroups = {} /\ MaxRsFails \in Nat

VARIABLES
    named,      \* ghosts whose name is set
    dueGhosts,  \* ghosts whose LastSync is a week old, or was reset
    duePortals, \* the same for portals; direct chats' LastSync is never set
    looked,     \* portals resynced in the last five minutes, or so
    rsQueue,    \* resyncQueue: what is queued for each JID
    batch,      \* what doGhostResync works on
    rsFails     \* batches that did not get everything

rsVars == <<named, dueGhosts, duePortals, looked, rsQueue, batch, rsFails>>

JIDs == RsUsers \cup RsGroups
Items == [JIDs -> {"none", "ghost", "portal"}]
Nothing == [j \in JIDs |-> "none"]

RsTypeOK ==
    /\ named \subseteq RsUsers /\ dueGhosts \subseteq RsUsers
    /\ duePortals \subseteq JIDs /\ looked \subseteq RsGroups
    /\ rsQueue \in Items /\ batch \in Items
    /\ rsFails \in 0..MaxRsFails

RsInit ==
    /\ named \in SUBSET RsUsers
    /\ dueGhosts = RsUsers /\ duePortals = JIDs
    /\ looked = {}
    /\ rsQueue = Nothing /\ batch = Nothing /\ rsFails = 0

\* EnqueueGhostResync and EnqueuePortalResync: the first one keeps the key.
Enqueued(queue, j, item) == IF queue[j] = "none" THEN [queue EXCEPT ![j] = item] ELSE queue

\* GetUserInfo, for every event of the ghost's user.
Touch(u) ==
    /\ IF u \in named
       THEN /\ u \in dueGhosts
            /\ rsQueue' = Enqueued(rsQueue, u, "ghost")
            /\ UNCHANGED <<named, dueGhosts>>
       ELSE /\ named' = named \cup {u}
            /\ dueGhosts' = dueGhosts \ {u}
            /\ UNCHANGED rsQueue
    /\ UNCHANGED <<duePortals, looked, batch, rsFails>>

\* WAMessageEvent.ConvertMessage: groups only.
GroupMessage(g) ==
    /\ g \in duePortals
    /\ rsQueue' = Enqueued(rsQueue, g, "portal")
    /\ UNCHANGED <<named, dueGhosts, duePortals, looked, batch, rsFails>>

\* HandleMatrixViewingChat: the last sync times are reset, and the chat and then
\* the ghost of the other user are enqueued.
View(j) ==
    /\ j \notin looked
    /\ duePortals' = duePortals \cup {j}
    /\ dueGhosts' = dueGhosts \cup ({j} \cap RsUsers)
    /\ LET withPortal == Enqueued(rsQueue, j, "portal")
       IN rsQueue' = IF j \in RsUsers THEN Enqueued(withPortal, j, "ghost") ELSE withPortal
    /\ UNCHANGED <<named, looked, batch, rsFails>>

\* syncGhost after a contact or picture event, and resyncContacts.
SyncGhost(u) ==
    /\ named' = named \cup {u}
    /\ dueGhosts' = dueGhosts \ {u}
    /\ UNCHANGED <<duePortals, looked, rsQueue, batch, rsFails>>

\* Mutant of Rotate: the queue is taken away and nobody works on it.
RotateDropping ==
    /\ batch = Nothing /\ rsQueue # Nothing
    /\ rsQueue' = Nothing
    /\ UNCHANGED <<named, dueGhosts, duePortals, looked, batch, rsFails>>

\* The timer, and rotateResyncQueue under the lock.
Rotate ==
    /\ batch = Nothing /\ rsQueue # Nothing
    /\ batch' = rsQueue /\ rsQueue' = Nothing
    /\ UNCHANGED <<named, dueGhosts, duePortals, looked, rsFails>>

\* The ghosts and portals of the batch that are still due.
Wanted(item, due) == {j \in due : batch[j] = item}

\* doGhostResync: portals get a ChatResync, which sets LastSync for groups, and
\* WhatsApp is asked for the ghosts' info; it may not know all of them.
Work(got) ==
    /\ batch # Nothing
    /\ got \subseteq Wanted("ghost", dueGhosts)
    /\ IF got = Wanted("ghost", dueGhosts)
       THEN UNCHANGED rsFails
       ELSE rsFails < MaxRsFails /\ rsFails' = rsFails + 1
    /\ dueGhosts' = dueGhosts \ got
    /\ duePortals' = duePortals \ (Wanted("portal", duePortals) \cap RsGroups)
    /\ looked' = looked \cup (Wanted("portal", duePortals) \cap RsGroups)
    /\ batch' = Nothing
    /\ UNCHANGED <<named, rsQueue>>

\* Not logged in: the batch is dropped.
Skipped ==
    /\ batch # Nothing
    /\ rsFails < MaxRsFails /\ rsFails' = rsFails + 1
    /\ batch' = Nothing
    /\ UNCHANGED <<named, dueGhosts, duePortals, looked, rsQueue>>

Worked == \E got \in SUBSET RsUsers : Work(got)

\* Five minutes, and a week.
Minutes(g) ==
    /\ g \in looked /\ looked' = looked \ {g}
    /\ UNCHANGED <<named, dueGhosts, duePortals, rsQueue, batch, rsFails>>

Week(j) ==
    /\ j \notin looked
    /\ duePortals' = duePortals \cup {j}
    /\ dueGhosts' = dueGhosts \cup ({j} \cap RsUsers)
    /\ UNCHANGED <<named, looked, rsQueue, batch, rsFails>>

RsNext ==
    \/ \E u \in RsUsers : Touch(u) \/ SyncGhost(u)
    \/ \E g \in RsGroups : GroupMessage(g) \/ Minutes(g)
    \/ \E j \in JIDs : View(j) \/ Week(j)
    \/ Rotate \/ Worked \/ Skipped

RsSpec == RsInit /\ [][RsNext]_rsVars

-----------------------------------------------------------------------------
\* "If this is a DM, also sync the ghost of the other user immediately": looking at
\* a direct chat queues the ghost of its user.
ViewQueuesGhost ==
    [][\A u \in RsUsers : View(u) => rsQueue'[u] = "ghost"]_rsVars
=============================================================================
