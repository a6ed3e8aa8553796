------------------------------- MODULE Upkeep -------------------------------
(***************************************************************************)
(* The loops that must get their work done in the end: the presence        *)
(* Manager and the SeenReporter of pkg/presence, the repair of app state   *)
(* and the resync of ghosts.  They share no variable, and every property   *)
(* is about one of them only, so one of them moves in each behaviour.      *)
(***************************************************************************)
EXTENDS Presence, Seen, AppState, Resync

VARIABLE focus      \* the loop that moves

upkeepVars == <<focus, vars, seenVars, asVars, rsVars>>

UpkeepInit ==
    /\ focus \in {"presence", "seen", "appstate", "resync"}
    /\ focus = "resync" \/ named = {}
    /\ Init /\ SeenInit /\ AsInit /\ RsInit

UpkeepNext ==
    \/ focus = "presence" /\ UNCHANGED <<focus, seenVars, asVars, rsVars>> /\ Next
    \/ focus = "seen" /\ UNCHANGED <<focus, vars, asVars, rsVars>> /\ SeenNext
    \/ focus = "appstate" /\ UNCHANGED <<focus, vars, seenVars, rsVars>> /\ AsNext
    \/ focus = "resync" /\ UNCHANGED <<focus, vars, seenVars, asVars>> /\ RsNext

\* Goroutines run, requests return, time passes, and a homeserver that is asked
\* again and again answers one of the requests; WhatsApp repeats the last-active
\* time of every user in its snapshots and goes on announcing mutations, the phone
\* answers, and people go on writing.
Fairness ==
    /\ WF_vars(focus = "presence" /\ Advance)
    /\ WF_vars(focus = "presence" /\ TickCollect)
    /\ WF_vars(focus = "presence" /\ TickSend)
    /\ WF_vars(focus = "presence" /\ (TickDone(TRUE) \/ TickDone(FALSE)))
    /\ \A u \in Users : SF_vars(focus = "presence" /\ cur = u /\ TickDone(TRUE))
    /\ \A l \in Logins : WF_vars(focus = "presence" /\ ActivityUpdate(l))
    /\ WF_seenVars(focus = "seen" /\ SeenRun)
    /\ \A c \in Noters : WF_seenVars(focus = "seen" /\ (EnqueueSeen(c) \/ ForgetSeen(c)))
    /\ \A u \in SeenUsers : SF_seenVars(focus = "seen" /\ \E c \in Noters : Note(c, u))
    /\ WF_rsVars(focus = "resync" /\ Rotate)
    /\ WF_rsVars(focus = "resync" /\ Worked)
    /\ \A u \in RsUsers : SF_rsVars(focus = "resync" /\ Touch(u))
    /\ \A p \in Patches :
        /\ WF_asVars(focus = "appstate" /\ PartialSync(p))
        /\ WF_asVars(focus = "appstate" /\ FullSync(p))
        /\ WF_asVars(focus = "appstate" /\ SendRecovery(p))
        /\ WF_asVars(focus = "appstate" /\ Recovered(p))
        /\ WF_asVars(focus = "appstate" /\ TwoDays(p))

UpkeepSpec == UpkeepInit /\ [][UpkeepNext]_upkeepVars /\ Fairness

-----------------------------------------------------------------------------
\* A ghost that is due and whose user goes on writing is resynced (doGhostResync),
\* although chats that are viewed take the same place in the queue, and over
\* batches that fail or are dropped.
GhostResynced ==
    \A u \in RsUsers : focus = "resync" /\ u \in dueGhosts ~> u \notin dueGhosts
=============================================================================
