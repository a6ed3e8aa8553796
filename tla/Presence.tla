------------------------------ MODULE Presence ------------------------------
(***************************************************************************)
(* pkg/presence/presence.go: the Manager that every login of the connector *)
(* shares.  Logins report what WhatsApp says of a user (Update) and what   *)
(* they saw the user do (Activity, which looks under the lock and updates  *)
(* under it again later); one worker expires, collects what is due and     *)
(* sends it request by request, releasing the lock in between.             *)
(*                                                                         *)
(* Time is kept relative: how long ago something was (capped where the     *)
(* code no longer tells the difference) and how long an online has left.   *)
(***************************************************************************)
EXTENDS Naturals, FiniteSets

CONSTANTS Users,           \* remote users with a ghost
          Logins,          \* goroutines that report to the Manager
          None,
          MaxTracked,      \* Config.MaxTracked
          Debounce,        \* Config.Debounce
          Refresh,         \* Config.Refresh
          Forget,          \* the hour after which a settled entry is dropped
          TTL,             \* waOnlineTTL
          ActivityOnline,
          Rate, Burst,     \* Config.RatePerSecond, Config.Burst
          MaxReports       \* bound: how many reports the logins make

ASSUME PresenceAssumption ==
    /\ {MaxTracked, Debounce, Refresh, TTL, ActivityOnline, Rate, Burst} \subseteq Nat \ {0}
    /\ {Forget, MaxReports} \subseteq Nat
    /\ None \notin Users

VARIABLES
    tracked,    \* the keys of Manager.entries
    desired, left, sent, since, idle,   \* entry: desired, until, sent, sentAt, touched
    tokens,     \* TokenBucket.tokens
    worker,     \* Tick: "idle", "sending" the due list, "waiting" for a request
    due, duePres, dueAge,               \* Tick's list of pending requests
    cur,        \* the user whose request is under way
    act, actLeft,                       \* Activity between its look and its Update
    hs,         \* what the homeserver was last told
    (* history *)
    seenOnline, \* an online report has not been followed by an offline sent
    overtaken,  \* logins whose look another login's longer online has made stale
    evictedDue, \* users evicted while a request for them was under way, until an
                \* answer finds an entry of theirs again
    reports     \* reports made so far

entryVars  == <<tracked, desired, left, sent, since, idle>>
workerVars == <<worker, due, duePres, dueAge, cur>>
actVars    == <<act, actLeft>>
histVars   == <<seenOnline, overtaken, evictedDue>>
vars == <<entryVars, tokens, workerVars, actVars, hs, histVars, reports>>

Old     == IF Debounce > Refresh THEN Debounce ELSE Refresh
Longest == IF TTL > ActivityOnline THEN TTL ELSE ActivityOnline
Status  == {"online", "offline"}

TypeOK ==
    /\ tracked \subseteq Users
    /\ desired \in [Users -> Status]
    /\ left \in [Users -> 0..Longest]
    /\ sent \in [Users -> Status \cup {"none"}]
    /\ since \in [Users -> 0..Old]
    /\ idle \in [Users -> 0..(Forget + 1)]
    /\ tokens \in 0..Burst
    /\ worker \in {"idle", "sending", "waiting"}
    /\ due \subseteq Users
    /\ duePres \in [Users -> Status]
    /\ dueAge \in [Users -> 0..Old]
    /\ cur \in Users \cup {None}
    /\ act \in [Logins -> Users \cup {None}]
    /\ actLeft \in [Logins -> 0..ActivityOnline]
    /\ hs \in [Users -> Status \cup {"none"}]
    /\ seenOnline \in [Users -> BOOLEAN]
    /\ overtaken \subseteq Logins
    /\ evictedDue \subseteq Users
    /\ reports \in 0..MaxReports

Init ==
    /\ tracked = {}
    /\ desired = [u \in Users |-> "offline"]
    /\ left = [u \in Users |-> 0]
    /\ sent = [u \in Users |-> "none"]
    /\ since = [u \in Users |-> Old]
    /\ idle = [u \in Users |-> 0]
    /\ tokens = Burst
    /\ worker = "idle"
    /\ due = {}
    /\ duePres = [u \in Users |-> "offline"]
    /\ dueAge = [u \in Users |-> 0]
    /\ cur = None
    /\ act = [l \in Logins |-> None]
    /\ actLeft = [l \in Logins |-> 0]
    /\ hs = [u \in Users |-> "none"]
    /\ seenOnline = [u \in Users |-> FALSE]
    /\ overtaken = {}
    /\ evictedDue = {}
    /\ reports = 0

-----------------------------------------------------------------------------
(* Update.                                                                  *)

\* An entry that evictOne may drop: settled and not online.
Evictable(u) == u \in tracked /\ desired[u] # "online" /\ sent[u] = desired[u]

\* evictOne: the one of them that was touched longest ago.
Victim(u) == Evictable(u) /\ \A v \in Users : Evictable(v) => idle[v] <= idle[u]

\* Mutant of NewEntry: a first "offline" is a transition like any other.
NewEntryUnsent(u, p, l, base) ==
    /\ tracked' = base \cup {u}
    /\ desired' = [desired EXCEPT ![u] = p]
    /\ left' = [left EXCEPT ![u] = l]
    /\ sent' = [sent EXCEPT ![u] = "none"]
    /\ since' = [since EXCEPT ![u] = Old]
    /\ idle' = [idle EXCEPT ![u] = 0]

\* A new entry, put into the map that base is: a first "offline" counts as sent.
NewEntry(u, p, l, base) ==
    /\ tracked' = base \cup {u}
    /\ desired' = [desired EXCEPT ![u] = p]
    /\ left' = [left EXCEPT ![u] = l]
    /\ sent' = [sent EXCEPT ![u] = IF p = "online" THEN "none" ELSE p]
    /\ since' = [since EXCEPT ![u] = IF p = "online" THEN Old ELSE 0]
    /\ idle' = [idle EXCEPT ![u] = 0]

Update(u, p, l) ==
    /\ seenOnline' = [seenOnline EXCEPT ![u] = @ \/ p = "online"]
    /\ \/ /\ u \in tracked
          /\ desired' = [desired EXCEPT ![u] = p]
          /\ left' = [left EXCEPT ![u] = l]
          /\ idle' = [idle EXCEPT ![u] = 0]
          /\ UNCHANGED <<tracked, sent, since, evictedDue>>
       \/ /\ u \notin tracked /\ Cardinality(tracked) < MaxTracked
          /\ NewEntry(u, p, l, tracked)
          /\ UNCHANGED evictedDue
       \/ /\ u \notin tracked /\ Cardinality(tracked) >= MaxTracked
          /\ \E v \in Users : /\ Victim(v) /\ NewEntry(u, p, l, tracked \ {v})
                              /\ evictedDue' = evictedDue \cup ({v} \cap due)
       \/ /\ u \notin tracked /\ Cardinality(tracked) >= MaxTracked
          /\ \A v \in Users : ~Evictable(v)
          /\ UNCHANGED <<entryVars, evictedDue>>

\* The looks at u that an online of u for l makes stale.
Overtakes(u, p, l) == {k \in Logins : p = "online" /\ act[k] = u /\ actLeft[k] < l}

\* handleWAPresence with mapWAPresence: online for TTL, or offline.
Report(l) ==
    /\ act[l] = None
    /\ reports < MaxReports
    /\ reports' = reports + 1
    /\ \E u \in Users, p \in Status :
        LET rest == IF p = "online" THEN TTL ELSE 0 IN
        /\ Update(u, p, rest)
        /\ overtaken' = overtaken \cup Overtakes(u, p, rest)
    /\ UNCHANGED <<tokens, workerVars, actVars, hs>>

-----------------------------------------------------------------------------
(* Activity.                                                                *)

\* Mutant of Longer: every activity overwrites.
LongerNever(u, until) == FALSE

Longer(u, until) == u \in tracked /\ desired[u] = "online" /\ left[u] > until

\* The look: the activity happened up to ActivityOnline ago.
ActivityLook(l) ==
    /\ act[l] = None
    /\ reports < MaxReports
    /\ reports' = reports + 1
    /\ \E u \in Users, until \in 1..ActivityOnline :
        /\ ~Longer(u, until)
        /\ act' = [act EXCEPT ![l] = u]
        /\ actLeft' = [actLeft EXCEPT ![l] = until]
    /\ UNCHANGED <<entryVars, tokens, workerVars, hs, histVars>>

ActivityUpdate(l) ==
    /\ act[l] # None
    /\ Update(act[l], "online", actLeft[l])
    /\ overtaken' = (overtaken \ {l}) \cup (Overtakes(act[l], "online", actLeft[l]) \ {l})
    /\ act' = [act EXCEPT ![l] = None]
    /\ actLeft' = [actLeft EXCEPT ![l] = 0]
    /\ UNCHANGED <<tokens, workerVars, hs, reports>>

-----------------------------------------------------------------------------
(* Tick.                                                                    *)

\* Mutant of Want: nothing expires.
WantForever(u) == desired[u]

\* An online whose time is up is wanted offline.
Want(u) == IF left[u] = 0 THEN "offline" ELSE desired[u]

Due(u) ==
    \/ Want(u) # sent[u] /\ since[u] >= Debounce
    \/ Want(u) = "online" /\ sent[u] = "online" /\ since[u] >= Refresh

\* Mutant of Stale: does not ask whether the last change was sent.
StaleUnsent(u) == ~Due(u) /\ Want(u) # "online" /\ idle[u] > Forget

Stale(u) == ~Due(u) /\ Want(u) # "online" /\ sent[u] = Want(u) /\ idle[u] > Forget

TickCollect ==
    /\ worker = "idle"
    /\ desired' = [u \in Users |-> IF u \in tracked THEN Want(u) ELSE desired[u]]
    /\ tracked' = {u \in tracked : ~Stale(u)}
    /\ due' = {u \in tracked : Due(u)}
    /\ duePres' = [u \in Users |-> IF u \in due' THEN Want(u) ELSE "offline"]
    /\ dueAge' = [u \in Users |-> IF u \in due' THEN since[u] ELSE 0]
    /\ worker' = IF due' = {} THEN "idle" ELSE "sending"
    /\ UNCHANGED <<left, sent, since, idle, tokens, cur, actVars, hs, histVars, reports>>

\* Online first, then whatever waited longest.
First(u) ==
    /\ u \in due
    /\ \A v \in due : IF duePres[u] = duePres[v] THEN dueAge[v] <= dueAge[u]
                                                 ELSE duePres[u] = "online"

\* The limiter allows the next request, or the rest of the list is deferred.
TickSend ==
    /\ worker = "sending"
    /\ IF tokens = 0
       THEN /\ worker' = "idle"
            /\ due' = {}
            /\ UNCHANGED <<tokens, cur>>
       ELSE /\ worker' = "waiting"
            /\ tokens' = tokens - 1
            /\ \E u \in Users : First(u) /\ cur' = u
            /\ UNCHANGED due
    /\ UNCHANGED <<entryVars, duePres, dueAge, actVars, hs, histVars, reports>>

\* The request is answered; an error still restarts the debounce.
TickDone(ok) ==
    /\ worker = "waiting"
    /\ hs' = [hs EXCEPT ![cur] = IF ok THEN duePres[cur] ELSE @]
    /\ seenOnline' = [seenOnline EXCEPT ![cur] =
                        IF ok /\ duePres[cur] = "offline"
                        THEN cur \in tracked /\ desired[cur] = "online" ELSE @]
    /\ evictedDue' = IF ok /\ cur \in tracked THEN evictedDue \ {cur} ELSE evictedDue
    /\ sent' = [sent EXCEPT ![cur] = IF ok /\ cur \in tracked THEN duePres[cur] ELSE @]
    /\ since' = [since EXCEPT ![cur] = IF cur \in tracked THEN 0 ELSE @]
    /\ due' = due \ {cur}
    /\ worker' = IF due' = {} THEN "idle" ELSE "sending"
    /\ cur' = None
    /\ UNCHANGED <<tracked, desired, left, idle, tokens, duePres, dueAge, actVars, overtaken, reports>>

-----------------------------------------------------------------------------
Older(f, cap) == [x \in DOMAIN f |-> IF f[x] < cap THEN f[x] + 1 ELSE cap]
Less(f) == [x \in DOMAIN f |-> IF f[x] > 0 THEN f[x] - 1 ELSE 0]

\* A unit of time passes; the bucket refills.
Advance ==
    /\ left' = Less(left)
    /\ actLeft' = Less(actLeft)
    /\ since' = Older(since, Old)
    /\ idle' = Older(idle, Forget + 1)
    /\ tokens' = IF tokens + Rate > Burst THEN Burst ELSE tokens + Rate
    /\ UNCHANGED <<tracked, desired, sent, workerVars, act, hs, histVars, reports>>

Next ==
    \/ \E l \in Logins : Report(l) \/ ActivityLook(l) \/ ActivityUpdate(l)
    \/ TickCollect \/ TickSend \/ TickDone(TRUE) \/ TickDone(FALSE)
    \/ Advance

Spec == Init /\ [][Next]_vars

-----------------------------------------------------------------------------
(* Properties.                                                              *)

\* "offline is only sent when a user was seen going offline, never on first
\* sight or again": a request for offline succeeds only for a user who was
\* reported online since the last one, across expiry, deferral, failed
\* requests, dropped entries and updates that overtake a request.
OfflineMeansLeft ==
    [][\A u \in Users : worker = "waiting" /\ cur = u /\ duePres[u] = "offline"
            /\ hs'[u] = "offline" => seenOnline[u]]_vars

\* An entry is only forgotten when nothing is owed for it: a user outside the map
\* was not left online at the homeserver, over expiry, failures, eviction and
\* entries made again, unless the entry made room for another while the
\* request for it was under way (evictOne does not know of requests).
ForgottenNotOnline ==
    \A u \in Users \ tracked : hs[u] = "online" => u \in evictedDue

\* "Don't cut short a longer online the network itself reported": an activity only
\* does so if another login reported that online between its look and its
\* update, which Activity makes under two locks.
NeverCutShort ==
    [][\A l \in Logins, u \in Users :
         act[l] = u /\ act'[l] = None /\ u \in tracked /\ desired[u] = "online"
                    /\ left'[u] < left[u] => l \in overtaken]_vars

\* "a missed event must not leave the ghost online forever": when WhatsApp
\* falls silent, every ghost is eventually and for good not online.
SilenceEndsOnline == <>[](\A u \in Users : hs[u] # "online")
=============================================================================
