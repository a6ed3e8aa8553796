-------------------------------- MODULE Seen --------------------------------
(***************************************************************************)
(* pkg/presence/seen.go: the SeenReporter passes last-active times on to   *)
(* the homeserver.  Every login calls Note, which remembers a time under   *)
(* the lock, queues it outside the lock and, if the queue is full, forgets *)
(* it under the lock again; one goroutine (Run) sends what was queued.     *)
(***************************************************************************)
EXTENDS Naturals, Sequences

CONSTANTS SeenUsers,
          Noters,    \* goroutines in Note
          MaxSeenTime,    \* bound: last-active times are 1..MaxSeenTime
          SeenQueueSize   \* capacity of the queue channel

ASSUME SeenAssumption == {MaxSeenTime, SeenQueueSize} \subseteq Nat \ {0}

VARIABLES
    lastActive,     \* the user's last-active time, as the network reports it
    seenLast,       \* SeenReporter.last, 0 where there is no key
    seenQueue,      \* SeenReporter.queue
    noting,     \* each caller: what it is noting (or nothing)
    noteStep,       \* and where it is in Note
    seenDisabled,   \* SeenReporter.disabled; Run has returned
    seenTold,       \* the last time the homeserver was told of each user
    (* history *)
    seenSent,       \* times for which a request was made
    seenPassed,     \* times noted but not queued yet when a later one was noted
    seenDropped     \* times forgotten by a caller that had noted another one

seenHist == <<seenSent, seenPassed, seenDropped>>
seenVars == <<lastActive, seenLast, seenQueue, noting, noteStep, seenDisabled, seenTold, seenHist>>

SeenInit ==
    /\ lastActive = [u \in SeenUsers |-> 0]
    /\ seenLast = [u \in SeenUsers |-> 0]
    /\ seenQueue = <<>>
    /\ noting = [c \in Noters |-> <<>>]
    /\ noteStep = [c \in Noters |-> "idle"]
    /\ seenDisabled = FALSE
    /\ seenTold = [u \in SeenUsers |-> 0]
    /\ seenSent = {} /\ seenPassed = {} /\ seenDropped = {}

\* The user is active again; the network's next snapshots carry the new time.
BecomesActive(u) ==
    /\ lastActive[u] < MaxSeenTime
    /\ lastActive' = [lastActive EXCEPT ![u] = @ + 1]
    /\ UNCHANGED <<seenLast, seenQueue, noting, noteStep, seenDisabled, seenTold, seenHist>>

\* Mutant of IsNews: the snapshot's repetitions count as news.
IsNewsAgain(u, at) == at # 0

\* isNews: only a later time than the one remembered.
IsNews(u, at) == at # 0 /\ at > seenLast[u]

\* A caller that is still to queue an earlier time of u.
Behind(d, u, at) == noteStep[d] # "idle" /\ noting[d].user = u /\ noting[d].at < at

\* Note up to isNews, with the time of the snapshot the caller has.
Note(c, u) ==
    /\ noteStep[c] = "idle" /\ ~seenDisabled
    /\ IsNews(u, lastActive[u])
    /\ seenLast' = [seenLast EXCEPT ![u] = lastActive[u]]
    /\ noting' = [noting EXCEPT ![c] = [user |-> u, at |-> lastActive[u]]]
    /\ noteStep' = [noteStep EXCEPT ![c] = "enqueue"]
    /\ seenPassed' = seenPassed \cup {noting[d] : d \in {d \in Noters : Behind(d, u, lastActive[u])}}
    /\ UNCHANGED <<lastActive, seenQueue, seenDisabled, seenTold, seenSent, seenDropped>>

\* The select: into the queue, or on to forgetting.
EnqueueSeen(c) ==
    /\ noteStep[c] = "enqueue"
    /\ IF Len(seenQueue) < SeenQueueSize
       THEN /\ seenQueue' = Append(seenQueue, noting[c])
            /\ noteStep' = [noteStep EXCEPT ![c] = "idle"]
            /\ noting' = [noting EXCEPT ![c] = <<>>]
       ELSE /\ noteStep' = [noteStep EXCEPT ![c] = "forget"]
            /\ UNCHANGED <<seenQueue, noting>>
    /\ UNCHANGED <<lastActive, seenLast, seenDisabled, seenTold, seenHist>>

\* Mutant of ForgetSeen: the time stays remembered although it was never queued.
ForgetSeenNot(c) ==
    /\ noteStep[c] = "forget"
    /\ noteStep' = [noteStep EXCEPT ![c] = "idle"]
    /\ noting' = [noting EXCEPT ![c] = <<>>]
    /\ UNCHANGED <<lastActive, seenLast, seenQueue, seenDisabled, seenTold, seenHist>>

\* The queue was full: delete(r.last, remoteUserID), whoever has noted what is there.
ForgetSeen(c) ==
    /\ noteStep[c] = "forget"
    /\ seenLast' = [seenLast EXCEPT ![noting[c].user] = 0]
    /\ seenDropped' = seenDropped \cup
                       ({[user |-> noting[c].user, at |-> seenLast[noting[c].user]]} \ {noting[c]})
    /\ noteStep' = [noteStep EXCEPT ![c] = "idle"]
    /\ noting' = [noting EXCEPT ![c] = <<>>]
    /\ UNCHANGED <<lastActive, seenQueue, seenDisabled, seenTold, seenSent, seenPassed>>

\* Run: the request succeeds, fails and is logged, or is not supported.
SendSeen(outcome) ==
    /\ ~seenDisabled /\ seenQueue # <<>>
    /\ seenQueue' = Tail(seenQueue)
    /\ seenTold' = [seenTold EXCEPT ![Head(seenQueue).user] = IF outcome = "ok" THEN Head(seenQueue).at ELSE @]
    /\ seenSent' = seenSent \cup {Head(seenQueue)}
    /\ seenDisabled' = (outcome = "unsupported")
    /\ UNCHANGED <<lastActive, seenLast, noting, noteStep, seenPassed, seenDropped>>

SeenRun == \E outcome \in {"ok", "error", "unsupported"} : SendSeen(outcome)

SeenNext ==
    \/ \E u \in SeenUsers : BecomesActive(u)
    \/ \E c \in Noters : EnqueueSeen(c) \/ ForgetSeen(c) \/ \E u \in SeenUsers : Note(c, u)
    \/ SeenRun

SeenSpec == SeenInit /\ [][SeenNext]_seenVars

-----------------------------------------------------------------------------
(* Properties.                                                              *)

\* "Each time is sent once, in order": what the homeserver is told of a user is
\* later than what it was told before, for any number of callers of Note, whatever
\* is repeated, forgotten or fails.  Note remembers and queues in two steps, and
\* that shows in two cases only: a time comes late if a later one was noted before it
\* was queued, and twice if another caller, whose own time found the queue full,
\* made the reporter forget it.
SentInOrder ==
    [][\A u \in SeenUsers : seenQueue # <<>> /\ Head(seenQueue).user = u /\ seenQueue' = Tail(seenQueue)
            => \/ Head(seenQueue).at > seenTold[u]
               \/ Head(seenQueue).at = seenTold[u] /\ Head(seenQueue) \in seenDropped
               \/ Head(seenQueue) \in seenPassed]_seenQueue

\* "Forget that it was noted, so a later snapshot brings it again": a full queue
\* loses nothing, the last-active time a user is left with is sent to the
\* homeserver (once; the request may fail), whatever other callers note and forget.
EveryTimeArrives ==
    \A u \in SeenUsers, t \in 1..MaxSeenTime :
        lastActive[u] = t ~> \/ lastActive[u] # t \/ seenDisabled
                         \/ [user |-> u, at |-> t] \in seenSent
=============================================================================
