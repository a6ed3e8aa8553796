------------------------------ MODULE AppState ------------------------------
(***************************************************************************)
(* connector/handlewhatsapp.go, handleWAAppStateSyncError and -Complete:   *)
(* repairing a broken app state patch.  The first failing partial sync     *)
(* starts a full one; if that fails, the phone is asked for a recovery,    *)
(* at most once in 48 hours.  Full syncs tried are remembered in memory,   *)
(* recoveries asked for in the login's metadata.                           *)
(***************************************************************************)
EXTENDS Naturals

CONSTANTS Patches,
          MaxBreaks,    \* bound: how often patches break
          MaxAsStops    \* bound: failures and restarts

ASSUME AsAssumption == {MaxBreaks, MaxAsStops} \subseteq Nat

VARIABLES
    patch,      \* ok; broken for partial syncs; or lost for full ones, too
    breaks,     \* how often one broke
    asStops,    \* failures and restarts so far
    fullTried,  \* appStateFullSyncAttempted
    mark,       \* AppStateRecoveryAttempted: none, within 48 hours, or older
    markDisk,   \* the same, saved
    fetching,   \* goroutines in FetchAppState
    asking,     \* the recovery request: not made, being sent, at the phone
    gaveUp      \* patches for which this process has had a failing request

asVars == <<patch, breaks, asStops, fullTried, mark, markDisk, fetching, asking, gaveUp>>

Marks == {"none", "recent", "old"}

AsTypeOK ==
    /\ patch \in [Patches -> {"ok", "broken", "lost"}]
    /\ breaks \in 0..MaxBreaks /\ asStops \in 0..MaxAsStops
    /\ {fullTried, fetching, gaveUp} \subseteq SUBSET Patches
    /\ mark \in [Patches -> Marks] /\ markDisk \in [Patches -> Marks]
    /\ asking \in [Patches -> {"no", "sending", "sent"}]

AsInit ==
    /\ patch = [p \in Patches |-> "ok"]
    /\ breaks = 0 /\ asStops = 0
    /\ fullTried = {} /\ fetching = {} /\ gaveUp = {}
    /\ mark = [p \in Patches |-> "none"] /\ markDisk = mark
    /\ asking = [p \in Patches |-> "no"]

\* A patch's hash or its keys no longer fit.
Break(p) ==
    /\ breaks < MaxBreaks /\ patch[p] = "ok"
    /\ breaks' = breaks + 1
    /\ \E s \in {"broken", "lost"} : patch' = [patch EXCEPT ![p] = s]
    /\ UNCHANGED <<asStops, fullTried, mark, markDisk, fetching, asking, gaveUp>>

\* Whether meta.Save fails, which only means that the disk keeps the old mark.
Mark(p, m) ==
    /\ mark' = [mark EXCEPT ![p] = m]
    /\ \/ markDisk' = mark' /\ UNCHANGED asStops
       \/ asStops < MaxAsStops /\ asStops' = asStops + 1 /\ UNCHANGED markDisk

\* Mutant of SyncComplete: what was tried for the last failure is not forgotten.
SyncCompleteKeeping(p) ==
    gaveUp' = gaveUp \ {p} /\ UNCHANGED <<fullTried, mark, markDisk, asStops>>

\* handleWAAppStateSyncComplete.
SyncComplete(p) ==
    /\ fullTried' = fullTried \ {p}
    /\ gaveUp' = gaveUp \ {p}
    /\ IF mark[p] # "none"
       THEN Mark(p, "none")
       ELSE UNCHANGED <<mark, markDisk, asStops>>

\* handleWAAppStateSyncError after a partial sync.
PartialError(p) ==
    /\ mark[p] # "recent" /\ p \notin fullTried
    /\ fullTried' = fullTried \cup {p}
    /\ fetching' = fetching \cup {p}
    /\ UNCHANGED <<patch, breaks, asStops, mark, markDisk, asking, gaveUp>>

\* handleWAAppStateSyncError after a full one.
FullError(p) ==
    IF mark[p] = "recent"
    THEN UNCHANGED <<mark, markDisk, asStops, asking>>
    ELSE /\ Mark(p, "recent")
         /\ asking' = [asking EXCEPT ![p] = "sending"]

\* WhatsApp announces new mutations and whatsmeow syncs the patch.
PartialSync(p) ==
    \/ /\ patch[p] = "ok"
       /\ SyncComplete(p)
       /\ UNCHANGED <<patch, breaks, fetching, asking>>
    \/ patch[p] # "ok" /\ PartialError(p)

\* The goroutine's FetchAppState: the patch is whole again, it cannot be had
\* at all, or the request fails without an event.
FullSync(p) ==
    /\ p \in fetching
    /\ fetching' = fetching \ {p}
    /\ \/ /\ patch[p] # "lost"
          /\ patch' = [patch EXCEPT ![p] = "ok"]
          /\ SyncComplete(p)
          /\ UNCHANGED asking
       \/ /\ patch[p] = "lost"
          /\ FullError(p)
          /\ UNCHANGED <<patch, fullTried, gaveUp>>
       \/ /\ asStops < MaxAsStops /\ asStops' = asStops + 1
          /\ gaveUp' = gaveUp \cup {p}
          /\ UNCHANGED <<patch, fullTried, mark, markDisk, asking>>
    /\ UNCHANGED breaks

\* SendPeerMessage.
SendRecovery(p) ==
    /\ asking[p] = "sending"
    /\ \/ asking' = [asking EXCEPT ![p] = "sent"] /\ UNCHANGED <<asStops, gaveUp>>
       \/ /\ asStops < MaxAsStops /\ asStops' = asStops + 1
          /\ asking' = [asking EXCEPT ![p] = "no"]
          /\ gaveUp' = gaveUp \cup {p}
    /\ UNCHANGED <<patch, breaks, fullTried, mark, markDisk, fetching>>

\* The phone's recovery is applied and reported as a complete sync.
Recovered(p) ==
    /\ asking[p] = "sent"
    /\ asking' = [asking EXCEPT ![p] = "no"]
    /\ patch' = [patch EXCEPT ![p] = "ok"]
    /\ SyncComplete(p)
    /\ UNCHANGED <<breaks, fetching>>

\* 48 hours go by, more than a request takes.
TwoDays(p) ==
    /\ "recent" \in {mark[p], markDisk[p]} /\ asking[p] # "sending" /\ p \notin fetching
    /\ mark' = [mark EXCEPT ![p] = IF @ = "none" THEN @ ELSE "old"]
    /\ markDisk' = [markDisk EXCEPT ![p] = IF @ = "none" THEN @ ELSE "old"]
    /\ UNCHANGED <<patch, breaks, asStops, fullTried, fetching, asking, gaveUp>>

AsRestart ==
    /\ asStops < MaxAsStops /\ asStops' = asStops + 1
    /\ fullTried' = {} /\ fetching' = {} /\ gaveUp' = {}
    /\ mark' = markDisk
    /\ asking' = [p \in Patches |-> IF asking[p] = "sent" THEN "sent" ELSE "no"]
    /\ UNCHANGED <<patch, breaks, markDisk>>

AsNext ==
    \/ AsRestart
    \/ \E p \in Patches :
        \/ Break(p) \/ PartialSync(p) \/ FullSync(p) \/ SendRecovery(p)
        \/ Recovered(p) \/ TwoDays(p)

AsSpec == AsInit /\ [][AsNext]_asVars

-----------------------------------------------------------------------------
\* A patch that breaks is repaired, by a full sync or by the phone, whatever was
\* tried for it before and over restarts at any point, unless a request fails:
\* then only a restart lets this process try again.
AppStateRepaired ==
    \A p \in Patches : patch[p] # "ok" ~> patch[p] = "ok" \/ p \in gaveUp
=============================================================================
