-------------------------------- MODULE Pins --------------------------------
(***************************************************************************)
(* pins.go: pins of a chat's messages, which run out on WhatsApp and are   *)
(* taken down in Matrix by timers of the bridge.  The portal's metadata    *)
(* (PinExpiry) is written by the portal's event loop; timers, the sweep    *)
(* after a connect and the handler of a pin message run in goroutines of   *)
(* their own.                                                              *)
(*                                                                         *)
(* Pins are numbered as they are made, and no two run out at the same      *)
(* time: k also stands for the expiry of pin k, 0 for none.  Pins last for *)
(* different times, so that they may run out in any order.                 *)
(***************************************************************************)
EXTENDS PortalQueue, FiniteSets

CONSTANTS Pinnable,    \* bound: the messages that are pinned
          MaxPins      \* bound: how many pins are made

ASSUME PinsAssumption == Pinnable \subseteq Msgs /\ MaxPins \in Nat

VARIABLES
    made,      \* pins made so far
    byMatrix,  \* the ones made in Matrix
    arriving,  \* handleWAPinInChat between arming and pushing: the event, if any
    pinned,    \* which pin each message shows in the room, 0 for none
    expiry,    \* PortalMetadata.PinExpiry
    timers,    \* pinTimers: armed timers
    firing,    \* timers that have fired and not looked yet
    sweeping,  \* sweepPinExpiry is to run
    untimed    \* pins whose timer looked before they were on record or could not look, or
               \* that a sweep could not read, not armed since

pinVars == <<made, byMatrix, arriving, pinned, expiry, timers, firing, sweeping, untimed>>

Keys == Pinnable \X (1..MaxPins)

PinTypeOK ==
    /\ made \in 0..MaxPins /\ byMatrix \subseteq 1..made
    /\ \A e \in arriving : e.msg \in Pinnable /\ e.pin \in 1..made
    /\ pinned \in [Pinnable -> 0..made]
    /\ expiry \in [Pinnable -> 0..made]
    /\ timers \cup firing \cup untimed \subseteq Pinnable \X (1..made)
    /\ sweeping \in BOOLEAN

PinInit ==
    /\ made = 0 /\ byMatrix = {} /\ arriving = {}
    /\ pinned = [m \in Pinnable |-> 0] /\ expiry = [m \in Pinnable |-> 0]
    /\ timers = {} /\ firing = {} /\ untimed = {} /\ sweeping = FALSE

\* A change of m's pin to k, which runs out at x; seen is history (see FreshPinKept).
PinEvent(t, m, k, x, seen) == [type |-> t, msg |-> m, pin |-> k, until |-> x, seen |-> seen]

\* Pins of m that wait in the queue.
Waiting(m) ==
    {queue[i].pin : i \in {j \in DOMAIN queue : queue[j].type = "pin" /\ queue[j].msg = m}}

\* schedulePinExpiry: one timer per message and expiry, none for 0.
Arm(keys) == timers' = timers \cup {key \in keys : key[2] # 0}

\* The framework changes the room's pinned events for messages it knows, ...
SetPinned(m, k) == pinned' = [pinned EXCEPT ![m] = IF m \in inDB THEN k ELSE @]

\* ... and SetPinExpiry the metadata.
SetPinExpiry(m, x) == expiry' = [expiry EXCEPT ![m] = x]

-----------------------------------------------------------------------------
\* handleWAPinInChat with a pin, new or delivered again, with or without a
\* duration, arms the timer ...
PinArrives(m) ==
    /\ arriving = {} /\ events < MaxEvents
    /\ \E k \in (1..MaxPins) \ byMatrix : \E x \in {0, k} :
        /\ k <= made + 1
        /\ made' = IF k > made THEN k ELSE made
        /\ arriving' = {PinEvent("pin", m, k, x, {})}
        /\ Arm({<<m, x>>})
    /\ UNCHANGED <<queueVars, inDB, byMatrix, pinned, expiry, firing, sweeping, untimed>>

\* ... and pushes the change after it.
PinPushed ==
    /\ \E e \in arriving : Deliver(e)
    /\ arriving' = {}
    /\ UNCHANGED <<inDB, made, byMatrix, pinned, expiry, timers, firing, sweeping, untimed>>

\* handleWAPinInChat with an unpin.
UnpinArrives(m) ==
    /\ arriving = {}
    /\ Deliver(PinEvent("pin", m, 0, 0, {}))
    /\ UNCHANGED <<inDB, pinVars>>

\* The change is applied by the portal's loop.
HandlePin ==
    /\ Take("pin")
    /\ SetPinned(Head(queue).msg, Head(queue).pin)
    /\ SetPinExpiry(Head(queue).msg, Head(queue).until)
    /\ UNCHANGED <<inDB, made, byMatrix, arriving, timers, firing, sweeping, untimed>>

\* A Matrix user pins or unpins; the room shows it before the bridge hears of it.
UserPins(m) ==
    /\ m \in inDB /\ events < MaxEvents
    /\ \/ /\ pinned[m] = 0 /\ made < MaxPins
          /\ made' = made + 1
          /\ byMatrix' = byMatrix \cup {made + 1}
          /\ pinned' = [pinned EXCEPT ![m] = made + 1]
          /\ Deliver(PinEvent("matrixpin", m, made + 1, made + 1, {}))
       \/ /\ pinned[m] # 0
          /\ pinned' = [pinned EXCEPT ![m] = 0]
          /\ Deliver(PinEvent("matrixpin", m, 0, 0, {}))
          /\ UNCHANGED <<made, byMatrix>>
    /\ UNCHANGED <<inDB, arriving, expiry, timers, firing, sweeping, untimed>>

\* HandleMatrixPin: a request WhatsApp refuses changes nothing.
HandleMatrixPin ==
    /\ Take("matrixpin")
    /\ \/ /\ Arm({<<Head(queue).msg, Head(queue).until>>})
          /\ SetPinExpiry(Head(queue).msg, Head(queue).until)
       \/ UNCHANGED <<timers, expiry>>
    /\ UNCHANGED <<inDB, made, byMatrix, arriving, pinned, firing, sweeping, untimed>>

\* The portal's loop takes down a pin that ran out.
HandleExpire ==
    /\ Take("expire")
    /\ SetPinned(Head(queue).msg, 0)
    /\ SetPinExpiry(Head(queue).msg, 0)
    /\ UNCHANGED <<inDB, made, byMatrix, arriving, timers, firing, sweeping, untimed>>

-----------------------------------------------------------------------------
\* The pin runs out: the timer's function deletes its key, ...
TimerFires(key) ==
    /\ key \in timers
    /\ timers' = timers \ {key}
    /\ firing' = firing \cup {key}
    /\ UNCHANGED <<queueVars, inDB, made, byMatrix, arriving, pinned, expiry, sweeping, untimed>>

\* Mutant of Stale: looks at whether there is a pin, not which.
StaleAny(m, k) == expiry[m] = 0

Stale(m, k) == expiry[m] # k

\* ... and expirePin looks at the metadata: "Re-pinned since (a later expiry) or
\* unpinned already: this timer is stale."
ExpirePin(key) ==
    /\ key \in firing
    /\ firing' = firing \ {key}
    /\ IF Stale(key[1], key[2]) THEN UNCHANGED queueVars
       ELSE Push(PinEvent("expire", key[1], key[2], 0, Waiting(key[1])))
    /\ untimed' = IF key[2] \in Waiting(key[1]) \cup {e.pin : e \in arriving}
                THEN untimed \cup {key} ELSE untimed
    /\ UNCHANGED <<inDB, made, byMatrix, arriving, pinned, expiry, timers, sweeping>>

\* It cannot read the metadata.
ExpirePinFails(key) ==
    /\ key \in firing
    /\ firing' = firing \ {key}
    /\ untimed' = untimed \cup {key}
    /\ UNCHANGED <<queueVars, inDB, made, byMatrix, arriving, pinned, expiry, timers, sweeping>>

OnRecord == {<<m, expiry[m]>> : m \in {n \in Pinnable : expiry[n] # 0}}

\* sweepPinExpiry arms every pin on record, also one that has run out.
Sweep ==
    /\ sweeping
    /\ sweeping' = FALSE
    /\ Arm(OnRecord)
    /\ untimed' = untimed \ OnRecord
    /\ UNCHANGED <<queueVars, inDB, made, byMatrix, arriving, pinned, expiry, firing>>

\* It cannot list the portals; there is no other before the next connection.
SweepFails ==
    /\ sweeping
    /\ sweeping' = FALSE
    /\ untimed' = untimed \cup OnRecord
    /\ UNCHANGED <<queueVars, inDB, made, byMatrix, arriving, pinned, expiry, timers, firing>>

\* A new connection of the same process, and one of a new process.
PinReconnect ==
    /\ sweeping' = TRUE
    /\ UNCHANGED <<made, byMatrix, arriving, pinned, expiry, timers, firing, untimed>>

\* Mutant of PinRestart: only a new connection of the same process sweeps.
PinRestartOnly ==
    /\ arriving' = {} /\ timers' = {} /\ firing' = {}
    /\ UNCHANGED <<made, byMatrix, pinned, expiry, sweeping, untimed>>

PinRestart ==
    /\ arriving' = {} /\ timers' = {} /\ firing' = {}
    /\ sweeping' = TRUE
    /\ UNCHANGED <<made, byMatrix, pinned, expiry, untimed>>

PinNext ==
    \/ \E m \in Pinnable : PinArrives(m) \/ UnpinArrives(m) \/ UserPins(m)
    \/ PinPushed \/ HandlePin \/ HandleMatrixPin \/ HandleExpire \/ Sweep \/ SweepFails
    \/ \E key \in Keys : TimerFires(key) \/ ExpirePin(key) \/ ExpirePinFails(key)
=============================================================================
