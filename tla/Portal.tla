------------------------------- MODULE Portal -------------------------------
(***************************************************************************)
(* One portal: its messages (Messages) and its pins (Pins) on one event    *)
(* queue, over connections and restarts of the bridge.                     *)
(***************************************************************************)
EXTENDS Messages, Pins

vars == <<queueVars, msgVars, pinVars>>

msgsAlone == <<written, err, edits, saved, roomVars, cache, askVars>>

TypeOK == MsgTypeOK /\ PinTypeOK

Init ==
    /\ queue = << >> /\ events = 0 /\ connects = 0
    /\ MsgInit
    /\ PinInit

\* The socket is replaced.
Reconnect ==
    /\ connects < MaxConnects
    /\ connects' = connects + 1
    /\ PinReconnect
    /\ UNCHANGED <<queue, events, inDB, msgsAlone>>

\* The process stops, with what its queue holds, and starts again.
Restart ==
    /\ connects < MaxConnects
    /\ connects' = connects + 1
    /\ queue' = << >>
    /\ UNCHANGED events
    /\ MsgRestart
    /\ PinRestart

\* A revoked message takes its pin with it: bridged again, it is another event.
PinsFollow ==
    /\ pinned' = [m \in Pinnable |-> IF m \in inDB' THEN pinned[m] ELSE 0]
    /\ UNCHANGED <<made, byMatrix, arriving, expiry, timers, firing, sweeping, untimed>>

Next ==
    \/ MsgNext /\ PinsFollow
    \/ PinNext /\ UNCHANGED msgsAlone
    \/ Reconnect
    \/ Restart

Spec == Init /\ [][Next]_vars

-----------------------------------------------------------------------------
\* Text never goes back to an older version: neither a late original nor a
\* repeated edit undoes an edit.  Only the answer to a placeholder request can
\* (it is applied without a look at the message), and an edit that WhatsApp
\* had to deliver again after a later one.
TextNeverFallsBack ==
    [][\A m \in Msgs \ Media :
        0 < ver'[m] /\ ver'[m] < ver[m] =>
            \/ Head(queue).type = "resend"
            \/ ver'[m] > 1 /\ ver'[m] \notin applied[m]]_vars

\* A receipt that comes late never replaces a file that came with the message or
\* an edit of it.
LateReceiptHarmless ==
    [][queue # << >> /\ Head(queue).type = "receipt" /\ queue' = Tail(queue) =>
        \A m \in Msgs : file[m] # 0 => shown'[m] = shown[m] /\ ver'[m] = ver[m]]_vars

\* "so that the message doesn't get re-bridged if it was deleted": what is revoked
\* only comes back when the message itself is delivered again.
RevokedStaysGone ==
    [][\A m \in Msgs : m \notin inDB /\ m \in inDB' =>
        Head(queue).type \in {"message", "undecryptable"}]_vars

\* A timer takes down the pin it was made for.  The only newer pins it can take
\* down are ones that were still in the queue when it looked, or made in Matrix.
FreshPinKept ==
    [][\A m \in Pinnable :
        queue # << >> /\ Head(queue).type = "expire" /\ queue' = Tail(queue)
            /\ pinned'[m] = 0 /\ pinned[m] > Head(queue).pin =>
                pinned[m] \in Head(queue).seen \cup byMatrix]_vars

\* "A pin that ran out while the bridge was down is unpinned at the next connect
\* (sweepPinExpiry)": every pin on record has a timer, a timer's goroutine or an
\* event under way, or a sweep to come, over restarts, pins that replace each
\* other and repeated deliveries.  The exceptions, until the next sweep: a pin that had
\* run out when it was delivered, whose timer may look before it is on record, and
\* errors of the database in a timer or in a sweep.
PinsTended ==
    \A m \in Pinnable : expiry[m] # 0 =>
        \/ sweeping
        \/ <<m, expiry[m]>> \in timers \cup firing \cup untimed
        \/ \E i \in DOMAIN queue : queue[i].type = "expire" /\ queue[i].msg = m
=============================================================================
