------------------------------- MODULE Client -------------------------------
(***************************************************************************)
(* connector/client.go, phoneping.go and the connection events of          *)
(* handlewhatsapp.go: one login's connection and the state that the user   *)
(* is shown for it.  The framework connects and logs out, whatsmeow        *)
(* reconnects on its own and reports what happens to the socket, the phone *)
(* may not be seen for days, and goroutines started by one event may send  *)
(* their state after a later one.                                          *)
(***************************************************************************)
EXTENDS Naturals, Sequences

CONSTANTS MaxClEvents   \* bound: events waiting for handleWAEvent

ASSUME ClAssumption == MaxClEvents \in Nat

VARIABLES
    background,     \* the process only ever runs ConnectBackground
    have,           \* wa.Client # nil
    paired,         \* WhatsApp knows the device
    socket,         \* the websocket is up
    reconnecting,   \* whatsmeow is to reconnect it on its own
    clLoops,        \* stopLoops # nil
    calling,        \* connect or ConnectBackground: where the call is
    waiter,         \* offlineSyncWaiter: none, empty, or with something in it
    clEvents,       \* events on their way to handleWAEvent
    bridgeState,    \* the bridge state the user is shown
    phone,          \* when the phone was last seen
    pinged,         \* whether it was pinged within a day
    profile,        \* the goroutine of syncRemoteProfile
    crossed         \* a logout came in the middle of connect, of syncRemoteProfile or of
                    \* events, connect was called for a connection that is up, comes
                    \* back or has events waiting, or syncRemoteProfile sent its state
                    \* after the socket was lost

clVars == <<background, have, paired, socket, reconnecting, clLoops, calling, waiter,
            clEvents, bridgeState, phone, pinged, profile, crossed>>

BridgeStates == {"none", "connecting", "connected", "phoneOffline", "disconnected", "timeout",
                 "error", "bad", "gone"}
Kinds == {"connected", "offlineDone", "disconnected", "loggedOut", "error", "bad", "timeout",
          "restored"}

ClTypeOK ==
    /\ {background, have, paired, socket, reconnecting, clLoops, pinged, crossed} \subseteq BOOLEAN
    /\ calling \in {"idle", "proxy", "dial", "wait"}
    /\ waiter \in {"none", "empty", "full"}
    /\ clEvents \in Seq(Kinds) /\ Len(clEvents) <= MaxClEvents
    /\ bridgeState \in BridgeStates
    /\ phone \in {"never", "fresh", "aging", "overdue"}
    /\ profile \in {"idle", "look", "send"}

\* LoadUserLogin.
ClInit ==
    /\ background \in BOOLEAN
    /\ have = TRUE /\ paired = TRUE
    /\ socket = FALSE /\ reconnecting = FALSE /\ clLoops = FALSE
    /\ calling = "idle" /\ waiter = "none" /\ clEvents = <<>>
    /\ bridgeState = "none"
    /\ phone \in {"never", "fresh"} /\ pinged = FALSE
    /\ profile = "idle" /\ crossed = FALSE

PhoneRecentlySeen == phone # "overdue"

\* BridgeState.Send with FillBridgeState.
Shown(s) == IF s = "connected" /\ ~PhoneRecentlySeen THEN "phoneOffline" ELSE s
SendState(s) == bridgeState' = Shown(s)

Dispatch(evts) ==
    /\ Len(clEvents) + Len(evts) <= MaxClEvents
    /\ clEvents' = clEvents \o evts

\* The socket comes up: the server accepts the device and sends what was missed,
\* or tells it that it is logged out.
ComesUp ==
    /\ socket' = paired
    /\ Dispatch(IF paired THEN <<"connected", "offlineDone">> ELSE <<"loggedOut">>)

-----------------------------------------------------------------------------
(* The framework's calls.                                                   *)

\* connect up to updateProxy, whatever the connection's state.
ConnectStart ==
    /\ ~background /\ calling = "idle"
    /\ IF have
       THEN SendState("connecting") /\ calling' = "proxy"
       ELSE SendState("bad") /\ UNCHANGED calling
    /\ crossed' = (crossed \/ (have /\ (socket \/ reconnecting \/ clEvents # <<>>)))
    /\ UNCHANGED <<background, have, paired, socket, reconnecting, clLoops, waiter, clEvents,
                   phone, pinged, profile>>

\* The context ended meanwhile: "connecting" stays.
ConnectCancelled ==
    /\ calling = "proxy"
    /\ calling' = "idle"
    /\ UNCHANGED <<background, have, paired, socket, reconnecting, clLoops, waiter, clEvents,
                   bridgeState, phone, pinged, profile, crossed>>

\* Then the loops are started; without a client the process panics.
ConnectGo ==
    /\ calling = "proxy" /\ have
    /\ clLoops' = TRUE
    /\ calling' = "dial"
    /\ UNCHANGED <<background, have, paired, socket, reconnecting, waiter, clEvents,
                   bridgeState, phone, pinged, profile, crossed>>

ConnectPanics ==
    /\ calling = "proxy" /\ ~have
    /\ socket' = FALSE /\ reconnecting' = FALSE /\ clLoops' = FALSE
    /\ calling' = "idle" /\ clEvents' = <<>> /\ bridgeState' = "none"
    /\ profile' = "idle" /\ crossed' = FALSE
    /\ UNCHANGED <<background, have, paired, waiter, phone, pinged>>

\* ConnectContext, which fails if the socket is up; whatsmeow's own attempts end with it.
ConnectDone ==
    /\ calling = "dial" /\ ~background /\ ~socket
    /\ calling' = "idle"
    /\ reconnecting' = FALSE
    /\ ComesUp
    /\ UNCHANGED <<background, have, paired, clLoops, waiter, bridgeState, phone, pinged,
                   profile, crossed>>

ConnectFails ==
    /\ calling = "dial" /\ ~background
    /\ calling' = "idle"
    /\ clLoops' = FALSE
    /\ SendState("error")
    /\ UNCHANGED <<background, have, paired, socket, reconnecting, waiter, clEvents, phone,
                   pinged, profile, crossed>>

\* Disconnect ends the loops and the socket for good (and a bridged call).
Disconnect == clLoops' = FALSE /\ socket' = FALSE /\ reconnecting' = FALSE

\* ConnectBackground: wait for the offline sync, an error or the context.
BackgroundStart ==
    /\ background /\ have /\ calling = "idle" /\ clEvents = <<>>
    /\ waiter' = "empty"
    /\ calling' = "dial"
    /\ UNCHANGED <<background, have, paired, socket, reconnecting, clLoops, clEvents,
                   bridgeState, phone, pinged, profile, crossed>>

BackgroundDial ==
    /\ calling = "dial" /\ background
    /\ \/ calling' = "wait" /\ ComesUp /\ UNCHANGED waiter
       \/ calling' = "idle" /\ waiter' = "none" /\ UNCHANGED <<socket, clEvents>>
    /\ UNCHANGED <<background, have, paired, reconnecting, clLoops, bridgeState, phone, pinged,
                   profile, crossed>>

BackgroundDone ==
    /\ calling = "wait"
    /\ Disconnect
    /\ waiter' = "none" /\ calling' = "idle"
    /\ UNCHANGED <<background, have, paired, clEvents, bridgeState, phone, pinged, profile, crossed>>

\* LogoutRemote; the framework then removes the login.
LogoutRemote ==
    /\ have /\ ~background
    /\ paired' = (paired /\ ~socket)    \* Logout needs a connection
    /\ Disconnect
    /\ have' = FALSE
    /\ bridgeState' = "gone"
    /\ crossed' = (crossed \/ calling # "idle" \/ profile # "idle" \/ clEvents # <<>>)
    /\ UNCHANGED <<background, calling, waiter, clEvents, phone, pinged, profile>>

-----------------------------------------------------------------------------
(* What happens to the socket.                                              *)

SocketDrops ==
    /\ socket
    /\ socket' = FALSE /\ reconnecting' = TRUE
    /\ Dispatch(<<"disconnected">>)
    /\ UNCHANGED <<background, have, paired, clLoops, calling, waiter, bridgeState, phone, pinged,
                   profile, crossed>>

\* Retries that fail change nothing.
AutoReconnect ==
    /\ reconnecting
    /\ reconnecting' = FALSE
    /\ ComesUp
    /\ UNCHANGED <<background, have, paired, clLoops, calling, waiter, bridgeState, phone, pinged,
                   profile, crossed>>

\* The stream is replaced, the client is banned or outdated, and so on: whatsmeow
\* does not come back by itself.
Kicked(kind) ==
    /\ socket
    /\ socket' = FALSE
    /\ Dispatch(<<kind>>)
    /\ UNCHANGED <<background, have, paired, reconnecting, clLoops, calling, waiter, bridgeState,
                   phone, pinged, profile, crossed>>

\* Pings go unanswered, and are answered again (or the socket drops).
KeepAlive(kind) ==
    /\ socket
    /\ Dispatch(<<kind>>)
    /\ UNCHANGED <<background, have, paired, socket, reconnecting, clLoops, calling, waiter,
                   bridgeState, phone, pinged, profile, crossed>>

Unpaired ==
    /\ paired /\ socket
    /\ paired' = FALSE /\ socket' = FALSE
    /\ Dispatch(<<"loggedOut">>)
    /\ UNCHANGED <<background, have, reconnecting, clLoops, calling, waiter, bridgeState, phone,
                   pinged, profile, crossed>>

-----------------------------------------------------------------------------
(* handleWAEvent.                                                           *)

\* notifyOfflineSyncWaiter: never blocks, drops what does not fit.
Notify == waiter' = IF waiter = "none" THEN "none" ELSE "full"

Handling(kind) == clEvents # <<>> /\ Head(clEvents) = kind /\ clEvents' = Tail(clEvents)

\* If the profile has changed, syncRemoteProfile sends a state, too.
HandleConnected ==
    /\ Handling("connected")
    /\ SendState("connected")
    /\ profile' \in {profile, "look"}
    /\ crossed' = (crossed /\ ~(have /\ calling = "idle"))
    /\ UNCHANGED <<background, have, paired, socket, reconnecting, clLoops, calling, waiter,
                   phone, pinged>>

\* PhoneRecentlySeen(true) pings a phone that was not seen for ten days.
HandleOfflineDone ==
    /\ Handling("offlineDone")
    /\ SendState("connected")
    /\ pinged' = (pinged \/ phone \in {"aging", "overdue"})
    /\ Notify
    /\ UNCHANGED <<background, have, paired, socket, reconnecting, clLoops, calling, phone,
                   profile, crossed>>

\* Mutant of HandleDisconnected: the state is not sent when another transient
\* state is shown, either.
HandleDisconnectedQuietly ==
    /\ Handling("disconnected")
    /\ IF bridgeState \notin {"phoneOffline", "connected"} /\ PhoneRecentlySeen
       THEN SendState("disconnected")
       ELSE UNCHANGED bridgeState
    /\ Notify
    /\ UNCHANGED <<background, have, paired, socket, reconnecting, clLoops, calling, phone,
                   pinged, profile, crossed>>

HandleDisconnected ==
    /\ Handling("disconnected")
    /\ IF bridgeState # "phoneOffline" /\ PhoneRecentlySeen
       THEN SendState("disconnected")
       ELSE UNCHANGED bridgeState
    /\ Notify
    /\ UNCHANGED <<background, have, paired, socket, reconnecting, clLoops, calling, phone,
                   pinged, profile, crossed>>

\* handleWALogout.
HandleLoggedOut ==
    /\ Handling("loggedOut")
    /\ Disconnect
    /\ have' = FALSE
    /\ SendState("bad")
    /\ crossed' = (crossed \/ calling # "idle" \/ profile # "idle" \/ clEvents' # <<>>)
    /\ Notify
    /\ UNCHANGED <<background, paired, calling, phone, pinged, profile>>

\* The events that only send a state.
HandleState ==
    /\ \/ \E kind \in {"error", "bad"} : Handling(kind) /\ SendState(kind) /\ Notify
       \/ Handling("timeout") /\ SendState("timeout") /\ UNCHANGED waiter
       \/ Handling("restored") /\ SendState("connected") /\ UNCHANGED waiter
    /\ UNCHANGED <<background, have, paired, socket, reconnecting, clLoops, calling, phone,
                   pinged, profile, crossed>>

\* syncRemoteProfile's last lines.
ProfileLook ==
    /\ profile = "look"
    /\ profile' = IF have /\ socket THEN "send" ELSE "idle"
    /\ UNCHANGED <<background, have, paired, socket, reconnecting, clLoops, calling, waiter,
                   clEvents, bridgeState, phone, pinged, crossed>>

ProfileSend ==
    /\ profile = "send"
    /\ profile' = "idle"
    /\ SendState("connected")
    /\ crossed' = (crossed \/ ~socket)
    /\ UNCHANGED <<background, have, paired, socket, reconnecting, clLoops, calling, waiter,
                   clEvents, phone, pinged>>

\* phoneSeen, for a message or receipt of the phone.
PhoneSeen ==
    /\ have /\ socket /\ phone # "fresh"
    /\ phone' = "fresh"
    /\ bridgeState' = IF ~PhoneRecentlySeen /\ bridgeState = "phoneOffline" THEN "connected"
                      ELSE bridgeState
    /\ UNCHANGED <<background, have, paired, socket, reconnecting, clLoops, calling, waiter,
                   clEvents, pinged, profile, crossed>>

\* Days go by.
PhoneAges ==
    /\ phone \in {"fresh", "aging"}
    /\ phone' = IF phone = "fresh" THEN "aging" ELSE "overdue"
    /\ pinged' = FALSE
    /\ UNCHANGED <<background, have, paired, socket, reconnecting, clLoops, calling, waiter,
                   clEvents, bridgeState, profile, crossed>>

ClNext ==
    \/ ConnectStart \/ ConnectCancelled \/ ConnectGo \/ ConnectPanics \/ ConnectDone \/ ConnectFails
    \/ BackgroundStart \/ BackgroundDial \/ BackgroundDone \/ LogoutRemote
    \/ SocketDrops \/ AutoReconnect \/ Kicked("error") \/ Kicked("bad")
    \/ KeepAlive("timeout") \/ KeepAlive("restored") \/ Unpaired
    \/ HandleConnected \/ HandleOfflineDone \/ HandleDisconnected \/ HandleLoggedOut
    \/ HandleState \/ ProfileLook \/ ProfileSend \/ PhoneSeen \/ PhoneAges

ClSpec == ClInit /\ [][ClNext]_clVars

-----------------------------------------------------------------------------
\* Nothing is under way that will still send a state.
Quiet == calling = "idle" /\ clEvents = <<>> /\ profile = "idle"

\* Once everything that happened was handled, the user is shown what is true: a
\* connection that is up, bad credentials only without a client, and no offline
\* phone that was seen; the loops run only for a login, and a background
\* connection is closed with its call.  Known exceptions: a logout in the
\* middle of connect, of syncRemoteProfile or of other events, the state of
\* syncRemoteProfile after the socket was lost (its FIXME), connect called for a
\* connection that is up or comes back, which shows an error and stops the loops, all
\* until the next connection is handled; and a phone not seen for 12 days, for which
\* a lost connection is not shown.
ShownIsTrue ==
    Quiet /\ ~crossed /\ ~background =>
        /\ bridgeState = "connected" => socket \/ phone = "overdue"
        /\ bridgeState = "phoneOffline" => phone = "overdue" \/ ~socket
        /\ socket => have /\ bridgeState \in {"connected", "phoneOffline", "timeout"}
        /\ ~have => bridgeState \in {"none", "bad", "gone"} /\ ~clLoops /\ ~reconnecting
        /\ bridgeState = "error" /\ ~socket => ~reconnecting
=============================================================================
