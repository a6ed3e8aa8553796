---------------------------- MODULE PortalQueue ----------------------------
(***************************************************************************)
(* What Messages and Pins share: the bridged messages of one portal, its   *)
(* event queue, which the bridge framework works off one event at a time,  *)
(* and the connection that fills it.  QueueRemoteEvent is a Push; an event *)
(* that was pushed is acknowledged to WhatsApp and gone if the process     *)
(* stops before it is handled.                                             *)
(***************************************************************************)
EXTENDS Naturals, Sequences

CONSTANTS Msgs,        \* the chat's messages
          MaxEvents,   \* bound: how many events WhatsApp delivers
          MaxConnects  \* bound: how many connections follow the first one

ASSUME PortalQueueAssumption == {MaxEvents, MaxConnects} \subseteq Nat

VARIABLES queue,       \* the events of the portal that are not handled yet
          events,      \* how many events were delivered
          connects,    \* how many connections were made after the first
          inDB         \* messages with a row in the bridge's message table

queueVars == <<queue, events, connects>>

Push(e) == queue' = Append(queue, e) /\ UNCHANGED <<events, connects>>

\* A handler of handleWAEvent that pushes e.
Deliver(e) ==
    /\ events < MaxEvents
    /\ events' = events + 1
    /\ queue' = Append(queue, e)
    /\ UNCHANGED connects

\* One that gives up (the LID lookup failed): nothing is pushed, and WhatsApp,
\* which got no acknowledgement, is free to deliver the event again.
Refuse ==
    /\ events < MaxEvents
    /\ events' = events + 1
    /\ UNCHANGED <<queue, connects>>

\* The framework takes the first event, which is one of the given types.
Next1(types) == queue # << >> /\ Head(queue).type \in types

Take(type) ==
    /\ Next1({type})
    /\ queue' = Tail(queue)
    /\ UNCHANGED <<events, connects>>
=============================================================================
