------------------------------ MODULE OnDemand ------------------------------
(***************************************************************************)
(* pkg/connector/backfill.go: asking the phone for more history of a chat. *)
(* The chat's backfill task enters its request in a table under a lock,    *)
(* sends it and gives up at once if the chat has one in the table; the     *)
(* history loop takes the entry out when the blob that answers it comes.   *)
(* The phone may answer before SendMessage returns, and SendMessage may    *)
(* fail after the request got through.                                     *)
(***************************************************************************)
EXTENDS Naturals

CONSTANTS OdChats,
          MaxAsks       \* bound: requests made

ASSUME OdAssumption == MaxAsks \in Nat

VARIABLES
    asks,       \* how many requests were made; their message IDs are 1..asks
    askChat,    \* the chat each one is for
    askCall,    \* fetchMessagesFromPhone's SendMessage, of this process or not
    atPhone,    \* what has become of each request
    inFlight    \* onDemandHistorySyncRequests, 0 where a chat has no entry

odVars == <<asks, askChat, askCall, atPhone, inFlight>>

Asks == 1..MaxAsks

OdTypeOK ==
    /\ asks \in 0..MaxAsks
    /\ askChat \in [Asks -> OdChats]
    /\ askCall \in [Asks -> {"none", "sending", "sent", "failed", "forgotten"}]
    /\ atPhone \in [Asks -> {"no", "asked", "blob", "done"}]
    /\ inFlight \in [OdChats -> 0..MaxAsks]

OdInit ==
    /\ asks = 0
    /\ askChat \in [Asks -> OdChats]    \* read only once the request is made
    /\ askCall = [r \in Asks |-> "none"]
    /\ atPhone = [r \in Asks |-> "no"]
    /\ inFlight = [c \in OdChats |-> 0]

\* startOnDemandHistorySyncRequest: refused while the chat has an entry (the
\* caller then answers that the backfill is pending and changes nothing).
StartRequest(r) ==
    /\ inFlight[askChat[r]] = 0
    /\ inFlight' = [inFlight EXCEPT ![askChat[r]] = r]

\* fetchMessagesFromPhone up to SendMessage.
FetchFromPhone ==
    /\ asks < MaxAsks
    /\ asks' = asks + 1
    /\ StartRequest(asks + 1)
    /\ askCall' = [askCall EXCEPT ![asks + 1] = "sending"]
    /\ UNCHANGED <<askChat, atPhone>>

\* The request gets through to the phone, now or when the phone is back online.
Reaches(r) ==
    /\ askCall[r] # "none" /\ atPhone[r] = "no"
    /\ atPhone' = [atPhone EXCEPT ![r] = "asked"]
    /\ UNCHANGED <<asks, askChat, askCall, inFlight>>

\* SendMessage has WhatsApp's acknowledgement.
SendDone(r) ==
    /\ askCall[r] = "sending"
    /\ askCall' = [askCall EXCEPT ![r] = "sent"]
    /\ UNCHANGED <<asks, askChat, atPhone, inFlight>>

\* delete(wa.onDemandHistorySyncRequests, portalJID): whatever the entry is.
DropFailed(r) == inFlight' = [inFlight EXCEPT ![askChat[r]] = 0]

\* SendMessage fails, be it before or after the request got through.
SendFails(r) ==
    /\ askCall[r] = "sending"
    /\ askCall' = [askCall EXCEPT ![r] = "failed"]
    /\ DropFailed(r)
    /\ UNCHANGED <<asks, askChat, atPhone>>

\* The phone uploads the blob and the history loop queues its notification.
Answers(r) ==
    /\ atPhone[r] = "asked"
    /\ atPhone' = [atPhone EXCEPT ![r] = "blob"]
    /\ UNCHANGED <<asks, askChat, askCall, inFlight>>

\* Mutant of FinishRequest: the answer does not take the entry out.
FinishRequestNot(r) == UNCHANGED inFlight

\* finishOnDemandHistorySyncRequest: every entry with this ID.
FinishRequest(r) ==
    inFlight' = [c \in OdChats |-> IF inFlight[c] = r THEN 0 ELSE inFlight[c]]

\* downloadAndSaveWAHistorySyncData with an on-demand blob, whose messages
\* handleOnDemandHistorySync gives to the portal; if the row cannot be deleted
\* afterwards the loop comes back to it.
HandleBlob(r, deleted) ==
    /\ atPhone[r] = "blob"
    /\ FinishRequest(r)
    /\ atPhone' = [atPhone EXCEPT ![r] = IF deleted THEN "done" ELSE "blob"]
    /\ UNCHANGED <<asks, askChat, askCall>>

\* The table is lost with the process; what was sent is still answered.
OdRestart ==
    /\ inFlight' = [c \in OdChats |-> 0]
    /\ askCall' = [r \in Asks |-> IF askCall[r] = "none" THEN "none" ELSE "forgotten"]
    /\ UNCHANGED <<asks, askChat, atPhone>>

OdNext ==
    \/ FetchFromPhone
    \/ \E r \in Asks :
        \/ Reaches(r) \/ SendDone(r) \/ SendFails(r) \/ Answers(r)
        \/ HandleBlob(r, TRUE) \/ HandleBlob(r, FALSE)
    \/ OdRestart

OdSpec == OdInit /\ [][OdNext]_odVars

-----------------------------------------------------------------------------
\* "Not sending history sync request, previous request is still in flight": an
\* entry is there exactly while its request of this process is on its way or
\* unanswered, so that no chat is blocked by a request that failed or was
\* answered, and none is asked for twice.  The one way to lose the entry of a
\* live request is the late failure of an earlier one for the same chat, which
\* takes out what it finds.
InFlightIsReal ==
    /\ \A c \in OdChats : inFlight[c] # 0 =>
        /\ askChat[inFlight[c]] = c
        /\ askCall[inFlight[c]] \in {"sending", "sent"}
        /\ inFlight[c] <= asks
    /\ \A r \in Asks :
        atPhone[r] = "done" => inFlight[askChat[r]] # r
    /\ \A r \in Asks :
        askCall[r] \in {"sending", "sent"} /\ atPhone[r] \in {"no", "asked"} =>
            \/ inFlight[askChat[r]] = r
            \/ \E s \in 1..(r - 1) : askChat[s] = askChat[r] /\ askCall[s] = "failed"
=============================================================================
