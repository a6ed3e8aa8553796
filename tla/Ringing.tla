------------------------------- MODULE Ringing ------------------------------
(***************************************************************************)
(* pkg/connector/calllog.go: which call rings in a chat.  The WhatsApp     *)
(* event handler logs an offer and then enters the call in a table; the    *)
(* call bridge's goroutines and the decline-call command take it out when  *)
(* they end the call on their own, concurrently with the handler.          *)
(***************************************************************************)
EXTENDS Naturals

CONSTANTS RgCalls,      \* incoming calls, by ID
          RgChats,      \* portals
          NoCall

ASSUME RgAssumption == NoCall \notin RgCalls

VARIABLES
    rgChat,     \* the portal of each call (resolveCallStart)
    atWA,       \* the call at WhatsApp: not offered yet, ringing, over and the
                \* event saying so is on its way, or over for everyone
    logged,     \* the calls in the call log
    setting,    \* handleWACallEvent: the offer logged and not entered yet
    ringing,    \* Ringing.calls
    declining,  \* fnDeclineCall: the call it got for a chat
    raced,      \* calls the bridge ended before handleWACallEvent had entered them
    newest      \* the call entered last for each chat

rgVars == <<rgChat, atWA, logged, setting, ringing, declining, raced, newest>>

RgTypeOK ==
    /\ rgChat \in [RgCalls -> RgChats]
    /\ atWA \in [RgCalls -> {"new", "ringing", "ending", "over"}]
    /\ logged \subseteq RgCalls
    /\ setting \in RgCalls \cup {NoCall}
    /\ {ringing, declining, newest} \subseteq [RgChats -> RgCalls \cup {NoCall}]
    /\ raced \subseteq RgCalls

RgInit ==
    /\ rgChat \in [RgCalls -> RgChats]
    /\ atWA = [c \in RgCalls |-> "new"]
    /\ logged = {}
    /\ setting = NoCall
    /\ ringing = [p \in RgChats |-> NoCall]
    /\ declining = [p \in RgChats |-> NoCall]
    /\ raced = {}
    /\ newest = [p \in RgChats |-> NoCall]

\* WhatsApp offers a call, and ends or answers it elsewhere.
Offer(c) ==
    /\ atWA[c] = "new"
    /\ atWA' = [atWA EXCEPT ![c] = "ringing"]
    /\ UNCHANGED <<rgChat, logged, setting, ringing, declining, raced, newest>>

Ends(c) ==
    /\ atWA[c] = "ringing"
    /\ atWA' = [atWA EXCEPT ![c] = "ending"]
    /\ UNCHANGED <<rgChat, logged, setting, ringing, declining, raced, newest>>

\* handleWACallEvent with an offer or an offer notice, up to CallLog.Start,
\* which answers with an event only the first time it sees the ID.
LogOffer(c) ==
    /\ setting = NoCall
    /\ atWA[c] # "new" /\ c \notin logged
    /\ logged' = logged \cup {c}
    /\ setting' = c
    /\ UNCHANGED <<rgChat, atWA, ringing, declining, raced, newest>>

\* Ringing.set.
Set ==
    /\ setting # NoCall
    /\ ringing' = [ringing EXCEPT ![rgChat[setting]] = setting]
    /\ newest' = [newest EXCEPT ![rgChat[setting]] = setting]
    /\ setting' = NoCall
    /\ UNCHANGED <<rgChat, atWA, logged, declining, raced>>

\* Mutant of Clear: the chat's entry goes, whichever call it is.
ClearChat(c) == ringing' = [ringing EXCEPT ![rgChat[c]] = NoCall]

\* Ringing.clear forgets the call with this ID, wherever it rang.
Clear(c) == ringing' = [p \in RgChats |-> IF ringing[p] = c THEN NoCall ELSE ringing[p]]

\* handleWACallEvent with an accept, reject or terminate.
HandleOver(c) ==
    /\ setting = NoCall
    /\ atWA[c] = "ending"
    /\ c \in logged         \* its offer came before it
    /\ atWA' = [atWA EXCEPT ![c] = "over"]
    /\ Clear(c)
    /\ UNCHANGED <<rgChat, logged, setting, declining, raced, newest>>

\* reportBridgedCall: the bridge answered or ended the call and WhatsApp will not
\* say so.
Report(c) ==
    /\ atWA' = [atWA EXCEPT ![c] = "over"]
    /\ raced' = IF setting = c \/ c \notin logged THEN raced \cup {c} ELSE raced
    /\ Clear(c)
    /\ UNCHANGED <<rgChat, logged, setting, newest>>

BridgeReports(c) ==
    /\ atWA[c] = "ringing"
    /\ Report(c)
    /\ UNCHANGED declining

\* fnDeclineCall: look, and then reject the call that was found, through its
\* session or at WhatsApp, which may fail.
DeclineLook(p) ==
    /\ declining[p] = NoCall /\ ringing[p] # NoCall
    /\ declining' = [declining EXCEPT ![p] = ringing[p]]
    /\ UNCHANGED <<rgChat, atWA, logged, setting, ringing, raced, newest>>

DeclineCall(p) ==
    /\ declining[p] # NoCall
    /\ declining' = [declining EXCEPT ![p] = NoCall]
    /\ \/ Report(declining[p])
       \/ UNCHANGED <<rgChat, atWA, logged, setting, ringing, raced, newest>>

RgNext ==
    \/ \E c \in RgCalls :
        Offer(c) \/ Ends(c) \/ LogOffer(c) \/ HandleOver(c) \/ BridgeReports(c)
    \/ Set
    \/ \E p \in RgChats : DeclineLook(p) \/ DeclineCall(p)

RgSpec == RgInit /\ [][RgNext]_rgVars

-----------------------------------------------------------------------------
\* "ringingCalls keeps the last ringing call of each portal, for decline-call":
\* an entry is a call that still rings, in the chat it rings in, and the call
\* entered last for a chat stays there for as long as it rings.  Only a
\* call that the bridge ends before the handler has entered it is left there
\* after its end.
RingingIsLatest ==
    /\ \A p \in RgChats : ringing[p] # NoCall =>
        /\ rgChat[ringing[p]] = p
        /\ atWA[ringing[p]] \in {"ringing", "ending"} \/ ringing[p] \in raced
    /\ \A c \in logged \ {setting} :
        atWA[c] \in {"ringing", "ending"} /\ newest[rgChat[c]] = c => ringing[rgChat[c]] = c
=============================================================================
