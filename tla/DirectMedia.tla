----------------------------- MODULE DirectMedia ----------------------------
(***************************************************************************)
(* connector/directmedia.go: media that is downloaded from WhatsApp when a *)
(* Matrix client asks for it.  If the message's path is no longer there,   *)
(* the phone is asked to upload the file again; everyone who asks for the  *)
(* same message shares one entry of directMediaRetries, whose lock is held *)
(* over the request and over the handling of a receipt.                    *)
(***************************************************************************)
EXTENDS Naturals

CONSTANTS DmMsgs,       \* messages with media
          Readers,      \* requests of Matrix clients
          NoReader,
          MaxPaths      \* bound: paths a message's file has had

ASSUME DmAssumption == NoReader \notin Readers /\ MaxPaths \in Nat \ {0}

VARIABLES
    dmPath,     \* the path in the message's metadata
    dmAlive,    \* paths before this one are gone from WhatsApp's servers
    entry,      \* the messages with an entry in directMediaRetries
    locked,     \* who holds the entry's lock
    requested,  \* directMediaRetry.requested
    woken,      \* directMediaRetry.wait is set
    dmURL,      \* directMediaRetry.resultURL, 0 for ""
    rd,         \* where each reader is
    rdMsg,      \* the message it wants
    rdPath,     \* keys.DirectPath of its own copy
    atPhoneDM,  \* requests the phone has not answered
    receipts,   \* answers not handled yet: 0 for an error, or the new path
    sent,       \* requests this process sent for a message
    answered    \* receipts handled since the first of them

rdVars == <<rd, rdMsg, rdPath>>
dmVars == <<dmPath, dmAlive, entry, locked, requested, woken, dmURL, rdVars, atPhoneDM,
            receipts, sent, answered>>

RdPC == {"idle", "download", "ask", "send", "wait", "again", "ok", "gone", "failed"}

DmTypeOK ==
    /\ dmPath \in [DmMsgs -> 1..MaxPaths] /\ dmAlive \in [DmMsgs -> 1..(MaxPaths + 1)]
    /\ {entry, requested, woken, answered} \subseteq SUBSET DmMsgs
    /\ locked \in [DmMsgs -> Readers \cup {NoReader}]
    /\ dmURL \in [DmMsgs -> 0..MaxPaths]
    /\ rd \in [Readers -> RdPC] /\ rdMsg \in [Readers -> DmMsgs] /\ rdPath \in [Readers -> 1..MaxPaths]
    /\ atPhoneDM \subseteq DmMsgs
    /\ receipts \subseteq DmMsgs \X (0..MaxPaths)
    /\ sent \in [DmMsgs -> 0..2]

DmInit ==
    /\ dmPath = [m \in DmMsgs |-> 1] /\ dmAlive = [m \in DmMsgs |-> 1]
    /\ entry = {} /\ locked = [m \in DmMsgs |-> NoReader]
    /\ requested = {} /\ woken = {} /\ dmURL = [m \in DmMsgs |-> 0]
    /\ rd = [r \in Readers |-> "idle"]
    /\ rdMsg \in [Readers -> DmMsgs] /\ rdPath = [r \in Readers |-> 1]
    /\ atPhoneDM = {} /\ receipts = {}
    /\ sent = [m \in DmMsgs |-> 0] /\ answered = {}

\* WhatsApp deletes the file.
Expire(m) ==
    /\ dmAlive[m] <= MaxPaths
    /\ dmAlive' = [dmAlive EXCEPT ![m] = @ + 1]
    /\ UNCHANGED <<dmPath, entry, locked, requested, woken, dmURL, rdVars, atPhoneDM,
                   receipts, sent, answered>>

Go(r, l) == rd' = [rd EXCEPT ![r] = l]

\* downloadMessageDirectMedia takes the keys from the database.
Open(r) ==
    /\ rd[r] \in {"idle", "ok", "gone", "failed"}
    /\ Go(r, "download")
    /\ rdPath' = [rdPath EXCEPT ![r] = dmPath[rdMsg[r]]]
    /\ UNCHANGED <<dmPath, dmAlive, entry, locked, requested, woken, dmURL, rdMsg, atPhoneDM,
                   receipts, sent, answered>>

\* The callback of makeDirectMediaResponse: DownloadToFile, and what follows on an
\* error that says the file is gone (unless the client wants no request).
Download(r) ==
    /\ rd[r] = "download"
    /\ \/ rdPath[r] >= dmAlive[rdMsg[r]] /\ Go(r, "ok")
       \/ rdPath[r] < dmAlive[rdMsg[r]] /\ (Go(r, "ask") \/ Go(r, "failed"))
    /\ UNCHANGED <<dmPath, dmAlive, entry, locked, requested, woken, dmURL, rdMsg, rdPath,
                   atPhoneDM, receipts, sent, answered>>

\* Mutant of Create: the entry is only made once the request is sent.
CreateLater(m) == UNCHANGED entry

\* getDirectMediaRetryState(create) comes before the request.
Create(m) == entry' = entry \cup {m}

\* requestDirectMedia up to sendMediaRequestDirect: one reader sends, the others
\* go on to wait.
Ask(r) ==
    LET m == rdMsg[r] IN
    /\ rd[r] = "ask" /\ locked[m] = NoReader
    /\ Create(m)
    /\ IF m \in requested
       THEN Go(r, "wait") /\ UNCHANGED locked
       ELSE Go(r, "send") /\ locked' = [locked EXCEPT ![m] = r]
    /\ UNCHANGED <<dmPath, dmAlive, requested, woken, dmURL, rdMsg, rdPath, atPhoneDM,
                   receipts, sent, answered>>

\* The request reaches the phone before or after sending it returns, and even if
\* that is reported as failed; the phone may see it twice.
GetsThrough(r) ==
    /\ rd[r] \in {"send", "wait"}
    /\ atPhoneDM' = atPhoneDM \cup {rdMsg[r]}
    /\ UNCHANGED <<dmPath, dmAlive, entry, locked, requested, woken, dmURL, rdVars, receipts,
                   sent, answered>>

Requested(m) == requested' = requested \cup {m}

\* sendMediaRequestDirect returns, and the lock is given back.
SendReturns(r, ok) ==
    LET m == rdMsg[r] IN
    /\ rd[r] = "send"
    /\ locked' = [locked EXCEPT ![m] = NoReader]
    /\ IF ok
       THEN Go(r, "wait") /\ Requested(m) /\ sent' = [sent EXCEPT ![m] = @ + 1]
       ELSE Go(r, "failed") /\ UNCHANGED <<requested, sent>>
    /\ UNCHANGED <<dmPath, dmAlive, entry, woken, dmURL, rdMsg, rdPath, atPhoneDM, receipts,
                   answered>>

\* The phone reports an error, or uploads the file to a new path.
PhoneReplies(m) ==
    /\ m \in atPhoneDM
    /\ atPhoneDM' = atPhoneDM \ {m}
    /\ \E n \in {0, dmAlive[m]} \cap 0..MaxPaths : receipts' = receipts \cup {<<m, n>>}
    /\ UNCHANGED <<dmPath, dmAlive, entry, locked, requested, woken, dmURL, rdVars, sent, answered>>

\* receiveDirectMediaRetry, under the lock of the entry if there is one.
Receive(m, n) ==
    /\ <<m, n>> \in receipts
    /\ m \in entry => locked[m] = NoReader
    /\ receipts' = receipts \ {<<m, n>>}
    /\ woken' = IF m \in entry THEN woken \cup {m} ELSE woken
    /\ dmURL' = IF m \in entry /\ n # 0 THEN [dmURL EXCEPT ![m] = n] ELSE dmURL
    /\ \/ n # 0 /\ dmPath' = [dmPath EXCEPT ![m] = n]
       \/ UNCHANGED dmPath      \* an error, or the message cannot be updated
    /\ answered' = IF m \in requested \/ locked[m] # NoReader THEN answered \cup {m} ELSE answered
    /\ UNCHANGED <<dmAlive, entry, locked, requested, rdVars, atPhoneDM, sent>>

\* requestAndWaitDirectMedia: the event, or 30 seconds, or a client that gave up.
Wake(r) ==
    /\ rd[r] = "wait" /\ rdMsg[r] \in woken
    /\ IF dmURL[rdMsg[r]] # 0
       THEN Go(r, "again") /\ rdPath' = [rdPath EXCEPT ![r] = dmURL[rdMsg[r]]]
       ELSE Go(r, "failed") /\ UNCHANGED rdPath
    /\ UNCHANGED <<dmPath, dmAlive, entry, locked, requested, woken, dmURL, rdMsg, atPhoneDM,
                   receipts, sent, answered>>

WaitOver(r) ==
    /\ rd[r] = "wait"
    /\ Go(r, "failed")
    /\ UNCHANGED <<dmPath, dmAlive, entry, locked, requested, woken, dmURL, rdMsg, rdPath,
                   atPhoneDM, receipts, sent, answered>>

\* The second download.
DownloadAgain(r) ==
    /\ rd[r] = "again"
    /\ Go(r, IF rdPath[r] >= dmAlive[rdMsg[r]] THEN "ok" ELSE "gone")
    /\ UNCHANGED <<dmPath, dmAlive, entry, locked, requested, woken, dmURL, rdMsg, rdPath,
                   atPhoneDM, receipts, sent, answered>>

DmRestart ==
    /\ entry' = {} /\ locked' = [m \in DmMsgs |-> NoReader]
    /\ requested' = {} /\ woken' = {} /\ dmURL' = [m \in DmMsgs |-> 0]
    /\ rd' = [r \in Readers |-> "idle"] /\ UNCHANGED <<rdMsg, rdPath>>
    /\ sent' = [m \in DmMsgs |-> 0] /\ answered' = {}
    /\ UNCHANGED <<dmPath, dmAlive, atPhoneDM, receipts>>

DmNext ==
    \/ DmRestart
    \/ \E m \in DmMsgs : Expire(m) \/ PhoneReplies(m) \/ \E n \in 0..MaxPaths : Receive(m, n)
    \/ \E r \in Readers :
        \/ Open(r) \/ Download(r) \/ Ask(r) \/ GetsThrough(r)
        \/ SendReturns(r, TRUE) \/ SendReturns(r, FALSE)
        \/ Wake(r) \/ WaitOver(r) \/ DownloadAgain(r)

DmSpec == DmInit /\ [][DmNext]_dmVars

-----------------------------------------------------------------------------
\* However many clients want a message's media at once, the phone is asked for it
\* once, only the reader that holds the lock is sending, and nobody who waits
\* sleeps through the answer: the receipt wakes them even if it comes before the
\* request has returned.
OneAskServesAll ==
    /\ \A m \in DmMsgs : sent[m] <= 1
    /\ \A r \in Readers : rd[r] = "send" <=> locked[rdMsg[r]] = r
    /\ \A r \in Readers : rd[r] = "wait" /\ rdMsg[r] \in answered => rdMsg[r] \in woken
=============================================================================
