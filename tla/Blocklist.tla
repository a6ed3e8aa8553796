------------------------------ MODULE Blocklist -----------------------------
(***************************************************************************)
(* The blocklist of a login (connector/handlewhatsapp.go, chatinfo.go and  *)
(* HandleMatrixBlockUser): a copy of WhatsApp's list in the login's        *)
(* metadata, and a flag on every direct chat.  The copy is compared and    *)
(* replaced under a lock; the chats' updates that follow from it are       *)
(* queued after the lock is given back.                                    *)
(***************************************************************************)
EXTENDS Naturals

CONSTANTS BlUsers,
          NoUser,
          MaxBlocks,    \* bound: changes of the list
          MayMiss       \* look-ups in the database may fail

ASSUME BlAssumption == NoUser \notin BlUsers /\ MaxBlocks \in Nat /\ MayMiss \in BOOLEAN

VARIABLES
    blServer,   \* WhatsApp's list
    blChanges,  \* how often it was changed
    blNotice,   \* a blocklist event is on its way to handleWAEvent
    blKnown,    \* meta.Blocklist is not nil, and
    blSaved,    \* what it is
    diskKnown,  \* the same in the database
    diskSaved,
    asker,      \* HandleMatrixBlockUser: the chat it works for
    answer,     \* and WhatsApp's answer, a list not saved yet
    flagged,    \* the direct chats flagged as blocked
    updates,    \* updates of flags not applied yet: <<made by, user, flag>>
    astray,     \* users whose update was lost or contradicted while it waited
    unretried,  \* those of them whom the next list's comparison takes for done
    outdated    \* the copy is older than a list that WhatsApp announced

blVars == <<blServer, blChanges, blNotice, blKnown, blSaved, diskKnown, diskSaved,
            asker, answer, flagged, updates, astray, unretried, outdated>>

Makers == {"event", "matrix", "info"}

BlTypeOK ==
    /\ {blServer, blSaved, diskSaved, answer, flagged, astray, unretried} \subseteq SUBSET BlUsers
    /\ blChanges \in 0..MaxBlocks
    /\ {blNotice, blKnown, diskKnown, outdated} \subseteq BOOLEAN
    /\ asker \in BlUsers \cup {NoUser}
    /\ updates \subseteq Makers \X BlUsers \X BOOLEAN

BlInit ==
    /\ blServer \in SUBSET BlUsers
    /\ blChanges = 0 /\ blNotice = FALSE
    /\ blKnown = FALSE /\ blSaved = {} /\ diskKnown = FALSE /\ diskSaved = {}
    /\ asker = NoUser /\ answer = {}
    /\ flagged = {} /\ updates = {} /\ astray = {} /\ unretried = {}
    /\ outdated = FALSE

\* The user blocks or unblocks somebody on the phone.
PhoneBlocks(u) ==
    /\ blChanges < MaxBlocks
    /\ blChanges' = blChanges + 1
    /\ blServer' = IF u \in blServer THEN blServer \ {u} ELSE blServer \cup {u}
    /\ blNotice' = TRUE
    /\ UNCHANGED <<blKnown, blSaved, diskKnown, diskSaved, asker, answer, flagged,
                   updates, astray, unretried, outdated>>

-----------------------------------------------------------------------------
Named(es) == {e[2] : e \in es}

\* Updates that still wait and contradict the list: they may be applied after newer ones,
\* or no newer one is made because the flag is still as it was.
Contradicted(list) == Named({o \in updates : o[3] # (o[2] \in list)})

\* An update by itself is queued.
Queue(list, new) ==
    /\ updates' = updates \cup new
    /\ astray' = (astray \ Named(new)) \cup Contradicted(list)
    /\ unretried' = unretried \ Named(new)

\* Mutant of Diff: an unblock is only looked for in the copy, which may be older
\* than the flags.
DiffSaved(maker, list, seen) ==
       {<<maker, u, FALSE>> : u \in blSaved \ list}
  \cup {<<maker, u, TRUE>> : u \in list \ (blSaved \cup seen)}

\* saveBlocklistUnlocked: the copy and the flagged chats seen in the database against
\* the new list.
Diff(maker, list, seen) ==
       {<<maker, u, FALSE>> : u \in (blSaved \cup seen) \ list}
  \cup {<<maker, u, TRUE>> : u \in list \ (blSaved \cup seen)}

\* What GetAllBlockedDMsOf may bring: an error is only logged.
Looks == {flagged} \cup (IF MayMiss THEN {{}} ELSE {})

\* The updates of es that makeBlockUpdateEvent may drop: there is no LID for the user, or it
\* cannot be looked up.
Drops(es) == IF MayMiss THEN SUBSET es ELSE {{}}

\* What becomes of the updates missed before when the list is compared with what was seen:
\* the comparison repairs them, but for users that both the copy and the list block: a
\* block is taken for done if the copy has it.
NewList(list, seen, made, lost) ==
    IF seen = flagged
    THEN /\ astray' = Contradicted(list) \cup Named(lost)
         /\ unretried' = ((astray \cup unretried) \cap blSaved \cap list)
                          \ (flagged \cup Named(updates \cup made))
    ELSE /\ astray' = (astray \ Named(made)) \cup Contradicted(list) \cup Named(lost)
                          \cup (flagged \ (blSaved \cup list))
         /\ unretried' = unretried \ Named(made)

\* meta.Blocklist is replaced; saving it may fail.
SaveList(list) ==
    /\ blKnown' = TRUE
    /\ blSaved' = list
    /\ \/ diskKnown' = TRUE /\ diskSaved' = list
       \/ UNCHANGED <<diskKnown, diskSaved>>

\* resyncBlocklistUnlocked under the lock: GetBlocklist answers with nothing if
\* the list is the one we have.
ResyncList(maker, more) ==
    IF blKnown /\ blSaved = blServer
    THEN /\ Queue(blSaved, more)
         /\ UNCHANGED <<blKnown, blSaved, diskKnown, diskSaved, outdated>>
    ELSE /\ \E seen \in Looks : \E lost \in Drops(Diff(maker, blServer, seen)) :
              LET made == (Diff(maker, blServer, seen) \ lost) \cup more IN
              /\ updates' = updates \cup made
              /\ NewList(blServer, seen, made, lost)
         /\ SaveList(blServer)
         /\ outdated' = FALSE

\* handleWAEvent with a blocklist event.  The handler runs the updates before the
\* next event is handled; if the list cannot be had the event counts as handled.
HandleNotice ==
    /\ blNotice
    /\ \A e \in updates : e[1] # "event"
    /\ blNotice' = FALSE
    /\ \/ ResyncList("event", {})
       \/ /\ outdated' = TRUE
          /\ UNCHANGED <<blKnown, blSaved, diskKnown, diskSaved, updates, astray, unretried>>
    /\ UNCHANGED <<blServer, blChanges, asker, answer, flagged>>

\* isUserBlocked for the chat info of u, fetching the list if there is none;
\* without a list the chat info leaves the flag alone.
GetInfo(u) ==
    /\ IF blKnown
       THEN /\ LET e == <<"info", u, u \in blSaved>> IN Queue(blSaved, {e})
            /\ UNCHANGED <<blKnown, blSaved, diskKnown, diskSaved, outdated>>
       ELSE ResyncList("info", {<<"info", u, u \in blServer>>})
    /\ UNCHANGED <<blServer, blChanges, blNotice, asker, answer, flagged>>

\* HandleMatrixBlockUser: UpdateBlocklist answers with the whole list.
MatrixBlocks(u) ==
    /\ asker = NoUser /\ blChanges < MaxBlocks
    /\ blChanges' = blChanges + 1
    /\ blServer' = IF u \in blServer THEN blServer \ {u} ELSE blServer \cup {u}
    /\ asker' = u
    /\ answer' = blServer'
    /\ UNCHANGED <<blNotice, blKnown, blSaved, diskKnown, diskSaved, flagged, updates,
                   astray, unretried, outdated>>

\* Then the answer is saved under the lock, and the chats other than this one
\* get their updates; this one is flagged by the framework.
MatrixSaves ==
    /\ asker # NoUser
    /\ \E seen \in Looks :
         LET others == {e \in Diff("matrix", answer, seen) : e[2] # asker}
             own == <<"matrix", asker, asker \in answer>>
         IN \E lost \in Drops(others) :
              /\ updates' = updates \cup (others \ lost)
              /\ NewList(answer, seen, (others \ lost) \cup {own}, lost)
    /\ flagged' = (flagged \ {asker}) \cup (answer \cap {asker})
    /\ SaveList(answer)
    /\ outdated' = (answer # blServer)
    /\ asker' = NoUser /\ answer' = {}
    /\ UNCHANGED <<blServer, blChanges, blNotice>>

\* An update is queued and the chat's event loop applies it.
Apply(e) ==
    /\ e \in updates
    /\ updates' = updates \ {e}
    /\ flagged' = IF e[3] THEN flagged \cup {e[2]} ELSE flagged \ {e[2]}
    /\ UNCHANGED <<blServer, blChanges, blNotice, blKnown, blSaved, diskKnown, diskSaved,
                   asker, answer, astray, unretried, outdated>>

\* It cannot be queued.  The event handler gives up the rest and WhatsApp
\* delivers its event again; the other makers go on.
ApplyFails(e) ==
    /\ e \in updates
    /\ LET gone == IF e[1] = "event" THEN {o \in updates : o[1] = "event"} ELSE {e} IN
       /\ updates' = updates \ gone
       /\ astray' = astray \cup {o[2] : o \in gone}
    /\ blNotice' = (blNotice \/ e[1] = "event")
    /\ UNCHANGED <<blServer, blChanges, blKnown, blSaved, diskKnown, diskSaved, asker,
                   answer, flagged, unretried, outdated>>

\* The process is started again: a list that could not be saved is gone, and those it no
\* longer had are taken for flagged.
BlRestart ==
    /\ blKnown' = diskKnown /\ blSaved' = diskSaved
    /\ asker' = NoUser /\ answer' = {}
    /\ updates' = {}
    /\ astray' = astray \cup {e[2] : e \in updates} \cup ({asker} \ {NoUser})
                        \cup (diskSaved \ blSaved)
    /\ outdated' = (outdated \/ asker # NoUser \/ diskSaved # blSaved)
    /\ UNCHANGED <<blServer, blChanges, blNotice, diskKnown, diskSaved, flagged, unretried>>

BlNext ==
    \/ HandleNotice \/ MatrixSaves \/ BlRestart
    \/ \E u \in BlUsers : PhoneBlocks(u) \/ GetInfo(u) \/ MatrixBlocks(u)
    \/ \E e \in Makers \X BlUsers \X BOOLEAN : Apply(e) \/ ApplyFails(e)

BlSpec == BlInit /\ [][BlNext]_blVars

-----------------------------------------------------------------------------
\* Once everything announced was handled, a chat is flagged as blocked exactly if
\* WhatsApp blocks its user, whoever made the last change, over failures and
\* restarts.  The exceptions: an answer to Matrix saved after a newer list, a list that
\* could not be had, and updates that were lost (with a list that could not be saved,
\* too) or contradicted by a newer list before they were applied.  The last end with the
\* next list that is compared with the flags in the database, which repairs a missed
\* unblock; a missed block stays missed (MissedRetried).
FlagsFollowList ==
    blKnown /\ ~blNotice /\ asker = NoUser /\ ~outdated =>
        \A u \in BlUsers \ (astray \cup unretried) :
            (\A e \in updates : e[2] # u) => (u \in flagged <=> u \in blServer)

\* "fetch all blocked DM portals from the database to ensure any missed updates are
\* retried" (saveBlocklistUnlocked): nobody's missed update is left out by the comparison
\* of a later list with the flags.  It is, for a block that the copy of the list has.
MissedRetried == unretried = {}
=============================================================================
