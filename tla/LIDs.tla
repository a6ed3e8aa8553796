--------------------------------- MODULE LIDs -------------------------------
(***************************************************************************)
(* connector/lidmigrate.go: moving direct chats from phone numbers to      *)
(* LIDs.  At a start all chats whose LID is known are moved and the others *)
(* are remembered in memory; an event of one of these moves its chat once  *)
(* the LID is known.  The process may stop or a step may fail anywhere;    *)
(* which LIDs are known only grows.                                        *)
(***************************************************************************)
EXTENDS Naturals

CONSTANTS Contacts,
          NoContact,
          MaxLidStops   \* bound: stops and failures

ASSUME LidAssumption == NoContact \notin Contacts /\ MaxLidStops \in Nat

VARIABLES
    known,      \* people whose LID is in the LID map
    pnRoom,     \* people with a portal under their number
    lidRoom,    \* people with a portal under their LID
    lidOther,   \* those of the latter whose OtherUserID and member is the LID's ghost
    phase,      \* the process: down, in migrateToLIDDMs, up; or up in background mode
    migrated,   \* whatsapp_lid_dms_migrated
    todo,       \* portals migrateToLIDDMs has not come to
    unmigrated, \* unmigratedDMs
    swapping,   \* the portal that was moved and whose ghosts are being changed
    lidStops,   \* stops and failures so far
    blind,      \* people with a number's portal that is not in unmigratedDMs: made
                \* after the start, or by a process that was not in background mode
    aside,      \* people with two portals, one made without a look at unmigratedDMs or
                \* before the LID was known
    torn        \* people with a portal moved without its ghosts

lidVars == <<known, pnRoom, lidRoom, lidOther, phase, migrated, todo, unmigrated, swapping,
             lidStops, blind, aside, torn>>

LidTypeOK ==
    /\ {known, pnRoom, lidRoom, lidOther, todo, unmigrated, blind, aside, torn} \subseteq SUBSET Contacts
    /\ phase \in {"down", "migrating", "up", "background"}
    /\ migrated \in BOOLEAN
    /\ swapping \in Contacts \cup {NoContact}
    /\ lidStops \in 0..MaxLidStops

\* The bridge was upgraded from a version that knew no LIDs.
LidInit ==
    /\ known \in SUBSET Contacts /\ pnRoom \in SUBSET Contacts
    /\ lidRoom = {} /\ lidOther = {}
    /\ phase = "down" /\ migrated = FALSE
    /\ todo = {} /\ unmigrated = {} /\ swapping = NoContact /\ lidStops = 0
    /\ blind = {} /\ aside = {} /\ torn = {}

\* whatsmeow learns a LID, from a message or a query.
Learn(p) ==
    /\ p \notin known
    /\ known' = known \cup {p}
    /\ UNCHANGED <<pnRoom, lidRoom, lidOther, phase, migrated, todo, unmigrated, swapping,
                   lidStops, blind, aside, torn>>

\* Bridge.ReIDPortal: the portal gets its new ID if there is none with it, or
\* else its room is replaced by that one's.
ReIDPortal(p) ==
    /\ pnRoom' = pnRoom \ {p}
    /\ blind' = blind \ {p} /\ aside' = aside \ {p}
    /\ lidRoom' = lidRoom \cup {p}
    /\ swapping' = IF p \in lidRoom THEN NoContact ELSE p

\* The rest of reIDPhoneDMToLID: the one ghost leaves, the other is invited and
\* joins, and the portal is saved.  The first error ends it; during the start
\* it ends the process, too.
SwapGhosts ==
    /\ swapping # NoContact
    /\ swapping' = NoContact
    /\ lidOther' = lidOther \cup {swapping}
    /\ UNCHANGED <<known, pnRoom, lidRoom, phase, migrated, todo, unmigrated, lidStops,
                   blind, aside, torn>>

SwapFails ==
    /\ swapping # NoContact
    /\ lidStops < MaxLidStops /\ lidStops' = lidStops + 1
    /\ swapping' = NoContact
    /\ torn' = torn \cup {swapping}
    /\ IF phase = "migrating"
       THEN phase' = "down" /\ todo' = {} /\ unmigrated' = {}
       ELSE UNCHANGED <<phase, todo, unmigrated>>
    /\ UNCHANGED <<known, pnRoom, lidRoom, lidOther, migrated, blind, aside>>

-----------------------------------------------------------------------------
\* WhatsAppConnector.Start and migrateToLIDDMs.
StartProcess ==
    /\ phase = "down"
    /\ phase' = "migrating"
    /\ todo' = pnRoom
    /\ blind' = {}
    /\ UNCHANGED <<known, pnRoom, lidRoom, lidOther, migrated, unmigrated, swapping, lidStops,
                   aside, torn>>

StartBackground ==
    /\ phase = "down" /\ migrated
    /\ phase' = "background"
    /\ blind' = pnRoom
    /\ UNCHANGED <<known, pnRoom, lidRoom, lidOther, migrated, todo, unmigrated, swapping,
                   lidStops, aside, torn>>

\* Mutant of Remember: chats without a LID are only left alone.
RememberNot(p) == UNCHANGED unmigrated

Remember(p) == unmigrated' = unmigrated \cup {p}

MigrateNext(p) ==
    /\ phase = "migrating" /\ swapping = NoContact /\ p \in todo
    /\ todo' = todo \ {p}
    /\ IF p \in known
       THEN ReIDPortal(p) /\ UNCHANGED unmigrated
       ELSE Remember(p) /\ UNCHANGED <<pnRoom, lidRoom, swapping, blind, aside>>
    /\ UNCHANGED <<known, lidOther, phase, migrated, lidStops, torn>>

MigrateDone ==
    /\ phase = "migrating" /\ swapping = NoContact /\ todo = {}
    /\ phase' = "up" /\ migrated' = TRUE
    /\ UNCHANGED <<known, pnRoom, lidRoom, lidOther, todo, unmigrated, swapping, lidStops,
                   blind, aside, torn>>

LidStop ==
    /\ phase # "down"
    /\ lidStops < MaxLidStops /\ lidStops' = lidStops + 1
    /\ phase' = "down" /\ todo' = {} /\ unmigrated' = {} /\ swapping' = NoContact
    /\ torn' = IF swapping = NoContact THEN torn ELSE torn \cup {swapping}
    /\ UNCHANGED <<known, pnRoom, lidRoom, lidOther, migrated, blind, aside>>

-----------------------------------------------------------------------------
Running == phase \in {"up", "background"} /\ swapping = NoContact

\* A portal under the LID is made if there is none.
LidPortal(p) ==
    /\ lidRoom' = lidRoom \cup {p}
    /\ lidOther' = IF p \in lidRoom THEN lidOther ELSE lidOther \cup {p}

\* reIDPhoneDMToLIDIfNeeded: only the chats that were remembered are looked at.
ReIDNeeded(p) == p \in unmigrated /\ p \in pnRoom

\* ensureAltJIDs, checkAllPhonesInMessage and GetPortalKey: handleWAMessage with the
\* number, the LID or both.  If the LID cannot be looked up the message is refused and comes again.
MessageFrom(p, hasPN, hasLID) ==
    /\ Running /\ (hasPN \/ hasLID)
    /\ known' = IF hasPN /\ hasLID THEN known \cup {p} ELSE known
    /\ IF hasPN /\ p \in known' /\ ReIDNeeded(p)
       THEN ReIDPortal(p) /\ UNCHANGED lidOther
       ELSE /\ IF hasLID \/ p \in known'
               THEN /\ LidPortal(p)
                    /\ aside' = IF ~hasPN /\ p \in pnRoom THEN aside \cup {p} ELSE aside
                    /\ UNCHANGED <<pnRoom, blind>>
               ELSE /\ pnRoom' = pnRoom \cup {p}
                    /\ blind' = IF p \in pnRoom THEN blind ELSE blind \cup {p}
                    /\ aside' = IF p \in lidRoom THEN aside \cup {p} ELSE aside
                    /\ UNCHANGED <<lidRoom, lidOther>>
            /\ UNCHANGED swapping
    /\ UNCHANGED <<phase, migrated, todo, unmigrated, lidStops, torn>>

\* startChatPNToLID: WhatsApp is asked for a LID that is not known.
StartChat(p) ==
    /\ Running
    /\ LidPortal(p)
    /\ aside' = IF p \in pnRoom THEN aside \cup {p} ELSE aside
    /\ UNCHANGED <<known, pnRoom, phase, migrated, todo, unmigrated, swapping, lidStops, blind, torn>>

\* handleWADeleteChat with a number: the portal is the LID's if it is known.
DeleteChat(p) ==
    /\ Running
    /\ IF p \in known
       THEN /\ p \in lidRoom /\ lidRoom' = lidRoom \ {p} /\ lidOther' = lidOther \ {p}
            /\ torn' = torn \ {p} /\ aside' = aside \ {p}
            /\ UNCHANGED <<pnRoom, blind>>
       ELSE /\ p \in pnRoom /\ pnRoom' = pnRoom \ {p} /\ blind' = blind \ {p}
            /\ UNCHANGED <<lidRoom, lidOther, torn, aside>>
    /\ UNCHANGED <<known, phase, migrated, todo, unmigrated, swapping, lidStops>>

\* wrapDMInfo: any resync of the chat sets its member and OtherUserID.
ResyncDM(p) ==
    /\ Running /\ p \in lidRoom
    /\ lidOther' = lidOther \cup {p} /\ torn' = torn \ {p}
    /\ UNCHANGED <<known, pnRoom, lidRoom, phase, migrated, todo, unmigrated, swapping,
                   lidStops, blind, aside>>

LidNext ==
    \/ StartProcess \/ StartBackground \/ MigrateDone \/ LidStop \/ SwapGhosts \/ SwapFails
    \/ \E p \in Contacts :
        \/ Learn(p) \/ MigrateNext(p) \/ StartChat(p) \/ DeleteChat(p) \/ ResyncDM(p)
        \/ \E hasPN, hasLID \in BOOLEAN : MessageFrom(p, hasPN, hasLID)

LidSpec == LidInit /\ [][LidNext]_lidVars

-----------------------------------------------------------------------------
\* While the bridge runs, every person whose LID is known has one room, under the
\* LID and with the LID's ghost, or one that the next message moves there,
\* through stops, failures and LIDs learnt at any time.  The exceptions: portals made
\* under a number after the start, or met in background mode, are moved only by
\* the next start; a message without the number, or with a number whose LID is not
\* known, or starting a chat may make a second room; and a portal whose ghosts could not be changed is not tried again.
OneRoomPerPerson ==
    Running =>
        /\ pnRoom \cap known \subseteq unmigrated \cup blind
        /\ pnRoom \cap lidRoom \subseteq blind \cup aside
        /\ lidRoom \ lidOther \subseteq torn
=============================================================================
