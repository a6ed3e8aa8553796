-------------------------- MODULE ConnectorProofs ---------------------------
(***************************************************************************)
(* The parts that Connector composes: the invariants of the move to LIDs,  *)
(* the blocklist, groups, the connection and albums (those of the other    *)
(* parts are in RequestProofs), and of all the parts side by side.         *)
(***************************************************************************)
EXTENDS Connector, RequestProofs, FiniteSetTheorems, WellFoundedInduction, TLAPS

(* The move of direct chats to LIDs, for any number of contacts, stops and
   failures. *)

\* The lists in memory go with the process, and the list of portals to look at
\* belongs to migrateToLIDDMs.
MemoryOK ==
    /\ phase = "down" => unmigrated = {} /\ swapping = NoContact
    /\ phase # "migrating" => todo = {}

\* Every portal under a number is still to be looked at, or remembered, or one of
\* those that only the next start looks at.
NumbersKept ==
    /\ phase = "migrating" => pnRoom \subseteq todo \cup unmigrated
    /\ phase \in {"up", "background"} => pnRoom \subseteq unmigrated \cup blind

\* Two portals of a person: made aside, or to be merged since the LID is known.
PairsMerge ==
    /\ pnRoom \cap lidRoom \subseteq known \cup aside
    /\ phase = "migrating" => pnRoom \cap lidRoom \subseteq todo \cup aside
    /\ phase \in {"up", "background"} => pnRoom \cap lidRoom \subseteq blind \cup aside

\* A portal under a LID has the LID's ghost, or gets it now, or was torn.
GhostsFollow == lidRoom \ lidOther \subseteq torn \cup {swapping}

LidInv == LidTypeOK /\ MemoryOK /\ NumbersKept /\ PairsMerge /\ GhostsFollow

LEMMA LidStarts == LidInit => LidInv
<1> SUFFICES ASSUME LidInit PROVE LidInv
  OBVIOUS
<1>1. LidTypeOK
  <2>1. {known, pnRoom, lidRoom, lidOther, todo, unmigrated, blind, aside, torn} \subseteq SUBSET Contacts
    BY Zenon DEF LidInit
  <2>2. migrated \in BOOLEAN
    BY Zenon DEF LidInit
  <2>3. /\ phase \in {"down", "migrating", "up", "background"}
        /\ swapping \in Contacts \cup {NoContact}
        /\ lidStops \in 0..MaxLidStops
    BY LidAssumption DEF LidInit
  <2> QED
    BY <2>1, <2>2, <2>3 DEF LidTypeOK
<1>2. MemoryOK /\ NumbersKept /\ PairsMerge /\ GhostsFollow
  BY DEF LidInit, MemoryOK, NumbersKept, PairsMerge, GhostsFollow
<1> QED
  BY <1>1, <1>2 DEF LidInv

LEMMA LidImplies == LidInv => OneRoomPerPerson
  BY LidAssumption DEF LidInv, LidTypeOK, NumbersKept, PairsMerge, GhostsFollow, OneRoomPerPerson, Running

\* A message, which may move its chat, make a portal, or do neither.
LEMMA MessageKeeps ==
    ASSUME LidInv, NEW p \in Contacts, NEW hasPN \in BOOLEAN, NEW hasLID \in BOOLEAN,
           MessageFrom(p, hasPN, hasLID)
    PROVE  LidInv'
<1> USE LidAssumption DEF LidInv, LidTypeOK, MemoryOK, NumbersKept, PairsMerge, GhostsFollow
<1>1. CASE hasPN /\ p \in known' /\ ReIDNeeded(p)
  BY <1>1 DEF MessageFrom, Running, ReIDPortal
<1>2. CASE ~(hasPN /\ p \in known' /\ ReIDNeeded(p)) /\ (hasLID \/ p \in known')
  BY <1>2 DEF MessageFrom, Running, LidPortal, ReIDNeeded
<1>3. CASE ~(hasPN /\ p \in known' /\ ReIDNeeded(p)) /\ ~(hasLID \/ p \in known')
  BY <1>3 DEF MessageFrom, Running
<1> QED BY <1>1, <1>2, <1>3

LEMMA LidKeeps == LidInv /\ [LidNext]_lidVars => LidInv'
<1> SUFFICES ASSUME LidInv, [LidNext]_lidVars PROVE LidInv'
  OBVIOUS
<1> USE LidAssumption DEF LidInv, LidTypeOK, MemoryOK, NumbersKept, PairsMerge, GhostsFollow
<1>1. CASE StartProcess
  BY <1>1 DEF StartProcess
<1>2. CASE StartBackground
  BY <1>2 DEF StartBackground
<1>3. CASE MigrateDone
  BY <1>3 DEF MigrateDone
<1>4. CASE LidStop
  BY <1>4 DEF LidStop
<1>5. CASE SwapGhosts
  BY <1>5 DEF SwapGhosts
<1>6. CASE SwapFails
  BY <1>6 DEF SwapFails
<1>7. ASSUME NEW p \in Contacts, Learn(p) PROVE LidInv'
  BY <1>7 DEF Learn
<1>8. ASSUME NEW p \in Contacts, MigrateNext(p) PROVE LidInv'
  <2>1. CASE p \in known
    BY <1>8, <2>1 DEF MigrateNext, ReIDPortal
  <2>2. CASE p \notin known
    BY <1>8, <2>2 DEF MigrateNext, Remember
  <2> QED BY <2>1, <2>2
<1>9. ASSUME NEW p \in Contacts, StartChat(p) PROVE LidInv'
  BY <1>9 DEF StartChat, Running, LidPortal
<1>10. ASSUME NEW p \in Contacts, DeleteChat(p) PROVE LidInv'
  BY <1>10 DEF DeleteChat, Running
<1>11. ASSUME NEW p \in Contacts, ResyncDM(p) PROVE LidInv'
  BY <1>11 DEF ResyncDM, Running
<1>12. ASSUME NEW p \in Contacts, NEW hasPN \in BOOLEAN, NEW hasLID \in BOOLEAN,
              MessageFrom(p, hasPN, hasLID)
       PROVE  LidInv'
  BY <1>12, MessageKeeps
<1>13. CASE UNCHANGED lidVars
  BY <1>13 DEF lidVars
<1> QED
  BY <1>1, <1>2, <1>3, <1>4, <1>5, <1>6, <1>7, <1>8, <1>9, <1>10, <1>11, <1>12, <1>13 DEF LidNext

\* For any contacts, and over any number of stops and failures, a person whose LID is
\* known has one room under it while the bridge runs, or one that the next
\* message moves (migrateToLIDDMs and reIDPhoneDMToLIDIfNeeded).
THEOREM PeopleHaveOneRoom == LidSpec => []OneRoomPerPerson
<1>1. LidSpec => []LidInv
  BY LidStarts, LidKeeps, PTL DEF LidSpec
<1> QED
  BY <1>1, LidImplies, PTL

-----------------------------------------------------------------------------
(* The blocklist and the flags of the chats, for any users and any number of changes. *)

\* The part of BlTypeOK that the argument needs.
ListsOK ==
    /\ {blServer, blSaved, diskSaved, answer, flagged} \subseteq SUBSET BlUsers
    /\ asker \in BlUsers \cup {NoUser}
    /\ updates \subseteq Makers \X BlUsers \X BOOLEAN

\* The copies, and when the one in memory is WhatsApp's list.
CopiesOK ==
    /\ diskKnown => blKnown
    /\ ~blKnown => blSaved = {}
    /\ ~diskKnown => diskSaved = {}
    /\ blKnown /\ ~outdated /\ ~blNotice /\ asker = NoUser => blSaved = blServer

Waits(u) == \E e \in updates : e[2] = u

\* Those whose flags are known to differ.
Missed == astray \cup unretried

\* Unless u is one of them: the updates that wait are the copy's, and without one u is
\* flagged if the copy has it, and only then if the copy is not outdated.
FlagsOK ==
    \A u \in BlUsers \ Missed :
        /\ \A e \in updates : e[2] = u => e[3] = (u \in blSaved)
        /\ ~Waits(u) => /\ u \in blSaved => u \in flagged
                        /\ blKnown /\ ~outdated /\ u \in flagged => u \in blSaved

BlInv == ListsOK /\ CopiesOK /\ FlagsOK

LEMMA BlStarts == BlInit => BlInv
  BY BlAssumption DEF BlInit, BlInv, ListsOK, CopiesOK, FlagsOK, Waits

LEMMA BlImplies == BlInv => FlagsFollowList
  BY DEF BlInv, ListsOK, CopiesOK, FlagsOK, FlagsFollowList, Waits, Missed

\* Who is not missed after updates were queued: nothing for him waits that contradicts the
\* list, and he was not missed before or gets a new update.
LEMMA QueueEffect ==
    ASSUME NEW list, NEW new, Queue(list, new), NEW u, u \notin Missed'
    PROVE  /\ updates' = updates \cup new
           /\ \A o \in updates : o[2] = u => o[3] = (u \in list)
           /\ u \in Missed => \E n \in new : n[2] = u
  BY DEF Queue, Missed, Contradicted, Named

\* The updates for the difference are the new list's; who gets none is on the list
\* exactly if he is on the copy or was seen flagged.
LEMMA DiffEffect ==
    ASSUME NEW maker \in Makers, NEW list \in SUBSET BlUsers, NEW seen \in Looks, ListsOK
    PROVE  /\ Diff(maker, list, seen) \subseteq Makers \X BlUsers \X BOOLEAN
           /\ \A e \in Diff(maker, list, seen) : e[3] = (e[2] \in list)
           /\ \A u \in BlUsers : (\A e \in Diff(maker, list, seen) : e[2] # u)
                                   => (u \in list <=> u \in blSaved \cup seen)
<1>1. ASSUME NEW e \in Diff(maker, list, seen)
      PROVE  e \in Makers \X BlUsers \X BOOLEAN /\ e[3] = (e[2] \in list)
  <2>1. ASSUME NEW u \in BlUsers, NEW b \in BOOLEAN, e = <<maker, u, b>>, b = (u \in list)
        PROVE  e \in Makers \X BlUsers \X BOOLEAN /\ e[3] = (e[2] \in list)
    BY <2>1
  <2>2. CASE \E u \in (blSaved \cup seen) \ list : e = <<maker, u, FALSE>>
    <3>1. PICK u \in BlUsers : u \notin list /\ e = <<maker, u, FALSE>>
      BY <2>2 DEF ListsOK, Looks
    <3>2. FALSE \in BOOLEAN /\ FALSE = (u \in list)
      BY <3>1
    <3> QED BY <2>1, <3>1, <3>2
  <2>3. CASE \E u \in list \ (blSaved \cup seen) : e = <<maker, u, TRUE>>
    <3>1. PICK u \in BlUsers : u \in list /\ e = <<maker, u, TRUE>>
      BY <2>3
    <3>2. TRUE \in BOOLEAN /\ TRUE = (u \in list)
      BY <3>1
    <3> QED BY <2>1, <3>1, <3>2
  <2> QED BY <1>1, <2>2, <2>3 DEF Diff
<1>2. ASSUME NEW u \in BlUsers, \A e \in Diff(maker, list, seen) : e[2] # u
      PROVE  u \in list <=> u \in blSaved \cup seen
  <2>1. u \in (blSaved \cup seen) \ list => <<maker, u, FALSE>> \in Diff(maker, list, seen)
    BY DEF Diff
  <2>2. u \in list \ (blSaved \cup seen) => <<maker, u, TRUE>> \in Diff(maker, list, seen)
    BY DEF Diff
  <2> QED BY <1>2, <2>1, <2>2
<1> QED BY <1>1, <1>2

\* After a new list was compared with the flags, or with the copy alone: who is not missed
\* has no update waiting that contradicts the list, and who gets none is flagged as the
\* list says, if his part of the difference D was neither dropped nor left out.
LEMMA NewListEffect ==
    ASSUME BlInv, NEW list \in SUBSET BlUsers, NEW seen \in Looks, NEW made, NEW lost,
           NewList(list, seen, made, lost), NEW u \in BlUsers, u \notin Missed',
           (\A n \in made \cup lost : n[2] # u) => (u \in list <=> u \in blSaved \cup seen)
    PROVE  /\ \A o \in updates : o[2] = u => o[3] = (u \in list)
           /\ ~Waits(u) /\ (\A n \in made : n[2] # u) => (u \in list <=> u \in flagged)
<1>1. \A o \in updates : o[2] = u => o[3] = (u \in list)
  BY DEF NewList, Missed, Contradicted, Named
<1>2. \A n \in lost : n[2] # u
  BY DEF NewList, Missed, Named
<1>3. ASSUME ~Waits(u), \A n \in made : n[2] # u
      PROVE  u \in list <=> u \in flagged
  <2>1. u \in list <=> u \in blSaved \cup seen
    BY <1>2, <1>3
  <2>2. u \notin Missed => (u \in blSaved => u \in flagged)
    BY <1>3 DEF BlInv, FlagsOK
  <2>3. CASE seen = flagged
    <3>1. u \in Missed /\ u \in blSaved /\ u \in list => u \in flagged
      BY <1>3, <2>3 DEF NewList, Missed, Named, Waits
    <3> QED BY <2>1, <2>2, <2>3, <3>1
  <2>4. CASE seen # flagged
    <3>1. seen = {}
      BY <2>4 DEF Looks
    <3>2. u \notin Missed /\ ~(u \in flagged \ (blSaved \cup list))
      BY <1>3, <2>4 DEF NewList, Missed, Named
    <3> QED BY <2>1, <2>2, <3>1, <3>2
  <2> QED BY <2>3, <2>4
<1> QED BY <1>1, <1>3

\* resyncBlocklistUnlocked: the copy is WhatsApp's list after it, and the flags follow.
LEMMA ResyncKeeps ==
    ASSUME BlInv, NEW maker \in Makers, NEW more \in SUBSET (Makers \X BlUsers \X BOOLEAN),
           \A e \in more : e[3] = (e[2] \in blServer), ResyncList(maker, more),
           UNCHANGED <<blServer, flagged, asker, answer>>
    PROVE  BlInv'
<1> USE DEF BlInv
<1>1. CASE blKnown /\ blSaved = blServer
  <2>1. Queue(blSaved, more) /\ UNCHANGED <<blKnown, blSaved, diskKnown, diskSaved, outdated>>
    BY <1>1 DEF ResyncList
  <2>2. updates' = updates \cup more
    BY <2>1 DEF Queue
  <2>3. ListsOK' /\ CopiesOK'
    BY <1>1, <2>1, <2>2 DEF ListsOK, CopiesOK
  <2>4. ASSUME NEW u \in BlUsers, u \notin Missed'
        PROVE  /\ \A e \in updates' : e[2] = u => e[3] = (u \in blSaved')
               /\ ~Waits(u)' => /\ u \in blSaved' => u \in flagged'
                                /\ blKnown' /\ ~outdated' /\ u \in flagged' => u \in blSaved'
    <3>1. /\ \A o \in updates : o[2] = u => o[3] = (u \in blSaved)
          /\ u \in Missed => \E n \in more : n[2] = u
      BY <2>1, <2>4, QueueEffect
    <3>2. \A e \in more : e[2] = u => e[3] = (u \in blSaved)
      BY <1>1
    <3>3. ~Waits(u)' => ~Waits(u) /\ \A n \in more : n[2] # u
      BY <2>2 DEF Waits
    <3> QED BY <2>1, <2>2, <3>1, <3>2, <3>3 DEF FlagsOK
  <2> QED BY <2>3, <2>4 DEF FlagsOK
<1>2. CASE ~(blKnown /\ blSaved = blServer)
  <2>0. PICK seen \in Looks : \E lost \in Drops(Diff(maker, blServer, seen)) :
          LET made == (Diff(maker, blServer, seen) \ lost) \cup more IN
          /\ updates' = updates \cup made
          /\ NewList(blServer, seen, made, lost)
    BY <1>2 DEF ResyncList
  <2> DEFINE D == Diff(maker, blServer, seen)
  <2>1. PICK lost \in Drops(D) :
          LET made == (D \ lost) \cup more IN
          /\ updates' = updates \cup made
          /\ NewList(blServer, seen, made, lost)
    BY <2>0
  <2> DEFINE made == (D \ lost) \cup more
  <2>2. SaveList(blServer) /\ outdated' = FALSE /\ blSaved' = blServer /\ blKnown' = TRUE
    BY <1>2 DEF ResyncList, SaveList
  <2>3. /\ D \subseteq Makers \X BlUsers \X BOOLEAN
        /\ \A e \in D : e[3] = (e[2] \in blServer)
        /\ \A u \in BlUsers : (\A e \in D : e[2] # u)
                                => (u \in blServer <=> u \in blSaved \cup seen)
    BY DiffEffect DEF ListsOK
  <2>4. updates' = updates \cup made /\ NewList(blServer, seen, made, lost)
    BY <2>1
  <2> HIDE DEF D
  <2>5. D \subseteq made \cup lost
    OBVIOUS
  <2>6. made \subseteq Makers \X BlUsers \X BOOLEAN /\ \A e \in made : e[3] = (e[2] \in blServer)
    BY <2>3
  <2> HIDE DEF made
  <2>7. ListsOK'
    BY <2>2, <2>4, <2>6 DEF ListsOK, SaveList
  <2>8. CopiesOK'
    BY <2>2 DEF CopiesOK, SaveList
  <2>9. ASSUME NEW u \in BlUsers, u \notin Missed'
        PROVE  /\ \A e \in updates' : e[2] = u => e[3] = (u \in blServer)
               /\ ~Waits(u)' => (u \in blServer <=> u \in flagged)
    <3>1. blServer \in SUBSET BlUsers
      BY DEF ListsOK
    <3>2. (\A n \in made \cup lost : n[2] # u) => (u \in blServer <=> u \in blSaved \cup seen)
      BY <2>3, <2>5
    <3>3. /\ \A o \in updates : o[2] = u => o[3] = (u \in blServer)
          /\ ~Waits(u) /\ (\A n \in made : n[2] # u) => (u \in blServer <=> u \in flagged)
      BY <2>4, <2>9, <3>1, <3>2, NewListEffect, SMTT(30)
    <3>4. ~Waits(u)' => ~Waits(u) /\ \A n \in made : n[2] # u
      BY <2>4 DEF Waits
    <3> QED BY <2>4, <2>6, <3>3, <3>4
  <2> QED BY <2>2, <2>7, <2>8, <2>9 DEF FlagsOK
<1> QED BY <1>1, <1>2

LEMMA MatrixSavesKeeps == ASSUME BlInv, MatrixSaves PROVE BlInv'
<1> USE DEF BlInv
<1>1. PICK seen \in Looks :
        LET others == {e \in Diff("matrix", answer, seen) : e[2] # asker}
            own == <<"matrix", asker, asker \in answer>>
        IN \E lost \in Drops(others) :
             /\ updates' = updates \cup (others \ lost)
             /\ NewList(answer, seen, (others \ lost) \cup {own}, lost)
  BY DEF MatrixSaves
<1> DEFINE D == Diff("matrix", answer, seen)
           others == {e \in D : e[2] # asker}
           own == <<"matrix", asker, asker \in answer>>
<1>2. PICK lost \in Drops(others) :
        /\ updates' = updates \cup (others \ lost)
        /\ NewList(answer, seen, (others \ lost) \cup {own}, lost)
  BY <1>1
<1>3. /\ asker \in BlUsers /\ SaveList(answer)
      /\ flagged' = (flagged \ {asker}) \cup (answer \cap {asker})
      /\ outdated' = (answer # blServer) /\ asker' = NoUser /\ answer' = {}
      /\ UNCHANGED <<blServer, blNotice>>
      /\ blSaved' = answer /\ blKnown' = TRUE
  BY DEF MatrixSaves, SaveList, ListsOK
<1>4. /\ D \subseteq Makers \X BlUsers \X BOOLEAN
      /\ \A e \in D : e[3] = (e[2] \in answer)
      /\ \A u \in BlUsers : (\A e \in D : e[2] # u)
                              => (u \in answer <=> u \in blSaved \cup seen)
  BY DiffEffect DEF ListsOK, Makers
<1>5. own[2] = asker
  OBVIOUS
<1> HIDE DEF D, own
<1>6. ListsOK'
  BY <1>2, <1>3, <1>4 DEF ListsOK, SaveList
<1>7. CopiesOK'
  <2>1. ~outdated' => answer = blServer
    BY <1>3
  <2> QED BY <1>3, <2>1 DEF CopiesOK, SaveList
<1>8. ASSUME NEW u \in BlUsers, u \notin Missed'
      PROVE  /\ \A e \in updates' : e[2] = u => e[3] = (u \in answer)
             /\ ~Waits(u)' => (u \in answer <=> u \in flagged')
  <2> DEFINE made == (others \ lost) \cup {own}
  <2>1. answer \in SUBSET BlUsers
    BY DEF ListsOK
  <2>2. \A e \in D : e \in made \cup lost \/ e[2] = own[2]
    BY <1>5
  <2>3. (\A n \in made \cup lost : n[2] # u) => (u \in answer <=> u \in blSaved \cup seen)
    BY <1>4, <2>2
  <2>4. NewList(answer, seen, made, lost)
    BY <1>2
  <2>5. \A n \in made : n[2] = u => n \in updates' \/ u = asker
    BY <1>2, <1>5
  <2> HIDE DEF made
  <2>6. /\ \A o \in updates : o[2] = u => o[3] = (u \in answer)
        /\ ~Waits(u) /\ (\A n \in made : n[2] # u) => (u \in answer <=> u \in flagged)
    BY <1>8, <2>1, <2>3, <2>4, NewListEffect
  <2>7. \A e \in updates' : e[2] = u => e[3] = (u \in answer)
    BY <1>2, <1>4, <2>6
  <2>8. CASE u = asker
    BY <1>3, <2>7, <2>8
  <2>9. CASE u # asker
    <3>1. ~Waits(u)' => ~Waits(u) /\ \A n \in made : n[2] # u
      BY <1>2, <2>5, <2>9 DEF Waits
    <3>2. u \in flagged' <=> u \in flagged
      BY <1>3, <2>9
    <3> QED BY <2>6, <2>7, <3>1, <3>2
  <2> QED BY <2>8, <2>9
<1> QED BY <1>3, <1>6, <1>7, <1>8 DEF FlagsOK

LEMMA InfoUpdate ==
    ASSUME NEW u \in BlUsers, NEW list
    PROVE  LET e == <<"info", u, u \in list>>
           IN  e \in Makers \X BlUsers \X BOOLEAN /\ e[2] = u /\ e[3] = (u \in list)
<1>1. (u \in list) \in BOOLEAN
  OBVIOUS
<1> QED BY <1>1 DEF Makers

LEMMA BlKeeps == BlInv /\ [BlNext]_blVars => BlInv'
<1> SUFFICES ASSUME BlInv, [BlNext]_blVars PROVE BlInv'
  OBVIOUS
<1> USE BlAssumption DEF BlInv
<1>1. CASE HandleNotice
  <2>1. CASE ResyncList("event", {})
    BY <1>1, <2>1, ResyncKeeps DEF HandleNotice, Makers
  <2>2. CASE outdated' = TRUE /\ UNCHANGED <<blKnown, blSaved, diskKnown, diskSaved, updates, astray, unretried>>
    BY <1>1, <2>2 DEF HandleNotice, ListsOK, CopiesOK, FlagsOK, Waits, Missed
  <2> QED BY <1>1, <2>1, <2>2 DEF HandleNotice
<1>2. CASE MatrixSaves
  BY <1>2, MatrixSavesKeeps
<1>3. CASE BlRestart
  <2>1. ListsOK'
    BY <1>3 DEF BlRestart, ListsOK
  <2>2. CopiesOK'
    BY <1>3 DEF BlRestart, CopiesOK
  <2>3. ASSUME NEW u \in BlUsers, u \notin Missed'
        PROVE  ~Waits(u) /\ u \notin Missed /\ (u \in diskSaved => u \in blSaved)
    BY <1>3, <2>3 DEF BlRestart, Waits, Missed
  <2>4. FlagsOK'
    BY <1>3, <2>3 DEF BlRestart, FlagsOK, CopiesOK
  <2> QED BY <2>1, <2>2, <2>4
<1>4. ASSUME NEW u \in BlUsers, PhoneBlocks(u) \/ MatrixBlocks(u) PROVE BlInv'
  <2>1. ListsOK' /\ CopiesOK'
    BY <1>4 DEF PhoneBlocks, MatrixBlocks, ListsOK, CopiesOK
  <2>2. FlagsOK'
    BY <1>4 DEF PhoneBlocks, MatrixBlocks, FlagsOK, Waits, Missed
  <2> QED BY <2>1, <2>2
<1>5. ASSUME NEW u \in BlUsers, GetInfo(u) PROVE BlInv'
  <2>1. CASE blKnown
    <3> DEFINE e == <<"info", u, u \in blSaved>>
    <3>1. /\ Queue(blSaved, {e})
          /\ UNCHANGED <<blServer, blNotice, blKnown, blSaved, diskKnown, diskSaved, asker,
                         answer, flagged, outdated>>
      BY <1>5, <2>1 DEF GetInfo
    <3>2. updates' = updates \cup {e}
      BY <3>1 DEF Queue
    <3>3. e \in Makers \X BlUsers \X BOOLEAN /\ e[2] = u /\ e[3] = (u \in blSaved)
      BY InfoUpdate
    <3> HIDE DEF e
    <3>4. ListsOK' /\ CopiesOK'
      BY <3>1, <3>2, <3>3 DEF ListsOK, CopiesOK
    <3>5. ASSUME NEW v \in BlUsers, v \notin Missed'
          PROVE  /\ \A o \in updates' : o[2] = v => o[3] = (v \in blSaved)
                 /\ ~Waits(v)' => ~Waits(v) /\ v \notin Missed
      <4>1. /\ \A o \in updates : o[2] = v => o[3] = (v \in blSaved)
            /\ v \in Missed => \E n \in {e} : n[2] = v
        BY <3>1, <3>5, QueueEffect
      <4> QED BY <3>2, <3>3, <4>1 DEF Waits
    <3>6. FlagsOK'
      BY <3>1, <3>5 DEF FlagsOK
    <3> QED BY <3>4, <3>6
  <2>2. CASE ~blKnown
    <3> DEFINE e == <<"info", u, u \in blServer>>
    <3>1. e \in Makers \X BlUsers \X BOOLEAN /\ e[2] = u /\ e[3] = (u \in blServer)
      BY InfoUpdate
    <3>2. ResyncList("info", {e}) /\ UNCHANGED <<blServer, asker, answer, flagged>>
      BY <1>5, <2>2 DEF GetInfo
    <3> HIDE DEF e
    <3> QED BY <3>1, <3>2, ResyncKeeps DEF Makers
  <2> QED BY <2>1, <2>2
<1>6. ASSUME NEW e \in Makers \X BlUsers \X BOOLEAN, Apply(e) PROVE BlInv'
  <2>1. ListsOK' /\ CopiesOK'
    BY <1>6 DEF Apply, ListsOK, CopiesOK
  <2>2. ASSUME NEW u \in BlUsers, u \notin Missed'
        PROVE  /\ \A o \in updates' : o[2] = u => o[3] = (u \in blSaved')
               /\ ~Waits(u)' => /\ u \in blSaved' => u \in flagged'
                                /\ blKnown' /\ ~outdated' /\ u \in flagged' => u \in blSaved'
    <3>1. CASE e[2] = u
      BY <1>6, <2>2, <3>1 DEF Apply, FlagsOK, Missed
    <3>2. CASE e[2] # u
      <4>1. Waits(u)' <=> Waits(u)
        BY <1>6, <3>2 DEF Apply, Waits
      <4>2. u \in flagged' <=> u \in flagged
        BY <1>6, <3>2 DEF Apply
      <4> QED BY <1>6, <2>2, <4>1, <4>2 DEF Apply, FlagsOK, Missed
    <3> QED BY <3>1, <3>2
  <2> QED BY <2>1, <2>2 DEF FlagsOK
<1>7. ASSUME NEW e \in Makers \X BlUsers \X BOOLEAN, ApplyFails(e) PROVE BlInv'
  <2>1. PICK gone \in SUBSET updates :
          /\ updates' = updates \ gone /\ astray' = astray \cup {o[2] : o \in gone}
          /\ UNCHANGED unretried
    BY <1>7 DEF ApplyFails
  <2>2. ListsOK' /\ CopiesOK'
    BY <1>7, <2>1 DEF ApplyFails, ListsOK, CopiesOK
  <2>3. ASSUME NEW u \in BlUsers, u \notin Missed' PROVE Waits(u)' <=> Waits(u)
    BY <2>1, <2>3 DEF Waits, Missed
  <2>4. FlagsOK'
    BY <1>7, <2>1, <2>3 DEF ApplyFails, FlagsOK, Missed
  <2> QED BY <2>2, <2>4
<1>8. CASE UNCHANGED blVars
  BY <1>8 DEF blVars, ListsOK, CopiesOK, FlagsOK, Waits, Missed
<1> QED
  BY <1>1, <1>2, <1>3, <1>4, <1>5, <1>6, <1>7, <1>8 DEF BlNext

\* For any users and any number of changes, whoever makes them and whatever fails or is
\* cut off by a restart, a chat is flagged exactly if WhatsApp blocks its user
\* (saveBlocklistUnlocked, resyncBlocklistUnlocked), but for the exceptions
\* FlagsFollowList names.
THEOREM FlagsFollowTheList == BlSpec => []FlagsFollowList
  BY BlStarts, BlKeeps, BlImplies, PTL DEF BlSpec

-----------------------------------------------------------------------------
(* The group and its room, for any members, changes and syncs. *)

LEMMA AppendFacts ==
    ASSUME NEW S, NEW q \in Seq(S), NEW e \in S
    PROVE  /\ Append(q, e) \in Seq(S) /\ Len(Append(q, e)) = Len(q) + 1
           /\ \A i \in 1..Len(q) : Append(q, e)[i] = q[i]
           /\ Append(q, e)[Len(q) + 1] = e
           /\ Len(q) \in Nat
  OBVIOUS

LEMMA TailFacts ==
    ASSUME NEW S, NEW q \in Seq(S), q # <<>>
    PROVE  /\ Tail(q) \in Seq(S) /\ Len(Tail(q)) = Len(q) - 1
           /\ \A i \in 1..(Len(q) - 1) : Tail(q)[i] = q[i + 1]
           /\ Head(q) = q[1] /\ Head(q) \in S
           /\ Len(q) \in Nat \ {0}
  OBVIOUS

Levels == {"out", "member", "admin", "no", "yes"}
YesNo == {"no", "yes"}
Infos == {g \in [Things -> Levels] : g["announce"] \in YesNo}
Rooms == {r \in [InRoom -> Levels] : r["announce"] \in YesNo}
Stales == {T \in SUBSET InRoom : "locked" \in T => "timer" \in T}
NewValues == {f \in UNION {[D -> Levels] : D \in SUBSET Things} :
                 "announce" \in DOMAIN f => f["announce"] \in YesNo}
GrEvents == [kind : {"change"}, set : NewValues, joined : SUBSET Things]
       \cup [kind : {"snapshot"}, info : Infos, stale : Stales]
       \cup {Fetch}

\* The events that set x, and those that set it to what g has or say that they do not.
Sets(e, x) == (e.kind = "change" /\ x \in DOMAIN e.set) \/ e.kind = "snapshot"
Right(g, e, x) == IF e.kind = "change" THEN e.set[x] = g[x] ELSE e.info[x] = g[x] \/ x \in e.stale

Setters(q, x) == {i \in 1..Len(q) : Sets(q[i], x)}
LastRight(g, q, x) ==
    \A i \in Setters(q, x) : (\A j \in Setters(q, x) : j <= i) => Right(g, q[i], x)

\* The part of GrTypeOK that the argument needs.
QueuesOK ==
    /\ grp \in Infos /\ room \in Rooms /\ listed \subseteq Infos /\ "announce" \notin levels
    /\ wire \in Seq(GrEvents) /\ grQueue \in Seq(GrEvents)
    /\ \A i \in 1..Len(wire) : wire[i].kind # "fetch"

\* The last event that sets what x shows, on the wire or else in the queue, sets it right;
\* if there is none the room has it right.
Follows(x) ==
    IF Setters(wire, Source(x)) # {} THEN LastRight(grp, wire, Source(x))
    ELSE IF Setters(grQueue, Source(x)) # {} THEN LastRight(grp, grQueue, Source(x))
    ELSE room[x] = Wrapped(grp)[x] \/ x \in off

GrInv == QueuesOK /\ (inGroup => \A x \in InRoom : Follows(x))

LEMMA SourceIs ==
    /\ \A x \in InRoom : Source(x) \in Things
    /\ \A x \in Things : x \in InRoom /\ Source(x) = x
    /\ Source("timer") = "locked" /\ "timer" \notin Things
    /\ \A x \in InRoom : x # "timer" => x \in Things
    /\ {"announce", "locked"} \subseteq Things /\ "announce" \notin GrMembers
    /\ \A x \in GrMembers : x \in Things
  BY GrAssumption DEF Source, InRoom, Things, Settings

LEMMA EventKinds ==
    /\ \A f \in NewValues, J \in SUBSET Things : Change(f, J) \in GrEvents
    /\ \A f, J : Change(f, J).kind = "change" /\ Change(f, J).set = f
    /\ \A g \in Infos, T \in Stales : Snapshot(g, T) \in GrEvents
    /\ \A g, T : /\ Snapshot(g, T).kind = "snapshot" /\ Snapshot(g, T).info = g
                 /\ Snapshot(g, T).stale = T
    /\ Fetch \in GrEvents /\ Fetch.kind = "fetch"
  BY DEF GrEvents, Change, Snapshot, Fetch

LEMMA EventsOK ==
    ASSUME NEW e \in GrEvents
    PROVE  /\ e.kind \in {"change", "snapshot", "fetch"}
           /\ e.kind = "fetch" => e = Fetch
           /\ e.kind = "snapshot" => e.info \in Infos /\ e.stale \in Stales
           /\ e.kind = "change" => /\ DOMAIN e.set \subseteq Things /\ e.joined \subseteq Things
                                   /\ \A x \in DOMAIN e.set : e.set[x] \in Levels
                                   /\ "announce" \in DOMAIN e.set => e.set["announce"] \in YesNo
<1>1. e.kind = "change" => e.set \in NewValues /\ e.joined \subseteq Things
  BY DEF GrEvents, Fetch
<1>2. ASSUME NEW f \in NewValues
      PROVE  /\ DOMAIN f \subseteq Things /\ \A x \in DOMAIN f : f[x] \in Levels
             /\ "announce" \in DOMAIN f => f["announce"] \in YesNo
  BY DEF NewValues
<1>3. /\ e.kind \in {"change", "snapshot", "fetch"}
      /\ e.kind = "fetch" => e = Fetch
      /\ e.kind = "snapshot" => e.info \in Infos /\ e.stale \in Stales
  BY DEF GrEvents, Fetch
<1> QED BY <1>1, <1>2, <1>3

LEMMA WrappedIs ==
    ASSUME NEW g \in Infos
    PROVE  /\ Wrapped(g) \in Rooms
           /\ \A x \in InRoom : Wrapped(g)[x] = IF x = "announce" /\ community THEN "no" ELSE g[Source(x)]
<1>1. \A x \in InRoom : g[Source(x)] \in Levels
  BY SourceIs DEF Infos
<1>2. "announce" \in InRoom /\ Source("announce") = "announce" /\ g["announce"] \in YesNo
  BY SourceIs DEF Infos
<1>3. "no" \in Levels /\ "no" \in YesNo
  BY DEF Levels, YesNo
<1> QED BY <1>1, <1>2, <1>3 DEF Wrapped, Rooms

LEMMA AppendSets ==
    ASSUME NEW q \in Seq(GrEvents), NEW e \in GrEvents, NEW x
    PROVE  /\ Sets(e, x) => /\ Setters(Append(q, e), x) # {}
                            /\ \A g : Right(g, e, x) => LastRight(g, Append(q, e), x)
           /\ ~Sets(e, x) => /\ Setters(Append(q, e), x) = Setters(q, x)
                             /\ \A g : LastRight(g, q, x) => LastRight(g, Append(q, e), x)
<1> DEFINE r == Append(q, e)
<1>1. /\ Len(r) = Len(q) + 1 /\ Len(q) \in Nat
      /\ \A i \in 1..Len(q) : r[i] = q[i]
      /\ r[Len(q) + 1] = e
  BY AppendFacts
<1> HIDE DEF r
<1>2. ASSUME Sets(e, x)
      PROVE  Setters(r, x) # {} /\ \A g : Right(g, e, x) => LastRight(g, r, x)
  <2>1. Len(q) + 1 \in Setters(r, x)
    BY <1>1, <1>2 DEF Setters
  <2>2. ASSUME NEW i \in Setters(r, x), \A j \in Setters(r, x) : j <= i PROVE r[i] = e
    <3>1. i \in 1..(Len(q) + 1) /\ Len(q) + 1 <= i
      BY <1>1, <2>1, <2>2 DEF Setters
    <3> QED BY <1>1, <3>1
  <2> QED BY <2>1, <2>2 DEF LastRight
<1>3. ASSUME ~Sets(e, x)
      PROVE  Setters(r, x) = Setters(q, x) /\ \A g : LastRight(g, q, x) => LastRight(g, r, x)
  <2>1. ASSUME NEW i \in 1..(Len(q) + 1), Sets(r[i], x) PROVE i \in 1..Len(q) /\ Sets(q[i], x)
    BY <1>1, <1>3, <2>1
  <2>2. ASSUME NEW i \in 1..Len(q), Sets(q[i], x) PROVE i \in 1..(Len(q) + 1) /\ Sets(r[i], x)
    BY <1>1, <2>2
  <2>3. Setters(r, x) = Setters(q, x)
    BY <1>1, <2>1, <2>2 DEF Setters
  <2>4. \A i \in Setters(q, x) : r[i] = q[i]
    BY <1>1 DEF Setters
  <2> QED BY <2>3, <2>4 DEF LastRight
<1> QED BY <1>2, <1>3 DEF r

LEMMA TailSets ==
    ASSUME NEW q \in Seq(GrEvents), q # <<>>, NEW x
    PROVE  /\ Setters(Tail(q), x) # {} =>
                 /\ Setters(q, x) # {}
                 /\ \A g : LastRight(g, q, x) => LastRight(g, Tail(q), x)
           /\ Setters(Tail(q), x) = {} /\ Setters(q, x) # {} =>
                 /\ Sets(Head(q), x)
                 /\ \A g : LastRight(g, q, x) => Right(g, Head(q), x)
           /\ Setters(q, x) = {} => ~Sets(Head(q), x)
<1> DEFINE t == Tail(q)
<1>1. /\ Len(t) = Len(q) - 1 /\ Len(q) \in Nat \ {0} /\ Head(q) = q[1]
      /\ \A i \in 1..(Len(q) - 1) : t[i] = q[i + 1]
  BY TailFacts
<1> HIDE DEF t
<1>2. \A i \in Setters(t, x) : i \in Nat /\ i + 1 \in Setters(q, x) /\ t[i] = q[i + 1]
  BY <1>1 DEF Setters
<1>3. ASSUME NEW k \in Setters(q, x), k # 1 PROVE k - 1 \in Setters(t, x)
  <2>1. k - 1 \in 1..(Len(q) - 1) /\ t[k - 1] = q[k] /\ Sets(q[k], x)
    BY <1>1, <1>3 DEF Setters
  <2> QED BY <1>1, <2>1 DEF Setters
<1>4. \A k \in Setters(q, x) : k \in Nat \ {0}
  BY <1>1 DEF Setters
<1>5. ASSUME Setters(t, x) # {}, NEW g, LastRight(g, q, x) PROVE LastRight(g, t, x)
  <2> SUFFICES ASSUME NEW i \in Setters(t, x), \A j \in Setters(t, x) : j <= i
               PROVE  Right(g, t[i], x)
    BY DEF LastRight
  <2>1. i + 1 \in Setters(q, x) /\ t[i] = q[i + 1] /\ i \in Nat
    BY <1>2
  <2>2. ASSUME NEW k \in Setters(q, x) PROVE k <= i + 1
    <3>1. CASE k = 1
      BY <2>1, <3>1
    <3>2. CASE k # 1
      <4>1. k - 1 <= i /\ k \in Nat
        BY <1>3, <1>4, <3>2
      <4> QED BY <2>1, <4>1
    <3> QED BY <3>1, <3>2
  <2> QED BY <1>5, <2>1, <2>2 DEF LastRight
<1>6. ASSUME Setters(t, x) = {}, Setters(q, x) # {}
      PROVE  Sets(Head(q), x) /\ \A g : LastRight(g, q, x) => Right(g, Head(q), x)
  <2>1. \A k \in Setters(q, x) : k = 1
    BY <1>3, <1>6
  <2>2. 1 \in Setters(q, x) /\ \A k \in Setters(q, x) : k <= 1
    BY <1>6, <2>1
  <2>3. Sets(Head(q), x)
    BY <1>1, <2>2 DEF Setters
  <2> QED BY <1>1, <2>2, <2>3 DEF LastRight
<1>7. Sets(Head(q), x) => 1 \in Setters(q, x)
  BY <1>1 DEF Setters
<1>8. Setters(t, x) # {} => Setters(q, x) # {}
  BY <1>2
<1> QED BY <1>5, <1>6, <1>7, <1>8 DEF t

\* Right and LastRight look at g only at x.
LEMMA SameAtX ==
    ASSUME NEW g, NEW h, NEW x, g[x] = h[x], NEW q, LastRight(g, q, x)
    PROVE  LastRight(h, q, x)
  BY DEF LastRight, Right

\* What leaves x alone keeps it followed.
StaysAt(x) == /\ grp'[Source(x)] = grp[Source(x)]
              /\ (room'[x] = room[x] /\ (x \in off => x \in off')) \/ x \in off'

LEMMA StillFollows ==
    ASSUME QueuesOK, QueuesOK', NEW x \in InRoom, Follows(x), StaysAt(x),
           UNCHANGED <<wire, grQueue, community>>
    PROVE  Follows(x)'
<1>1. Wrapped(grp)'[x] = Wrapped(grp)[x]
  BY DEF StaysAt, Wrapped
<1>2. LastRight(grp, wire, Source(x)) => LastRight(grp', wire, Source(x))
  BY SameAtX DEF StaysAt
<1>3. LastRight(grp, grQueue, Source(x)) => LastRight(grp', grQueue, Source(x))
  BY SameAtX DEF StaysAt
<1> QED BY <1>1, <1>2, <1>3 DEF Follows, StaysAt

\* An event that WhatsApp adds to the wire.
LEMMA AddedFollows ==
    ASSUME QueuesOK, QueuesOK', NEW x \in InRoom, NEW e \in GrEvents,
           wire' = Append(wire, e), UNCHANGED <<grQueue, community>>,
           IF Sets(e, Source(x)) THEN Right(grp', e, Source(x)) ELSE Follows(x) /\ StaysAt(x)
    PROVE  Follows(x)'
<1>1. CASE Sets(e, Source(x))
  <2>1. Setters(wire', Source(x)) # {} /\ LastRight(grp', wire', Source(x))
    BY <1>1, AppendSets DEF QueuesOK
  <2> QED BY <2>1 DEF Follows
<1>2. CASE ~Sets(e, Source(x))
  <2>1. /\ Setters(wire', Source(x)) = Setters(wire, Source(x))
        /\ LastRight(grp', wire, Source(x)) => LastRight(grp', wire', Source(x))
    BY <1>2, AppendSets DEF QueuesOK
  <2>2. Wrapped(grp)'[x] = Wrapped(grp)[x]
    BY <1>2 DEF StaysAt, Wrapped
  <2>3. LastRight(grp, wire, Source(x)) => LastRight(grp', wire, Source(x))
    BY <1>2, SameAtX DEF StaysAt
  <2>4. LastRight(grp, grQueue, Source(x)) => LastRight(grp', grQueue, Source(x))
    BY <1>2, SameAtX DEF StaysAt
  <2> QED BY <1>2, <2>1, <2>2, <2>3, <2>4 DEF Follows, StaysAt
<1> QED BY <1>1, <1>2

\* The head of the queue is handled: what it sets is set, or known to differ.
LEMMA HandledFollows ==
    ASSUME QueuesOK, QueuesOK', grQueue # <<>>, grQueue' = Tail(grQueue), NEW x \in InRoom,
           UNCHANGED <<wire, community, grp>>, Follows(x),
           IF Sets(Head(grQueue), Source(x))
           THEN Right(grp, Head(grQueue), Source(x)) => room'[x] = Wrapped(grp)[x] \/ x \in off'
           ELSE \/ room'[x] = Wrapped(grp)[x]
                \/ StaysAt(x)
    PROVE  Follows(x)'
<1> DEFINE q == grQueue
           t == Tail(grQueue)
<1>1. /\ Setters(t, Source(x)) # {} => /\ Setters(q, Source(x)) # {}
                                       /\ LastRight(grp, q, Source(x)) => LastRight(grp, t, Source(x))
      /\ Setters(t, Source(x)) = {} /\ Setters(q, Source(x)) # {} =>
            Sets(Head(q), Source(x)) /\ (LastRight(grp, q, Source(x)) => Right(grp, Head(q), Source(x)))
      /\ Setters(q, Source(x)) = {} => ~Sets(Head(q), Source(x))
  BY TailSets DEF QueuesOK
<1>2. t = grQueue'
  OBVIOUS
<1> HIDE DEF t
<1>3. Wrapped(grp)'[x] = Wrapped(grp)[x]
  BY DEF Wrapped
<1>4. CASE Setters(wire, Source(x)) # {}
  BY <1>4 DEF Follows
<1>5. CASE Setters(wire, Source(x)) = {} /\ Setters(t, Source(x)) # {}
  <2>1. LastRight(grp, q, Source(x))
    BY <1>1, <1>5 DEF Follows
  <2>2. Setters(grQueue', Source(x)) # {} /\ LastRight(grp', grQueue', Source(x))
    BY <1>1, <1>5, <1>2, <2>1
  <2>3. Setters(wire', Source(x)) = {}
    BY <1>5
  <2> QED BY <2>2, <2>3 DEF Follows
<1>6. CASE Setters(wire, Source(x)) = {} /\ Setters(t, Source(x)) = {} /\ Setters(q, Source(x)) # {}
  BY <1>1, <1>3, <1>6, <1>2 DEF Follows
<1>7. CASE Setters(wire, Source(x)) = {} /\ Setters(t, Source(x)) = {} /\ Setters(q, Source(x)) = {}
  BY <1>1, <1>3, <1>7, <1>2 DEF Follows, StaysAt
<1> QED BY <1>4, <1>5, <1>6, <1>7

LEMMA GrStarts == GrInit => GrInv
<1> SUFFICES ASSUME GrInit PROVE GrInv
  OBVIOUS
<1>1. grp \in Infos
  BY GrAssumption DEF GrInit, Groups, Infos, Levels, YesNo, Values, Things, Settings
<1>2. QueuesOK
  BY <1>1, WrappedIs DEF GrInit, QueuesOK
<1>3. \A x : Setters(<<>>, x) = {}
  BY DEF Setters
<1> QED BY <1>2, <1>3 DEF GrInit, GrInv, Follows

LEMMA GrImplies == GrInv => RoomFollowsGroup
<1>1. \A x : Setters(<<>>, x) = {}
  BY DEF Setters
<1> QED BY <1>1 DEF GrInv, RoomFollowsGroup, Follows

LEMMA AlterIs ==
    ASSUME QueuesOK, NEW x \in Things, NEW v \in Values(x), Alter(x, v)
    PROVE  LET e == Change([y \in {x} |-> v], {y \in {x} : grp[y] = "out"})
           IN  /\ e \in GrEvents /\ e.kind # "fetch"
               /\ grp' \in Infos /\ grp' = [grp EXCEPT ![x] = v]
               /\ wire' = IF inGroup THEN Append(wire, e) ELSE wire
               /\ \A z \in Things : Sets(e, z) <=> z = x
               /\ Right(grp', e, x)
<1> DEFINE f == [y \in {x} |-> v]
           J == {y \in {x} : grp[y] = "out"}
           e == Change(f, J)
<1>1. v \in Levels /\ (x = "announce" => v \in YesNo)
  BY GrAssumption DEF Values, Levels, YesNo
<1>2. f \in NewValues /\ J \in SUBSET Things
  <2>1. f \in [{x} -> Levels] /\ {x} \in SUBSET Things
    BY <1>1
  <2>2. f \in UNION {[D -> Levels] : D \in SUBSET Things}
    BY <2>1
  <2> QED BY <1>1, <2>2 DEF NewValues
<1>3. e \in GrEvents /\ e.kind = "change" /\ e.set = f
  BY <1>2, EventKinds
<1>4. grp' = [grp EXCEPT ![x] = v] /\ grp' \in Infos /\ grp'[x] = v
  <2>1. grp' = [grp EXCEPT ![x] = v] /\ grp \in [Things -> Levels] /\ grp["announce"] \in YesNo
    BY DEF Alter, QueuesOK, Infos
  <2>2. grp' \in [Things -> Levels] /\ grp'[x] = v
    BY <1>1, <2>1
  <2>3. "announce" \in Things
    BY DEF Things, Settings
  <2>4. grp'["announce"] \in YesNo
    BY <1>1, <2>1, <2>3
  <2> QED BY <2>1, <2>2, <2>4 DEF Infos
<1>5. wire' = IF inGroup THEN Append(wire, e) ELSE wire
  BY DEF Alter
<1>6. (\A z \in Things : Sets(e, z) <=> z = x) /\ Right(grp', e, x)
  BY <1>3, <1>4 DEF Sets, Right
<1> HIDE DEF f, J
<1> QED BY <1>3, <1>4, <1>5, <1>6 DEF f, J

LEMMA WireTypes ==
    ASSUME QueuesOK, NEW e \in GrEvents, e.kind # "fetch", wire' = Append(wire, e)
    PROVE  wire' \in Seq(GrEvents) /\ \A i \in 1..Len(wire') : wire'[i].kind # "fetch"
<1>1. /\ wire' \in Seq(GrEvents) /\ Len(wire') = Len(wire) + 1 /\ Len(wire) \in Nat
      /\ \A i \in 1..Len(wire) : wire'[i] = wire[i]
      /\ wire'[Len(wire) + 1] = e
  BY AppendFacts DEF QueuesOK
<1>2. ASSUME NEW i \in 1..Len(wire') PROVE wire'[i].kind # "fetch"
  <2>1. CASE i \in 1..Len(wire)
    BY <1>1, <2>1 DEF QueuesOK
  <2>2. CASE i = Len(wire) + 1
    BY <1>1, <2>2
  <2> QED BY <1>1, <2>1, <2>2
<1> QED BY <1>1, <1>2

LEMMA PhoneChangesKeeps ==
    ASSUME GrInv, NEW x \in Things, NEW v \in Values(x), PhoneChanges(x, v)
    PROVE  GrInv'
<1> USE DEF GrInv
<1>1. Alter(x, v) /\ UNCHANGED <<community, inGroup, grQueue, listed, room, levels, off>>
  BY DEF PhoneChanges
<1>2. PICK e \in GrEvents :
        /\ e.kind # "fetch"
        /\ grp' \in Infos /\ grp' = [grp EXCEPT ![x] = v]
        /\ wire' = IF inGroup THEN Append(wire, e) ELSE wire
        /\ \A z \in Things : Sets(e, z) <=> z = x
        /\ Right(grp', e, x)
  BY <1>1, AlterIs
<1>3. QueuesOK'
  BY <1>1, <1>2, WireTypes DEF QueuesOK
<1>4. ASSUME inGroup, NEW z \in InRoom PROVE Follows(z)'
  <2>1. Source(z) \in Things
    BY SourceIs
  <2>2. Source(z) # x => grp'[Source(z)] = grp[Source(z)]
    BY <1>2, <2>1 DEF QueuesOK, Infos
  <2>3. Source(z) # x => StaysAt(z)
    BY <1>1, <2>2 DEF StaysAt
  <2> QED BY <1>1, <1>2, <1>3, <1>4, <2>1, <2>3, AddedFollows
<1> QED BY <1>1, <1>3, <1>4

LEMMA MatrixSetsKeeps ==
    ASSUME GrInv, NEW x \in Things, NEW v \in Values(x), MatrixSets(x, v)
    PROVE  GrInv'
<1> USE DEF GrInv
<1> DEFINE w == IF x \in levels THEN "admin" ELSE v
<1>1. /\ inGroup /\ inGroup' /\ UNCHANGED <<community, grQueue, listed>>
      /\ room' = [room EXCEPT ![x] = w] /\ x \in GrMembers \cup {"name"}
      /\ "announce" \notin levels'
  BY GrAssumption DEF MatrixSets, QueuesOK
<1>2. x # "announce" /\ x \in InRoom /\ \A z \in InRoom : z # x => Source(z) # x
  BY <1>1, GrAssumption DEF Source, InRoom
<1>3. room' \in Rooms /\ \A z \in InRoom : z # x => room'[z] = room[z]
  <2>1. room \in [InRoom -> Levels] /\ room["announce"] \in YesNo
    BY DEF QueuesOK, Rooms
  <2>2. w \in Levels
    BY DEF Values, Levels
  <2> HIDE DEF w
  <2>3. room' \in [InRoom -> Levels] /\ \A z \in InRoom : z # x => room'[z] = room[z]
    BY <1>1, <2>1, <2>2
  <2>4. "announce" \in InRoom
    BY SourceIs
  <2> QED BY <1>2, <2>1, <2>3, <2>4 DEF Rooms
<1> HIDE DEF w
<1>4. CASE Alter(x, v) /\ off' = off \cup (levels \cap {x})
  <2>1. PICK e \in GrEvents :
          /\ e.kind # "fetch"
          /\ grp' \in Infos /\ grp' = [grp EXCEPT ![x] = v]
          /\ wire' = IF inGroup THEN Append(wire, e) ELSE wire
          /\ \A z \in Things : Sets(e, z) <=> z = x
          /\ Right(grp', e, x)
    BY <1>4, AlterIs
  <2>2. QueuesOK'
    BY <1>1, <1>3, <2>1, WireTypes DEF QueuesOK
  <2>3. ASSUME NEW z \in InRoom PROVE Follows(z)'
    <3>1. Source(z) \in Things /\ Source(x) = x
      BY SourceIs
    <3>2. z # x => grp'[Source(z)] = grp[Source(z)]
      BY <1>2, <2>1, <3>1 DEF QueuesOK, Infos
    <3>3. z # x => StaysAt(z)
      BY <1>3, <1>4, <3>2 DEF StaysAt
    <3>4. IF Sets(e, Source(z)) THEN Right(grp', e, Source(z)) ELSE Follows(z) /\ StaysAt(z)
      BY <1>1, <1>2, <2>1, <3>1, <3>3
    <3> QED BY <1>1, <2>1, <2>2, <3>4, AddedFollows
  <2> QED BY <2>2, <2>3
<1>5. CASE off' = off \cup {x} /\ UNCHANGED <<grp, wire>>
  <2>1. QueuesOK'
    BY <1>1, <1>3, <1>5 DEF QueuesOK
  <2>2. ASSUME NEW z \in InRoom PROVE Follows(z)'
    <3>1. StaysAt(z)
      BY <1>3, <1>5 DEF StaysAt
    <3> QED BY <1>1, <1>5, <2>1, <3>1, StillFollows
  <2> QED BY <2>1, <2>2
<1> QED BY <1>4, <1>5 DEF MatrixSets

LEMMA MatrixLevelsKeeps ==
    ASSUME GrInv, NEW xs \in SUBSET Things, NEW done \in SUBSET xs, MatrixLevels(xs, done)
    PROVE  GrInv'
<1> USE DEF GrInv
<1>1. /\ inGroup /\ inGroup' /\ UNCHANGED <<community, grQueue, listed>>
      /\ room' = [x \in InRoom |-> IF x \in xs THEN Opposite(room[x]) ELSE room[x]]
      /\ grp' = [x \in Things |-> IF x \in done THEN room'[x] ELSE grp[x]]
      /\ off' = off \cup (xs \ done) /\ levels' = levels
  BY DEF MatrixLevels
<1>2. room' \in Rooms
  <2>1. /\ \A v \in Levels : Opposite(v) \in Levels
        /\ \A v \in YesNo : Opposite(v) \in YesNo
    BY DEF Opposite, Levels, YesNo
  <2>2. "announce" \in InRoom
    BY SourceIs
  <2> QED BY <1>1, <2>1, <2>2 DEF QueuesOK, Rooms
<1>3. grp' \in Infos
  <2>1. "announce" \in Things /\ \A x \in Things : x \in InRoom
    BY SourceIs
  <2> QED BY <1>1, <1>2, <2>1 DEF QueuesOK, Infos, Rooms
<1>4. ASSUME NEW z \in InRoom, Source(z) \notin done PROVE StaysAt(z)
  <2>1. Source(z) \in Things /\ (z \in xs => z \notin done)
    BY <1>4, SourceIs
  <2> QED BY <1>1, <1>4, <2>1 DEF StaysAt, QueuesOK, Infos
<1>5. CASE done = {}
  <2>1. wire' = wire
    BY <1>5 DEF MatrixLevels
  <2>2. QueuesOK'
    BY <1>1, <1>2, <1>3, <2>1 DEF QueuesOK
  <2>3. ASSUME NEW z \in InRoom PROVE Follows(z)'
    BY <1>1, <1>4, <1>5, <2>1, <2>2, StillFollows
  <2> QED BY <1>1, <2>2, <2>3
<1>6. CASE done # {}
  <2> DEFINE f == [x \in done |-> room'[x]]
             e == Change(f, {})
  <2>1. wire' = Append(wire, e)
    BY <1>6 DEF MatrixLevels
  <2>2. f \in NewValues
    <3>1. f \in [done -> Levels] /\ done \in SUBSET Things
      BY <1>2, SourceIs DEF Rooms
    <3>2. f \in UNION {[D -> Levels] : D \in SUBSET Things}
      BY <3>1
    <3> QED BY <1>2, <3>2 DEF NewValues, Rooms
  <2>3. e \in GrEvents /\ e.kind = "change" /\ e.set = f
    BY <2>2, EventKinds
  <2>4. \A z \in Things : (Sets(e, z) <=> z \in done) /\ (z \in done => Right(grp', e, z))
    BY <1>1, <2>3 DEF Sets, Right
  <2> HIDE DEF e
  <2>5. QueuesOK'
    BY <1>1, <1>2, <1>3, <2>1, <2>3, WireTypes DEF QueuesOK
  <2>6. ASSUME NEW z \in InRoom PROVE Follows(z)'
    <3>1. Source(z) \in Things
      BY SourceIs
    <3>2. IF Sets(e, Source(z)) THEN Right(grp', e, Source(z)) ELSE Follows(z) /\ StaysAt(z)
      BY <1>1, <1>4, <2>4, <3>1
    <3> QED BY <1>1, <2>1, <2>3, <2>5, <3>2, AddedFollows
  <2> QED BY <2>5, <2>6
<1> QED BY <1>5, <1>6

LEMMA JoinKeeps == ASSUME GrInv, LeaveOrJoin PROVE GrInv'
<1> USE DEF GrInv
<1>1. CASE inGroup
  BY <1>1 DEF LeaveOrJoin, QueuesOK
<1>2. CASE ~inGroup
  <2> DEFINE e == Snapshot(grp, {})
  <2>1. /\ wire' = Append(wire, e) /\ UNCHANGED <<grp, community, grQueue, listed, room, levels, off>>
    BY <1>2 DEF LeaveOrJoin
  <2>2. e \in GrEvents /\ e.kind = "snapshot" /\ e.info = grp
    BY EventKinds DEF QueuesOK, Stales
  <2> HIDE DEF e
  <2>3. QueuesOK'
    BY <2>1, <2>2, WireTypes DEF QueuesOK
  <2>4. \A x \in InRoom : Sets(e, Source(x)) /\ Right(grp', e, Source(x))
    BY <2>1, <2>2 DEF Sets, Right
  <2>5. \A x \in InRoom : Follows(x)'
    BY <2>1, <2>2, <2>3, <2>4, AddedFollows
  <2> QED BY <2>3, <2>5
<1> QED BY <1>1, <1>2

\* An event goes from the wire to the end of the queue.
LEMMA HandOnKeeps == ASSUME GrInv, HandleGroupEvent PROVE GrInv'
<1> USE DEF GrInv
<1> DEFINE e == Head(wire)
<1>1. /\ wire # <<>> /\ grQueue' = Append(grQueue, e) /\ wire' = Tail(wire)
      /\ UNCHANGED <<grp, community, inGroup, listed, room, levels, off>>
  BY DEF HandleGroupEvent
<1>2. /\ wire' \in Seq(GrEvents) /\ Len(wire') = Len(wire) - 1 /\ Len(wire) \in Nat \ {0}
      /\ \A i \in 1..(Len(wire) - 1) : wire'[i] = wire[i + 1]
      /\ e = wire[1] /\ e \in GrEvents
  BY <1>1, TailFacts DEF QueuesOK
<1> HIDE DEF e
<1>3. grQueue' \in Seq(GrEvents)
  BY <1>1, <1>2, AppendFacts DEF QueuesOK
<1>4. QueuesOK'
  BY <1>1, <1>2, <1>3 DEF QueuesOK
<1>5. ASSUME inGroup, NEW x \in InRoom PROVE Follows(x)'
  <2>1. /\ Setters(wire', Source(x)) # {} => /\ Setters(wire, Source(x)) # {}
                                             /\ LastRight(grp, wire, Source(x)) => LastRight(grp, wire', Source(x))
        /\ Setters(wire', Source(x)) = {} /\ Setters(wire, Source(x)) # {} =>
              Sets(e, Source(x)) /\ (LastRight(grp, wire, Source(x)) => Right(grp, e, Source(x)))
        /\ Setters(wire, Source(x)) = {} => ~Sets(e, Source(x))
    BY <1>1, TailSets DEF QueuesOK, e
  <2>2. /\ Sets(e, Source(x)) => /\ Setters(grQueue', Source(x)) # {}
                                 /\ Right(grp, e, Source(x)) => LastRight(grp, grQueue', Source(x))
        /\ ~Sets(e, Source(x)) => /\ Setters(grQueue', Source(x)) = Setters(grQueue, Source(x))
                                  /\ LastRight(grp, grQueue, Source(x)) => LastRight(grp, grQueue', Source(x))
    BY <1>1, <1>2, AppendSets DEF QueuesOK
  <2>3. Follows(x) /\ Wrapped(grp)' = Wrapped(grp)
    BY <1>1, <1>5 DEF Wrapped
  <2> QED BY <1>1, <2>1, <2>2, <2>3 DEF Follows
<1> QED BY <1>1, <1>4, <1>5

\* A snapshot of the chat list, or the instruction to fetch, at the end of the queue.
LEMMA QueuedKeeps ==
    ASSUME GrInv, NEW e \in GrEvents, grQueue' = Append(grQueue, e), listed' \subseteq Infos,
           UNCHANGED <<grp, community, inGroup, wire, room, levels, off>>,
           \A x \in Things : Sets(e, x) /\ Setters(wire, x) = {} => Right(grp, e, x)
    PROVE  GrInv'
<1> USE DEF GrInv
<1>1. QueuesOK'
  BY AppendFacts DEF QueuesOK
<1>2. ASSUME inGroup, NEW x \in InRoom PROVE Follows(x)'
  <2>1. /\ Sets(e, Source(x)) => /\ Setters(grQueue', Source(x)) # {}
                                 /\ Right(grp, e, Source(x)) => LastRight(grp, grQueue', Source(x))
        /\ ~Sets(e, Source(x)) => /\ Setters(grQueue', Source(x)) = Setters(grQueue, Source(x))
                                  /\ LastRight(grp, grQueue, Source(x)) => LastRight(grp, grQueue', Source(x))
    BY AppendSets DEF QueuesOK
  <2>2. Follows(x) /\ Wrapped(grp)' = Wrapped(grp)
    BY <1>2 DEF Wrapped
  <2>3. Source(x) \in Things
    BY SourceIs
  <2> QED BY <2>1, <2>2, <2>3 DEF Follows
<1> QED BY <1>1, <1>2

LEMMA ListedKeeps == ASSUME GrInv, NEW g \in listed, QueueListed(g) PROVE GrInv'
<1> DEFINE T == {x \in InRoom : g[Source(x)] # grp[Source(x)] /\ ~Pending(Source(x))}
           e == Snapshot(g, T)
<1>1. g \in Infos
  BY DEF GrInv, QueuesOK
<1>2. e \in GrEvents /\ e.kind = "snapshot" /\ e.info = g /\ e.stale = T
  <2>1. T \subseteq InRoom /\ ("locked" \in T => "timer" \in T)
    <3>1. Source("locked") = Source("timer") /\ "timer" \in InRoom
      BY DEF Source, InRoom
    <3> QED BY <3>1
  <2> HIDE DEF T
  <2>2. T \in Stales
    BY <2>1 DEF Stales
  <2> QED BY <1>1, <2>2, EventKinds
<1>3. ASSUME NEW x \in Things, Setters(wire, x) = {} PROVE ~Pending(x)
  <2>1. \A i \in 1..Len(wire) : wire[i] \in GrEvents /\ wire[i].kind # "fetch"
    BY DEF GrInv, QueuesOK
  <2>2. \A i \in 1..Len(wire) : wire[i].kind \in {"change", "snapshot"}
    BY <2>1, EventsOK
  <2>3. DOMAIN wire = 1..Len(wire)
    BY DEF GrInv, QueuesOK
  <2> QED BY <1>3, <2>2, <2>3 DEF Pending, Setters, Sets
<1>4. \A x \in Things : Setters(wire, x) = {} => Right(grp, e, x)
  BY <1>2, <1>3, SourceIs DEF Right
<1> HIDE DEF e
<1>5. /\ grQueue' = Append(grQueue, e) /\ listed' = {}
      /\ UNCHANGED <<grp, community, inGroup, wire, room, levels, off>>
  BY DEF QueueListed, e
<1> QED BY <1>2, <1>4, <1>5, QueuedKeeps

\* A snapshot is applied: all but those whom it need not name are as it says.
LEMMA InfoApplied ==
    ASSUME NEW g \in Infos, room \in Rooms, ApplyInfo(g)
    PROVE  /\ room' \in Rooms /\ "announce" \notin levels'
           /\ \A x \in InRoom : x \notin Kept(g) => room'[x] = Wrapped(g)[x]
<1>1. Wrapped(g) \in Rooms
  BY WrappedIs
<1>2. "announce" \notin GrMembers /\ "announce" \in InRoom
  BY SourceIs
<1>3. "announce" \notin Kept(g) /\ "announce" \notin levels'
  BY <1>2 DEF Kept, ApplyInfo
<1>4. room' = [x \in InRoom |-> IF x \in Kept(g) THEN room[x] ELSE Wrapped(g)[x]]
  BY DEF ApplyInfo
<1>5. /\ \A x \in InRoom : room[x] \in Levels /\ Wrapped(g)[x] \in Levels
      /\ Wrapped(g)["announce"] \in YesNo
  BY <1>1 DEF Rooms
<1>6. room' \in [InRoom -> Levels] /\ room'["announce"] \in YesNo
  BY <1>2, <1>3, <1>4, <1>5
<1> QED BY <1>3, <1>4, <1>6 DEF Rooms

LEMMA GrKeeps == GrInv /\ [GrNext]_grVars => GrInv'
<1> SUFFICES ASSUME GrInv, [GrNext]_grVars PROVE GrInv'
  OBVIOUS
<1>1. ASSUME NEW x \in Things, NEW v \in Values(x), PhoneChanges(x, v) \/ MatrixSets(x, v)
      PROVE  GrInv'
  BY <1>1, PhoneChangesKeeps, MatrixSetsKeeps
<1>2. ASSUME NEW xs \in SUBSET (Things \ {"name"}), NEW done \in SUBSET xs, MatrixLevels(xs, done)
      PROVE  GrInv'
  BY <1>2, MatrixLevelsKeeps
<1>3. CASE LeaveOrJoin
  BY <1>3, JoinKeeps
<1>4. CASE HandleGroupEvent
  BY <1>4, HandOnKeeps
<1>5. CASE ListGroups
  BY <1>5 DEF ListGroups, GrInv, QueuesOK, Follows, Wrapped
<1>6. CASE QueueFetch
  <2>1. \A x : ~Sets(Fetch, x)
    BY EventKinds DEF Sets
  <2>2. grQueue' = Append(grQueue, Fetch) /\ UNCHANGED <<grp, community, inGroup, wire, listed, room, levels, off>>
    BY <1>6 DEF QueueFetch
  <2>3. listed' \subseteq Infos
    BY <2>2 DEF GrInv, QueuesOK
  <2> QED BY <2>1, <2>2, <2>3, EventKinds, QueuedKeeps
<1>7. ASSUME NEW g \in listed, QueueListed(g) PROVE GrInv'
  BY <1>7, ListedKeeps
<1>8. CASE HandleFetch \/ HandleSnapshot \/ HandleChange
  <2> DEFINE e == Head(grQueue)
  <2>1. /\ grQueue # <<>> /\ grQueue' = Tail(grQueue)
        /\ UNCHANGED <<grp, community, inGroup, wire, listed>>
    BY <1>8 DEF HandleFetch, HandleSnapshot, HandleChange
  <2>2. grQueue' \in Seq(GrEvents) /\ e \in GrEvents
    BY <2>1, TailFacts DEF GrInv, QueuesOK
  <2>3. /\ grp \in Infos /\ room \in Rooms /\ Wrapped(grp) \in Rooms
        /\ \A x \in InRoom : Wrapped(grp)[x] = IF x = "announce" /\ community THEN "no" ELSE grp[Source(x)]
    BY WrappedIs DEF GrInv, QueuesOK
  <2> HIDE DEF e
  <2>4. ASSUME room' \in Rooms, "announce" \notin levels',
               \A x \in InRoom :
                 IF Sets(e, Source(x))
                 THEN Right(grp, e, Source(x)) => room'[x] = Wrapped(grp)[x] \/ x \in off'
                 ELSE room'[x] = Wrapped(grp)[x] \/ StaysAt(x)
        PROVE  GrInv'
    <3>1. QueuesOK'
      BY <2>1, <2>2, <2>4 DEF GrInv, QueuesOK
    <3>2. ASSUME inGroup, NEW x \in InRoom PROVE Follows(x)'
      BY <2>1, <2>4, <3>1, <3>2, HandledFollows DEF GrInv, e
    <3> QED BY <2>1, <3>1, <3>2 DEF GrInv
  <2>5. CASE HandleFetch
    <3>1. \A x : ~Sets(e, x)
      BY <2>5, EventKinds DEF HandleFetch, Sets, e
    <3>2. CASE ApplyInfo(grp) /\ off' = Kept(grp)
      <4>1. /\ room' \in Rooms /\ "announce" \notin levels'
            /\ \A x \in InRoom : x \notin Kept(grp) => room'[x] = Wrapped(grp)[x]
        BY <2>3, <3>2, InfoApplied
      <4>2. \A x \in InRoom : x \in off' => StaysAt(x)
        BY <2>1 DEF StaysAt
      <4> QED BY <2>4, <3>1, <3>2, <4>1, <4>2
    <3>3. CASE UNCHANGED <<room, levels, off>>
      <4>1. "announce" \notin levels' /\ room' \in Rooms
        BY <2>3, <3>3 DEF GrInv, QueuesOK
      <4> QED BY <2>1, <2>4, <3>1, <3>3, <4>1 DEF StaysAt
    <3> QED BY <2>5, <3>2, <3>3 DEF HandleFetch
  <2>6. CASE HandleSnapshot
    <3>1. e.kind = "snapshot" /\ ApplyInfo(e.info) /\ off' = e.stale \cup Kept(e.info)
      BY <2>6 DEF HandleSnapshot, e
    <3>2. e.info \in Infos /\ e.stale \in Stales
      BY <2>2, <3>1, EventsOK
    <3>3. /\ room' \in Rooms /\ "announce" \notin levels'
          /\ \A x \in InRoom : x \notin Kept(e.info) => room'[x] = Wrapped(e.info)[x]
      BY <2>3, <3>1, <3>2, InfoApplied
    <3>4. \A x \in InRoom : Wrapped(e.info)[x] = IF x = "announce" /\ community THEN "no" ELSE e.info[Source(x)]
      BY <3>2, WrappedIs
    <3>5. ASSUME NEW x \in InRoom, Right(grp, e, Source(x))
          PROVE  room'[x] = Wrapped(grp)[x] \/ x \in off'
      <4>1. e.info[Source(x)] = grp[Source(x)] \/ Source(x) \in e.stale
        BY <3>1, <3>5 DEF Right
      <4>2. Source(x) \in e.stale => x \in e.stale
        BY <3>2 DEF Stales, Source
      <4> QED BY <2>3, <3>1, <3>3, <3>4, <4>1, <4>2
    <3> QED BY <2>4, <3>1, <3>3, <3>5 DEF Sets
  <2>7. CASE HandleChange
    <3> DEFINE again == {x \in e.joined : x \in levels \/ room[x] = "admin"}
               replies == {x \in DOMAIN e.set \cap {"announce"} : community /\ e.set[x] = "yes"}
               timer == {x \in {"timer"} : "locked" \in DOMAIN e.set /\ e.set["locked"] # room[x]}
    <3>1. /\ e.kind = "change"
          /\ room' = [x \in InRoom |-> IF x \in again THEN "admin"
                                      ELSE IF x \in DOMAIN e.set THEN e.set[x] ELSE room[x]]
          /\ off' = (off \ DOMAIN e.set) \cup again \cup replies \cup timer
          /\ levels' \subseteq levels \cup {x \in DOMAIN e.set : e.set[x] = "out"}
      BY <2>7 DEF HandleChange, ApplyChange, e
    <3>2. /\ \A x \in DOMAIN e.set : e.set[x] \in Levels
          /\ "announce" \in DOMAIN e.set => e.set["announce"] \in YesNo
          /\ DOMAIN e.set \subseteq Things /\ e.joined \subseteq Things
      BY <2>2, <3>1, EventsOK
    <3>3. "announce" \notin levels /\ "announce" \in InRoom /\ room["announce"] \in YesNo
      BY <2>3, SourceIs DEF GrInv, QueuesOK, Rooms
    <3>4. "announce" \notin levels'
      BY <3>1, <3>2, <3>3 DEF YesNo
    <3>5. room' \in Rooms
      <4>1. "announce" \notin again
        BY <3>3 DEF YesNo
      <4>2. room'["announce"] \in YesNo
        BY <3>1, <3>2, <3>3, <4>1
      <4>3. "admin" \in Levels /\ \A x \in InRoom : room[x] \in Levels
        BY <2>3 DEF Levels, Rooms
      <4> HIDE DEF again
      <4>4. room' \in [InRoom -> Levels]
        BY <3>1, <3>2, <4>3
      <4> QED BY <4>2, <4>4 DEF Rooms
    <3>6. \A x \in InRoom : Sets(e, Source(x)) <=> Source(x) \in DOMAIN e.set
      BY <3>1 DEF Sets
    <3>7. ASSUME NEW x \in InRoom, Source(x) \in DOMAIN e.set, Right(grp, e, Source(x))
          PROVE  room'[x] = Wrapped(grp)[x] \/ x \in off'
      <4>1. e.set[Source(x)] = grp[Source(x)]
        BY <3>1, <3>7 DEF Right
      <4>2. CASE x = "timer"
        <5>1. Source(x) = "locked" /\ x \notin Things /\ x # "announce"
          BY <4>2, SourceIs
        <5>2. x \notin again /\ x \notin DOMAIN e.set
          BY <3>2, <5>1
        <5>3. room'[x] = room[x]
          BY <3>1, <5>2
        <5>4. Wrapped(grp)[x] = e.set["locked"]
          BY <2>3, <4>1, <5>1
        <5>5. room[x] # e.set["locked"] => x \in timer
          BY <3>7, <4>2, <5>1
        <5> QED BY <3>1, <5>3, <5>4, <5>5
      <4>3. CASE x # "timer"
        <5>1. Source(x) = x
          BY <4>3 DEF Source
        <5>2. x \in again => x \in off'
          BY <3>1
        <5>3. x \notin again => room'[x] = e.set[x]
          BY <3>1, <3>7, <5>1
        <5>4. CASE x = "announce" /\ community
          <6>1. e.set[x] \in {"no", "yes"}
            BY <3>2, <3>7, <5>1, <5>4 DEF YesNo
          <6>2. e.set[x] = "yes" => x \in off'
            BY <3>1, <3>7, <5>1, <5>4
          <6>3. Wrapped(grp)[x] = "no"
            BY <2>3, <5>4
          <6> QED BY <5>2, <5>3, <6>1, <6>2, <6>3
        <5>5. CASE ~(x = "announce" /\ community)
          <6>1. Wrapped(grp)[x] = e.set[x]
            BY <2>3, <4>1, <5>1, <5>5
          <6> QED BY <5>2, <5>3, <6>1
        <5> QED BY <5>4, <5>5
      <4> QED BY <4>2, <4>3
    <3>8. ASSUME NEW x \in InRoom, Source(x) \notin DOMAIN e.set PROVE StaysAt(x)
      <4>1. x \notin DOMAIN e.set
        BY <3>2, <3>8, SourceIs
      <4>2. x \notin again => room'[x] = room[x]
        BY <3>1, <4>1
      <4>3. (x \in again => x \in off') /\ (x \in off => x \in off')
        BY <3>1, <4>1
      <4> QED BY <2>1, <4>2, <4>3 DEF StaysAt
    <3> QED BY <2>4, <3>4, <3>5, <3>6, <3>7, <3>8
  <2> QED BY <1>8, <2>5, <2>6, <2>7
<1>9. CASE UNCHANGED grVars
  BY <1>9 DEF grVars, GrInv, QueuesOK, Follows, Wrapped
<1> QED
  BY <1>1, <1>2, <1>3, <1>4, <1>5, <1>6, <1>7, <1>8, <1>9 DEF GrNext

\* For any members, changes and syncs, however events, snapshots and Matrix changes follow
\* each other, the room has the group's members, levels and settings once all that was
\* reported is handled (wrapGroupInfo, wrapGroupInfoChange), but for the exceptions
\* RoomFollowsGroup names.
THEOREM RoomsFollowGroups == GrSpec => []RoomFollowsGroup
  BY GrStarts, GrKeeps, GrImplies, PTL DEF GrSpec

-----------------------------------------------------------------------------
(* The connection and the state that is shown for it, for any number of waiting events. *)

UpEvents == {"offlineDone", "timeout", "restored"}
DownEvents == {"disconnected", "error", "bad", "loggedOut"}
UpStates == {"connected", "phoneOffline", "timeout"}

LastOf(q) == q[Len(q)]
NoLogout(q) == \A i \in 1..Len(q) : q[i] # "loggedOut"

\* The order of the waiting events: what was missed follows the connection, a connection
\* is lost after it was up, and nothing but a logout follows a logout.
ChainOK(q) ==
    \A i \in 1..Len(q) :
        /\ q[i] = "connected" => i # Len(q)
        /\ q[i] = "disconnected" /\ i > 1 => q[i - 1] \in UpEvents
        /\ i > 1 /\ q[i - 1] = "loggedOut" => q[i] = "loggedOut"

\* The part of ClTypeOK that the argument needs; what is connected is not up and has no
\* events waiting, unless that is an exception.
CallOK ==
    /\ clEvents \in Seq(Kinds)
    /\ phone \in {"never", "fresh", "aging", "overdue"}
    /\ calling \in {"idle", "proxy", "dial"}
    /\ profile \in {"idle", "look", "send"}
    /\ calling # "idle" /\ ~crossed => ~socket /\ ~reconnecting /\ clEvents = <<>>
    /\ ~(socket /\ reconnecting)

\* The last of the waiting events tells whether the socket is up.
EventsTell ==
    /\ ChainOK(clEvents)
    /\ socket \/ reconnecting \/ paired => NoLogout(clEvents)
    /\ socket /\ clEvents # <<>> => LastOf(clEvents) \in UpEvents
    /\ have /\ clEvents # <<>> =>
         /\ ~socket => LastOf(clEvents) \in DownEvents
         /\ reconnecting => LastOf(clEvents) = "disconnected"
         /\ clEvents[1] = "disconnected" /\ ~crossed => bridgeState \in UpStates

\* With none waiting the state does.
StateTells ==
    have /\ clEvents = <<>> /\ ~crossed =>
        /\ socket => /\ bridgeState \in UpStates
                     /\ bridgeState = "phoneOffline" => phone = "overdue"
        /\ reconnecting => bridgeState # "error"
        /\ ~socket /\ bridgeState = "connected" => phone = "overdue"

\* After a logout that crossed nothing all is over.
GoneIsGone ==
    ~have /\ ~crossed =>
        /\ calling = "idle" /\ clEvents = <<>> /\ profile = "idle"
        /\ ~socket /\ ~reconnecting /\ ~clLoops
        /\ bridgeState \in {"none", "bad", "gone"}

ClInv == background \/ (CallOK /\ EventsTell /\ StateTells /\ GoneIsGone)

LEMMA ClStarts == ClInit => ClInv
  BY DEF ClInit, ClInv, CallOK, EventsTell, StateTells, GoneIsGone, ChainOK, NoLogout

LEMMA ClImplies == ClInv => ShownIsTrue
  BY DEF ClInv, CallOK, StateTells, GoneIsGone, ShownIsTrue, Quiet, UpStates

LEMMA OneArrives ==
    ASSUME NEW q \in Seq(Kinds), NEW a \in Kinds, a # "connected", ChainOK(q),
           NoLogout(q) \/ a = "loggedOut",
           q = <<>> \/ LastOf(q) \in UpEvents \/ a # "disconnected",
           q = <<>> \/ LastOf(q) # "connected"
    PROVE  LET r == q \o <<a>>
           IN  /\ r \in Seq(Kinds) /\ r # <<>> /\ LastOf(r) = a /\ ChainOK(r)
               /\ a # "loggedOut" => NoLogout(r)
               /\ q # <<>> => r[1] = q[1]
               /\ q = <<>> => r[1] = a
<1> DEFINE r == q \o <<a>>
<1>1. /\ r \in Seq(Kinds) /\ Len(r) = Len(q) + 1 /\ Len(q) \in Nat
      /\ \A i \in 1..Len(q) : r[i] = q[i]
      /\ r[Len(q) + 1] = a
  OBVIOUS
<1>2. q = <<>> <=> Len(q) = 0
  OBVIOUS
<1> HIDE DEF r
<1>3. r # <<>> /\ LastOf(r) = a
  BY <1>1 DEF LastOf
<1>4. ChainOK(r)
  <2> SUFFICES ASSUME NEW i \in 1..(Len(q) + 1)
               PROVE  /\ r[i] = "connected" => i # Len(q) + 1
                      /\ r[i] = "disconnected" /\ i > 1 => r[i - 1] \in UpEvents
                      /\ i > 1 /\ r[i - 1] = "loggedOut" => r[i] = "loggedOut"
    BY <1>1 DEF ChainOK
  <2>1. CASE i = Len(q) + 1
    <3>1. i > 1 => r[i - 1] = LastOf(q) /\ (NoLogout(q) => r[i - 1] # "loggedOut")
      BY <1>1, <2>1 DEF LastOf, NoLogout
    <3> QED BY <1>1, <1>2, <2>1, <3>1
  <2>2. CASE i \in 1..Len(q)
    <3>1. r[i] = q[i] /\ (i > 1 => r[i - 1] = q[i - 1])
      BY <1>1, <2>2
    <3> QED BY <1>1, <2>2, <3>1 DEF ChainOK, NoLogout, LastOf
  <2> QED BY <1>1, <2>1, <2>2
<1>5. a # "loggedOut" => NoLogout(r)
  BY <1>1 DEF NoLogout
<1>6. (q # <<>> => r[1] = q[1]) /\ (q = <<>> => r[1] = a)
  BY <1>1, <1>2
<1> QED BY <1>1, <1>3, <1>4, <1>5, <1>6 DEF r

LEMMA TwoArrive ==
    ASSUME NEW q \in Seq(Kinds), ChainOK(q), NoLogout(q), q = <<>> \/ LastOf(q) # "connected"
    PROVE  LET r == q \o <<"connected", "offlineDone">>
           IN  /\ r \in Seq(Kinds) /\ r # <<>> /\ LastOf(r) = "offlineDone" /\ ChainOK(r)
               /\ NoLogout(r)
               /\ q # <<>> => r[1] = q[1]
               /\ q = <<>> => r[1] = "connected"
<1> DEFINE r == q \o <<"connected", "offlineDone">>
<1>1. /\ r \in Seq(Kinds) /\ Len(r) = Len(q) + 2 /\ Len(q) \in Nat
      /\ \A i \in 1..Len(q) : r[i] = q[i]
      /\ r[Len(q) + 1] = "connected" /\ r[Len(q) + 2] = "offlineDone"
  BY DEF Kinds
<1>2. q = <<>> <=> Len(q) = 0
  OBVIOUS
<1> HIDE DEF r
<1>3. r # <<>> /\ LastOf(r) = "offlineDone"
  BY <1>1 DEF LastOf
<1>4. ChainOK(r)
  <2> SUFFICES ASSUME NEW i \in 1..(Len(q) + 2)
               PROVE  /\ r[i] = "connected" => i # Len(q) + 2
                      /\ r[i] = "disconnected" /\ i > 1 => r[i - 1] \in UpEvents
                      /\ i > 1 /\ r[i - 1] = "loggedOut" => r[i] = "loggedOut"
    BY <1>1 DEF ChainOK
  <2>1. CASE i \in {Len(q) + 1, Len(q) + 2}
    <3>1. i > 1 => r[i - 1] # "loggedOut"
      BY <1>1, <2>1 DEF NoLogout
    <3> QED BY <1>1, <2>1, <3>1
  <2>2. CASE i \in 1..Len(q)
    <3>1. r[i] = q[i] /\ (i > 1 => r[i - 1] = q[i - 1])
      BY <1>1, <2>2
    <3> QED BY <1>1, <2>2, <3>1 DEF ChainOK, NoLogout, LastOf
  <2> QED BY <1>1, <2>1, <2>2
<1>5. NoLogout(r)
  <2> SUFFICES ASSUME NEW i \in 1..(Len(q) + 2) PROVE r[i] # "loggedOut"
    BY <1>1 DEF NoLogout
  <2>1. i \in 1..Len(q) \/ i = Len(q) + 1 \/ i = Len(q) + 2
    BY <1>1
  <2> QED BY <1>1, <2>1 DEF NoLogout
<1>6. (q # <<>> => r[1] = q[1]) /\ (q = <<>> => r[1] = "connected")
  BY <1>1, <1>2
<1> QED BY <1>1, <1>3, <1>4, <1>5, <1>6 DEF r

LEMMA OneHandled ==
    ASSUME NEW q \in Seq(Kinds), q # <<>>, ChainOK(q)
    PROVE  LET t == Tail(q)
           IN  /\ t \in Seq(Kinds) /\ ChainOK(t) /\ (NoLogout(q) => NoLogout(t))
               /\ Head(q) = q[1]
               /\ Head(q) = "connected" => t # <<>>
               /\ t # <<>> => /\ LastOf(t) = LastOf(q)
                              /\ t[1] = "disconnected" => Head(q) \in UpEvents
               /\ t = <<>> => Head(q) = LastOf(q)
<1> DEFINE t == Tail(q)
<1>1. /\ t \in Seq(Kinds) /\ Len(t) = Len(q) - 1 /\ Len(q) \in Nat \ {0} /\ Head(q) = q[1]
      /\ \A i \in 1..(Len(q) - 1) : t[i] = q[i + 1]
  BY TailFacts
<1>2. t = <<>> <=> Len(q) = 1
  BY <1>1
<1> HIDE DEF t
<1>3. ChainOK(t) /\ (NoLogout(q) => NoLogout(t))
  <2>1. ASSUME NEW i \in 1..Len(t)
        PROVE  /\ t[i] = "connected" => i # Len(t)
               /\ t[i] = "disconnected" /\ i > 1 => t[i - 1] \in UpEvents
               /\ i > 1 /\ t[i - 1] = "loggedOut" => t[i] = "loggedOut"
               /\ NoLogout(q) => t[i] # "loggedOut"
    <3>1. i + 1 \in 1..Len(q) /\ t[i] = q[i + 1] /\ (i > 1 => t[i - 1] = q[i])
      BY <1>1
    <3> QED BY <1>1, <3>1 DEF ChainOK, NoLogout
  <2> QED BY <2>1 DEF ChainOK, NoLogout
<1>4. Head(q) = "connected" => t # <<>>
  BY <1>1, <1>2 DEF ChainOK
<1>5. t # <<>> => LastOf(t) = LastOf(q) /\ (t[1] = "disconnected" => Head(q) \in UpEvents)
  BY <1>1, <1>2 DEF ChainOK, LastOf
<1>6. t = <<>> => Head(q) = LastOf(q)
  BY <1>1, <1>2 DEF LastOf
<1> QED BY <1>1, <1>3, <1>4, <1>5, <1>6 DEF t

\* The steps that add to the waiting events.
LEMMA ArrivalKeeps ==
    ASSUME ~background, ClInv, ConnectDone \/ SocketDrops \/ AutoReconnect \/ Unpaired
             \/ Kicked("error") \/ Kicked("bad") \/ KeepAlive("timeout") \/ KeepAlive("restored")
    PROVE  ClInv'
<1> USE DEF ClInv
<1> DEFINE q == clEvents
<1>1. UNCHANGED <<background, have, phone, profile, bridgeState, crossed>>
  BY DEF ConnectDone, SocketDrops, AutoReconnect, Unpaired, Kicked, KeepAlive
<1>2. /\ calling' \in {"idle", calling} /\ (calling' = "idle" \/ crossed)
      /\ socket \/ reconnecting \/ calling = "dial"
      /\ q \in Seq(Kinds) /\ ChainOK(q) /\ (socket \/ reconnecting \/ paired => NoLogout(q))
  BY DEF ConnectDone, SocketDrops, AutoReconnect, Unpaired, Kicked, KeepAlive, CallOK, EventsTell
<1>3. q = <<>> \/ LastOf(q) # "connected"
  BY <1>2 DEF EventsTell, ChainOK, LastOf, CallOK
<1>4. have \/ crossed
  BY <1>2 DEF GoneIsGone
<1>5. ASSUME NEW a \in Kinds, a # "connected", clEvents' = q \o <<a>>, a = "disconnected" => socket,
             NoLogout(q) \/ a = "loggedOut", a = "loggedOut" => ~paired' /\ ~reconnecting',
             a \in IF socket' THEN UpEvents ELSE DownEvents,
             reconnecting' => a = "disconnected", socket' => ~reconnecting'
      PROVE  ClInv'
  <2>1. /\ clEvents' \in Seq(Kinds) /\ clEvents' # <<>> /\ LastOf(clEvents') = a
        /\ ChainOK(clEvents') /\ (a # "loggedOut" => NoLogout(clEvents'))
        /\ q # <<>> => clEvents'[1] = q[1]
        /\ q = <<>> => clEvents'[1] = a
    BY <1>2, <1>3, <1>5, OneArrives DEF EventsTell
  <2>2. CallOK'
    BY <1>1, <1>2, <1>5, <2>1 DEF CallOK
  <2>3. have /\ ~crossed /\ clEvents'[1] = "disconnected" => bridgeState \in UpStates
    BY <1>5, <2>1 DEF EventsTell, StateTells
  <2>4. EventsTell'
    BY <1>1, <1>5, <2>1, <2>3 DEF EventsTell, UpEvents, DownEvents
  <2>5. StateTells' /\ GoneIsGone'
    BY <1>1, <1>4, <2>1 DEF StateTells, GoneIsGone
  <2> QED BY <2>2, <2>4, <2>5
<1>6. ASSUME clEvents' = q \o <<"connected", "offlineDone">>, socket', ~reconnecting', NoLogout(q)
      PROVE  ClInv'
  <2>1. /\ clEvents' \in Seq(Kinds) /\ clEvents' # <<>> /\ LastOf(clEvents') = "offlineDone"
        /\ ChainOK(clEvents') /\ NoLogout(clEvents')
        /\ q # <<>> => clEvents'[1] = q[1]
        /\ q = <<>> => clEvents'[1] = "connected"
    BY <1>2, <1>3, <1>6, TwoArrive
  <2>2. CallOK'
    BY <1>1, <1>2, <1>6, <2>1 DEF CallOK
  <2>3. EventsTell'
    BY <1>1, <1>6, <2>1 DEF EventsTell, UpEvents
  <2>4. StateTells' /\ GoneIsGone'
    BY <1>1, <1>4, <2>1 DEF StateTells, GoneIsGone
  <2> QED BY <2>2, <2>3, <2>4
<1>7. CASE ConnectDone \/ AutoReconnect
  <2>1. ~reconnecting'
    BY <1>7 DEF ConnectDone, AutoReconnect, CallOK
  <2>2. CASE paired
    <3>1. socket' /\ clEvents' = q \o <<"connected", "offlineDone">> /\ NoLogout(q)
      BY <1>2, <1>7, <2>2 DEF ConnectDone, AutoReconnect, ComesUp, Dispatch
    <3> QED BY <1>6, <2>1, <3>1
  <2>3. CASE ~paired
    <3>1. ~socket' /\ ~paired' /\ clEvents' = q \o <<"loggedOut">>
      BY <1>7, <2>3 DEF ConnectDone, AutoReconnect, ComesUp, Dispatch
    <3> QED BY <1>5, <2>1, <3>1 DEF Kinds, DownEvents
  <2> QED BY <2>2, <2>3
<1>8. CASE SocketDrops
  <2>1. clEvents' = q \o <<"disconnected">> /\ socket /\ ~socket' /\ NoLogout(q)
    BY <1>2, <1>8 DEF SocketDrops, Dispatch
  <2> QED BY <1>5, <2>1 DEF Kinds, DownEvents
<1>9. CASE Unpaired \/ Kicked("error") \/ Kicked("bad")
  <2>1. /\ \E a \in {"loggedOut", "error", "bad"} :
             clEvents' = q \o <<a>> /\ (a = "loggedOut" => ~paired')
        /\ ~socket' /\ ~reconnecting' /\ NoLogout(q)
    BY <1>2, <1>9 DEF Unpaired, Kicked, Dispatch, CallOK
  <2> QED BY <1>5, <2>1 DEF Kinds, DownEvents
<1>10. CASE KeepAlive("timeout") \/ KeepAlive("restored")
  <2>1. /\ \E a \in {"timeout", "restored"} : clEvents' = q \o <<a>>
        /\ socket' /\ ~reconnecting' /\ NoLogout(q)
    BY <1>2, <1>10 DEF KeepAlive, Dispatch, CallOK
  <2> QED BY <1>5, <2>1 DEF Kinds, UpEvents
<1> QED BY <1>7, <1>8, <1>9, <1>10

\* The steps of handleWAEvent.
LEMMA HandlingKeeps ==
    ASSUME ~background, ClInv, HandleConnected \/ HandleOfflineDone \/ HandleDisconnected
             \/ HandleLoggedOut \/ HandleState
    PROVE  ClInv'
<1> USE DEF ClInv
<1> DEFINE q == clEvents
           h == Head(clEvents)
<1>1. /\ q # <<>> /\ clEvents' = Tail(q) /\ UNCHANGED <<background, paired, calling, phone>>
      /\ q \in Seq(Kinds) /\ ChainOK(q)
  BY DEF HandleConnected, HandleOfflineDone, HandleDisconnected, HandleLoggedOut, HandleState,
         Handling, CallOK, EventsTell
<1>2. /\ clEvents' \in Seq(Kinds) /\ ChainOK(clEvents') /\ (NoLogout(q) => NoLogout(clEvents'))
      /\ h = q[1]
      /\ h = "connected" => clEvents' # <<>>
      /\ clEvents' # <<>> => /\ LastOf(clEvents') = LastOf(q)
                             /\ clEvents'[1] = "disconnected" => h \in UpEvents
      /\ clEvents' = <<>> => h = LastOf(q)
  BY <1>1, OneHandled
<1>3. (calling = "idle" \/ crossed) /\ (have \/ crossed)
  BY <1>1 DEF CallOK, GoneIsGone
<1> HIDE DEF h
<1>4. CASE HandleLoggedOut
  <2>1. /\ ~have' /\ ~socket' /\ ~reconnecting' /\ ~clLoops'
        /\ bridgeState' = "bad" /\ profile' = profile
        /\ ~crossed' => profile = "idle" /\ calling = "idle" /\ clEvents' = <<>>
    BY <1>2, <1>4 DEF HandleLoggedOut, Handling, Disconnect, SendState, Shown, h
  <2>2. CallOK'
    BY <1>1, <1>3, <2>1 DEF CallOK
  <2>3. EventsTell' /\ StateTells' /\ GoneIsGone'
    BY <1>1, <1>2, <1>3, <2>1 DEF EventsTell, StateTells, GoneIsGone
  <2> QED BY <2>2, <2>3
<1>5. ASSUME UNCHANGED <<have, socket, reconnecting>>, profile' \in {profile, "look"},
             crossed => \/ crossed'
                        \/ have /\ calling = "idle" /\ h = "connected",
             h \in UpEvents => bridgeState' \in UpStates,
             clEvents' = <<>> /\ have /\ ~crossed =>
               /\ h \in UpEvents => (bridgeState' = "phoneOffline" => phone = "overdue")
               /\ h \in DownEvents => (bridgeState' = "connected" => phone = "overdue")
               /\ h = "disconnected" => bridgeState' # "error"
      PROVE  ClInv'
  <2>1. CallOK'
    BY <1>1, <1>2, <1>3, <1>5 DEF CallOK
  <2>2. EventsTell'
    BY <1>1, <1>2, <1>5 DEF EventsTell
  <2>3. StateTells'
    BY <1>1, <1>2, <1>5 DEF StateTells, EventsTell
  <2>4. GoneIsGone'
    BY <1>3, <1>5 DEF GoneIsGone
  <2> QED BY <1>1, <2>1, <2>2, <2>3, <2>4
<1>6. \A s : s # "connected" /\ SendState(s) => bridgeState' = s
  BY DEF SendState, Shown, PhoneRecentlySeen
<1>7. CASE HandleConnected
  <2>1. h = "connected" /\ SendState("connected")
    BY <1>7 DEF HandleConnected, Handling, h
  <2>2. clEvents' # <<>> /\ h \notin UpEvents
    BY <1>2, <2>1 DEF UpEvents
  <2>3. UNCHANGED <<have, socket, reconnecting>> /\ profile' \in {profile, "look"}
    BY <1>7 DEF HandleConnected
  <2>4. crossed => (crossed' \/ (have /\ calling = "idle" /\ h = "connected"))
    BY <1>7, <2>1 DEF HandleConnected
  <2> QED BY <1>5, <2>2, <2>3, <2>4
<1>8. CASE HandleOfflineDone
  <2>1. h = "offlineDone" /\ SendState("connected")
    BY <1>8 DEF HandleOfflineDone, Handling, h
  <2>2. UNCHANGED <<have, socket, reconnecting, profile, crossed>>
    BY <1>8 DEF HandleOfflineDone
  <2>3. bridgeState' \in {"connected", "phoneOffline"} /\ (bridgeState' = "phoneOffline" => phone = "overdue")
    BY <2>1 DEF SendState, Shown, PhoneRecentlySeen
  <2> QED BY <1>5, <2>1, <2>2, <2>3 DEF UpEvents, DownEvents, UpStates
<1>9. CASE HandleDisconnected
  <2>1. /\ h = "disconnected"
        /\ IF bridgeState # "phoneOffline" /\ PhoneRecentlySeen
           THEN SendState("disconnected") ELSE UNCHANGED bridgeState
    BY <1>9 DEF HandleDisconnected, Handling, h
  <2>2. UNCHANGED <<have, socket, reconnecting, profile, crossed>>
    BY <1>9 DEF HandleDisconnected
  <2>3. have /\ ~crossed => bridgeState \in UpStates
    BY <1>1, <1>2, <2>1 DEF EventsTell
  <2> QED BY <1>5, <1>6, <2>1, <2>2, <2>3 DEF UpEvents, DownEvents, UpStates, PhoneRecentlySeen
<1>10. CASE HandleState
  <2>1. UNCHANGED <<have, socket, reconnecting, profile, crossed>>
    BY <1>10 DEF HandleState
  <2>2. CASE \E kind \in {"error", "bad"} : h = kind /\ SendState(kind)
    BY <1>5, <1>6, <2>1, <2>2 DEF UpEvents, DownEvents
  <2>3. CASE h = "timeout" /\ SendState("timeout")
    BY <1>5, <1>6, <2>1, <2>3 DEF UpEvents, DownEvents, UpStates
  <2>4. CASE h = "restored" /\ SendState("connected")
    <3>1. bridgeState' \in {"connected", "phoneOffline"} /\ (bridgeState' = "phoneOffline" => phone = "overdue")
      BY <2>4 DEF SendState, Shown, PhoneRecentlySeen
    <3> QED BY <1>5, <2>1, <2>4, <3>1 DEF UpEvents, DownEvents, UpStates
  <2> QED BY <1>10, <2>2, <2>3, <2>4 DEF HandleState, Handling, h
<1> QED BY <1>4, <1>7, <1>8, <1>9, <1>10

LEMMA ClKeeps == ClInv /\ [ClNext]_clVars => ClInv'
<1> SUFFICES ASSUME ClInv, [ClNext]_clVars PROVE ClInv'
  OBVIOUS
<1> USE DEF ClInv
<1>1. CASE background
  <2>1. background' = background
    BY DEF ClNext, clVars, ConnectStart, ConnectCancelled, ConnectGo, ConnectPanics, ConnectDone, ConnectFails,
           BackgroundStart, BackgroundDial, BackgroundDone, LogoutRemote, SocketDrops,
           AutoReconnect, Kicked, KeepAlive, Unpaired, HandleConnected, HandleOfflineDone,
           HandleDisconnected, HandleLoggedOut, HandleState, ProfileLook, ProfileSend, PhoneSeen,
           PhoneAges
  <2> QED BY <1>1, <2>1
<1>2. CASE ~background
  <2> USE <1>2
  <2>1. CallOK /\ EventsTell /\ StateTells /\ GoneIsGone
    OBVIOUS
  <2>2. CASE ConnectDone \/ SocketDrops \/ AutoReconnect \/ Unpaired
             \/ Kicked("error") \/ Kicked("bad") \/ KeepAlive("timeout") \/ KeepAlive("restored")
    BY <2>2, ArrivalKeeps
  <2>3. CASE HandleConnected \/ HandleOfflineDone \/ HandleDisconnected \/ HandleLoggedOut
               \/ HandleState
    BY <2>3, HandlingKeeps
  <2>4. CASE ConnectStart \/ ConnectCancelled \/ ConnectGo \/ ConnectFails
    <3>1. /\ UNCHANGED <<have, paired, socket, reconnecting, clEvents, phone, profile>>
          /\ calling' \in {"idle", "proxy", "dial"}
      BY <2>1, <2>4 DEF ConnectStart, ConnectCancelled, ConnectGo, ConnectFails, CallOK
    <3>2. /\ crossed => crossed'
          /\ have /\ ~crossed' => clEvents = <<>> /\ ~socket /\ ~reconnecting
      <4>1. CASE ConnectStart
        BY <4>1, Zenon DEF ConnectStart
      <4>2. CASE ConnectCancelled \/ ConnectGo \/ ConnectFails
        <5>1. crossed' = crossed /\ calling # "idle"
          BY <4>2 DEF ConnectCancelled, ConnectGo, ConnectFails
        <5> QED BY <2>1, <5>1 DEF CallOK
      <4> QED BY <2>4, <4>1, <4>2
    <3>3. /\ bridgeState' \in {"connecting", "bad", "error", bridgeState}
          /\ ~have /\ ~crossed => /\ calling' = "idle" /\ clLoops' = clLoops
                                  /\ bridgeState' = "bad"
      BY <2>1, <2>4 DEF ConnectStart, ConnectCancelled, ConnectGo, ConnectFails, SendState, Shown,
                        GoneIsGone
    <3>4. CallOK'
      BY <2>1, <3>1, <3>2, <3>3 DEF CallOK, GoneIsGone
    <3>5. EventsTell'
      BY <2>1, <3>1, <3>2 DEF EventsTell
    <3>6. StateTells'
      BY <2>1, <3>1, <3>2, <3>3 DEF StateTells
    <3>7. GoneIsGone'
      BY <2>1, <3>1, <3>2, <3>3 DEF GoneIsGone
    <3> QED BY <3>4, <3>5, <3>6, <3>7
  <2>5. CASE ConnectPanics
    <3>1. /\ ~have' /\ clEvents' = <<>> /\ ~socket' /\ ~reconnecting' /\ ~clLoops'
          /\ calling' = "idle" /\ profile' = "idle" /\ phone' = phone /\ bridgeState' = "none"
      BY <2>5 DEF ConnectPanics
    <3> QED BY <2>1, <3>1 DEF CallOK, EventsTell, StateTells, GoneIsGone, ChainOK, NoLogout
  <2>6. CASE BackgroundStart \/ BackgroundDial \/ BackgroundDone
    BY <2>1, <2>6 DEF BackgroundStart, BackgroundDial, BackgroundDone, CallOK
  <2>7. CASE LogoutRemote
    <3>1. /\ ~have' /\ ~socket' /\ ~reconnecting' /\ ~clLoops' /\ bridgeState' = "gone"
          /\ UNCHANGED <<calling, clEvents, phone, profile>> /\ (paired' => paired)
          /\ ~crossed' => calling = "idle" /\ profile = "idle" /\ clEvents = <<>>
      BY <2>7 DEF LogoutRemote, Disconnect
    <3> QED BY <2>1, <3>1 DEF CallOK, EventsTell, StateTells, GoneIsGone
  <2>8. CASE ProfileLook \/ ProfileSend
    <3>1. /\ UNCHANGED <<have, paired, socket, reconnecting, clLoops, calling, clEvents, phone>>
          /\ profile # "idle" /\ profile' \in {"idle", "send"}
      BY <2>8 DEF ProfileLook, ProfileSend
    <3>2. crossed => crossed'
      BY <2>8, Zenon DEF ProfileLook, ProfileSend
    <3>3. have \/ crossed
      BY <2>1, <3>1 DEF GoneIsGone
    <3>4. \/ bridgeState' = bridgeState /\ crossed' = crossed
          \/ /\ bridgeState' \in {"connected", "phoneOffline"}
             /\ bridgeState' = "phoneOffline" => phone = "overdue"
             /\ ~crossed' => socket
      BY <2>8 DEF ProfileLook, ProfileSend, SendState, Shown, PhoneRecentlySeen
    <3>5. CallOK'
      BY <2>1, <3>1, <3>2 DEF CallOK
    <3>6. EventsTell'
      BY <2>1, <3>1, <3>2, <3>4 DEF EventsTell, UpStates
    <3>7. StateTells'
      BY <2>1, <3>1, <3>2, <3>4 DEF StateTells, UpStates
    <3>8. GoneIsGone'
      BY <3>2, <3>1, <3>3 DEF GoneIsGone
    <3> QED BY <3>5, <3>6, <3>7, <3>8
  <2>9. CASE PhoneSeen \/ PhoneAges
    <3>1. /\ UNCHANGED <<have, paired, socket, reconnecting, clLoops, calling, clEvents, profile,
                         crossed>>
          /\ phone' \in {"fresh", "aging", "overdue"}
      BY <2>9 DEF PhoneSeen, PhoneAges
    <3>2. \/ /\ have /\ socket /\ phone' = "fresh"
             /\ bridgeState' = IF phone = "overdue" /\ bridgeState = "phoneOffline" THEN "connected"
                               ELSE bridgeState
          \/ phone # "overdue" /\ bridgeState' = bridgeState
      BY <2>9 DEF PhoneSeen, PhoneAges, PhoneRecentlySeen
    <3>3. CallOK'
      BY <2>1, <3>1 DEF CallOK
    <3>4. EventsTell'
      BY <2>1, <3>1, <3>2 DEF EventsTell, UpStates
    <3>5. StateTells'
      BY <2>1, <3>1, <3>2 DEF StateTells, UpStates
    <3>6. GoneIsGone'
      BY <2>1, <3>1, <3>2 DEF GoneIsGone
    <3> QED BY <3>3, <3>4, <3>5, <3>6
  <2>10. CASE UNCHANGED clVars
    BY <2>1, <2>10 DEF clVars, CallOK, EventsTell, StateTells, GoneIsGone
  <2> QED BY <2>2, <2>3, <2>4, <2>5, <2>6, <2>7, <2>8, <2>9, <2>10 DEF ClNext
<1> QED BY <1>1, <1>2

\* Once everything that happened to the connection was handled, the user is shown what is
\* true, whatever the order of the socket's events, of the framework's calls and of the
\* goroutine that syncs the profile, and however many events wait.
THEOREM ShownStateIsTrue == ClSpec => []ShownIsTrue
<1>1. ClSpec => []ClInv
  BY ClStarts, ClKeeps, PTL DEF ClSpec
<1> QED BY <1>1, ClImplies, PTL

-----------------------------------------------------------------------------
(* The places of an album's items that come from WhatsApp, for any number of messages
   and any scan length. *)

LEMMA Least ==
    ASSUME NEW T, T \subseteq Nat, T # {}
    PROVE  \E x \in T : \A y \in T : x <= y
<1> DEFINE R == OpToRel(<, Nat)
<1>1. IsWellFoundedOn(R, Nat)
  BY NatLessThanWellFounded, Zenon
<1>2. \A x, y \in Nat : y < x => <<y, x>> \in R
  BY DEF OpToRel
<1> HIDE DEF R
<1>3. PICK x \in T : \A y \in T : ~(<<y, x>> \in R)
  BY <1>1, WFMin
<1>4. ASSUME NEW y \in T PROVE x <= y
  <2>1. x \in Nat /\ y \in Nat /\ ~(y < x)
    BY <1>2, <1>3
  <2> QED BY <2>1
<1> QED BY <1>4

LEMMA Greatest ==
    ASSUME NEW T, T \subseteq Nat, T # {}, NEW n \in Nat, \A x \in T : x <= n
    PROVE  \E x \in T : \A y \in T : y <= x
<1> DEFINE U == {k \in 0..n : n - k \in T}
<1>1. PICK k \in U : \A j \in U : k <= j
  <2>1. U \subseteq Nat /\ U # {}
    <3>1. PICK x \in T : TRUE
      OBVIOUS
    <3>2. n - x \in U
      BY <3>1
    <3> QED BY <3>2
  <2> QED BY <2>1, Least
<1>2. \A y \in T : n - y \in U
  OBVIOUS
<1> QED BY <1>1, <1>2

\* The number of the elements up to m tells the elements of a set apart.
LEMMA RankInRange ==
    ASSUME NEW N \in Nat, NEW S \in SUBSET (1..N), NEW a \in S
    PROVE  IsFiniteSet({k \in S : k <= a}) /\ Cardinality({k \in S : k <= a}) \in 1..N
<1> DEFINE A == {k \in S : k <= a}
<1>1. IsFiniteSet(1..N) /\ Cardinality(1..N) = N
  BY FS_Interval
<1>2. A \in SUBSET (1..N)
  OBVIOUS
<1>3. a \in A
  OBVIOUS
<1> HIDE DEF A
<1>4. IsFiniteSet(A) /\ Cardinality(A) <= N
  BY <1>1, <1>2, FS_Subset, ZenonT(40)
<1>5. Cardinality(A) \in Nat /\ Cardinality(A) # 0
  BY <1>3, <1>4, FS_CardinalityType, FS_EmptySet
<1>6. IsFiniteSet(A) /\ Cardinality(A) \in 1..N
  BY <1>4, <1>5
<1> QED BY <1>6 DEF A

LEMMA RanksDiffer ==
    ASSUME NEW N \in Nat, NEW S \in SUBSET (1..N), NEW a \in S, NEW b \in S, a < b
    PROVE  Cardinality({k \in S : k <= a}) < Cardinality({k \in S : k <= b})
<1> DEFINE A == {k \in S : k <= a}
           B == {k \in S : k <= b}
<1>1. /\ IsFiniteSet(A) /\ Cardinality(A) \in 1..N
      /\ IsFiniteSet(B) /\ Cardinality(B) \in 1..N
  BY RankInRange
<1>2. A \in SUBSET B
  <2> SUFFICES ASSUME NEW k \in S, k <= a PROVE k <= b
    OBVIOUS
  <2>1. k \in Nat /\ a \in Nat /\ b \in Nat
    OBVIOUS
  <2> QED BY <2>1
<1>3. b \in B /\ b \notin A
  OBVIOUS
<1> HIDE DEF A, B
<1>4. Cardinality(A) <= Cardinality(B) /\ Cardinality(A) # Cardinality(B)
  BY <1>1, <1>2, <1>3, FS_Subset
<1>5. Cardinality(A) < Cardinality(B)
  BY <1>1, <1>4
<1> QED BY <1>5 DEF A, B

\* Nothing but a row has a place.
AiInv == /\ {kids, rows} \subseteq SUBSET Chat
         /\ place \in [Chat -> 0..AiMsgs]
         /\ \A m \in Chat \ rows : place[m] = 0
         /\ IndexesDiffer

LEMMA NextIsNew ==
    ASSUME AiInv, NEW rs \in SUBSET Chat
    PROVE  /\ NextAlbumIndex(rs) \in Nat \ {0}
           /\ \A r \in rs : place[r] < NextAlbumIndex(rs)
<1> DEFINE T == {place[r] : r \in rs} \cup {0}
           P(n) == /\ n = 0 \/ \E r \in rs : place[r] = n
                   /\ \A r \in rs : place[r] <= n
<1>1. T \subseteq 0..AiMsgs /\ T # {}
  BY AiAssumption DEF AiInv
<1>2. PICK n \in T : \A y \in T : y <= n
  <2>1. T \subseteq Nat /\ AiMsgs \in Nat /\ \A x \in T : x <= AiMsgs
    BY <1>1, AiAssumption
  <2> QED BY <1>1, <2>1, Greatest
<1>3. n \in 0..AiMsgs /\ P(n)
  BY <1>1, <1>2
<1>4. (CHOOSE k \in 0..AiMsgs : P(k)) \in 0..AiMsgs /\ P(CHOOSE k \in 0..AiMsgs : P(k))
  BY <1>3
<1>5. NextAlbumIndex(rs) = 1 + (CHOOSE k \in 0..AiMsgs : P(k))
  BY DEF NextAlbumIndex
<1>6. \A r \in rs : place[r] \in Nat
  BY DEF AiInv
<1> QED BY <1>4, <1>5, <1>6

LEMMA AiStarts == AiInit => AiInv
  BY AiAssumption DEF AiInit, AiInv, IndexesDiffer, Placed, Chat

LEMMA LiveKeeps ==
    ASSUME AiInv, NEW m \in Chat, NEW readable \in BOOLEAN, Live(m, readable)
    PROVE  AiInv'
<1> USE AiAssumption
<1> DEFINE p == place'[m]
<1>1. Recent \in SUBSET Chat
  BY DEF Recent, AiInv
<1>2. /\ NextAlbumIndex(Recent) \in Nat \ {0}
      /\ \A r \in Recent : place[r] < NextAlbumIndex(Recent)
  BY <1>1, NextIsNew
<1>3. p \in 0..AiMsgs
  BY <1>2 DEF Live, AlbumIndexFromDB, AiInv, Chat
<1>4. /\ place' = [place EXCEPT ![m] = p] /\ rows' = rows \cup {m} /\ kids' = kids
  BY DEF Live, AiInv
<1>5. ASSUME ~loose', p # 0
      PROVE  \A r \in Placed : r # m => place[r] # p
  <2>1. ~loose /\ GetsAlbum(m) /\ readable /\ Placed \subseteq Recent
    BY <1>5 DEF Live, AiInv
  <2>2. p = AlbumIndexFromDB(m)
    BY <2>1 DEF Live, AiInv
  <2>3. CASE m \in Recent /\ place[m] # 0
    BY <2>1, <2>2, <2>3 DEF AlbumIndexFromDB, AiInv, IndexesDiffer, Placed, Recent
  <2>4. CASE ~(m \in Recent /\ place[m] # 0)
    <3>1. p = NextAlbumIndex(Recent)
      BY <2>2, <2>4 DEF AlbumIndexFromDB
    <3>2. \A r \in Placed : place[r] \in Nat /\ place[r] < p
      BY <1>2, <2>1, <3>1 DEF Placed, AiInv
    <3>3. p \in Nat
      BY <1>2, <3>1
    <3> QED BY <3>2, <3>3
  <2> QED BY <2>3, <2>4
<1>6. ~loose' => ~loose
  BY DEF Live
<1> HIDE DEF p
<1>7. IndexesDiffer'
  <2> SUFFICES ASSUME ~loose', NEW a \in Placed', NEW b \in Placed', a # b
               PROVE  place'[a] # place'[b]
    BY DEF IndexesDiffer
  <2>1. \A x \in Chat \ {m} : place'[x] = place[x]
    BY <1>4 DEF AiInv
  <2>2. place'[m] = p
    BY <1>4 DEF AiInv
  <2>3. \A x \in Placed' \ {m} : x \in Placed /\ x \in Chat
    BY <1>4, <2>1 DEF Placed, AiInv
  <2>4. m \in Placed' => p # 0
    BY <2>2 DEF Placed
  <2>5. \A x, y \in Placed : x # y => place[x] # place[y]
    BY <1>6 DEF AiInv, IndexesDiffer
  <2> QED BY <1>5, <2>1, <2>2, <2>3, <2>4, <2>5
<1> QED BY <1>3, <1>4, <1>7 DEF AiInv

LEMMA BatchKeeps ==
    ASSUME AiInv, NEW ms \in SUBSET Chat, Batch(ms)
    PROVE  AiInv'
<1> USE AiAssumption
<1> DEFINE S == ms \cap kids
           Rank(m) == Cardinality({k \in S : k <= m})
<1>1. S \in SUBSET (1..AiMsgs) /\ AiMsgs \in Nat
  BY DEF Chat
<1>2. \A m \in S : Rank(m) \in 1..AiMsgs
  BY <1>1, RankInRange
<1>3. \A a, b \in S : a < b => Rank(a) < Rank(b)
  BY <1>1, RanksDiffer
<1>4. place' = [m \in Chat |-> IF m \in ms /\ GetsAlbum(m) THEN Rank(m) ELSE place[m]]
  BY DEF Batch
<1>5. \A m : GetsAlbum(m) => m \in kids
  BY DEF GetsAlbum
<1> HIDE DEF Rank
<1>6. /\ rows' = rows \cup ms /\ ms \cap rows = {} /\ kids' = kids
      /\ ~loose' => ~loose /\ (Placed = {} \/ S = {})
  BY DEF Batch
<1>7. place' \in [Chat -> 0..AiMsgs] /\ \A m \in Chat \ rows' : place'[m] = 0
  BY <1>2, <1>4, <1>5, <1>6 DEF AiInv
<1>8. IndexesDiffer'
  <2> SUFFICES ASSUME ~loose', NEW a \in Placed', NEW b \in Placed', a # b
               PROVE  place'[a] # place'[b]
    BY DEF IndexesDiffer
  <2>1. a \in Chat /\ b \in Chat /\ place'[a] # 0 /\ place'[b] # 0 /\ a \in rows' /\ b \in rows'
    BY <1>6 DEF Placed, AiInv
  <2>2. CASE S = {}
    <3>1. place' = place
      BY <1>4, <1>5, <2>2 DEF AiInv
    <3>2. a \in Placed /\ b \in Placed
      BY <2>1, <3>1 DEF Placed, AiInv
    <3> QED BY <1>6, <3>1, <3>2 DEF AiInv, IndexesDiffer
  <2>3. CASE Placed = {}
    <3>1. \A x \in Chat : place[x] = 0
      BY <2>3 DEF Placed, AiInv
    <3>2. a \in S /\ b \in S /\ place'[a] = Rank(a) /\ place'[b] = Rank(b)
      BY <1>4, <1>5, <2>1, <3>1
    <3>3. a \in Nat /\ b \in Nat /\ (a < b \/ b < a)
      BY <2>1 DEF Chat
    <3>4. Rank(a) \in Nat /\ Rank(b) \in Nat
      BY <1>2, <3>2
    <3> QED BY <1>3, <3>2, <3>3, <3>4
  <2> QED BY <1>6, <2>2, <2>3
<1> QED BY <1>6, <1>7, <1>8 DEF AiInv

LEMMA AiKeeps == AiInv /\ [AiNext]_aiVars => AiInv'
<1> SUFFICES ASSUME AiInv, [AiNext]_aiVars PROVE AiInv'
  OBVIOUS
<1>1. ASSUME NEW m \in Chat, Notice(m) PROVE AiInv'
  BY <1>1 DEF Notice, AiInv, IndexesDiffer, Placed
<1>2. ASSUME NEW m \in Chat, Live(m, TRUE) \/ Live(m, FALSE) PROVE AiInv'
  BY <1>2, LiveKeeps
<1>3. ASSUME NEW m \in Chat, Revoked(m) PROVE AiInv'
  BY <1>3, AiAssumption DEF Revoked, AiInv, IndexesDiffer, Placed
<1>4. ASSUME NEW ms \in SUBSET Chat, Batch(ms) PROVE AiInv'
  BY <1>4, BatchKeeps
<1>5. CASE UNCHANGED aiVars
  BY <1>5 DEF aiVars, AiInv, IndexesDiffer, Placed
<1> QED BY <1>1, <1>2, <1>3, <1>4, <1>5 DEF AiNext

\* For any messages, any scan length and whatever is resent, revoked or bridged out of
\* order, no two items of an album have one index (albumIndexFromDB, NewAlbumBatch), but
\* for the exceptions IndexesDiffer names.
THEOREM AlbumPlacesDiffer == AiSpec => []IndexesDiffer
<1>1. AiInv => IndexesDiffer
  BY DEF AiInv
<1> QED BY AiStarts, AiKeeps, <1>1, PTL DEF AiSpec

-----------------------------------------------------------------------------
(* The album that is sent to WhatsApp, for any number of events. *)

\* The part of AlTypeOK that the argument needs.
SendOK ==
    /\ alKind \in [Events -> {"image", "video", "other", "bad"}]
    /\ alName \in Names
    /\ alStep \in {"convert", "parent", "items", "sending", "done"}
    /\ alAt \in 1..(AlItems + 1)
    /\ alLink \in [Events -> 0..AlItems]
    /\ alOut \in Seq(0..AlItems)

\* Nothing but the parent gets out before the items are sent, no item before its turn,
\* and nothing points at a parent that has not got out.
InTurn ==
    /\ alStep = "convert" => alOut = <<>>
    /\ alStep \in {"convert", "parent"} =>
         announced = 0 /\ alEchoed = {} /\ \A i \in Events : ~Out(i)
    /\ alStep = "sending" => alAt \in Events
    /\ \A i \in Events : Out(i) => i < alAt \/ (i = alAt /\ alStep = "sending")
    /\ \A i \in Events : alLink[i] # 0 => Out(0)

\* What got out is ignored, or saved; the parent is ignored while the album is sent.
EchoesIgnored ==
    /\ alStep = "sending" => <<alAt, alName>> \in alPending
    /\ alStep = "parent" => <<0, alName>> \in alPending
    /\ alStep \in {"items", "sending"} /\ announced # 0 => <<0, alName>> \in alPending
    /\ \A i \in Events : Out(i) => <<i, alName>> \in alPending \/ i \in alSaved

\* AlbumSentOnce, by what its parts depend on.
EchoesOK ==
    /\ alEchoed \subseteq {0}
    /\ 0 \in alEchoed => alStep = "done" \/ announced = 0

OrderOK ==
    \A k \in DOMAIN alOut : alOut[k] # 0 /\ alLink[alOut[k]] # 0 => \E j \in 1..(k - 1) : alOut[j] = 0

LinksOK ==
    /\ announced = Cardinality({i \in Events : alLink[i] # 0})
    /\ \A i, j \in Events : i < j /\ alLink[i] # 0 /\ alLink[j] # 0 => alLink[i] < alLink[j]
    /\ \A i \in Events : alLink[i] # 0 => alKind[i] \notin {"other", "bad"} /\ alLink[i] <= announced

AlInv == SendOK /\ InTurn /\ EchoesIgnored /\ EchoesOK /\ OrderOK /\ LinksOK

LEMMA AlImplies == AlInv => AlbumSentOnce
  BY DEF AlInv, EchoesOK, OrderOK, LinksOK, AlbumSentOnce

LEMMA AlStarts == AlInit => AlInv
<1> SUFFICES ASSUME AlInit PROVE AlInv
  OBVIOUS
<1>1. LinksOK
  <2>1. {i \in Events : alLink[i] # 0} = {}
    BY DEF AlInit
  <2> QED BY <2>1, FS_EmptySet DEF AlInit, LinksOK
<1>2. SendOK /\ InTurn /\ EchoesIgnored /\ EchoesOK /\ OrderOK
  BY AlAssumption DEF AlInit, SendOK, InTurn, EchoesIgnored, EchoesOK, OrderOK, Out, Names, Events
<1> QED BY <1>1, <1>2 DEF AlInv

\* Linking numbers the items that can be in an album, and the parent counts these.
LEMMA LinkNumbers ==
    ASSUME SendOK, LinkAlbumItems, announced' = Counted, alKind' = alKind
    PROVE  LinksOK' /\ alLink' \in [Events -> 0..AlItems]
<1> USE AlAssumption
<1> DEFINE S == {i \in Events : IsAlbumMedia(i)}
           Rank(i) == Cardinality({k \in S : k <= i})
<1>1. S \in SUBSET (1..AlItems) /\ AlItems \in Nat
  BY DEF Events
<1>2. \A i \in S : IsFiniteSet({k \in S : k <= i}) /\ Rank(i) \in 1..AlItems
  BY <1>1, RankInRange
<1>3. \A i, j \in S : i < j => Rank(i) < Rank(j)
  BY <1>1, RanksDiffer
<1>4. \A i \in S : Rank(i) <= Cardinality(S)
  <2> TAKE i \in S
  <2>1. IsFiniteSet(S)
    <3>1. IsFiniteSet(1..AlItems)
      BY FS_Interval
    <3> QED BY <1>1, <3>1, FS_Subset
  <2>2. {k \in S : k <= i} \in SUBSET S
    OBVIOUS
  <2> QED BY <2>1, <2>2, FS_Subset
<1>5. \A i \in S : {j \in 1..i : IsAlbumMedia(j)} = {k \in S : k <= i}
  BY DEF Events
<1>6. alLink' = [i \in Events |-> IF i \in S THEN Rank(i) ELSE 0]
  BY <1>5 DEF LinkAlbumItems
<1>7. Counted = Cardinality(S)
  BY DEF Counted
<1>8. \A i \in S : alKind[i] \notin {"other", "bad"} /\ i \in Events
  BY DEF IsAlbumMedia
<1>9. \A i \in S : Rank(i) \in 1..AlItems
  BY <1>2
<1> HIDE DEF S, Rank
<1>10. \A i \in Events : alLink'[i] # 0 <=> i \in S
  BY <1>6, <1>9
<1>11. {i \in Events : alLink'[i] # 0} = S
  BY <1>8, <1>10
<1>12. announced' = Cardinality({i \in Events : alLink'[i] # 0})
  BY <1>7, <1>11
<1>13. \A i, j \in Events : i < j /\ alLink'[i] # 0 /\ alLink'[j] # 0 => alLink'[i] < alLink'[j]
  BY <1>3, <1>6
<1>14. \A i \in Events : alLink'[i] # 0 => alKind[i] \notin {"other", "bad"} /\ alLink'[i] <= announced'
  BY <1>4, <1>6, <1>7, <1>8
<1>15. LinksOK'
  BY <1>12, <1>13, <1>14 DEF LinksOK
<1>16. alLink' \in [Events -> 0..AlItems]
  BY <1>6, <1>9
<1> QED BY <1>15, <1>16

LEMMA GetsOutKeeps == ASSUME AlInv, GetsOut PROVE AlInv'
<1> USE AlAssumption DEF AlInv
<1>1. PICK m \in 0..AlItems :
        /\ \/ m = 0 /\ alStep = "parent"
           \/ m = alAt /\ alStep = "sending"
        /\ \A k \in DOMAIN alOut : alOut[k] # m
        /\ alOut' = Append(alOut, m)
        /\ UNCHANGED <<alKind, alName, alStep, alAt, announced, alLink, alPending, alSent,
                       alSaved, alEchoed>>
  BY DEF GetsOut
<1>2. /\ alOut' \in Seq(0..AlItems) /\ Len(alOut') = Len(alOut) + 1
      /\ \A k \in 1..Len(alOut) : alOut'[k] = alOut[k]
      /\ alOut'[Len(alOut) + 1] = m
      /\ DOMAIN alOut = 1..Len(alOut) /\ DOMAIN alOut' = 1..Len(alOut')
      /\ Len(alOut) \in Nat
  BY <1>1 DEF SendOK
<1>3. SendOK'
  BY <1>1, <1>2 DEF SendOK
<1>4. \A x \in 0..AlItems : Out(x)' <=> Out(x) \/ x = m
  <2>1. ASSUME NEW x \in 0..AlItems, NEW k \in 1..Len(alOut'), alOut'[k] = x
        PROVE  Out(x) \/ x = m
    <3>1. CASE k \in 1..Len(alOut)
      BY <1>2, <2>1, <3>1 DEF Out
    <3>2. CASE k = Len(alOut) + 1
      BY <1>2, <2>1, <3>2
    <3> QED BY <1>2, <3>1, <3>2
  <2>2. ASSUME NEW x \in 0..AlItems, NEW k \in 1..Len(alOut), alOut[k] = x
        PROVE  \E l \in 1..Len(alOut') : alOut'[l] = x
    <3>1. k \in 1..Len(alOut') /\ alOut'[k] = x
      BY <1>2, <2>2
    <3> QED BY <3>1
  <2>3. Len(alOut) + 1 \in 1..Len(alOut')
    BY <1>2
  <2> QED BY <1>2, <2>1, <2>2, <2>3 DEF Out
<1>5. Events \subseteq 0..AlItems /\ 0 \in 0..AlItems /\ 0 \notin Events
  BY DEF Events
<1>6. m = 0 \/ m \in Events
  BY DEF Events
<1>7. InTurn' /\ EchoesIgnored'
  <2>1. InTurn'
    <3>1. alStep \in {"convert", "parent"} => alStep = "parent" /\ m = 0
      BY <1>1
    <3>2. \A i \in Events : Out(i)' => i < alAt \/ (i = alAt /\ alStep = "sending")
      BY <1>1, <1>4, <1>5 DEF InTurn
    <3> QED BY <1>1, <1>4, <1>5, <3>1, <3>2 DEF InTurn
  <2>2. EchoesIgnored'
    BY <1>1, <1>4, <1>5 DEF EchoesIgnored
  <2> QED BY <2>1, <2>2
<1>8. EchoesOK' /\ LinksOK'
  BY <1>1 DEF EchoesOK, LinksOK
<1>9. OrderOK'
  <2> SUFFICES ASSUME NEW k \in DOMAIN alOut', alOut'[k] # 0, alLink[alOut'[k]] # 0
               PROVE  \E j \in 1..(k - 1) : alOut'[j] = 0
    BY <1>1 DEF OrderOK
  <2>1. CASE k \in 1..Len(alOut)
    <3>1. PICK j \in 1..(k - 1) : alOut[j] = 0
      BY <1>2, <2>1 DEF OrderOK
    <3>2. j \in 1..Len(alOut)
      BY <1>2, <2>1
    <3> QED BY <1>2, <3>1, <3>2
  <2>2. CASE k = Len(alOut) + 1
    <3>1. m \in Events /\ alLink[m] # 0
      BY <1>1, <1>2, <2>2 DEF Events
    <3>2. Out(0)
      BY <3>1 DEF InTurn
    <3> QED BY <1>2, <2>2, <3>2 DEF Out
  <2> QED BY <1>2, <2>1, <2>2
<1> QED BY <1>3, <1>7, <1>8, <1>9

LEMMA AlKeeps == AlInv /\ [AlNext]_alVars => AlInv'
<1> SUFFICES ASSUME AlInv, [AlNext]_alVars PROVE AlInv'
  OBVIOUS
<1> USE AlAssumption DEF AlInv, SendOK, InTurn, EchoesIgnored, EchoesOK, Ignored, Names, Events, Out
<1>1. CASE Convert
  <2>1. OrderOK' /\ LinksOK'
    BY <1>1 DEF Convert, OrderOK, LinksOK
  <2> QED BY <1>1, <2>1 DEF Convert
<1>2. CASE GetsOut
  BY <1>2, GetsOutKeeps
<1>3. CASE ParentSent
  <2>1. LinksOK' /\ alLink' \in [Events -> 0..AlItems]
    BY <1>3, LinkNumbers DEF ParentSent
  <2>2. OrderOK'
    BY <1>3 DEF ParentSent, OrderOK
  <2> QED BY <1>3, <2>1, <2>2 DEF ParentSent
<1>4. CASE ParentFails
  <2>1. OrderOK' /\ LinksOK'
    BY <1>4 DEF ParentFails, OrderOK, LinksOK
  <2> QED BY <1>4, <2>1 DEF ParentFails
<1>5. CASE NextItem
  <2>1. OrderOK' /\ LinksOK'
    BY <1>5 DEF NextItem, OrderOK, LinksOK
  <2> QED BY <1>5, <2>1 DEF NextItem
<1>6. CASE ItemSent
  <2>1. OrderOK' /\ LinksOK'
    BY <1>6 DEF ItemSent, OrderOK, LinksOK
  <2>2. SendOK'
    BY <1>6 DEF ItemSent, PickName
  <2>3. InTurn'
    BY <1>6 DEF ItemSent
  <2>4. EchoesIgnored'
    BY <1>6 DEF ItemSent, PickName
  <2>5. EchoesOK'
    BY <1>6 DEF ItemSent
  <2> QED BY <2>1, <2>2, <2>3, <2>4, <2>5
<1>7. CASE ItemFails
  <2>1. OrderOK' /\ LinksOK'
    BY <1>7 DEF ItemFails, OrderOK, LinksOK
  <2> QED BY <1>7, <2>1 DEF ItemFails
<1>8. CASE Return
  <2>1. OrderOK' /\ LinksOK'
    BY <1>8 DEF Return, OrderOK, LinksOK
  <2> QED BY <1>8, <2>1 DEF Return
<1>9. ASSUME NEW i \in Events, SaveItem(i) PROVE AlInv'
  <2>1. OrderOK' /\ LinksOK'
    BY <1>9 DEF SaveItem, OrderOK, LinksOK
  <2> QED BY <1>9, <2>1 DEF SaveItem
<1>10. ASSUME NEW m \in 0..AlItems, Echo(m) PROVE AlInv'
  <2>1. OrderOK' /\ LinksOK'
    BY <1>10 DEF Echo, OrderOK, LinksOK
  <2>2. m = 0
    BY <1>10 DEF Echo
  <2>3. EchoesOK'
    BY <1>10, <2>2 DEF Echo
  <2> QED BY <1>10, <2>1, <2>2, <2>3 DEF Echo
<1>11. CASE UNCHANGED alVars
  <2>1. OrderOK' /\ LinksOK'
    BY <1>11 DEF alVars, OrderOK, LinksOK
  <2> QED BY <1>11, <2>1 DEF alVars
<1> QED
  BY <1>1, <1>2, <1>3, <1>4, <1>5, <1>6, <1>7, <1>8, <1>9, <1>10, <1>11 DEF AlNext

\* For any number of events sent together, and however WhatsApp hands their messages
\* back, every event is in the room once and the announcement precedes and counts the
\* items that point at it (HandleMatrixAlbum, handleConvertedMatrixMessage).
THEOREM AlbumsAreSentOnce == AlSpec => []AlbumSentOnce
  BY AlStarts, AlKeeps, AlImplies, PTL DEF AlSpec

-----------------------------------------------------------------------------
(* The whole. *)

\* A behaviour of the whole is one of each part.
LEMMA PartsAct ==
    [Next]_vars => /\ [OdNext]_odVars /\ [RgNext]_rgVars /\ [BlNext]_blVars /\ [DmNext]_dmVars
                   /\ [ClNext]_clVars /\ [GrNext]_grVars /\ [LidNext]_lidVars
                   /\ [SubsNext]_subsVars /\ [AlNext]_alVars /\ [AiNext]_aiVars
  BY Zenon DEF Next, Turn, vars

\* Everything that Connector's run checks holds of any instance: the parts of the connector
\* do not disturb each other, as they share no state.
THEOREM PartsHoldTogether ==
    Spec => [](/\ InFlightIsReal /\ RingingIsLatest /\ FlagsFollowList /\ OneAskServesAll
               /\ ShownIsTrue /\ RoomFollowsGroup /\ OneRoomPerPerson /\ ReservedIsSubscribed
               /\ AlbumSentOnce /\ IndexesDiffer)
<1>1. Init => /\ OdInit /\ RgInit /\ BlInit /\ DmInit /\ ClInit /\ GrInit /\ LidInit
              /\ SubsInit /\ AlInit /\ AiInit
  BY Zenon DEF Init
<1>2. Spec => /\ OdSpec /\ RgSpec /\ BlSpec /\ DmSpec /\ ClSpec /\ GrSpec /\ LidSpec
              /\ SubsSpec /\ AlSpec /\ AiSpec
  BY <1>1, PartsAct, PTL DEF Spec, OdSpec, RgSpec, BlSpec, DmSpec, ClSpec, GrSpec, LidSpec,
                             SubsSpec, AlSpec, AiSpec
<1> QED
  BY <1>2, RequestsInFlightAreReal, TableNamesTheRingingCall, FlagsFollowTheList,
     OneRequestServesAllReaders, ShownStateIsTrue, RoomsFollowGroups, PeopleHaveOneRoom,
     NoStaleReservation, AlbumsAreSentOnce, AlbumPlacesDiffer, PTL
=============================================================================
