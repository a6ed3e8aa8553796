-------------------------------- MODULE Group -------------------------------
(***************************************************************************)
(* A group and its room (connector/chatinfo.go, chatlistsync.go,           *)
(* powerlevels.go, and the group handlers of handlewhatsapp.go and         *)
(* handlematrix.go).  WhatsApp's change events are applied one by one;     *)
(* joining, resyncs and the chat list apply whole snapshots, some of which *)
(* are older than events they are applied after; Matrix users change       *)
(* several things at once, of which only some may be accepted.             *)
(***************************************************************************)
EXTENDS Naturals, Sequences

CONSTANTS GrMembers,    \* people other than the user
          GrChanges,    \* bound: changes of the group
          GrSyncs       \* bound: chat list syncs, resyncs and times the user leaves

ASSUME GrAssumption ==
    /\ {GrChanges, GrSyncs} \subseteq Nat
    /\ {"announce", "locked", "name", "timer"} \cap GrMembers = {}

VARIABLES
    grp,        \* the group: a level for every member, a value for every setting
    community,  \* it is the announcement group of a community
    whole,      \* it is neither incognito nor a community: all members are listed
    inGroup,    \* the user is in it
    grChanges,  \* how often it was changed
    grSyncs,    \* how often the user left or all of it was asked for
    wire,       \* what WhatsApp will report, in order
    grQueue,    \* the portal's event queue
    listed,     \* SyncChatList: snapshots taken and not queued yet
    room,       \* what the room shows of it
    levels,     \* members who left and still have an admin's power level
    off         \* what is known to differ until it is next set

grVars == <<grp, community, whole, inGroup, grChanges, grSyncs, wire, grQueue, listed,
            room, levels, off>>

Settings == {"announce", "locked", "name"}
Things == GrMembers \cup Settings
Values(x) == IF x \in GrMembers THEN {"out", "member", "admin"} ELSE {"no", "yes"}
Groups == {g \in [Things -> {"out", "member", "admin", "no", "yes"}] : \A x \in Things : g[x] \in Values(x)}

\* In the room the level for the name, topic and avatar, and the one for the disappearing
\* timer, both stand for "locked".
InRoom == Things \cup {"timer"}
Source(x) == IF x = "timer" THEN "locked" ELSE x

\* Events: new values for some things, for all of them (and which of these are
\* outdated), or the instruction to fetch them.
Change(set, joined) == [kind |-> "change", set |-> set, joined |-> joined]
Snapshot(g, stale) == [kind |-> "snapshot", info |-> g, stale |-> stale]
Fetch == [kind |-> "fetch"]

GrTypeOK ==
    /\ grp \in Groups /\ DOMAIN room = InRoom
    /\ \A x \in InRoom : room[x] \in Values(Source(x))
    /\ {community, whole, inGroup} \subseteq BOOLEAN
    /\ grChanges \in 0..GrChanges /\ grSyncs \in 0..GrSyncs
    /\ \A i \in DOMAIN wire : wire[i].kind \in {"change", "snapshot"}
    /\ \A i \in DOMAIN grQueue : grQueue[i].kind \in {"change", "snapshot", "fetch"}
    /\ listed \subseteq Groups
    /\ levels \subseteq GrMembers /\ off \subseteq InRoom

\* What wrapGroupInfo makes of a group: in a community's announcement group
\* everyone may send (threaded replies).
Wrapped(g) == [x \in InRoom |-> IF x = "announce" /\ community THEN "no" ELSE g[Source(x)]]

GrInit ==
    /\ grp \in {g \in Groups : \A x \in Settings : g[x] = "no"}
    /\ community \in BOOLEAN /\ whole \in BOOLEAN
    /\ inGroup = TRUE /\ grChanges = 0 /\ grSyncs = 0
    /\ wire = <<>> /\ grQueue = <<>> /\ listed = {}
    /\ room = Wrapped(grp)
    /\ levels = {} /\ off = {}

Pending(x) == \E i \in DOMAIN wire : wire[i].kind = "change" => x \in DOMAIN wire[i].set

-----------------------------------------------------------------------------
(* WhatsApp.                                                                *)

\* Somebody changes something; the user is told only of groups they are in.
Alter(x, v) ==
    /\ grChanges < GrChanges /\ grChanges' = grChanges + 1
    /\ v \in Values(x) \ {grp[x]}
    /\ grp[x] = "out" => v = "member"
    /\ grp' = [grp EXCEPT ![x] = v]
    /\ wire' = IF inGroup THEN Append(wire, Change([y \in {x} |-> v], {y \in {x} : grp[y] = "out"})) ELSE wire

PhoneChanges(x, v) ==
    /\ Alter(x, v)
    /\ UNCHANGED <<community, whole, inGroup, grSyncs, grQueue, listed, room, levels, off>>

\* The user leaves, and is added again: JoinedGroup has the group of that moment.
LeaveOrJoin ==
    /\ inGroup' = ~inGroup
    /\ IF inGroup
       THEN grSyncs < GrSyncs /\ grSyncs' = grSyncs + 1 /\ UNCHANGED wire
       ELSE wire' = Append(wire, Snapshot(grp, {})) /\ UNCHANGED grSyncs
    /\ UNCHANGED <<grp, community, whole, grChanges, grQueue, listed, room, levels, off>>

\* handleWAGroupInfoChange and handleWAJoinedGroup.
HandleGroupEvent ==
    /\ wire # <<>>
    /\ grQueue' = Append(grQueue, Head(wire))
    /\ wire' = Tail(wire)
    /\ UNCHANGED <<grp, community, whole, inGroup, grChanges, grSyncs, listed, room, levels, off>>

\* SyncChatList takes all groups' info at once and queues it group by group;
\* what was changed and queued since is set back.
ListGroups ==
    /\ inGroup /\ listed = {}
    /\ grSyncs < GrSyncs /\ grSyncs' = grSyncs + 1
    /\ listed' = {grp}
    /\ UNCHANGED <<grp, community, whole, inGroup, grChanges, wire, grQueue, room, levels, off>>

QueueListed(g) ==
    /\ g \in listed /\ listed' = {}
    /\ LET stale == {x \in InRoom : g[Source(x)] # grp[Source(x)] /\ ~Pending(Source(x))}
       IN grQueue' = Append(grQueue, Snapshot(g, stale))
    /\ UNCHANGED <<grp, community, whole, inGroup, grChanges, grSyncs, wire, room, levels, off>>

\* doGhostResync and the sync command: the info is fetched when the event's turn
\* comes, and the portal's loop waits for it.
QueueFetch ==
    /\ grSyncs < GrSyncs /\ grSyncs' = grSyncs + 1
    /\ grQueue' = Append(grQueue, Fetch)
    /\ UNCHANGED <<grp, community, whole, inGroup, grChanges, wire, listed, room, levels, off>>

-----------------------------------------------------------------------------
(* The portal's event loop.                                                 *)

\* wrapGroupInfoChange: joining says nothing about the level, leaving keeps it, announce
\* is not looked at in its community, and "locked" leaves the timer's level alone.
ApplyChange(set, joined) ==
    LET again == {x \in joined : x \in levels \/ room[x] = "admin"}
        replies == {x \in DOMAIN set \cap {"announce"} : community /\ set[x] = "yes"}
        timer == {x \in {"timer"} : "locked" \in DOMAIN set /\ set["locked"] # room[x]}
    IN /\ room' = [x \in InRoom |-> IF x \in again THEN "admin"
                                   ELSE IF x \in DOMAIN set THEN set[x] ELSE room[x]]
       /\ levels' = (levels \ DOMAIN set)
                       \cup {x \in DOMAIN set : set[x] = "out" /\ (x \in levels \/ room[x] = "admin")}
       /\ off' = (off \ DOMAIN set) \cup again \cup replies \cup timer

\* Who is not in the snapshot stays in the room, unless the snapshot is of all members (IsFull).
Kept(g) == {x \in GrMembers : ~whole /\ g[x] = "out" /\ room[x] # "out"}

\* Mutant of ApplyInfo: plain members get no level, so that they keep theirs.
ApplyInfoLevelless(g) ==
    /\ room' = [x \in InRoom |-> IF x \in Kept(g) \/ (room[x] = "admin" /\ g[x] = "member")
                                THEN room[x] ELSE Wrapped(g)[x]]
    /\ levels' = {x \in GrMembers \ Kept(g) : g[x] = "out" /\ (x \in levels \/ room[x] = "admin")}

\* wrapGroupInfo: every member with a level.
ApplyInfo(g) ==
    /\ room' = [x \in InRoom |-> IF x \in Kept(g) THEN room[x] ELSE Wrapped(g)[x]]
    /\ levels' = {x \in GrMembers \ Kept(g) : g[x] = "out" /\ (x \in levels \/ room[x] = "admin")}

\* A snapshot of this moment, and one that was taken earlier.
HandleFetch ==
    /\ grQueue # <<>> /\ Head(grQueue) = Fetch
    /\ grQueue' = Tail(grQueue)
    /\ \/ inGroup /\ ApplyInfo(grp) /\ off' = Kept(grp)
       \/ UNCHANGED <<room, levels, off>>   \* GetGroupInfo fails
    /\ UNCHANGED <<grp, community, whole, inGroup, grChanges, grSyncs, wire, listed>>

HandleSnapshot ==
    /\ grQueue # <<>> /\ Head(grQueue).kind = "snapshot"
    /\ grQueue' = Tail(grQueue)
    /\ ApplyInfo(Head(grQueue).info)
    /\ off' = Head(grQueue).stale \cup Kept(Head(grQueue).info)
    /\ UNCHANGED <<grp, community, whole, inGroup, grChanges, grSyncs, wire, listed>>

HandleChange ==
    /\ grQueue # <<>> /\ Head(grQueue).kind = "change"
    /\ grQueue' = Tail(grQueue)
    /\ ApplyChange(Head(grQueue).set, Head(grQueue).joined)
    /\ UNCHANGED <<grp, community, whole, inGroup, grChanges, grSyncs, wire, listed>>

-----------------------------------------------------------------------------
(* Matrix.  The room already is as the user wants it; WhatsApp may refuse,  *)
(* and reports what it accepts like any other change.                       *)

\* HandleMatrixMembership, -RoomName, -RoomTopic.  No level is changed: an admin who left
\* and is invited again is one in the room at once, but a plain member of the group.
MatrixSets(x, v) ==
    /\ inGroup /\ x \in GrMembers \cup {"name"} /\ v \in Values(x) \ {room[x], "admin"}
    /\ x \in GrMembers => "out" \in {v, room[x]}
    /\ room' = [room EXCEPT ![x] = IF x \in levels THEN "admin" ELSE v]
    /\ levels' = IF v = "out" /\ room[x] = "admin" THEN levels \cup {x} ELSE levels \ {x}
    /\ \/ /\ Alter(x, v) /\ (x \in GrMembers => "out" \in {v, grp[x]})
          /\ off' = off \cup (levels \cap {x})
       \/ /\ grChanges < GrChanges /\ grChanges' = grChanges + 1
          /\ off' = off \cup {x}
          /\ UNCHANGED <<grp, wire>>
    /\ UNCHANGED <<community, whole, inGroup, grSyncs, grQueue, listed>>

Opposite(v) == CASE v = "yes" -> "no" [] v = "no" -> "yes" [] v = "admin" -> "member" [] OTHER -> "admin"

\* HandleMatrixPowerLevels for the levels in which the room was changed: the
\* participants, of whom WhatsApp may leave out any, then announce, then locked;
\* a failing call ends it.
MatrixLevels(xs, done) ==
    /\ inGroup /\ grChanges < GrChanges /\ grChanges' = grChanges + 1
    /\ xs # {} /\ \A x \in xs : x # "name" /\ room[x] # "out"
    /\ done \subseteq xs /\ \A x \in done : grp[x] = room[x]
    /\ "locked" \in done /\ "announce" \in xs => "announce" \in done
    /\ room' = [x \in InRoom |-> IF x \in xs THEN Opposite(room[x]) ELSE room[x]]
    /\ grp' = [x \in Things |-> IF x \in done THEN room'[x] ELSE grp[x]]
    /\ wire' = IF done = {} THEN wire ELSE Append(wire, Change([x \in done |-> room'[x]], {}))
    /\ off' = off \cup (xs \ done)
    /\ UNCHANGED <<community, whole, inGroup, grSyncs, grQueue, listed, levels>>

GrNext ==
    \/ \E x \in Things : \E v \in Values(x) : PhoneChanges(x, v) \/ MatrixSets(x, v)
    \/ \E xs \in SUBSET (Things \ {"name"}) : \E done \in SUBSET xs : MatrixLevels(xs, done)
    \/ LeaveOrJoin \/ HandleGroupEvent \/ ListGroups \/ QueueFetch
    \/ \E g \in listed : QueueListed(g)
    \/ HandleFetch \/ HandleSnapshot \/ HandleChange

GrSpec == GrInit /\ [][GrNext]_grVars

-----------------------------------------------------------------------------
\* Once all that WhatsApp reported was handled, the room has the members, levels
\* and settings of the group, however events, snapshots and Matrix changes
\* followed each other, and although the user was not in the group for a while.
\* The exceptions, each until the thing is next set: a change WhatsApp refused, a
\* chat list snapshot applied after newer events, an admin who left and was
\* added again, announcements switched on in a community, somebody who left while
\* nothing was reported and is missing from a list that need not be whole, and the level
\* for the disappearing timer, which only snapshots set, once "locked" changed.
RoomFollowsGroup ==
    inGroup /\ wire = <<>> /\ grQueue = <<>> =>
        \A x \in InRoom \ off : room[x] = Wrapped(grp)[x]
=============================================================================
