# Verification of mautrix-whatsapp

TLA+ models of the parts of the bridge that run concurrently, keep state over
failures or work against a clock, checked with TLC on small instances. Every safety
property that the passing runs check is also proved with TLAPS for every value of the
constants; liveness is model-checked. Where the code misses what a property would say in
full, the property names the cases, history variables remember them, and the runs and the
proofs cover them with the rest.

## The system and its parts

The bridge is one process. Every WhatsApp account that a Matrix user has logged
in is a `WhatsAppClient` (pkg/connector/client.go) with a websocket to WhatsApp,
event handlers called from it, loops started per connection, and the framework
(bridgev2) that calls it for Matrix events and for backfills. The ghosts'
presence and the database are shared by all logins.

| part | state | operations | what is hard |
|---|---|---|---|
| call bridge, callbridging.go | the active session; per session the Matrix leg, the WhatsApp call, answering, a context, endOnce | an offered or invited call, Matrix events, WhatsApp callbacks, the invite timer, end, stop | six goroutines per call, each using what another may be replacing; snapshots used after unlocking |
| call log, calllog.go | the ringing call of each chat | call events, decline from Matrix, reports of the call bridge | logging and entering are two steps, others end the call in between |
| presence manager, pkg/presence/presence.go | entries per ghost: desired, until, sent, sentAt, touched; a token bucket | Update, Activity, Tick | requests under way while entries change; eviction; rate limit, debounce, retry |
| last-seen reporter, seen.go | last time noted per user, a bounded queue | Note, Run | remember, queue and forget are three steps |
| presence subscriptions, connector/presence.go, wapresence.go | two sets of reservations, the stop function of the current run | subscribePresences, subscribeChatPresence | runs that outlive their connection |
| history sync loops, backfill.go | queued announcements, stored conversations, a flag, a timer, a wakeup channel | announcements, download and store, portal creation | two loops and a timer without a lock; reconnect; crash |
| chat backfill, backfill.go | stored messages, the cursor | FetchMessages, CompleteCallback | ties at a cut-off, deletes by range, restart between batch and delete |
| on-demand requests, backfill.go | requests in flight per chat | start, finish | answers before the send returns, sends that fail late, blobs handled twice |
| client lifecycle, client.go, phoneping.go, handlewhatsapp.go | the whatsmeow client, loop contexts, offline sync waiter, the bridge state shown, when the phone was last seen | connect, background connect, disconnect, logout, connection events, phone ping | events and goroutines that report after something newer happened |
| login, login.go | codes, the index shown, six events, error and success | Start, SubmitUserInput, Wait, SubmitWebAuthnResponse, Cancel; WhatsApp's events | the caller and the event handler share fields without a lock; timers; a dozen ways out |
| messages: handlewhatsapp.go, events.go, mediarequest.go, mediaeditcache.go, msgconv/wa-media.go | per message its error, edits and saved media info; media request rows; cached media parts | message, undecryptable message, resend, edit, revoke, retry receipt, media request | originals, edits, resends and receipts that come late, twice or after a revoke |
| pins.go | expiry per pinned message in the portal's metadata, timers | pin and unpin from both sides, expirePin, sweep | a timer against a re-pin under way; restarts |
| directmedia.go | a retry entry per message with a lock, a flag and an event | a client's download, the request, the retry receipt | several readers of one message, receipts before the request returns |
| app state, handlewhatsapp.go | full syncs tried (memory), recoveries asked for (metadata) | sync errors, completed syncs | what was remembered for one failure read at the next |
| blocklist, handlewhatsapp.go, chatinfo.go, handlematrix.go | a copy of the list, a flag per chat | blocklist events, chat info, blocking in Matrix | the copy is saved before the flags follow; either may fail |
| groups: chatinfo.go, chatlistsync.go, powerlevels.go | members, levels and settings of the room | change events, snapshots, changes made in Matrix | old snapshots after newer events, half accepted changes |
| LID migration, lidmigrate.go, startchat.go | portals under numbers and LIDs, the list of chats not moved yet | the start, a message, starting or deleting a chat | a stop or an error between the move and the change of ghosts |
| ghosts: userinfo.go, about.go | resync queue, by JID | enqueue for a ghost or a chat, viewing a chat, the loop | ghosts and chats with one key, dropped batches |
| albums: sendalbum.go, wa-album.go, wa-album-send.go, pkg/album | messages to be ignored, the index of every item | sending an album, an item from WhatsApp, a backfilled batch | echoes before the send returns; resent, revoked and missing items |
| everything else (msgconv, waid, commands, capabilities) | none of its own | conversions and single requests | |

PROJECT.json lists all of them with their status, and the hazards at their lines.

## Modules

**CallBridge** (CallSlot, CallBridgeProofs). One variable per field
of `waCallSession`, as a function of the session, and one program counter per
goroutine: `pc` (startIncoming or startOutgoing), `ans` (answerIncoming), `media`
(pumpMatrixToWA), `timer`, and `ender` for the body of endOnce. A section under a
lock, or one network request, is one step; everything between two of them may be
interrupted. `wa` is WhatsApp's own view of the call, `rejects` and `hangups`
count what the bridge told it. Requests may fail. `End(s, notifyWA)` is a call of
`end()`: the first caller decides `notifyWA`; a caller that is not the first waits
for the first in the code, which changes nothing that another goroutine sees, so
it goes on at once here. `PlainContent` names the Matrix event types that the
framework decodes into the content type handleMatrixEvent expects
(`*event.BaseCallEventContent`); with none of them a hangup in Matrix is not
understood. CallSlot is the abstract specification of `waCallBridge.active`.

**Presence** (MCPresence, UpkeepProofs). `tracked` and the functions beside it are
`Manager.entries`. Time is relative: `since` and `idle` count up from sentAt and
touched to the largest value the code distinguishes, `left` counts down to until.
A Tick is `TickCollect` (one locked section), then `TickSend` and `TickDone` per
request with the lock released in between; Activity is `ActivityLook` and
`ActivityUpdate`. `hs` is what the homeserver was told. `overtaken` (logins whose look
another login's longer online made stale) and `evictedDue` (users evicted while a request
for them was under way) are history, for the properties.

**Seen** (UpkeepProofs). Note is `Note` (isNews under the lock), `EnqueueSeen` (the select) and
`ForgetSeen` (the lock again), each of any number of callers; `SendSeen` is one turn of Run.
`seenPassed` (times overtaken between being noted and queued) and `seenDropped` (times that
another caller made the reporter forget) are history.

**PresenceSubs** (RequestProofs). `Plan` is wapresence.Plan over every pair of short lists; one
program counter per connection is its subscribePresences, one per person the goroutine
of subscribeChatPresence.

**HistorySync** (MCHistorySync, HistorySyncProofs). `main[g]` and `portal[g]` are the two
goroutines of historySyncLoop of the g-th connection (generation). `Reconnect` cancels the
old generation without waiting for it, as callStopLoops does; `Crash` leaves only the
database variables. timerPending's Store and Load and the timer's Stop and Reset are
separate steps. The timer follows Go 1.23: Stop and Reset leave no stale value in the
channel. A transaction is one step. Which rows GetRecent prefers under a limit is any
choice, since no property depends on the order; a rate limited getChatInfo repeats its turn
and is a stuttering step. `stalled` remembers that a wakeup was used up by a GetNext that
failed, which every GetNext of a cancelled loop does.

**Backfill** (MCBackfill, BackfillProofs). One chat: `db` is its rows, `resp` the response between
FetchMessages and CompleteCallback. Rows of one second come in any order. The
constants say what the environment may do: `Split`, send a second in two blobs;
`Overlap`, where in a fetch a blob may be stored (after the query, "got", before
CompleteCallback, "sent", between an empty result and DeleteAllInChat, "wipe");
`CatchUp`, backfill forward into a room that has messages. The run allows all of it.
`stranded` remembers the messages that the code gives up: stored after the rest of their
second was fetched or before DeleteAllInChat (`Late`), older than the room at a
forward fetch that finds nothing, or left over by a batch where no queue is
configured. `Crowded` are the messages of a second larger than a query.

**Login** (LoginProofs). `pc` is where the framework's caller is in Start, SubmitUserInput,
Wait or SubmitWebAuthnResponse; a select is a label with one action per case. Each case of
handleEvent is an action, RotateADVSecret two (rewriting the codes, setting the events).
`slot` counts the intervals since the codes came, so that getQRIndex is a comparison;
`shownGen` and `gen` tell the secret of the code on display from that of the codes held.
"refused" are the errors SubmitUserInput and makePasskeyStep return without Cancel, "panic"
an index past the codes. The order in which WhatsApp sends its events (codes first, a 515
after a pairing) is external.

**Portal** (PortalProofs) composes **Messages** and **Pins**, which share a portal's event
queue (**PortalQueue**). The framework works off the queue one event at a time; an event in
it is lost when the process stops. In Messages, `err`, `edits` and `saved` are the message's
metadata; `shown` and `ver` are what the room displays; `file` is the version whose media
was bridged with the message or an edit of it; a version is the original (1) or an edit. A
conversion is its outcome: content, media gone from the servers, or another error. `listed`
and `sending` count the calls of sendMediaRequest before and after their look at the
message. A caption edit without a cached part works on what the homeserver returns, the
event as it was sent or as it was edited, since the repository does not say which. In Pins a
pin's number also stands for its expiry. A pin message arms the timer (`PinArrives`) before
it is queued (`PinPushed`). Timers may fire at any time, since a pin may be delivered after
it has run out. expirePin may fail to read the metadata and a sweep to list the portals.
`seen` in an expiry event and `untimed`, the pins left without a timer in these ways, are
history, for the properties. Two pins never run out in the same second here. A message that
is revoked takes its pin with it (`PinsFollow`): bridged again, it is another event.

**OnDemand** (RequestProofs). `inFlight` is onDemandHistorySyncRequests, `askCall[r]`
where the SendMessage of request r is, `atPhone[r]` what has become of it. The phone's
side does not wait for ours: it may answer before SendMessage returns or after that
failed. A row that cannot be deleted is handled again.

**Ringing** (RequestProofs). handleWACallEvent is `LogOffer` (CallLog.Start) and `Set`; `Report` is
what the call bridge's goroutines and the decline command do at any moment between
the two. The handler takes events of a call in WhatsApp's order.

**Blocklist** (ConnectorProofs). A section under the lock is one step; `updates` are the
chats' updates that follow from it, tagged with who made them, since a failing one has
different consequences for each. `diskSaved` is what a restart finds. With `MayMiss`,
look-ups fail: GetAllBlockedDMsOf, whose error is only logged, so that the new list is
compared with the copy alone (`Looks`), and makeBlockUpdateEvent, which then drops the
update (`Drops`). `astray` are the users whose update was missed, until a comparison with
the flags or a new update, and `unretried` those whom that comparison left out.

**AppState**. `fullTried` is in memory, `mark` and `markDisk` are the metadata before
and after saving. A full sync and a recovery are goroutines and requests of their own.

**DirectMedia** (RequestProofs). A path is a number that grows with every upload, and paths below
`dmAlive` are gone. `rd[r]` is where a reader is between Download and its second
download; `locked` is the entry's lock, which is held over the request.

**Resync**. `rsQueue` is a function of the JID, so that a ghost and its direct chat
have one place. `dueGhosts` and `duePortals` are the last sync times as far as the code
compares them with a week, `looked` as far as it compares them with five minutes.

**Client** (ConnectorProofs). `calling` is where connect or ConnectBackground is, `clEvents` what
whatsmeow has for handleWAEvent; `profile` the goroutine that sends a state of its own.
`phone` is the age of PhoneLastSeen as far as it is told apart (10 and 12 days).
whatsmeow's reconnecting is modelled from the events it sends. connect has no guard: called
while the socket is up, ConnectContext fails, an error is shown and the loops are stopped;
called while whatsmeow reconnects or events wait, it shows "connecting" over them. `crossed`
remembers such a call, and a logout that meets other work, until the next connection.

**Group** (ConnectorProofs). A group is a function from members to out, member or admin and
from settings (announce, locked, and the name for all settings that are simply copied) to
yes or no, and the room is seen in the same terms, with the level for the disappearing timer
as a thing of its own ("timer"), since wrapGroupInfo sets it with "locked" and
wrapGroupInfoChange does not. In a group that is incognito or a community's parent
(`~whole`) a snapshot leaves who is not in it in the room (`Kept`). A member who leaves
keeps an admin's power level (`levels`), which a new invite from either side brings back.
`wire` is WhatsApp's order of events, `grQueue` the portal's; `listed` the snapshots that
SyncChatList holds. `off` names what is known to differ until it is next set, with the
reason at each place that adds to it.

**LIDs** (ConnectorProofs). Sets of people with a portal under the number or under the LID.
reIDPhoneDMToLID is two steps, the framework's ReIDPortal and the change of ghosts, and
either the process or the second step may fail in between. `blind`, `aside` and `torn` are
history, for the property.

**AlbumSend** (ConnectorProofs). HandleMatrixAlbum is a sequence of sends; `alOut` is the
order in which messages get out, `alPending` the transaction IDs to be ignored. A message is
handed back under the name, number or LID, that WhatsApp chose, at any time after it got
out.

**AlbumIndex** (ConnectorProofs). Messages are numbers by time. `Live` is a message of its
own, `Batch` a backfill; `loose` remembers that an index was given without all rows before
it in sight.

**Connector** composes OnDemand, Ringing, Blocklist, DirectMedia, Client, Group, LIDs,
PresenceSubs, AlbumSend and AlbumIndex, and **Upkeep** composes Presence, Seen, AppState and
Resync. The parts of a composition share no variable and every property is about one of
them, so it is enough to let one part, `focus`, move in each behaviour; letting all of them
move would multiply the states without adding a case. PartsHoldTogether and
UpkeepTellsTheTruth carry what is proved of the parts over to the compositions. Upkeep holds
the fairness of its parts.

Definitions named "Mutant of" or "Mutation of" another one are faulty versions of
it, one per property, with which TLC finds the property violated; no
specification uses them.

## Runs

Passing runs:

| run | instance | shows |
|---|---|---|
| Calls | one incoming and one outgoing call, fair | OneCall, EndsWAOnce, NoOrphanIncoming, SlotSpec (refinement), IncomingResolves, EndFreesSlot |
| PresenceSafety | 2 users with room for one, 2 logins, 4 reports | ForgottenNotOnline, OfflineMeansLeft, NeverCutShort |
| Upkeep | 2 users with room for both; 2 users, 2 callers and a queue of one; a patch that breaks twice, 2 failures or restarts; a person and a group, 2 failing batches; fair | SilenceEndsOnline; SentInOrder, EveryTimeArrives; AppStateRepaired; GhostResynced |
| HistSafety | 2 blobs, one of them on demand; failures, a crash or a reconnect | Recoverable, QueueAwake |
| HistLive | 2 blobs sharing a conversation, fair | NotForgotten, AllBridged |
| Backfill | 6 messages in three seconds (of three, two and one), queries for 2, split seconds, blobs stored at any step, catching up, restarts, fair | NoLoss, NextFindsRest, AllBackfilled |
| Portal | a text message that is pinned and a media message, one edit each, 2 pins, 3 events from outside, a reconnect or a restart, database errors | PinsTended, TextNeverFallsBack, LateReceiptHarmless, RevokedStaysGone, FreshPinKept |
| LoginFlows | both flows, 3 codes and intervals, 2 rotations, fair | OnlyPaired, OneSocket, StaleQRNoticed, LoginEnds |
| Connector | per part: 2 chats and 3 requests; 3 calls in 2 chats; 2 people and 2 changes of the blocklist with failing look-ups; a message with 2 readers and 2 paths; 3 waiting connection events; a member, 3 settings, 2 changes and a sync, lists whole or not; 2 contacts and 2 stops; 2 persons, 2 connections and failing requests; albums of 3; a chat of 4 messages with a scan of 3 | InFlightIsReal, RingingIsLatest, FlagsFollowList, OneAskServesAll, ShownIsTrue, RoomFollowsGroup, OneRoomPerPerson, ReservedIsSubscribed, AlbumSentOnce, IndexesDiffer |

What the properties of Connector and Upkeep say, in one line each:

- InFlightIsReal: an entry is there exactly while its request may still be answered.
- RingingIsLatest: the call entered last for a chat is named for as long as it rings.
- FlagsFollowList: a chat is flagged as blocked exactly if WhatsApp blocks its user; an
  update that was missed is repaired by the next list that is compared with the flags.
- OneAskServesAll: one request serves all readers, and none sleeps through the answer.
- ShownIsTrue: when all is handled, the bridge state is what the socket and the phone are.
- RoomFollowsGroup: when all is handled, the room is the group.
- OneRoomPerPerson: who has a LID has one room under it, or one that the next message moves.
- ReservedIsSubscribed: a reservation that blocks somebody belongs to a request of this connection.
- AlbumSentOnce: no item comes back as a second message; announcement and items agree.
- IndexesDiffer: no two items of an album have one place.
- SilenceEndsOnline: nobody stays online when the reports stop.
- SentInOrder, EveryTimeArrives: last-active times go out in order, and the last one does go out.
- AppStateRepaired: a broken patch is repaired, whatever was tried before.
- GhostResynced: a ghost that is due is resynced, although chats take its place in the queue.

Each part has a type invariant (TypeOK with the part's prefix); those of CallBridge,
Login, HistorySync, OnDemand, LIDs and Ringing are proved, of the others the conjuncts that
the arguments need; all hold on the instances of the runs, which do not list them.

Three runs are refuted by TLC, each against a sentence of the repository that
PROJECT.json quotes under "findings". CallLeft, property NothingLeft: a WhatsApp call is
placed, or a Matrix leg stored, while end() runs, and nobody ends it. ViewedGhost, property
ViewQueuesGhost: looking at a direct chat queues the chat under the key of its user's
ghost, so the ghost is not queued; it is resynced after the chat was, if its user goes
on writing (GhostResynced). BlockMissed, property MissedRetried: a list is saved, the
update of a chat it blocks is lost, and the next list, although compared with the flags in
the database, makes no update for that chat, because the copy of the list has it already;
only a missed unblock is retried.

Why the bounds are enough: the races are between two actors over one resource, so
two calls, two users, two connections and two blobs make each of them happen; a third
adds repetitions. Message batches need a batch border inside and outside a second,
which six messages in seconds of three, two and one give: a second larger than a query, one
that fills it, and one that may be cut off. Three codes are a first, a middle and a
last one, and two rotations make one happen while another is being shown. Debounce,
refresh and expiry have different lengths so that each can come first. Three events are
enough for every race of Portal: message, edit and repeated original; undecryptable, edit
and original; message, revoke and resend; media and two receipts; message and two pins.
In Connector, a third request or call is one that meets what two others left behind, two
changes of a list or a group are one that is overtaken, and two stops are one in the middle
of the repair of the other.
Runs without deadlock checking are of systems that come to rest (all calls over, all blobs
sent, the login ended, all changes made); Presence never does, as time goes on, and is checked.

### Where the code misses what a property would say in full

Every property that has exceptions names them, and the runs reach each of them. In Presence
and Seen:

- ForgottenNotOnline: an entry is evicted while its online request is under way
  (presence.go:168), and nobody sends offline (`evictedDue`).
- NeverCutShort: Activity's decision is stale when it updates, as another login reported a
  longer online in between (presence.go:160, `overtaken`).
- SentInOrder: times are remembered in one order and queued in the other (seen.go:80,
  `seenPassed`); a caller whose time found the queue full makes the reporter forget
  another caller's time, which then goes out twice (seen.go:85, `seenDropped`).

In HistorySync and Backfill:

- QueueAwake: historySyncWakeup belongs to the login, so the cancelled loop may take the
  new loop's token, fail GetNext and leave rows behind until the next announcement or
  connection (backfill.go:70, `stalled`).
- NoLoss, NextFindsRest and AllBackfilled: a second larger than a query is not cut off, and
  the next fetch goes on below it (backfill.go:583, `Crowded`); the rest of a backfilled
  second is never in range again; DeleteAllInChat after an empty fetch takes messages that
  were stored since, or that are older than the range of a forward fetch (backfill.go:562,
  `stranded`).

Two things are excluded by the constants of HistLive. With crashes AllBridged fails, as what
is stored after the flag was cleared lives only in a timer (backfill.go:499). And with a
blob that cannot be downloaded the loop may pick the same row again and again: GetNext has no
order, so the other rows have no guarantee (backfill.go:72).

The properties of Portal name their exceptions, each of which the model reaches:

- The answer to a placeholder request is applied without a look at the message's error,
  so it takes back an edit handled before it (handlewhatsapp.go:425).
- A receipt restores the caption saved when the media failed, and as a receipt leaves
  the error on record, a second one that fails replaces the media the first one brought
  (events.go:523).
- A caption edit whose cached part is gone may turn media back into a notice
  (events.go:209); a HD replacement that is gone is never asked for (events.go:239).
- With the immediate method a stop of the process leaves a row that nobody looks at
  again (mediarequest.go:65).
- expirePin looks while a new pin of the message is still in the queue, and takes it
  down (pins.go:166); so does one that meets a pin made in Matrix.
- The timer of a pin that is delivered after it ran out may look before the pin is on
  record; the pin then stays until the next connect (pins.go:55). So does one whose timer
  cannot read the metadata (pins.go:161), and after a sweep that cannot list the portals
  the pins have no timers (pins.go:190).

So do the properties of Connector:

- InFlightIsReal: SendMessage of one request fails after the request was answered and the
  next one entered; the entry of the latter is deleted (backfill.go:758).
- RingingIsLatest: a call that the bridge ends between its log entry and `Ringing.set` stays
  in the table until the next call of the chat (calllog.go:121).
- FlagsFollowList: an error of GetBlocklist is swallowed and the event counts as handled
  (handlewhatsapp.go:1020); the answer to a block in Matrix is saved after a newer list
  (handlematrix.go:758); an update still waiting in a chat's queue contradicts the new
  list, is lost with the process, is not made for want of a LID (handlewhatsapp.go:1082), or is an
  unblock that only the flags would show when they could not be read
  (handlewhatsapp.go:1044). The last end with the next comparison of a list with
  the flags, but for a missed block (BlockMissed).
- OneAskServesAll says nothing of later: `requested` is never reset, so after a failed
  upload the phone is not asked again until a restart (directmedia.go:344).
- ShownIsTrue: a logout in the middle of connect leaves a nil client to it, which panics
  (client.go:436); connect during a connection shows an error or "connecting" over it
  (client.go:241), and a context that ends after updateProxy leaves "connecting", of which
  the property says nothing (client.go:255); syncRemoteProfile may say "connected" after the
  socket was lost, as its FIXME says; a lost connection is not shown while the phone is
  overdue (handlewhatsapp.go:226).
- RoomFollowsGroup: a snapshot of SyncChatList is applied after newer events
  (chatlistsync.go:29); what WhatsApp refuses stays changed in the room; an admin who left
  and is added again, by WhatsApp or by an invite in Matrix, keeps the level; announcements
  switched on in a community's group are applied by the event and not by the snapshot; a
  change of "locked" sets the levels for name, avatar and topic and not the one for the
  disappearing timer, which snapshots set (chatinfo.go:449); and a list that is not whole removes
  nobody (chatinfo.go:299).
- OneRoomPerPerson: chats made under a number after the start, or met in background mode,
  wait for the next start; a message without the number, or started chats, may make a second
  room; and a portal whose ghosts could not be changed is not tried again (lidmigrate.go:117).
- AlbumSentOnce: the announcement is ignored only while the album is sent; handed back
  later, or after its send failed, it is bridged (sendalbum.go:94).
- IndexesDiffer: an album split over a backfilled batch and other messages starts again at 0,
  as does one with more than 50 messages after an item, or rows that cannot be read.

And of Upkeep: AppStateRepaired excepts a request that failed, after which this process
never asks again for that patch.

In Login, three states are reachable that no comment rules out: a rotation while the
last code is shown indexes past the end (login.go:369); a caller that comes back after
the codes have run out gets the first, expired, one, as nextIndex is 0 and the check
for a negative index never applies (login.go:353); and as RotateADVSecret does not
return, it sets LoginComplete (login.go:323), after which Wait may stop showing codes
and time out waiting for a 515.

Fairness. Goroutines that can run do (weak fairness per goroutine): the Go
scheduler. Timers fire. The networks promise nothing, except where a liveness
property is about a network that works: in Presence a homeserver asked again and
again answers one request (strong fairness of a success), in Seen the network
repeats a user's last-active time in later snapshots, as the comment of Note says,
in AppState WhatsApp goes on announcing mutations and the phone answers a
recovery that was sent, in Resync people go on writing (strong fairness of an event
of each ghost's user),
in HistorySync an event put on a portal's queue is handled, in Backfill a process
does not die in every single fetch, in Login WhatsApp closes a login that leads to
nothing, a user asked for input gives it or cancels, and Go's select, which chooses
at random, takes LoginComplete some time (strong fairness).

## Proofs

CallBridgeProofs proves for all sets Incoming and Outgoing that are disjoint and
do not contain None (`SessionsAssumption`, `PlainContentAssumption`):
TypeCorrect, OneCallAlways, WAToldOnce, IncomingNeverOrphaned and ImplementsSlot.

The inductive invariant `IInv` is TypeOK, OneCall and `Coherent(s)` for every
session. OneCall alone is not inductive: a step that ends a session must know that
the session had taken the slot, and a step of the starter that it has not been
ended before it did. Coherent says, per session, how the program counters go
together: end() and the other goroutines only run once the starter has claimed the
slot (or, for the caller turned away, never), the counts of what WhatsApp was told
depend on where end() and the starter are, and a snapshot taken by end() of an
incoming call has the call. EndsWAOnce and NoOrphanIncoming follow from Coherent.
SlotSpec follows from IInv step by step: only Claim takes the slot, of a
session not yet claimed, and only EndClear gives it back.

LoginProofs proves, for any numbers of codes, intervals and rotations
(`LoginAssumption`), LoginTypeCorrect, LoginOnlyPaired, LoginOneSocket,
LoginFailedIsClosed and LoginStaleQRNoticed. The invariant `LInv` adds `Order`: a 515
follows a pairing (or OnlyPaired is lost when the 515 is taken), pairing codes belong
to the phone flow (or a code shown there would count as a QR), and nothing is
connected before Start (or its early errors would leave a socket).

RequestProofs has four components that keep a table of what they wait for.
RequestsInFlightAreReal, for any chats and any number of requests: InFlightIsReal is not
inductive, as that an entry belongs to the newest live request needs `EntryIsNewest` (a
chat's entry is the last request made for it), and `Made` says that exactly the requests
counted were made and only they get anywhere. TableNamesTheRingingCall, for any calls and
chats: the invariant `RgInv` adds `LoggedOK`, that the call about to be entered has its log
entry, and if it is over by then, the bridge ended it in between; without that, entering a
call that is over could not be told from the race which the property excuses.
OneRequestServesAllReaders, for any messages, readers and paths: `LockOK` ties the entry's
lock to the one reader that is sending, whose entry is not requested yet; `AskedOnce` counts
the requests of an entry and says that an answered one has woken its readers.
NoStaleReservation, for any persons, caps, plan and number of connections:
ReservedIsSubscribed is not inductive, as that somebody works on a person does not say for
which of the two sets, and each set is reset at a step of its own; so `SubsSubscribed` and
`MembersSubscribed` speak of one set each, from its own reset on.

ConnectorProofs has the other parts of Connector and the composition.

- PeopleHaveOneRoom, for any contacts, stops and failures. `LidInv` adds that the lists in
  memory are empty while the process is down (`MemoryOK`), that every portal under a number
  is on one of them while it runs (`NumbersKept`), that two portals of one person were made
  aside or are still to be merged (`PairsMerge`), and that a portal without its ghost is the
  one being changed or was torn (`GhostsFollow`).
- FlagsFollowTheList, for any users, changes, failures and restarts. FlagsFollowList speaks
  of the moment when all is handled; `BlInv` says at every step how the copy and its saved
  version differ from WhatsApp's list (`CopiesOK`), and the flags from the copy (`FlagsOK`):
  by an update that waits, for all but the missed ones. `NewListEffect` is why a list that
  is compared with the flags ends the misses before it. The proof failed at first at a
  restart after a list could not be saved, which the model had not counted among the
  exceptions.
- RoomsFollowGroups, for any members, settings, changes and syncs. `GrInv` looks through the
  two queues: of every thing in the room, the last event on its way that sets its source
  (for the timer's level "locked") agrees with the group, or nothing sets it and the room
  agrees, or it is one of the named exceptions.
- ShownStateIsTrue, for any number of waiting events. `ClInv` describes the queue of events
  as a chain in which a connection is lost only after it was up and nothing follows a logout
  (`ChainOK`); the last waiting event tells whether the socket is up (`EventsTell`), and
  with none waiting the state shown does (`StateTells`). A connect that is under way found
  nothing up or waiting, or it counts as crossed (`CallOK`).
- AlbumPlacesDiffer, for any chat and scan length: the index given next is above all in
  sight. AlbumsAreSentOnce, for albums of any size: `AlInv` follows the send (an item is on
  its way only in its turn, `InTurn`) and the echoes (what got out is to be ignored or is
  saved, `EchoesIgnored`, so that none but the announcement's is bridged, `EchoesOK`).
- PartsHoldTogether: all ten invariants of the run hold of Connector, whose steps are steps
  of one part and stutters of the others.

HistorySyncProofs proves NothingAnnouncedIsLost, QueueStaysAwake and NoConversationForgotten for any
announcements, conversations and generations. Recoverable needs `WorkIsReal`: a loop that is
about to delete a blob has left the queue with its conversations stored. QueueAwake is
inductive beside it: whoever takes the wakeup goes on to a row and puts one back, or stalls.
NotForgotten
needs `OneGeneration`, as without reconnects only the loops of the current generation run,
so that nobody else takes the timer or the wakeup.

BackfillProofs proves HistoryNotLost and NextBatchGoesOn for any chat, timestamps, batch size
and number of restarts. The invariant is that the room is filled from the new end: what is
missing in it is older, by a second at least (`MissingOlder`), and so is what the phone has
not sent (`UnsentOlder`), also of the response under way (`FetchOK`). The lemma
`CutOffOlder` is about the cut-off: what a batch leaves out of its range is a second older
than the batch. All of it is said of the messages outside `LeftBehind`, so that no constant
is restricted: seconds may be split or larger than a query, blobs stored at any step, the
queue off and forward backfills into a room with messages.

UpkeepProofs is about what the homeserver is told, for any users, logins, callers, cap and
queue. OfflineOnlyForThoseSeen rests on `PrInv`: who is wanted or was sent online was seen
online. ForgottenNotOnline follows from `ToldOK`: the homeserver has as online only who has
an entry with that as sent, or was evicted during a request. NeverCutShort
needs `LookHolds`: what Activity saw, that no longer online is reported, holds until its update
for a login that was not overtaken. SentInOrder is about the queue as a whole: of two
times of a user in it the later one is greater, or the second one was passed or dropped,
and the same of what was told, of what a caller is about to queue and of what the
reporter remembers (`QueueInOrder`, `NotingOK`, `MemoryOK`). UpkeepTellsTheTruth states the
four of the composition.

PortalProofs proves all five properties of Portal for any messages, versions, pins, events
and connections. For the pins, PinsTended is not inductive: when a pin is taken from the
queue and recorded, its timer has to be there already, so `WayOK` says that of every pin on its
way, while `EventsOK` and `AheadOK` compare what is pinned with the expiry events in the
queue and with the pins ahead of them, which their timers saw (NoPinIsForgotten,
NewerPinsStay); a timer or a sweep that fails leaves its pins in `untimed`, from which the
next sweep takes them. The proof failed at first at a message that is revoked while it is pinned and
bridged again: the model had kept the pin of the redacted event. For the messages, the
invariant `TxInv` says that media noted as gone, in the metadata or in the cached part, has
no file in the room (`FileOK`), and that a text has shown only its original and edits on
record, and none while it could not be decrypted (`TextOK`). TextMovesOn, ReceiptsSpareFiles
and DeletedStaysDeleted follow action by action.

Only model-checked: all liveness, as fairness and ENABLED are beyond the prover
(IncomingResolves, EndFreesSlot, LoginEnds, SilenceEndsOnline, EveryTimeArrives,
AppStateRepaired, GhostResynced, AllBridged, AllBackfilled); the
type invariants in full where the arguments need only a part; and what recursive definitions
such as wapresence.Plan compute (induction over data is beyond it, too).

## Not modelled

Codecs and audio samples, the formatting of messages, identifiers, error texts, the database
schema, bot commands, and handlers that only translate one request into another (reactions,
receipts, typing, mute, archive and tags, polls, newsletters). Of the LID migration,
syncMismatchingGhosts and FindAltTargetMessage; of direct media, avatars and stickers; of
the ghosts, what is fetched and the avatar cache; of groups, the lists too big to be synced.
Database errors are modelled where the code goes on after one (the blocklist, the pins'
timers and sweep, LIDs) and otherwise left out. The homeserver lets an online ghost decay by
itself after a while; Presence says what the bridge has told it. meowcaller's callbacks are
modelled from their use: OnEnd may or may not fire for a call that ended before it was
registered. Two behaviours have no property: the sweep of pins reads a map while the
portal's loop writes it (pins.go:198), a fatal error in Go and a Restart here, and with the
immediate method a stop leaves a media request that is never repeated (mediarequest.go:65),
which the code does not promise.

## Plan

1. Done: CallBridge, Login, HistorySync, Backfill; Presence, Seen, AppState and Resync with
   their composition Upkeep; Messages and Pins with their composition Portal; OnDemand,
   Ringing, Blocklist, DirectMedia, Client, Group, LIDs, PresenceSubs, AlbumSend and
   AlbumIndex with the composition Connector; the proofs of their safety.
2. Next modules: reactions and read receipts of events.go and handlematrix.go; the avatar
   cache; syncMismatchingGhosts; the sample pipes of callpump.go; identifiers as a round
   trip. Compositions that share state: Ringing with CallBridge's reports, OnDemand with
   HistorySync's queue.
3. Abstract specification to state: the announcement queue (each announcement stored once
   or still queued) implemented by HistorySync.
4. Proofs next: the abstract announcement queue implemented by HistorySync; the safety part
   of AppState and Resync (what a step never does to the marks and to the queue); the full
   type invariants of the modules whose proofs use a part of them.
