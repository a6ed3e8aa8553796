------------------------------ MODULE Backfill ------------------------------
(***************************************************************************)
(* Backfilling one chat from the stored history sync messages:             *)
(* FetchMessages, convertHistorySyncMessages and its CompleteCallback in   *)
(* pkg/connector/backfill.go, with the queries of wadb/message.go.         *)
(*                                                                         *)
(* The bridge framework asks for one batch after another, sends it to the  *)
(* room and then calls CompleteCallback, which deletes the batch from the  *)
(* database by its range of timestamps.  Meanwhile the history sync loop   *)
(* may store more messages of the chat.                                    *)
(***************************************************************************)
EXTENDS Integers, FiniteSets

CONSTANTS Msgs,      \* messages of the chat
          TS,        \* TS[m]: timestamp in seconds, after clamping
          Count,     \* batch size the framework asks for
          QueueOn,   \* Backfill.Queue.AnyEnabled()
          Split,     \* a second may be split between two blobs
          Overlap,   \* where in a fetch a blob may be stored
          CatchUp    \* forward backfills happen in a room that has messages

ASSUME TSType == TS \in [Msgs -> Nat \ {0}]
ASSUME MsgsFinite == IsFiniteSet(Msgs)
ASSUME CountType == Count \in Nat \ {0}
ASSUME SwitchTypes == {QueueOn, Split, CatchUp} \subseteq BOOLEAN
ASSUME OverlapType == Overlap \subseteq {"got", "sent", "wipe"}

VARIABLES
  db,        \* whatsapp_history_sync_message
  unsent,    \* messages the phone has not sent yet
  bridged,   \* messages in the Matrix room
  cursor,    \* FetchMessagesResponse.Cursor of the backwards task, 0 for none
  done,      \* the backwards task has nothing more to ask for
  pc,        \* "idle", "got" (a response), "sent" (it is in the room), "wipe"
  dir,       \* the direction of the fetch in progress
  resp,      \* the messages of its response
  (* history *)
  stranded   \* messages that came too late or were given up (see Late and Complete)

vars == <<db, unsent, bridged, cursor, done, pc, dir, resp, stranded>>

\* The oldest and the newest timestamp of a set of messages.
Oldest(S) == CHOOSE t \in {TS[m] : m \in S} : \A m \in S : t <= TS[m]
Newest(S) == CHOOSE t \in {TS[m] : m \in S} : \A m \in S : TS[m] <= t

Init ==
  /\ db = {} /\ unsent = Msgs /\ bridged = {}
  /\ cursor = 0 /\ done = FALSE
  /\ pc = "idle" /\ dir = "forward" /\ resp = {}
  /\ stranded = {}

----------------------------------------------------------------------------
\* Those of the messages being stored that the fetches will not find: a fetch has found
\* the chat empty and is about to delete it, or the other messages of their second were
\* fetched already, and the next fetch goes on below it.
Late(S) == IF pc = "wipe" THEN S
           ELSE {m \in S : \E o \in bridged \cup resp : TS[o] = TS[m]}

\* handleWAHistorySync stores the next, older messages of the chat and marks the
\* backfill task as not done.
Store(S) ==
  /\ pc \in Overlap \cup {"idle"}
  /\ S # {} /\ S \subseteq unsent
  /\ \A m \in S, o \in unsent \ S : IF Split THEN TS[o] <= TS[m] ELSE TS[o] < TS[m]
  /\ db' = db \cup S
  /\ unsent' = unsent \ S
  /\ done' = FALSE
  /\ stranded' = stranded \cup Late(S)
  /\ UNCHANGED <<bridged, cursor, pc, dir, resp>>

\* The WHERE clauses of GetBetween.  Backwards, the range ends before the oldest
\* message of the room and before the cursor; forward, it starts after the newest.
InRange(forward, m) ==
  IF forward
  THEN bridged = {} \/ TS[m] > Newest(bridged)
  ELSE /\ bridged = {} \/ TS[m] < Oldest(bridged)
       /\ cursor = 0 \/ TS[m] < cursor

Candidates(forward) == {m \in db : InRange(forward, m)}

\* ORDER BY timestamp DESC LIMIT Count + 1; ties come in any order.
Found(range, S) ==
  /\ Cardinality(S) = IF Cardinality(range) <= Count THEN Cardinality(range) ELSE Count + 1
  /\ \A m \in S, o \in range \ S : TS[o] <= TS[m]

\* Mutation of CutOff: only the last message is dropped, not the ones of its second.
CutOffLast(S) ==
  IF Cardinality(S) <= Count THEN S
  ELSE S \ {CHOOSE m \in S : TS[m] = Oldest(S)}

\* A full result loses the messages of its oldest second, unless that is all of it.
CutOff(S) ==
  LET kept == {m \in S : TS[m] > Oldest(S)}
  IN IF Cardinality(S) <= Count \/ kept = {} THEN S ELSE kept

\* FetchMessages and convertHistorySyncMessages up to the response.
Fetch(forward) ==
  /\ pc = "idle"
  /\ IF forward THEN CatchUp \/ bridged = {} ELSE bridged # {} /\ ~done
  /\ LET range == Candidates(forward)
     IN \E S \in SUBSET range :
          /\ S # {}
          /\ Found(range, S)
          /\ resp' = CutOff(S)
          /\ done' = IF forward THEN done ELSE Cardinality(S) <= Count
  /\ dir' = IF forward THEN "forward" ELSE "backward"
  /\ pc' = "got"
  /\ UNCHANGED <<db, unsent, bridged, cursor, stranded>>

\* Nothing is in range: what is left in the chat is deleted next, after a forward fetch
\* also what is older than the room.
FetchEmpty(forward) ==
  /\ pc = "idle"
  /\ IF forward THEN CatchUp \/ bridged = {} ELSE bridged # {} /\ ~done
  /\ Candidates(forward) = {}
  /\ pc' = "wipe"
  /\ dir' = IF forward THEN "forward" ELSE "backward"
  /\ done' = IF forward THEN done ELSE TRUE
  /\ stranded' = IF forward /\ bridged # {} THEN stranded \cup (db \ bridged) ELSE stranded
  /\ UNCHANGED <<db, unsent, bridged, cursor, resp>>

\* deleteHistorySyncMessages(0, 0): DeleteAllInChat.
Wipe ==
  /\ pc = "wipe"
  /\ db' = {}
  /\ pc' = "idle"
  /\ UNCHANGED <<unsent, bridged, cursor, done, dir, resp, stranded>>

\* The framework puts the batch into the room and remembers the cursor.
Bridge ==
  /\ pc = "got"
  /\ bridged' = bridged \cup resp
  /\ cursor' = IF dir = "backward" THEN Oldest(resp) ELSE cursor
  /\ pc' = "sent"
  /\ UNCHANGED <<db, unsent, done, dir, resp, stranded>>

\* Mutation of Deleted: one second too many.
DeletedMore == {m \in db : TS[m] <= Newest(resp) /\ TS[m] >= Oldest(resp) - 1}

\* deleteHistorySyncMessages: the range of the batch, or everything without a queue.
Deleted == IF QueueOn THEN {m \in db : TS[m] <= Newest(resp) /\ TS[m] >= Oldest(resp)} ELSE db

\* CompleteCallback.  Without a backfill queue nobody will ask for the rest.
Complete ==
  /\ pc = "sent"
  /\ stranded' = IF QueueOn THEN stranded ELSE stranded \cup db
  /\ db' = db \ Deleted
  /\ resp' = {}
  /\ pc' = "idle"
  /\ UNCHANGED <<unsent, bridged, cursor, done, dir>>

\* Mutation of Restart: the batch counts as bridged.
RestartBridged ==
  /\ pc \in {"got", "sent", "wipe"}
  /\ db' = db \ resp
  /\ pc' = "idle" /\ resp' = {}
  /\ UNCHANGED <<unsent, bridged, cursor, done, dir, stranded>>

\* The process dies during a fetch: the batch is forgotten and the task, which is
\* saved only after the batch, is taken up again.
Restart ==
  /\ pc \in {"got", "sent", "wipe"}
  /\ pc' = "idle" /\ resp' = {}
  /\ done' = IF dir = "forward" THEN done ELSE FALSE
  /\ UNCHANGED <<db, unsent, bridged, cursor, dir, stranded>>

Next == \/ \E S \in SUBSET Msgs : Store(S)
        \/ \E forward \in BOOLEAN : Fetch(forward) \/ FetchEmpty(forward)
        \/ Wipe \/ Bridge \/ Complete \/ Restart

Spec == Init /\ [][Next]_vars

\* The framework goes on with what it has begun and works on a task that is not done;
\* a process that keeps dying in the middle of every fetch is not considered.
Fairness == /\ WF_vars(\E forward \in BOOLEAN : Fetch(forward) \/ FetchEmpty(forward))
            /\ SF_vars(Bridge) /\ SF_vars(Complete) /\ SF_vars(Wipe)

FairSpec == Spec /\ Fairness

----------------------------------------------------------------------------
TypeOK ==
  /\ db \subseteq Msgs /\ unsent \subseteq Msgs /\ bridged \subseteq Msgs
  /\ cursor \in {0} \cup {TS[m] : m \in Msgs}
  /\ done \in BOOLEAN
  /\ pc \in {"idle", "got", "sent", "wipe"}
  /\ dir \in {"forward", "backward"}
  /\ resp \subseteq Msgs /\ (resp # {} <=> pc \in {"got", "sent"})
  /\ Cardinality(resp) <= Count + 1
  /\ stranded \subseteq Msgs

\* Messages of a second that has more of them than one query returns: the cut-off
\* cannot drop the second, and the next fetch goes on below it.
Crowded == {m \in Msgs : Cardinality({o \in Msgs : TS[o] = TS[m]}) > Count + 1}

LeftBehind == stranded \cup Crowded

\* No message of the phone's history is lost on its way into the room, whatever is
\* stored during a fetch and wherever it is cut off by a stop: it is still to be sent,
\* stored, or bridged, or it is one of those that the bridge leaves behind.
NoLoss == \A m \in Msgs : m \in unsent \cup db \cup bridged \cup LeftBehind

\* "Otherwise, if there are multiple messages with the same timestamp, the next fetch
\* may miss some": a message left out of a response is older than all of it, so that
\* the next fetch, which goes on below the oldest timestamp, finds it.
NextFindsRest ==
  pc = "got" /\ dir = "backward" =>
    \A m \in db \ (resp \cup LeftBehind) : InRange(FALSE, m) => TS[m] < Oldest(resp)

\* Everything the phone has sent gets into the room and stays there, but for what is left
\* behind.
AllBackfilled == <>[](\A m \in Msgs : m \in unsent \cup bridged \cup LeftBehind)
=============================================================================
