----------------------------- MODULE AlbumIndex -----------------------------
(***************************************************************************)
(* msgconv/wa-album.go and pkg/album: the place of an item in an album     *)
(* that comes from WhatsApp.  Items do not say which they are, so each is  *)
(* given the next index after those of the chat's recent rows, or, in a    *)
(* backfill, after those before it in the batch.  Items are resent,        *)
(* undecryptable at first, revoked, or without their media.                *)
(***************************************************************************)
EXTENDS Naturals, FiniteSets

CONSTANTS AiMsgs,       \* bound: the messages of the chat are 1..AiMsgs, by time
          AiScan        \* albumRecentMessageScan

ASSUME AiAssumption == {AiMsgs, AiScan} \subseteq Nat

VARIABLES
    kids,       \* the messages that are items of the album
    parentRow,  \* the parent was bridged, with the number of items
    rows,       \* the messages in the database
    place,      \* MessageMetadata.Album: Index + 1, 0 if it is nil
    loose       \* an index was given without all the rows before it

aiVars == <<kids, parentRow, rows, place, loose>>

Chat == 1..AiMsgs

AiTypeOK ==
    /\ {kids, rows} \subseteq SUBSET Chat
    /\ place \in [Chat -> 0..AiMsgs]
    /\ {parentRow, loose} \subseteq BOOLEAN

AiInit ==
    /\ kids \in SUBSET Chat /\ parentRow \in BOOLEAN
    /\ rows = {} /\ place = [m \in Chat |-> 0] /\ loose = FALSE

\* GetLastNInPortal.
Recent == {r \in rows : Cardinality({s \in rows : s >= r}) <= AiScan}

Placed == {r \in rows : place[r] # 0}

\* Mutant of NextAlbumIndex: the number of items there are.
NextAlbumIndexCount(rs) == Cardinality({r \in rs : place[r] # 0}) + 1

\* NextAlbumIndex, plus one.
NextAlbumIndex(rs) ==
    1 + (CHOOSE n \in 0..AiMsgs :
            /\ n = 0 \/ \E r \in rs : place[r] = n
            /\ \A r \in rs : place[r] <= n)

\* albumIndexFromDB: a row of the message itself keeps its index.
AlbumIndexFromDB(m) ==
    IF m \in Recent /\ place[m] # 0 THEN place[m] ELSE NextAlbumIndex(Recent)

\* addAlbumInfo: items with media, of an album not known to have just one.
GetsAlbum(m) == m \in kids /\ ~(parentRow /\ Cardinality(kids) = 1)

\* A message that cannot be decrypted yet, or whose media is not to be had.
Notice(m) ==
    /\ m \notin rows
    /\ rows' = rows \cup {m}
    /\ UNCHANGED <<kids, parentRow, place, loose>>

\* A live message: the first time, or again.  If the rows cannot be read the index
\* is 0.
Live(m, readable) ==
    /\ GetsAlbum(m) => NextAlbumIndex(Recent) <= AiMsgs
    /\ rows' = rows \cup {m}
    /\ place' = [place EXCEPT ![m] = IF ~GetsAlbum(m) THEN 0
                                     ELSE IF readable THEN AlbumIndexFromDB(m) ELSE 1]
    /\ loose' = (loose \/ (GetsAlbum(m) /\ (~readable \/ ~(Placed \subseteq Recent))))
    /\ UNCHANGED <<kids, parentRow>>

\* NewAlbumBatch, for messages that are bridged together.
Batch(ms) ==
    /\ ms # {} /\ ms \cap rows = {}
    /\ rows' = rows \cup ms
    /\ place' = [m \in Chat |-> IF m \in ms /\ GetsAlbum(m)
                                THEN Cardinality({k \in ms \cap kids : k <= m}) ELSE place[m]]
    /\ loose' = (loose \/ (Placed # {} /\ ms \cap kids # {}))
    /\ UNCHANGED <<kids, parentRow>>

Revoked(m) ==
    /\ m \in rows
    /\ rows' = rows \ {m}
    /\ place' = [place EXCEPT ![m] = 0]
    /\ UNCHANGED <<kids, parentRow, loose>>

AiNext ==
    \/ \E m \in Chat : Notice(m) \/ Live(m, TRUE) \/ Live(m, FALSE) \/ Revoked(m)
    \/ \E ms \in SUBSET Chat : Batch(ms)

AiSpec == AiInit /\ [][AiNext]_aiVars

-----------------------------------------------------------------------------
\* "Index is the 0-based position of the item within the album": no two items of an
\* album in the room have the same one, whatever was resent, revoked or bridged out
\* of order.  The exceptions, after which two items may share a place: an album of
\* which a part was bridged before a batch with the rest, more messages after
\* an item than are looked at, and rows that could not be read.
IndexesDiffer ==
    ~loose => \A a, b \in Placed : a # b => place[a] # place[b]
=============================================================================
