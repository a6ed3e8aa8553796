----------------------------- MODULE AlbumSend ------------------------------
(***************************************************************************)
(* connector/sendalbum.go, msgconv/wa-album-send.go and HandleMatrixMessage*)
(* with handleConvertedMatrixMessage: media that belongs together on       *)
(* Matrix is sent as an announcement and then item by item.  WhatsApp may  *)
(* hand each of these messages back to the bridge at any time after it got *)
(* through, under either of the login's two names, while the framework     *)
(* saves the items only once the handler has returned.                     *)
(***************************************************************************)
EXTENDS Naturals, Sequences, FiniteSets

CONSTANTS AlItems       \* bound: events sent together

ASSUME AlAssumption == AlItems \in Nat

VARIABLES
    alKind,     \* what each event converts to
    alName,     \* the name WhatsApp uses for the login in this chat
    alStep,     \* where HandleMatrixAlbum is
    alAt,       \* the item it has come to
    announced,  \* the number of items that a parent was sent for, 0 without one
    alLink,     \* each item's MessageIndex + 1, 0 if it points at no parent
    alPending,  \* transactions to ignore; 0 is the parent
    alOut,      \* what got through to WhatsApp, in order
    alSent,     \* the items whose SendMessage returned without an error
    alSaved,    \* the items that have a row in the database
    alEchoed    \* what was handed back and bridged

alVars == <<alKind, alName, alStep, alAt, announced, alLink, alPending, alOut, alSent, alSaved,
            alEchoed>>

Events == 1..AlItems
Names  == {"pn", "lid"}

AlTypeOK ==
    /\ alKind \in [Events -> {"image", "video", "other", "bad"}]
    /\ alName \in Names
    /\ alStep \in {"convert", "parent", "items", "sending", "done"}
    /\ alAt \in 1..(AlItems + 1)
    /\ announced \in 0..AlItems
    /\ alLink \in [Events -> 0..AlItems]
    /\ alPending \subseteq (0..AlItems) \X Names
    /\ alOut \in Seq(0..AlItems)
    /\ {alSent, alSaved} \subseteq SUBSET Events /\ alEchoed \subseteq 0..AlItems

AlInit ==
    /\ alKind \in [Events -> {"image", "video", "other", "bad"}]
    /\ alName \in Names
    /\ alStep = "convert" /\ alAt = 1
    /\ announced = 0 /\ alLink = [i \in Events |-> 0]
    /\ alPending = {} /\ alOut = <<>> /\ alSent = {} /\ alSaved = {} /\ alEchoed = {}

\* albumMediaKind: images and videos, but no GIFs, files, audio, or events that
\* could not be converted.
IsAlbumMedia(i) == alKind[i] \in {"image", "video"}

\* NewAlbumParent's counts.
Counted == Cardinality({i \in Events : IsAlbumMedia(i)})

Ignored(m) == {<<m, n>> : n \in Names}

\* HandleMatrixAlbum up to the parent's SendMessage, if there are items enough;
\* status messages have no albums.
Convert ==
    /\ alStep = "convert"
    /\ \/ /\ Counted >= 2
          /\ alStep' = "parent"
          /\ alPending' = alPending \cup Ignored(0)
       \/ alStep' = "items" /\ UNCHANGED alPending
    /\ UNCHANGED <<alKind, alName, alAt, announced, alLink, alOut, alSent, alSaved, alEchoed>>

\* The message that is being sent gets through.
GetsOut ==
    \E m \in 0..AlItems :
        /\ \/ m = 0 /\ alStep = "parent"
           \/ m = alAt /\ alStep = "sending"
        /\ \A k \in DOMAIN alOut : alOut[k] # m
        /\ alOut' = Append(alOut, m)
        /\ UNCHANGED <<alKind, alName, alStep, alAt, announced, alLink, alPending, alSent, alSaved,
                       alEchoed>>

Out(m) == \E k \in DOMAIN alOut : alOut[k] = m

\* LinkAlbumItems numbers the items that can be in an album.
LinkAlbumItems ==
    alLink' = [i \in Events |-> IF IsAlbumMedia(i)
                                THEN Cardinality({j \in 1..i : IsAlbumMedia(j)}) ELSE 0]

\* sendAlbumParent returns with the key, or with an error after forgetting it.
ParentSent ==
    /\ alStep = "parent" /\ Out(0)
    /\ alStep' = "items"
    /\ announced' = Counted
    /\ LinkAlbumItems
    /\ UNCHANGED <<alKind, alName, alAt, alPending, alOut, alSent, alSaved, alEchoed>>

ParentFails ==
    /\ alStep = "parent"
    /\ alStep' = "items"
    /\ alPending' = alPending \ Ignored(0)
    /\ UNCHANGED <<alKind, alName, alAt, announced, alLink, alOut, alSent, alSaved, alEchoed>>

\* The loop: what could not be converted is left out, and the next is sent by
\* handleConvertedMatrixMessage.
NextItem ==
    /\ alStep = "items" /\ alAt \in Events
    /\ IF alKind[alAt] = "bad"
       THEN alAt' = alAt + 1 /\ UNCHANGED <<alStep, alPending>>
       ELSE alStep' = "sending" /\ alPending' = alPending \cup Ignored(alAt) /\ UNCHANGED alAt
    /\ UNCHANGED <<alKind, alName, announced, alLink, alOut, alSent, alSaved, alEchoed>>

\* Mutant of PickName: the two IDs are mixed up.
PickNameOther(i) == alPending' = alPending \ {<<i, alName>>}

\* The ID with the response's sender stays pending, the other one does not.
PickName(i) == alPending' = alPending \ {<<i, n>> : n \in Names \ {alName}}

ItemSent ==
    /\ alStep = "sending" /\ Out(alAt)
    /\ alStep' = "items" /\ alAt' = alAt + 1
    /\ alSent' = alSent \cup {alAt}
    /\ PickName(alAt)
    /\ UNCHANGED <<alKind, alName, announced, alLink, alOut, alSaved, alEchoed>>

\* Both IDs stay: the message may have got through.
ItemFails ==
    /\ alStep = "sending"
    /\ alStep' = "items" /\ alAt' = alAt + 1
    /\ UNCHANGED <<alKind, alName, announced, alLink, alPending, alOut, alSent, alSaved, alEchoed>>

\* The deferred forgetParent.
Return ==
    /\ alStep = "items" /\ alAt > AlItems
    /\ alStep' = "done"
    /\ alPending' = alPending \ Ignored(0)
    /\ UNCHANGED <<alKind, alName, alAt, announced, alLink, alOut, alSent, alSaved, alEchoed>>

\* The framework saves an item's row and takes its ID out of the ignored ones.
SaveItem(i) ==
    /\ alStep = "done" /\ i \in alSent \ alSaved
    /\ alSaved' = alSaved \cup {i}
    /\ alPending' = alPending \ {<<i, alName>>}
    /\ UNCHANGED <<alKind, alName, alStep, alAt, announced, alLink, alOut, alSent, alEchoed>>

\* A message is handed back; it is bridged unless it is ignored or known.
Echo(m) ==
    /\ Out(m) /\ m \notin alSaved /\ <<m, alName>> \notin alPending
    /\ alEchoed' = alEchoed \cup {m}
    /\ UNCHANGED <<alKind, alName, alStep, alAt, announced, alLink, alPending, alOut, alSent,
                   alSaved>>

AlNext ==
    \/ Convert \/ GetsOut \/ ParentSent \/ ParentFails \/ NextItem \/ ItemSent \/ ItemFails \/ Return
    \/ \E i \in Events : SaveItem(i)
    \/ \E m \in 0..AlItems : Echo(m)

AlSpec == AlInit /\ [][AlNext]_alVars

-----------------------------------------------------------------------------
\* Every event of an album is in the room once, however its message comes back; the
\* announcement never shows up while the album is sent; it reaches WhatsApp before
\* the items that point at it, and counts exactly these, which are numbered
\* in the order of the events.  Only the announcement is forgotten too early: handed
\* back after the album was sent, or after a failure, it is bridged.
AlbumSentOnce ==
    /\ alEchoed \subseteq {0}
    /\ 0 \in alEchoed => alStep = "done" \/ announced = 0
    /\ \A k \in DOMAIN alOut : alOut[k] # 0 /\ alLink[alOut[k]] # 0 => \E j \in 1..(k - 1) : alOut[j] = 0
    /\ announced = Cardinality({i \in Events : alLink[i] # 0})
    /\ \A i, j \in Events : i < j /\ alLink[i] # 0 /\ alLink[j] # 0 => alLink[i] < alLink[j]
    /\ \A i \in Events : alLink[i] # 0 => alKind[i] \notin {"other", "bad"} /\ alLink[i] <= announced
=============================================================================
