------------------------------ MODULE Messages ------------------------------
(***************************************************************************)
(* A message's way into its room: handlewhatsapp.go (handleWAMessage,      *)
(* handleWAUndecryptableMessage, handleWAMediaRetry), events.go (the       *)
(* events the framework calls back), mediarequest.go, mediaeditcache.go    *)
(* and, of msgconv, what a conversion does to a message's metadata.        *)
(*                                                                         *)
(* A message is original text or media (version 1) and edits of it         *)
(* (versions 2, 3, ...).  WhatsApp may deliver it undecryptable first,     *)
(* decryptable later, again as the answer to a placeholder request, edit   *)
(* it, revoke it, and repeat itself.  Media that is gone from WhatsApp's   *)
(* servers is asked back from the phone, whose receipt edits the message.  *)
(* Media is reuploaded here (DirectMedia is off).                          *)
(***************************************************************************)
EXTENDS PortalQueue, FiniteSets

CONSTANTS Media,       \* the messages that are media
          MaxVer,      \* bound: versions of a message
          Methods      \* MediaRequests.RequestMethod: "immediate", "local_time"

ASSUME MessagesAssumption ==
    /\ Media \subseteq Msgs
    /\ MaxVer \in Nat \ {0}
    /\ Methods \subseteq {"immediate", "local_time"}

VARIABLES
    written,   \* the versions of each message that its sender has made
    err,       \* MessageMetadata.Error
    edits,     \* MessageMetadata.Edits
    saved,     \* the version in MessageMetadata.FailedMediaMeta, 0 for none
    first,     \* what the message's own Matrix event shows
    shown,     \* what the room shows: the event with its last edit
    ver,       \* of which version
    applied,   \* the versions the room has shown since the message was bridged
    file,      \* the version whose file is bridged, 0 after a failed conversion
    cache,     \* mediaEditCache: the metadata of the part it holds
    method,    \* the configured method
    row,       \* status in whatsapp_media_backfill_request
    listed,    \* calls of sendMediaRequest that have not looked yet
    sending,   \* calls that are sending
    asked      \* messages whose media the phone was asked for

dbVars    == <<inDB, err, edits, saved>>
roomVars  == <<first, shown, ver, applied, file>>
askVars   == <<method, row, listed, sending, asked>>
msgVars   == <<written, dbVars, roomVars, cache, askVars>>   \* with inDB, which is shared

Versions == 1..MaxVer
Notices  == {"waiting", "failed", "error"}
NoPart   == [err |-> "none", saved |-> 0]
Part(e, s) == [err |-> e, saved |-> s]
Results  == {"url", "error"}   \* a receipt of the phone: a new URL, or none that can be used

MsgTypeOK ==
    /\ written \in [Msgs -> 0..MaxVer]
    /\ inDB \subseteq Msgs
    /\ err \in [Msgs -> {"ok", "undecryptable", "gone"}]
    /\ edits \in [Msgs -> SUBSET (2..MaxVer)]
    /\ saved \in [Msgs -> 0..MaxVer]
    /\ first \in [Msgs -> Notices \cup {"no", "content"}]
    /\ shown \in [Msgs -> Notices \cup {"no", "content"}]
    /\ ver \in [Msgs -> 0..MaxVer]
    /\ applied \in [Msgs -> SUBSET Versions]
    /\ file \in [Msgs -> 0..MaxVer]
    /\ cache \in [Msgs -> {NoPart} \cup {Part(e, s) : e \in {"ok", "undecryptable", "gone"}, s \in 0..MaxVer}]
    /\ method \in Methods
    /\ row \in [Msgs -> {"none", "new", "requested", "failed", "skipped"}]
    /\ listed \in [Msgs -> 0..MaxEvents] /\ sending \in [Msgs -> 0..MaxEvents]
    /\ asked \subseteq Media
    /\ \A m \in Msgs : m \in inDB <=> shown[m] # "no"

MsgInit ==
    /\ written = [m \in Msgs |-> 0]
    /\ inDB = {} /\ err = [m \in Msgs |-> "ok"]
    /\ edits = [m \in Msgs |-> {}] /\ saved = [m \in Msgs |-> 0]
    /\ first = [m \in Msgs |-> "no"] /\ shown = [m \in Msgs |-> "no"]
    /\ ver = [m \in Msgs |-> 0] /\ applied = [m \in Msgs |-> {}]
    /\ file = [m \in Msgs |-> 0]
    /\ cache = [m \in Msgs |-> NoPart] /\ asked = {}
    /\ method \in Methods
    /\ row = [m \in Msgs |-> "none"]
    /\ listed = [m \in Msgs |-> 0] /\ sending = [m \in Msgs |-> 0]

-----------------------------------------------------------------------------
(* What WhatsApp delivers.                                                  *)

Event(t, m, v, w) == [type |-> t, msg |-> m, ver |-> v, with |-> w]

\* handleWAMessage with an original, ...
OriginalArrives(m) ==
    /\ written' = [written EXCEPT ![m] = IF @ = 0 THEN 1 ELSE @]
    /\ Deliver(Event("message", m, 1, "file")) \/ Refuse
    /\ UNCHANGED <<dbVars, roomVars, cache, askVars>>

\* ... and handleWAUndecryptableMessage.
UndecryptableArrives(m) ==
    /\ written' = [written EXCEPT ![m] = IF @ = 0 THEN 1 ELSE @]
    /\ Deliver(Event("undecryptable", m, 1, "")) \/ Refuse
    /\ UNCHANGED <<dbVars, roomVars, cache, askVars>>

\* handleWAMessage with an UnavailableRequestID.
ResendArrives(m) ==
    /\ written[m] > 0
    /\ Deliver(Event("resend", m, 1, "file")) \/ Refuse
    /\ UNCHANGED msgVars

\* handleWAMessage with an edit, the next one or one seen before: of the text or
\* caption, or (a HD replacement) with the media itself.
EditArrives(m) ==
    /\ written[m] > 0
    /\ \E v \in 2..MaxVer, w \in IF m \in Media THEN {"caption", "file"} ELSE {"caption"} :
        /\ v <= written[m] + 1
        /\ written' = [written EXCEPT ![m] = IF v > @ THEN v ELSE @]
        /\ Deliver(Event("edit", m, v, w)) \/ Refuse
    /\ UNCHANGED <<dbVars, roomVars, cache, askVars>>

\* handleWAMessage with a revoke of a message.
RevokeArrives(m) ==
    /\ written[m] > 0
    /\ Deliver(Event("revoke", m, 0, "")) \/ Refuse
    /\ UNCHANGED msgVars

\* handleWAMediaRetry: the phone answers, perhaps more than once.
ReceiptArrives(m) ==
    /\ m \in asked
    /\ Refuse \/ \E r \in Results : Deliver(Event("receipt", m, 0, r))
    /\ UNCHANGED msgVars

-----------------------------------------------------------------------------
(* Conversion and metadata.                                                 *)

\* The room shows kind for version v of m.
Show(m, kind, v) ==
    /\ shown' = [shown EXCEPT ![m] = kind]
    /\ ver' = [ver EXCEPT ![m] = v]
    /\ applied' = [applied EXCEPT ![m] = @ \cup {v}]

\* Mutant of CopyFrom: an error once noted is kept.
CopyFromKeeping(m, e, s) ==
    /\ err' = [err EXCEPT ![m] = IF e = "ok" THEN @ ELSE e]
    /\ saved' = [saved EXCEPT ![m] = IF s # 0 THEN s ELSE @]

\* MessageMetadata.CopyFrom: the error is replaced, the media info only by another.
CopyFrom(m, e, s) ==
    /\ err' = [err EXCEPT ![m] = e]
    /\ saved' = [saved EXCEPT ![m] = IF s # 0 THEN s ELSE @]

\* convertMediaMessage of media with a file: it is reuploaded, it is gone from
\* the servers (makeMediaFailure), or the upload fails for another reason.
MediaOutcomes == {"content", "failed", "error"}

\* ToMatrix of the whole message: text always converts.
Outcomes(m) == IF m \in Media THEN MediaOutcomes ELSE {"content"}

\* needsPreviousEditPart, of an edit that brings no file.
NeedsPreviousPart(m, w) == m \in Media /\ w = "caption"

\* A receipt: MediaRetryToMatrix tries the new URL; without one it is an error.
RetryOutcomes(r) == IF r = "url" THEN {"content", "error"} ELSE {"error"}

\* AddMediaEditCache keeps media parts only.
Cached(m, kind, part) ==
    IF m \in Media /\ kind = "content" THEN [cache EXCEPT ![m] = part] ELSE cache

\* The metadata of a converted part: makeMediaFailure notes what to ask for.
Metadata(kind, v) == IF kind = "failed" THEN Part("gone", v) ELSE Part("ok", 0)

\* What the room, the metadata and the cache make of a converted version v.
Convert(m, kind, v) ==
    /\ Show(m, kind, v)
    /\ file' = [file EXCEPT ![m] = IF kind = "content" THEN v ELSE 0]
    /\ CopyFrom(m, Metadata(kind, v).err, Metadata(kind, v).saved)
    /\ cache' = Cached(m, kind, Part("ok", 0))

\* MediaRequest.Put; an error is only logged.
PutRow(m, status) == row' = [row EXCEPT ![m] = status] \/ UNCHANGED row

\* processFailedMedia: with the immediate method a goroutine asks for the media.
FailedMedia(m) ==
    /\ PutRow(m, "new")
    /\ listed' = [listed EXCEPT ![m] = IF method = "immediate" THEN @ + 1 ELSE @]
    /\ UNCHANGED <<method, sending, asked>>

PostHandle(m, kind) ==
    IF kind = "failed" THEN FailedMedia(m) ELSE UNCHANGED askVars

-----------------------------------------------------------------------------
(* The events, handled.                                                     *)

\* ConvertEdit of a message that takes the place of an undecryptable one.
NowDecryptable(m) ==
    \E kind \in Outcomes(m) :
        /\ Convert(m, kind, 1)
        /\ PostHandle(m, kind)
        /\ UNCHANGED <<inDB, edits, first>>

\* ConvertMessage of a new message.
NewMessage(m) ==
    \E kind \in Outcomes(m) :
        /\ inDB' = inDB \cup {m}
        /\ Convert(m, kind, 1)
        /\ first' = [first EXCEPT ![m] = kind]
        /\ PostHandle(m, kind)
        /\ UNCHANGED edits

\* The upsert: a new message, HandleExisting of an undecryptable one, or a duplicate.
HandleMessage ==
    /\ Take("message")
    /\ LET m == Head(queue).msg IN
        \/ m \notin inDB /\ NewMessage(m)
        \/ m \in inDB /\ err[m] = "undecryptable" /\ NowDecryptable(m)
        \/ m \in inDB /\ err[m] # "undecryptable" /\ UNCHANGED <<dbVars, roomVars, cache, askVars>>
    /\ UNCHANGED written

\* WAUndecryptableMessage; a message the bridge knows is a duplicate.
HandleUndecryptable ==
    /\ Take("undecryptable")
    /\ LET m == Head(queue).msg IN
        IF m \in inDB THEN UNCHANGED <<dbVars, roomVars>>
        ELSE /\ inDB' = inDB \cup {m}
             /\ Show(m, "waiting", 1)
             /\ first' = [first EXCEPT ![m] = "waiting"]
             /\ err' = [err EXCEPT ![m] = "undecryptable"]
             /\ UNCHANGED <<edits, saved, file>>
    /\ UNCHANGED <<written, cache, askVars>>

\* Mutant of HandleResend: dispatched like every other message.
HandleResendUpsert ==
    /\ Take("resend")
    /\ LET m == Head(queue).msg IN
        IF m \in inDB THEN NowDecryptable(m) ELSE NewMessage(m)
    /\ UNCHANGED written

\* "Dispatch directly as edit instead of the usual upsert, so that the message
\* doesn't get re-bridged if it was deleted": without a row there is no target.
HandleResend ==
    /\ Take("resend")
    /\ LET m == Head(queue).msg IN
        IF m \in inDB THEN NowDecryptable(m)
                      ELSE UNCHANGED <<dbVars, roomVars, cache, askVars>>
    /\ UNCHANGED written

\* ConvertEdit with the whole message: nothing asks for a file that is gone.
EditWhole(m, v) == \E kind \in Outcomes(m) : Convert(m, kind, v)

\* ConvertEdit of a caption: on the cached part, on the event the homeserver
\* returns (as it was sent first, or as it was edited last), or on nothing.
EditCaption(m, v) ==
    \/ /\ cache[m] # NoPart
       /\ Show(m, "content", v)
       /\ CopyFrom(m, cache[m].err, cache[m].saved)
       /\ UNCHANGED <<cache, file>>
    \/ /\ cache[m] = NoPart
       /\ \E kind \in {first[m], shown[m]} :
            /\ Show(m, kind, v)
            /\ cache' = Cached(m, kind, Part(err[m], saved[m]))
       /\ UNCHANGED <<err, saved, file>>
    \/ /\ cache[m] = NoPart
       /\ Convert(m, "error", v)

\* An edit, unless it was handled before or its message is not there.
HandleEdit ==
    /\ Take("edit")
    /\ LET m == Head(queue).msg
           v == Head(queue).ver IN
        IF m \notin inDB \/ v \in edits[m] THEN UNCHANGED <<dbVars, roomVars, cache>>
        ELSE /\ edits' = [edits EXCEPT ![m] = @ \cup {v}]
             /\ IF NeedsPreviousPart(m, Head(queue).with)
                THEN EditCaption(m, v) ELSE EditWhole(m, v)
             /\ UNCHANGED <<inDB, first>>
    /\ UNCHANGED <<written, askVars>>

\* The framework redacts the message and deletes its row; the cache is not told.
HandleRevoke ==
    /\ Take("revoke")
    /\ LET m == Head(queue).msg IN
        /\ inDB' = inDB \ {m}
        /\ err' = [err EXCEPT ![m] = "ok"]
        /\ edits' = [edits EXCEPT ![m] = {}]
        /\ saved' = [saved EXCEPT ![m] = 0]
        /\ first' = [first EXCEPT ![m] = "no"]
        /\ shown' = [shown EXCEPT ![m] = "no"]
        /\ ver' = [ver EXCEPT ![m] = 0]
        /\ applied' = [applied EXCEPT ![m] = {}]
        /\ file' = [file EXCEPT ![m] = 0]
    /\ UNCHANGED <<written, cache, askVars>>

\* Mutant of HandleReceipt: does not ask whether the media is missing.
HandleReceiptAnyway ==
    /\ Take("receipt")
    /\ LET m == Head(queue).msg IN
        IF m \notin inDB THEN UNCHANGED roomVars
        ELSE \E kind \in RetryOutcomes(Head(queue).with) :
                Show(m, kind, saved[m]) /\ UNCHANGED <<first, file>>
    /\ UNCHANGED <<written, dbVars, cache, askVars>>

\* WAMediaRetry.ConvertEdit: the file behind the new URL, or an error; neither
\* MediaRetryToMatrix nor makeErrorEdit touches the metadata.
HandleReceipt ==
    /\ Take("receipt")
    /\ LET m == Head(queue).msg IN
        IF m \notin inDB \/ err[m] # "gone" \/ saved[m] = 0 THEN UNCHANGED roomVars
        ELSE \E kind \in RetryOutcomes(Head(queue).with) :
                Show(m, kind, saved[m]) /\ UNCHANGED <<first, file>>
    /\ UNCHANGED <<written, dbVars, cache, askVars>>

-----------------------------------------------------------------------------
(* Requests to the phone, and the cache's expiry.                           *)

\* sendMediaRequests of mediaRequestLoop: the list of rows not requested.
ListRequests ==
    /\ method = "local_time"
    /\ \A m \in Msgs : listed[m] + sending[m] = 0
    /\ \E m \in Msgs : row[m] = "new"
    /\ listed' = [m \in Msgs |-> IF row[m] = "new" THEN 1 ELSE 0]
    /\ UNCHANGED <<queueVars, written, dbVars, roomVars, cache, method, row, sending, asked>>

\* sendMediaRequest looks whether the message still misses its media (and skips
\* it when that fails); the loop sends one after the other.
LookRequest(m) ==
    /\ listed[m] > 0
    /\ method = "local_time" => \A o \in Msgs : sending[o] = 0
    /\ listed' = [listed EXCEPT ![m] = @ - 1]
    /\ \/ m \in inDB /\ err[m] = "gone"
          /\ sending' = [sending EXCEPT ![m] = @ + 1] /\ UNCHANGED row
       \/ PutRow(m, "skipped") /\ UNCHANGED sending
    /\ UNCHANGED <<queueVars, written, dbVars, roomVars, cache, method, asked>>

SendRequest(m) ==
    /\ sending[m] > 0
    /\ sending' = [sending EXCEPT ![m] = @ - 1]
    /\ \/ PutRow(m, "requested") /\ asked' = asked \cup {m}
       \/ PutRow(m, "failed") /\ UNCHANGED asked
    /\ UNCHANGED <<queueVars, written, dbVars, roomVars, cache, method, listed>>

\* expireMediaEditCache.
ExpireCache(m) ==
    /\ cache[m] # NoPart
    /\ cache' = [cache EXCEPT ![m] = NoPart]
    /\ UNCHANGED <<queueVars, written, dbVars, roomVars, askVars>>

\* The process stops: what was in memory is gone.
MsgRestart ==
    /\ cache' = [m \in Msgs |-> NoPart]
    /\ listed' = [m \in Msgs |-> 0] /\ sending' = [m \in Msgs |-> 0]
    /\ UNCHANGED <<written, dbVars, roomVars, method, row, asked>>

MsgNext ==
    \/ \E m \in Msgs :
        \/ OriginalArrives(m) \/ UndecryptableArrives(m) \/ ResendArrives(m)
        \/ EditArrives(m) \/ RevokeArrives(m) \/ ReceiptArrives(m)
        \/ LookRequest(m) \/ SendRequest(m) \/ ExpireCache(m)
    \/ HandleMessage \/ HandleUndecryptable \/ HandleResend \/ HandleEdit
    \/ HandleRevoke \/ HandleReceipt \/ ListRequests
=============================================================================
