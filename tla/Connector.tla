----------------------------- MODULE Connector ------------------------------
(***************************************************************************)
(* The parts of the connector that keep their own state and share none of  *)
(* it.  A behaviour of the whole interleaves behaviours of the parts, and  *)
(* every invariant is about one part only; so it is enough to let one part *)
(* move in each behaviour while the others stay in an initial state.       *)
(***************************************************************************)
EXTENDS OnDemand, Ringing, Blocklist, DirectMedia, Client, Group, LIDs, PresenceSubs,
        AlbumSend, AlbumIndex

VARIABLE focus      \* the part that moves

vars == <<focus, odVars, rgVars, blVars, dmVars, clVars, grVars, lidVars, subsVars,
          alVars, aiVars>>

Parts == {"ondemand", "ringing", "blocklist", "directmedia", "client", "group", "lids", "subs",
          "albumsend", "albumindex"}

\* Of the initial states of a part that does not move one will do.
Still ==
    /\ focus = "ondemand" \/ askChat = [r \in Asks |-> CHOOSE c \in OdChats : TRUE]
    /\ focus = "ringing" \/ rgChat = [c \in RgCalls |-> CHOOSE p \in RgChats : TRUE]
    /\ focus = "blocklist" \/ blServer = {}
    /\ focus = "directmedia" \/ rdMsg = [r \in Readers |-> CHOOSE m \in DmMsgs : TRUE]
    /\ focus = "client" \/ (background = FALSE /\ phone = "never")
    /\ focus = "group" \/ (community = FALSE /\ whole = TRUE /\ grp = [x \in Things |-> IF x \in GrMembers THEN "out" ELSE "no"])
    /\ focus = "lids" \/ (known = {} /\ pnRoom = {})
    /\ focus = "subs" \/ subPlan = <<>>
    /\ focus = "albumsend" \/ (alName = "pn" /\ alKind = [i \in Events |-> "image"])
    /\ focus = "albumindex" \/ (kids = {} /\ parentRow = FALSE)

Init ==
    /\ focus \in Parts
    /\ Still
    /\ OdInit /\ RgInit /\ BlInit /\ DmInit /\ ClInit /\ GrInit /\ LidInit /\ SubsInit
    /\ AlInit /\ AiInit

\* Only the part p moves.
Turn(p) ==
    /\ focus = p /\ UNCHANGED focus
    /\ p # "ondemand" => UNCHANGED odVars
    /\ p # "ringing" => UNCHANGED rgVars
    /\ p # "blocklist" => UNCHANGED blVars
    /\ p # "directmedia" => UNCHANGED dmVars
    /\ p # "client" => UNCHANGED clVars
    /\ p # "group" => UNCHANGED grVars
    /\ p # "lids" => UNCHANGED lidVars
    /\ p # "subs" => UNCHANGED subsVars
    /\ p # "albumsend" => UNCHANGED alVars
    /\ p # "albumindex" => UNCHANGED aiVars

Next ==
    \/ Turn("ondemand") /\ OdNext
    \/ Turn("ringing") /\ RgNext
    \/ Turn("blocklist") /\ BlNext
    \/ Turn("directmedia") /\ DmNext
    \/ Turn("client") /\ ClNext
    \/ Turn("group") /\ GrNext
    \/ Turn("lids") /\ LidNext
    \/ Turn("subs") /\ SubsNext
    \/ Turn("albumsend") /\ AlNext
    \/ Turn("albumindex") /\ AiNext

Spec == Init /\ [][Next]_vars
=============================================================================
