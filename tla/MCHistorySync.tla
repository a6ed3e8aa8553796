--------------------------- MODULE MCHistorySync ---------------------------
(* Small instances of HistorySync: which blob holds which conversations. *)
EXTENDS HistorySync, TLC

CONSTANTS n1, n2, c1, c2

\* The default of max_initial_conversations.
Unlimited == -1

\* Two blobs with a conversation each, and one with both.
OneEach == n1 :> {c1} @@ n2 :> {c2}
Shared == n1 :> {c1, c2} @@ n2 :> {c2}
AllRecent == n1 :> "recent" @@ n2 :> "recent"
WithOnDemand == n1 :> "recent" @@ n2 :> "ondemand"
=============================================================================
