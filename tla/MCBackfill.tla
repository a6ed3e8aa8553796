----------------------------- MODULE MCBackfill -----------------------------
(* Instances of Backfill: which messages share a second. *)
EXTENDS Backfill, TLC

CONSTANTS m1, m2, m3, m4, m5, m6

\* A second of three messages, more than a query for Count + 1 = 2 returns, one of two, and
\* one of a single message.
Seconds == m1 :> 1 @@ m2 :> 1 @@ m3 :> 1 @@ m4 :> 2 @@ m5 :> 2 @@ m6 :> 3
=============================================================================
