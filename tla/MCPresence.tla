----------------------------- MODULE MCPresence -----------------------------
(* Presence on a few users and logins.                                      *)
EXTENDS Presence, TLC

\* Users are interchangeable, and so are logins (safety runs only).
PresenceSymmetry == Permutations(Users) \cup Permutations(Logins)
=============================================================================
