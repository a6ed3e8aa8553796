---------------------------- MODULE UpkeepProofs ----------------------------
(***************************************************************************)
(* The presence Manager and the SeenReporter: what the homeserver is told  *)
(* of a user, and the order in which it is.                                *)
(***************************************************************************)
EXTENDS Upkeep, TLAPS

(* What the Manager tells the homeserver, for any users, logins and settings. *)

\* The part of TypeOK that the arguments need.
EntriesOK ==
    /\ desired \in [Users -> Status]
    /\ sent \in [Users -> Status \cup {"none"}]
    /\ left \in [Users -> Nat]
    /\ hs \in [Users -> Status \cup {"none"}]
    /\ duePres \in [Users -> Status]
    /\ act \in [Logins -> Users \cup {None}]
    /\ actLeft \in [Logins -> Nat]
    /\ tracked \subseteq Users

\* The worker's list, and the place of the request under way in it.
ListOK ==
    /\ due \subseteq Users
    /\ worker = "idle" => due = {}
    /\ worker = "waiting" => cur \in due

\* Whoever is wanted or was sent online, or has a request coming, was seen online.
SeenOK ==
    /\ DOMAIN seenOnline = Users
    /\ \A u \in tracked : desired[u] = "online" \/ sent[u] # "offline" => seenOnline[u] = TRUE
    /\ \A u \in due : seenOnline[u] = TRUE

PrInv == EntriesOK /\ ListOK /\ SeenOK

LEMMA PrStarts == Init => PrInv
  BY DEF Init, PrInv, EntriesOK, ListOK, SeenOK, Status

\* What Update does to the entries, leaving out whose place a new one takes.
LEMMA UpdateIs ==
    ASSUME EntriesOK, NEW u \in Users, NEW p \in Status, NEW l \in Nat, Update(u, p, l)
    PROVE  /\ tracked' \subseteq tracked \cup {u}
           /\ desired' \in [Users -> Status] /\ left' \in [Users -> Nat]
           /\ sent' \in [Users -> Status \cup {"none"}]
           /\ \A v \in Users \ {u} : /\ desired'[v] = desired[v] /\ left'[v] = left[v]
                                      /\ sent'[v] = sent[v]
           /\ u \in tracked => /\ tracked' = tracked
                               /\ desired'[u] = p /\ left'[u] = l /\ sent'[u] = sent[u]
           /\ u \notin tracked /\ u \in tracked' => /\ desired'[u] = p /\ left'[u] = l
                                                    /\ p = "offline" => sent'[u] = "offline"
           /\ evictedDue \subseteq evictedDue'
           /\ \A v \in tracked \ tracked' : /\ sent[v] # "online"
                                            /\ v \in due => v \in evictedDue'
<1> USE PresenceAssumption DEF EntriesOK
<1>1. CASE /\ u \in tracked
           /\ desired' = [desired EXCEPT ![u] = p]
           /\ left' = [left EXCEPT ![u] = l]
           /\ UNCHANGED <<tracked, sent, since, evictedDue>>
  BY <1>1
<1>2. CASE u \notin tracked /\ NewEntry(u, p, l, tracked) /\ UNCHANGED evictedDue
  BY <1>2 DEF NewEntry, Status
<1>3. CASE /\ u \notin tracked
           /\ \E v \in Users : /\ Victim(v) /\ NewEntry(u, p, l, tracked \ {v})
                               /\ evictedDue' = evictedDue \cup ({v} \cap due)
  <2>1. PICK v \in Users : /\ Evictable(v) /\ NewEntry(u, p, l, tracked \ {v})
                           /\ evictedDue' = evictedDue \cup ({v} \cap due)
    BY <1>3 DEF Victim
  <2>2. sent[v] # "online"
    BY <2>1 DEF Evictable
  <2> QED BY <1>3, <2>1, <2>2 DEF NewEntry, Status
<1>4. CASE u \notin tracked /\ UNCHANGED <<entryVars, evictedDue>>
  BY <1>4 DEF entryVars
<1> QED BY <1>1, <1>2, <1>3, <1>4 DEF Update

\* A step of a login.
LEMMA LoginIs ==
    ASSUME EntriesOK, NEW k \in Logins, Report(k) \/ ActivityLook(k) \/ ActivityUpdate(k)
    PROVE  \/ /\ UNCHANGED <<entryVars, histVars>>
              /\ act' \in [Logins -> Users \cup {None}] /\ actLeft' \in [Logins -> Nat]
              /\ \A l \in Logins : l # k => act'[l] = act[l] /\ actLeft'[l] = actLeft[l]
              /\ act[k] = None /\ act'[k] \in Users /\ ~Longer(act'[k], actLeft'[k])
           \/ \E u \in Users, p \in Status, l \in Nat :
              /\ Update(u, p, l)
              /\ act' \in [Logins -> Users \cup {None}] /\ actLeft' \in [Logins -> Nat]
              /\ act' = [act EXCEPT ![k] = None]
              /\ act[k] # None => act[k] = u /\ l = actLeft[k]
              /\ \A j \in Logins \ {k} :
                   /\ actLeft'[j] = actLeft[j]
                   /\ j \notin overtaken' =>
                        j \notin overtaken /\ ~(p = "online" /\ act[j] = u /\ actLeft[j] < l)
<1> USE PresenceAssumption DEF EntriesOK
<1>1. CASE Report(k)
  <2> DEFINE rest(p) == IF p = "online" THEN TTL ELSE 0
  <2>1. PICK u \in Users, p \in Status :
          Update(u, p, rest(p)) /\ overtaken' = overtaken \cup Overtakes(u, p, rest(p))
    BY <1>1 DEF Report
  <2>2. act[k] = None /\ UNCHANGED <<act, actLeft>> /\ rest(p) \in Nat
    BY <1>1 DEF Report, actVars
  <2>3. act = [act EXCEPT ![k] = None]
    BY <2>2
  <2>4. \A j \in Logins : j \notin overtaken' =>
          j \notin overtaken /\ ~(p = "online" /\ act[j] = u /\ actLeft[j] < rest(p))
    BY <2>1 DEF Overtakes
  <2>5. /\ Update(u, p, rest(p))
        /\ act' \in [Logins -> Users \cup {None}] /\ actLeft' \in [Logins -> Nat]
        /\ act' = [act EXCEPT ![k] = None]
        /\ act[k] # None => act[k] = u /\ rest(p) = actLeft[k]
        /\ \A j \in Logins \ {k} :
             /\ actLeft'[j] = actLeft[j]
             /\ j \notin overtaken' =>
                  j \notin overtaken /\ ~(p = "online" /\ act[j] = u /\ actLeft[j] < rest(p))
    <3> HIDE DEF rest
    <3> QED BY <2>1, <2>2, <2>3, <2>4
  <2>6. \E w \in Users, q \in Status, l \in Nat :
          /\ Update(w, q, l)
          /\ act' \in [Logins -> Users \cup {None}] /\ actLeft' \in [Logins -> Nat]
          /\ act' = [act EXCEPT ![k] = None]
          /\ act[k] # None => act[k] = w /\ l = actLeft[k]
          /\ \A j \in Logins \ {k} :
               /\ actLeft'[j] = actLeft[j]
               /\ j \notin overtaken' =>
                    j \notin overtaken /\ ~(q = "online" /\ act[j] = w /\ actLeft[j] < l)
    <3>1. rest(p) \in Nat
      BY <2>2
    <3> HIDE DEF rest
    <3> WITNESS u \in Users, p \in Status, rest(p) \in Nat
    <3> QED BY <2>5
  <2> QED BY <2>6
<1>2. CASE ActivityLook(k)
  <2>1. PICK u \in Users, until \in 1..ActivityOnline :
          /\ ~Longer(u, until)
          /\ act' = [act EXCEPT ![k] = u]
          /\ actLeft' = [actLeft EXCEPT ![k] = until]
    BY <1>2 DEF ActivityLook
  <2> QED BY <1>2, <2>1 DEF ActivityLook
<1>3. CASE ActivityUpdate(k)
  <2>1. /\ act[k] # None /\ Update(act[k], "online", actLeft[k])
        /\ act' = [act EXCEPT ![k] = None]
        /\ actLeft' = [actLeft EXCEPT ![k] = 0]
        /\ overtaken' = (overtaken \ {k}) \cup (Overtakes(act[k], "online", actLeft[k]) \ {k})
    BY <1>3 DEF ActivityUpdate
  <2>2. \A j \in Logins \ {k} : j \notin overtaken' =>
          j \notin overtaken /\ ~("online" = "online" /\ act[j] = act[k] /\ actLeft[j] < actLeft[k])
    BY <2>1 DEF Overtakes
  <2>3. act[k] \in Users /\ actLeft[k] \in Nat /\ "online" \in Status
    BY <2>1 DEF Status
  <2> QED BY <2>1, <2>2, <2>3
<1> QED BY <1>1, <1>2, <1>3

LEMMA PrKeeps == PrInv /\ [Next]_vars => PrInv'
<1> SUFFICES ASSUME PrInv, [Next]_vars PROVE PrInv'
  OBVIOUS
<1> USE PresenceAssumption DEF PrInv
<1>1. ASSUME NEW k \in Logins, Report(k) \/ ActivityLook(k) \/ ActivityUpdate(k) PROVE PrInv'
  <2>1. UNCHANGED <<workerVars, hs>>
    BY <1>1 DEF Report, ActivityLook, ActivityUpdate
  <2>2. ListOK' /\ UNCHANGED <<duePres, hs, due>>
    BY <2>1 DEF ListOK, workerVars
  <2>3. CASE /\ UNCHANGED <<entryVars, histVars>>
             /\ act' \in [Logins -> Users \cup {None}] /\ actLeft' \in [Logins -> Nat]
    BY <2>2, <2>3 DEF entryVars, histVars, EntriesOK, SeenOK
  <2>4. ASSUME NEW u \in Users, NEW p \in Status, NEW l \in Nat, Update(u, p, l),
               act' \in [Logins -> Users \cup {None}], actLeft' \in [Logins -> Nat]
        PROVE  PrInv'
    <3>1. /\ tracked' \subseteq tracked \cup {u}
          /\ desired' \in [Users -> Status] /\ left' \in [Users -> Nat]
          /\ sent' \in [Users -> Status \cup {"none"}]
          /\ \A v \in Users \ {u} : desired'[v] = desired[v] /\ sent'[v] = sent[v]
          /\ u \in tracked => desired'[u] = p /\ sent'[u] = sent[u]
          /\ u \notin tracked /\ u \in tracked' => /\ desired'[u] = p
                                                   /\ p = "offline" => sent'[u] = "offline"
      BY <2>4, UpdateIs
    <3>2. EntriesOK'
      BY <2>2, <2>4, <3>1 DEF EntriesOK
    <3>3. /\ DOMAIN seenOnline' = Users
          /\ \A v \in Users \ {u} : seenOnline'[v] = seenOnline[v]
          /\ seenOnline[u] = TRUE => seenOnline'[u] = TRUE
          /\ p = "online" => seenOnline'[u] = TRUE
      <4>1. seenOnline' = [seenOnline EXCEPT ![u] = @ \/ p = "online"]
        BY <2>4, Zenon DEF Update
      <4>2. DOMAIN seenOnline = Users
        BY DEF SeenOK
      <4> QED BY <4>1, <4>2, Zenon
    <3>4. SeenOK'
      <4>1. ASSUME NEW v \in tracked', desired'[v] = "online" \/ sent'[v] # "offline"
            PROVE  seenOnline'[v] = TRUE
        <5>1. CASE v # u
          BY <3>1, <3>3, <4>1, <5>1 DEF SeenOK, EntriesOK
        <5>2. CASE v = u /\ u \in tracked
          BY <3>1, <3>3, <4>1, <5>2 DEF SeenOK, Status
        <5>3. CASE v = u /\ u \notin tracked
          BY <3>1, <3>3, <4>1, <5>3 DEF Status
        <5> QED BY <5>1, <5>2, <5>3
      <4>2. ASSUME NEW v \in due' PROVE seenOnline'[v] = TRUE
        BY <2>2, <3>3, <4>2 DEF SeenOK, ListOK
      <4> QED BY <3>3, <4>1, <4>2 DEF SeenOK
    <3> QED BY <2>2, <3>2, <3>4
  <2> QED BY <1>1, <2>3, <2>4, LoginIs
<1>2. CASE TickCollect
  <2>1. /\ UNCHANGED <<left, sent, hs, act, actLeft, seenOnline>>
        /\ desired' = [u \in Users |-> IF u \in tracked THEN Want(u) ELSE desired[u]]
        /\ tracked' \subseteq tracked
        /\ due' = {u \in tracked : Due(u)}
        /\ duePres' = [u \in Users |-> IF u \in due' THEN Want(u) ELSE "offline"]
        /\ worker' = IF due' = {} THEN "idle" ELSE "sending"
    BY <1>2 DEF TickCollect, actVars, histVars
  <2>2. \A u \in Users : Want(u) \in Status /\ (Want(u) = "online" => desired[u] = "online")
    BY DEF Want, Status, EntriesOK
  <2>3. EntriesOK' /\ ListOK'
    BY <2>1, <2>2 DEF EntriesOK, ListOK, Status
  <2>4. \A u \in tracked' : desired'[u] = "online" => desired[u] = "online"
    BY <2>1, <2>2 DEF EntriesOK
  <2>5. ASSUME NEW u \in due' PROVE desired[u] = "online" \/ sent[u] # "offline"
    BY <2>1, <2>2, <2>5 DEF EntriesOK, Due, Status
  <2>6. SeenOK'
    BY <2>1, <2>4, <2>5 DEF SeenOK
  <2> QED BY <2>3, <2>6
<1>3. CASE TickSend
  <2>1. /\ UNCHANGED <<tracked, desired, left, sent, duePres, act, actLeft, hs, seenOnline>>
        /\ due' \subseteq due
        /\ worker' = "idle" => due' = {}
        /\ worker' = "waiting" => cur' \in due'
    BY <1>3 DEF TickSend, entryVars, actVars, histVars, First
  <2> QED BY <2>1 DEF EntriesOK, ListOK, SeenOK
<1>4. ASSUME NEW ok \in BOOLEAN, TickDone(ok) PROVE PrInv'
  <2>1. /\ UNCHANGED <<tracked, desired, left, duePres, act, actLeft>>
        /\ hs' = [hs EXCEPT ![cur] = IF ok THEN duePres[cur] ELSE @]
        /\ sent' = [sent EXCEPT ![cur] = IF ok /\ cur \in tracked THEN duePres[cur] ELSE @]
        /\ due' = due \ {cur}
        /\ worker' = IF due' = {} THEN "idle" ELSE "sending"
        /\ cur \in due /\ cur \in Users
    BY <1>4 DEF TickDone, actVars, ListOK
  <2>2. EntriesOK' /\ ListOK'
    BY <2>1 DEF EntriesOK, ListOK
  <2>3. seenOnline' = [seenOnline EXCEPT ![cur] =
                        IF ok /\ duePres[cur] = "offline"
                        THEN cur \in tracked /\ desired[cur] = "online" ELSE @]
    BY <1>4, Zenon DEF TickDone
  <2>4. /\ DOMAIN seenOnline' = Users
        /\ \A v \in Users \ {cur} : seenOnline'[v] = seenOnline[v]
        /\ seenOnline'[cur] = IF ok /\ duePres[cur] = "offline"
                              THEN cur \in tracked /\ desired[cur] = "online" ELSE seenOnline[cur]
    BY <2>1, <2>3, Zenon DEF SeenOK
  <2>5. ASSUME NEW v \in tracked, desired[v] = "online" \/ sent'[v] # "offline"
        PROVE  seenOnline'[v] = TRUE
    <3>1. CASE v # cur
      BY <2>1, <2>4, <2>5, <3>1 DEF SeenOK, EntriesOK
    <3>2. CASE v = cur /\ ok /\ duePres[cur] = "offline"
      <4>1. desired[cur] = "online"
        BY <2>1, <2>5, <3>2 DEF EntriesOK
      <4> QED BY <2>4, <2>5, <3>2, <4>1, Zenon
    <3>3. CASE v = cur /\ ~(ok /\ duePres[cur] = "offline")
      <4>1. seenOnline[cur] = TRUE
        BY <2>1 DEF SeenOK
      <4> QED BY <2>4, <3>3, <4>1, Zenon
    <3> QED BY <3>1, <3>2, <3>3
  <2>6. SeenOK'
    BY <2>1, <2>4, <2>5 DEF SeenOK, ListOK
  <2> QED BY <2>2, <2>6
<1>5. CASE Advance
  <2>1. /\ UNCHANGED <<tracked, desired, sent, worker, due, duePres, cur, act, hs, seenOnline>>
        /\ left' = Less(left) /\ actLeft' = Less(actLeft)
    BY <1>5 DEF Advance, workerVars, histVars
  <2>2. left' \in [Users -> Nat] /\ actLeft' \in [Logins -> Nat]
    BY <2>1 DEF Less, EntriesOK
  <2> QED BY <2>1, <2>2 DEF EntriesOK, ListOK, SeenOK
<1>6. CASE UNCHANGED vars
  <2>1. UNCHANGED <<tracked, desired, left, sent, worker, due, duePres, cur, act, actLeft, hs,
                    seenOnline>>
    BY <1>6 DEF vars, entryVars, workerVars, actVars, histVars
  <2> QED BY <2>1 DEF EntriesOK, ListOK, SeenOK
<1> QED BY <1>1, <1>2, <1>3, <1>4, <1>5, <1>6 DEF Next

\* "offline is only sent when a user was seen going offline": no request for offline is under
\* way for a user whom nobody reported online since the last one, with any number of
\* logins and whatever is evicted, expires, is deferred or fails.
THEOREM OfflineOnlyForThoseSeen == Spec => OfflineMeansLeft
<1>1. Spec => []PrInv
  BY PrStarts, PrKeeps, PTL DEF Spec
<1>2. PrInv => \A u \in Users : worker = "waiting" /\ cur = u => seenOnline[u]
  BY DEF PrInv, ListOK, SeenOK
<1>3. PrInv => [\A u \in Users : worker = "waiting" /\ cur = u /\ duePres[u] = "offline"
                                   /\ hs'[u] = "offline" => seenOnline[u]]_vars
  BY <1>2
<1> QED BY <1>1, <1>3, PTL DEF OfflineMeansLeft

-----------------------------------------------------------------------------
(* What is forgotten. *)

\* Except for those evicted in the middle of a request: a request is only under way for
\* an entry, and who was told to be online has an entry with that as sent.
ToldOK ==
    /\ due \ evictedDue \subseteq tracked
    /\ \A u \in Users \ evictedDue : hs[u] = "online" => u \in tracked /\ sent[u] = "online"

LEMMA ToldImplies == ToldOK => ForgottenNotOnline
  BY DEF ToldOK, ForgottenNotOnline

LEMMA ToldStarts == Init => ToldOK
  BY DEF Init, ToldOK

LEMMA ToldKeeps ==
    ASSUME PrInv, ToldOK, [Next]_vars
    PROVE  ToldOK'
<1> USE PresenceAssumption DEF PrInv
<1>1. ASSUME NEW k \in Logins, Report(k) \/ ActivityLook(k) \/ ActivityUpdate(k) PROVE ToldOK'
  <2>1. UNCHANGED <<due, hs>>
    BY <1>1 DEF Report, ActivityLook, ActivityUpdate, workerVars
  <2>2. CASE UNCHANGED <<entryVars, histVars>>
    BY <2>1, <2>2 DEF entryVars, histVars, ToldOK
  <2>3. ASSUME NEW u \in Users, NEW p \in Status, NEW l \in Nat, Update(u, p, l) PROVE ToldOK'
    <3>1. /\ \A v \in Users \ {u} : sent'[v] = sent[v]
          /\ u \in tracked => tracked' = tracked /\ sent'[u] = sent[u]
          /\ evictedDue \subseteq evictedDue'
          /\ \A v \in tracked \ tracked' : sent[v] # "online" /\ (v \in due => v \in evictedDue')
      BY <2>3, UpdateIs
    <3>2. due' \ evictedDue' \subseteq tracked'
      BY <2>1, <3>1 DEF ToldOK
    <3>3. ASSUME NEW v \in Users \ evictedDue', hs'[v] = "online"
          PROVE  v \in tracked' /\ sent'[v] = "online"
      <4>1. v \in tracked /\ sent[v] = "online"
        BY <2>1, <3>1, <3>3 DEF ToldOK
      <4> QED BY <3>1, <4>1
    <3> QED BY <3>2, <3>3 DEF ToldOK
  <2> QED BY <1>1, <2>2, <2>3, LoginIs
<1>2. CASE TickCollect
  <2>1. /\ UNCHANGED <<sent, hs, evictedDue>>
        /\ tracked' = {u \in tracked : ~Stale(u)}
        /\ due' = {u \in tracked : Due(u)}
    BY <1>2 DEF TickCollect, histVars
  <2>2. \A u \in Users : Stale(u) => ~Due(u) /\ sent[u] # "online"
    BY DEF Stale
  <2> QED BY <2>1, <2>2 DEF ToldOK, EntriesOK
<1>3. CASE TickSend \/ Advance
  BY <1>3 DEF TickSend, Advance, entryVars, workerVars, histVars, ToldOK
<1>4. ASSUME NEW ok \in BOOLEAN, TickDone(ok) PROVE ToldOK'
  <2>1. /\ UNCHANGED tracked
        /\ hs' = [hs EXCEPT ![cur] = IF ok THEN duePres[cur] ELSE @]
        /\ sent' = [sent EXCEPT ![cur] = IF ok /\ cur \in tracked THEN duePres[cur] ELSE @]
        /\ evictedDue' = IF ok /\ cur \in tracked THEN evictedDue \ {cur} ELSE evictedDue
        /\ due' = due \ {cur}
        /\ cur \in due /\ cur \in Users
    BY <1>4 DEF TickDone, ListOK
  <2>2. CASE ok /\ cur \in tracked
    BY <2>1, <2>2 DEF ToldOK, EntriesOK
  <2>3. CASE ok /\ cur \notin tracked
    BY <2>1, <2>3 DEF ToldOK, EntriesOK
  <2>4. CASE ~ok
    BY <2>1, <2>4 DEF ToldOK, EntriesOK
  <2> QED BY <2>2, <2>3, <2>4
<1>5. CASE UNCHANGED vars
  BY <1>5 DEF vars, entryVars, workerVars, histVars, ToldOK
<1> QED BY <1>1, <1>2, <1>3, <1>4, <1>5 DEF Next

\* A ghost that the Manager no longer keeps was not left online, with any number of
\* users for any MaxTracked: evicting an entry in the middle of its request is the
\* one way in which that happens (evictOne, Tick).
THEOREM ForgottenWereOffline == Spec => []ForgottenNotOnline
<1>1. Init => PrInv /\ ToldOK
  BY PrStarts, ToldStarts
<1>2. PrInv /\ ToldOK /\ [Next]_vars => (PrInv /\ ToldOK)'
  BY PrKeeps, ToldKeeps
<1>3. Spec => []ToldOK
  BY <1>1, <1>2, PTL DEF Spec
<1> QED BY <1>3, ToldImplies, PTL

-----------------------------------------------------------------------------
(* Activity's look. *)

\* Between the look and the Update of an activity nothing but another login's report
\* gives the user a longer online.
LookHolds ==
    \A l \in Logins \ overtaken, u \in Users :
        act[l] = u /\ u \in tracked /\ desired[u] = "online" => left[u] <= actLeft[l]

LEMMA LookStarts == Init => LookHolds
  BY DEF Init, LookHolds

LEMMA LookKeeps ==
    ASSUME PrInv, LookHolds, [Next]_vars
    PROVE  LookHolds'
<1> USE PresenceAssumption DEF PrInv
<1>1. ASSUME NEW k \in Logins, Report(k) \/ ActivityLook(k) \/ ActivityUpdate(k) PROVE LookHolds'
  <2>1. CASE /\ UNCHANGED <<entryVars, histVars>>
             /\ act'[k] \in Users /\ ~Longer(act'[k], actLeft'[k]) /\ actLeft' \in [Logins -> Nat]
             /\ \A l \in Logins : l # k => act'[l] = act[l] /\ actLeft'[l] = actLeft[l]
    BY <2>1 DEF LookHolds, Longer, entryVars, histVars, EntriesOK
  <2>2. ASSUME NEW u \in Users, NEW p \in Status, NEW t \in Nat, Update(u, p, t),
               act' = [act EXCEPT ![k] = None],
               \A j \in Logins \ {k} :
                   /\ actLeft'[j] = actLeft[j]
                   /\ j \notin overtaken' =>
                        j \notin overtaken /\ ~(p = "online" /\ act[j] = u /\ actLeft[j] < t)
        PROVE  LookHolds'
    <3> SUFFICES ASSUME NEW j \in Logins, j \notin overtaken', NEW v \in Users,
                        act'[j] = v, v \in tracked', desired'[v] = "online"
                 PROVE  left'[v] <= actLeft'[j]
      BY DEF LookHolds
    <3>1. /\ j # k /\ act[j] = v /\ j \notin overtaken /\ actLeft'[j] = actLeft[j]
          /\ ~(p = "online" /\ v = u /\ actLeft[j] < t)
      BY <2>2 DEF EntriesOK
    <3>2. /\ tracked' \subseteq tracked \cup {u}
          /\ \A w \in Users \ {u} : desired'[w] = desired[w] /\ left'[w] = left[w]
          /\ u \in tracked' => desired'[u] = p /\ left'[u] = t
      BY <2>2, UpdateIs
    <3>3. CASE v # u
      BY <3>1, <3>2, <3>3 DEF LookHolds
    <3>4. CASE v = u
      BY <3>1, <3>2, <3>4 DEF EntriesOK
    <3> QED BY <3>3, <3>4
  <2> QED BY <1>1, <2>1, <2>2, LoginIs
<1>2. CASE TickCollect
  <2>1. /\ UNCHANGED <<left, act, actLeft, overtaken>>
        /\ desired' = [u \in Users |-> IF u \in tracked THEN Want(u) ELSE desired[u]]
        /\ tracked' \subseteq tracked
    BY <1>2 DEF TickCollect, actVars, histVars
  <2>2. \A u \in Users : Want(u) = "online" => desired[u] = "online"
    BY DEF Want
  <2> QED BY <2>1, <2>2 DEF LookHolds
<1>3. CASE TickSend \/ TickDone(TRUE) \/ TickDone(FALSE)
  BY <1>3 DEF TickSend, TickDone, entryVars, actVars, histVars, LookHolds
<1>4. CASE Advance
  <2>1. /\ UNCHANGED <<tracked, desired, act, overtaken>>
        /\ left' = Less(left) /\ actLeft' = Less(actLeft)
    BY <1>4 DEF Advance, histVars
  <2>2. /\ \A u \in Users : left'[u] = IF left[u] > 0 THEN left[u] - 1 ELSE 0
        /\ \A l \in Logins : actLeft'[l] = IF actLeft[l] > 0 THEN actLeft[l] - 1 ELSE 0
    BY <2>1 DEF Less, EntriesOK
  <2>3. ASSUME NEW l \in Logins, NEW u \in Users, left[u] <= actLeft[l]
        PROVE  left'[u] <= actLeft'[l]
    BY <2>2, <2>3 DEF EntriesOK
  <2> QED BY <2>1, <2>3 DEF LookHolds
<1>5. CASE UNCHANGED vars
  BY <1>5 DEF vars, entryVars, actVars, histVars, LookHolds
<1> QED BY <1>1, <1>2, <1>3, <1>4, <1>5 DEF Next

LEMMA UpdateLengthens ==
    ASSUME PrInv, LookHolds, [Next]_vars,
           NEW l \in Logins, NEW u \in Users,
           act[l] = u, act'[l] = None, u \in tracked, desired[u] = "online", left'[u] < left[u]
    PROVE  l \in overtaken
<1> USE PresenceAssumption DEF PrInv
<1>1. ASSUME NEW k \in Logins, Report(k) \/ ActivityLook(k) \/ ActivityUpdate(k)
      PROVE  l \in overtaken
  <2>1. k = l /\ act[l] # None
    BY <1>1 DEF Report, ActivityLook, ActivityUpdate, actVars, EntriesOK
  <2>2. PICK v \in Users, p \in Status, t \in Nat : Update(v, p, t) /\ v = u /\ t = actLeft[l]
    BY <1>1, <2>1, LoginIs
  <2>3. left'[u] = actLeft[l]
    BY <2>2, UpdateIs
  <2> QED BY <2>3 DEF LookHolds, EntriesOK
<1>2. CASE TickCollect \/ TickSend \/ TickDone(TRUE) \/ TickDone(FALSE) \/ Advance
  BY <1>2 DEF TickCollect, TickSend, TickDone, Advance, actVars
<1>3. CASE UNCHANGED vars
  BY <1>3 DEF vars, actVars
<1> QED BY <1>1, <1>2, <1>3 DEF Next

\* "Don't cut short a longer online the network itself reported": for any number of logins,
\* an activity that does was overtaken by another login's report after its look
\* (Activity looks and updates under two locks).
THEOREM OnlineNeverCutShort == Spec => NeverCutShort
<1>1. Init => PrInv /\ LookHolds
  BY PrStarts, LookStarts
<1>2. PrInv /\ LookHolds /\ [Next]_vars => (PrInv /\ LookHolds)'
  BY PrKeeps, LookKeeps
<1>3. PrInv /\ LookHolds /\ [Next]_vars
        => [\A l \in Logins, u \in Users :
              act[l] = u /\ act'[l] = None /\ u \in tracked /\ desired[u] = "online"
                         /\ left'[u] < left[u] => l \in overtaken]_vars
  BY UpdateLengthens
<1> QED BY <1>1, <1>2, <1>3, PTL DEF Spec, NeverCutShort

-----------------------------------------------------------------------------
LEMMA AppendFacts ==
    ASSUME NEW S, NEW q \in Seq(S), NEW e \in S
    PROVE  /\ Append(q, e) \in Seq(S) /\ Len(Append(q, e)) = Len(q) + 1
           /\ \A i \in 1..Len(q) : Append(q, e)[i] = q[i]
           /\ Append(q, e)[Len(q) + 1] = e
           /\ Len(q) \in Nat
  OBVIOUS

LEMMA TailFacts ==
    ASSUME NEW S, NEW q \in Seq(S), q # <<>>
    PROVE  /\ Tail(q) \in Seq(S) /\ Len(Tail(q)) = Len(q) - 1
           /\ \A i \in 1..(Len(q) - 1) : Tail(q)[i] = q[i + 1]
           /\ Head(q) = q[1] /\ Head(q) \in S
           /\ Len(q) \in Nat \ {0}
  OBVIOUS

(* The times the homeserver is told, for any users, callers of Note, times and queue length. *)

Times == [user : SeenUsers, at : Nat]

\* t was told or is still to be told of u.
PastIn(u, t, told, q) == t = told[u] \/ \E i \in 1..Len(q) : q[i] = [user |-> u, at |-> t]

Past(u, t) == PastIn(u, t, seenTold, seenQueue)
PastN(u, t) == PastIn(u, t, seenTold', seenQueue')

Busy(c) == noteStep[c] # "idle"

\* What SentInOrder asks of e when t is sent of the same user before it.
FineIn(t, e, dropped, passed) == t < e.at \/ (t = e.at /\ e \in dropped) \/ e \in passed

Fine(t, e) == FineIn(t, e, seenDropped, seenPassed)
FineN(t, e) == FineIn(t, e, seenDropped', seenPassed')

SeenTypes ==
    /\ {lastActive, seenLast, seenTold} \subseteq [SeenUsers -> Nat]
    /\ seenQueue \in Seq(Times)
    /\ noteStep \in [Noters -> {"idle", "enqueue", "forget"}]
    /\ DOMAIN noting = Noters
    /\ \A c \in Noters : Busy(c) => noting[c] \in Times

QueueInOrder ==
    /\ \A i, j \in 1..Len(seenQueue) :
         i < j /\ seenQueue[i].user = seenQueue[j].user => Fine(seenQueue[i].at, seenQueue[j])
    /\ \A i \in 1..Len(seenQueue) : Fine(seenTold[seenQueue[i].user], seenQueue[i])

\* The times being noted go well with the past ones and, in either order, with each other.
NotingOK ==
    /\ \A c \in Noters : Busy(c) => \A t \in Nat : Past(noting[c].user, t) => Fine(t, noting[c])
    /\ \A c, d \in Noters : c # d /\ Busy(c) /\ Busy(d) /\ noting[c].user = noting[d].user
                              => Fine(noting[c].at, noting[d])

\* t is remembered, or would be no news any more, or was dropped.
KeptIn(u, t, active, last, dropped) ==
    /\ t <= active[u]
    /\ t <= last[u] \/ t < active[u] \/ [user |-> u, at |-> t] \in dropped

Kept(u, t) == KeptIn(u, t, lastActive, seenLast, seenDropped)
KeptN(u, t) == KeptIn(u, t, lastActive', seenLast', seenDropped')

MemoryOK ==
    /\ \A u \in SeenUsers : seenLast[u] <= lastActive[u]
    /\ \A u \in SeenUsers : \A t \in Nat : Past(u, t) => Kept(u, t)
    /\ \A c \in Noters : Busy(c) => Kept(noting[c].user, noting[c].at)
    /\ \A u \in SeenUsers : \A t \in Nat : [user |-> u, at |-> t] \in seenPassed => t < lastActive[u]

SeInv == SeenTypes /\ QueueInOrder /\ NotingOK /\ MemoryOK

LEMMA SeStarts == SeenInit => SeInv
  BY DEF SeenInit, SeInv, SeenTypes, QueueInOrder, MemoryOK, NotingOK, Past, PastIn, Busy, Kept, KeptIn, Fine, FineIn

LEMMA TimeIs ==
    ASSUME NEW e \in Times
    PROVE  e.user \in SeenUsers /\ e.at \in Nat /\ e = [user |-> e.user, at |-> e.at]
  BY DEF Times

LEMMA SeKeeps ==
    ASSUME SeInv, [SeenNext]_seenVars
    PROVE  SeInv'
<1> USE SeenAssumption DEF SeInv, Fine, FineN, Kept, KeptN, Past, PastN
<1>1. ASSUME NEW u \in SeenUsers, BecomesActive(u) PROVE SeInv'
  <2>1. /\ UNCHANGED <<seenLast, seenQueue, noting, noteStep, seenTold, seenPassed, seenDropped>>
        /\ lastActive' \in [SeenUsers -> Nat]
        /\ \A v \in SeenUsers : lastActive'[v] >= lastActive[v] /\ lastActive'[v] \in Nat
    BY <1>1 DEF BecomesActive, SeenTypes, seenHist
  <2>2. /\ \A v, t : PastN(v, t) <=> Past(v, t)
        /\ \A t, e : FineN(t, e) <=> Fine(t, e)
        /\ \A c : Busy(c)' <=> Busy(c)
    BY <2>1 DEF PastIn, FineIn, Busy
  <2>3. SeenTypes' /\ QueueInOrder' /\ NotingOK'
    BY <2>1, <2>2 DEF SeenTypes, QueueInOrder, NotingOK
  <2>4. \A v \in SeenUsers : \A t \in Nat : Kept(v, t) => KeptN(v, t)
    BY <2>1 DEF KeptIn, SeenTypes
  <2>5. \A c \in Noters : Busy(c) => noting[c].user \in SeenUsers /\ noting[c].at \in Nat
    BY TimeIs DEF SeenTypes
  <2>6. MemoryOK'
    <3>1. \A v \in SeenUsers : seenLast'[v] <= lastActive'[v]
      BY <2>1 DEF MemoryOK, SeenTypes
    <3>2. \A v \in SeenUsers : \A t \in Nat : [user |-> v, at |-> t] \in seenPassed' => t < lastActive'[v]
      BY <2>1 DEF MemoryOK, SeenTypes
    <3> QED BY <2>1, <2>2, <2>4, <2>5, <3>1, <3>2 DEF MemoryOK
  <2> QED BY <2>3, <2>6
<1>2. ASSUME NEW c \in Noters, NEW u \in SeenUsers, Note(c, u) PROVE SeInv'
  <2> DEFINE at == lastActive[u]
             e == [user |-> u, at |-> at]
  <2>1. /\ UNCHANGED <<lastActive, seenQueue, seenTold, seenDropped>>
        /\ at > seenLast[u] /\ at \in Nat /\ noteStep[c] = "idle"
        /\ seenLast' = [seenLast EXCEPT ![u] = at]
        /\ noting' = [noting EXCEPT ![c] = e]
        /\ noteStep' = [noteStep EXCEPT ![c] = "enqueue"]
        /\ seenPassed' = seenPassed \cup {noting[d] : d \in {d \in Noters : Behind(d, u, at)}}
    BY <1>2 DEF Note, IsNews, SeenTypes
  <2>2. /\ \A v, t : PastN(v, t) <=> Past(v, t)
        /\ seenPassed \subseteq seenPassed'
        /\ \A t, x : Fine(t, x) => FineN(t, x)
        /\ \A d \in Noters : Busy(d)' <=> d = c \/ Busy(d)
        /\ \A d \in Noters \ {c} : noting'[d] = noting[d]
        /\ noting'[c] = e /\ e \in Times /\ e.user = u /\ e.at = at /\ ~Busy(c)
    BY <2>1 DEF PastIn, FineIn, Busy, SeenTypes, Times
  <2>3. \A d \in Noters : Busy(d) => /\ noting[d].user \in SeenUsers /\ noting[d].at \in Nat
                                     /\ noting[d] = [user |-> noting[d].user, at |-> noting[d].at]
    BY TimeIs DEF SeenTypes
  <2>4. ASSUME NEW t \in Nat, Kept(u, t) PROVE FineN(t, e)
    <3>1. seenLast[u] \in Nat /\ t <= at /\ (t <= seenLast[u] \/ t < at \/ [user |-> u, at |-> t] \in seenDropped)
      BY <2>4 DEF KeptIn, SeenTypes
    <3>2. t < at \/ (t = at /\ e \in seenDropped)
      BY <2>1, <3>1
    <3>3. e.at = at
      OBVIOUS
    <3> QED BY <2>1, <3>2, <3>3 DEF FineIn
  <2>5. ASSUME NEW d \in Noters, Busy(d), noting[d].user = u PROVE FineN(at, noting[d])
    <3>1. Kept(u, noting[d].at) /\ noting[d].at \in Nat
      BY <2>3, <2>5 DEF MemoryOK
    <3>2. CASE noting[d].at < at
      BY <2>1, <2>5, <3>2 DEF FineIn, Behind, Busy
    <3>3. CASE noting[d].at = at
      BY <2>1, <2>3, <2>5, <3>1, <3>3 DEF KeptIn, FineIn, SeenTypes
    <3> QED BY <2>1, <3>1, <3>2, <3>3 DEF KeptIn
  <2>6. \A v \in SeenUsers : \A t \in Nat : Kept(v, t) => KeptN(v, t)
    BY <2>1 DEF KeptIn, SeenTypes
  <2>7. KeptN(u, at)
    BY <2>1 DEF KeptIn, SeenTypes
  <2>8. ASSUME NEW v \in SeenUsers, NEW t \in Nat, [user |-> v, at |-> t] \in seenPassed'
        PROVE  t < lastActive'[v]
    <3>1. CASE [user |-> v, at |-> t] \in seenPassed
      BY <2>1, <3>1 DEF MemoryOK
    <3>2. ASSUME NEW d \in Noters, Behind(d, u, at), noting[d] = [user |-> v, at |-> t]
          PROVE  t < lastActive'[v]
      BY <2>1, <3>2 DEF Behind
    <3> QED BY <2>1, <2>8, <3>1, <3>2
  <2> HIDE DEF e, at
  <2>9. SeenTypes'
    <3>1. seenLast' \in [SeenUsers -> Nat] /\ noteStep' \in [Noters -> {"idle", "enqueue", "forget"}]
          /\ DOMAIN noting' = Noters
      BY <2>1 DEF SeenTypes
    <3> QED BY <2>1, <2>2, <3>1 DEF SeenTypes
  <2>10. QueueInOrder'
    BY <2>1, <2>2 DEF QueueInOrder
  <2>11. NotingOK'
    <3>1. ASSUME NEW d \in Noters, Busy(d)', NEW t \in Nat, PastN(noting'[d].user, t)
          PROVE  FineN(t, noting'[d])
      <4>1. CASE d = c
        BY <2>2, <2>4, <3>1, <4>1 DEF MemoryOK
      <4>2. CASE d # c
        BY <2>2, <3>1, <4>2 DEF NotingOK
      <4> QED BY <4>1, <4>2
    <3>2. ASSUME NEW b \in Noters, NEW d \in Noters, b # d, Busy(b)', Busy(d)',
                 noting'[b].user = noting'[d].user
          PROVE  FineN(noting'[b].at, noting'[d])
      <4>1. CASE b = c
        BY <2>2, <2>5, <3>2, <4>1
      <4>2. CASE d = c
        BY <2>2, <2>3, <2>4, <3>2, <4>2 DEF MemoryOK
      <4>3. CASE b # c /\ d # c
        BY <2>2, <3>2, <4>3 DEF NotingOK
      <4> QED BY <4>1, <4>2, <4>3
    <3> QED BY <3>1, <3>2 DEF NotingOK
  <2>12. MemoryOK'
    <3>1. \A v \in SeenUsers : seenLast'[v] <= lastActive'[v]
      BY <2>1 DEF MemoryOK, SeenTypes, at
    <3>2. \A d \in Noters : Busy(d)' => KeptN(noting[d].user, noting[d].at) \/ d = c
      BY <2>2, <2>3, <2>6 DEF MemoryOK
    <3>3. \A d \in Noters : Busy(d)' => KeptN(noting'[d].user, noting'[d].at)
      BY <2>2, <2>7, <3>2, <2>1 DEF KeptIn
    <3> QED BY <2>2, <2>6, <2>8, <3>1, <3>3 DEF MemoryOK
  <2> QED BY <2>9, <2>10, <2>11, <2>12
<1>3. ASSUME NEW c \in Noters, EnqueueSeen(c) PROVE SeInv'
  <2>1. UNCHANGED <<lastActive, seenLast, seenTold, seenPassed, seenDropped>> /\ noteStep[c] = "enqueue"
    BY <1>3 DEF EnqueueSeen, seenHist
  <2>2. /\ \A t, x : FineN(t, x) <=> Fine(t, x)
        /\ \A v, t : KeptN(v, t) <=> Kept(v, t)
        /\ Busy(c)
    BY <2>1 DEF FineIn, KeptIn, Busy
  <2>3. CASE UNCHANGED <<seenQueue, noting>> /\ noteStep' = [noteStep EXCEPT ![c] = "forget"]
    <3>1. /\ \A v, t : PastN(v, t) <=> Past(v, t)
          /\ \A d \in Noters : Busy(d)' <=> Busy(d)
      BY <2>1, <2>3 DEF PastIn, Busy, SeenTypes
    <3>2. noteStep' \in [Noters -> {"idle", "enqueue", "forget"}]
      BY <2>3 DEF SeenTypes
    <3>3. SeenTypes' /\ QueueInOrder'
      BY <2>1, <2>2, <2>3, <3>1, <3>2 DEF SeenTypes, QueueInOrder
    <3>4. MemoryOK' /\ NotingOK'
      BY <2>1, <2>2, <2>3, <3>1 DEF MemoryOK, NotingOK
    <3> QED BY <3>3, <3>4
  <2>4. CASE /\ seenQueue' = Append(seenQueue, noting[c])
             /\ noteStep' = [noteStep EXCEPT ![c] = "idle"]
             /\ noting' = [noting EXCEPT ![c] = <<>>]
    <3> DEFINE e == noting[c]
               n == Len(seenQueue)
    <3>1. e \in Times /\ e.user \in SeenUsers /\ e.at \in Nat
      BY <2>2, TimeIs DEF SeenTypes
    <3>2. /\ seenQueue' \in Seq(Times) /\ Len(seenQueue') = n + 1 /\ n \in Nat
          /\ \A i \in 1..n : seenQueue'[i] = seenQueue[i]
          /\ seenQueue'[n + 1] = e
      BY <2>4, <3>1, AppendFacts DEF SeenTypes
    <3>3. \A d \in Noters : Busy(d)' <=> Busy(d) /\ d # c
      BY <2>4 DEF Busy, SeenTypes
    <3>4. \A d \in Noters \ {c} : noting'[d] = noting[d]
      BY <2>4
    <3>5. \A t \in Nat : Past(e.user, t) => Fine(t, e)
      BY <2>2 DEF NotingOK
    <3>6. ASSUME NEW i \in 1..n, seenQueue[i].user = e.user PROVE Fine(seenQueue[i].at, e)
      <4>1. seenQueue[i] \in Times
        BY DEF SeenTypes
      <4>2. Past(e.user, seenQueue[i].at) /\ seenQueue[i].at \in Nat
        BY <3>6, <4>1, TimeIs DEF PastIn
      <4> QED BY <3>5, <4>2
    <3>7. Fine(seenTold[e.user], e)
      BY <3>1, <3>5 DEF PastIn, SeenTypes
    <3> HIDE DEF e, n
    <3>8. SeenTypes'
      <4>1. noteStep' \in [Noters -> {"idle", "enqueue", "forget"}] /\ DOMAIN noting' = Noters
        BY <2>4 DEF SeenTypes
      <4> QED BY <2>1, <3>2, <3>3, <3>4, <4>1 DEF SeenTypes
    <3>9. QueueInOrder'
      <4>1. ASSUME NEW i \in 1..(n + 1), NEW j \in 1..(n + 1), i < j,
                   seenQueue'[i].user = seenQueue'[j].user
            PROVE  FineN(seenQueue'[i].at, seenQueue'[j])
        <5>1. i \in 1..n /\ seenQueue'[i] = seenQueue[i]
          BY <3>2, <4>1
        <5>2. CASE j = n + 1
          BY <2>2, <3>2, <3>6, <4>1, <5>1, <5>2
        <5>3. CASE j \in 1..n
          BY <2>2, <3>2, <4>1, <5>1, <5>3 DEF QueueInOrder, n
        <5> QED BY <3>2, <5>2, <5>3
      <4>2. ASSUME NEW i \in 1..(n + 1) PROVE FineN(seenTold'[seenQueue'[i].user], seenQueue'[i])
        <5>1. CASE i = n + 1
          BY <2>1, <2>2, <3>2, <3>7, <5>1
        <5>2. CASE i \in 1..n
          BY <2>1, <2>2, <3>2, <5>2 DEF QueueInOrder, n
        <5> QED BY <3>2, <5>1, <5>2
      <4> QED BY <3>2, <4>1, <4>2 DEF QueueInOrder
    <3>10. ASSUME NEW v \in SeenUsers, NEW t \in Nat, PastN(v, t)
           PROVE  Past(v, t) \/ (v = e.user /\ t = e.at)
      <4>1. CASE t = seenTold'[v]
        BY <2>1, <4>1 DEF PastIn
      <4>2. ASSUME NEW i \in 1..(n + 1), seenQueue'[i] = [user |-> v, at |-> t]
            PROVE  Past(v, t) \/ (v = e.user /\ t = e.at)
        <5>1. CASE i = n + 1
          BY <3>2, <4>2, <5>1
        <5>2. CASE i \in 1..n
          BY <3>2, <4>2, <5>2 DEF PastIn, n
        <5> QED BY <3>2, <5>1, <5>2
      <4> QED BY <3>2, <3>10, <4>1, <4>2 DEF PastIn
    <3>11. Kept(e.user, e.at)
      BY <2>2 DEF MemoryOK, e
    <3>12. MemoryOK'
      <4>1. \A v \in SeenUsers : \A t \in Nat : PastN(v, t) => KeptN(v, t)
        BY <2>2, <3>10, <3>11 DEF MemoryOK
      <4>2. \A d \in Noters : Busy(d)' => KeptN(noting[d].user, noting[d].at)
        BY <2>2, <3>3 DEF MemoryOK
      <4>3. \A d \in Noters : Busy(d)' => KeptN(noting'[d].user, noting'[d].at)
        BY <3>3, <3>4, <4>2
      <4> QED BY <2>1, <4>1, <4>3 DEF MemoryOK
    <3>13. NotingOK'
      <4>1. ASSUME NEW d \in Noters, Busy(d)', NEW t \in Nat, PastN(noting'[d].user, t)
            PROVE  FineN(t, noting'[d])
        <5>1. Busy(d) /\ d # c /\ noting'[d] = noting[d] /\ noting[d].user \in SeenUsers
          BY <3>3, <3>4, <4>1, TimeIs DEF SeenTypes
        <5>2. CASE Past(noting[d].user, t)
          BY <2>2, <4>1, <5>1, <5>2 DEF NotingOK
        <5>3. CASE noting[d].user = e.user /\ t = e.at
          BY <2>2, <5>1, <5>3 DEF NotingOK, e
        <5> QED BY <3>10, <4>1, <5>1, <5>2, <5>3
      <4>2. \A b, d \in Noters : b # d /\ Busy(b)' /\ Busy(d)' /\ noting'[b].user = noting'[d].user
                                   => FineN(noting'[b].at, noting'[d])
        BY <2>2, <3>3, <3>4 DEF NotingOK
      <4> QED BY <4>1, <4>2 DEF NotingOK
    <3> QED BY <3>8, <3>9, <3>12, <3>13
  <2> QED BY <1>3, <2>3, <2>4 DEF EnqueueSeen
<1>4. ASSUME NEW c \in Noters, ForgetSeen(c) PROVE SeInv'
  <2> DEFINE e == noting[c]
  <2>1. /\ UNCHANGED <<lastActive, seenQueue, seenTold, seenPassed>> /\ Busy(c)
        /\ seenLast' = [seenLast EXCEPT ![e.user] = 0]
        /\ seenDropped' = seenDropped \cup ({[user |-> e.user, at |-> seenLast[e.user]]} \ {e})
        /\ noteStep' = [noteStep EXCEPT ![c] = "idle"]
        /\ noting' = [noting EXCEPT ![c] = <<>>]
    BY <1>4 DEF ForgetSeen, Busy
  <2>2. /\ \A v, t : PastN(v, t) <=> Past(v, t)
        /\ \A t, x : Fine(t, x) => FineN(t, x)
        /\ \A d \in Noters : Busy(d)' <=> Busy(d) /\ d # c
        /\ \A d \in Noters \ {c} : noting'[d] = noting[d]
    BY <2>1 DEF PastIn, FineIn, Busy, SeenTypes
  <2>3. /\ e \in Times /\ e.user \in SeenUsers /\ e.at \in Nat
        /\ e = [user |-> e.user, at |-> e.at]
    BY <2>1, TimeIs DEF SeenTypes
  <2>4. ASSUME NEW v \in SeenUsers, NEW t \in Nat, Kept(v, t), v = e.user => Fine(t, e) PROVE KeptN(v, t)
    <3>1. CASE v # e.user
      BY <2>1, <2>3, <2>4, <3>1 DEF KeptIn, SeenTypes
    <3>2. CASE v = e.user /\ t < lastActive[v]
      BY <2>1, <2>3, <2>4, <3>2 DEF KeptIn, SeenTypes
    <3>3. CASE v = e.user /\ [user |-> v, at |-> t] \in seenDropped
      BY <2>1, <2>3, <2>4, <3>3 DEF KeptIn, SeenTypes
    <3>4. CASE v = e.user /\ t = lastActive[v] /\ t <= seenLast[v]
      <4>1. seenLast[v] = t
        BY <3>4 DEF MemoryOK, SeenTypes
      <4>2. CASE e.at # t
        <5>1. [user |-> v, at |-> t] # e
          BY <2>3, <4>2
        <5>2. [user |-> v, at |-> t] \in seenDropped'
          BY <2>1, <3>4, <4>1, <5>1
        <5> QED BY <2>1, <3>4, <5>2 DEF KeptIn, SeenTypes
      <4>3. CASE e.at = t
        <5>1. e \notin seenPassed
          BY <2>3, <3>4, <4>3 DEF MemoryOK, SeenTypes
        <5>2. e \in seenDropped
          BY <2>4, <3>4, <4>3, <5>1 DEF FineIn
        <5>3. [user |-> v, at |-> t] \in seenDropped'
          BY <2>1, <2>3, <3>4, <4>3, <5>2
        <5> QED BY <2>1, <3>4, <5>3 DEF KeptIn, SeenTypes
      <4> QED BY <4>2, <4>3
    <3>5. t = lastActive[v] \/ t < lastActive[v]
      BY <2>4 DEF KeptIn, SeenTypes
    <3> QED BY <2>4, <3>1, <3>2, <3>3, <3>4, <3>5 DEF KeptIn
  <2>5. SeenTypes'
    <3>1. seenLast' \in [SeenUsers -> Nat] /\ noteStep' \in [Noters -> {"idle", "enqueue", "forget"}]
          /\ DOMAIN noting' = Noters
      BY <2>1, <2>3 DEF SeenTypes
    <3> QED BY <2>1, <2>2, <3>1 DEF SeenTypes
  <2>6. QueueInOrder'
    BY <2>1, <2>2 DEF QueueInOrder
  <2>7. NotingOK'
    BY <2>2 DEF NotingOK
  <2>8. \A v \in SeenUsers : \A t \in Nat : PastN(v, t) => KeptN(v, t)
    <3> SUFFICES ASSUME NEW v \in SeenUsers, NEW t \in Nat, Past(v, t) PROVE KeptN(v, t)
      BY <2>2
    <3>1. Kept(v, t)
      BY DEF MemoryOK
    <3>2. v = e.user => Fine(t, e)
      BY <2>1 DEF NotingOK
    <3> QED BY <2>4, <3>1, <3>2
  <2>9. ASSUME NEW d \in Noters, Busy(d)' PROVE KeptN(noting'[d].user, noting'[d].at)
    <3>1. Busy(d) /\ d # c /\ noting'[d] = noting[d] /\ noting[d].user \in SeenUsers /\ noting[d].at \in Nat
      BY <2>2, <2>9, TimeIs DEF SeenTypes
    <3>2. Kept(noting[d].user, noting[d].at)
      BY <3>1 DEF MemoryOK
    <3>3. noting[d].user = e.user => Fine(noting[d].at, e)
      BY <2>1, <3>1 DEF NotingOK
    <3>4. KeptN(noting[d].user, noting[d].at)
      <4> DEFINE v == noting[d].user
                 t == noting[d].at
      <4>1. v \in SeenUsers /\ t \in Nat /\ Kept(v, t) /\ (v = e.user => Fine(t, e))
        BY <3>1, <3>2, <3>3
      <4>2. /\ t <= lastActive'[v]
            /\ t <= seenLast'[v] \/ t < lastActive'[v] \/ [user |-> v, at |-> t] \in seenDropped'
        <5> HIDE DEF v, t
        <5> QED BY <2>4, <4>1 DEF KeptIn
      <4> QED BY <3>1, <4>2 DEF KeptIn
    <3> QED BY <3>1, <3>4 DEF KeptIn
  <2>10. MemoryOK'
    <3>1. \A v \in SeenUsers : seenLast'[v] <= lastActive'[v]
      BY <2>1, <2>3 DEF MemoryOK, SeenTypes
    <3> QED BY <2>1, <2>8, <2>9, <3>1 DEF MemoryOK
  <2> QED BY <2>5, <2>6, <2>7, <2>10
<1>5. ASSUME NEW outcome \in {"ok", "error", "unsupported"}, SendSeen(outcome) PROVE SeInv'
  <2> DEFINE h == Head(seenQueue)
             n == Len(seenQueue)
  <2>1. /\ UNCHANGED <<lastActive, seenLast, noting, noteStep, seenPassed, seenDropped>> /\ seenQueue # <<>>
        /\ seenQueue' = Tail(seenQueue)
        /\ seenTold' = [seenTold EXCEPT ![h.user] = IF outcome = "ok" THEN h.at ELSE @]
    BY <1>5 DEF SendSeen
  <2>2. /\ seenQueue' \in Seq(Times) /\ Len(seenQueue') = n - 1 /\ n \in Nat \ {0}
        /\ \A i \in 1..(n - 1) : seenQueue'[i] = seenQueue[i + 1]
        /\ h = seenQueue[1] /\ h \in Times
    BY <2>1, TailFacts DEF SeenTypes
  <2>3. /\ \A t, x : FineN(t, x) <=> Fine(t, x)
        /\ \A v, t : KeptN(v, t) <=> Kept(v, t)
        /\ \A d : Busy(d)' <=> Busy(d)
    BY <2>1 DEF FineIn, KeptIn, Busy
  <2> HIDE DEF h, n
  <2>4. h.user \in SeenUsers /\ h.at \in Nat /\ h = [user |-> h.user, at |-> h.at]
    BY <2>2, TimeIs
  <2>5. SeenTypes'
    BY <2>1, <2>2, <2>3, <2>4 DEF SeenTypes
  <2>6. ASSUME NEW i \in 1..(n - 1)
        PROVE  /\ i + 1 \in 1..n /\ seenQueue[i + 1] \in Times
               /\ seenQueue[i + 1].user = h.user => Fine(h.at, seenQueue[i + 1])
    <3>1. i + 1 \in 1..n /\ 1 \in 1..n /\ 1 < i + 1
      BY <2>2
    <3>2. seenQueue[i + 1] \in Times
      BY <3>1 DEF SeenTypes, n
    <3>3. seenQueue[1].user = seenQueue[i + 1].user => Fine(seenQueue[1].at, seenQueue[i + 1])
      BY <3>1 DEF QueueInOrder, n
    <3> QED BY <2>2, <3>1, <3>2, <3>3
  <2>7. QueueInOrder'
    <3>1. ASSUME NEW i \in 1..(n - 1), NEW j \in 1..(n - 1), i < j,
                 seenQueue'[i].user = seenQueue'[j].user
          PROVE  FineN(seenQueue'[i].at, seenQueue'[j])
      <4>1. i + 1 \in 1..n /\ j + 1 \in 1..n /\ i + 1 < j + 1
        BY <2>2, <3>1
      <4>2. seenQueue[i + 1].user = seenQueue[j + 1].user
        BY <2>2, <3>1
      <4>3. Fine(seenQueue[i + 1].at, seenQueue[j + 1])
        BY <4>1, <4>2 DEF QueueInOrder, n
      <4> QED BY <2>2, <2>3, <4>3
    <3>2. ASSUME NEW i \in 1..(n - 1) PROVE FineN(seenTold'[seenQueue'[i].user], seenQueue'[i])
      <4>1. seenQueue'[i] = seenQueue[i + 1] /\ seenQueue[i + 1].user \in SeenUsers
        BY <2>2, <2>6, TimeIs
      <4>2. Fine(seenTold[seenQueue[i + 1].user], seenQueue[i + 1])
        BY <2>6 DEF QueueInOrder, n
      <4>3. \/ seenTold'[seenQueue[i + 1].user] = seenTold[seenQueue[i + 1].user]
            \/ seenQueue[i + 1].user = h.user /\ seenTold'[h.user] = h.at
        BY <2>1, <2>4, <4>1 DEF SeenTypes
      <4> QED BY <2>3, <2>6, <4>1, <4>2, <4>3
    <3> QED BY <2>2, <3>1, <3>2 DEF QueueInOrder
  <2>8. ASSUME NEW v \in SeenUsers, NEW t \in Nat, PastN(v, t) PROVE Past(v, t)
    <3>1. CASE t = seenTold'[v]
      <4>1. t = seenTold[v] \/ (v = h.user /\ t = h.at)
        BY <2>1, <2>4, <3>1 DEF SeenTypes
      <4>2. 1 \in 1..Len(seenQueue)
        BY <2>2 DEF n
      <4> QED BY <2>2, <2>4, <4>1, <4>2 DEF PastIn
    <3>2. ASSUME NEW i \in 1..(n - 1), seenQueue'[i] = [user |-> v, at |-> t] PROVE Past(v, t)
      BY <2>2, <2>6, <3>2 DEF PastIn, n
    <3> QED BY <2>2, <2>8, <3>1, <3>2 DEF PastIn
  <2>9. MemoryOK'
    BY <2>1, <2>3, <2>8 DEF MemoryOK
  <2>10. \A d \in Noters : Busy(d) => noting[d].user \in SeenUsers
    BY TimeIs DEF SeenTypes
  <2>11. NotingOK'
    BY <2>1, <2>3, <2>8, <2>10 DEF NotingOK
  <2> QED BY <2>5, <2>7, <2>9, <2>11
<1>6. CASE UNCHANGED seenVars
  <2>1. UNCHANGED <<lastActive, seenLast, seenQueue, noting, noteStep, seenTold, seenPassed, seenDropped>>
    BY <1>6 DEF seenVars, seenHist
  <2>2. /\ \A t, x : FineN(t, x) <=> Fine(t, x)
        /\ \A v, t : KeptN(v, t) <=> Kept(v, t)
        /\ \A d : Busy(d)' <=> Busy(d)
        /\ \A v, t : PastN(v, t) <=> Past(v, t)
    BY <2>1 DEF FineIn, KeptIn, Busy, PastIn
  <2> QED BY <2>1, <2>2 DEF SeenTypes, QueueInOrder, MemoryOK, NotingOK
<1> QED BY <1>1, <1>2, <1>3, <1>4, <1>5, <1>6 DEF SeenNext, SeenRun

\* "Each time is sent once, in order": for any number of callers of Note, whatever is repeated,
\* forgotten when the queue is full and fails, the homeserver is told a later time of a
\* user each time, but for the two cases that come of noting and queueing in two steps: a
\* time that a later one passed before it was queued, and one that another caller forgot.
THEOREM TimesSentInOrder == SeenSpec => SentInOrder
<1>1. SeInv /\ [SeenNext]_seenVars => SeInv'
  BY SeKeeps
<1>2. SeenSpec => []SeInv
  BY <1>1, SeStarts, PTL DEF SeenSpec
<1>3. SeInv => [\A u \in SeenUsers : seenQueue # <<>> /\ Head(seenQueue).user = u /\ seenQueue' = Tail(seenQueue)
            => \/ Head(seenQueue).at > seenTold[u]
               \/ Head(seenQueue).at = seenTold[u] /\ Head(seenQueue) \in seenDropped
               \/ Head(seenQueue) \in seenPassed]_seenQueue
  <2>1. SeInv /\ seenQueue # <<>> => /\ Fine(seenTold[Head(seenQueue).user], Head(seenQueue))
                                     /\ Head(seenQueue).user \in SeenUsers /\ Head(seenQueue).at \in Nat
                                     /\ seenTold[Head(seenQueue).user] \in Nat
    <3> SUFFICES ASSUME SeInv, seenQueue # <<>>
                 PROVE  /\ Fine(seenTold[Head(seenQueue).user], Head(seenQueue))
                        /\ Head(seenQueue).user \in SeenUsers /\ Head(seenQueue).at \in Nat
                        /\ seenTold[Head(seenQueue).user] \in Nat
      OBVIOUS
    <3>1. Head(seenQueue) = seenQueue[1] /\ Len(seenQueue) \in Nat \ {0} /\ Head(seenQueue) \in Times
      BY TailFacts DEF SeInv, SeenTypes
    <3>2. Head(seenQueue).user \in SeenUsers /\ Head(seenQueue).at \in Nat
      BY <3>1, TimeIs
    <3>3. \A i \in 1..Len(seenQueue) : Fine(seenTold[seenQueue[i].user], seenQueue[i])
      BY DEF SeInv, QueueInOrder
    <3>4. Fine(seenTold[Head(seenQueue).user], Head(seenQueue))
      BY <3>1, <3>3
    <3>5. seenTold[Head(seenQueue).user] \in Nat
      BY <3>2 DEF SeInv, SeenTypes
    <3> QED BY <3>2, <3>4, <3>5
  <2> QED BY <2>1 DEF Fine, FineIn
<1> QED BY <1>2, <1>3, PTL DEF SentInOrder

-----------------------------------------------------------------------------
(* The two among the other loops. *)

\* The loops of Upkeep do not disturb what the Manager and the SeenReporter tell, for any
\* number of users, logins, tracked entries and callers.
THEOREM UpkeepTellsTheTruth ==
    UpkeepSpec => OfflineMeansLeft /\ NeverCutShort /\ []ForgottenNotOnline /\ SentInOrder
<1>1. UpkeepInit => Init /\ SeenInit
  BY DEF UpkeepInit
<1>2. [UpkeepNext]_upkeepVars => [Next]_vars /\ [SeenNext]_seenVars
  BY Zenon DEF UpkeepNext, upkeepVars
<1>3. UpkeepSpec => Spec /\ SeenSpec
  BY <1>1, <1>2, PTL DEF UpkeepSpec, Spec, SeenSpec
<1> QED BY <1>3, OnlineNeverCutShort, ForgottenWereOffline, TimesSentInOrder, OfflineOnlyForThoseSeen, PTL
=============================================================================
