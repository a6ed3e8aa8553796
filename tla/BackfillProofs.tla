--------------------------- MODULE BackfillProofs ---------------------------
(***************************************************************************)
(* The backfill of a chat, for any number of messages, any timestamps, any *)
(* batch size and any number of restarts.                                  *)
(***************************************************************************)
EXTENDS Backfill, FiniteSetTheorems, TLAPS

\* What the argument needs of TypeOK.
SetsOK ==
  /\ db \subseteq Msgs /\ unsent \subseteq Msgs /\ bridged \subseteq Msgs /\ resp \subseteq Msgs
  /\ unsent \cap (db \cup bridged) = {}

\* Everything in A is older than everything in B, by a second at least.
Older(A, B) == \A a \in A, b \in B : TS[a] < TS[b]

\* Blobs come newest first.
UnsentOlder == \A a \in unsent, b \in Msgs \ unsent : TS[a] <= TS[b]

\* The room is filled from the new end: what is missing in it, and not left behind, is
\* older than it.
MissingOlder ==
  /\ Older(db \ (bridged \cup LeftBehind), bridged)
  /\ cursor # 0 => \E b \in bridged : TS[b] = cursor

\* Where a fetch is.
FetchOK ==
  /\ pc = "got" => /\ resp # {} /\ resp \subseteq db
                   /\ Older(db \ (bridged \cup resp \cup LeftBehind), resp)
  /\ pc = "sent" => resp # {} /\ resp \subseteq bridged
  /\ pc = "wipe" => db \subseteq bridged \cup LeftBehind

BfInv == SetsOK /\ UnsentOlder /\ MissingOlder /\ FetchOK /\ NoLoss

-----------------------------------------------------------------------------
(* Numbers and ranges.                                                      *)

LEMMA Least ==
  ASSUME NEW T, T \subseteq Nat, T # {}
  PROVE  \E x \in T : \A y \in T : x <= y
<1> DEFINE R == OpToRel(<, Nat)
<1>1. IsWellFoundedOn(R, Nat)
  BY NatLessThanWellFounded
<1>2. \A x, y \in Nat : y < x => <<y, x>> \in R
  BY DEF OpToRel
<1> HIDE DEF R
<1>3. PICK x \in T : \A y \in T : ~(<<y, x>> \in R)
  BY <1>1, WFMin
<1>4. ASSUME NEW y \in T PROVE x <= y
  <2>1. x \in Nat /\ y \in Nat /\ ~(y < x)
    BY <1>2, <1>3
  <2> QED BY <2>1
<1> QED BY <1>4

\* Oldest is the timestamp of one of the messages, and none is older.
LEMMA OldestIs ==
  ASSUME NEW S, S \subseteq Msgs, S # {}
  PROVE  (\E m \in S : TS[m] = Oldest(S)) /\ \A m \in S : Oldest(S) <= TS[m]
<1> DEFINE T == {TS[m] : m \in S}
<1>1. T \subseteq Nat /\ T # {}
  BY TSType
<1>2. \E t \in T : \A m \in S : t <= TS[m]
  <2>1. PICK t \in T : \A y \in T : t <= y
    BY <1>1, Least
  <2> QED BY <2>1
<1>3. Oldest(S) \in T /\ \A m \in S : Oldest(S) <= TS[m]
  BY <1>2 DEF Oldest
<1> QED BY <1>3

\* What a fetch leaves in its range is older than all of its response, or of a second
\* with more messages than a query returns.
LEMMA CutOffOlder ==
  ASSUME NEW range, range \subseteq Msgs, NEW S, S # {}, S \subseteq range, Found(range, S)
  PROVE  CutOff(S) # {} /\ CutOff(S) \subseteq S /\ Older(range \ (CutOff(S) \cup Crowded), CutOff(S))
<1> DEFINE kept == {m \in S : TS[m] > Oldest(S)}
<1>1. /\ IsFiniteSet(range) /\ IsFiniteSet(S)
      /\ Cardinality(range) \in Nat /\ Cardinality(S) \in Nat
      /\ Cardinality(range) = Cardinality(S) => range = S
  BY MsgsFinite, FS_Subset, FS_CardinalityType
<1>2. PICK least \in S : TS[least] = Oldest(S) /\ \A m \in S : Oldest(S) <= TS[m]
  BY OldestIs
<1>3. \A m \in Msgs : TS[m] \in Nat
  BY TSType
<1>4. CASE Cardinality(S) <= Count
  <2>1. range = S /\ CutOff(S) = S
    BY <1>1, <1>4, CountType DEF CutOff, Found
  <2> QED BY <2>1 DEF Older
<1>5. CASE Cardinality(S) > Count /\ kept # {}
  <2>1. CutOff(S) = kept
    BY <1>1, <1>5, CountType DEF CutOff
  <2>2. \A o \in range \ kept : TS[o] <= Oldest(S)
    BY <1>2, <1>3 DEF Found
  <2> QED BY <1>2, <1>3, <2>1, <2>2, <1>5 DEF Older
<1>6. CASE Cardinality(S) > Count /\ kept = {}
  <2>1. CutOff(S) = S
    BY <1>6 DEF CutOff
  <2>2. \A m \in S : TS[m] = TS[least]
    BY <1>2, <1>3, <1>6
  <2>3. Cardinality(S) = Count + 1
    BY <1>1, <1>6, CountType DEF Found
  <2>4. ASSUME NEW o \in range \ S, TS[o] = TS[least] PROVE o \in Crowded
    <3> DEFINE second == {n \in Msgs : TS[n] = TS[o]}
    <3>1. S \cup {o} \in SUBSET second /\ second \in SUBSET Msgs
      BY <2>2, <2>4
    <3>2. Cardinality(S \cup {o}) = Count + 2
      <4>1. Cardinality(S \cup {o}) = Cardinality(S) + 1
        BY <1>1, <2>4, FS_AddElement
      <4> QED BY <2>3, <4>1, CountType
    <3>3. Cardinality(S \cup {o}) <= Cardinality(second) /\ Cardinality(second) \in Nat
      <4> HIDE DEF second
      <4> QED BY <3>1, MsgsFinite, FS_Subset, FS_CardinalityType
    <3>4. Cardinality(second) > Count + 1
      BY <3>2, <3>3, CountType
    <3> QED BY <3>4 DEF Crowded
  <2>5. \A o \in range \ (S \cup Crowded) : TS[o] < TS[least]
    <3> SUFFICES ASSUME NEW o \in range \ (S \cup Crowded) PROVE TS[o] < TS[least]
      OBVIOUS
    <3>1. TS[o] <= TS[least]
      BY DEF Found
    <3>2. TS[o] # TS[least]
      BY <2>4
    <3> QED BY <1>3, <3>1, <3>2
  <2> QED BY <2>1, <2>2, <2>5 DEF Older
<1> QED BY <1>1, <1>4, <1>5, <1>6, CountType

\* With the room filled from the new end, what is missing in it is in the range of the
\* next fetch, or left behind.
LEMMA MissingInRange ==
  ASSUME BfInv, NEW forward \in BOOLEAN, forward => bridged = {}, NEW m \in db \ (bridged \cup LeftBehind)
  PROVE  InRange(forward, m)
<1>1. \A b \in bridged : TS[m] < TS[b]
  BY DEF BfInv, MissingOlder, Older
<1>2. bridged # {} => TS[m] < Oldest(bridged)
  BY <1>1, OldestIs DEF BfInv, SetsOK
<1> QED
  BY <1>1, <1>2 DEF InRange, BfInv, MissingOlder

\* The timestamps of the messages are bounded.
LEMMA Bounded ==
  ASSUME NEW S, S \subseteq Msgs
  PROVE  \E t \in Nat : \A m \in S : TS[m] <= t
<1>1. PICK n \in Nat : ExistsSurjection(1..n, S)
  BY MsgsFinite, FS_Subset, FS_NatSurjection
<1>2. PICK f \in [1..n -> S] : \A m \in S : \E i \in 1..n : f[i] = m
  BY <1>1 DEF ExistsSurjection, Surjection
<1> DEFINE Good(k) == \E t \in Nat : \A i \in 1..k : TS[f[i]] <= t
           Bad == {k \in 0..n : ~Good(k)}
<1>3. Bad = {}
  <2>1. SUFFICES ASSUME Bad # {} PROVE FALSE
    OBVIOUS
  <2>2. PICK k \in Bad : \A j \in Bad : k <= j
    <3>1. Bad \subseteq Nat
      OBVIOUS
    <3> HIDE DEF Bad
    <3> QED BY <2>1, <3>1, Least
  <2>3. k # 0
    <3>1. Good(0)
      OBVIOUS
    <3> QED BY <2>2, <3>1
  <2>4. k - 1 \in 0..n /\ k \in 1..n /\ ~(k <= k - 1)
    BY <2>2, <2>3
  <2>5. PICK t \in Nat : \A i \in 1..(k - 1) : TS[f[i]] <= t
    BY <2>2, <2>4
  <2>6. TS[f[k]] \in Nat
    BY <1>2, <2>4, TSType
  <2>7. PICK u \in Nat : t <= u /\ TS[f[k]] <= u
    BY <2>5, <2>6
  <2>8. ASSUME NEW i \in 1..k PROVE TS[f[i]] <= u
    <3>1. TS[f[i]] \in Nat
      BY <1>2, <2>4, TSType
    <3>2. CASE i = k
      BY <2>7, <3>2
    <3>3. CASE i # k
      BY <2>4, <2>5, <2>7, <3>1, <3>3
    <3> QED BY <3>2, <3>3
  <2>9. Good(k)
    BY <2>7, <2>8
  <2> QED BY <2>2, <2>9
<1>4. Good(n)
  <2>1. n \in 0..n
    OBVIOUS
  <2>2. n \notin Bad
    <3> HIDE DEF Bad
    <3> QED BY <1>3
  <2> HIDE DEF Good
  <2> QED BY <2>1, <2>2
<1> QED BY <1>2, <1>4

\* Newest is the timestamp of one of the messages, and none is newer.
LEMMA NewestIs ==
  ASSUME NEW S, S \subseteq Msgs, S # {}
  PROVE  Newest(S) \in Nat /\ \A m \in S : TS[m] <= Newest(S)
<1> DEFINE T == {TS[m] : m \in S}
           U == {t \in Nat : \A m \in S : TS[m] <= t}
<1>1. \A m \in S : TS[m] \in Nat
  BY TSType
<1>2. PICK t \in U : \A u \in U : t <= u
  <2>1. U # {} /\ U \subseteq Nat
    BY Bounded
  <2> HIDE DEF U
  <2> QED BY <2>1, Least
<1>3. t \in T
  <2>1. SUFFICES ASSUME t \notin T PROVE FALSE
    OBVIOUS
  <2>2. \A m \in S : TS[m] < t
    BY <1>1, <1>2, <2>1
  <2>3. t - 1 \in U
    BY <1>1, <1>2, <2>2
  <2> QED BY <1>2, <2>3
<1>4. Newest(S) \in T /\ \A m \in S : TS[m] <= Newest(S)
  BY <1>2, <1>3 DEF Newest
<1> QED BY <1>1, <1>4

-----------------------------------------------------------------------------
LEMMA BfStarts == Init => BfInv
  BY DEF Init, BfInv, SetsOK, UnsentOlder, MissingOlder, FetchOK, NoLoss, Older

LEMMA BfNextFinds == BfInv => NextFindsRest
<1> SUFFICES ASSUME BfInv, pc = "got", NEW m \in db \ (resp \cup LeftBehind), InRange(FALSE, m)
             PROVE  TS[m] < Oldest(resp)
  BY DEF NextFindsRest
<1>1. m \notin bridged
  BY OldestIs, TSType DEF BfInv, SetsOK, InRange
<1>2. \A r \in resp : TS[m] < TS[r]
  BY <1>1 DEF BfInv, FetchOK, Older
<1> QED BY <1>2, OldestIs DEF BfInv, FetchOK, SetsOK

\* A fetch that finds something.
LEMMA FetchKeeps ==
  ASSUME BfInv, NEW forward \in BOOLEAN, Fetch(forward)
  PROVE  BfInv'
<1> DEFINE range == Candidates(forward)
<1>1. PICK S \in SUBSET range : S # {} /\ Found(range, S) /\ resp' = CutOff(S)
  BY DEF Fetch
<1>2. pc = "idle" /\ pc' = "got" /\ UNCHANGED <<db, unsent, bridged, cursor, stranded>>
  BY DEF Fetch
<1>3. range \subseteq Msgs /\ S \subseteq range /\ range \subseteq db
  BY <1>1 DEF Candidates, BfInv, SetsOK
<1>4. resp' # {} /\ resp' \subseteq S /\ Older(range \ (resp' \cup Crowded), resp')
  BY <1>1, <1>3, CutOffOlder
<1>5. Older(db \ (bridged \cup resp' \cup LeftBehind), resp')
  <2>1. CASE forward => bridged = {}
    <3>1. db \ (bridged \cup LeftBehind) \subseteq range
      BY <2>1, MissingInRange DEF Candidates
    <3> QED BY <1>4, <3>1 DEF Older, LeftBehind
  <2>2. CASE forward /\ bridged # {}
    <3>1. PICK b \in bridged : TRUE
      BY <2>2
    <3>2. \A m \in resp' : TS[m] > TS[b]
      <4>1. TS[b] <= Newest(bridged) /\ Newest(bridged) \in Nat
        BY <2>2, <3>1, NewestIs DEF BfInv, SetsOK
      <4>2. \A m \in resp' : TS[m] > Newest(bridged)
        BY <1>3, <1>4, <2>2 DEF Candidates, InRange
      <4> QED BY <1>3, <1>4, <3>1, <4>1, <4>2, TSType DEF BfInv, SetsOK
    <3>3. \A m \in db \ (bridged \cup LeftBehind) : TS[m] < TS[b]
      BY <3>1 DEF BfInv, MissingOlder, Older
    <3> QED BY <1>3, <1>4, <3>1, <3>2, <3>3, TSType DEF Older, BfInv, SetsOK
  <2> QED BY <2>1, <2>2
<1>6. SetsOK' /\ UnsentOlder' /\ MissingOlder' /\ NoLoss'
  BY <1>2, <1>3, <1>4 DEF BfInv, SetsOK, UnsentOlder, MissingOlder, NoLoss, Older, LeftBehind
<1>7. FetchOK'
  BY <1>2, <1>3, <1>4, <1>5 DEF FetchOK, Older, LeftBehind
<1> QED BY <1>6, <1>7 DEF BfInv

\* A fetch that finds nothing, after which the chat's messages are deleted.
LEMMA FetchEmptyKeeps ==
  ASSUME BfInv, NEW forward \in BOOLEAN, FetchEmpty(forward)
  PROVE  BfInv'
<1>1. /\ pc' = "wipe" /\ UNCHANGED <<db, unsent, bridged, cursor, resp>>
      /\ Candidates(forward) = {} /\ stranded \subseteq stranded'
  BY DEF FetchEmpty
<1>2. db \subseteq bridged \cup LeftBehind'
  <2>1. CASE forward => bridged = {}
    BY <1>1, <2>1, MissingInRange DEF Candidates, LeftBehind
  <2>2. CASE forward /\ bridged # {}
    BY <2>2 DEF FetchEmpty, LeftBehind
  <2> QED BY <2>1, <2>2
<1> QED
  BY <1>1, <1>2 DEF BfInv, SetsOK, UnsentOlder, MissingOlder, FetchOK, NoLoss, Older, LeftBehind

LEMMA BfKeeps == ASSUME BfInv, [Next]_vars PROVE BfInv'
<1>1. ASSUME NEW S \in SUBSET Msgs, Store(S) PROVE BfInv'
  <2>1. /\ db' = db \cup S /\ unsent' = unsent \ S /\ S \subseteq unsent
        /\ stranded' = stranded \cup Late(S)
        /\ UNCHANGED <<bridged, cursor, pc, resp>>
    BY <1>1 DEF Store
  <2>2. \A a \in unsent \ S, b \in S : TS[a] <= TS[b]
    BY <1>1, TSType DEF Store, BfInv, SetsOK
  <2>3. SetsOK' /\ UnsentOlder' /\ NoLoss'
    BY <2>1, <2>2 DEF BfInv, SetsOK, UnsentOlder, NoLoss, LeftBehind
  <2>4. pc # "wipe" => Older(S \ Late(S), bridged \cup (resp \ unsent))
    <3> SUFFICES ASSUME pc # "wipe", NEW m \in S \ Late(S), NEW o \in bridged \cup (resp \ unsent)
                 PROVE  TS[m] < TS[o]
      BY DEF Older
    <3>1. TS[o] # TS[m]
      BY DEF Late
    <3>2. TS[m] <= TS[o]
      BY <2>1 DEF BfInv, SetsOK, UnsentOlder
    <3>3. TS[m] \in Nat /\ TS[o] \in Nat
      BY TSType DEF BfInv, SetsOK
    <3> QED BY <3>1, <3>2, <3>3
  <2>5. MissingOlder'
    <3>1. CASE pc = "wipe"
      <4>1. S \subseteq stranded'
        BY <2>1, <3>1 DEF Late
      <4> QED BY <2>1, <4>1 DEF BfInv, MissingOlder, Older, LeftBehind
    <3>2. CASE pc # "wipe"
      BY <2>1, <2>4, <3>2 DEF BfInv, MissingOlder, Older, LeftBehind
    <3> QED BY <3>1, <3>2
  <2>6. FetchOK'
    <3>1. pc = "wipe" => S \subseteq stranded'
      BY <2>1 DEF Late
    <3>2. pc = "got" => resp \cap unsent = {}
      BY DEF BfInv, SetsOK, FetchOK
    <3>3. pc = "got" => Older(S \ Late(S), resp)
      BY <2>4, <3>2 DEF Older
    <3> QED BY <2>1, <3>1, <3>3 DEF BfInv, SetsOK, FetchOK, Older, LeftBehind
  <2> QED BY <2>3, <2>5, <2>6 DEF BfInv
<1>2. ASSUME NEW forward \in BOOLEAN, Fetch(forward) PROVE BfInv'
  BY <1>2, FetchKeeps
<1>3. ASSUME NEW forward \in BOOLEAN, FetchEmpty(forward) PROVE BfInv'
  BY <1>3, FetchEmptyKeeps
<1>4. CASE Wipe
  BY <1>4 DEF Wipe, BfInv, SetsOK, UnsentOlder, MissingOlder, FetchOK, NoLoss, Older, LeftBehind
<1>5. CASE Bridge
  <2>1. /\ pc = "got" /\ pc' = "sent" /\ bridged' = bridged \cup resp
        /\ UNCHANGED <<db, unsent, resp, stranded>> /\ cursor' \in {cursor, Oldest(resp)}
    BY <1>5 DEF Bridge
  <2>2. \E m \in resp : TS[m] = Oldest(resp)
    BY <2>1, OldestIs DEF BfInv, FetchOK, SetsOK
  <2>3. SetsOK' /\ UnsentOlder' /\ NoLoss' /\ FetchOK'
    BY <2>1 DEF BfInv, SetsOK, UnsentOlder, NoLoss, FetchOK, Older, LeftBehind
  <2>4. MissingOlder'
    BY <2>1, <2>2 DEF BfInv, MissingOlder, FetchOK, Older, LeftBehind
  <2> QED BY <2>3, <2>4 DEF BfInv
<1>6. CASE Complete
  <2>1. /\ pc = "sent" /\ pc' = "idle" /\ resp' = {} /\ db' = db \ Deleted
        /\ UNCHANGED <<unsent, bridged, cursor>> /\ stranded \subseteq stranded'
        /\ ~QueueOn => db \subseteq stranded'
    BY <1>6 DEF Complete
  <2>2. PICK r \in resp : TS[r] = Oldest(resp)
    BY <2>1, OldestIs DEF BfInv, FetchOK, SetsOK
  <2>3. ASSUME NEW m \in Deleted PROVE m \in bridged \cup LeftBehind'
    <3>1. CASE QueueOn
      <4>1. m \in db /\ TS[m] >= TS[r] /\ TS[m] \in Nat /\ TS[r] \in Nat
        BY <2>2, <3>1, TSType DEF Deleted, BfInv, SetsOK
      <4>2. m \in db \ (bridged \cup LeftBehind) => TS[m] < TS[r]
        BY <2>1, <2>2 DEF BfInv, FetchOK, MissingOlder, Older
      <4> QED BY <2>1, <4>1, <4>2 DEF LeftBehind
    <3>2. CASE ~QueueOn
      BY <2>1, <3>2 DEF Deleted, LeftBehind
    <3> QED BY <3>1, <3>2
  <2> QED
    BY <2>1, <2>3 DEF BfInv, SetsOK, UnsentOlder, MissingOlder, FetchOK, NoLoss, Older, LeftBehind
<1>7. CASE Restart
  BY <1>7 DEF Restart, BfInv, SetsOK, UnsentOlder, MissingOlder, FetchOK, NoLoss, Older, LeftBehind
<1>8. CASE UNCHANGED vars
  BY <1>8 DEF vars, BfInv, SetsOK, UnsentOlder, MissingOlder, FetchOK, NoLoss, Older, LeftBehind
<1> QED
  BY <1>1, <1>2, <1>3, <1>4, <1>5, <1>6, <1>7, <1>8 DEF Next

-----------------------------------------------------------------------------
\* For any chat and any batch size, no message of the phone's history is lost between
\* the history sync and the room (convertHistorySyncMessages and its
\* CompleteCallback), whatever is stored during a fetch and however often it is
\* cut off by a stop, but for those LeftBehind names.
THEOREM HistoryNotLost == Spec => []NoLoss
<1>1. Init => BfInv
  BY BfStarts
<1>2. BfInv /\ [Next]_vars => BfInv'
  BY BfKeeps
<1> QED
  BY <1>1, <1>2, PTL DEF Spec, BfInv

\* And what a batch leaves out is below the bound at which the next one goes on
\* (FetchMessages, GetBetween), unless its second has more messages than a
\* query returns or was stored too late.
THEOREM NextBatchGoesOn == Spec => []NextFindsRest
<1>1. Init => BfInv
  BY BfStarts
<1>2. BfInv /\ [Next]_vars => BfInv'
  BY BfKeeps
<1> QED
  BY <1>1, <1>2, BfNextFinds, PTL DEF Spec
=============================================================================
