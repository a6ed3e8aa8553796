-------------------------- MODULE CallBridgeProofs --------------------------
(***************************************************************************)
(* What CallBridge's runs check on one or two calls, proved for any set of *)
(* calls.  Coherent strengthens the invariants into an inductive one: it   *)
(* says which goroutines of a session can run before it took the slot      *)
(* (none), and what WhatsApp was told at every stage of end().             *)
(***************************************************************************)
EXTENDS CallBridge, TLAPS

\* Before the slot is taken only the starter runs.
NotBeforeClaim(s) ==
    ~Claimed(s) => /\ ender[s] = "none"
                   /\ ans[s] = "none"
                   /\ timer[s] = "off"
                   /\ media[s] = "off"
                   /\ watch[s] = FALSE

\* WhatsApp is told by the starter that is turned away or by end(), and by each
\* at most once.
ToldOnce(s) ==
    /\ pc[s] # "rejected" /\ ender[s] \in {"none", "snap", "notify"} => ~Told(s)
    /\ rejects[s] + hangups[s] <= 1

\* An incoming call that is ended without telling WhatsApp is over there.
IncomingTold(s) ==
    /\ pc[s] \notin {"place", "store", "answer"}
    /\ call[s] = TRUE
    /\ ender[s] \in {"snap", "notify"} => notify[s] = TRUE \/ wa[s] = "over"
    /\ ender[s] = "notify" => hadCall[s] = TRUE
    /\ ender[s] \in {"hangup", "cancel", "close", "clear", "done"} \/ pc[s] = "rejected"
            => wa[s] = "over" \/ Told(s)

Coherent(s) ==
    /\ NotBeforeClaim(s)
    /\ ToldOnce(s)
    /\ s \in Incoming => IncomingTold(s)

\* The part of TypeOK about end().
EndTypes ==
    /\ ender \in [Sessions -> EndPC]
    /\ notify \in [Sessions -> BOOLEAN]
    /\ hadLeg \in [Sessions -> BOOLEAN]
    /\ hadCall \in [Sessions -> BOOLEAN]
    /\ wasAnswering \in [Sessions -> BOOLEAN]

IInv == TypeOK /\ OneCall /\ \A s \in Sessions : Coherent(s)

USE DEF StarterPC, AnswerPC, EndPC,
        snap, starterVars, answerVars, endVars, outside, waTold, Claimed, Told

\* What any goroutine may do to end(): call it, or leave it alone.
MayEnd(s) == UNCHANGED endVars \/ \E n \in BOOLEAN : End(s, n)

\* Calling end() keeps its variables in their types.
LEMMA EndType ==
    ASSUME EndTypes, NEW s \in Sessions, MayEnd(s)
    PROVE  EndTypes'
<1>1. CASE UNCHANGED endVars
  BY <1>1 DEF EndTypes
<1>2. ASSUME NEW n \in BOOLEAN, End(s, n) PROVE EndTypes'
  BY <1>2 DEF EndTypes, End
<1> QED
  BY <1>1, <1>2 DEF MayEnd

\* Which goroutines call end().
LEMMA WhoEnds ==
    ASSUME NEW s \in Sessions,
           \/ Watch(s) \/ RingLeg(s) \/ RingOffer(s) \/ RingGather(s)
           \/ RingInvite(s) \/ OutLeg(s) \/ OutAnswerOffer(s) \/ OutPlace(s)
           \/ OutAnswer(s) \/ AnswerBegin(s) \/ AnswerSet(s) \/ AnswerWA(s)
           \/ MatrixHangup(s) \/ MatrixEmptyAnswer(s) \/ WAEnds(s) \/ MediaReady(s)
           \/ InviteExpires(s) \/ (Stop /\ active = s)
    PROVE  MayEnd(s)
<1>1. CASE Watch(s)
  BY <1>1 DEF Watch, MayEnd
<1>2. CASE RingLeg(s)
  BY <1>2 DEF RingLeg, MayEnd
<1>3. CASE RingOffer(s)
  BY <1>3 DEF RingOffer, MayEnd
<1>4. CASE RingGather(s)
  BY <1>4 DEF RingGather, MayEnd
<1>5. CASE RingInvite(s)
  BY <1>5 DEF RingInvite, MayEnd
<1>6. CASE OutLeg(s)
  BY <1>6 DEF OutLeg, MayEnd
<1>7. CASE OutAnswerOffer(s)
  BY <1>7 DEF OutAnswerOffer, MayEnd
<1>8. CASE OutPlace(s)
  BY <1>8 DEF OutPlace, MayEnd
<1>9. CASE OutAnswer(s)
  BY <1>9 DEF OutAnswer, MayEnd
<1>10. CASE AnswerBegin(s)
  BY <1>10 DEF AnswerBegin, MayEnd
<1>11. CASE AnswerSet(s)
  BY <1>11 DEF AnswerSet, MayEnd
<1>12. CASE AnswerWA(s)
  BY <1>12 DEF AnswerWA, MayEnd
<1>13. CASE MatrixHangup(s)
  BY <1>13 DEF MatrixHangup, MayEnd
<1>14. CASE MatrixEmptyAnswer(s)
  BY <1>14 DEF MatrixEmptyAnswer, MayEnd
<1>15. CASE WAEnds(s)
  BY <1>15 DEF WAEnds, MayEnd
<1>16. CASE MediaReady(s)
  BY <1>16 DEF MediaReady, MayEnd
<1>17. CASE InviteExpires(s)
  BY <1>17 DEF InviteExpires, MayEnd
<1>18. CASE Stop /\ active = s
  BY <1>18 DEF Stop, MayEnd
<1> QED
  BY <1>1, <1>2, <1>3, <1>4, <1>5, <1>6, <1>7, <1>8, <1>9, <1>10, <1>11, <1>12, <1>13, <1>14, <1>15, <1>16, <1>17, <1>18

\* Every step keeps TypeOK.
LEMMA TypeStep == TypeOK /\ [Next]_vars => TypeOK'
<1> SUFFICES ASSUME TypeOK, [Next]_vars PROVE TypeOK'
  OBVIOUS
<1> USE DEF TypeOK
<1>0. EndTypes
  BY DEF EndTypes
<1>1. ASSUME NEW s \in Sessions, CheckBusy(s) PROVE TypeOK'
  BY <1>1, SMTT(30) DEF CheckBusy, Goto, TurnAway, Reject, AtWA
<1>2. ASSUME NEW s \in Sessions, Lookup(s) PROVE TypeOK'
  BY <1>2 DEF Lookup, Goto
<1>3. ASSUME NEW s \in Sessions, Claim(s) PROVE TypeOK'
  <2>1. active' \in Sessions \cup {None}
    BY <1>3 DEF Claim, Goto, TurnAway, Reject, AtWA
  <2>2. pc' \in [Sessions -> StarterPC]
    BY <1>3 DEF Claim, Goto, TurnAway, Reject, AtWA
  <2>3. cancelled' \in [Sessions -> BOOLEAN]
    BY <1>3 DEF Claim, Goto, TurnAway, Reject, AtWA
  <2>4. rejects' \in [Sessions -> Nat]
    BY <1>3 DEF Claim, Goto, TurnAway, Reject, AtWA
  <2>5. hangups' \in [Sessions -> Nat]
    BY <1>3 DEF Claim, Goto, TurnAway, Reject, AtWA
  <2>6. wa' \in [Sessions -> {"none", "ringing", "live", "over"}]
    BY <1>3 DEF Claim, Goto, TurnAway, Reject, AtWA
  <2> QED
    BY <1>3, <2>1, <2>2, <2>3, <2>4, <2>5, <2>6 DEF Claim, TurnAway, Reject, AtWA
<1>4. ASSUME NEW s \in Sessions, Watch(s) PROVE TypeOK'
  <2>1. EndTypes'
    BY <1>0, <1>4, WhoEnds, EndType
  <2> QED
    BY <1>4, <2>1 DEF Watch, Goto, EndTypes
<1>5. ASSUME NEW s \in Sessions, RingLeg(s) PROVE TypeOK'
  <2>1. pc' \in [Sessions -> StarterPC]
    BY <1>5 DEF RingLeg, Goto, End
  <2>2. leg' \in [Sessions -> {"none", "open", "closed"}]
    BY <1>5, ZenonT(40) DEF RingLeg
  <2>3. mxLeg' \in [Sessions -> BOOLEAN]
    BY <1>5 DEF RingLeg
  <2>4. EndTypes'
    BY <1>0, <1>5, WhoEnds, EndType
  <2> QED
    BY <1>5, <2>1, <2>2, <2>3, <2>4 DEF RingLeg, EndTypes
<1>6. ASSUME NEW s \in Sessions, RingOffer(s) PROVE TypeOK'
  <2>1. pc' \in [Sessions -> StarterPC]
    BY <1>6 DEF RingOffer, Goto, End
  <2>2. leg' \in [Sessions -> {"none", "open", "closed"}]
    BY <1>6, ZenonT(40) DEF RingOffer
  <2>3. EndTypes'
    BY <1>0, <1>6, WhoEnds, EndType
  <2> QED
    BY <1>6, <2>1, <2>2, <2>3 DEF RingOffer, EndTypes
<1>7. ASSUME NEW s \in Sessions, RingGather(s) PROVE TypeOK'
  <2>1. pc' \in [Sessions -> StarterPC]
    BY <1>7 DEF RingGather, Goto, End
  <2>2. EndTypes'
    BY <1>0, <1>7, WhoEnds, EndType
  <2> QED
    BY <1>7, <2>1, <2>2 DEF RingGather, EndTypes
<1>8. ASSUME NEW s \in Sessions, RingInvite(s) PROVE TypeOK'
  <2>1. pc' \in [Sessions -> StarterPC]
    BY <1>8 DEF RingInvite, Goto, End
  <2>2. room' \in [Sessions -> {"quiet", "ringing", "over"}]
    BY <1>8, ZenonT(40) DEF RingInvite
  <2>3. timer' \in [Sessions -> {"off", "armed", "fired"}]
    BY <1>8, ZenonT(40) DEF RingInvite
  <2>4. EndTypes'
    BY <1>0, <1>8, WhoEnds, EndType
  <2> QED
    BY <1>8, <2>1, <2>2, <2>3, <2>4 DEF RingInvite, EndTypes
<1>9. ASSUME NEW s \in Sessions, OutLeg(s) PROVE TypeOK'
  <2>1. pc' \in [Sessions -> StarterPC]
    BY <1>9 DEF OutLeg, Goto, End
  <2>2. leg' \in [Sessions -> {"none", "open", "closed"}]
    BY <1>9, ZenonT(40) DEF OutLeg
  <2>3. mxLeg' \in [Sessions -> BOOLEAN]
    BY <1>9 DEF OutLeg
  <2>4. EndTypes'
    BY <1>0, <1>9, WhoEnds, EndType
  <2> QED
    BY <1>9, <2>1, <2>2, <2>3, <2>4 DEF OutLeg, EndTypes
<1>10. ASSUME NEW s \in Sessions, OutAnswerOffer(s) PROVE TypeOK'
  <2>1. pc' \in [Sessions -> StarterPC]
    BY <1>10 DEF OutAnswerOffer, Goto, End
  <2>2. EndTypes'
    BY <1>0, <1>10, WhoEnds, EndType
  <2> QED
    BY <1>10, <2>1, <2>2 DEF OutAnswerOffer, EndTypes
<1>11. ASSUME NEW s \in Sessions, OutGather(s) PROVE TypeOK'
  BY <1>11 DEF OutGather, Goto
<1>12. ASSUME NEW s \in Sessions, OutPlace(s) PROVE TypeOK'
  <2>1. pc' \in [Sessions -> StarterPC]
    BY <1>12 DEF OutPlace, Goto, End
  <2>2. wa' \in [Sessions -> {"none", "ringing", "live", "over"}]
    BY <1>12 DEF OutPlace, Goto, End
  <2>3. EndTypes'
    BY <1>0, <1>12, WhoEnds, EndType
  <2> QED
    BY <1>12, <2>1, <2>2, <2>3 DEF OutPlace, EndTypes
<1>13. ASSUME NEW s \in Sessions, OutStore(s) PROVE TypeOK'
  BY <1>13 DEF OutStore, Goto
<1>14. ASSUME NEW s \in Sessions, OutAnswer(s) PROVE TypeOK'
  <2>1. EndTypes'
    BY <1>0, <1>14, WhoEnds, EndType
  <2> QED
    BY <1>14, <2>1 DEF OutAnswer, Goto, EndTypes
<1>15. ASSUME NEW s \in Sessions, AnswerBegin(s) PROVE TypeOK'
  <2>1. answering' \in [Sessions -> BOOLEAN]
    BY <1>15 DEF AnswerBegin
  <2>2. ans' \in [Sessions -> AnswerPC]
    BY <1>15 DEF AnswerBegin, End
  <2>3. EndTypes'
    BY <1>0, <1>15, WhoEnds, EndType
  <2> QED
    BY <1>15, <2>1, <2>2, <2>3 DEF AnswerBegin, EndTypes
<1>16. ASSUME NEW s \in Sessions, AnswerSet(s) PROVE TypeOK'
  <2>1. ans' \in [Sessions -> AnswerPC]
    BY <1>16 DEF AnswerSet, End
  <2>2. EndTypes'
    BY <1>0, <1>16, WhoEnds, EndType
  <2> QED
    BY <1>16, <2>1, <2>2 DEF AnswerSet, EndTypes
<1>17. ASSUME NEW s \in Sessions, AnswerSelect(s) PROVE TypeOK'
  BY <1>17 DEF AnswerSelect
<1>18. ASSUME NEW s \in Sessions, AnswerWA(s) PROVE TypeOK'
  <2>1. ans' \in [Sessions -> AnswerPC]
    BY <1>18 DEF AnswerWA, End
  <2>2. wa' \in [Sessions -> {"none", "ringing", "live", "over"}]
    BY <1>18 DEF AnswerWA, End
  <2>3. EndTypes'
    BY <1>0, <1>18, WhoEnds, EndType
  <2> QED
    BY <1>18, <2>1, <2>2, <2>3 DEF AnswerWA, EndTypes
<1>19. ASSUME NEW s \in Sessions, PumpTrack(s) PROVE TypeOK'
  BY <1>19 DEF PumpTrack
<1>20. ASSUME NEW s \in Sessions, PumpRead(s) PROVE TypeOK'
  BY <1>20 DEF PumpRead
<1>21. ASSUME NEW s \in Sessions, EndSnapshot(s) PROVE TypeOK'
  BY <1>21 DEF EndSnapshot
<1>22. ASSUME NEW s \in Sessions, EndNotify(s) PROVE TypeOK'
  BY <1>22, SMTT(30) DEF EndNotify, Reject, Hangup, AtWA
<1>23. ASSUME NEW s \in Sessions, EndHangup(s) PROVE TypeOK'
  BY <1>23 DEF EndHangup
<1>24. ASSUME NEW s \in Sessions, EndCancel(s) PROVE TypeOK'
  BY <1>24 DEF EndCancel
<1>25. ASSUME NEW s \in Sessions, EndClose(s) PROVE TypeOK'
  BY <1>25 DEF EndClose
<1>26. ASSUME NEW s \in Sessions, EndClear(s) PROVE TypeOK'
  BY <1>26 DEF EndClear
<1>27. ASSUME NEW s \in Sessions, Offered(s) PROVE TypeOK'
  BY <1>27 DEF Offered, Goto
<1>28. ASSUME NEW s \in Sessions, Invited(s) PROVE TypeOK'
  BY <1>28 DEF Invited, Goto
<1>29. ASSUME NEW s \in Sessions, MatrixHangup(s) PROVE TypeOK'
  <2>1. EndTypes'
    BY <1>0, <1>29, WhoEnds, EndType
  <2> QED
    BY <1>29, <2>1 DEF MatrixHangup, Nameable, EndTypes
<1>30. ASSUME NEW s \in Sessions, MatrixAnswer(s) PROVE TypeOK'
  BY <1>30 DEF MatrixAnswer, Nameable
<1>31. ASSUME NEW s \in Sessions, MatrixEmptyAnswer(s) PROVE TypeOK'
  <2>1. EndTypes'
    BY <1>0, <1>31, WhoEnds, EndType
  <2> QED
    BY <1>31, <2>1 DEF MatrixEmptyAnswer, Nameable, EndTypes
<1>32. ASSUME NEW s \in Sessions, TrackEnds(s) PROVE TypeOK'
  BY <1>32 DEF TrackEnds
<1>33. ASSUME NEW s \in Sessions, WAEnds(s) PROVE TypeOK'
  <2>1. wa' \in [Sessions -> {"none", "ringing", "live", "over"}]
    BY <1>33 DEF WAEnds, End
  <2>2. EndTypes'
    BY <1>0, <1>33, WhoEnds, EndType
  <2> QED
    BY <1>33, <2>1, <2>2 DEF WAEnds, EndTypes
<1>34. ASSUME NEW s \in Sessions, PeerAccepts(s) PROVE TypeOK'
  BY <1>34 DEF PeerAccepts
<1>35. ASSUME NEW s \in Sessions, MediaReady(s) PROVE TypeOK'
  <2>1. media' \in [Sessions -> {"off", "track", "read", "stopped"}]
    BY <1>35 DEF MediaReady, End
  <2>2. EndTypes'
    BY <1>0, <1>35, WhoEnds, EndType
  <2> QED
    BY <1>35, <2>1, <2>2 DEF MediaReady, EndTypes
<1>36. ASSUME NEW s \in Sessions, InviteExpires(s) PROVE TypeOK'
  <2>1. EndTypes'
    BY <1>0, <1>36, WhoEnds, EndType
  <2> QED
    BY <1>36, <2>1 DEF InviteExpires, EndTypes
<1>37. CASE Stop
  <2>1. active \in Sessions
    BY <1>37 DEF Stop
  <2>2. EndTypes'
    BY <1>0, <1>37, <2>1, WhoEnds, EndType
  <2> QED
    BY <1>37, <2>2 DEF Stop, EndTypes
<1>38. CASE UNCHANGED vars
  BY <1>38 DEF vars
<1> QED
  BY <1>1, <1>2, <1>3, <1>4, <1>5, <1>6, <1>7, <1>8, <1>9, <1>10,
     <1>11, <1>12, <1>13, <1>14, <1>15, <1>16, <1>17, <1>18, <1>19, <1>20,
     <1>21, <1>22, <1>23, <1>24, <1>25, <1>26, <1>27, <1>28, <1>29, <1>30,
     <1>31, <1>32, <1>33, <1>34, <1>35, <1>36, <1>37, <1>38
     DEF Next, Starter, Answerer, Pump, Ender, Environment

\* Every step keeps the inductive invariant.
LEMMA InvStep == IInv /\ [Next]_vars => IInv'
<1> SUFFICES ASSUME IInv, [Next]_vars PROVE IInv'
  OBVIOUS
<1>0. TypeOK'
  BY TypeStep DEF IInv
<1> USE <1>0, SessionsAssumption
    DEF Sessions, IInv, TypeOK, OneCall, Coherent, NotBeforeClaim, ToldOnce, IncomingTold
<1>1. ASSUME NEW s0 \in Sessions, CheckBusy(s0) PROVE IInv'
  BY <1>1 DEF CheckBusy, Goto, TurnAway, Reject, AtWA
<1>2. ASSUME NEW s0 \in Sessions, Lookup(s0) PROVE IInv'
  BY <1>2 DEF Lookup, Goto
<1>3. ASSUME NEW s0 \in Sessions, Claim(s0) PROVE IInv'
  <2> USE DEF Claim, TurnAway, Goto, Reject, AtWA
  <2>1. OneCall'
    BY <1>3
  <2>2. ASSUME NEW s \in Sessions PROVE NotBeforeClaim(s)' /\ ToldOnce(s)'
    BY <1>3
  <2>3. ASSUME NEW s \in Incoming PROVE IncomingTold(s)'
    BY <1>3
  <2> QED
    BY <2>1, <2>2, <2>3
<1>4. ASSUME NEW s0 \in Sessions, Watch(s0) PROVE IInv'
  BY <1>4 DEF Watch, Goto, End
<1>5. ASSUME NEW s0 \in Sessions, RingLeg(s0) PROVE IInv'
  BY <1>5 DEF RingLeg, Goto, End
<1>6. ASSUME NEW s0 \in Sessions, RingOffer(s0) PROVE IInv'
  BY <1>6 DEF RingOffer, Goto, End
<1>7. ASSUME NEW s0 \in Sessions, RingGather(s0) PROVE IInv'
  BY <1>7 DEF RingGather, Goto, End
<1>8. ASSUME NEW s0 \in Sessions, RingInvite(s0) PROVE IInv'
  BY <1>8 DEF RingInvite, Goto, End
<1>9. ASSUME NEW s0 \in Sessions, OutLeg(s0) PROVE IInv'
  <2>1. OneCall'
    BY <1>9 DEF OutLeg, Goto, End
  <2>2. ASSUME NEW s \in Sessions PROVE NotBeforeClaim(s)' /\ ToldOnce(s)'
    BY <1>9 DEF OutLeg, Goto, End
  <2>3. ASSUME NEW s \in Incoming PROVE IncomingTold(s)'
    BY <1>9 DEF OutLeg, Goto, End
  <2> QED
    BY <2>1, <2>2, <2>3
<1>10. ASSUME NEW s0 \in Sessions, OutAnswerOffer(s0) PROVE IInv'
  <2>1. OneCall'
    BY <1>10 DEF OutAnswerOffer, Goto, End
  <2>2. ASSUME NEW s \in Sessions PROVE NotBeforeClaim(s)' /\ ToldOnce(s)'
    BY <1>10 DEF OutAnswerOffer, Goto, End
  <2>3. ASSUME NEW s \in Incoming PROVE IncomingTold(s)'
    BY <1>10 DEF OutAnswerOffer, Goto, End
  <2> QED
    BY <2>1, <2>2, <2>3
<1>11. ASSUME NEW s0 \in Sessions, OutGather(s0) PROVE IInv'
  BY <1>11 DEF OutGather, Goto
<1>12. ASSUME NEW s0 \in Sessions, OutPlace(s0) PROVE IInv'
  BY <1>12 DEF OutPlace, Goto, End
<1>13. ASSUME NEW s0 \in Sessions, OutStore(s0) PROVE IInv'
  BY <1>13 DEF OutStore, Goto
<1>14. ASSUME NEW s0 \in Sessions, OutAnswer(s0) PROVE IInv'
  BY <1>14 DEF OutAnswer, Goto, End
<1>15. ASSUME NEW s0 \in Sessions, AnswerBegin(s0) PROVE IInv'
  BY <1>15 DEF AnswerBegin, End
<1>16. ASSUME NEW s0 \in Sessions, AnswerSet(s0) PROVE IInv'
  BY <1>16 DEF AnswerSet, End
<1>17. ASSUME NEW s0 \in Sessions, AnswerSelect(s0) PROVE IInv'
  BY <1>17 DEF AnswerSelect
<1>18. ASSUME NEW s0 \in Sessions, AnswerWA(s0) PROVE IInv'
  BY <1>18 DEF AnswerWA, End
<1>19. ASSUME NEW s0 \in Sessions, PumpTrack(s0) PROVE IInv'
  BY <1>19 DEF PumpTrack
<1>20. ASSUME NEW s0 \in Sessions, PumpRead(s0) PROVE IInv'
  BY <1>20 DEF PumpRead
<1>21. ASSUME NEW s0 \in Sessions, EndSnapshot(s0) PROVE IInv'
  BY <1>21 DEF EndSnapshot
<1>22. ASSUME NEW s0 \in Sessions, EndNotify(s0) PROVE IInv'
  BY <1>22 DEF EndNotify, Reject, Hangup, AtWA
<1>23. ASSUME NEW s0 \in Sessions, EndHangup(s0) PROVE IInv'
  BY <1>23 DEF EndHangup
<1>24. ASSUME NEW s0 \in Sessions, EndCancel(s0) PROVE IInv'
  BY <1>24 DEF EndCancel
<1>25. ASSUME NEW s0 \in Sessions, EndClose(s0) PROVE IInv'
  BY <1>25 DEF EndClose
<1>26. ASSUME NEW s0 \in Sessions, EndClear(s0) PROVE IInv'
  BY <1>26 DEF EndClear
<1>27. ASSUME NEW s0 \in Sessions, Offered(s0) PROVE IInv'
  BY <1>27 DEF Offered, Goto
<1>28. ASSUME NEW s0 \in Sessions, Invited(s0) PROVE IInv'
  BY <1>28 DEF Invited, Goto
<1>29. ASSUME NEW s0 \in Sessions, MatrixHangup(s0) PROVE IInv'
  BY <1>29 DEF MatrixHangup, End, Nameable
<1>30. ASSUME NEW s0 \in Sessions, MatrixAnswer(s0) PROVE IInv'
  BY <1>30 DEF MatrixAnswer, Nameable
<1>31. ASSUME NEW s0 \in Sessions, MatrixEmptyAnswer(s0) PROVE IInv'
  BY <1>31 DEF MatrixEmptyAnswer, End, Nameable
<1>32. ASSUME NEW s0 \in Sessions, TrackEnds(s0) PROVE IInv'
  BY <1>32 DEF TrackEnds
<1>33. ASSUME NEW s0 \in Sessions, WAEnds(s0) PROVE IInv'
  BY <1>33 DEF WAEnds, End
<1>34. ASSUME NEW s0 \in Sessions, PeerAccepts(s0) PROVE IInv'
  BY <1>34 DEF PeerAccepts
<1>35. ASSUME NEW s0 \in Sessions, MediaReady(s0) PROVE IInv'
  BY <1>35 DEF MediaReady, End
<1>36. ASSUME NEW s0 \in Sessions, InviteExpires(s0) PROVE IInv'
  BY <1>36 DEF InviteExpires, End
<1>37. CASE Stop
  BY <1>37 DEF Stop, End
<1>38. CASE UNCHANGED vars
  BY <1>38 DEF vars
<1> QED
  BY <1>1, <1>2, <1>3, <1>4, <1>5, <1>6, <1>7, <1>8, <1>9, <1>10,
     <1>11, <1>12, <1>13, <1>14, <1>15, <1>16, <1>17, <1>18, <1>19, <1>20,
     <1>21, <1>22, <1>23, <1>24, <1>25, <1>26, <1>27, <1>28, <1>29, <1>30,
     <1>31, <1>32, <1>33, <1>34, <1>35, <1>36, <1>37, <1>38
     DEF Next, Starter, Answerer, Pump, Ender, Environment

\* The inductive invariant holds from the start.
LEMMA InvInit == Init => IInv
<1> SUFFICES ASSUME Init PROVE IInv
  OBVIOUS
<1>1. TypeOK
  BY DEF Init, TypeOK
<1>2. OneCall
  BY SessionsAssumption DEF Init, OneCall
<1>3. ASSUME NEW s \in Sessions PROVE NotBeforeClaim(s) /\ ToldOnce(s)
  BY DEF Init, NotBeforeClaim, ToldOnce
<1>4. ASSUME NEW s \in Incoming PROVE IncomingTold(s)
  <2>1. call[s] = TRUE
    BY Zenon DEF Init, Sessions
  <2> QED
    BY <2>1 DEF Init, Sessions, IncomingTold
<1> QED
  BY <1>1, <1>2, <1>3, <1>4 DEF IInv, Coherent

LEMMA InvHolds == Spec => []IInv
BY InvInit, InvStep, PTL DEF Spec

\* The state of the call bridge is always of its type, for any set of calls.
THEOREM TypeCorrect == Spec => []TypeOK
BY InvHolds, PTL DEF IInv

\* However the starters, both networks, the timer, stop() and end() interleave,
\* waCallBridge.active is exactly the one claimed call that end() has not
\* finished with.
THEOREM OneCallAlways == Spec => []OneCall
BY InvHolds, PTL DEF IInv

\* No interleaving of startIncoming's rejects and end() tells WhatsApp twice.
THEOREM WAToldOnce == Spec => []EndsWAOnce
<1>1. IInv => EndsWAOnce
  BY DEF IInv, Coherent, ToldOnce, EndsWAOnce
<1> QED
  BY <1>1, InvHolds, PTL

\* An incoming call that was turned away or ended never keeps ringing untold.
THEOREM IncomingNeverOrphaned == Spec => []NoOrphanIncoming
<1>1. IInv => NoOrphanIncoming
  BY DEF IInv, Coherent, IncomingTold, NoOrphanIncoming, Sessions
<1> QED
  BY <1>1, InvHolds, PTL

-----------------------------------------------------------------------------
\* The step neither moves the slot nor brings a new call to it.
Quiet == UNCHANGED active /\ \A s \in Sessions : Claimed(s)' <=> Claimed(s)

\* Every step of the bridge is a step of the abstract slot or leaves it alone.
LEMMA SlotStep == IInv /\ [Next]_vars => [Slot!Next]_(Slot!vars)
<1> SUFFICES ASSUME IInv, [Next]_vars PROVE [Slot!Next]_(Slot!vars)
  OBVIOUS
<1>0. ASSUME Quiet PROVE [Slot!Next]_(Slot!vars)
  BY <1>0 DEF Quiet, Slot!vars
<1> USE DEF IInv, TypeOK
<1>1. ASSUME NEW s0 \in Sessions, Claim(s0) PROVE [Slot!Next]_(Slot!vars)
  <2>1. CASE active # None
    BY <2>1, <1>1, <1>0 DEF Claim, TurnAway, Goto, Quiet
  <2>2. CASE active = None
    <3>1. active' = s0 /\ pc[s0] = "claim"
      BY <1>1, <2>2 DEF Claim
    <3>2. {s \in Sessions : Claimed(s)}' = {s \in Sessions : Claimed(s)} \cup {s0}
      BY <1>1, <2>2 DEF Claim, Goto
    <3> QED
      BY <2>2, <3>1, <3>2 DEF Slot!Next, Slot!Take
  <2> QED
    BY <2>1, <2>2
<1>2. ASSUME NEW s0 \in Sessions, EndClear(s0) PROVE [Slot!Next]_(Slot!vars)
  <2>1. CASE active # s0
    BY <2>1, <1>2, <1>0 DEF EndClear, Quiet
  <2>2. CASE active = s0
    BY <2>2, <1>2, SessionsAssumption DEF EndClear, Slot!Next, Slot!Release
  <2> QED
    BY <2>1, <2>2
<1>3. ASSUME NEW s0 \in Sessions, CheckBusy(s0) PROVE Quiet
  BY <1>3 DEF Quiet, CheckBusy, Goto, TurnAway
<1>4. ASSUME NEW s0 \in Sessions, Lookup(s0) PROVE Quiet
  BY <1>4 DEF Quiet, Lookup, Goto
<1>5. ASSUME NEW s0 \in Sessions, Watch(s0) PROVE Quiet
  BY <1>5 DEF Quiet, Watch, Goto, End
<1>6. ASSUME NEW s0 \in Sessions, RingLeg(s0) PROVE Quiet
  BY <1>6 DEF Quiet, RingLeg, Goto, End
<1>7. ASSUME NEW s0 \in Sessions, RingOffer(s0) PROVE Quiet
  BY <1>7 DEF Quiet, RingOffer, Goto, End
<1>8. ASSUME NEW s0 \in Sessions, RingGather(s0) PROVE Quiet
  BY <1>8 DEF Quiet, RingGather, Goto, End
<1>9. ASSUME NEW s0 \in Sessions, RingInvite(s0) PROVE Quiet
  BY <1>9 DEF Quiet, RingInvite, Goto, End
<1>10. ASSUME NEW s0 \in Sessions, OutLeg(s0) PROVE Quiet
  BY <1>10 DEF Quiet, OutLeg, Goto, End
<1>11. ASSUME NEW s0 \in Sessions, OutAnswerOffer(s0) PROVE Quiet
  BY <1>11 DEF Quiet, OutAnswerOffer, Goto, End
<1>12. ASSUME NEW s0 \in Sessions, OutGather(s0) PROVE Quiet
  BY <1>12 DEF Quiet, OutGather, Goto
<1>13. ASSUME NEW s0 \in Sessions, OutPlace(s0) PROVE Quiet
  BY <1>13 DEF Quiet, OutPlace, Goto, End
<1>14. ASSUME NEW s0 \in Sessions, OutStore(s0) PROVE Quiet
  BY <1>14 DEF Quiet, OutStore, Goto
<1>15. ASSUME NEW s0 \in Sessions, OutAnswer(s0) PROVE Quiet
  BY <1>15 DEF Quiet, OutAnswer, Goto, End
<1>16. ASSUME NEW s0 \in Sessions, AnswerBegin(s0) PROVE Quiet
  BY <1>16 DEF Quiet, AnswerBegin, End
<1>17. ASSUME NEW s0 \in Sessions, AnswerSet(s0) PROVE Quiet
  BY <1>17 DEF Quiet, AnswerSet, End
<1>18. ASSUME NEW s0 \in Sessions, AnswerSelect(s0) PROVE Quiet
  BY <1>18 DEF Quiet, AnswerSelect
<1>19. ASSUME NEW s0 \in Sessions, AnswerWA(s0) PROVE Quiet
  BY <1>19 DEF Quiet, AnswerWA, End
<1>20. ASSUME NEW s0 \in Sessions, PumpTrack(s0) PROVE Quiet
  BY <1>20 DEF Quiet, PumpTrack
<1>21. ASSUME NEW s0 \in Sessions, PumpRead(s0) PROVE Quiet
  BY <1>21 DEF Quiet, PumpRead
<1>22. ASSUME NEW s0 \in Sessions, EndSnapshot(s0) PROVE Quiet
  BY <1>22 DEF Quiet, EndSnapshot
<1>23. ASSUME NEW s0 \in Sessions, EndNotify(s0) PROVE Quiet
  BY <1>23 DEF Quiet, EndNotify
<1>24. ASSUME NEW s0 \in Sessions, EndHangup(s0) PROVE Quiet
  BY <1>24 DEF Quiet, EndHangup
<1>25. ASSUME NEW s0 \in Sessions, EndCancel(s0) PROVE Quiet
  BY <1>25 DEF Quiet, EndCancel
<1>26. ASSUME NEW s0 \in Sessions, EndClose(s0) PROVE Quiet
  BY <1>26 DEF Quiet, EndClose
<1>27. ASSUME NEW s0 \in Sessions, Offered(s0) PROVE Quiet
  BY <1>27 DEF Quiet, Offered, Goto
<1>28. ASSUME NEW s0 \in Sessions, Invited(s0) PROVE Quiet
  BY <1>28 DEF Quiet, Invited, Goto
<1>29. ASSUME NEW s0 \in Sessions, MatrixHangup(s0) PROVE Quiet
  BY <1>29 DEF Quiet, MatrixHangup, End, Nameable
<1>30. ASSUME NEW s0 \in Sessions, MatrixAnswer(s0) PROVE Quiet
  BY <1>30 DEF Quiet, MatrixAnswer
<1>31. ASSUME NEW s0 \in Sessions, MatrixEmptyAnswer(s0) PROVE Quiet
  BY <1>31 DEF Quiet, MatrixEmptyAnswer, End, Nameable
<1>32. ASSUME NEW s0 \in Sessions, TrackEnds(s0) PROVE Quiet
  BY <1>32 DEF Quiet, TrackEnds
<1>33. ASSUME NEW s0 \in Sessions, WAEnds(s0) PROVE Quiet
  BY <1>33 DEF Quiet, WAEnds, End
<1>34. ASSUME NEW s0 \in Sessions, PeerAccepts(s0) PROVE Quiet
  BY <1>34 DEF Quiet, PeerAccepts
<1>35. ASSUME NEW s0 \in Sessions, MediaReady(s0) PROVE Quiet
  BY <1>35 DEF Quiet, MediaReady, End
<1>36. ASSUME NEW s0 \in Sessions, InviteExpires(s0) PROVE Quiet
  BY <1>36 DEF Quiet, InviteExpires, End
<1>37. CASE Stop
  BY <1>0, <1>37 DEF Stop, Quiet
<1>38. CASE UNCHANGED vars
  BY <1>0, <1>38 DEF vars, Quiet
<1> QED
  BY <1>0, <1>1, <1>2, <1>3, <1>4, <1>5, <1>6, <1>7, <1>8, <1>9,
     <1>10, <1>11, <1>12, <1>13, <1>14, <1>15, <1>16, <1>17, <1>18, <1>19,
     <1>20, <1>21, <1>22, <1>23, <1>24, <1>25, <1>26, <1>27, <1>28, <1>29,
     <1>30, <1>31, <1>32, <1>33, <1>34, <1>35, <1>36, <1>37, <1>38
     DEF Next, Starter, Answerer, Pump, Ender, Environment

\* The goroutines of the call bridge implement the abstract slot: one holder at
\* a time, and no call takes the slot twice.
THEOREM ImplementsSlot == Spec => SlotSpec
<1>1. Init => Slot!Init
  BY DEF Init, Slot!Init
<1> QED
  BY <1>1, InvHolds, SlotStep, PTL DEF Spec, SlotSpec, Slot!Spec
=============================================================================
