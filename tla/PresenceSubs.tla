---------------------------- MODULE PresenceSubs ----------------------------
(***************************************************************************)
(* connector/presence.go and wapresence.Plan: whom a login has asked       *)
(* WhatsApp for presence.  Subscriptions die with the websocket, so every  *)
(* connection starts a run of subscribePresences that resets the local     *)
(* sets and works through a plan, while incoming messages subscribe to     *)
(* their chat in goroutines of their own.  Reserving, asking and releasing *)
(* are separate steps, and a run may outlive its connection.               *)
(***************************************************************************)
EXTENDS Naturals, Sequences, FiniteSets

SeqExt == INSTANCE SequencesExt

CONSTANTS Persons,      \* JIDs of people
          Own,          \* the login's own JIDs among them
          MaxSubs,      \* PresenceMaxSubscriptions
          MaxMembers,   \* maxPresenceGroupMembers
          MayFail,      \* requests may fail even on a live connection
          MaxConns,     \* bound: connections made
          MaxList       \* bound: length of the lists a plan is made from

ASSUME SubsAssumption ==
    /\ Own \subseteq Persons /\ MayFail \in BOOLEAN
    /\ {MaxSubs, MaxMembers, MaxConns, MaxList} \subseteq Nat

SubRuns == 1..MaxConns
Lists == UNION {[1..n -> Persons] : n \in 0..MaxList}

-----------------------------------------------------------------------------
(* wapresence.Plan.                                                         *)

PlanAdd(steps, p, member) ==
    IF p \in Own \/ \E i \in DOMAIN steps : steps[i].jid = p
    THEN steps
    ELSE Append(steps, [jid |-> p, member |-> member])

\* Chat partners first, then group members, each up to its cap.
Plan(dms, members) ==
    LET partners == SeqExt!FoldLeft(
                        LAMBDA steps, p :
                            IF Len(steps) >= MaxSubs THEN steps ELSE PlanAdd(steps, p, FALSE),
                        <<>>, dms)
    IN SeqExt!FoldLeft(
           LAMBDA steps, p :
               IF Len(steps) - Len(partners) >= MaxMembers THEN steps ELSE PlanAdd(steps, p, TRUE),
           partners, members)

-----------------------------------------------------------------------------
VARIABLES
    subPlan,       \* the plan every run of this login makes
    subConn, subUp,   \* the number of the connection, and whether it is up
    subServer,     \* whom WhatsApp knows to be subscribed to on this connection
    subs, memberSubs,   \* presenceSubs and presenceMemberSubs
    subRun, subIdx,   \* every run of subscribePresences: where it is, in the plan
    subStopped,    \* the runs whose context is cancelled
    stopPtr,    \* stopPresenceSubs: the run to cancel, 0 for nil
    subChat        \* the goroutine of subscribeChatPresence for a person

subsVars == <<subPlan, subConn, subUp, subServer, subs, memberSubs, subRun, subIdx, subStopped, stopPtr, subChat>>

RunPC  == {"none", "swap", "reset", "resetMembers", "step", "reserve", "ask", "release", "done"}
ChatPC == {"none", "reserve", "ask", "release"}

SubsTypeOK ==
    /\ subPlan \in Seq([jid : Persons, member : BOOLEAN])
    /\ subConn \in 0..MaxConns
    /\ subUp \in BOOLEAN
    /\ subServer \subseteq Persons
    /\ subs \subseteq Persons /\ Cardinality(subs) <= MaxSubs
    /\ memberSubs \subseteq Persons /\ Cardinality(memberSubs) <= MaxMembers
    /\ subRun \in [SubRuns -> RunPC]
    /\ subIdx \in [SubRuns -> 1..(Len(subPlan) + 1)]
    /\ subStopped \subseteq SubRuns
    /\ stopPtr \in 0..MaxConns
    /\ subChat \in [Persons -> ChatPC]

SubsInit ==
    /\ \E dms, members \in Lists : subPlan = Plan(dms, members)
    /\ subConn = 0
    /\ subUp = FALSE
    /\ subServer = {}
    /\ subs = {}
    /\ memberSubs = {}
    /\ subRun = [r \in SubRuns |-> "none"]
    /\ subIdx = [r \in SubRuns |-> 1]
    /\ subStopped = {}
    /\ stopPtr = 0
    /\ subChat = [p \in Persons |-> "none"]

\* events.Connected: own presence is announced, and then a run starts.
SubsConnect ==
    /\ ~subUp /\ subConn < MaxConns
    /\ subConn' = subConn + 1
    /\ subUp' = TRUE
    /\ subRun' = [subRun EXCEPT ![subConn + 1] = "swap"]
    /\ UNCHANGED <<subPlan, subServer, subs, memberSubs, subIdx, subStopped, stopPtr, subChat>>

\* The websocket dies and its subscriptions with it.
SubsDrop ==
    /\ subUp
    /\ subUp' = FALSE
    /\ subServer' = {}
    /\ UNCHANGED <<subPlan, subConn, subs, memberSubs, subRun, subIdx, subStopped, stopPtr, subChat>>

-----------------------------------------------------------------------------
(* subscribePresences.                                                      *)

RunGoto(r, l) == subRun' = [subRun EXCEPT ![r] = l]

\* Registers its own cancel function and cancels the run before.
RunSwap(r) ==
    /\ subRun[r] = "swap"
    /\ stopPtr' = r
    /\ subStopped' = subStopped \cup ({stopPtr} \ {0})
    /\ RunGoto(r, "reset")
    /\ UNCHANGED <<subPlan, subConn, subUp, subServer, subs, memberSubs, subIdx, subChat>>

\* Mutant of RunReset: the set of the last connection is kept.
RunResetNot(r) ==
    /\ subRun[r] = "reset"
    /\ RunGoto(r, "resetMembers")
    /\ UNCHANGED <<subPlan, subConn, subUp, subServer, subs, memberSubs, subIdx, subStopped, stopPtr, subChat>>

RunReset(r) ==
    /\ subRun[r] = "reset"
    /\ subs' = {}
    /\ RunGoto(r, "resetMembers")
    /\ UNCHANGED <<subPlan, subConn, subUp, subServer, memberSubs, subIdx, subStopped, stopPtr, subChat>>

\* The second reset; then the portals are read, or the run gives up.
RunResetMembers(r) ==
    /\ subRun[r] = "resetMembers"
    /\ memberSubs' = {}
    /\ RunGoto(r, "step") \/ RunGoto(r, "done")
    /\ UNCHANGED <<subPlan, subConn, subUp, subServer, subs, subIdx, subStopped, stopPtr, subChat>>

Skip(r) == RunGoto(r, "step") /\ subIdx' = [subIdx EXCEPT ![r] = @ + 1]

\* The pause, the checks after it, and the look for a chat since the plan.
RunStep(r) ==
    /\ subRun[r] = "step"
    /\ \/ /\ r \in subStopped \/ ~subUp \/ subIdx[r] > Len(subPlan)
          /\ RunGoto(r, "done")
          /\ UNCHANGED subIdx
       \/ /\ subUp /\ r \notin subStopped /\ subIdx[r] <= Len(subPlan)
          /\ IF subPlan[subIdx[r]].member /\ subPlan[subIdx[r]].jid \in subs
             THEN Skip(r)
             ELSE RunGoto(r, "reserve") /\ UNCHANGED subIdx
    /\ UNCHANGED <<subPlan, subConn, subUp, subServer, subs, memberSubs, subStopped, stopPtr, subChat>>

\* reserve(set, max) refuses a person who is in the set, and everyone when full.
Reservable(p, set, max) == p \notin set /\ Cardinality(set) < max

RunReserve(r) ==
    /\ subRun[r] = "reserve"
    /\ LET p == subPlan[subIdx[r]].jid IN
       IF subPlan[subIdx[r]].member
       THEN IF Reservable(p, memberSubs, MaxMembers)
            THEN memberSubs' = memberSubs \cup {p} /\ RunGoto(r, "ask") /\ UNCHANGED <<subs, subIdx>>
            ELSE Skip(r) /\ UNCHANGED <<subs, memberSubs>>
       ELSE IF Reservable(p, subs, MaxSubs)
            THEN subs' = subs \cup {p} /\ RunGoto(r, "ask") /\ UNCHANGED <<memberSubs, subIdx>>
            ELSE Skip(r) /\ UNCHANGED <<subs, memberSubs>>
    /\ UNCHANGED <<subPlan, subConn, subUp, subServer, subStopped, stopPtr, subChat>>

\* SubscribePresence goes out on whatever connection is up, or fails: without a
\* connection, with a cancelled context, or for a reason of WhatsApp's.
RunAsk(r) ==
    /\ subRun[r] = "ask"
    /\ \/ /\ subUp
          /\ subServer' = subServer \cup {subPlan[subIdx[r]].jid}
          /\ Skip(r)
       \/ /\ MayFail \/ ~subUp \/ r \in subStopped
          /\ RunGoto(r, "release")
          /\ UNCHANGED <<subServer, subIdx>>
    /\ UNCHANGED <<subPlan, subConn, subUp, subs, memberSubs, subStopped, stopPtr, subChat>>

RunRelease(r) ==
    /\ subRun[r] = "release"
    /\ IF subPlan[subIdx[r]].member
       THEN memberSubs' = memberSubs \ {subPlan[subIdx[r]].jid} /\ UNCHANGED subs
       ELSE subs' = subs \ {subPlan[subIdx[r]].jid} /\ UNCHANGED memberSubs
    /\ Skip(r)
    /\ UNCHANGED <<subPlan, subConn, subUp, subServer, subStopped, stopPtr, subChat>>

-----------------------------------------------------------------------------
(* subscribeChatPresence, for an incoming message of p.                     *)

ChatGoto(p, l) == subChat' = [subChat EXCEPT ![p] = l]

ChatLook(p) ==
    /\ subUp /\ subChat[p] = "none" /\ p \notin Own /\ p \notin memberSubs
    /\ ChatGoto(p, "reserve")
    /\ UNCHANGED <<subPlan, subConn, subUp, subServer, subs, memberSubs, subRun, subIdx, subStopped, stopPtr>>

ChatReserve(p) ==
    /\ subChat[p] = "reserve"
    /\ IF Reservable(p, subs, MaxSubs)
       THEN subs' = subs \cup {p} /\ ChatGoto(p, "ask")
       ELSE ChatGoto(p, "none") /\ UNCHANGED subs
    /\ UNCHANGED <<subPlan, subConn, subUp, subServer, memberSubs, subRun, subIdx, subStopped, stopPtr>>

ChatAsk(p) ==
    /\ subChat[p] = "ask"
    /\ \/ subUp /\ subServer' = subServer \cup {p} /\ ChatGoto(p, "none")
       \/ (MayFail \/ ~subUp) /\ ChatGoto(p, "release") /\ UNCHANGED subServer
    /\ UNCHANGED <<subPlan, subConn, subUp, subs, memberSubs, subRun, subIdx, subStopped, stopPtr>>

ChatRelease(p) ==
    /\ subChat[p] = "release"
    /\ subs' = subs \ {p}
    /\ ChatGoto(p, "none")
    /\ UNCHANGED <<subPlan, subConn, subUp, subServer, memberSubs, subRun, subIdx, subStopped, stopPtr>>

SubsNext ==
    \/ SubsConnect \/ SubsDrop
    \/ \E r \in SubRuns :
        \/ RunSwap(r) \/ RunReset(r) \/ RunResetMembers(r) \/ RunStep(r)
        \/ RunReserve(r) \/ RunAsk(r) \/ RunRelease(r)
    \/ \E p \in Persons : ChatLook(p) \/ ChatReserve(p) \/ ChatAsk(p) \/ ChatRelease(p)

SubsSpec == SubsInit /\ [][SubsNext]_subsVars

-----------------------------------------------------------------------------
(* Properties.                                                              *)

\* Somebody is about to ask for p or to give its reservation back.
SubBusy(p) ==
    \/ subChat[p] \in {"ask", "release"}
    \/ \E r \in SubRuns : subRun[r] \in {"ask", "release"} /\ subPlan[subIdx[r]].jid = p

\* Once the run of the live connection has reset the sets, a reservation that
\* nobody is working on stands for a subscription of this connection: a stale
\* one would keep the person from ever being asked for again.
ReservedIsSubscribed ==
    subUp /\ subConn > 0 /\ subRun[subConn] \in {"step", "reserve", "ask", "release", "done"}
        => \A p \in subs \cup memberSubs : p \in subServer \/ SubBusy(p)
=============================================================================
