-------------------------- MODULE LaunchpadProofs --------------------------
(***************************************************************************)
(* Proofs about the launchpad page, for any agents and any number of        *)
(* attempts to go live.  The page's own state (screens, authority, timers)  *)
(* and the state of the flows have an inductive invariant each: a callback  *)
(* of a flow changes nothing of the first, and a navigation touches the     *)
(* second only to start a flow.                                             *)
(***************************************************************************)
EXTENDS Launchpad, TLAPS, FiniteSetTheorems

AgentOrNone == Agents \union {NoAgent}
Places == {"unused", "gate", "begin", "device", "delay", "poll", "try", "verify", "over"}

\* The page: a work timer utilityTimer names is the one of the agent on the utility screen, and so
\* are the older ones while that screen is there; none is left when a blessing is shown.
PageTyped ==
    /\ screen \in Screens /\ card \in AgentOrNone /\ active \in BOOLEAN
    /\ reason \in Reasons /\ output \in AgentOrNone
    /\ worker \in AgentOrNone /\ orphans \subseteq Agents /\ ticking \in BOOLEAN
TimersOfCard ==
    /\ worker # NoAgent => screen = "utility" /\ worker = card
    /\ screen = "utility" => orphans \subseteq {card}
    /\ screen = "blessed" => orphans = {}
PageInv == PageTyped /\ TimersOfCard

\* The flows: a retry card names a flow, a poll asks for a code, the gate is probed
FlowsTyped == flows \in [Flows -> FlowRecords]
FlowsInv ==
    /\ wire \in Wires /\ box \in Boxes /\ FlowsTyped
    /\ online \in {"unknown", "yes", "no"} /\ probes \in Nat
    /\ redeemed \subseteq Flows
    /\ box.shows \in {"retryBegin", "retryDevice"} => box.flow \in Flows
    /\ \A f \in Flows : At(f, "poll") => flows[f].code \in Flows
    /\ GateIsProbed

LaunchpadInv == PageInv /\ FlowsInv

LEMMA FlowsAreNumbers == Flows \subseteq Numbers /\ 0 \in Numbers /\ 0 \notin Flows
  BY LaunchpadAssumption DEF Flows, Numbers

LEMMA NumbersAreFlows == \A n \in Numbers : n # 0 => n \in Flows
  BY LaunchpadAssumption DEF Flows, Numbers

(***************************************************************************)
(* The page: one step per action that navigates or runs a timer.            *)
(***************************************************************************)
LEMMA GoKeepsPage ==
    ASSUME PageInv, NEW next \in Screens, Go(next),
           next = "utility" => screen = "blessed", next = "blessed" => orphans = {}
    PROVE  /\ screen' \in Screens /\ worker' \in AgentOrNone /\ orphans' \subseteq Agents
           /\ ticking' \in BOOLEAN
           /\ card' \in AgentOrNone /\ (next = "utility" => card' = card) => TimersOfCard'
  BY DEF PageInv, PageTyped, TimersOfCard, Go, AgentOrNone

LEMMA StandDownKeepsPage ==
    ASSUME PageInv, NEW why \in Reasons, StandDown(why)
    PROVE  PageInv'
  <1>1. "standdown" \in Screens
    BY DEF Screens
  <1>2. Go("standdown")
    BY DEF StandDown, Leaves
  <1>3. card' \in AgentOrNone /\ active' \in BOOLEAN /\ reason' \in Reasons /\ output' \in AgentOrNone
    BY DEF StandDown, PageInv, PageTyped
  <1> QED
    BY <1>1, <1>2, <1>3, GoKeepsPage DEF PageInv, PageTyped

LEMMA PageStep ==
    ASSUME PageInv, LaunchpadNext
    PROVE  PageInv'
  <1> USE DEF PageInv
  <1>s. /\ {"shelf", "detail", "consent", "world", "binding", "blessed", "utility"} \subseteq Screens
        /\ {"none", "stop", "declined", "expired", "signin-timeout"} \subseteq Reasons
    BY DEF Screens, Reasons
  <1>1. ASSUME NEW agent \in Agents, Open(agent) PROVE PageInv'
    <2>1. Go("detail") /\ card' \in AgentOrNone
      BY <1>1 DEF Open, Leaves, AgentOrNone
    <2> QED
      BY <1>1, <1>s, <2>1, GoKeepsPage DEF Open, PageTyped
  <1>2. ASSUME NEW agent \in Agents, WorkDone(agent) PROVE PageInv'
    BY <1>2 DEF WorkDone, Running, PageTyped, TimersOfCard, AgentOrNone
  <1>3. CASE BackToShelf
    <2>1. Go("shelf")
      BY <1>3 DEF BackToShelf, Leaves
    <2> QED
      BY <1>3, <1>s, <2>1, GoKeepsPage DEF BackToShelf, PageTyped
  <1>4. CASE OpenPhone
    <2>1. Go("world")
      BY <1>4 DEF OpenPhone, Leaves
    <2> QED
      BY <1>4, <1>s, <2>1, GoKeepsPage DEF OpenPhone, PageTyped
  <1>5. CASE Approve
    <2>1. Go("binding")
      BY <1>5 DEF Approve, Leaves
    <2> QED
      BY <1>5, <1>s, <2>1, GoKeepsPage DEF Approve, PageTyped
  <1>6. CASE Deny
    BY <1>6, <1>s, StandDownKeepsPage DEF Deny
  <1>7. CASE SeeTimeoutPath
    BY <1>7, <1>s, StandDownKeepsPage DEF SeeTimeoutPath
  <1>8. CASE SeeBlessed
    <2>1. Go("blessed") /\ orphans = {}
      BY <1>8 DEF SeeBlessed, Leaves
    <2> QED
      BY <1>8, <1>s, <2>1, GoKeepsPage DEF SeeBlessed, PageTyped
  <1>9. CASE PutToWork
    <2>1. Go("utility") /\ screen = "blessed"
      BY <1>9 DEF PutToWork, Leaves
    <2> QED
      BY <1>9, <1>s, <2>1, GoKeepsPage DEF PutToWork, PageTyped
  <1>10. CASE RunUtility
    <2>1. CASE active
      <3>1. card \in Agents \/ card = NoAgent
        BY DEF PageTyped, AgentOrNone
      <3> QED
        BY <1>10, <2>1, <3>1 DEF RunUtility, Running, page, PageTyped, TimersOfCard, AgentOrNone
    <2>2. CASE ~active
      BY <1>10, <2>2, <1>s, StandDownKeepsPage DEF RunUtility
    <2> QED
      BY <2>1, <2>2
  <1>11. CASE Stop
    BY <1>11, <1>s, StandDownKeepsPage DEF Stop
  <1>12. CASE Expire
    BY <1>12, <1>s, StandDownKeepsPage DEF Expire
  <1>13. CASE ResetAgent
    <2>1. Go("shelf") /\ card' \in AgentOrNone
      BY <1>13 DEF ResetAgent, Leaves, AgentOrNone
    <2> QED
      BY <1>13, <1>s, <2>1, GoKeepsPage DEF ResetAgent, PageTyped, AgentOrNone
  <1>14. ASSUME NEW f \in Flows, Hire(f) \/ BackToConsent(f) \/ AskAgain(f) PROVE PageInv'
    <2>1. Go("consent") /\ card' = card /\ active' = active /\ output' = output
          /\ reason' \in {reason, "none"}
      BY <1>14 DEF Hire, BackToConsent, AskAgain, EnterConsent
    <2> QED
      BY <1>s, <2>1, GoKeepsPage DEF PageTyped
  <1>15. ASSUME UNCHANGED page, UNCHANGED timers PROVE PageInv'
    BY <1>15 DEF page, timers, PageTyped, TimersOfCard
  <1>16. CASE RetryDevice
    BY <1>15, <1>16 DEF RetryDevice
  <1>17. CASE ProbeAnswered
    BY <1>15, <1>17 DEF ProbeAnswered
  <1>18. ASSUME NEW f \in Flows, RetryBegin(f) PROVE PageInv'
    BY <1>15, <1>18 DEF RetryBegin
  <1>19. ASSUME NEW f \in Flows, Answered(f) PROVE PageInv'
    BY <1>15, <1>19
       DEF Answered, BeginAnswered, BeginFails, DeviceAnswered, DeviceFails, PollSent, PollPending,
           PollToken, PollFails, TryVerify, VerifyMints, VerifyScopeRefused, VerifyFails
  <1> QED
    BY <1>1, <1>2, <1>3, <1>4, <1>5, <1>6, <1>7, <1>8, <1>9, <1>10, <1>11, <1>12, <1>13, <1>14,
       <1>16, <1>17, <1>18, <1>19
       DEF LaunchpadNext

(***************************************************************************)
(* The flows.  What FlowGoes, FlowEnds and a new flow do to the records.    *)
(***************************************************************************)
LEMMA FlowTyped ==
    ASSUME NEW place \in Places, NEW agent \in AgentOrNone
    PROVE  Flow(place, agent) \in FlowRecords /\ Flow(place, agent).at = place
  BY FlowsAreNumbers DEF Flow, FlowRecords, Places, AgentOrNone

LEMMA GoesTyped ==
    ASSUME FlowsTyped, NEW f \in Flows, NEW place \in Places, FlowGoes(f, place)
    PROVE  /\ FlowsTyped'
           /\ \A g \in Flows : g # f => flows'[g] = flows[g]
           /\ flows'[f].at = place /\ flows'[f].code = flows[f].code
  BY DEF FlowsTyped, FlowGoes, FlowRecords, Places

LEMMA OverTyped ==
    ASSUME FlowsTyped, NEW f \in Flows
    PROVE  Over(f) \in FlowRecords /\ Over(f).at = "over"
  <1>1. flows[f].agent \in AgentOrNone /\ "over" \in Places
    BY DEF FlowsTyped, FlowRecords, AgentOrNone, Places
  <1> QED
    BY <1>1, FlowTyped DEF Over

\* A flow that takes a record of its own leaves the others alone
LEMMA UpdateTyped ==
    ASSUME FlowsTyped, NEW f \in Flows, NEW r \in FlowRecords,
           flows' = [flows EXCEPT ![f] = r]
    PROVE  /\ FlowsTyped'
           /\ \A g \in Flows : g # f => flows'[g] = flows[g]
           /\ flows'[f] = r
  BY DEF FlowsTyped

\* When a flow changes and the gate does not, the gate is still probed unless the flow waits at it
LEMMA GateStaysProbed ==
    ASSUME FlowsInv, NEW f \in Flows, FlowsTyped', UNCHANGED gate,
           \A g \in Flows : g # f => flows'[g] = flows[g],
           flows'[f].at # "gate" \/ online = "unknown"
    PROVE  GateIsProbed'
  BY DEF FlowsInv, GateIsProbed, At, gate

\* The part of the invariant that names the flows, after one flow moved to a place that is no poll
LEMMA PollsStay ==
    ASSUME FlowsInv, NEW f \in Flows, flows'[f].at # "poll",
           \A g \in Flows : g # f => flows'[g] = flows[g]
    PROVE  \A g \in Flows : At(g, "poll")' => flows'[g].code \in Flows
  BY DEF FlowsInv, At

(***************************************************************************)
(* setOnline: if a waiter is armed again a probe goes out with it, and if   *)
(* none is, nobody waits and the verdict is known.                          *)
(***************************************************************************)
LEMMA SetOnlineProbes ==
    ASSUME NEW fs \in [Flows -> FlowRecords], NEW sent \in {0, 1}, probes \in Nat, sent <= probes,
           NEW verdict \in BOOLEAN, NEW navigatorUp \in BOOLEAN,
           SetOnline(fs, sent, verdict, navigatorUp)
    PROVE  /\ online' \in {"unknown", "yes", "no"} /\ probes' \in Nat
           /\ FlowsTyped' /\ GateIsProbed'
           /\ \A f \in Flows : At(f, "poll")' => flows'[f] = fs[f]
  <1> DEFINE rearmed == {f \in Flows : ~verdict /\ RearmsIn(fs, f, navigatorUp)}
  <1>1. IsFiniteSet(rearmed)
    <2>1. IsFiniteSet(Flows)
      BY FS_Interval, LaunchpadAssumption DEF Flows
    <2> QED
      BY <2>1, FS_Subset
  <1>2. Cardinality(rearmed) \in Nat /\ (Cardinality(rearmed) = 0 <=> rearmed = {})
    BY <1>1, FS_CardinalityType, FS_EmptySet
  <1>3. /\ online' = IF rearmed # {} THEN "unknown" ELSE IF verdict THEN "yes" ELSE "no"
        /\ probes' = probes - sent + Cardinality(rearmed)
    BY DEF SetOnline
  <1>4. \A f \in Flows : flows'[f] =
              CASE fs[f].at # "gate" -> fs[f]
                [] fs[f].at = "gate" /\ verdict -> [fs[f] EXCEPT !.at = "begin"]
                [] f \in rearmed -> [fs[f] EXCEPT !.reprobed = TRUE]
                [] OTHER -> Flow("over", fs[f].agent)
    BY DEF SetOnline
  <1>5. ASSUME NEW f \in Flows
        PROVE  /\ flows'[f] \in FlowRecords
               /\ flows'[f].at = "gate" => f \in rearmed
               /\ flows'[f].at = "poll" => flows'[f] = fs[f]
    <2>1. fs[f] \in FlowRecords /\ fs[f].agent \in AgentOrNone
      BY DEF FlowRecords, AgentOrNone
    <2>2. CASE fs[f].at # "gate"
      <3>1. flows'[f] = fs[f]
        BY <1>4, <2>2 DEF RearmsIn
      <3> QED
        BY <2>1, <2>2, <3>1
    <2>3. CASE fs[f].at = "gate" /\ verdict
      <3>1. flows'[f] = [fs[f] EXCEPT !.at = "begin"]
        BY <1>4, <2>3 DEF RearmsIn
      <3> QED
        BY <2>1, <3>1 DEF FlowRecords
    <2>4. CASE fs[f].at = "gate" /\ ~verdict /\ f \in rearmed
      <3>1. flows'[f] = [fs[f] EXCEPT !.reprobed = TRUE]
        BY <1>4, <2>4
      <3> QED
        BY <2>1, <2>4, <3>1 DEF FlowRecords
    <2>5. CASE fs[f].at = "gate" /\ ~verdict /\ f \notin rearmed
      <3>1. flows'[f] = Flow("over", fs[f].agent)
        BY <1>4, <2>5
      <3>2. "over" \in Places
        BY DEF Places
      <3> QED
        BY <2>1, <3>1, <3>2, FlowTyped
    <2> QED
      BY <2>2, <2>3, <2>4, <2>5
  <1>6. FlowsTyped'
    BY <1>5 DEF FlowsTyped, SetOnline
  <1>7. probes' \in Nat /\ (rearmed # {} => probes' > 0)
    BY <1>2, <1>3
  <1>8. GateIsProbed'
    BY <1>3, <1>5, <1>7 DEF GateIsProbed, At
  <1> HIDE DEF rearmed
  <1> QED
    BY <1>3, <1>5, <1>6, <1>7, <1>8 DEF At

(***************************************************************************)
(* A new attempt, on the consent screen.                                    *)
(***************************************************************************)
LEMMA AttemptKeepsFlows ==
    ASSUME FlowsInv, NEW f \in Flows, NEW agent \in AgentOrNone, AttemptLive(f, agent),
           wire' \in Wires, redeemed' \subseteq Flows
    PROVE  FlowsInv'
  <1>1. "gate" \in Places /\ "begin" \in Places /\ "over" \in Places
    BY DEF Places
  <1>2. PICK r \in FlowRecords :
           /\ flows' = [flows EXCEPT ![f] = r]
           /\ r.at # "poll"
           /\ online' \in {"unknown", "yes", "no"}
           /\ UNCHANGED gate \/ (probes' = probes + 1 /\ online' = "unknown")
           /\ r.at = "gate" /\ UNCHANGED gate => online = "unknown"
           /\ box' \in {Box("pending", 0), Box("retryBegin", f)}
    <2>1. CASE online = "unknown"
      BY <1>1, <2>1, FlowTyped DEF AttemptLive, gate, FlowsInv
    <2>2. CASE online = "yes"
      BY <1>1, <2>2, FlowTyped DEF AttemptLive, gate, FlowsInv
    <2>3. CASE /\ online = "no"
               /\ flows' = [flows EXCEPT ![f] = [Flow("gate", agent) EXCEPT !.reprobed = TRUE]]
               /\ box' = Box("pending", 0)
               /\ online' = "unknown" /\ probes' = probes + 1
      <3> DEFINE waiter == [Flow("gate", agent) EXCEPT !.reprobed = TRUE]
      <3>1. Flow("gate", agent) \in FlowRecords /\ Flow("gate", agent).at = "gate"
        BY <1>1, FlowTyped
      <3>2. waiter \in FlowRecords /\ waiter.at = "gate"
        BY <3>1 DEF FlowRecords
      <3> HIDE DEF waiter
      <3>3. flows' = [flows EXCEPT ![f] = waiter]
        BY <2>3 DEF waiter
      <3> QED
        BY <2>3, <3>2, <3>3 DEF gate
    <2>4. CASE /\ online = "no"
               /\ flows' = [flows EXCEPT ![f] = Flow("over", agent)]
               /\ box' = Box("retryBegin", f) /\ UNCHANGED gate
      BY <1>1, <2>4, FlowTyped DEF FlowsInv, gate
    <2> QED
      BY <2>1, <2>2, <2>3, <2>4 DEF AttemptLive, FlowsInv
  <1>3. /\ FlowsTyped' /\ flows'[f] = r
        /\ \A g \in Flows : g # f => flows'[g] = flows[g]
    BY <1>2, UpdateTyped DEF FlowsInv
  <1>4. \A g \in Flows : At(g, "poll")' => flows'[g].code \in Flows
    BY <1>2, <1>3, PollsStay
  <1>5. GateIsProbed' /\ probes' \in Nat
    <2>1. CASE UNCHANGED gate
      BY <1>2, <1>3, <2>1, GateStaysProbed DEF gate, FlowsInv
    <2>2. CASE probes' = probes + 1
      BY <2>2 DEF FlowsInv, GateIsProbed
    <2> QED
      BY <1>2, <2>1, <2>2
  <1>6. box' \in Boxes /\ (box'.shows \in {"retryBegin", "retryDevice"} => box'.flow \in Flows)
    BY <1>2, FlowsAreNumbers DEF Box, Boxes
  <1> QED
    BY <1>2, <1>3, <1>4, <1>5, <1>6 DEF FlowsInv

(***************************************************************************)
(* A flow that moves on, or ends, with the gate as it was.                  *)
(***************************************************************************)
LEMMA MoveKeepsFlows ==
    ASSUME FlowsInv, NEW f \in Flows, FlowsTyped', UNCHANGED gate,
           \A g \in Flows : g # f => flows'[g] = flows[g],
           flows'[f].at \notin {"gate", "poll"},
           wire' \in Wires, redeemed' \subseteq Flows, box' \in Boxes,
           box'.shows \in {"retryBegin", "retryDevice"} => box'.flow \in Flows
    PROVE  FlowsInv'
  <1>1. GateIsProbed'
    BY GateStaysProbed
  <1>2. \A g \in Flows : At(g, "poll")' => flows'[g].code \in Flows
    BY PollsStay
  <1> QED
    BY <1>1, <1>2 DEF FlowsInv, gate

\* A flow goes to another place, or ends
LEMMA FlowMoves ==
    ASSUME FlowsTyped, NEW f \in Flows, NEW place \in Places \ {"gate", "poll"},
           FlowGoes(f, place) \/ FlowEnds(f)
    PROVE  /\ FlowsTyped' /\ flows'[f].at \notin {"gate", "poll"}
           /\ \A g \in Flows : g # f => flows'[g] = flows[g]
  <1>1. CASE FlowGoes(f, place)
    BY <1>1, GoesTyped
  <1>2. CASE FlowEnds(f)
    <2>1. Over(f) \in FlowRecords /\ Over(f).at = "over"
      BY OverTyped
    <2> QED
      BY <1>2, <2>1, UpdateTyped DEF FlowEnds
  <1> QED
    BY <1>1, <1>2

\* What the QR box shows after a callback of a flow
LEMMA ShowsTyped ==
    ASSUME FlowsInv, NEW f \in Flows,
           NEW shows \in {"nothing", "pending", "qr", "lapsed", "retryBegin", "retryDevice"},
           Shows(shows, f) \/ UNCHANGED box
    PROVE  /\ box' \in Boxes
           /\ box'.shows \in {"retryBegin", "retryDevice"} => box'.flow \in Flows
  BY FlowsAreNumbers DEF Shows, Box, Boxes, FlowsInv

LEMMA WireTyped ==
    ASSUME wire \in Wires, NEW n \in Numbers
    PROVE  /\ [wire EXCEPT !.session = n, !.tried = TRUE] \in Wires
           /\ [wire EXCEPT !.device = n] \in Wires
           /\ [wire EXCEPT !.token = n] \in Wires
           /\ [wire EXCEPT !.consent = n] \in Wires
           /\ [wire EXCEPT !.dead = TRUE] \in Wires
           /\ [wire EXCEPT !.tried = TRUE] \in Wires
           /\ FreshWire \in Wires
  BY FlowsAreNumbers DEF Wires, FreshWire

LEMMA FlowsStep ==
    ASSUME PageInv, FlowsInv, LaunchpadNext
    PROVE  FlowsInv'
  <1>w. wire \in Wires /\ FlowsTyped /\ redeemed \subseteq Flows /\ FreshWire \in Wires
    BY WireTyped, FlowsAreNumbers DEF FlowsInv
  <1>p. {"begin", "device", "delay", "poll", "try", "verify", "over"} \subseteq Places
    BY DEF Places
  <1>n. wire.device \in Numbers /\ wire.session \in Numbers
    BY <1>w DEF Wires
  <1>0. ASSUME UNCHANGED <<flows, gate, redeemed>>, wire' \in Wires, box' = box \/ box' = NoBox
        PROVE  FlowsInv'
    BY <1>0, FlowsAreNumbers
       DEF FlowsInv, FlowsTyped, GateIsProbed, At, gate, NoBox, Box, Boxes
  <1>1. ASSUME NEW next, Leaves(next), wire' \in Wires
        PROVE  FlowsInv'
    BY <1>0, <1>1 DEF Leaves
  <1>2. ASSUME NEW why, StandDown(why)
        PROVE  FlowsInv'
    BY <1>1, <1>2, <1>w DEF StandDown
  <1>3. ASSUME NEW agent \in Agents, Open(agent) \/ WorkDone(agent)
        PROVE  FlowsInv'
    BY <1>0, <1>1, <1>3, <1>w DEF Open, WorkDone
  <1>4. CASE BackToShelf \/ OpenPhone \/ Approve \/ SeeBlessed \/ PutToWork \/ ResetAgent
    BY <1>1, <1>4, <1>w DEF BackToShelf, OpenPhone, Approve, SeeBlessed, PutToWork, ResetAgent
  <1>5. CASE Deny \/ SeeTimeoutPath \/ Stop \/ Expire
    BY <1>2, <1>5 DEF Deny, SeeTimeoutPath, Stop, Expire
  <1>6. CASE RunUtility
    BY <1>0, <1>2, <1>6, <1>w DEF RunUtility
  <1>7. CASE RetryDevice
    <2>1. box.flow \in Flows /\ wire' \in Wires /\ FlowGoes(box.flow, "device")
          /\ UNCHANGED <<gate, redeemed>>
      BY <1>7, <1>w, WireTyped, FlowsAreNumbers DEF RetryDevice, FlowsInv
    <2>2. box' \in Boxes /\ box'.shows = "pending"
      BY <1>7, FlowsAreNumbers DEF RetryDevice, Box, Boxes
    <2> QED
      BY <1>p, <1>w, <2>1, <2>2, FlowMoves, MoveKeepsFlows
  <1>8. CASE ProbeAnswered
    <2>1. PICK verdict \in BOOLEAN, navigatorUp \in BOOLEAN :
             /\ probes > 0 /\ SetOnline(flows, 1, verdict, navigatorUp)
             /\ \/ UNCHANGED box
                \/ \E f \in Flows : Shows("retryBegin", f)
             /\ UNCHANGED <<wire, redeemed>>
      BY <1>8 DEF ProbeAnswered
    <2>2. /\ online' \in {"unknown", "yes", "no"} /\ probes' \in Nat
          /\ FlowsTyped' /\ GateIsProbed'
          /\ \A f \in Flows : At(f, "poll")' => flows'[f] = flows[f]
      <3>1. 1 <= probes /\ probes \in Nat /\ flows \in [Flows -> FlowRecords]
        BY <2>1 DEF FlowsInv, FlowsTyped
      <3> QED
        BY <2>1, <3>1, SetOnlineProbes
    <2>3. \A f \in Flows : At(f, "poll")' => flows'[f].code \in Flows
      BY <2>2 DEF At, FlowsInv
    <2>4. box' \in Boxes /\ (box'.shows \in {"retryBegin", "retryDevice"} => box'.flow \in Flows)
      BY <2>1, FlowsAreNumbers DEF Shows, Box, Boxes, FlowsInv
    <2> QED
      BY <1>w, <2>1, <2>2, <2>3, <2>4 DEF FlowsInv
  <1>9. ASSUME NEW f \in Flows, Hire(f) \/ BackToConsent(f) \/ AskAgain(f)
        PROVE  FlowsInv'
    <2>1. wire' = FreshWire /\ AttemptLive(f, card) /\ UNCHANGED redeemed
      BY <1>9 DEF Hire, BackToConsent, AskAgain, EnterConsent
    <2>2. card \in AgentOrNone
      BY DEF PageInv, PageTyped
    <2> QED
      BY <1>w, <2>1, <2>2, AttemptKeepsFlows
  <1>10. ASSUME NEW f \in Flows, RetryBegin(f)
         PROVE  FlowsInv'
    <2>1. box.flow \in Flows
      BY <1>10 DEF RetryBegin, FlowsInv
    <2>2. flows[box.flow].agent \in AgentOrNone
      BY <1>w, <2>1 DEF FlowsTyped, FlowRecords, AgentOrNone
    <2> QED
      BY <1>10, <1>w, <2>2, AttemptKeepsFlows DEF RetryBegin
  <1>11. ASSUME NEW f \in Flows, Answered(f)
         PROVE  FlowsInv'
    <2>m. ASSUME NEW place \in Places \ {"gate", "poll"}, FlowGoes(f, place) \/ FlowEnds(f),
                 UNCHANGED gate, wire' \in Wires, redeemed' \subseteq Flows,
                 NEW shows \in {"qr", "lapsed", "retryDevice"}, Shows(shows, f) \/ UNCHANGED box
          PROVE  FlowsInv'
      BY <1>w, <2>m, FlowMoves, ShowsTyped, MoveKeepsFlows
    <2>f. f \in Numbers
      BY FlowsAreNumbers
    <2>1. CASE BeginAnswered(f)
      <3>1. wire' \in Wires
        BY <1>w, <2>1, <2>f, WireTyped DEF BeginAnswered
      <3> QED
        BY <1>p, <1>w, <2>1, <2>m, <3>1 DEF BeginAnswered
    <2>2. CASE BeginFails(f)
      <3> DEFINE fs == [flows EXCEPT ![f] = Over(f)]
      <3>1. PICK navigatorUp \in BOOLEAN : SetOnline(fs, 0, FALSE, navigatorUp)
        BY <2>2 DEF BeginFails
      <3>2. Shows("retryBegin", f) /\ UNCHANGED <<wire, redeemed>>
        BY <2>2 DEF BeginFails
      <3>3. fs \in [Flows -> FlowRecords] /\ fs[f].at = "over"
            /\ \A g \in Flows : g # f => fs[g] = flows[g]
        BY <1>w, OverTyped DEF FlowsTyped
      <3> HIDE DEF fs
      <3>4. 0 <= probes /\ probes \in Nat
        BY DEF FlowsInv
      <3>5. /\ online' \in {"unknown", "yes", "no"} /\ probes' \in Nat
            /\ FlowsTyped' /\ GateIsProbed'
            /\ \A g \in Flows : At(g, "poll")' => flows'[g] = fs[g]
        BY <3>1, <3>3, <3>4, SetOnlineProbes
      <3>6. \A g \in Flows : At(g, "poll")' => flows'[g].code \in Flows
        BY <3>3, <3>5 DEF At, FlowsInv
      <3>7. box' \in Boxes /\ (box'.shows \in {"retryBegin", "retryDevice"} => box'.flow \in Flows)
        BY <3>2, ShowsTyped
      <3> QED
        BY <1>w, <3>2, <3>5, <3>6, <3>7 DEF FlowsInv
    <2>3. CASE DeviceAnswered(f)
      <3>1. wire' \in Wires
        BY <1>w, <2>3, <2>f, WireTyped DEF DeviceAnswered
      <3> QED
        BY <1>p, <1>w, <2>3, <2>m, <3>1 DEF DeviceAnswered
    <2>4. CASE DeviceFails(f)
      BY <1>p, <1>w, <2>4, <2>m DEF DeviceFails
    <2>5. CASE PollSent(f)
      <3>1. CASE Watched
        <4> DEFINE asked == [[flows[f] EXCEPT !.at = "poll"] EXCEPT !.code = wire.device]
        <4>1. wire.device \in Flows
          BY <1>n, <3>1, NumbersAreFlows DEF Watched
        <4>2. flows[f] \in FlowRecords
          BY <1>w DEF FlowsTyped
        <4>3. asked \in FlowRecords /\ asked.at = "poll" /\ asked.code \in Flows
          BY <1>n, <4>1, <4>2 DEF FlowRecords
        <4>4. flows' = [flows EXCEPT ![f] = asked] /\ UNCHANGED <<wire, box, gate, redeemed>>
          BY <1>w, <2>5, <3>1 DEF PollSent, FlowsTyped
        <4> HIDE DEF asked
        <4>5. /\ FlowsTyped' /\ flows'[f] = asked
              /\ \A g \in Flows : g # f => flows'[g] = flows[g]
          BY <1>w, <4>3, <4>4, UpdateTyped
        <4>6. GateIsProbed'
          BY <4>3, <4>4, <4>5, GateStaysProbed
        <4> QED
          BY <4>3, <4>4, <4>5, <4>6 DEF FlowsInv, At, gate
      <3>2. CASE ~Watched
        BY <1>p, <1>w, <2>5, <2>m, <3>2 DEF PollSent
      <3> QED
        BY <3>1, <3>2
    <2>6. CASE PollPending(f)
      <3>1. wire' \in Wires
        BY <1>w, <2>6, WireTyped, FlowsAreNumbers DEF PollPending
      <3> QED
        BY <1>p, <1>w, <2>6, <2>m, <3>1 DEF PollPending
    <2>7. CASE PollToken(f)
      <3>1. flows[f].code \in Flows /\ flows[f] \in FlowRecords
        BY <1>w, <2>7 DEF PollToken, FlowsInv, FlowsTyped
      <3> DEFINE body == [flows[f] EXCEPT !.at = "try", !.token = flows[f].code,
                                          !.session = wire.session, !.scoped = TRUE]
      <3>2. body \in FlowRecords /\ body.at = "try"
        BY <1>n, <3>1, FlowsAreNumbers DEF FlowRecords
      <3>3. flows' = [flows EXCEPT ![f] = body] /\ UNCHANGED <<box, gate>>
        BY <1>w, <2>7 DEF PollToken, FlowsTyped
      <3> HIDE DEF body
      <3>4. /\ FlowsTyped' /\ flows'[f] = body
            /\ \A g \in Flows : g # f => flows'[g] = flows[g]
        BY <1>w, <3>2, <3>3, UpdateTyped
      <3>5. wire' \in Wires /\ redeemed' \subseteq Flows
        BY <1>w, <2>7, <3>1, WireTyped, FlowsAreNumbers DEF PollToken
      <3> QED
        BY <3>2, <3>3, <3>4, <3>5, ShowsTyped, MoveKeepsFlows
    <2>8. CASE PollFails(f)
      <3>1. flows[f].code \in Flows
        BY <2>8 DEF PollFails, FlowsInv
      <3>2. wire' \in Wires /\ redeemed' \subseteq Flows
        BY <1>w, <2>8, <3>1, WireTyped, FlowsAreNumbers DEF PollFails
      <3> QED
        BY <1>p, <2>8, <2>m, <3>2 DEF PollFails
    <2>9. CASE TryVerify(f)
      BY <1>p, <1>w, <2>9, <2>m DEF TryVerify
    <2>10. CASE VerifyMints(f)
      <3>1. flows[f].session \in Numbers
        BY <1>w DEF FlowsTyped, FlowRecords
      <3>2. wire' \in Wires
        BY <1>w, <2>10, <3>1, WireTyped DEF VerifyMints
      <3> QED
        BY <1>p, <1>w, <2>10, <2>m, <3>2 DEF VerifyMints
    <2>11. CASE VerifyScopeRefused(f)
      <3> DEFINE again == [flows[f] EXCEPT !.scoped = FALSE]
      <3>1. again \in FlowRecords /\ again.at = "verify"
        BY <1>w, <2>11 DEF FlowsTyped, FlowRecords, VerifyScopeRefused, At
      <3>2. flows' = [flows EXCEPT ![f] = again] /\ UNCHANGED <<wire, box, gate, redeemed>>
        BY <1>w, <2>11 DEF VerifyScopeRefused, FlowsTyped
      <3> HIDE DEF again
      <3>3. /\ FlowsTyped' /\ flows'[f] = again
            /\ \A g \in Flows : g # f => flows'[g] = flows[g]
        BY <1>w, <3>1, <3>2, UpdateTyped
      <3> QED
        BY <1>w, <3>1, <3>2, <3>3, ShowsTyped, MoveKeepsFlows
    <2>12. CASE VerifyFails(f)
      BY <1>p, <1>w, <2>12, <2>m DEF VerifyFails
    <2> QED
      BY <1>11, <2>1, <2>2, <2>3, <2>4, <2>5, <2>6, <2>7, <2>8, <2>9, <2>10, <2>11, <2>12
         DEF Answered
  <1> QED
    BY <1>3, <1>4, <1>5, <1>6, <1>7, <1>8, <1>9, <1>10, <1>11 DEF LaunchpadNext

(***************************************************************************)
(* Both invariants hold of every behaviour.                                 *)
(***************************************************************************)
LEMMA InitInv == LaunchpadInit => LaunchpadInv
  <1> SUFFICES ASSUME LaunchpadInit PROVE LaunchpadInv
    OBVIOUS
  <1>1. PageInv
    BY DEF LaunchpadInit, PageInv, PageTyped, TimersOfCard, Screens, Reasons, AgentOrNone
  <1>2. wire \in Wires /\ box \in Boxes /\ box.shows = "nothing"
    BY FlowsAreNumbers DEF LaunchpadInit, Wires, FreshWire, NoBox, Box, Boxes
  <1>3. FlowsTyped /\ \A f \in Flows : flows[f].at = "unused"
    <2>1. Flow("unused", NoAgent) \in FlowRecords /\ Flow("unused", NoAgent).at = "unused"
      BY FlowTyped DEF Places, AgentOrNone
    <2> QED
      BY <2>1 DEF LaunchpadInit, FlowsTyped
  <1>4. GateIsProbed
    BY <1>3 DEF LaunchpadInit, GateIsProbed, At
  <1> QED
    BY <1>1, <1>2, <1>3, <1>4 DEF LaunchpadInit, LaunchpadInv, FlowsInv, At

LEMMA StepInv == LaunchpadInv /\ [LaunchpadNext]_launchpadVars => LaunchpadInv'
  <1> SUFFICES ASSUME LaunchpadInv, [LaunchpadNext]_launchpadVars PROVE LaunchpadInv'
    OBVIOUS
  <1>1. CASE LaunchpadNext
    BY <1>1, PageStep, FlowsStep DEF LaunchpadInv
  <1>2. CASE UNCHANGED launchpadVars
    BY <1>2 DEF launchpadVars, page, timers, gate, LaunchpadInv, PageInv, PageTyped, TimersOfCard,
                FlowsInv, FlowsTyped, GateIsProbed, At
  <1> QED
    BY <1>1, <1>2

\* The page, the wire and the flows keep their types (580, 559-579).
THEOREM LaunchpadTyped == LaunchpadSpec => []LaunchpadTypeOK
  <1>1. LaunchpadInv => LaunchpadTypeOK
    BY DEF LaunchpadInv, PageInv, PageTyped, FlowsInv, FlowsTyped, LaunchpadTypeOK, AgentOrNone
  <1> QED
    BY <1>1, InitInv, StepInv, PTL DEF LaunchpadSpec

\* Nobody waits for the health gate in vain, for any number of attempts (383-429).
THEOREM GateAlwaysProbed == LaunchpadSpec => []GateIsProbed
  <1>1. LaunchpadInv => GateIsProbed
    BY DEF LaunchpadInv, FlowsInv
  <1> QED
    BY <1>1, InitInv, StepInv, PTL DEF LaunchpadSpec

LEMMA WorkStep ==
    ASSUME LaunchpadInv, LaunchpadNext, output' # output, output' # NoAgent
    PROVE  active /\ screen = "utility" /\ output' = card
  <1>1. ASSUME NEW agent \in Agents, WorkDone(agent)
        PROVE  active /\ screen = "utility" /\ output' = card
    BY <1>1 DEF WorkDone, MayDeliver, Running, LaunchpadInv, PageInv, TimersOfCard
  <1>2. ASSUME output' = output \/ output' = NoAgent
        PROVE  FALSE
    BY <1>2
  <1>3. ASSUME NEW f \in Flows, Answered(f)
        PROVE  UNCHANGED output
    BY <1>3
       DEF Answered, BeginAnswered, BeginFails, DeviceAnswered, DeviceFails, PollSent, PollPending,
           PollToken, PollFails, TryVerify, VerifyMints, VerifyScopeRefused, VerifyFails, page
  <1>4. ASSUME NEW f \in Flows, Hire(f) \/ BackToConsent(f) \/ AskAgain(f) \/ RetryBegin(f)
        PROVE  UNCHANGED output
    BY <1>4 DEF Hire, BackToConsent, AskAgain, RetryBegin, page
  <1>5. ASSUME BackToShelf \/ OpenPhone \/ Approve \/ Deny \/ SeeTimeoutPath \/ SeeBlessed
               \/ PutToWork \/ RunUtility \/ Stop \/ Expire \/ RetryDevice \/ ProbeAnswered
        PROVE  UNCHANGED output
    BY <1>5 DEF BackToShelf, OpenPhone, Approve, Deny, SeeTimeoutPath, SeeBlessed, PutToWork,
                RunUtility, Stop, Expire, RetryDevice, ProbeAnswered, StandDown, page
  <1>6. ASSUME ResetAgent
        PROVE  output' = NoAgent
    BY <1>6 DEF ResetAgent
  <1>7. ASSUME NEW agent \in Agents, Open(agent)
        PROVE  UNCHANGED output
    BY <1>7 DEF Open
  <1> QED
    BY <1>1, <1>2, <1>3, <1>4, <1>5, <1>6, <1>7 DEF LaunchpadNext

\* Work is delivered only under a live authority, to the one who blessed that agent (1291-1302).
THEOREM WorkAlwaysBlessed == LaunchpadSpec => WorkIsBlessed
  <1>1. LaunchpadInv /\ [LaunchpadNext]_launchpadVars =>
           [output' # output /\ output' # NoAgent =>
               active /\ screen = "utility" /\ output' = card]_launchpadVars
    BY WorkStep
  <1> QED
    BY <1>1, InitInv, StepInv, PTL DEF LaunchpadSpec, WorkIsBlessed
=============================================================================
