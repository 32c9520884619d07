----------------------------- MODULE Launchpad -----------------------------
(***************************************************************************)
(* The launchpad page on a live origin, with agents the consent server      *)
(* knows (web/demo/app.js): the screens, the authority the human gives an   *)
(* agent, and the callbacks of network calls and timers, which outlive the  *)
(* screen that started them.                                                *)
(*                                                                         *)
(* One run of attemptLive is a flow: wait for the health gate, open a       *)
(* session, mint a device code, poll it, verify the token.  Every flow has  *)
(* one callback under way, so it is one record.  The session a flow opens,  *)
(* the device code it mints, that code's token and the consent of that      *)
(* session all bear the flow's number; 0 is none.  A 0 ms timer is part of  *)
(* the navigation that set it.                                              *)
(***************************************************************************)
EXTENDS Integers, FiniteSets

CONSTANTS Agents, NoAgent,
          MaxFlows          \* bound: attempts to go live in a behaviour

ASSUME LaunchpadAssumption == NoAgent \notin Agents /\ MaxFlows \in Nat \ {0}

Flows == 1 .. MaxFlows
Numbers == 0 .. MaxFlows

VARIABLES
    screen, card,   \* S.screen, S.agentId
    active,         \* S.authority.active
    reason,         \* S.revoke.reason
    output,         \* the agent whose work is in S.utilityOutput
    wire,           \* S.wire
    box,            \* #qrbox: what it shows, and the flow its button resumes
    flows,          \* the attempts to go live
    online, probes, \* WIRE.online, and the health probes under way
    worker,         \* the agent of the timer utilityTimer names
    orphans,        \* the agents of work timers utilityTimer names no more
    ticking,        \* countdownTimer
    redeemed        \* the device codes the identity provider has given a token for

page == <<screen, card, active, reason, output>>
timers == <<worker, orphans, ticking>>
gate == <<online, probes>>
launchpadVars == <<page, wire, box, flows, gate, timers, redeemed>>

Screens == {"shelf", "detail", "consent", "world", "binding", "blessed", "utility", "standdown"}
Reasons == {"none", "stop", "declined", "expired", "signin-timeout"}

FreshWire == [session |-> 0, device |-> 0, tried |-> FALSE, token |-> 0, dead |-> FALSE, consent |-> 0]
Wires == [session : Numbers, device : Numbers, tried : BOOLEAN, token : Numbers,
          dead : BOOLEAN, consent : Numbers]

Box(shows, f) == [shows |-> shows, flow |-> f]
NoBox == Box("nothing", 0)
Boxes == [shows : {"nothing", "pending", "qr", "lapsed", "retryBegin", "retryDevice"}, flow : Numbers]

\* code: the device code of the poll under way; session, token, scoped: the body of the verify
Flow(place, agent) == [at |-> place, agent |-> agent, reprobed |-> FALSE, code |-> 0,
                       session |-> 0, token |-> 0, scoped |-> FALSE]
FlowRecords == [at : {"unused", "gate", "begin", "device", "delay", "poll", "try", "verify", "over"},
                agent : Agents \union {NoAgent}, reprobed : BOOLEAN, code : Numbers,
                session : Numbers, token : Numbers, scoped : BOOLEAN]

LaunchpadTypeOK ==
    /\ screen \in Screens /\ card \in Agents \union {NoAgent} /\ active \in BOOLEAN
    /\ reason \in Reasons /\ output \in Agents \union {NoAgent}
    /\ wire \in Wires /\ box \in Boxes /\ flows \in [Flows -> FlowRecords]
    /\ online \in {"unknown", "yes", "no"} /\ probes \in Nat
    /\ worker \in Agents \union {NoAgent} /\ orphans \subseteq Agents /\ ticking \in BOOLEAN
    /\ redeemed \subseteq Flows

\* boot: the probe is sent, or not when the navigator says it is offline
LaunchpadInit ==
    /\ screen = "shelf" /\ card = NoAgent /\ active = FALSE /\ reason = "none" /\ output = NoAgent
    /\ wire = FreshWire /\ box = NoBox
    /\ flows = [f \in Flows |-> Flow("unused", NoAgent)]
    /\ \/ online = "unknown" /\ probes = 1
       \/ online = "no" /\ probes = 0
    /\ worker = NoAgent /\ orphans = {} /\ ticking = FALSE
    /\ redeemed = {}
----------------------------------------------------------------------------
At(f, place) == flows[f].at = place
FlowGoes(f, place) == flows' = [flows EXCEPT ![f].at = place]
Over(f) == Flow("over", flows[f].agent)
FlowEnds(f) == flows' = [flows EXCEPT ![f] = Over(f)]

\* the screens whose callbacks of the device flow are not dropped
Asking == screen \in {"consent", "world"}

\* #qrbox is there on the consent screen only
Shows(shows, f) == box' = IF screen = "consent" THEN Box(shows, f) ELSE box

\* a waiter of the gate hears of a failed probe, the navigator being up or not
RearmsIn(fs, f, navigatorUp) == fs[f].at = "gate" /\ ~fs[f].reprobed /\ navigatorUp

\* mutant: the waiter is armed again and no probe is sent
SetOnlineWithoutProbe(fs, sent, verdict, navigatorUp) ==
    LET rearmed == {f \in Flows : ~verdict /\ RearmsIn(fs, f, navigatorUp)}
    IN  /\ online' = IF rearmed # {} THEN "unknown" ELSE IF verdict THEN "yes" ELSE "no"
        /\ probes' = probes - sent
        /\ flows' = [f \in Flows |->
              CASE fs[f].at # "gate" -> fs[f]
                [] fs[f].at = "gate" /\ verdict -> [fs[f] EXCEPT !.at = "begin"]
                [] f \in rearmed -> [fs[f] EXCEPT !.reprobed = TRUE]
                [] OTHER -> Flow("over", fs[f].agent)]
\* setOnline: every waiter resumes, in the flows fs, when a probe (sent = 1) or a begin
\* (sent = 0) has given a verdict; the first time it is bad a waiter probes again
SetOnline(fs, sent, verdict, navigatorUp) ==
    LET rearmed == {f \in Flows : ~verdict /\ RearmsIn(fs, f, navigatorUp)}
    IN  /\ online' = IF rearmed # {} THEN "unknown" ELSE IF verdict THEN "yes" ELSE "no"
        /\ probes' = probes - sent + Cardinality(rearmed)
        /\ flows' = [f \in Flows |->
              CASE fs[f].at # "gate" -> fs[f]
                [] fs[f].at = "gate" /\ verdict -> [fs[f] EXCEPT !.at = "begin"]
                [] f \in rearmed -> [fs[f] EXCEPT !.reprobed = TRUE]
                [] OTHER -> Flow("over", fs[f].agent)]

\* the answer of /healthz (or its timeout); a waiter it fails shows its retry card
ProbeAnswered ==
    /\ probes > 0
    /\ \E verdict, navigatorUp \in BOOLEAN :
        /\ SetOnline(flows, 1, verdict, navigatorUp)
        /\ LET failed == {f \in Flows : At(f, "gate") /\ ~verdict /\ ~RearmsIn(flows, f, navigatorUp)}
           IN  IF failed = {} THEN UNCHANGED box ELSE \E f \in failed : Shows("retryBegin", f)
    /\ UNCHANGED <<page, wire, timers, redeemed>>

\* attemptLive: wireBegin for an agent, on the consent screen
AttemptLive(f, agent) ==
    /\ At(f, "unused") /\ \A g \in 1 .. f - 1 : ~At(g, "unused")
    /\ \/ /\ online = "unknown"
          /\ flows' = [flows EXCEPT ![f] = Flow("gate", agent)]
          /\ box' = Box("pending", 0) /\ UNCHANGED gate
       \/ /\ online = "yes"
          /\ flows' = [flows EXCEPT ![f] = Flow("begin", agent)]
          /\ box' = Box("pending", 0) /\ UNCHANGED gate
       \/ /\ online = "no"
          /\ flows' = [flows EXCEPT ![f] = [Flow("gate", agent) EXCEPT !.reprobed = TRUE]]
          /\ box' = Box("pending", 0)
          /\ online' = "unknown" /\ probes' = probes + 1
       \/ /\ online = "no"      \* the navigator is offline
          /\ flows' = [flows EXCEPT ![f] = Flow("over", agent)]
          /\ box' = Box("retryBegin", f) /\ UNCHANGED gate
----------------------------------------------------------------------------
\* mutant: entering the utility screen stops the countdown and nothing starts it again
GoStoppingCountdown(next) ==
    /\ screen' = next
    /\ ticking' = (next = "blessed")
    /\ worker' = IF next = "utility" THEN worker ELSE NoAgent
    /\ UNCHANGED orphans
\* go: the blessed and the utility screen run the countdown, leaving utility stops the timer
Go(next) ==
    /\ screen' = next
    /\ ticking' = (next \in {"blessed", "utility"})
    /\ worker' = IF next = "utility" THEN worker ELSE NoAgent
    /\ UNCHANGED orphans

Leaves(next) == Go(next) /\ box' = NoBox /\ UNCHANGED <<gate, flows, redeemed>>

\* viewConsent: a fresh wire and a new attempt
EnterConsent(f) == Go("consent") /\ wire' = FreshWire /\ AttemptLive(f, card)

\* resetAgent and a clean shelf: the header button, the close rows, a restore from bfcache
ResetAgent ==
    /\ Leaves("shelf")
    /\ card' = NoAgent /\ active' = FALSE /\ reason' = "none" /\ output' = NoAgent
    /\ wire' = FreshWire

Open(agent) ==
    /\ screen = "shelf"
    /\ card' = agent /\ Leaves("detail")
    /\ UNCHANGED <<active, reason, output, wire>>

Hire(f) ==
    /\ screen = "detail"
    /\ EnterConsent(f)
    /\ UNCHANGED <<card, active, reason, output, redeemed>>

BackToShelf ==
    /\ screen \in {"detail", "consent"}
    /\ Leaves("shelf")
    /\ UNCHANGED <<card, active, reason, output, wire>>

OpenPhone ==
    /\ screen = "consent"
    /\ Leaves("world")
    /\ UNCHANGED <<card, active, reason, output, wire>>

BackToConsent(f) ==
    /\ screen = "world"
    /\ EnterConsent(f)
    /\ UNCHANGED <<card, active, reason, output, redeemed>>

\* the retry card of a begin: attemptLive of the card's own flow, on the same wire
RetryBegin(f) ==
    /\ screen = "consent" /\ box.shows = "retryBegin"
    /\ AttemptLive(f, flows[box.flow].agent)
    /\ UNCHANGED <<page, wire, timers, redeemed>>

\* the retry card of a device code: deviceTried is cleared and wireDevice sets it again
RetryDevice ==
    /\ screen = "consent" /\ box.shows = "retryDevice"
    /\ FlowGoes(box.flow, "device")
    /\ wire' = [wire EXCEPT !.tried = TRUE]
    /\ box' = Box("pending", 0)
    /\ UNCHANGED <<page, gate, timers, redeemed>>
----------------------------------------------------------------------------
\* Approve on the mirrored phone: authority is active at once, whatever the wire says
Approve ==
    /\ screen = "world"
    /\ active' = TRUE /\ Leaves("binding")
    /\ UNCHANGED <<card, reason, output, wire>>

\* viewStandDown: a stop and an expiry end the authority.  The revoke a stop sends for the consent
\* the wire holds, and the denial Deny sends for its session, go to the server; the page keeps
\* nothing of their answers.
StandDown(why) ==
    /\ Leaves("standdown")
    /\ reason' = why
    /\ active' = IF why \in {"stop", "expired"} THEN FALSE ELSE active
    /\ UNCHANGED <<card, output, wire>>

Deny == screen = "world" /\ StandDown("declined")

SeeTimeoutPath == screen = "consent" /\ StandDown("signin-timeout")

\* The button works when the chain legs have settled, at least 3.2 s on: a work timer left behind
\* runs 0.9 s, so it has fired
SeeBlessed ==
    /\ screen = "binding" /\ orphans = {}
    /\ Leaves("blessed")
    /\ UNCHANGED <<card, active, reason, output, wire>>

PutToWork ==
    /\ screen = "blessed"
    /\ Leaves("utility")
    /\ UNCHANGED <<card, active, reason, output, wire>>

\* Stop, typed or tapped
Stop == screen \in {"blessed", "utility"} /\ StandDown("stop")

\* the tick of the countdown that finds no time left
Expire == ticking /\ StandDown("expired")

AskAgain(f) ==
    /\ screen = "standdown" /\ reason \in {"expired", "signin-timeout"}
    /\ reason' = "none"
    /\ EnterConsent(f)
    /\ UNCHANGED <<card, active, output, redeemed>>

\* mutant: no timer counts as one
RunningUnchecked(agent) == {agent}
\* the timer utilityTimer names, if any
Running(agent) == {agent} \ {NoAgent}

\* runUtility: a second tap forgets the id of the first timer, which still runs
RunUtility ==
    /\ screen = "utility"
    /\ IF active
         THEN /\ worker' = card
              /\ orphans' = orphans \union Running(worker)
              /\ UNCHANGED <<page, wire, box, flows, gate, ticking, redeemed>>
         ELSE StandDown("stop")

\* mutant: the work is not checked again when it is done
MayDeliverUnchecked == TRUE
\* the check of the work timer
MayDeliver == screen = "utility" /\ active

\* The work timer fires: the one utilityTimer names or an older one
WorkDone(agent) ==
    /\ agent \in orphans \union Running(worker)
    /\ \/ /\ agent \in orphans      \* forgets the newer one too
          /\ orphans' = (orphans \ {agent}) \union Running(worker)
       \/ /\ agent = worker
          /\ UNCHANGED orphans
    /\ worker' = NoAgent
    /\ output' = IF MayDeliver THEN agent ELSE output
    /\ UNCHANGED <<screen, card, active, reason, wire, box, flows, gate, ticking, redeemed>>
----------------------------------------------------------------------------
\* a session is open: kept on the consent screen only, whatever card it now shows.  Then
\* wireDevice asks for a code, once per wire record.
BeginAnswered(f) ==
    /\ At(f, "begin")
    /\ IF screen = "consent"
         THEN /\ wire' = [wire EXCEPT !.session = f, !.tried = TRUE]
              /\ IF wire.tried THEN FlowEnds(f) ELSE FlowGoes(f, "device")
         ELSE FlowEnds(f) /\ UNCHANGED wire
    /\ UNCHANGED <<page, box, gate, timers, redeemed>>

\* refused, lost or late: live wiring goes off, and the consent screen shows a retry card
BeginFails(f) ==
    /\ At(f, "begin")
    /\ \E navigatorUp \in BOOLEAN :
           SetOnline([flows EXCEPT ![f] = Over(f)], 0, FALSE, navigatorUp)
    /\ Shows("retryBegin", f)
    /\ UNCHANGED <<page, wire, timers, redeemed>>

\* the wire has a code that is still worth a poll
Watched == wire.device # 0 /\ wire.token = 0 /\ ~wire.dead

\* wireDevice's answer: the code goes to the wire of the moment, its QR is drawn, and pollDevice
\* starts unless that wire has a token or a dead code
DeviceAnswered(f) ==
    /\ At(f, "device")
    /\ IF Asking
         THEN /\ wire' = [wire EXCEPT !.device = f]
              /\ Shows("qr", f)
              /\ IF wire.token # 0 \/ wire.dead THEN FlowEnds(f) ELSE FlowGoes(f, "delay")
         ELSE FlowEnds(f) /\ UNCHANGED <<wire, box>>
    /\ UNCHANGED <<page, gate, timers, redeemed>>

\* mutant: the failure is not shown
DeviceFailsSilently(f) ==
    /\ At(f, "device")
    /\ FlowEnds(f)
    /\ UNCHANGED <<box, page, wire, gate, timers, redeemed>>
DeviceFails(f) ==
    /\ At(f, "device")
    /\ FlowEnds(f)
    /\ Shows("retryDevice", f)
    /\ UNCHANGED <<page, wire, gate, timers, redeemed>>

\* the delay of a poll is over; it asks for the code the wire has now
PollSent(f) ==
    /\ At(f, "delay")
    /\ IF Watched
         THEN flows' = [flows EXCEPT ![f].at = "poll", ![f].code = wire.device]
         ELSE FlowEnds(f)
    /\ UNCHANGED <<page, wire, box, gate, timers, redeemed>>

\* authorization_pending or slow_down: the next tick, which gives the code up off these screens
PollPending(f) ==
    /\ At(f, "poll")
    /\ IF Watched /\ Asking THEN FlowGoes(f, "delay") ELSE FlowEnds(f)
    /\ wire' = IF Watched /\ ~Asking THEN [wire EXCEPT !.dead = TRUE] ELSE wire
    /\ UNCHANGED <<page, box, gate, timers, redeemed>>

\* The human approved, and the code gives its token, once: it goes to the wire of the moment, and
\* the body of the verify is built at once, with whatever session that wire has
PollToken(f) ==
    /\ At(f, "poll") /\ flows[f].code \notin redeemed
    /\ redeemed' = redeemed \union {flows[f].code}
    /\ wire' = [wire EXCEPT !.token = flows[f].code]
    /\ flows' = [flows EXCEPT ![f] = [@ EXCEPT !.at = "try", !.token = flows[f].code,
                                               !.session = wire.session, !.scoped = TRUE]]
    /\ UNCHANGED <<page, box, gate, timers>>

\* any other answer and none at all are terminal; a token may have been issued in vain
PollFails(f) ==
    /\ At(f, "poll")
    /\ wire' = [wire EXCEPT !.dead = TRUE]
    /\ Shows("lapsed", f)
    /\ FlowEnds(f)
    /\ redeemed' \in {redeemed, redeemed \union {flows[f].code}}
    /\ UNCHANGED <<page, gate, timers>>

\* tryVerify: eight tries of 500 ms for the wire to have a session, then nothing
TryVerify(f) ==
    /\ At(f, "try")
    /\ \/ wire.session # 0 /\ FlowGoes(f, "verify")
       \/ wire.session = 0 /\ FlowEnds(f)
    /\ UNCHANGED <<page, wire, box, gate, timers, redeemed>>

\* what the server asks of the body; whether it mints is also up to the token and its own state
Mintable(f) == flows[f].session # 0 /\ flows[flows[f].session].agent = flows[f].agent

\* onVerified: the consent and its receipt token go to the wire of the moment; the page
\* keeps nothing of claimPoolSlot
VerifyMints(f) ==
    /\ At(f, "verify") /\ Mintable(f)
    /\ wire' = [wire EXCEPT !.consent = flows[f].session]
    /\ FlowEnds(f)
    /\ UNCHANGED <<page, box, gate, timers, redeemed>>

\* scope_not_allowed burns no token: the same body once more, with no scope
VerifyScopeRefused(f) ==
    /\ At(f, "verify") /\ flows[f].scoped /\ Mintable(f)
    /\ flows' = [flows EXCEPT ![f].scoped = FALSE]
    /\ UNCHANGED <<page, wire, box, gate, timers, redeemed>>

\* refused, lost, or answered too late although the consent was minted
VerifyFails(f) ==
    /\ At(f, "verify")
    /\ FlowEnds(f)
    /\ UNCHANGED <<page, wire, box, gate, timers, redeemed>>
----------------------------------------------------------------------------
Answered(f) ==
    \/ BeginAnswered(f) \/ BeginFails(f) \/ DeviceAnswered(f) \/ DeviceFails(f)
    \/ PollSent(f) \/ PollPending(f) \/ PollToken(f) \/ PollFails(f) \/ TryVerify(f)
    \/ VerifyMints(f) \/ VerifyScopeRefused(f) \/ VerifyFails(f)

LaunchpadNext ==
    \/ \E agent \in Agents : Open(agent) \/ WorkDone(agent)
    \/ BackToShelf \/ OpenPhone \/ Approve \/ Deny \/ SeeTimeoutPath \/ SeeBlessed
    \/ PutToWork \/ RunUtility \/ Stop \/ Expire \/ ResetAgent \/ RetryDevice \/ ProbeAnswered
    \/ \E f \in Flows : \/ Hire(f) \/ BackToConsent(f) \/ AskAgain(f) \/ RetryBegin(f)
                        \/ Answered(f)

\* Every call is answered or times out (wireFetch, proxyFetch) and timers fire; the human owes
\* the page nothing
LaunchpadSpec ==
    /\ LaunchpadInit /\ [][LaunchpadNext]_launchpadVars
    /\ WF_launchpadVars(ProbeAnswered) /\ WF_launchpadVars(Expire)
    /\ \A f \in Flows : WF_launchpadVars(Answered(f))
----------------------------------------------------------------------------
\* Nobody waits for the health gate in vain: when the verdict is out, or someone waits, a probe is
\* under way, through failed probes, second probes and begins that trip the gate again (383-429).
GateIsProbed == online = "unknown" \/ (\E f \in Flows : At(f, "gate")) => probes > 0

\* Work is delivered under a live authority, to the human who blessed that agent: no timer that a
\* stop, an expiry or a second tap left behind delivers anything, then or to a later blessing.
WorkIsBlessed == [][output' # output /\ output' # NoAgent =>
                       active /\ screen = "utility" /\ output' = card]_launchpadVars

\* Time-boxed: a blessing in use ends even when the human never says stop (1135-1146), on
\* whichever of the two screens the human stays.
BlessingEnds == active /\ screen \in {"blessed", "utility"} ~> ~active

\* The consent screen never stays on "checking": it comes to a QR or a card that says why not,
\* whatever the gate, the begin and the device call did, on time or late.
ConsentScreenAnswers == box.shows = "pending" ~> box.shows # "pending"

\* Comment at 907: a previous card's session and QR never leak into this card's chips.
ChipsAreTheCards ==
    screen = "consent" => \A f \in {wire.session, wire.device} \cap Flows : flows[f].agent = card
=============================================================================
