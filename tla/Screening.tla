----------------------------- MODULE Screening -----------------------------
(***************************************************************************)
(* The screen an agent puts a destination through before it signs a payment  *)
(* (intercepta-screen.mjs, screen.mjs): one call to the scoring service,     *)
(* external, and a verdict on its answer and the amount.  Amounts and scores *)
(* are any numbers: an amount counts parts of a millionth, of which a cap is *)
(* a whole number.  A trait is known by its class.                          *)
(***************************************************************************)
EXTENDS Integers

CONSTANTS
    Scores, Amounts,                    \* the scores and amounts asked about
    RefuseScore, AskScore, CapScore,    \* policy: thresholds
    AskAbove, CapAmount, CapPercent,    \* policy, not checked: NoNumber is null
    Millionth,                          \* the parts of a millionth
    NoNumber

Classes == {"critical", "caution", "plain"}

ASSUME ScreeningAssumption ==
    /\ Scores \subseteq Int /\ Amounts \subseteq Int /\ NoNumber \notin Int
    /\ RefuseScore \in Int /\ AskScore \in Int /\ CapScore \in Int /\ CapPercent \in Int
    /\ AskAbove \in Int \union {NoNumber} /\ CapAmount \in Int \union {NoNumber}
    /\ Millionth \in Nat \ {0}

VARIABLES
    asked,      \* [at, amount]: the payment about to be signed
    screen,     \* [ok, score, traits]
    decision    \* [verdict, capTo]

screeningVars == <<asked, screen, decision>>

NoScreen == [ok |-> FALSE, score |-> NoNumber, traits |-> {}]
Undecided == [verdict |-> "none", capTo |-> NoNumber]

ScreeningInit ==
    /\ asked = [at |-> "idle", amount |-> NoNumber]
    /\ screen = NoScreen
    /\ decision = Undecided
----------------------------------------------------------------------------
\* Math.round: to the nearest, a half upwards
Rounded(n, d) == (2 * n + d) \div (2 * d)

\* resolveCap, a share rounded to the nearest millionth
ResolveCap(amount) ==
    IF CapAmount # NoNumber THEN CapAmount
    ELSE IF amount = NoNumber THEN NoNumber
    ELSE Rounded(amount * CapPercent, 100 * Millionth) * Millionth

\* a score that is not a number counts as 0
ScoreOf(s) == IF s.score = NoNumber THEN 0 ELSE s.score

Exceeds(amount) == AskAbove # NoNumber /\ amount # NoNumber /\ amount > AskAbove

\* mutant: the amount gate comes before the refusals
VerdictByAmountFirst(s, amount) ==
    CASE ~s.ok \/ Exceeds(amount) -> "ask-human"
      [] "critical" \in s.traits \/ ScoreOf(s) >= RefuseScore -> "refuse"
      [] ScoreOf(s) >= AskScore -> "ask-human"
      [] ScoreOf(s) >= CapScore \/ "caution" \in s.traits -> "cap"
      [] OTHER -> "pay"
\* decideVerdict
VerdictOn(s, amount) ==
    IF ~s.ok THEN "ask-human"
    ELSE IF "critical" \in s.traits \/ ScoreOf(s) >= RefuseScore THEN "refuse"
    ELSE IF Exceeds(amount) \/ ScoreOf(s) >= AskScore THEN "ask-human"
    ELSE IF ScoreOf(s) >= CapScore \/ "caution" \in s.traits THEN "cap"
    ELSE "pay"

Decide(s, amount) ==
    LET verdict == VerdictOn(s, amount)
    IN  /\ screen' = s
        /\ decision' = [verdict |-> verdict,
                        capTo |-> IF verdict = "cap" THEN ResolveCap(amount) ELSE NoNumber]

\* screenDestination calls the service for a well-formed address only
AsksScreen(amount) ==
    /\ asked.at = "idle"
    /\ \/ asked' = [at |-> "called", amount |-> amount] /\ UNCHANGED <<screen, decision>>
       \/ asked' = [at |-> "decided", amount |-> amount] /\ Decide(NoScreen, amount)

\* 200 and an object: the score may be no number, the traits no array
Screened(score, traits) ==
    /\ asked.at = "called"
    /\ asked' = [asked EXCEPT !.at = "decided"]
    /\ Decide([ok |-> TRUE, score |-> score, traits |-> traits], asked.amount)

\* another status, another body, the timeout, no network
ScreenFails ==
    /\ asked.at = "called"
    /\ asked' = [asked EXCEPT !.at = "decided"]
    /\ Decide(NoScreen, asked.amount)

NextPayment ==
    /\ asked.at = "decided"
    /\ asked' = [at |-> "idle", amount |-> NoNumber]
    /\ screen' = NoScreen /\ decision' = Undecided

ScreeningNext ==
    \/ \E amount \in Amounts \union {NoNumber} : AsksScreen(amount)
    \/ \E score \in Scores \union {NoNumber}, traits \in SUBSET Classes : Screened(score, traits)
    \/ ScreenFails
    \/ NextPayment

ScreeningSpec == ScreeningInit /\ [][ScreeningNext]_screeningVars
----------------------------------------------------------------------------
Verdicts == {"pay", "cap", "ask-human", "refuse"}
Strictness == [v \in Verdicts |->
    CASE v = "pay" -> 0 [] v = "cap" -> 1 [] v = "ask-human" -> 2 [] v = "refuse" -> 3]

Screens == [ok : BOOLEAN, score : Scores \union {NoNumber}, traits : SUBSET Classes]
Payable == Amounts \union {NoNumber}

ScreeningTypeOK ==
    /\ asked \in [at : {"idle", "called", "decided"}, amount : Payable]
    /\ screen \in Screens
    /\ decision.verdict \in Verdicts \union {"none"} /\ decision.capTo \in Int \union {NoNumber}

Riskier(s, r) == s.ok /\ s.score # NoNumber /\ r.score # NoNumber /\ s.score >= r.score
                      /\ r.traits \subseteq s.traits
AtLeast(b, a) == a = b \/ (a # NoNumber /\ b # NoNumber /\ b >= a)

(***************************************************************************)
(* A riskier destination or a larger amount never gets a laxer verdict, for  *)
(* any thresholds; a payment is signed only on the service's own answer; and *)
(* a share of at most the whole exceeds its amount by half a millionth at    *)
(* most, which the rounding can.                                            *)
(***************************************************************************)
RiskNeverRelaxes ==
    /\ ScreeningTypeOK
    /\ asked.at = "decided" =>
        /\ screen.ok => \A s \in Screens, b \in Payable :
              Riskier(s, screen) /\ AtLeast(b, asked.amount)
                  => Strictness[VerdictOn(s, b)] >= Strictness[decision.verdict]
        /\ decision.verdict \in {"pay", "cap"} => screen.ok
        /\ decision.verdict = "cap" /\ CapAmount = NoNumber /\ CapPercent \in 0 .. 100
                /\ asked.amount # NoNumber /\ asked.amount >= 0
              => 2 * decision.capTo <= 2 * asked.amount + Millionth
=============================================================================
