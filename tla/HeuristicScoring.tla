-------------------------- MODULE HeuristicScoring --------------------------
(***************************************************************************)
(* The second matching pass in full: the two SQL queries that choose what  *)
(* it looks at, the score, and the strategy's threshold and gap rules      *)
(* (candidate.repository.ts, heuristic/score.ts, heuristic.strategy.ts).   *)
(* Verification abstracts all of it by HeuristicPass of Matching; here it  *)
(* is computed.  Scores of 0..1 are integers in units of 1/(100 * Grid),   *)
(* Grid a common multiple of the tolerances and windows used, so that      *)
(* every linear decay is exact.                                            *)
(***************************************************************************)
EXTENDS Matching, FiniteSets

CONSTANTS
    Orders,
    ProviderNames,
    Msisdns,         \* phone numbers of payers
    Candidates,      \* the rows a PENDING order without TrxID may have
    Messages,        \* the fields a parsed credit SMS may have
    SettingsUsed,    \* company settings
    RoundAmounts,    \* ROUND_AMOUNTS_PAISA
    CandidateCap,    \* HEURISTIC_CANDIDATE_CAP
    Grid

ASSUME GridAssumption == Grid \in Nat \ {0}

(* A company's settings for the pass: heuristic_window_minutes,            *)
(* require_sender_match and auto_verify_min_confidence, in hundredths.     *)
CompanySettings == [window : Nat, requireSender : BOOLEAN, threshold : 0 .. 100]
ASSUME SettingsAssumption == SettingsUsed \subseteq CompanySettings

(* Of an order, what the query compares and the score reads; times in      *)
(* minutes.                                                                *)
OrderFacts == [amount : Nat \ {0}, tolerance : Nat, created : Nat,
               provider : ProviderNames \cup {None}, sender : Msisdns \cup {None}]
ASSUME CandidatesAssumption == Candidates \subseteq OrderFacts

(* Of a message, the fields that a parsed credit has.                      *)
MessageFacts == [amount : Nat \ {0}, at : Int, provider : ProviderNames,
                 sender : Msisdns \cup {None}]
ASSUME MessagesAssumption == Messages \subseteq MessageFacts

(* Minutes: the slack both queries allow for clock skew.                   *)
Skew == 5
MinGap == 25 * Grid

VARIABLES
    orders,     \* [amount, tolerance, created, provider, sender] of each order
    sms,        \* [amount, at, provider, sender] of the message
    settings,   \* [window, requireSender, threshold]
    decision    \* of the pass on that message, None before it runs

vars == <<orders, sms, settings, decision>>

-----------------------------------------------------------------------------
Abs(n) == IF n < 0 THEN -n ELSE n
Clamp(n, hi) == IF n < 0 THEN 0 ELSE IF n > hi THEN hi ELSE n
Weight(yes, points) == IF yes THEN points * Grid ELSE 0

(* loadHeuristicCandidates: which orders a message is weighed against.     *)
InWindow(order, at, window) ==
    at \in order.created - Skew .. order.created + window

Considered(m, s) ==
    {o \in Orders :
        /\ Abs(orders[o].amount - m.amount) <= orders[o].tolerance
        /\ InWindow(orders[o], m.at, s.window)
        /\ orders[o].provider \in {None, m.provider}
        /\ s.requireSender => orders[o].sender # None /\ orders[o].sender = m.sender}

(* The reverse query: which messages a registration looks back at.         *)
ReverseWindow(order, at, window) ==
    at \in order.created - window .. order.created + Skew

ReverseLists(o) ==
    /\ Abs(sms.amount - orders[o].amount) <= orders[o].tolerance
    /\ ReverseWindow(orders[o], sms.at, settings.window)

-----------------------------------------------------------------------------
(* The score of order o among the candidates C                             *)

AmountSignal(order, m) ==
    LET diff == Abs(m.amount - order.amount)
    IN  IF diff = 0 THEN Grid
        ELSE IF order.tolerance = 0 THEN 0
        ELSE Clamp((Grid * (order.tolerance - diff)) \div order.tolerance, Grid)

SenderMatches(order, m) == order.sender # None /\ order.sender = m.sender

TimeSignal(order, m, window) ==
    LET age == IF m.at < order.created THEN 0 ELSE m.at - order.created
    IN  IF window = 0 THEN Weight(age = 0, 1)
        ELSE Clamp((Grid * (window - age)) \div window, Grid)

ProviderSignal(order, m) ==
    IF order.provider = None THEN Grid \div 2
    ELSE IF order.provider = m.provider THEN Grid ELSE 0

(* A rival could be the payee too: in tolerance, and not ruled out by a    *)
(* registered sender other than the message's.                             *)
Rivals(o, C, m) ==
    {p \in C \ {o} : /\ Abs(m.amount - orders[p].amount) <= orders[p].tolerance
                     /\ orders[p].sender = None \/ orders[p].sender = m.sender}

(* Mutant of Score: the collision penalty is forgotten.                    *)
ScoreWithoutCollision(o, C, m, window) ==
    Clamp(45 * AmountSignal(orders[o], m)
          + Weight(SenderMatches(orders[o], m), 30)
          + 15 * TimeSignal(orders[o], m, window)
          + 10 * ProviderSignal(orders[o], m)
          - Weight(m.amount \in RoundAmounts /\ C # {o}, 10),
          100 * Grid)

Score(o, C, m, window) ==
    Clamp(45 * AmountSignal(orders[o], m)
          + Weight(SenderMatches(orders[o], m), 30)
          + 15 * TimeSignal(orders[o], m, window)
          + 10 * ProviderSignal(orders[o], m)
          - Weight(Rivals(o, C, m) # {}, 30)
          - Weight(m.amount \in RoundAmounts /\ C # {o}, 10),
          100 * Grid)

-----------------------------------------------------------------------------
(* HeuristicStrategy.run on the candidates C.  Equal top scores have no    *)
(* gap, so which of them the sort puts first does not matter.              *)
ReviewOf(C) == {Review(o) : o \in {p \in C : C = {p}}}
                 \cup {Review(None) : o \in {p \in C : C # {p}}}

(* Mutant of Wins: the threshold alone decides, without the gap.           *)
WinsWithoutGap(o, C, m, s) == Score(o, C, m, s.window) >= s.threshold * Grid

Wins(o, C, m, s) ==
    /\ Score(o, C, m, s.window) >= s.threshold * Grid
    /\ \A p \in C \ {o} : Score(o, C, m, s.window) - Score(p, C, m, s.window) >= MinGap

Strategy(C, m, s) ==
    LET winners == {o \in C : Wins(o, C, m, s) /\ Cardinality(C) < CandidateCap}
    IN  IF C = {} THEN {Unmatched}
        ELSE IF winners = {} THEN ReviewOf(C)
        ELSE {Verified(o, "HEURISTIC_AMOUNT_WINDOW") : o \in winners}

-----------------------------------------------------------------------------
Init ==
    /\ orders \in [Orders -> Candidates]
    /\ sms \in Messages
    /\ settings \in SettingsUsed
    /\ decision = None

Run ==
    /\ decision = None
    /\ decision' \in Strategy(Considered(sms, settings), sms, settings)
    /\ UNCHANGED <<orders, sms, settings>>

Spec == Init /\ [][Run]_vars

-----------------------------------------------------------------------------
(* Properties                                                              *)

Decided == decision # None
VerifiedNow == IF Decided THEN {o \in Orders : decision = Verified(o, "HEURISTIC_AMOUNT_WINDOW")}
               ELSE {}

(* The pass has exactly one answer, and it is one that Verification's      *)
(* abstraction of it allows with the widest of the orders' tolerances: the *)
(* ledger model loses no behaviour of it.                                  *)
AbstractionSound ==
    LET answer == Strategy(Considered(sms, settings), sms, settings)
        rows == [o \in Orders |-> [status |-> "PENDING", trx |-> None, amount |-> orders[o].amount]]
    IN  /\ \E d \in answer : answer = {d}
        /\ \A widest \in {orders[o].tolerance : o \in Orders} :
              (\A o \in Orders : orders[o].tolerance <= widest) =>
                  answer \subseteq HeuristicPass(sms, rows, widest)

(* Above the threshold 0.70 an order is never verified while another one   *)
(* considered could be the payee: ambiguity goes to a human.               *)
CollisionIsReviewed ==
    \A o \in VerifiedNow :
        settings.threshold > 70 =>
            \A p \in Considered(sms, settings) \ {o} :
                orders[p].sender \notin {None, sms.sender}

(* "A register can therefore return VERIFIED for a customer who paid before*)
(* submitting": a message the reverse query lists for an order is weighed  *)
(* against that order.                                                     *)
PaidBeforeSubmittingIsWeighed ==
    \A o \in Orders :
        /\ Decided /\ ReverseLists(o)
        /\ orders[o].provider \in {None, sms.provider}
        /\ ~settings.requireSender
        => decision # Unmatched
=============================================================================
