------------------------------- MODULE RateLimit -------------------------------
(***************************************************************************)
(* RateLimitGuard: a sliding window in Redis, for one subject of one       *)
(* route.  The commands of a check are one MULTI; what differs between the *)
(* API processes is their clock.                                           *)
(***************************************************************************)
EXTENDS Integers, FiniteSets

CONSTANTS
    Points,         \* options.points
    Window,         \* options.windowSec
    Skews,          \* by how much the clock of a process is fast
    FailModes,      \* values of options.failClosed
    Horizon,        \* bound: the clock
    MaxCalls        \* bound: entries of one score

ASSUME RateLimitAssumption ==
    /\ Points \in Nat \ {0} /\ Window \in Nat \ {0}
    /\ Skews \subseteq Nat /\ \E s \in Skews : \A x \in Skews : x <= s
    /\ FailModes \subseteq BOOLEAN
    /\ Horizon \in Nat /\ MaxCalls \in Nat

VARIABLES
    failClosed, \* options.failClosed of the route
    clock,
    hits,       \* the sorted set
    expiry,     \* when the sorted set expires
    admitted,   \* history: requests admitted of late, by their count
    unguarded   \* history: a request was admitted without a count

limitVars == <<failClosed, clock, hits, expiry, admitted, unguarded>>

-----------------------------------------------------------------------------
Instants == 0 .. Horizon
MaxSkew == CHOOSE s \in Skews : \A x \in Skews : x <= s

(* An entry of the sorted set has a score and is told from all others (the *)
(* guard adds a UUID): here, since entries of a score go together, by how  *)
(* many of its score there were.                                           *)
Entries == [score : 0 .. Horizon + MaxSkew, nth : 0 .. MaxCalls]
Scored(entries, score) == {e \in entries : e.score = score}

LimitInit ==
    /\ failClosed \in FailModes
    /\ clock = 0
    /\ hits = {}
    /\ expiry = 0
    /\ admitted = {}
    /\ unguarded = FALSE

(* The sorted set as the check leaves it: entries that have left the       *)
(* window are removed, this one is added.                                  *)
Kept(now) == {e \in hits : e.score > now - Window /\ clock < expiry}
Hit(now) == [score |-> now, nth |-> Cardinality(Scored(Kept(now), now))]
Recorded(now) == Kept(now) \cup {Hit(now)}

(* Mutant of Exceeds: the request itself is not counted.                   *)
ExceedsBefore(entries) == Cardinality(entries) - 1 > Points

Exceeds(entries) == Cardinality(entries) > Points

Record(now) ==
    /\ Hit(now).nth < MaxCalls
    /\ hits' = Recorded(now)
    /\ expiry' = clock + Window

(* canActivate, by a process whose clock is fast by skew.                  *)
Check(skew) ==
    /\ Record(clock + skew)
    /\ admitted' = IF Exceeds(hits') THEN admitted
                   ELSE admitted \cup {[entry |-> Hit(clock + skew), at |-> clock]}
    /\ UNCHANGED <<failClosed, clock, unguarded>>

(* Redis does not answer, or its answer is lost: a route that fails closed *)
(* refuses the request, the others admit it.                               *)
CheckFails(skew) ==
    /\ Record(clock + skew) \/ UNCHANGED <<hits, expiry>>
    /\ unguarded' = (unguarded \/ ~failClosed)
    /\ UNCHANGED <<failClosed, clock, admitted>>

(* Requests admitted in the window that ends now and is shorter by the     *)
(* difference of the clocks.                                               *)
Lately == {e \in admitted : e.at > clock - (Window - MaxSkew)}

LimitTick ==
    /\ clock < Horizon /\ clock' = clock + 1
    /\ admitted' = Lately
    /\ UNCHANGED <<failClosed, hits, expiry, unguarded>>

LimitNext == LimitTick \/ \E skew \in Skews : Check(skew) \/ CheckFails(skew)

LimitSpec == LimitInit /\ [][LimitNext]_limitVars

-----------------------------------------------------------------------------
LimitTypeOK ==
    /\ failClosed \in FailModes
    /\ clock \in Instants
    /\ hits \subseteq Entries /\ admitted \subseteq [entry : Entries, at : Instants]
    /\ expiry \in 0 .. Horizon + Window
    /\ unguarded \in BOOLEAN /\ (unguarded => ~failClosed)

(* No more than options.points requests are admitted in any window that is *)
(* shorter by the difference of the clocks, though refused requests count  *)
(* too and fast clocks forget entries early, until Redis fails a route     *)
(* that fails open (canActivate).                                          *)
RateHeld == ~unguarded => Cardinality(Lately) <= Points
=============================================================================
