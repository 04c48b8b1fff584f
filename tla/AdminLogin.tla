------------------------------ MODULE AdminLogin ------------------------------
(***************************************************************************)
(* Signing in as one administrator who has enrolled a second factor:       *)
(* password attempts and the lock they lead to, then a code, which is a    *)
(* recovery code here since only those are consumed.  Attempts overlap; a  *)
(* statement of an attempt is a step.                                      *)
(***************************************************************************)
EXTENDS Naturals, FiniteSets

CONSTANTS
    SignIns,        \* sign-in attempts under way at once
    Codes,          \* the recovery codes handed out
    MaxFailed,      \* MAX_FAILED
    MaxTries        \* bound: wrong passwords in a row that are followed

ASSUME LoginAssumption == MaxFailed \in Nat \ {0} /\ MaxTries \in Nat

VARIABLES
    admin,        \* admin_users: failed_login_count, locked_until, recovery codes
    signIns,      \* the attempts
    usedKeys,     \* the Redis keys totp:used:<code>
    wrong,        \* history: wrong passwords in a row since the last right one
    locks,        \* history: a lock began, and its 15 minutes are not over
    raced,        \* history: two attempts overlapped, on the password or on codes
    uses          \* history: how often each code has been accepted

loginVars == <<admin, signIns, usedKeys, wrong, locks, raced, uses>>

-----------------------------------------------------------------------------
Tries == 0 .. MaxTries
SignInState ==
    [step : {"FREE", "CHALLENGED", "ISSUE"}]
    \cup [step : {"CHECK"}, failed : Tries]
    \cup [step : {"KEY", "CONSUME"}, code : Codes, hashes : SUBSET Codes]

NoSignIn == [step |-> "FREE"]
AtStep(a, step) == signIns[a].step = step
Advance(a, state) == signIns' = [signIns EXCEPT ![a] = state]

LoginInit ==
    /\ admin = [failed |-> 0, locked |-> FALSE, codes |-> Codes]
    /\ signIns = [a \in SignIns |-> NoSignIn]
    /\ usedKeys = {}
    /\ wrong = 0
    /\ locks = FALSE
    /\ raced = [password |-> FALSE, codes |-> FALSE]
    /\ uses = [c \in Codes |-> 0]

(* login reads the account; the verification of the password takes long.   *)
ReadAccount(a) ==
    /\ AtStep(a, "FREE") /\ ~admin.locked
    /\ Advance(a, [step |-> "CHECK", failed |-> admin.failed])
    /\ raced' = [raced EXCEPT !.password = @ \/ \E x \in SignIns : AtStep(x, "CHECK")]
    /\ UNCHANGED <<admin, usedKeys, wrong, locks, uses>>

(* Mutant of WrongPassword: the lock takes one attempt more.               *)
WrongLocksLate(a) ==
    /\ AtStep(a, "CHECK") /\ wrong < MaxTries /\ signIns[a].failed < MaxTries
    /\ LET failed == signIns[a].failed + 1
           lock == failed > MaxFailed
       IN  admin' = [admin EXCEPT !.failed = failed, !.locked = lock]
    /\ wrong' = wrong + 1
    /\ locks' = (locks \/ wrong' >= MaxFailed)
    /\ Advance(a, NoSignIn)
    /\ UNCHANGED <<usedKeys, raced, uses>>

(* One update, from what was read: the count, and the lock or none.        *)
WrongPassword(a) ==
    /\ AtStep(a, "CHECK") /\ wrong < MaxTries /\ signIns[a].failed < MaxTries
    /\ LET failed == signIns[a].failed + 1
           lock == failed >= MaxFailed
       IN  admin' = [admin EXCEPT !.failed = failed, !.locked = lock]
    /\ wrong' = wrong + 1
    /\ locks' = (locks \/ wrong' >= MaxFailed)
    /\ Advance(a, NoSignIn)
    /\ UNCHANGED <<usedKeys, raced, uses>>

RightPassword(a) ==
    /\ AtStep(a, "CHECK")
    /\ admin' = [admin EXCEPT !.failed = 0, !.locked = FALSE]
    /\ wrong' = 0
    /\ locks' = FALSE
    /\ Advance(a, [step |-> "CHALLENGED"])
    /\ UNCHANGED <<usedKeys, raced, uses>>

(* The fifteen minutes are over; the count stays, so that the next wrong   *)
(* password locks again.                                                   *)
LockEnds ==
    /\ locks /\ admin' = [admin EXCEPT !.locked = FALSE]
    /\ locks' = FALSE
    /\ \A a \in SignIns : ~AtStep(a, "CHECK")
    /\ UNCHANGED <<signIns, usedKeys, wrong, raced, uses>>

-----------------------------------------------------------------------------
(* POST 2fa/verify reads the account with its remaining codes.             *)
PresentCode(a, c) ==
    /\ AtStep(a, "CHALLENGED")
    /\ Advance(a, [step |-> "KEY", code |-> c, hashes |-> admin.codes])
    /\ raced' = [raced EXCEPT !.codes = @ \/ \E x \in SignIns :
          signIns[x].step \in {"KEY", "CONSUME"} /\ signIns[x].code # c]
    /\ UNCHANGED <<admin, usedKeys, wrong, locks, uses>>

(* Mutant of TakeKey: no key guards the code.                              *)
TakeNoKey(a) ==
    /\ AtStep(a, "KEY")
    /\ usedKeys' = usedKeys \cup {signIns[a].code}
    /\ Advance(a, IF signIns[a].code \in signIns[a].hashes
                  THEN [signIns[a] EXCEPT !.step = "CONSUME"] ELSE [step |-> "CHALLENGED"])
    /\ UNCHANGED <<admin, wrong, locks, raced, uses>>

(* SET NX of the replay key, then RecoveryCodeService.consume over what    *)
(* was read.                                                               *)
TakeKey(a) ==
    /\ AtStep(a, "KEY")
    /\ LET c == signIns[a].code
       IN  /\ usedKeys' = usedKeys \cup {c}
           /\ Advance(a, IF c \notin usedKeys /\ c \in signIns[a].hashes
                         THEN [signIns[a] EXCEPT !.step = "CONSUME"] ELSE [step |-> "CHALLENGED"])
    /\ UNCHANGED <<admin, wrong, locks, raced, uses>>

(* The remaining codes are written as they were read, but for this one.    *)
ConsumeCode(a) ==
    /\ AtStep(a, "CONSUME")
    /\ admin' = [admin EXCEPT !.codes = signIns[a].hashes \ {signIns[a].code}]
    /\ uses' = [uses EXCEPT ![signIns[a].code] = IF @ < 2 THEN @ + 1 ELSE @]
    /\ Advance(a, [step |-> "ISSUE"])
    /\ UNCHANGED <<usedKeys, wrong, locks, raced>>

(* SessionService.issue (module AdminSessions).                            *)
IssueSession(a) ==
    /\ AtStep(a, "ISSUE")
    /\ Advance(a, NoSignIn)
    /\ UNCHANGED <<admin, usedKeys, wrong, locks, raced, uses>>

(* The request is lost or the server dies, or the five minutes of the MFA  *)
(* token pass.                                                             *)
AbandonSignIn(a) ==
    /\ ~AtStep(a, "FREE")
    /\ Advance(a, NoSignIn)
    /\ UNCHANGED <<admin, usedKeys, wrong, locks, raced, uses>>

(* Ninety seconds pass, longer than a request takes.                       *)
KeyExpires(c) ==
    /\ c \in usedKeys
    /\ \A a \in SignIns : signIns[a].step \in {"KEY", "CONSUME"} => signIns[a].code # c
    /\ usedKeys' = usedKeys \ {c}
    /\ UNCHANGED <<admin, signIns, wrong, locks, raced, uses>>

LoginNext ==
    \/ \E a \in SignIns :
          \/ ReadAccount(a) \/ WrongPassword(a) \/ RightPassword(a)
          \/ TakeKey(a) \/ ConsumeCode(a) \/ IssueSession(a) \/ AbandonSignIn(a)
          \/ \E c \in Codes : PresentCode(a, c)
    \/ LockEnds
    \/ \E c \in Codes : KeyExpires(c)

LoginSpec == LoginInit /\ [][LoginNext]_loginVars

-----------------------------------------------------------------------------
LoginTypeOK ==
    /\ admin \in [failed : Tries, locked : BOOLEAN, codes : SUBSET Codes]
    /\ signIns \in [SignIns -> SignInState]
    /\ usedKeys \subseteq Codes
    /\ wrong \in Tries
    /\ locks \in BOOLEAN
    /\ raced \in [password : BOOLEAN, codes : BOOLEAN]
    /\ uses \in [Codes -> 0 .. 2]

(* Five wrong passwords in a row lock the account for fifteen minutes, and *)
(* every further one does again, however requests die, unless two attempts *)
(* overlapped, each writing what it had read (login, MAX_FAILED).          *)
LockoutCounts ==
    raced.password \/ (admin.failed = wrong /\ admin.locked = locks)

(* A recovery code signs in once, also when the same code is sent twice at *)
(* the same time, unless two codes were used at the same time and one      *)
(* write restored the other code (verify).                                 *)
RecoveryCodeOnce == raced.codes \/ \A c \in Codes : uses[c] <= 1
=============================================================================
