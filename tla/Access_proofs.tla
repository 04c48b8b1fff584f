---------------------------- MODULE Access_proofs ----------------------------
(***************************************************************************)
(* Proofs about how an administrator comes in and stays in, for any number *)
(* of attempts, codes, pages, refreshers and requests: the lock after      *)
(* wrong passwords, recovery codes, the enrolment of a second factor, and  *)
(* the session families of the refresh cookie; and about the credentials   *)
(* of a company, its server keys and its webhook secret, while requests of *)
(* several administrators overlap.                                         *)
(***************************************************************************)
EXTENDS AdminLogin, TotpEnrolment, AdminSessions, ServerKeys, WebhookSecret,
        FiniteSetTheorems, WellFoundedInduction, TLAPS

-----------------------------------------------------------------------------
(* What the step of a sign-in attempt says about its other fields.         *)
LEMMA SignInShape ==
    ASSUME LoginTypeOK, NEW a \in SignIns
    PROVE  /\ AtStep(a, "CHECK") => signIns[a].failed \in Tries
           /\ signIns[a].step \in {"KEY", "CONSUME"} =>
                 /\ signIns[a].code \in Codes /\ signIns[a].hashes \in SUBSET Codes
                 /\ [signIns[a] EXCEPT !.step = "CONSUME"] =
                        [step |-> "CONSUME", code |-> signIns[a].code, hashes |-> signIns[a].hashes]
<1>1. signIns[a] \in SignInState
  BY DEF LoginTypeOK
<1>2. CASE signIns[a] \in [step : {"KEY", "CONSUME"}, code : Codes, hashes : SUBSET Codes]
  <2> DEFINE taken == [step |-> "CONSUME", code |-> signIns[a].code, hashes |-> signIns[a].hashes]
  <2>1. [signIns[a] EXCEPT !.step = "CONSUME"] = taken
    BY <1>2
  <2> QED
    BY <1>2, <2>1 DEF AtStep
<1>3. CASE signIns[a] \in [step : {"CHECK"}, failed : Tries]
  BY <1>3 DEF AtStep
<1>4. CASE signIns[a] \in [step : {"FREE", "CHALLENGED", "ISSUE"}]
  BY <1>4 DEF AtStep
<1> QED
  BY <1>1, <1>2, <1>3, <1>4 DEF SignInState

(* The two columns of the lock are written in one update.                  *)
LEMMA AdminWritten ==
    ASSUME NEW failed, NEW locked, admin \in [failed : Tries, locked : BOOLEAN, codes : SUBSET Codes],
           admin' = [admin EXCEPT !.failed = failed, !.locked = locked]
    PROVE  admin' = [failed |-> failed, locked |-> locked, codes |-> admin.codes]
OBVIOUS

LEMMA LoginInitTyped == LoginInit => LoginTypeOK
<1> SUFFICES ASSUME LoginInit
             PROVE  LoginTypeOK
  OBVIOUS
<1>1. NoSignIn \in SignInState
  BY DEF NoSignIn, SignInState
<1>2. admin \in [failed : Tries, locked : BOOLEAN, codes : SUBSET Codes]
  BY LoginAssumption DEF LoginInit, Tries
<1>3. raced \in [password : BOOLEAN, codes : BOOLEAN]
  BY DEF LoginInit
<1>4. signIns \in [SignIns -> SignInState] /\ uses \in [Codes -> 0 .. 2]
  BY <1>1 DEF LoginInit
<1>5. locks \in BOOLEAN /\ usedKeys \subseteq Codes
  BY DEF LoginInit
<1>6. wrong \in Tries
  BY LoginAssumption DEF LoginInit, Tries
<1> QED
  BY <1>2, <1>3, <1>4, <1>5, <1>6 DEF LoginTypeOK

LEMMA LoginStepTyped == LoginTypeOK /\ [LoginNext]_loginVars => LoginTypeOK'
<1> SUFFICES ASSUME LoginTypeOK, [LoginNext]_loginVars
             PROVE  LoginTypeOK'
  OBVIOUS
<1> USE LoginAssumption DEF LoginTypeOK, Tries, Advance
<1>0. NoSignIn \in SignInState /\ [step |-> "CHALLENGED"] \in SignInState /\ [step |-> "ISSUE"] \in SignInState
  BY DEF NoSignIn, SignInState
<1>1. ASSUME NEW a \in SignIns, ReadAccount(a)
      PROVE  LoginTypeOK'
  <2>1. [step |-> "CHECK", failed |-> admin.failed] \in SignInState
    BY DEF SignInState
  <2> QED
    BY <1>1, <2>1 DEF ReadAccount
<1>2. ASSUME NEW a \in SignIns, WrongPassword(a)
      PROVE  LoginTypeOK'
  <2>1. signIns[a].failed \in Tries
    BY <1>2, SignInShape DEF WrongPassword
  <2> DEFINE lock == signIns[a].failed + 1 >= MaxFailed
  <2>2. admin' = [failed |-> signIns[a].failed + 1, locked |-> lock, codes |-> admin.codes]
    BY <1>2, AdminWritten DEF WrongPassword
  <2>3. lock \in BOOLEAN /\ signIns[a].failed + 1 \in Tries
    BY <1>2, <2>1 DEF WrongPassword
  <2> HIDE DEF lock
  <2>4. admin' \in [failed : Tries, locked : BOOLEAN, codes : SUBSET Codes]
    BY <2>2, <2>3
  <2> QED
    BY <1>0, <1>2, <2>1, <2>4 DEF WrongPassword
<1>3. ASSUME NEW a \in SignIns, RightPassword(a)
      PROVE  LoginTypeOK'
  <2>1. admin' = [failed |-> 0, locked |-> FALSE, codes |-> admin.codes]
    BY <1>3, AdminWritten DEF RightPassword
  <2>2. admin' \in [failed : Tries, locked : BOOLEAN, codes : SUBSET Codes]
    BY <2>1
  <2> QED
    BY <1>0, <1>3, <2>2 DEF RightPassword
<1>4. CASE LockEnds
  BY <1>4 DEF LockEnds
<1>5. ASSUME NEW a \in SignIns, NEW c \in Codes, PresentCode(a, c)
      PROVE  LoginTypeOK'
  <2>1. [step |-> "KEY", code |-> c, hashes |-> admin.codes] \in SignInState
    BY DEF SignInState
  <2> QED
    BY <1>5, <2>1 DEF PresentCode
<1>6. ASSUME NEW a \in SignIns, TakeKey(a)
      PROVE  LoginTypeOK'
  <2>1. signIns[a].code \in Codes /\ [signIns[a] EXCEPT !.step = "CONSUME"] \in SignInState
    BY <1>6, SignInShape DEF TakeKey, AtStep, SignInState
  <2> QED
    BY <1>0, <1>6, <2>1 DEF TakeKey
<1>7. ASSUME NEW a \in SignIns, ConsumeCode(a)
      PROVE  LoginTypeOK'
  <2>1. signIns[a].code \in Codes /\ signIns[a].hashes \in SUBSET Codes
    BY <1>7, SignInShape DEF ConsumeCode, AtStep
  <2> QED
    BY <1>0, <1>7, <2>1 DEF ConsumeCode
<1>8. ASSUME NEW a \in SignIns, IssueSession(a) \/ AbandonSignIn(a)
      PROVE  LoginTypeOK'
  BY <1>0, <1>8 DEF IssueSession, AbandonSignIn
<1>9. ASSUME NEW c \in Codes, KeyExpires(c)
      PROVE  LoginTypeOK'
  BY <1>9 DEF KeyExpires
<1>10. CASE UNCHANGED loginVars
  BY <1>10 DEF loginVars
<1> QED
  BY <1>1, <1>2, <1>3, <1>4, <1>5, <1>6, <1>7, <1>8, <1>9, <1>10 DEF LoginNext

(* LoginTypeOK.                                                            *)
THEOREM LoginTyping == LoginSpec => []LoginTypeOK
BY LoginInitTyped, LoginStepTyped, PTL DEF LoginSpec

-----------------------------------------------------------------------------
(* Without overlap one attempt at most is between reading the account and  *)
(* writing it, it found the account unlocked, and it read the count that   *)
(* still stands.                                                           *)
CountsRead ==
    raced.password \/
    /\ admin.failed = wrong /\ admin.locked = locks
    /\ \A a \in SignIns : AtStep(a, "CHECK") => signIns[a].failed = wrong /\ ~locks
    /\ \A a, b \in SignIns : AtStep(a, "CHECK") /\ AtStep(b, "CHECK") => a = b

LEMMA CountsReadStep ==
    ASSUME LoginTypeOK, CountsRead, [LoginNext]_loginVars
    PROVE  CountsRead'
<1> SUFFICES ASSUME ~raced'.password
             PROVE  CountsRead'
  BY DEF CountsRead
<1> USE LoginAssumption DEF CountsRead, AtStep, Advance
<1>0. raced.password \in BOOLEAN /\ admin.failed \in Nat /\ wrong \in Nat
  BY DEF LoginTypeOK, Tries
<1>1. ASSUME NEW a \in SignIns, ReadAccount(a)
      PROVE  CountsRead'
  <2>1. ~raced.password /\ \A x \in SignIns : ~AtStep(x, "CHECK")
    BY <1>1 DEF ReadAccount, LoginTypeOK
  <2> QED
    BY <1>1, <2>1 DEF ReadAccount, LoginTypeOK
<1>2. ASSUME NEW a \in SignIns, WrongPassword(a)
      PROVE  CountsRead'
  <2>1. ~raced.password /\ signIns[a].failed = wrong /\ ~locks
    BY <1>2 DEF WrongPassword
  <2>2. admin'.failed = wrong + 1 /\ admin'.locked = (wrong + 1 >= MaxFailed)
    BY <1>2, <2>1, AdminWritten DEF WrongPassword, LoginTypeOK
  <2>3. \A x \in SignIns : ~AtStep(x, "CHECK")'
    BY <1>2, <2>1 DEF WrongPassword, LoginTypeOK, NoSignIn
  <2> QED
    BY <1>2, <2>1, <2>2, <2>3 DEF WrongPassword
<1>3. ASSUME NEW a \in SignIns, RightPassword(a)
      PROVE  CountsRead'
  <2>1. \A x \in SignIns : ~AtStep(x, "CHECK")'
    BY <1>3 DEF RightPassword, LoginTypeOK
  <2>2. admin' = [failed |-> 0, locked |-> FALSE, codes |-> admin.codes]
    BY <1>3, AdminWritten DEF RightPassword, LoginTypeOK
  <2> QED
    BY <1>3, <2>1, <2>2 DEF RightPassword
<1>4. CASE LockEnds
  BY <1>4 DEF LockEnds, LoginTypeOK
<1>5. ASSUME NEW a \in SignIns, NEW c \in Codes, PresentCode(a, c)
      PROVE  CountsRead'
  BY <1>5 DEF PresentCode, LoginTypeOK
<1>6. ASSUME NEW a \in SignIns, TakeKey(a)
      PROVE  CountsRead'
  <2>1. signIns'[a].step # "CHECK"
    BY <1>6, SignInShape DEF TakeKey, LoginTypeOK
  <2> QED
    BY <1>6, <2>1 DEF TakeKey, LoginTypeOK
<1>7. ASSUME NEW a \in SignIns, ConsumeCode(a)
      PROVE  CountsRead'
  BY <1>7 DEF ConsumeCode, LoginTypeOK
<1>8. ASSUME NEW a \in SignIns, IssueSession(a) \/ AbandonSignIn(a)
      PROVE  CountsRead'
  BY <1>8 DEF IssueSession, AbandonSignIn, LoginTypeOK, NoSignIn
<1>9. ASSUME NEW c \in Codes, KeyExpires(c)
      PROVE  CountsRead'
  BY <1>9 DEF KeyExpires
<1>10. CASE UNCHANGED loginVars
  BY <1>10 DEF loginVars
<1> QED
  BY <1>1, <1>2, <1>3, <1>4, <1>5, <1>6, <1>7, <1>8, <1>9, <1>10 DEF LoginNext

(* LockoutCounts: without overlapping attempts the account counts the      *)
(* wrong passwords in a row, and MAX_FAILED of them lock it.               *)
THEOREM LockoutHolds == LoginSpec => []LockoutCounts
<1>1. LoginInit => CountsRead
  <2> SUFFICES ASSUME LoginInit
               PROVE  CountsRead
    OBVIOUS
  <2>1. \A a \in SignIns : ~AtStep(a, "CHECK")
    BY DEF LoginInit, NoSignIn, AtStep
  <2>2. admin.failed = wrong /\ admin.locked = locks
    BY DEF LoginInit
  <2> QED
    BY <2>1, <2>2 DEF CountsRead
<1>2. CountsRead => LockoutCounts
  BY DEF CountsRead, LockoutCounts
<1> QED
  BY <1>1, <1>2, CountsReadStep, LoginInitTyped, LoginStepTyped, PTL DEF LoginSpec

-----------------------------------------------------------------------------
(* Without overlap of different codes: whoever is between reading the      *)
(* codes and writing them presents the one code; the code of one that      *)
(* writes has its replay key and was not used; nothing that would be       *)
(* written back was used.                                                  *)
AtCode(a) == signIns[a].step \in {"KEY", "CONSUME"}
CodesUnused ==
    raced.codes \/
    /\ \A c \in Codes : uses[c] <= 1
    /\ \A c \in admin.codes : uses[c] = 0
    /\ \A a, b \in SignIns : AtCode(a) /\ AtCode(b) => signIns[a].code = signIns[b].code
    /\ \A a \in SignIns : AtCode(a) =>
          \A c \in signIns[a].hashes : c # signIns[a].code => uses[c] = 0
    /\ \A a \in SignIns : AtStep(a, "KEY") =>
          signIns[a].code \notin signIns[a].hashes \ usedKeys \/ uses[signIns[a].code] = 0
    /\ \A a \in SignIns : AtStep(a, "CONSUME") =>
          signIns[a].code \in usedKeys /\ uses[signIns[a].code] = 0
    /\ \A a, b \in SignIns : AtStep(a, "CONSUME") /\ AtStep(b, "CONSUME") => a = b

LEMMA CodesUnusedStep ==
    ASSUME LoginTypeOK, CodesUnused, [LoginNext]_loginVars
    PROVE  CodesUnused'
<1> SUFFICES ASSUME ~raced'.codes
             PROVE  CodesUnused'
  BY DEF CodesUnused
<1> USE DEF AtStep, AtCode, Advance
<1>0. /\ signIns \in [SignIns -> SignInState] /\ uses \in [Codes -> 0 .. 2]
      /\ admin \in [failed : Tries, locked : BOOLEAN, codes : SUBSET Codes]
      /\ raced \in [password : BOOLEAN, codes : BOOLEAN]
  BY DEF LoginTypeOK
<1>1. ASSUME NEW a \in SignIns, ReadAccount(a)
      PROVE  CodesUnused'
  BY <1>0, <1>1 DEF ReadAccount, CodesUnused
<1>2. ASSUME NEW a \in SignIns, WrongPassword(a)
      PROVE  CodesUnused'
  <2>1. admin'.codes = admin.codes
    BY <1>2, <1>0 DEF WrongPassword
  <2> QED
    BY <1>0, <1>2, <2>1 DEF WrongPassword, CodesUnused, NoSignIn
<1>3. ASSUME NEW a \in SignIns, RightPassword(a)
      PROVE  CodesUnused'
  <2>1. admin'.codes = admin.codes
    BY <1>3, <1>0 DEF RightPassword
  <2> QED
    BY <1>0, <1>3, <2>1 DEF RightPassword, CodesUnused
<1>4. CASE LockEnds
  <2>1. admin'.codes = admin.codes
    BY <1>4, <1>0 DEF LockEnds
  <2> QED
    BY <1>4, <2>1 DEF LockEnds, CodesUnused
<1>5. ASSUME NEW a \in SignIns, NEW c \in Codes, PresentCode(a, c)
      PROVE  CodesUnused'
  <2>1. ~raced.codes /\ \A x \in SignIns : AtCode(x) => signIns[x].code = c
    BY <1>0, <1>5 DEF PresentCode
  <2>2. signIns' = [signIns EXCEPT ![a] = [step |-> "KEY", code |-> c, hashes |-> admin.codes]]
    BY <1>5 DEF PresentCode
  <2> QED
    BY <1>0, <1>5, <2>1, <2>2 DEF PresentCode, CodesUnused
<1>6. ASSUME NEW a \in SignIns, TakeKey(a)
      PROVE  CodesUnused'
  <2> DEFINE c == signIns[a].code
  <2>1. /\ c \in Codes /\ signIns[a].hashes \in SUBSET Codes /\ signIns[a].step = "KEY"
        /\ [signIns[a] EXCEPT !.step = "CONSUME"] =
               [step |-> "CONSUME", code |-> c, hashes |-> signIns[a].hashes]
    BY <1>6, SignInShape DEF TakeKey
  <2>2. CASE c \notin usedKeys /\ c \in signIns[a].hashes
    <3>1. signIns' = [signIns EXCEPT ![a] =
                         [step |-> "CONSUME", code |-> c, hashes |-> signIns[a].hashes]]
      BY <1>6, <2>1, <2>2 DEF TakeKey
    <3>2. ~raced.codes /\ uses[c] = 0 /\ usedKeys' = usedKeys \cup {c} /\ UNCHANGED <<admin, uses, raced>>
      BY <1>6, <2>1, <2>2 DEF TakeKey, CodesUnused
    <3>3. \A x \in SignIns : x # a => signIns'[x] = signIns[x]
      BY <1>0, <3>1
    <3>4. signIns'[a] = [step |-> "CONSUME", code |-> c, hashes |-> signIns[a].hashes]
      BY <1>0, <3>1
    <3>5. \A x \in SignIns : ~AtStep(x, "CONSUME")
      BY <2>1, <2>2, <3>2 DEF CodesUnused
    <3> QED
      BY <2>1, <3>2, <3>3, <3>4, <3>5 DEF CodesUnused
  <2>3. CASE ~(c \notin usedKeys /\ c \in signIns[a].hashes)
    <3>1. signIns' = [signIns EXCEPT ![a] = [step |-> "CHALLENGED"]]
      BY <1>6, <2>3 DEF TakeKey
    <3>2. ~raced.codes /\ usedKeys' = usedKeys \cup {c} /\ UNCHANGED <<admin, uses, raced>>
      BY <1>6 DEF TakeKey
    <3>3. \A x \in SignIns : AtCode(x)' => x # a /\ signIns'[x] = signIns[x]
      BY <1>0, <3>1
    <3> QED
      BY <3>2, <3>3 DEF CodesUnused
  <2> QED
    BY <2>2, <2>3
<1>7. ASSUME NEW a \in SignIns, ConsumeCode(a)
      PROVE  CodesUnused'
  <2> DEFINE c == signIns[a].code
  <2>1. c \in Codes /\ signIns[a].hashes \in SUBSET Codes /\ signIns[a].step = "CONSUME"
    BY <1>7, SignInShape DEF ConsumeCode
  <2>2. ~raced.codes /\ uses[c] = 0 /\ c \in usedKeys /\ UNCHANGED <<usedKeys, raced>>
    BY <1>7, <2>1 DEF ConsumeCode, CodesUnused
  <2>3. admin'.codes = signIns[a].hashes \ {c}
    BY <1>0, <1>7 DEF ConsumeCode
  <2>4. uses' = [uses EXCEPT ![c] = 1]
    BY <1>0, <1>7, <2>1, <2>2 DEF ConsumeCode
  <2>5. \A x \in SignIns : AtCode(x)' => x # a /\ signIns'[x] = signIns[x] /\ AtCode(x)
    BY <1>0, <1>7 DEF ConsumeCode
  <2>6. \A x \in SignIns : AtCode(x)' => signIns[x].code = c /\ signIns[x].step = "KEY"
    BY <2>1, <2>2, <2>5 DEF CodesUnused
  <2>7. \A d \in Codes : d # c => uses'[d] = uses[d]
    BY <1>0, <2>4
  <2>8. \A d \in signIns[a].hashes : d # c => uses[d] = 0
    BY <2>1, <2>2 DEF CodesUnused
  <2>9. uses'[c] = 1
    BY <1>0, <2>1, <2>4
  <2>10. \A x \in SignIns : AtCode(x)' => signIns[x].hashes \in SUBSET Codes
    BY <2>5, SignInShape
  <2> HIDE DEF c
  <2> QED
    BY <2>1, <2>2, <2>3, <2>5, <2>6, <2>7, <2>8, <2>9, <2>10 DEF CodesUnused
<1>8. ASSUME NEW a \in SignIns, IssueSession(a) \/ AbandonSignIn(a)
      PROVE  CodesUnused'
  <2>1. \A x \in SignIns : AtCode(x)' => x # a /\ signIns'[x] = signIns[x]
    BY <1>0, <1>8 DEF IssueSession, AbandonSignIn, NoSignIn
  <2> QED
    BY <1>8, <2>1 DEF IssueSession, AbandonSignIn, CodesUnused
<1>9. ASSUME NEW c \in Codes, KeyExpires(c)
      PROVE  CodesUnused'
  BY <1>9 DEF KeyExpires, CodesUnused
<1>10. CASE UNCHANGED loginVars
  BY <1>10 DEF loginVars, CodesUnused
<1> QED
  BY <1>1, <1>2, <1>3, <1>4, <1>5, <1>6, <1>7, <1>8, <1>9, <1>10 DEF LoginNext

(* RecoveryCodeOnce: the replay key and the update of what was read let a  *)
(* code in once, unless different codes were under way at the same time.   *)
THEOREM CodeSpentOnce == LoginSpec => []RecoveryCodeOnce
<1>1. LoginInit => CodesUnused
  BY DEF LoginInit, CodesUnused, NoSignIn, AtStep, AtCode
<1>2. CodesUnused => RecoveryCodeOnce
  BY DEF CodesUnused, RecoveryCodeOnce
<1> QED
  BY <1>1, <1>2, CodesUnusedStep, LoginInitTyped, LoginStepTyped, PTL DEF LoginSpec

-----------------------------------------------------------------------------
(* What the step of an enrolment page says about its other fields.         *)
LEMMA PageShape ==
    ASSUME TotpTypeOK, NEW p \in Pages
    PROVE  /\ PageAt(p, "OPEN") => pages[p].purpose \in {"mfa", "enroll"}
           /\ PageAt(p, "ASKED") => pages[p].secret \in Secrets
           /\ pages[p].step \in {"VERIFY", "FINISH"} =>
                 /\ pages[p].purpose \in {"mfa", "enroll"} /\ pages[p].factor \in Factors
                 /\ pages[p].of \in Secrets /\ pages[p].read \in Account
                 /\ [pages[p] EXCEPT !.step = "FINISH"] =
                       [step |-> "FINISH", purpose |-> pages[p].purpose, factor |-> pages[p].factor,
                        of |-> pages[p].of, read |-> pages[p].read]
<1>1. pages[p] \in PageState
  BY DEF TotpTypeOK
<1>2. CASE pages[p] \in [step : {"VERIFY", "FINISH"}, purpose : {"mfa", "enroll"}, factor : Factors,
                         of : Secrets, read : Account]
  BY <1>2 DEF PageAt
<1>3. CASE pages[p] \in [step : {"CLOSED"}] \cup [step : {"OPEN"}, purpose : {"mfa", "enroll"}]
               \cup [step : {"ASKED"}, purpose : {"enroll"}, secret : Secrets]
  BY <1>3 DEF PageAt
<1> QED
  BY <1>1, <1>2, <1>3 DEF PageState

LEMMA TotpInitTyped == TotpInit => TotpTypeOK
<1> SUFFICES ASSUME TotpInit
             PROVE  TotpTypeOK
  OBVIOUS
<1>1. Closed \in PageState
  BY DEF Closed, PageState
<1>2. account \in Account
  BY DEF TotpInit, Account
<1>3. generated \in 0 .. MaxEnrolments
  BY EnrolmentAssumption DEF TotpInit
<1> QED
  BY <1>1, <1>2, <1>3 DEF TotpInit, TotpTypeOK

(* Codes are entered for secrets that were shown.                          *)
EnteredWasShown ==
    \A p \in Pages : pages[p].step \in {"VERIFY", "FINISH"} => pages[p].of \in shown

LEMMA TotpStepTyped ==
    ASSUME TotpTypeOK, EnteredWasShown, [TotpNext]_totpVars
    PROVE  TotpTypeOK'
<1> USE EnrolmentAssumption DEF TotpTypeOK, Turn
<1>0. /\ Closed \in PageState
      /\ \A purpose \in {"mfa", "enroll"} : Open(purpose) \in PageState
  BY DEF Closed, Open, PageState
<1>1. ASSUME NEW p \in Pages, Challenge(p)
      PROVE  TotpTypeOK'
  <2>1. Open(IF account.enrolled THEN "mfa" ELSE "enroll") \in PageState
    BY <1>0
  <2> QED
    BY <1>1, <2>1 DEF Challenge
<1>2. ASSUME NEW p \in Pages, EnrolSecret(p)
      PROVE  TotpTypeOK'
  <2>1. generated' \in Secrets /\ generated' \in 0 .. MaxEnrolments
    BY <1>2 DEF EnrolSecret, Secrets
  <2>2. account' \in Account
    BY <1>2, <2>1 DEF EnrolSecret, Account
  <2>3. [step |-> "ASKED", purpose |-> "enroll", secret |-> generated'] \in PageState
    BY <2>1 DEF PageState
  <2>4. replaced' \in BOOLEAN
    BY <1>2 DEF EnrolSecret
  <2> QED
    BY <1>2, <2>1, <2>2, <2>3, <2>4 DEF EnrolSecret
<1>3. ASSUME NEW p \in Pages, NEW lost \in BOOLEAN, EnrolAnswer(p, lost)
      PROVE  TotpTypeOK'
  <2>1. pages[p].secret \in Secrets /\ Open("enroll") \in PageState
    BY <1>0, <1>3, PageShape DEF EnrolAnswer
  <2> QED
    BY <1>3, <2>1 DEF EnrolAnswer
<1>4. ASSUME NEW p \in Pages, NEW factor \in Factors, NEW s \in Secrets, EnterCode(p, factor, s)
      PROVE  TotpTypeOK'
  <2>1. [step |-> "VERIFY", purpose |-> pages[p].purpose, factor |-> factor, of |-> s,
         read |-> account] \in PageState
    BY <1>4, PageShape DEF EnterCode, PageState
  <2> QED
    BY <1>4, <2>1 DEF EnterCode
<1>5. ASSUME NEW p \in Pages, CheckCode(p)
      PROVE  TotpTypeOK'
  <2>1. /\ pages[p].read \in Account /\ pages[p].of \in Secrets /\ Open(pages[p].purpose) \in PageState
        /\ [pages[p] EXCEPT !.step = "FINISH"] \in PageState
    BY <1>0, <1>5, PageShape DEF CheckCode, PageAt, PageState
  <2>2. [account EXCEPT !.codes = pages[p].read.codes] \in Account
    BY <2>1 DEF Account
  <2>3. pages[p].of \in shown
    BY <1>5 DEF CheckCode, PageAt, EnteredWasShown
  <2> QED
    BY <1>5, <2>1, <2>2, <2>3 DEF CheckCode
<1>6. ASSUME NEW p \in Pages, FinishVerify(p)
      PROVE  TotpTypeOK'
  <2>1. [account EXCEPT !.enrolled = TRUE] \in Account
    BY DEF Account
  <2> QED
    BY <1>0, <1>6, <2>1 DEF FinishVerify
<1>7. ASSUME NEW p \in Pages, LeavePage(p)
      PROVE  TotpTypeOK'
  BY <1>0, <1>7 DEF LeavePage
<1>8. CASE UNCHANGED totpVars
  BY <1>8 DEF totpVars
<1> QED
  BY <1>1, <1>2, <1>3, <1>4, <1>5, <1>6, <1>7, <1>8 DEF TotpNext

LEMMA EnteredWasShownStep ==
    ASSUME TotpTypeOK, EnteredWasShown, [TotpNext]_totpVars
    PROVE  EnteredWasShown'
<1> USE DEF EnteredWasShown, Turn
<1>0. pages \in [Pages -> PageState] /\ shown \subseteq shown'
  BY DEF TotpTypeOK, TotpNext, Challenge, EnrolSecret, EnrolAnswer, EnterCode, CheckCode,
         FinishVerify, LeavePage, totpVars
<1>1. ASSUME NEW p \in Pages, Challenge(p) \/ EnrolSecret(p) \/ FinishVerify(p) \/ LeavePage(p)
                                  \/ \E lost \in BOOLEAN : EnrolAnswer(p, lost)
      PROVE  EnteredWasShown'
  <2>1. \A x \in Pages : x # p => pages'[x] = pages[x]
    BY <1>0, <1>1 DEF Challenge, EnrolSecret, EnrolAnswer, FinishVerify, LeavePage
  <2>2. pages'[p].step \notin {"VERIFY", "FINISH"}
    BY <1>0, <1>1 DEF Challenge, EnrolSecret, EnrolAnswer, FinishVerify, LeavePage, Open, Closed
  <2> QED
    BY <1>0, <2>1, <2>2
<1>2. ASSUME NEW p \in Pages, NEW factor \in Factors, NEW s \in Secrets, EnterCode(p, factor, s)
      PROVE  EnteredWasShown'
  BY <1>0, <1>2 DEF EnterCode
<1>3. ASSUME NEW p \in Pages, CheckCode(p)
      PROVE  EnteredWasShown'
  <2>1. pages[p].of \in shown /\ [pages[p] EXCEPT !.step = "FINISH"].of = pages[p].of
    BY <1>3, PageShape DEF CheckCode, PageAt
  <2>2. pages'[p] = [pages[p] EXCEPT !.step = "FINISH"] \/ pages'[p] = Open(pages[p].purpose)
    BY <1>0, <1>3 DEF CheckCode
  <2> QED
    BY <1>0, <1>3, <2>1, <2>2 DEF CheckCode, Open
<1>4. CASE UNCHANGED totpVars
  BY <1>4 DEF totpVars
<1> QED
  BY <1>1, <1>2, <1>3, <1>4 DEF TotpNext

(* As long as no secret is replaced under a code that was entered, the     *)
(* pages that entered one read the secret and codes that still stand, the  *)
(* codes are those of the secret, and an accepted code was of the secret.  *)
SecretStands ==
    replaced \/
    /\ account.codes = account.secret
    /\ account.enrolled => account.secret \in confirmed
    /\ \A p \in Pages : pages[p].step \in {"VERIFY", "FINISH"} =>
          pages[p].read.secret = account.secret /\ pages[p].read.codes = account.secret
    /\ \A p \in Pages : PageAt(p, "FINISH") =>
          pages[p].of = account.secret /\ pages[p].of \in confirmed

LEMMA SecretStandsStep ==
    ASSUME TotpTypeOK, SecretStands, [TotpNext]_totpVars
    PROVE  SecretStands'
<1> SUFFICES ASSUME ~replaced'
             PROVE  SecretStands'
  BY DEF SecretStands
<1> USE DEF PageAt, Turn
<1>0. pages \in [Pages -> PageState] /\ account \in Account
  BY DEF TotpTypeOK
<1>1. ASSUME NEW p \in Pages, Challenge(p) \/ LeavePage(p) \/ \E lost \in BOOLEAN : EnrolAnswer(p, lost)
      PROVE  SecretStands'
  <2>1. \A x \in Pages : pages'[x].step \in {"VERIFY", "FINISH"} => pages'[x] = pages[x]
    BY <1>0, <1>1 DEF Challenge, LeavePage, EnrolAnswer, Open, Closed
  <2>2. UNCHANGED <<account, confirmed, replaced>>
    BY <1>1 DEF Challenge, LeavePage, EnrolAnswer
  <2> QED
    BY <2>1, <2>2 DEF SecretStands
<1>2. ASSUME NEW p \in Pages, EnrolSecret(p)
      PROVE  SecretStands'
  <2>1. ~replaced /\ ~account.enrolled /\ \A x \in Pages : pages[x].step \notin {"VERIFY", "FINISH"}
    BY <1>2 DEF EnrolSecret
  <2>2. account'.secret = generated' /\ account'.codes = generated' /\ ~account'.enrolled
    BY <1>0, <1>2, <2>1 DEF EnrolSecret, Account
  <2>3. \A x \in Pages : pages'[x].step \notin {"VERIFY", "FINISH"}
    BY <1>0, <1>2, <2>1 DEF EnrolSecret
  <2> QED
    BY <2>2, <2>3 DEF SecretStands
<1>3. ASSUME NEW p \in Pages, NEW factor \in Factors, NEW s \in Secrets, EnterCode(p, factor, s)
      PROVE  SecretStands'
  BY <1>0, <1>3 DEF EnterCode, SecretStands
<1>4. ASSUME NEW p \in Pages, CheckCode(p)
      PROVE  SecretStands'
  <2> DEFINE page == pages[p]
             ok == page.of = IF page.factor = "TOTP" THEN page.read.secret ELSE page.read.codes
  <2>1. /\ pages[p].step = "VERIFY" /\ ~replaced
        /\ page.read.secret = account.secret /\ page.read.codes = account.secret
        /\ account.codes = account.secret
    BY <1>4 DEF CheckCode, SecretStands
  <2>2. account' = account
    BY <1>0, <1>4, <2>1 DEF CheckCode, Account
  <2>3. [page EXCEPT !.step = "FINISH"] = [step |-> "FINISH", purpose |-> page.purpose,
                                           factor |-> page.factor, of |-> page.of, read |-> page.read]
    BY <2>1, PageShape
  <2>4. CASE ok
    <3>1. /\ pages' = [pages EXCEPT ![p] = [page EXCEPT !.step = "FINISH"]]
          /\ confirmed' = confirmed \cup {page.of} /\ page.of = account.secret
      BY <1>4, <2>1, <2>4 DEF CheckCode
    <3> QED
      BY <1>0, <2>1, <2>2, <2>3, <3>1 DEF SecretStands
  <2>5. CASE ~ok
    <3>1. pages' = [pages EXCEPT ![p] = Open(page.purpose)] /\ confirmed' = confirmed
      BY <1>4, <2>5 DEF CheckCode
    <3> QED
      BY <1>0, <2>1, <2>2, <3>1 DEF SecretStands, Open
  <2> QED
    BY <2>4, <2>5
<1>5. ASSUME NEW p \in Pages, FinishVerify(p)
      PROVE  SecretStands'
  <2>1. \A x \in Pages : pages'[x].step \in {"VERIFY", "FINISH"} => pages'[x] = pages[x]
    BY <1>0, <1>5 DEF FinishVerify, Closed
  <2>2. /\ ~replaced /\ account.secret \in confirmed
    BY <1>5 DEF FinishVerify, SecretStands
  <2>3. account'.secret = account.secret /\ account'.codes = account.codes
    BY <1>0, <1>5 DEF FinishVerify, Account
  <2>4. UNCHANGED <<confirmed, replaced>>
    BY <1>5 DEF FinishVerify
  <2> QED
    BY <2>1, <2>2, <2>3, <2>4 DEF SecretStands
<1>6. CASE UNCHANGED totpVars
  BY <1>6 DEF totpVars, SecretStands
<1> QED
  BY <1>1, <1>2, <1>3, <1>4, <1>5, <1>6 DEF TotpNext

(* EnrolledIsConfirmed: the second factor an account demands is one that   *)
(* its administrator was shown and has used.                               *)
THEOREM FactorIsHeld == TotpSpec => []EnrolledIsConfirmed
<1>1. TotpInit => EnteredWasShown /\ SecretStands
  BY DEF TotpInit, EnteredWasShown, SecretStands, PageAt, Closed
<1>2. SecretStands => EnrolledIsConfirmed
  BY DEF SecretStands, EnrolledIsConfirmed
<1> QED
  BY <1>1, <1>2, SecretStandsStep, EnteredWasShownStep, TotpInitTyped, TotpStepTyped, PTL
     DEF TotpSpec

-----------------------------------------------------------------------------
(* What the step of a refresh says about its other fields.                 *)
Holds(r) == refreshes[r].step \in {"REVOKE", "ANSWER"}

LEMMA RefreshShape ==
    ASSUME SessionsTypeOK, NEW r \in Refreshes
    PROVE  /\ UnderWay(r) => refreshes[r].by \in Refreshers /\ refreshes[r].session \in SessionId
           /\ Holds(r) => refreshes[r].next \in SessionId
           /\ refreshes[r].step = "READ" => \A step \in {"CREATE", "KILL"} :
                 [refreshes[r] EXCEPT !.step = step] =
                     [step |-> step, by |-> refreshes[r].by, session |-> refreshes[r].session]
           /\ refreshes[r].step = "REVOKE" =>
                 [refreshes[r] EXCEPT !.step = "ANSWER"] =
                     [step |-> "ANSWER", by |-> refreshes[r].by, session |-> refreshes[r].session,
                      next |-> refreshes[r].next]
<1>1. refreshes[r] \in RefreshState
  BY DEF SessionsTypeOK
<1>2. CASE refreshes[r] \in [step : {"READ", "CREATE", "KILL"}, by : Refreshers, session : SessionId]
  BY <1>2 DEF UnderWay, Holds
<1>3. CASE refreshes[r] \in [step : {"REVOKE", "ANSWER"}, by : Refreshers, session : SessionId, next : SessionId]
  BY <1>3 DEF UnderWay, Holds
<1>4. CASE refreshes[r] \in [step : {"FREE"}] \cup [step : {"DENIED"}, by : Refreshers, session : SessionId]
  BY <1>4 DEF UnderWay, Holds
<1> QED
  BY <1>1, <1>2, <1>3, <1>4 DEF RefreshState

LEMMA LeastExists ==
    ASSUME NEW T, T \subseteq Nat, T # {}
    PROVE  \E x \in T : \A y \in T : x <= y
<1>1. PICK x \in T : \A y \in T : ~(<<y, x>> \in OpToRel(<, Nat))
  BY WFMin, NatLessThanWellFounded, Zenon
<1>2. ASSUME NEW y \in T, y < x
      PROVE  FALSE
  <2>1. y \in Nat /\ x \in Nat
    OBVIOUS
  <2>2. <<y, x>> \in OpToRel(<, Nat)
    BY <1>2, <2>1, Zenon DEF OpToRel
  <2> QED
    BY <1>1, <2>2
<1>3. \A y \in T : x <= y
  BY <1>2
<1> QED
  BY <1>3

LEMMA NewestUnused ==
    ASSUME Unused # {}
    PROVE  Newest \in SessionId /\ FamilyOf(Newest) = 0
<1>1. Unused \subseteq Nat
  BY SessionAssumption DEF Unused, SessionId
<1>2. \E x \in Unused : \A y \in Unused : x <= y
  BY <1>1, LeastExists
<1> QED
  BY <1>2 DEF Newest, Unused

LEMMA SessionsInitTyped == SessionsInit => SessionsTypeOK
<1> SUFFICES ASSUME SessionsInit
             PROVE  SessionsTypeOK
  OBVIOUS
<1>1. NoRefresh \in RefreshState
  BY DEF NoRefresh, RefreshState
<1>2. NoSession \in SessionRow
  BY DEF NoSession, SessionRow
<1> QED
  BY <1>1, <1>2 DEF SessionsInit, SessionsTypeOK

LEMMA RevokedTyped ==
    ASSUME SessionsTypeOK, NEW F \in SUBSET Families, RevokeFamilies(F)
    PROVE  /\ sessions' \in [SessionId -> SessionRow] /\ ended' \subseteq SessionId
           /\ overtaken' \subseteq SessionId
<1>1. F \subseteq SessionId
  BY DEF Families, FamilyOf, SessionsTypeOK, SessionRow
<1>2. \A s \in SessionId : [sessions[s] EXCEPT !.live = FALSE] \in SessionRow
  BY DEF SessionsTypeOK, SessionRow
<1> QED
  BY <1>1, <1>2 DEF RevokeFamilies, SessionsTypeOK

(* Requests under way have refreshers of their own and presented what they *)
(* hold; a session about to be answered was never presented, is named by   *)
(* no cookie yet and is answered once; a family is named by its first      *)
(* session.                                                                *)
TokensApart ==
    /\ \A r \in Refreshes : UnderWay(r) =>
          /\ FamilyOf(refreshes[r].session) # 0
          /\ refreshes[r].by \in presented[refreshes[r].session]
    /\ \A q, r \in Refreshes : UnderWay(q) /\ UnderWay(r) /\ q # r =>
          refreshes[q].by # refreshes[r].by
    /\ \A r \in Refreshes : Holds(r) =>
          /\ FamilyOf(refreshes[r].next) = FamilyOf(refreshes[r].session)
          /\ presented[refreshes[r].next] = {} /\ cookie # refreshes[r].next
    /\ \A q, r \in Refreshes : Holds(q) /\ Holds(r) /\ q # r =>
          refreshes[q].next # refreshes[r].next
    /\ \A s \in SessionId : FamilyOf(s) = 0 => presented[s] = {}
    /\ cookie # 0 => FamilyOf(cookie) # 0
    /\ \A s \in SessionId : IsFiniteSet(presented[s])
    /\ \A s \in SessionId : FamilyOf(s) # 0 => FamilyOf(FamilyOf(s)) = FamilyOf(s)

(* A family whose browser has no reason yet to be signed out.              *)
Calm(f) ==
    /\ f \notin loggedOut
    /\ \A s \in SessionId : FamilyOf(s) = f =>
          s \notin lostAnswers /\ ~(Cardinality(presented[s]) > 1)

(* In such a family every refresh finds its session live and leaves the    *)
(* next one live, and the cookie names a dead session only until the       *)
(* answer with the next one is stored.                                     *)
SignedIn(f) ==
    /\ Live(f) # {}
    /\ \A r \in Refreshes : UnderWay(r) /\ FamilyOf(refreshes[r].session) = f =>
          /\ refreshes[r].step \in {"READ", "CREATE", "REVOKE", "ANSWER"}
          /\ refreshes[r].step # "ANSWER" => sessions[refreshes[r].session].live
          /\ Holds(r) => sessions[refreshes[r].next].live
    /\ cookie # 0 /\ FamilyOf(cookie) = f /\ ~sessions[cookie].live =>
          \E r \in Refreshes : refreshes[r].step = "ANSWER" /\ refreshes[r].session = cookie
CalmIsSignedIn == \A f \in Families : Calm(f) => SignedIn(f)

(* No refresh is about to insert into a family that ended unnoticed.       *)
EndedIsOver ==
    \A f \in ended \ overtaken :
        /\ FamilyOf(f) = f /\ Live(f) = {}
        /\ \A r \in Refreshes : refreshes[r].step = "CREATE" => FamilyOf(refreshes[r].session) # f

LEMMA SessionsStepTyped ==
    ASSUME SessionsTypeOK, [SessionsNext]_sessionVars,
           TokensApart
    PROVE  SessionsTypeOK'
<1> USE DEF Continue
<1>0. /\ sessions \in [SessionId -> SessionRow] /\ refreshes \in [Refreshes -> RefreshState]
      /\ NoRefresh \in RefreshState /\ presented \in [SessionId -> SUBSET Refreshers]
  BY DEF SessionsTypeOK, NoRefresh, RefreshState
<1>1. CASE SignIn
  <2>1. Newest \in SessionId /\ [family |-> Newest, live |-> TRUE] \in SessionRow
    BY <1>1, NewestUnused DEF SignIn, SessionRow
  <2> QED
    BY <1>1, <2>1 DEF SignIn, SessionsTypeOK
<1>2. ASSUME NEW F \in SUBSET Families, Logout(F)
      PROVE  SessionsTypeOK'
  BY <1>2, RevokedTyped DEF Logout, SessionsTypeOK, RevokeFamilies
<1>3. CASE ChangePassword
  BY <1>3, RevokedTyped DEF ChangePassword, SessionsTypeOK, RevokeFamilies
<1>4. ASSUME NEW t \in Refreshers, NEW r \in Refreshes, Refresh(t, r)
      PROVE  SessionsTypeOK'
  <2>1. cookie \in SessionId /\ [step |-> "READ", by |-> t, session |-> cookie] \in RefreshState
    BY <1>4 DEF Refresh, SessionsTypeOK, RefreshState
  <2> QED
    BY <1>4, <2>1 DEF Refresh, SessionsTypeOK
<1>5. ASSUME NEW r \in Refreshes, ReadSession(r)
      PROVE  SessionsTypeOK'
  <2>1. \A step \in {"CREATE", "KILL"} : [refreshes[r] EXCEPT !.step = step] \in RefreshState
    <3>1. refreshes[r].by \in Refreshers /\ refreshes[r].session \in SessionId /\ refreshes[r].step = "READ"
      BY <1>5, RefreshShape DEF ReadSession, UnderWay
    <3>2. \A step \in {"CREATE", "KILL"} :
             [step |-> step, by |-> refreshes[r].by, session |-> refreshes[r].session] \in RefreshState
      BY <3>1 DEF RefreshState
    <3> QED
      BY <3>1, <3>2, RefreshShape
  <2>2. [refreshes[r] EXCEPT !.step = IF sessions[refreshes[r].session].live THEN "CREATE" ELSE "KILL"]
            \in RefreshState
    BY <2>1
  <2> QED
    BY <1>0, <1>5, <2>2 DEF ReadSession, SessionsTypeOK
<1>6. ASSUME NEW r \in Refreshes, KillFamily(r)
      PROVE  SessionsTypeOK'
  <2>1. /\ refreshes[r].session \in SessionId /\ FamilyOf(refreshes[r].session) \in Families
        /\ [step |-> "DENIED", by |-> refreshes[r].by, session |-> refreshes[r].session] \in RefreshState
    BY <1>6, RefreshShape DEF KillFamily, UnderWay, Families, RefreshState, TokensApart
  <2>2. /\ sessions' \in [SessionId -> SessionRow] /\ ended' \subseteq SessionId
        /\ overtaken' \subseteq SessionId
    BY <1>6, <2>1, RevokedTyped DEF KillFamily
  <2> QED
    BY <1>6, <2>1, <2>2 DEF KillFamily, SessionsTypeOK, RevokeFamilies
<1>7. ASSUME NEW r \in Refreshes, CreateNext(r)
      PROVE  SessionsTypeOK'
  <2> DEFINE old == refreshes[r].session
  <2>1. old \in SessionId /\ refreshes[r].by \in Refreshers /\ Newest \in SessionId
    BY <1>7, RefreshShape, NewestUnused DEF CreateNext, UnderWay
  <2>2. [family |-> FamilyOf(old), live |-> TRUE] \in SessionRow
    BY <2>1, <1>0 DEF FamilyOf, SessionRow
  <2>3. [step |-> "REVOKE", by |-> refreshes[r].by, session |-> old, next |-> Newest] \in RefreshState
    BY <2>1 DEF RefreshState
  <2> QED
    BY <1>0, <1>7, <2>1, <2>2, <2>3 DEF CreateNext, SessionsTypeOK
<1>8. ASSUME NEW r \in Refreshes, RevokeOld(r)
      PROVE  SessionsTypeOK'
  <2>1. refreshes[r].session \in SessionId /\ [refreshes[r] EXCEPT !.step = "ANSWER"] \in RefreshState
    <3>1. /\ refreshes[r].by \in Refreshers /\ refreshes[r].session \in SessionId
          /\ refreshes[r].next \in SessionId /\ refreshes[r].step = "REVOKE"
      BY <1>8, RefreshShape DEF RevokeOld, UnderWay, Holds
    <3>2. [step |-> "ANSWER", by |-> refreshes[r].by, session |-> refreshes[r].session,
           next |-> refreshes[r].next] \in RefreshState
      BY <3>1 DEF RefreshState
    <3> QED
      BY <3>1, <3>2, RefreshShape
  <2>2. sessions' \in [SessionId -> SessionRow]
    BY <1>0, <1>8, <2>1 DEF RevokeOld, SessionRow
  <2> QED
    BY <1>8, <2>1, <2>2 DEF RevokeOld, SessionsTypeOK
<1>9. ASSUME NEW r \in Refreshes, StoreCookie(r)
      PROVE  SessionsTypeOK'
  <2>1. refreshes[r].next \in SessionId
    BY <1>9, RefreshShape DEF StoreCookie, Holds
  <2> QED
    BY <1>0, <1>9, <2>1 DEF StoreCookie, SessionsTypeOK
<1>10. ASSUME NEW r \in Refreshes, Denied(r)
      PROVE  SessionsTypeOK'
  BY <1>0, <1>10 DEF Denied, SessionsTypeOK
<1>11. ASSUME NEW r \in Refreshes, LoseRefresh(r)
      PROVE  SessionsTypeOK'
  <2>1. refreshes[r].session \in SessionId
    BY <1>11, RefreshShape DEF LoseRefresh
  <2> QED
    BY <1>0, <1>11, <2>1 DEF LoseRefresh, SessionsTypeOK
<1>12. CASE UNCHANGED sessionVars
  BY <1>12 DEF sessionVars, SessionsTypeOK
<1> QED
  BY <1>1, <1>2, <1>3, <1>4, <1>5, <1>6, <1>7, <1>8, <1>9, <1>10, <1>11, <1>12 DEF SessionsNext

(* What a step leaves of the families and of the reasons to be signed out. *)
LEMMA FamilyStays ==
    ASSUME SessionsTypeOK, [SessionsNext]_sessionVars, NEW s \in SessionId, FamilyOf(s) # 0
    PROVE  FamilyOf(s)' = FamilyOf(s)
<1> USE DEF FamilyOf
<1>0. sessions \in [SessionId -> SessionRow]
  BY DEF SessionsTypeOK
<1>1. CASE SignIn
  BY <1>0, <1>1, NewestUnused DEF SignIn
<1>2. ASSUME NEW F, RevokeFamilies(F)
      PROVE  FamilyOf(s)' = FamilyOf(s)
  BY <1>0, <1>2 DEF RevokeFamilies, SessionRow
<1>3. CASE \E F \in SUBSET Families : Logout(F)
  BY <1>2, <1>3 DEF Logout
<1>4. CASE ChangePassword
  BY <1>2, <1>4 DEF ChangePassword
<1>5. ASSUME NEW r \in Refreshes, KillFamily(r)
      PROVE  FamilyOf(s)' = FamilyOf(s)
  BY <1>2, <1>5 DEF KillFamily
<1>6. ASSUME NEW r \in Refreshes, CreateNext(r)
      PROVE  FamilyOf(s)' = FamilyOf(s)
  BY <1>0, <1>6, NewestUnused DEF CreateNext
<1>7. ASSUME NEW r \in Refreshes, RevokeOld(r)
      PROVE  FamilyOf(s)' = FamilyOf(s)
  <2>1. refreshes[r].session \in SessionId
    BY <1>7, RefreshShape DEF RevokeOld, UnderWay
  <2> QED
    BY <1>0, <1>7, <2>1 DEF RevokeOld, SessionRow
<1>8. CASE UNCHANGED sessions
  BY <1>8
<1> QED
  BY <1>1, <1>3, <1>4, <1>5, <1>6, <1>7, <1>8
     DEF SessionsNext, Refresh, ReadSession, StoreCookie, Denied, LoseRefresh, sessionVars

(* A step other than the end of a family changes no other session.         *)
LEMMA RevokedSpares ==
    ASSUME SessionsTypeOK, NEW F, RevokeFamilies(F), NEW s \in SessionId
    PROVE  /\ FamilyOf(s)' = FamilyOf(s)
           /\ FamilyOf(s) \notin F => sessions'[s] = sessions[s]
           /\ FamilyOf(s) \in F => sessions'[s].live = FALSE
BY DEF SessionsTypeOK, RevokeFamilies, FamilyOf, SessionRow

LEMMA TokensApartStep ==
    ASSUME SessionsTypeOK, TokensApart, [SessionsNext]_sessionVars
    PROVE  TokensApart'
<1> USE DEF Continue, FamilyOf
<1>0. /\ sessions \in [SessionId -> SessionRow] /\ refreshes \in [Refreshes -> RefreshState]
      /\ presented \in [SessionId -> SUBSET Refreshers] /\ cookie \in SessionId \cup {0}
      /\ 0 \notin SessionId
      /\ \A s \in SessionId : FamilyOf(s) \in SessionId \cup {0}
  BY SessionAssumption DEF SessionsTypeOK, SessionId, FamilyOf, SessionRow
<1>f. \A s \in SessionId : FamilyOf(s) # 0 => FamilyOf(s)' = FamilyOf(s)
  BY FamilyStays
<1>s. \A r \in Refreshes :
         /\ UnderWay(r) => refreshes[r].by \in Refreshers /\ refreshes[r].session \in SessionId
         /\ Holds(r) => UnderWay(r) /\ refreshes[r].next \in SessionId
  BY RefreshShape DEF UnderWay, Holds
<1>1. CASE SignIn
  <2>1. Newest \in SessionId /\ FamilyOf(Newest) = 0 /\ presented[Newest] = {}
    BY <1>1, NewestUnused DEF SignIn, TokensApart
  <2>2. \A x \in SessionId : FamilyOf(x)' = IF x = Newest THEN Newest ELSE FamilyOf(x)
    BY <1>0, <1>1, <2>1 DEF SignIn, FamilyOf
  <2>3. \A r \in Refreshes : UnderWay(r) => refreshes[r].session # Newest
    BY <2>1 DEF TokensApart
  <2>4. \A r \in Refreshes : Holds(r) => refreshes[r].next # Newest
    BY <1>s, <2>1 DEF TokensApart
  <2>5. \A x \in SessionId : FamilyOf(x)' # 0 => FamilyOf(FamilyOf(x))' = FamilyOf(x)'
    BY <1>0, <2>1, <2>2 DEF TokensApart
  <2>6. cookie' = Newest /\ UNCHANGED <<refreshes, presented>>
    BY <1>1 DEF SignIn
  <2> QED
    BY <1>0, <1>s, <2>1, <2>2, <2>3, <2>4, <2>5, <2>6 DEF TokensApart, UnderWay, Holds
<1>2. ASSUME NEW F, RevokeFamilies(F), UNCHANGED <<refreshes, presented>>, cookie' \in {0, cookie}
      PROVE  TokensApart'
  <2>1. \A x \in SessionId : FamilyOf(x)' = FamilyOf(x)
    BY <1>2, RevokedSpares
  <2> QED
    BY <1>0, <1>s, <1>2, <2>1 DEF TokensApart, UnderWay, Holds
<1>3. ASSUME NEW r \in Refreshes, NEW t \in Refreshers, Refresh(t, r)
      PROVE  TokensApart'
  <2>1. /\ cookie \in SessionId /\ FamilyOf(cookie) # 0 /\ sessions' = sessions /\ cookie' = cookie
        /\ presented' = [presented EXCEPT ![cookie] = @ \cup {t}]
        /\ refreshes' = [refreshes EXCEPT ![r] = [step |-> "READ", by |-> t, session |-> cookie]]
        /\ \A x \in Refreshes : UnderWay(x) => refreshes[x].by # t /\ x # r
    BY <1>0, <1>3 DEF Refresh, TokensApart
  <2>2. \A x \in SessionId : FamilyOf(x)' = FamilyOf(x) /\ presented[x] \subseteq presented'[x]
    BY <1>0, <2>1 DEF FamilyOf
  <2>3. \A x \in SessionId : x # cookie => presented'[x] = presented[x]
    BY <1>0, <2>1
  <2>4. t \in presented'[cookie]
    BY <1>0, <2>1
  <2>5. IsFiniteSet(presented'[cookie])
    BY <1>0, <2>1, FS_AddElement DEF TokensApart
  <2>6. \A x \in Refreshes : x # r => refreshes'[x] = refreshes[x]
    BY <1>0, <2>1
  <2>7. refreshes'[r] = [step |-> "READ", by |-> t, session |-> cookie]
    BY <1>0, <2>1
  <2>8. /\ ~Holds(r)' /\ \A x \in Refreshes : x # r => (Holds(x)' <=> Holds(x)) /\ (UnderWay(x)' <=> UnderWay(x))
    BY <2>6, <2>7 DEF Holds, UnderWay
  <2>9. \A x \in Refreshes : Holds(x)' =>
           /\ FamilyOf(refreshes[x].next)' = FamilyOf(refreshes[x].session)'
           /\ presented'[refreshes'[x].next] = {} /\ cookie' # refreshes'[x].next
    <3> SUFFICES ASSUME NEW x \in Refreshes, Holds(x)'
                 PROVE  /\ FamilyOf(refreshes[x].next)' = FamilyOf(refreshes[x].session)'
                        /\ presented'[refreshes'[x].next] = {} /\ cookie' # refreshes'[x].next
      OBVIOUS
    <3>1. x # r /\ Holds(x) /\ refreshes'[x] = refreshes[x]
      BY <2>6, <2>8
    <3>2. /\ refreshes[x].next \in SessionId /\ refreshes[x].session \in SessionId
          /\ cookie # refreshes[x].next /\ presented[refreshes[x].next] = {}
          /\ FamilyOf(refreshes[x].next) = FamilyOf(refreshes[x].session)
      BY <1>s, <3>1 DEF TokensApart
    <3> QED
      BY <2>1, <2>2, <2>3, <3>1, <3>2
  <2>10. \A x \in Refreshes : UnderWay(x)' =>
           /\ FamilyOf(refreshes[x].session)' # 0
           /\ refreshes'[x].by \in presented'[refreshes'[x].session]
    BY <1>s, <2>1, <2>2, <2>4, <2>6, <2>7, <2>8 DEF TokensApart
  <2>11. \A x, y \in Refreshes : UnderWay(x)' /\ UnderWay(y)' /\ x # y =>
           refreshes'[x].by # refreshes'[y].by
    BY <2>1, <2>6, <2>7, <2>8 DEF TokensApart
  <2>12. \A x, y \in Refreshes : Holds(x)' /\ Holds(y)' /\ x # y =>
           refreshes'[x].next # refreshes'[y].next
    BY <2>6, <2>8 DEF TokensApart
  <2>13. \A x \in SessionId : FamilyOf(x)' # 0 => FamilyOf(FamilyOf(x))' = FamilyOf(x)'
    BY <1>0, <2>2 DEF TokensApart
  <2>14. \A x \in SessionId : IsFiniteSet(presented'[x]) /\ (FamilyOf(x)' = 0 => presented'[x] = {})
    BY <2>1, <2>2, <2>3, <2>5 DEF TokensApart
  <2> QED
    BY <2>1, <2>2, <2>9, <2>10, <2>11, <2>12, <2>13, <2>14 DEF TokensApart
<1>4. ASSUME NEW r \in Refreshes, UNCHANGED <<presented>>,
             \A x \in SessionId : FamilyOf(x)' = FamilyOf(x),
             \A x \in Refreshes : x # r => refreshes'[x] = refreshes[x],
             UnderWay(r)' => /\ UnderWay(r) /\ refreshes'[r].session = refreshes[r].session
                             /\ refreshes'[r].by = refreshes[r].by,
             Holds(r)' => Holds(r) /\ refreshes'[r].next = refreshes[r].next,
             \/ cookie' = cookie
             \/ Holds(r) /\ ~UnderWay(r)' /\ cookie' = refreshes[r].next
      PROVE  TokensApart'
  <2>1. \A x \in Refreshes :
           /\ UnderWay(x)' => /\ UnderWay(x) /\ refreshes'[x].session = refreshes[x].session
                              /\ refreshes'[x].by = refreshes[x].by
           /\ Holds(x)' => Holds(x) /\ UnderWay(x)' /\ refreshes'[x].next = refreshes[x].next
    BY <1>4 DEF Holds, UnderWay
  <2>2. \A x \in SessionId : FamilyOf(x)' # 0 => FamilyOf(FamilyOf(x))' = FamilyOf(x)'
    BY <1>0, <1>4 DEF TokensApart
  <2>3. \A x \in Refreshes : Holds(x)' => cookie' # refreshes'[x].next
    BY <1>4, <2>1 DEF TokensApart
  <2>4. cookie' # 0 => FamilyOf(cookie)' # 0
    <3>1. CASE cookie' = cookie
      BY <1>0, <1>4, <3>1 DEF TokensApart
    <3>2. CASE Holds(r) /\ cookie' = refreshes[r].next
      BY <1>s, <1>4, <3>2 DEF TokensApart
    <3> QED
      BY <1>4, <3>1, <3>2
  <2>5. \A x \in Refreshes : Holds(x)' =>
           /\ FamilyOf(refreshes[x].next)' = FamilyOf(refreshes[x].session)'
           /\ presented'[refreshes'[x].next] = {}
    BY <1>s, <1>4, <2>1 DEF TokensApart
  <2>6. \A x \in Refreshes : UnderWay(x)' =>
           /\ FamilyOf(refreshes[x].session)' # 0
           /\ refreshes'[x].by \in presented'[refreshes'[x].session]
    BY <1>s, <1>4, <2>1 DEF TokensApart
  <2>7. \A x, y \in Refreshes : UnderWay(x)' /\ UnderWay(y)' /\ x # y =>
           refreshes'[x].by # refreshes'[y].by
    BY <2>1 DEF TokensApart
  <2>8. \A x, y \in Refreshes : Holds(x)' /\ Holds(y)' /\ x # y =>
           refreshes'[x].next # refreshes'[y].next
    BY <2>1 DEF TokensApart
  <2>9. \A x \in SessionId : IsFiniteSet(presented'[x]) /\ (FamilyOf(x)' = 0 => presented'[x] = {})
    BY <1>4 DEF TokensApart
  <2> QED
    BY <2>2, <2>3, <2>4, <2>5, <2>6, <2>7, <2>8, <2>9 DEF TokensApart
<1>5. ASSUME NEW r \in Refreshes, ReadSession(r)
      PROVE  TokensApart'
  <2>1. /\ UnderWay(r) /\ sessions' = sessions /\ presented' = presented /\ cookie' = cookie
        /\ \A x \in Refreshes : x # r => refreshes'[x] = refreshes[x]
        /\ refreshes'[r] = [refreshes[r] EXCEPT !.step =
               IF sessions[refreshes[r].session].live THEN "CREATE" ELSE "KILL"]
    BY <1>0, <1>5 DEF ReadSession, UnderWay
  <2>2. \E step \in {"CREATE", "KILL"} : refreshes'[r] =
           [step |-> step, by |-> refreshes[r].by, session |-> refreshes[r].session]
    BY <1>5, <2>1, RefreshShape DEF ReadSession
  <2>3. ~Holds(r)' /\ refreshes'[r].session = refreshes[r].session /\ refreshes'[r].by = refreshes[r].by
    BY <2>2 DEF Holds
  <2>4. \A x \in SessionId : FamilyOf(x)' = FamilyOf(x)
    BY <2>1 DEF FamilyOf
  <2> QED
    BY <1>4, <2>1, <2>3, <2>4
<1>6. ASSUME NEW r \in Refreshes, KillFamily(r)
      PROVE  TokensApart'
  <2>1. /\ UnderWay(r) /\ presented' = presented /\ cookie' = cookie
        /\ \A x \in Refreshes : x # r => refreshes'[x] = refreshes[x]
        /\ refreshes'[r] = [step |-> "DENIED", by |-> refreshes[r].by, session |-> refreshes[r].session]
    BY <1>0, <1>6 DEF KillFamily, UnderWay
  <2>2. ~Holds(r)' /\ refreshes'[r].session = refreshes[r].session /\ refreshes'[r].by = refreshes[r].by
    BY <2>1 DEF Holds
  <2>3. \A x \in SessionId : FamilyOf(x)' = FamilyOf(x)
    BY <1>6, RevokedSpares DEF KillFamily
  <2> QED
    BY <1>4, <2>1, <2>2, <2>3
<1>7. ASSUME NEW r \in Refreshes, CreateNext(r)
      PROVE  TokensApart'
  <2> DEFINE old == refreshes[r].session
             new == [step |-> "REVOKE", by |-> refreshes[r].by, session |-> old, next |-> Newest]
  <2>1. /\ Newest \in SessionId /\ FamilyOf(Newest) = 0 /\ presented[Newest] = {}
        /\ old \in SessionId /\ FamilyOf(old) # 0 /\ old # Newest
        /\ cookie # Newest /\ UnderWay(r) /\ ~Holds(r)
    BY <1>s, <1>0, <1>7, NewestUnused DEF CreateNext, TokensApart, UnderWay, Holds
  <2>2. \A x \in SessionId : FamilyOf(x)' = IF x = Newest THEN FamilyOf(old) ELSE FamilyOf(x)
    BY <1>0, <1>7, <2>1 DEF CreateNext, FamilyOf
  <2>3. /\ UNCHANGED <<presented, cookie>> /\ refreshes'[r] = new
        /\ \A x \in Refreshes : x # r => refreshes'[x] = refreshes[x]
    BY <1>0, <1>7 DEF CreateNext
  <2>4. \A x \in Refreshes : UnderWay(x) => refreshes[x].session # Newest
    BY <2>1 DEF TokensApart
  <2>5. \A x \in Refreshes : Holds(x) => refreshes[x].next # Newest
    BY <1>s, <2>1 DEF TokensApart
  <2>6. \A x \in Refreshes : (UnderWay(x)' <=> UnderWay(x)) /\ (x # r => (Holds(x)' <=> Holds(x)))
    BY <2>1, <2>3 DEF UnderWay, Holds
  <2>7. \A x \in SessionId : FamilyOf(x)' # 0 => FamilyOf(FamilyOf(x))' = FamilyOf(x)'
    <3> SUFFICES ASSUME NEW x \in SessionId, FamilyOf(x)' # 0
                 PROVE  FamilyOf(FamilyOf(x))' = FamilyOf(x)'
      OBVIOUS
    <3>1. PICK y \in SessionId : FamilyOf(x)' = FamilyOf(y) /\ FamilyOf(y) # 0
      BY <2>1, <2>2
    <3>2. FamilyOf(y) \in SessionId /\ FamilyOf(FamilyOf(y)) = FamilyOf(y) /\ FamilyOf(y) # Newest
      BY <1>0, <2>1, <3>1 DEF TokensApart
    <3> QED
      BY <2>2, <3>1, <3>2
  <2>8. \A x \in Refreshes : Holds(x)' =>
           /\ FamilyOf(refreshes[x].next)' = FamilyOf(refreshes[x].session)'
           /\ presented'[refreshes'[x].next] = {} /\ cookie' # refreshes'[x].next
    <3> SUFFICES ASSUME NEW x \in Refreshes, Holds(x)'
                 PROVE  /\ FamilyOf(refreshes[x].next)' = FamilyOf(refreshes[x].session)'
                        /\ presented'[refreshes'[x].next] = {} /\ cookie' # refreshes'[x].next
      OBVIOUS
    <3>1. CASE x = r
      BY <2>1, <2>2, <2>3, <3>1
    <3>2. CASE x # r
      BY <1>s, <2>2, <2>3, <2>4, <2>5, <2>6, <3>2 DEF TokensApart
    <3> QED
      BY <3>1, <3>2
  <2>9. \A x \in Refreshes : UnderWay(x)' =>
           /\ FamilyOf(refreshes[x].session)' # 0
           /\ refreshes'[x].by \in presented'[refreshes'[x].session]
    BY <1>s, <2>2, <2>3, <2>4, <2>6 DEF TokensApart
  <2>10. \A x, y \in Refreshes : UnderWay(x)' /\ UnderWay(y)' /\ x # y =>
           refreshes'[x].by # refreshes'[y].by
    BY <2>3, <2>6 DEF TokensApart
  <2>11. \A x, y \in Refreshes : Holds(x)' /\ Holds(y)' /\ x # y =>
           refreshes'[x].next # refreshes'[y].next
    BY <2>3, <2>5, <2>6 DEF TokensApart
  <2>12. \A x \in SessionId : IsFiniteSet(presented'[x]) /\ (FamilyOf(x)' = 0 => presented'[x] = {})
    BY <2>1, <2>2, <2>3 DEF TokensApart
  <2>13. cookie' # 0 => FamilyOf(cookie)' # 0
    BY <1>0, <2>1, <2>2, <2>3 DEF TokensApart
  <2> QED
    BY <2>7, <2>8, <2>9, <2>10, <2>11, <2>12, <2>13 DEF TokensApart
<1>8. ASSUME NEW r \in Refreshes, RevokeOld(r)
      PROVE  TokensApart'
  <2>1. /\ UnderWay(r) /\ Holds(r) /\ presented' = presented /\ cookie' = cookie
        /\ \A x \in Refreshes : x # r => refreshes'[x] = refreshes[x]
        /\ refreshes'[r] = [step |-> "ANSWER", by |-> refreshes[r].by,
                            session |-> refreshes[r].session, next |-> refreshes[r].next]
    BY <1>0, <1>8, RefreshShape DEF RevokeOld, UnderWay, Holds
  <2>2. \A x \in SessionId : FamilyOf(x)' = FamilyOf(x)
    BY <1>0, <1>s, <1>8, <2>1 DEF RevokeOld, FamilyOf, SessionRow
  <2> QED
    BY <1>4, <2>1, <2>2
<1>9. ASSUME NEW r \in Refreshes, StoreCookie(r) \/ Denied(r) \/ LoseRefresh(r)
      PROVE  TokensApart'
  <2>1. /\ ~UnderWay(r)' /\ ~Holds(r)' /\ presented' = presented /\ sessions' = sessions
        /\ \A x \in Refreshes : x # r => refreshes'[x] = refreshes[x]
    BY <1>0, <1>9 DEF StoreCookie, Denied, LoseRefresh, NoRefresh, UnderWay, Holds
  <2>2. cookie' = cookie \/ (Holds(r) /\ cookie' = refreshes[r].next)
    BY <1>9 DEF StoreCookie, Denied, LoseRefresh, Holds
  <2>3. \A x \in SessionId : FamilyOf(x)' = FamilyOf(x)
    BY <2>1 DEF FamilyOf
  <2> QED
    BY <1>4, <2>1, <2>2, <2>3
<1>10. CASE UNCHANGED sessionVars
  BY <1>10 DEF sessionVars, TokensApart, UnderWay, Holds, FamilyOf
<1>11. CASE ChangePassword \/ \E F \in SUBSET Families : Logout(F)
  BY <1>2, <1>11 DEF ChangePassword, Logout
<1> QED
  BY <1>1, <1>3, <1>5, <1>6, <1>7, <1>8, <1>9, <1>10, <1>11 DEF SessionsNext

LEMMA TwoPresented ==
    ASSUME NEW S, IsFiniteSet(S), NEW t \in S, NEW u \in S, t # u
    PROVE  Cardinality(S) > 1
<1>1. IsFiniteSet({t}) /\ Cardinality({t}) = 1
  BY FS_Singleton
<1>2. IsFiniteSet({t} \cup {u}) /\ Cardinality({t} \cup {u}) = 2
  <2>1. u \notin {t}
    OBVIOUS
  <2>2. /\ IsFiniteSet({t} \cup {u})
        /\ Cardinality({t} \cup {u}) = IF u \in {t} THEN Cardinality({t}) ELSE Cardinality({t}) + 1
    BY <1>1, FS_AddElement
  <2> QED
    BY <1>1, <2>1, <2>2
<1>3. {t} \cup {u} \subseteq S
  OBVIOUS
<1>4. Cardinality({t} \cup {u}) <= Cardinality(S) /\ Cardinality(S) \in Nat
  BY <1>2, <1>3, FS_Subset, FS_CardinalityType
<1> QED
  BY <1>2, <1>4

(* The reasons to be signed out are never taken back.                      *)
LEMMA CalmBefore ==
    ASSUME SessionsTypeOK, TokensApart, TokensApart', [SessionsNext]_sessionVars,
           NEW f, f # 0, Calm(f)'
    PROVE  Calm(f)
<1>1. loggedOut \subseteq loggedOut' /\ lostAnswers \subseteq lostAnswers'
  BY DEF SessionsNext, SignIn, ChangePassword, Logout, Refresh, ReadSession, KillFamily, CreateNext,
         RevokeOld, StoreCookie, Denied, LoseRefresh, sessionVars
<1>2. \A s \in SessionId : presented[s] \subseteq presented'[s]
  <2>1. CASE \E t \in Refreshers, r \in Refreshes : Refresh(t, r)
    BY <2>1 DEF Refresh, SessionsTypeOK
  <2>2. CASE presented' = presented
    BY <2>2
  <2> QED
    BY <2>1, <2>2 DEF SessionsNext, SignIn, ChangePassword, Logout, ReadSession, KillFamily, CreateNext,
         RevokeOld, StoreCookie, Denied, LoseRefresh, sessionVars
<1>3. ASSUME NEW s \in SessionId, FamilyOf(s) = f
      PROVE  s \notin lostAnswers /\ ~(Cardinality(presented[s]) > 1)
  <2>1. FamilyOf(s)' = f
    BY <1>3, FamilyStays
  <2>2. s \notin lostAnswers' /\ ~(Cardinality(presented'[s]) > 1)
    BY <2>1 DEF Calm
  <2>3. IsFiniteSet(presented[s]) /\ IsFiniteSet(presented'[s])
    BY DEF TokensApart
  <2>4. /\ Cardinality(presented[s]) <= Cardinality(presented'[s])
        /\ Cardinality(presented[s]) \in Nat /\ Cardinality(presented'[s]) \in Nat
    BY <1>2, <2>3, FS_Subset, FS_CardinalityType
  <2> QED
    BY <1>1, <2>2, <2>4
<1> QED
  BY <1>1, <1>3 DEF Calm

(* A family that a step leaves alone stays signed in.                      *)
LEMMA LeftAlone ==
    ASSUME SessionsTypeOK, TokensApart, NEW f, SignedIn(f),
           \A x \in SessionId : /\ FamilyOf(x)' = f <=> FamilyOf(x) = f
                                /\ FamilyOf(x) = f => sessions'[x] = sessions[x],
           \A x \in Refreshes :
              /\ UnderWay(x) /\ FamilyOf(refreshes[x].session) = f => refreshes'[x] = refreshes[x]
              /\ UnderWay(x)' /\ FamilyOf(refreshes[x].session)' = f => refreshes'[x] = refreshes[x],
           cookie' \in SessionId \cup {0},
           cookie' # 0 /\ FamilyOf(cookie)' = f => cookie' = cookie \/ sessions'[cookie'].live
    PROVE  SignedIn(f)'
<1> USE DEF FamilyOf, UnderWay, Holds
<1>0. \A r \in Refreshes :
         /\ UnderWay(r) => refreshes[r].session \in SessionId
         /\ Holds(r) => /\ UnderWay(r) /\ refreshes[r].next \in SessionId
                        /\ FamilyOf(refreshes[r].next) = FamilyOf(refreshes[r].session)
  BY RefreshShape DEF TokensApart
<1>1. (Live(f) # {})'
  BY DEF SignedIn, Live
<1>2. ASSUME NEW r \in Refreshes, (UnderWay(r) /\ FamilyOf(refreshes[r].session) = f)'
      PROVE  (/\ refreshes[r].step \in {"READ", "CREATE", "REVOKE", "ANSWER"}
              /\ refreshes[r].step # "ANSWER" => sessions[refreshes[r].session].live
              /\ Holds(r) => sessions[refreshes[r].next].live)'
  <2>1. refreshes'[r] = refreshes[r] /\ UnderWay(r)
    BY <1>2
  <2>2. refreshes[r].session \in SessionId /\ FamilyOf(refreshes[r].session) = f
    BY <1>0, <1>2, <2>1
  <2>3. sessions'[refreshes[r].session] = sessions[refreshes[r].session]
    BY <2>2
  <2>4. Holds(r) => sessions'[refreshes[r].next] = sessions[refreshes[r].next]
    BY <1>0, <2>2
  <2> QED
    BY <2>1, <2>2, <2>3, <2>4 DEF SignedIn
<1>3. ASSUME (cookie # 0 /\ FamilyOf(cookie) = f /\ ~sessions[cookie].live)'
      PROVE  \E r \in Refreshes : refreshes'[r].step = "ANSWER" /\ refreshes'[r].session = cookie'
  <2>1. cookie' = cookie /\ cookie \in SessionId /\ FamilyOf(cookie) = f /\ sessions'[cookie] = sessions[cookie]
    BY <1>3
  <2>2. cookie # 0 /\ ~sessions[cookie].live
    BY <1>3, <2>1
  <2>3. PICK r \in Refreshes : refreshes[r].step = "ANSWER" /\ refreshes[r].session = cookie
    BY <2>1, <2>2 DEF SignedIn
  <2>4. refreshes'[r] = refreshes[r]
    BY <2>1, <2>3
  <2> QED
    BY <2>1, <2>3, <2>4
<1> QED
  BY <1>1, <1>2, <1>3 DEF SignedIn

LEMMA CalmIsSignedInStep ==
    ASSUME SessionsTypeOK, TokensApart, CalmIsSignedIn, [SessionsNext]_sessionVars,
           SessionsTypeOK', TokensApart'
    PROVE  CalmIsSignedIn'
<1> SUFFICES ASSUME NEW f \in Families', Calm(f)'
             PROVE  SignedIn(f)'
  BY DEF CalmIsSignedIn
<1> USE DEF Continue, FamilyOf
<1>0. /\ sessions \in [SessionId -> SessionRow] /\ refreshes \in [Refreshes -> RefreshState]
      /\ presented \in [SessionId -> SUBSET Refreshers] /\ cookie \in SessionId \cup {0}
      /\ cookie' \in SessionId \cup {0} /\ 0 \notin SessionId
      /\ \A s \in SessionId : FamilyOf(s) \in SessionId \cup {0}
  BY SessionAssumption DEF SessionsTypeOK, SessionId, SessionRow
<1>f. f # 0 /\ \E s \in SessionId : FamilyOf(s)' = f
  BY DEF Families
<1>c. Calm(f)
  BY <1>f, CalmBefore
<1>b. (\E s \in SessionId : FamilyOf(s) = f) => SignedIn(f)
  BY <1>f, <1>c DEF CalmIsSignedIn, Families
<1>s. \A r \in Refreshes :
         /\ UnderWay(r) => refreshes[r].by \in Refreshers /\ refreshes[r].session \in SessionId
         /\ Holds(r) => UnderWay(r) /\ refreshes[r].next \in SessionId
  BY RefreshShape DEF UnderWay, Holds
<1>1. CASE SignIn
  <2>1. /\ Newest \in SessionId /\ FamilyOf(Newest) = 0
        /\ sessions' = [sessions EXCEPT ![Newest] = [family |-> Newest, live |-> TRUE]]
        /\ cookie' = Newest /\ refreshes' = refreshes
    BY <1>1, NewestUnused DEF SignIn
  <2>2. sessions'[Newest] = [family |-> Newest, live |-> TRUE]
    BY <1>0, <2>1
  <2>3. \A x \in SessionId : x # Newest => sessions'[x] = sessions[x]
    BY <1>0, <2>1
  <2>4. \A x \in Refreshes : UnderWay(x) => refreshes[x].session # Newest
    BY <2>1 DEF TokensApart
  <2>5. CASE f = Newest
    <3>1. \A x \in SessionId : FamilyOf(x) # f
      BY <1>f, <2>1, <2>5 DEF TokensApart
    <3>2. Newest \in Live(f)'
      BY <2>1, <2>2, <2>5 DEF Live
    <3>3. \A x \in Refreshes : ~(UnderWay(x) /\ FamilyOf(refreshes[x].session) = f)'
      BY <1>s, <2>1, <2>3, <2>4, <3>1 DEF UnderWay
    <3>4. sessions'[cookie'].live
      BY <2>1, <2>2
    <3> QED
      BY <3>2, <3>3, <3>4 DEF SignedIn
  <2>6. CASE f # Newest
    <3>1. \A x \in SessionId : /\ FamilyOf(x)' = f <=> FamilyOf(x) = f
                               /\ FamilyOf(x) = f => sessions'[x] = sessions[x]
      BY <1>f, <2>1, <2>2, <2>3, <2>6
    <3>2. SignedIn(f)
      BY <1>b, <1>f, <3>1
    <3>3. FamilyOf(cookie)' # f
      BY <2>1, <2>2, <2>6
    <3> QED
      BY <1>0, <2>1, <3>1, <3>2, <3>3, LeftAlone
  <2> QED
    BY <2>5, <2>6
<1>2. ASSUME NEW F, RevokeFamilies(F), refreshes' = refreshes, cookie' \in {0, cookie},
             loggedOut' = loggedOut \cup F
      PROVE  SignedIn(f)'
  <2>1. f \notin F
    BY <1>2 DEF Calm
  <2>2. \A x \in SessionId : /\ FamilyOf(x)' = f <=> FamilyOf(x) = f
                             /\ FamilyOf(x) = f => sessions'[x] = sessions[x]
    BY <1>2, <2>1, RevokedSpares
  <2>3. SignedIn(f)
    BY <1>b, <1>f, <2>2
  <2> QED
    BY <1>0, <1>2, <2>2, <2>3, LeftAlone
<1>3. ASSUME NEW r \in Refreshes, NEW t \in Refreshers, Refresh(t, r)
      PROVE  SignedIn(f)'
  <2>1. /\ cookie \in SessionId /\ sessions' = sessions /\ cookie' = cookie
        /\ presented' = [presented EXCEPT ![cookie] = @ \cup {t}]
        /\ refreshes' = [refreshes EXCEPT ![r] = [step |-> "READ", by |-> t, session |-> cookie]]
        /\ \A x \in Refreshes : UnderWay(x) => refreshes[x].by # t /\ x # r
    BY <1>0, <1>3 DEF Refresh
  <2>2. \A x \in Refreshes : x # r => refreshes'[x] = refreshes[x]
    BY <1>0, <2>1
  <2>3. refreshes'[r] = [step |-> "READ", by |-> t, session |-> cookie]
    BY <1>0, <2>1
  <2>4. SignedIn(f)
    BY <1>b, <1>f, <2>1
  <2>5. CASE FamilyOf(cookie) # f
    BY <1>0, <2>1, <2>2, <2>3, <2>4, <2>5, LeftAlone
  <2>6. CASE FamilyOf(cookie) = f
    <3>1. sessions[cookie].live
      <4> SUFFICES ASSUME ~sessions[cookie].live
                   PROVE  FALSE
        OBVIOUS
      <4>1. PICK q \in Refreshes : refreshes[q].step = "ANSWER" /\ refreshes[q].session = cookie
        BY <1>0, <2>1, <2>4, <2>6 DEF SignedIn
      <4>2. UnderWay(q) /\ refreshes[q].by \in presented[cookie] /\ refreshes[q].by # t
        BY <2>1, <4>1 DEF UnderWay, TokensApart
      <4>3. t \in presented'[cookie] /\ refreshes[q].by \in presented'[cookie]
        BY <1>0, <2>1, <4>2
      <4>4. IsFiniteSet(presented'[cookie])
        BY <2>1 DEF TokensApart
      <4>5. Cardinality(presented'[cookie]) > 1
        BY <4>2, <4>3, <4>4, TwoPresented
      <4> QED
        BY <2>1, <2>6, <4>5 DEF Calm
    <3>2. Live(f)' = Live(f)
      BY <2>1 DEF Live
    <3>3. ASSUME NEW x \in Refreshes, UnderWay(x)', FamilyOf(refreshes[x].session)' = f
          PROVE  (/\ refreshes[x].step \in {"READ", "CREATE", "REVOKE", "ANSWER"}
                  /\ refreshes[x].step # "ANSWER" => sessions[refreshes[x].session].live
                  /\ Holds(x) => sessions[refreshes[x].next].live)'
      <4>1. CASE x = r
        BY <2>1, <2>3, <3>1, <4>1 DEF Holds
      <4>2. CASE x # r
        BY <2>1, <2>2, <2>4, <3>3, <4>2 DEF SignedIn, UnderWay, Holds
      <4> QED
        BY <4>1, <4>2
    <3> QED
      BY <2>1, <2>4, <3>1, <3>2, <3>3 DEF SignedIn
  <2> QED
    BY <2>5, <2>6
(* A refresh of another family, or one that ends, leaves this one alone.   *)
<1>4. ASSUME NEW r \in Refreshes, UnderWay(r), FamilyOf(refreshes[r].session) # f,
             \A x \in Refreshes : x # r => refreshes'[x] = refreshes[x],
             UnderWay(r)' => refreshes'[r].session = refreshes[r].session,
             \A x \in SessionId : /\ FamilyOf(x)' = f <=> FamilyOf(x) = f
                                  /\ FamilyOf(x) = f => sessions'[x] = sessions[x],
             cookie' = cookie \/ (cookie' # 0 /\ FamilyOf(cookie)' # f)
      PROVE  SignedIn(f)'
  <2>1. SignedIn(f)
    BY <1>b, <1>f, <1>4
  <2>2. refreshes[r].session \in SessionId
    BY <1>s, <1>4
  <2>3. ~(UnderWay(r)' /\ FamilyOf(refreshes[r].session)' = f)
    BY <1>4, <2>2
  <2>4. \A x \in Refreshes :
           /\ UnderWay(x) /\ FamilyOf(refreshes[x].session) = f => refreshes'[x] = refreshes[x]
           /\ UnderWay(x)' /\ FamilyOf(refreshes[x].session)' = f => refreshes'[x] = refreshes[x]
    BY <1>4, <2>3
  <2> QED
    BY <1>0, <1>4, <2>1, <2>4, LeftAlone
<1>5. ASSUME NEW r \in Refreshes, ReadSession(r)
      PROVE  SignedIn(f)'
  <2>1. /\ UnderWay(r) /\ sessions' = sessions /\ cookie' = cookie /\ refreshes[r].step = "READ"
        /\ \A x \in Refreshes : x # r => refreshes'[x] = refreshes[x]
        /\ refreshes'[r] = [refreshes[r] EXCEPT !.step =
               IF sessions[refreshes[r].session].live THEN "CREATE" ELSE "KILL"]
    BY <1>0, <1>5 DEF ReadSession, UnderWay
  <2>2. refreshes'[r] = [step |-> IF sessions[refreshes[r].session].live THEN "CREATE" ELSE "KILL",
                         by |-> refreshes[r].by, session |-> refreshes[r].session]
    BY <2>1, RefreshShape
  <2>3. CASE FamilyOf(refreshes[r].session) # f
    BY <1>4, <2>1, <2>2, <2>3
  <2>4. CASE FamilyOf(refreshes[r].session) = f
    <3>1. SignedIn(f)
      BY <1>b, <1>f, <2>1
    <3>2. sessions[refreshes[r].session].live
      BY <2>1, <2>4, <3>1 DEF SignedIn
    <3>3. refreshes'[r] = [step |-> "CREATE", by |-> refreshes[r].by, session |-> refreshes[r].session]
      BY <2>2, <3>2
    <3>4. Live(f)' = Live(f)
      BY <2>1 DEF Live
    <3>5. ASSUME NEW x \in Refreshes, UnderWay(x)', FamilyOf(refreshes[x].session)' = f
          PROVE  (/\ refreshes[x].step \in {"READ", "CREATE", "REVOKE", "ANSWER"}
                  /\ refreshes[x].step # "ANSWER" => sessions[refreshes[x].session].live
                  /\ Holds(x) => sessions[refreshes[x].next].live)'
      <4>1. CASE x = r
        BY <2>1, <3>2, <3>3, <4>1 DEF Holds
      <4>2. CASE x # r
        BY <2>1, <3>1, <3>5, <4>2 DEF SignedIn, UnderWay, Holds
      <4> QED
        BY <4>1, <4>2
    <3>6. \A x \in Refreshes : refreshes[x].step = "ANSWER" => refreshes'[x] = refreshes[x]
      BY <2>1
    <3> QED
      BY <2>1, <3>1, <3>4, <3>5, <3>6 DEF SignedIn
  <2> QED
    BY <2>3, <2>4
<1>6. ASSUME NEW r \in Refreshes, KillFamily(r)
      PROVE  SignedIn(f)'
  <2>1. /\ UnderWay(r) /\ cookie' = cookie /\ refreshes[r].step = "KILL"
        /\ \A x \in Refreshes : x # r => refreshes'[x] = refreshes[x]
        /\ refreshes'[r].session = refreshes[r].session
        /\ RevokeFamilies({FamilyOf(refreshes[r].session)})
    BY <1>0, <1>6 DEF KillFamily, UnderWay
  <2>2. \A x \in SessionId : FamilyOf(x)' = FamilyOf(x)
    BY <2>1, RevokedSpares
  <2>3. FamilyOf(refreshes[r].session) # f
    <3>1. SignedIn(f)
      BY <1>b, <1>f, <2>2
    <3> QED
      BY <2>1, <3>1 DEF SignedIn
  <2>4. \A x \in SessionId : FamilyOf(x) = f => sessions'[x] = sessions[x]
    <3>1. ASSUME NEW x \in SessionId, FamilyOf(x) = f
          PROVE  FamilyOf(x) \notin {FamilyOf(refreshes[r].session)}
      BY <2>3, <3>1
    <3> QED
      BY <2>1, <3>1, RevokedSpares
  <2> QED
    BY <1>4, <2>1, <2>2, <2>3, <2>4
<1>7. ASSUME NEW r \in Refreshes, CreateNext(r)
      PROVE  SignedIn(f)'
  <2> DEFINE old == refreshes[r].session
             new == [step |-> "REVOKE", by |-> refreshes[r].by, session |-> old, next |-> Newest]
  <2>1. /\ Newest \in SessionId /\ FamilyOf(Newest) = 0
        /\ old \in SessionId /\ FamilyOf(old) # 0 /\ old # Newest /\ UnderWay(r)
        /\ refreshes[r].step = "CREATE" /\ cookie' = cookie /\ cookie # Newest
    BY <1>s, <1>0, <1>7, NewestUnused DEF CreateNext, TokensApart, UnderWay
  <2>2. sessions' = [sessions EXCEPT ![Newest] = [family |-> FamilyOf(old), live |-> TRUE]]
    BY <1>7 DEF CreateNext
  <2>3. sessions'[Newest] = [family |-> FamilyOf(old), live |-> TRUE]
    BY <1>0, <2>1, <2>2
  <2>4. \A x \in SessionId : x # Newest => sessions'[x] = sessions[x]
    BY <1>0, <2>2
  <2>5. refreshes'[r] = new /\ \A x \in Refreshes : x # r => refreshes'[x] = refreshes[x]
    BY <1>0, <1>7 DEF CreateNext
  <2>6. CASE FamilyOf(old) # f
    <3>1. \A x \in SessionId : /\ FamilyOf(x)' = f <=> FamilyOf(x) = f
                               /\ FamilyOf(x) = f => sessions'[x] = sessions[x]
      BY <1>f, <2>1, <2>3, <2>4, <2>6
    <3> QED
      BY <1>4, <2>1, <2>5, <2>6, <3>1
  <2>7. CASE FamilyOf(old) = f
    <3>1. SignedIn(f)
      BY <1>b, <2>1, <2>7
    <3>2. sessions[old].live
      BY <2>1, <2>7, <3>1 DEF SignedIn
    <3>3. Newest \in Live(f)'
      BY <2>1, <2>3, <2>7 DEF Live
    <3>4. ASSUME NEW x \in Refreshes, UnderWay(x)', FamilyOf(refreshes[x].session)' = f
          PROVE  (/\ refreshes[x].step \in {"READ", "CREATE", "REVOKE", "ANSWER"}
                  /\ refreshes[x].step # "ANSWER" => sessions[refreshes[x].session].live
                  /\ Holds(x) => sessions[refreshes[x].next].live)'
      <4>1. CASE x = r
        BY <2>1, <2>3, <2>4, <2>5, <3>2, <4>1 DEF Holds
      <4>2. CASE x # r
        <5>1. UnderWay(x) /\ refreshes'[x] = refreshes[x]
          BY <2>5, <3>4, <4>2 DEF UnderWay
        <5>2. refreshes[x].session \in SessionId /\ refreshes[x].session # Newest
          BY <1>s, <2>1, <5>1 DEF TokensApart
        <5>3. Holds(x) => refreshes[x].next \in SessionId /\ refreshes[x].next # Newest
          BY <1>s, <2>1, <5>1, <5>2 DEF TokensApart
        <5>4. FamilyOf(refreshes[x].session) = f
          BY <2>4, <3>4, <5>1, <5>2
        <5> QED
          BY <2>4, <3>1, <5>1, <5>2, <5>3, <5>4 DEF SignedIn, Holds
      <4> QED
        BY <4>1, <4>2
    <3>5. \A x \in Refreshes : refreshes[x].step = "ANSWER" => refreshes'[x] = refreshes[x]
      BY <2>1, <2>5
    <3>6. cookie # 0 => sessions'[cookie] = sessions[cookie]
      BY <1>0, <2>1, <2>4
    <3> QED
      BY <2>1, <3>1, <3>3, <3>4, <3>5, <3>6 DEF SignedIn
  <2> QED
    BY <2>6, <2>7
<1>8. ASSUME NEW r \in Refreshes, RevokeOld(r)
      PROVE  SignedIn(f)'
  <2> DEFINE old == refreshes[r].session
  <2>1. /\ UnderWay(r) /\ Holds(r) /\ cookie' = cookie /\ presented' = presented /\ lostAnswers' = lostAnswers
        /\ \A x \in Refreshes : x # r => refreshes'[x] = refreshes[x]
        /\ refreshes'[r] = [step |-> "ANSWER", by |-> refreshes[r].by, session |-> old,
                            next |-> refreshes[r].next]
        /\ refreshes[r].step = "REVOKE"
    BY <1>0, <1>8, RefreshShape DEF RevokeOld, UnderWay, Holds
  <2>2. \A x \in SessionId : FamilyOf(x)' = FamilyOf(x) /\ (x # old => sessions'[x] = sessions[x])
    BY <1>0, <1>s, <1>8, <2>1 DEF RevokeOld, SessionRow
  <2>3. CASE FamilyOf(old) # f
    BY <1>4, <2>1, <2>2, <2>3
  <2>4. CASE FamilyOf(old) = f
    <3>1. SignedIn(f)
      BY <1>b, <1>f, <2>2
    <3>2. /\ old \in SessionId /\ refreshes[r].next \in SessionId /\ refreshes[r].next # old
          /\ FamilyOf(refreshes[r].next) = f /\ sessions[refreshes[r].next].live
      BY <1>s, <2>1, <2>4, <3>1 DEF SignedIn, TokensApart
    <3>3. refreshes[r].next \in Live(f)'
      BY <2>2, <3>2 DEF Live
    <3>4. ASSUME NEW x \in Refreshes, UnderWay(x)', FamilyOf(refreshes[x].session)' = f
          PROVE  (/\ refreshes[x].step \in {"READ", "CREATE", "REVOKE", "ANSWER"}
                  /\ refreshes[x].step # "ANSWER" => sessions[refreshes[x].session].live
                  /\ Holds(x) => sessions[refreshes[x].next].live)'
      <4>1. CASE x = r
        BY <2>1, <2>2, <3>2, <4>1 DEF Holds
      <4>2. CASE x # r
        <5>1. UnderWay(x) /\ refreshes'[x] = refreshes[x] /\ refreshes[x].session \in SessionId
          BY <1>s, <2>1, <3>4, <4>2 DEF UnderWay
        <5>2. refreshes[x].session # old
          <6> SUFFICES ASSUME refreshes[x].session = old
                       PROVE  FALSE
            OBVIOUS
          <6>1. /\ refreshes[x].by \in presented[old] /\ refreshes[r].by \in presented[old]
                /\ refreshes[x].by # refreshes[r].by /\ IsFiniteSet(presented[old])
            BY <2>1, <3>2, <4>2, <5>1 DEF TokensApart
          <6>2. Cardinality(presented[old]) > 1
            BY <6>1, TwoPresented
          <6> QED
            BY <1>c, <2>4, <3>2, <6>2 DEF Calm
        <5>3. Holds(x) => refreshes[x].next \in SessionId /\ refreshes[x].next # old
          BY <1>s, <2>1, <3>2 DEF TokensApart
        <5>4. FamilyOf(refreshes[x].session) = f
          BY <2>2, <3>4, <5>1
        <5> QED
          BY <2>2, <3>1, <5>1, <5>2, <5>3, <5>4 DEF SignedIn, Holds
      <4> QED
        BY <4>1, <4>2
    <3>5. ASSUME cookie # 0, FamilyOf(cookie)' = f, ~sessions'[cookie].live
          PROVE  \E x \in Refreshes : refreshes'[x].step = "ANSWER" /\ refreshes'[x].session = cookie
      <4>1. CASE cookie = old
        BY <2>1, <4>1
      <4>2. CASE cookie # old
        <5>1. cookie \in SessionId /\ FamilyOf(cookie) = f /\ ~sessions[cookie].live
          BY <1>0, <2>2, <2>1, <3>5, <4>2
        <5>2. PICK x \in Refreshes : refreshes[x].step = "ANSWER" /\ refreshes[x].session = cookie
          BY <3>1, <3>5, <5>1 DEF SignedIn
        <5> QED
          BY <2>1, <5>2
      <4> QED
        BY <4>1, <4>2
    <3> QED
      BY <2>1, <3>3, <3>4, <3>5 DEF SignedIn
  <2> QED
    BY <2>3, <2>4
<1>9. ASSUME NEW r \in Refreshes, StoreCookie(r)
      PROVE  SignedIn(f)'
  <2>1. /\ UnderWay(r) /\ Holds(r) /\ sessions' = sessions /\ cookie' = refreshes[r].next
        /\ \A x \in Refreshes : x # r => refreshes'[x] = refreshes[x]
        /\ ~UnderWay(r)'
    BY <1>0, <1>9 DEF StoreCookie, UnderWay, Holds, NoRefresh
  <2>2. refreshes[r].next \in SessionId /\ FamilyOf(refreshes[r].next) = FamilyOf(refreshes[r].session)
    BY <1>s, <2>1 DEF TokensApart
  <2>3. CASE FamilyOf(refreshes[r].session) # f
    BY <1>0, <1>4, <2>1, <2>2, <2>3
  <2>4. CASE FamilyOf(refreshes[r].session) = f
    <3>1. SignedIn(f)
      BY <1>b, <1>f, <2>1
    <3>2. sessions'[cookie'].live
      BY <2>1, <2>4, <3>1 DEF SignedIn
    <3>3. Live(f)' = Live(f)
      BY <2>1 DEF Live
    <3>4. ASSUME NEW x \in Refreshes, UnderWay(x)', FamilyOf(refreshes[x].session)' = f
          PROVE  (/\ refreshes[x].step \in {"READ", "CREATE", "REVOKE", "ANSWER"}
                  /\ refreshes[x].step # "ANSWER" => sessions[refreshes[x].session].live
                  /\ Holds(x) => sessions[refreshes[x].next].live)'
      BY <2>1, <3>1, <3>4 DEF SignedIn, UnderWay, Holds
    <3> QED
      BY <3>1, <3>2, <3>3, <3>4 DEF SignedIn
  <2> QED
    BY <2>3, <2>4
<1>10. ASSUME NEW r \in Refreshes, Denied(r)
      PROVE  SignedIn(f)'
  <2>1. /\ UnderWay(r) /\ sessions' = sessions /\ cookie' = cookie /\ ~UnderWay(r)'
        /\ \A x \in Refreshes : x # r => refreshes'[x] = refreshes[x]
    BY <1>0, <1>10 DEF Denied, UnderWay, NoRefresh
  <2>2. FamilyOf(refreshes[r].session) # f
    <3>1. SignedIn(f)
      BY <1>b, <1>f, <2>1
    <3> QED
      BY <1>10, <2>1, <3>1 DEF SignedIn, Denied
  <2> QED
    BY <1>4, <2>1, <2>2
<1>11. ASSUME NEW r \in Refreshes, LoseRefresh(r)
      PROVE  SignedIn(f)'
  <2>1. /\ UnderWay(r) /\ sessions' = sessions /\ cookie' = cookie /\ ~UnderWay(r)'
        /\ \A x \in Refreshes : x # r => refreshes'[x] = refreshes[x]
        /\ refreshes[r].session \in lostAnswers'
    BY <1>0, <1>11 DEF LoseRefresh, UnderWay, NoRefresh
  <2>2. FamilyOf(refreshes[r].session) # f
    BY <1>s, <2>1 DEF Calm
  <2> QED
    BY <1>4, <2>1, <2>2
<1>12. CASE UNCHANGED sessionVars
  <2>1. sessions' = sessions /\ refreshes' = refreshes /\ cookie' = cookie
    BY <1>12 DEF sessionVars
  <2>2. SignedIn(f)
    BY <1>b, <1>f, <2>1
  <2> QED
    BY <1>0, <2>1, <2>2, LeftAlone
<1>13. CASE ChangePassword \/ \E F \in SUBSET Families : Logout(F)
  BY <1>2, <1>13 DEF ChangePassword, Logout
<1> QED
  BY <1>1, <1>3, <1>5, <1>6, <1>7, <1>8, <1>9, <1>10, <1>11, <1>12, <1>13 DEF SessionsNext

LEMMA EndedIsOverStep ==
    ASSUME SessionsTypeOK, TokensApart, EndedIsOver, [SessionsNext]_sessionVars
    PROVE  EndedIsOver'
<1> SUFFICES ASSUME NEW f \in ended' \ overtaken'
             PROVE  /\ FamilyOf(f)' = f /\ Live(f)' = {}
                    /\ \A r \in Refreshes : refreshes'[r].step = "CREATE"
                          => FamilyOf(refreshes[r].session)' # f
  BY DEF EndedIsOver
<1> USE DEF Continue, FamilyOf
<1>0. /\ sessions \in [SessionId -> SessionRow] /\ refreshes \in [Refreshes -> RefreshState]
      /\ ended \subseteq SessionId /\ 0 \notin SessionId
      /\ \A s \in SessionId : FamilyOf(s) \in SessionId \cup {0}
  BY SessionAssumption DEF SessionsTypeOK, SessionId, SessionRow
<1>s. \A r \in Refreshes : UnderWay(r) => refreshes[r].session \in SessionId
  BY RefreshShape
<1>e. f \in ended /\ f \notin overtaken =>
         /\ f \in SessionId /\ FamilyOf(f) = f /\ \A x \in SessionId : FamilyOf(x) = f => ~sessions[x].live
         /\ \A r \in Refreshes : refreshes[r].step = "CREATE" => FamilyOf(refreshes[r].session) # f
  BY <1>0 DEF EndedIsOver, Live
<1>1. ASSUME NEW F \in SUBSET Families, RevokeFamilies(F),
             \A r \in Refreshes : refreshes'[r].step = "CREATE" => refreshes'[r] = refreshes[r]
      PROVE  /\ FamilyOf(f)' = f /\ Live(f)' = {}
             /\ \A r \in Refreshes : refreshes'[r].step = "CREATE"
                   => FamilyOf(refreshes[r].session)' # f
  <2>1. f \notin overtaken /\ ended' = ended \cup F /\ f \notin F \cap Rotating
    BY <1>1 DEF RevokeFamilies
  <2>2. \A x \in SessionId :
           /\ FamilyOf(x)' = FamilyOf(x)
           /\ FamilyOf(x) \notin F => sessions'[x] = sessions[x]
           /\ FamilyOf(x) \in F => sessions'[x].live = FALSE
    BY <1>1, RevokedSpares
  <2>3. CASE f \in F
    <3>1. f \in SessionId /\ FamilyOf(f) = f
      BY <1>0, <2>3 DEF Families, TokensApart
    <3>2. \A r \in Refreshes : refreshes[r].step = "CREATE" => FamilyOf(refreshes[r].session) # f
      BY <2>1, <2>3 DEF Rotating
    <3>3. Live(f)' = {}
      BY <2>2, <2>3 DEF Live
    <3>4. \A r \in Refreshes : refreshes'[r].step = "CREATE" => refreshes[r].session \in SessionId
      BY <1>1, <1>s DEF UnderWay
    <3> QED
      BY <1>1, <2>2, <3>1, <3>2, <3>3, <3>4
  <2>4. CASE f \notin F
    <3>1. f \in ended
      BY <2>1, <2>4
    <3>2. Live(f)' = {}
      BY <1>e, <2>1, <2>2, <2>4, <3>1 DEF Live
    <3>3. \A r \in Refreshes : refreshes'[r].step = "CREATE" => refreshes[r].session \in SessionId
      BY <1>1, <1>s DEF UnderWay
    <3> QED
      BY <1>1, <1>e, <2>1, <2>2, <3>1, <3>2, <3>3
  <2> QED
    BY <2>3, <2>4
(* What the other steps have in common.                                    *)
<1>2. ASSUME UNCHANGED <<ended, overtaken>>,
             \A x \in SessionId : FamilyOf(x) = f => FamilyOf(x)' = f,
             \A x \in SessionId : FamilyOf(x)' = f /\ sessions'[x].live => FamilyOf(x) = f /\ sessions[x].live,
             \A r \in Refreshes : refreshes'[r].step = "CREATE" /\ FamilyOf(refreshes[r].session)' = f =>
                 \/ refreshes[r].step = "CREATE" /\ FamilyOf(refreshes[r].session) = f
                 \/ \E x \in SessionId : FamilyOf(x) = f /\ sessions[x].live
      PROVE  /\ FamilyOf(f)' = f /\ Live(f)' = {}
             /\ \A r \in Refreshes : refreshes'[r].step = "CREATE"
                   => FamilyOf(refreshes[r].session)' # f
  BY <1>2, <1>e DEF Live
<1>3. CASE SignIn
  <2>1. /\ Newest \in SessionId /\ FamilyOf(Newest) = 0 /\ UNCHANGED <<refreshes, ended, overtaken>>
        /\ sessions' = [sessions EXCEPT ![Newest] = [family |-> Newest, live |-> TRUE]]
    BY <1>3, NewestUnused DEF SignIn
  <2>2. sessions'[Newest] = [family |-> Newest, live |-> TRUE]
    BY <1>0, <2>1
  <2>3. \A x \in SessionId : x # Newest => sessions'[x] = sessions[x]
    BY <1>0, <2>1
  <2>4. f # Newest
    BY <1>0, <1>e, <2>1
  <2>5. \A r \in Refreshes : refreshes[r].step = "CREATE" =>
           refreshes[r].session \in SessionId /\ refreshes[r].session # Newest
    BY <1>s, <2>1 DEF TokensApart, UnderWay
  <2> QED
    BY <1>0, <1>2, <1>e, <2>1, <2>2, <2>3, <2>4, <2>5
<1>4. ASSUME NEW r \in Refreshes, NEW t \in Refreshers, Refresh(t, r)
      PROVE  /\ FamilyOf(f)' = f /\ Live(f)' = {}
             /\ \A x \in Refreshes : refreshes'[x].step = "CREATE"
                   => FamilyOf(refreshes[x].session)' # f
  <2>1. /\ UNCHANGED <<sessions, ended, overtaken>>
        /\ \A x \in Refreshes : refreshes'[x].step = "CREATE" => refreshes'[x] = refreshes[x]
    BY <1>0, <1>4 DEF Refresh
  <2> QED
    BY <1>2, <2>1
<1>5. ASSUME NEW r \in Refreshes, ReadSession(r)
      PROVE  /\ FamilyOf(f)' = f /\ Live(f)' = {}
             /\ \A x \in Refreshes : refreshes'[x].step = "CREATE"
                   => FamilyOf(refreshes[x].session)' # f
  <2>1. /\ UNCHANGED <<sessions, ended, overtaken>> /\ refreshes[r].step = "READ"
        /\ \A x \in Refreshes : x # r => refreshes'[x] = refreshes[x]
        /\ refreshes'[r] = [refreshes[r] EXCEPT !.step =
               IF sessions[refreshes[r].session].live THEN "CREATE" ELSE "KILL"]
    BY <1>0, <1>5 DEF ReadSession
  <2>2. refreshes'[r] = [step |-> IF sessions[refreshes[r].session].live THEN "CREATE" ELSE "KILL",
                         by |-> refreshes[r].by, session |-> refreshes[r].session]
    BY <2>1, RefreshShape
  <2>3. refreshes[r].session \in SessionId
    BY <1>s, <2>1 DEF UnderWay
  <2>4. refreshes'[r].step = "CREATE" => sessions[refreshes[r].session].live
    BY <2>2
  <2> QED
    BY <1>2, <2>1, <2>2, <2>3, <2>4
<1>6. ASSUME NEW r \in Refreshes, KillFamily(r)
      PROVE  /\ FamilyOf(f)' = f /\ Live(f)' = {}
             /\ \A x \in Refreshes : refreshes'[x].step = "CREATE"
                   => FamilyOf(refreshes[x].session)' # f
  <2>1. /\ RevokeFamilies({FamilyOf(refreshes[r].session)})
        /\ \A x \in Refreshes : refreshes'[x].step = "CREATE" => refreshes'[x] = refreshes[x]
    BY <1>0, <1>6 DEF KillFamily
  <2>2. FamilyOf(refreshes[r].session) \in Families
    BY <1>s, <1>6 DEF KillFamily, TokensApart, UnderWay, Families
  <2> QED
    BY <1>1, <2>1, <2>2
<1>7. ASSUME NEW r \in Refreshes, CreateNext(r)
      PROVE  /\ FamilyOf(f)' = f /\ Live(f)' = {}
             /\ \A x \in Refreshes : refreshes'[x].step = "CREATE"
                   => FamilyOf(refreshes[x].session)' # f
  <2> DEFINE old == refreshes[r].session
  <2>1. /\ Newest \in SessionId /\ FamilyOf(Newest) = 0 /\ old \in SessionId
        /\ refreshes[r].step = "CREATE" /\ UNCHANGED <<ended, overtaken>>
        /\ sessions' = [sessions EXCEPT ![Newest] = [family |-> FamilyOf(old), live |-> TRUE]]
        /\ \A x \in Refreshes : refreshes'[x].step = "CREATE" => refreshes'[x] = refreshes[x]
    BY <1>0, <1>s, <1>7, NewestUnused DEF CreateNext, UnderWay
  <2>2. sessions'[Newest] = [family |-> FamilyOf(old), live |-> TRUE]
    BY <1>0, <2>1
  <2>3. \A x \in SessionId : x # Newest => sessions'[x] = sessions[x]
    BY <1>0, <2>1
  <2>4. FamilyOf(old) # f
    BY <1>e, <2>1
  <2>5. \A x \in Refreshes : refreshes[x].step = "CREATE" =>
           refreshes[x].session \in SessionId /\ refreshes[x].session # Newest
    BY <1>s, <2>1 DEF TokensApart, UnderWay
  <2> QED
    BY <1>0, <1>2, <1>e, <2>1, <2>2, <2>3, <2>4, <2>5
<1>8. ASSUME NEW r \in Refreshes, RevokeOld(r)
      PROVE  /\ FamilyOf(f)' = f /\ Live(f)' = {}
             /\ \A x \in Refreshes : refreshes'[x].step = "CREATE"
                   => FamilyOf(refreshes[x].session)' # f
  <2>1. /\ UNCHANGED <<ended, overtaken>>
        /\ \A x \in Refreshes : x # r => refreshes'[x] = refreshes[x]
        /\ refreshes'[r] = [step |-> "ANSWER", by |-> refreshes[r].by,
                            session |-> refreshes[r].session, next |-> refreshes[r].next]
    BY <1>0, <1>8, RefreshShape DEF RevokeOld
  <2>2. \A x \in SessionId : /\ FamilyOf(x)' = FamilyOf(x)
                             /\ sessions'[x].live => sessions[x].live
    BY <1>0, <1>s, <1>8 DEF RevokeOld, UnderWay, SessionRow
  <2>3. \A x \in Refreshes : refreshes'[x].step = "CREATE" =>
           refreshes'[x] = refreshes[x] /\ refreshes[x].session \in SessionId
    BY <1>s, <2>1 DEF UnderWay
  <2> QED
    BY <1>2, <2>1, <2>2, <2>3
<1>9. ASSUME NEW r \in Refreshes, StoreCookie(r) \/ Denied(r) \/ LoseRefresh(r)
      PROVE  /\ FamilyOf(f)' = f /\ Live(f)' = {}
             /\ \A x \in Refreshes : refreshes'[x].step = "CREATE"
                   => FamilyOf(refreshes[x].session)' # f
  <2>1. /\ UNCHANGED <<sessions, ended, overtaken>>
        /\ \A x \in Refreshes : refreshes'[x].step = "CREATE" => refreshes'[x] = refreshes[x]
    BY <1>0, <1>9 DEF StoreCookie, Denied, LoseRefresh, NoRefresh
  <2> QED
    BY <1>2, <2>1
<1>10. CASE UNCHANGED sessionVars
  <2>1. UNCHANGED <<sessions, refreshes, ended, overtaken>>
    BY <1>10 DEF sessionVars
  <2> QED
    BY <1>2, <2>1
<1>11. CASE ChangePassword \/ Logout(Families) \/ \E g \in Families : Logout({g})
  <2>1. PICK F \in SUBSET Families : RevokeFamilies(F) /\ refreshes' = refreshes
    BY <1>11 DEF ChangePassword, Logout
  <2> QED
    BY <1>1, <2>1
<1> QED
  BY <1>3, <1>4, <1>5, <1>6, <1>7, <1>8, <1>9, <1>10, <1>11 DEF SessionsNext

SessionsInv == SessionsTypeOK /\ TokensApart /\ CalmIsSignedIn /\ EndedIsOver

LEMMA SessionsInductive == SessionsSpec => []SessionsInv
<1>1. SessionsInit => SessionsInv
  <2> SUFFICES ASSUME SessionsInit
               PROVE  SessionsInv
    OBVIOUS
  <2>1. \A r \in Refreshes : refreshes[r].step = "FREE"
    BY DEF SessionsInit, NoRefresh
  <2>2. \A s \in SessionId : FamilyOf(s) = 0 /\ presented[s] = {}
    BY DEF SessionsInit, FamilyOf, NoSession
  <2>3. cookie = 0 /\ ended = {}
    BY DEF SessionsInit
  <2>4. TokensApart
    BY <2>1, <2>2, <2>3, FS_EmptySet DEF TokensApart, UnderWay, Holds
  <2>5. CalmIsSignedIn
    BY <2>2 DEF CalmIsSignedIn, Families
  <2>6. EndedIsOver
    BY <2>3 DEF EndedIsOver
  <2> QED
    BY <2>4, <2>5, <2>6, SessionsInitTyped DEF SessionsInv
<1>2. SessionsInv /\ [SessionsNext]_sessionVars => SessionsInv'
  BY SessionsStepTyped, TokensApartStep, CalmIsSignedInStep, EndedIsOverStep DEF SessionsInv
<1> QED
  BY <1>1, <1>2, PTL DEF SessionsSpec

(* SignedInUntilLogout: a family keeps a live session until it is logged   *)
(* out, or a token of it was presented by two refreshers or was lost.      *)
THEOREM StaysSignedIn == SessionsSpec => []SignedInUntilLogout
<1>1. SessionsInv => SignedInUntilLogout
  BY DEF SessionsInv, CalmIsSignedIn, SignedIn, Calm, SignedInUntilLogout
<1> QED
  BY <1>1, SessionsInductive, PTL

(* EndedStaysEnded: nothing revives a family that ended while no refresh   *)
(* was between its read and its insert.                                    *)
THEOREM StaysEnded == SessionsSpec => []EndedStaysEnded
<1>1. SessionsInv => EndedStaysEnded
  BY DEF SessionsInv, EndedIsOver, EndedStaysEnded
<1> QED
  BY <1>1, SessionsInductive, PTL

-----------------------------------------------------------------------------
(* Server keys, and the secret that signs webhooks.                         *)
LEMMA NextKeyIsSpare ==
    ASSUME Spare # {}
    PROVE  NextKey \in Spare
BY DEF NextKey

-----------------------------------------------------------------------------
LEMMA KeysInitTyped == KeysInit => KeysTypeOK
<1> SUFFICES ASSUME KeysInit
             PROVE  KeysTypeOK
  OBVIOUS
<1>1. \A k \in KeyId : [status |-> IF k = 1 THEN "VALID" ELSE "ABSENT",
                        revoke |-> "NEVER", expires |-> "NEVER"] \in KeyRow
  BY DEF KeyRow, When
<1>2. NoRequest \in Request
  BY DEF NoRequest, Request
<1> QED
  BY <1>1, <1>2 DEF KeysInit, KeysTypeOK

LEMMA KeysStepTyped == KeysTypeOK /\ [KeysNext]_keyVars => KeysTypeOK'
<1> SUFFICES ASSUME KeysTypeOK, [KeysNext]_keyVars
             PROVE  KeysTypeOK'
  OBVIOUS
<1> USE DEF KeysTypeOK
<1>1. ASSUME NEW a \in Administrators, NEW k \in KeyId, NEW force \in BOOLEAN,
             BeginRevoke(a, k, force)
      PROVE  KeysTypeOK'
  <2>1. [step |-> "REVOKE", key |-> k] \in Request
    BY DEF Request
  <2>2. waived' \in BOOLEAN
    BY <1>1, Zenon DEF BeginRevoke
  <2> QED
    BY <1>1, <2>1, <2>2 DEF BeginRevoke, Requests
<1>2. ASSUME NEW a \in Administrators, NEW k \in KeyId, NEW graceful \in BOOLEAN,
             RotateKey(a, k, graceful)
      PROVE  KeysTypeOK'
  <2>1. [step |-> "RETIRE", key |-> k, graceful |-> graceful] \in Request
    BY DEF Request
  <2>2. waived' \in BOOLEAN
    BY <1>2, Zenon DEF RotateKey
  <2>3. [status |-> "VALID", revoke |-> "NEVER", expires |-> "NEVER"] \in KeyRow
    BY DEF KeyRow, When
  <2> QED
    BY <1>2, <2>1, <2>2, <2>3 DEF RotateKey, Requests
<1>3. ASSUME NEW a \in Administrators, FinishRevoke(a) \/ RetireKey(a) \/ AbortRequest(a)
      PROVE  KeysTypeOK'
  <2>1. NoRequest \in Request
    BY DEF NoRequest, Request
  <2>2. requests' \in [Administrators -> Request]
    BY <1>3, <2>1 DEF FinishRevoke, RetireKey, AbortRequest, Requests
  <2>3. \A k \in KeyId : /\ [keys[k] EXCEPT !.status = "REVOKED"] \in KeyRow
                         /\ [keys[k] EXCEPT !.revoke = "AHEAD"] \in KeyRow
    BY DEF KeyRow, When
  <2>4. keys' \in [KeyId -> KeyRow]
    BY <1>3, <2>3 DEF FinishRevoke, RetireKey, AbortRequest
  <2> QED
    BY <1>3, <2>2, <2>4 DEF FinishRevoke, RetireKey, AbortRequest
<1>4. ASSUME NEW k \in KeyId, RevokeTimeComes(k) \/ KeyExpiryComes(k)
      PROVE  KeysTypeOK'
  BY <1>4 DEF RevokeTimeComes, KeyExpiryComes, KeyRow, When
<1>5. ASSUME NEW expires \in When, IssueKey(expires)
      PROVE  KeysTypeOK'
  BY <1>5 DEF IssueKey, KeyRow, When
<1>6. CASE EndGracePeriods
  <2>1. \A k \in KeyId : [keys[k] EXCEPT !.status = "REVOKED"] \in KeyRow
    BY DEF KeyRow
  <2> QED
    BY <1>6, <2>1 DEF EndGracePeriods
<1>7. CASE UNCHANGED keyVars
  BY <1>7 DEF keyVars
<1> QED
  BY <1>1, <1>2, <1>3, <1>4, <1>5, <1>6, <1>7 DEF KeysNext

(* Unless something is waived, requests do not overlap and a steady key is *)
(* not the one that the request under way will end.                        *)
KeyGuarded ==
    ~waived =>
        /\ \A a, b \in KeyRequests : a = b
        /\ \E k \in KeyId : Steady(keys[k]) /\ \A a \in KeyRequests : requests[a].key # k

LEMMA AnotherKey ==
    ASSUME NEW k, Cardinality(CountedKeys) > 1
    PROVE  \E x \in CountedKeys : x # k
<1>1. SUFFICES ASSUME CountedKeys \subseteq {k}
               PROVE  FALSE
  BY <1>1
<1>2. IsFiniteSet({k}) /\ Cardinality({k}) = 1
  BY FS_Singleton
<1>3. Cardinality(CountedKeys) <= 1 /\ Cardinality(CountedKeys) \in Nat
  BY <1>1, <1>2, FS_Subset, FS_CardinalityType
<1> QED
  BY <1>3

LEMMA KeyStep ==
    ASSUME KeysTypeOK, KeyGuarded, [KeysNext]_keyVars
    PROVE  KeyGuarded'
<1> SUFFICES ASSUME ~waived'
             PROVE  KeyGuarded'
  BY DEF KeyGuarded
<1> USE DEF KeysTypeOK
<1>0. ~waived
  BY DEF KeysNext, BeginRevoke, RotateKey, FinishRevoke, RetireKey, AbortRequest, RevokeTimeComes,
         KeyExpiryComes, IssueKey, EndGracePeriods, keyVars
<1>1. ASSUME NEW a \in Administrators, NEW k \in KeyId, NEW force \in BOOLEAN,
             BeginRevoke(a, k, force)
      PROVE  KeyGuarded'
  <2>1. KeyRequests = {} /\ keys' = keys
    BY <1>1 DEF BeginRevoke
  <2>2. \E x \in KeyId : x # k /\ Steady(keys[x])
    <3>1. CASE keys[k].status = "VALID"
      <4>1. ~force /\ \A x \in CountedKeys \ {k} : Steady(keys[x])
        BY <1>1, <3>1 DEF BeginRevoke
      <4>2. Cardinality(CountedKeys) > 1
        BY <1>1, <3>1, <4>1 DEF BeginRevoke
      <4> QED
        BY <4>1, <4>2, AnotherKey DEF CountedKeys
    <3>2. CASE keys[k].status # "VALID"
      BY <1>0, <3>2 DEF KeyGuarded, Steady
    <3> QED
      BY <3>1, <3>2
  <2>3. requests' = [requests EXCEPT ![a] = [step |-> "REVOKE", key |-> k]]
    BY <1>1 DEF BeginRevoke, Requests
  <2>4. \A b \in KeyRequests' : b = a
    BY <2>1, <2>3 DEF KeyRequests
  <2>5. requests'[a].key = k
    BY <2>3
  <2> QED
    BY <2>1, <2>2, <2>4, <2>5 DEF KeyGuarded
<1>2. ASSUME NEW a \in Administrators, NEW k \in KeyId, NEW graceful \in BOOLEAN,
             RotateKey(a, k, graceful)
      PROVE  KeyGuarded'
  <2>1. KeyRequests = {}
    BY <1>2 DEF RotateKey
  <2>2. NextKey \in KeyId /\ NextKey # k
    BY <1>2, NextKeyIsSpare DEF RotateKey, Spare
  <2>3. Steady(keys'[NextKey])
    BY <1>2, <2>2 DEF RotateKey, Steady
  <2>4. requests' = [requests EXCEPT ![a] = [step |-> "RETIRE", key |-> k, graceful |-> graceful]]
    BY <1>2 DEF RotateKey, Requests
  <2>5. \A b \in KeyRequests' : b = a
    BY <2>1, <2>4 DEF KeyRequests
  <2>6. requests'[a].key = k
    BY <2>4
  <2> QED
    BY <2>2, <2>3, <2>5, <2>6 DEF KeyGuarded
<1>3. ASSUME \A k \in KeyId : Steady(keys[k]) /\ (\A a \in KeyRequests : requests[a].key # k)
                                => Steady(keys'[k]),
             \A b \in Administrators : requests'[b] = requests[b] \/ b \notin KeyRequests'
      PROVE  KeyGuarded'
  <2>1. \A b \in KeyRequests' : b \in KeyRequests /\ requests'[b] = requests[b]
    BY <1>3 DEF KeyRequests
  <2> QED
    BY <1>0, <1>3, <2>1 DEF KeyGuarded
<1>4. ASSUME NEW a \in Administrators, FinishRevoke(a) \/ RetireKey(a) \/ AbortRequest(a)
      PROVE  KeyGuarded'
  <2>1. requests' = [requests EXCEPT ![a] = NoRequest]
    BY <1>4 DEF FinishRevoke, RetireKey, AbortRequest, Requests
  <2>2. \A b \in Administrators : requests'[b] = requests[b] \/ b \notin KeyRequests'
    BY <2>1 DEF KeyRequests, NoRequest
  <2>3. \A k \in KeyId : keys'[k] = keys[k] \/ (a \in KeyRequests /\ requests[a].key = k)
    BY <1>4 DEF FinishRevoke, RetireKey, AbortRequest, KeyRequests
  <2> QED
    BY <1>3, <2>2, <2>3
<1>5. ASSUME NEW k \in KeyId, RevokeTimeComes(k) \/ KeyExpiryComes(k)
      PROVE  KeyGuarded'
  <2>1. ~Steady(keys[k]) /\ (\A x \in KeyId : x # k => keys'[x] = keys[x]) /\ UNCHANGED requests
    BY <1>5 DEF RevokeTimeComes, KeyExpiryComes, Steady
  <2> QED
    BY <1>3, <2>1
<1>6. ASSUME NEW expires \in When, IssueKey(expires)
      PROVE  KeyGuarded'
  <2>1. \A x \in KeyId : Steady(keys[x]) => keys'[x] = keys[x]
    BY <1>6, NextKeyIsSpare DEF IssueKey, Spare, Steady, Issued
  <2>2. UNCHANGED requests
    BY <1>6 DEF IssueKey
  <2> QED
    BY <1>3, <2>1, <2>2
<1>7. CASE EndGracePeriods
  <2>1. (\A x \in KeyId : Steady(keys[x]) => keys'[x] = keys[x]) /\ UNCHANGED requests
    BY <1>7 DEF EndGracePeriods, Steady
  <2> QED
    BY <1>3, <2>1
<1>8. CASE UNCHANGED keyVars
  BY <1>3, <1>8 DEF keyVars
<1> QED
  BY <1>1, <1>2, <1>4, <1>5, <1>6, <1>7, <1>8 DEF KeysNext

(* KeysTypeOK: the key rows and the requests under way keep their types.   *)
THEOREM KeysTyping == KeysSpec => []KeysTypeOK
BY KeysInitTyped, KeysStepTyped, PTL DEF KeysSpec

(* KeyLeft: a company keeps a SERVER key that authenticates.               *)
THEOREM CompanyKeepsKey == KeysSpec => []KeyLeft
<1>1. KeysInit => KeyGuarded
  <2> SUFFICES ASSUME KeysInit
               PROVE  KeyGuarded
    OBVIOUS
  <2>1. 1 \in KeyId /\ Steady(keys[1])
    BY KeyAssumption DEF KeysInit, KeyId, Steady
  <2>2. KeyRequests = {}
    BY DEF KeysInit, KeyRequests, NoRequest
  <2> QED
    BY <2>1, <2>2 DEF KeyGuarded
<1>2. KeyGuarded => KeyLeft
  BY DEF KeyGuarded, KeyLeft, Steady, Authenticates
<1> QED
  BY <1>1, <1>2, KeysInitTyped, KeysStepTyped, KeyStep, PTL DEF KeysSpec

-----------------------------------------------------------------------------
LEMMA SecretInitTyped == SecretInit => SecretTypeOK
<1> SUFFICES ASSUME SecretInit
             PROVE  SecretTypeOK
  OBVIOUS
<1>1. 1 \in SecretId
  BY SecretAssumption DEF SecretId
<1>2. [current |-> 1, previous |-> 0, recent |-> FALSE] \in CompanyRow
  BY <1>1 DEF CompanyRow
<1> QED
  BY <1>1, <1>2 DEF SecretInit, SecretTypeOK

LEMMA SecretStepTyped == SecretTypeOK /\ [SecretNext]_secretVars => SecretTypeOK'
<1> SUFFICES ASSUME SecretTypeOK, [SecretNext]_secretVars
             PROVE  SecretTypeOK'
  OBVIOUS
<1>0. ASSUME NEW a \in Rotators, ReplaceSecret(a)
      PROVE  crossed' \in BOOLEAN
  BY <1>0, Zenon DEF ReplaceSecret
<1> USE SecretAssumption DEF SecretTypeOK, SecretId, CompanyRow
<1>1. ASSUME NEW a \in Rotators, ReadSecret(a) \/ AbortRotation(a)
      PROVE  SecretTypeOK'
  BY <1>1 DEF ReadSecret, AbortRotation
<1>2. ASSUME NEW a \in Rotators, ReplaceSecret(a)
      PROVE  SecretTypeOK'
  <2>1. crossed' \in BOOLEAN
    BY <1>0, <1>2
  <2>2. secret.current \in SecretId /\ rotations[a] \in SecretId
    BY <1>2 DEF ReplaceSecret
  <2>3. secret.current + 1 \in SecretId
    BY <1>2, <2>2 DEF ReplaceSecret
  <2>4. secret' \in CompanyRow
    BY <1>2, <2>2, <2>3 DEF ReplaceSecret
  <2>5. rotations' \in [Rotators -> SecretId \cup {0}] /\ promised' \subseteq SecretId
    BY <1>2, <2>2 DEF ReplaceSecret
  <2> QED
    BY <2>1, <2>4, <2>5
<1>3. CASE WeekPasses \/ ClearPrevious
  BY <1>3 DEF WeekPasses, ClearPrevious
<1>4. CASE UNCHANGED secretVars
  BY <1>4 DEF secretVars
<1> QED
  BY <1>1, <1>2, <1>3, <1>4 DEF SecretNext

(* Unless rotations crossed, what is promised is the previous secret, and  *)
(* its seven days are not over.                                            *)
PromiseKept ==
    ~crossed => promised \subseteq {secret.previous} \ {0} /\ (promised # {} => secret.recent)

LEMMA PromiseStep ==
    ASSUME SecretTypeOK, PromiseKept, [SecretNext]_secretVars
    PROVE  PromiseKept'
<1> USE DEF SecretTypeOK, SecretId, CompanyRow, PromiseKept
<1>1. ASSUME NEW a \in Rotators, ReadSecret(a) \/ AbortRotation(a)
      PROVE  PromiseKept'
  BY <1>1 DEF ReadSecret, AbortRotation
<1>2. ASSUME NEW a \in Rotators, ReplaceSecret(a)
      PROVE  PromiseKept'
  BY <1>2 DEF ReplaceSecret
<1>3. CASE WeekPasses
  BY <1>3 DEF WeekPasses
<1>4. CASE ClearPrevious
  BY <1>4 DEF ClearPrevious
<1>5. CASE UNCHANGED secretVars
  BY <1>5 DEF secretVars
<1> QED
  BY <1>1, <1>2, <1>3, <1>4, <1>5 DEF SecretNext

(* PromisedSecretSigns: a replaced secret signs for its seven days.        *)
THEOREM ReplacedSecretSigns == SecretSpec => []PromisedSecretSigns
<1>1. SecretInit => PromiseKept
  BY DEF SecretInit, PromiseKept
<1>2. SecretTypeOK /\ PromiseKept => PromisedSecretSigns
  <2> SUFFICES ASSUME SecretTypeOK, PromiseKept,
                      NEW held \in {secret.current} \cup IF crossed THEN {} ELSE promised
               PROVE  VerifyWebhook(held, SignWebhook(SecretsFor), Tolerance)
    BY DEF PromisedSecretSigns
  <2> DEFINE header == SignWebhook(SecretsFor)
  <2>1. <<"v1", secret.current>> \in header
    BY DEF SignWebhook, SecretsFor
  <2>2. CASE held = secret.current
    BY <2>1, <2>2 DEF VerifyWebhook, Tolerance
  <2>3. CASE held # secret.current
    <3>1. held = secret.previous /\ held # 0 /\ secret.recent
      BY <2>3 DEF PromiseKept
    <3>2. <<"v0", held>> \in header
      BY <3>1 DEF SignWebhook, SecretsFor
    <3> QED
      BY <3>2 DEF VerifyWebhook, Tolerance
  <2> QED
    BY <2>2, <2>3
<1> QED
  BY <1>1, <1>2, SecretInitTyped, SecretStepTyped, PromiseStep, PTL DEF SecretSpec
=============================================================================
