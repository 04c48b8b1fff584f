---------------------------- MODULE TotpEnrolment -----------------------------
(***************************************************************************)
(* How one administrator comes by a second factor: enrolment pages that    *)
(* ask for a secret as soon as they open, and the first code that makes    *)
(* the secret count.  Pages overlap (two tabs, a reload, a retry), answers *)
(* get lost, and the token of a page serves any number of requests until   *)
(* it expires.  A secret and the recovery codes made with it are named by  *)
(* one number.                                                             *)
(***************************************************************************)
EXTENDS Naturals

CONSTANTS
    Pages,              \* pages open at once
    MaxEnrolments       \* bound: secrets ever generated

ASSUME EnrolmentAssumption == MaxEnrolments \in Nat

VARIABLES
    account,    \* admin_users: totp_secret_enc, recovery_codes_hash, totp_enrolled_at
    pages,      \* the pages, with the purpose of their MFA token and their request
    generated,  \* history: secrets generated
    shown,      \* history: secrets whose page the administrator saw
    confirmed,  \* history: secrets of which a code was accepted
    replaced    \* history: a secret was written after another's code had been asked for

totpVars == <<account, pages, generated, shown, confirmed, replaced>>

-----------------------------------------------------------------------------
NoSecret == 0
Secrets == 1 .. MaxEnrolments
Account == [secret : Secrets \cup {NoSecret}, codes : Secrets \cup {NoSecret},
            enrolled : BOOLEAN]
Factors == {"TOTP", "RECOVERY"}

PageState ==
    [step : {"CLOSED"}]
    \cup [step : {"OPEN"}, purpose : {"mfa", "enroll"}]
    \cup [step : {"ASKED"}, purpose : {"enroll"}, secret : Secrets]
    \cup [step : {"VERIFY", "FINISH"}, purpose : {"mfa", "enroll"}, factor : Factors,
          of : Secrets, read : Account]

Closed == [step |-> "CLOSED"]
Open(purpose) == [step |-> "OPEN", purpose |-> purpose]
PageAt(p, step) == pages[p].step = step
Turn(p, state) == pages' = [pages EXCEPT ![p] = state]

TotpInit ==
    /\ account = [secret |-> NoSecret, codes |-> NoSecret, enrolled |-> FALSE]
    /\ pages = [p \in Pages |-> Closed]
    /\ generated = 0
    /\ shown = {} /\ confirmed = {}
    /\ replaced = FALSE

(* The password is right: a token for one stage or the other.              *)
Challenge(p) ==
    /\ PageAt(p, "CLOSED")
    /\ Turn(p, Open(IF account.enrolled THEN "mfa" ELSE "enroll"))
    /\ UNCHANGED <<account, generated, shown, confirmed, replaced>>

-----------------------------------------------------------------------------
(* Mutant of EnrolSecret: the account is enrolled before a code was entered.     *)
EnrolSecretAtOnce(p) ==
    /\ PageAt(p, "OPEN") /\ pages[p].purpose = "enroll" /\ generated < MaxEnrolments
    /\ generated' = generated + 1
    /\ account' = [secret |-> generated', codes |-> generated', enrolled |-> TRUE]
    /\ Turn(p, [step |-> "ASKED", purpose |-> "enroll", secret |-> generated'])
    /\ replaced' = (replaced \/ account.enrolled \/ \E x \in Pages :
                        pages[x].step \in {"VERIFY", "FINISH"})
    /\ UNCHANGED <<shown, confirmed>>

(* enrol: both columns in one update, whatever they hold and even if the   *)
(* account has been enrolled since the token was issued.                   *)
EnrolSecret(p) ==
    /\ PageAt(p, "OPEN") /\ pages[p].purpose = "enroll" /\ generated < MaxEnrolments
    /\ generated' = generated + 1
    /\ account' = [account EXCEPT !.secret = generated', !.codes = generated']
    /\ Turn(p, [step |-> "ASKED", purpose |-> "enroll", secret |-> generated'])
    /\ replaced' = (replaced \/ account.enrolled \/ \E x \in Pages :
                        pages[x].step \in {"VERIFY", "FINISH"})
    /\ UNCHANGED <<shown, confirmed>>

(* The answer arrives, or the page asks again without it.                  *)
EnrolAnswer(p, lost) ==
    /\ PageAt(p, "ASKED")
    /\ shown' = IF lost THEN shown ELSE shown \cup {pages[p].secret}
    /\ Turn(p, Open("enroll"))
    /\ UNCHANGED <<account, generated, confirmed, replaced>>

-----------------------------------------------------------------------------
(* verify reads the account; the code is of any secret the administrator   *)
(* has seen, or a recovery code that came with it.                         *)
EnterCode(p, factor, s) ==
    /\ PageAt(p, "OPEN") /\ s \in shown /\ account.secret # NoSecret
    /\ Turn(p, [step |-> "VERIFY", purpose |-> pages[p].purpose, factor |-> factor, of |-> s,
                read |-> account])
    /\ UNCHANGED <<account, generated, shown, confirmed, replaced>>

(* A recovery code is consumed by writing the others back as they were     *)
(* read.                                                                   *)
CheckCode(p) ==
    /\ PageAt(p, "VERIFY")
    /\ LET page == pages[p]
           ok == page.of = IF page.factor = "TOTP" THEN page.read.secret ELSE page.read.codes
       IN  /\ Turn(p, IF ok THEN [page EXCEPT !.step = "FINISH"] ELSE Open(page.purpose))
           /\ account' = IF ok /\ page.factor = "RECOVERY"
                         THEN [account EXCEPT !.codes = page.read.codes] ELSE account
           /\ confirmed' = IF ok THEN confirmed \cup {page.of} ELSE confirmed
    /\ UNCHANGED <<generated, shown, replaced>>

(* totp_enrolled_at, when it was null as read; then the session.           *)
FinishVerify(p) ==
    /\ PageAt(p, "FINISH")
    /\ account' = IF pages[p].read.enrolled THEN account ELSE [account EXCEPT !.enrolled = TRUE]
    /\ Turn(p, Closed)
    /\ UNCHANGED <<generated, shown, confirmed, replaced>>

(* The page is closed, its token expires, or the server dies.              *)
LeavePage(p) ==
    /\ ~PageAt(p, "CLOSED")
    /\ Turn(p, Closed)
    /\ UNCHANGED <<account, generated, shown, confirmed, replaced>>

TotpNext ==
    \E p \in Pages :
        \/ Challenge(p) \/ EnrolSecret(p) \/ CheckCode(p) \/ FinishVerify(p) \/ LeavePage(p)
        \/ \E lost \in BOOLEAN : EnrolAnswer(p, lost)
        \/ \E factor \in Factors, s \in Secrets : EnterCode(p, factor, s)

TotpSpec == TotpInit /\ [][TotpNext]_totpVars

-----------------------------------------------------------------------------
TotpTypeOK ==
    /\ account \in Account
    /\ pages \in [Pages -> PageState]
    /\ generated \in 0 .. MaxEnrolments
    /\ shown \subseteq Secrets /\ confirmed \subseteq shown
    /\ replaced \in BOOLEAN

(* An account that demands a second factor has one its administrator holds *)
(* and has used, with the recovery codes shown next to it: pages that were *)
(* lost, reloaded or open twice before do not lock him out, as long as     *)
(* none asks for a secret after another's code was entered (enrol writes   *)
(* unconditionally, verify marks what it read as enrolled).                *)
EnrolledIsConfirmed ==
    account.enrolled /\ ~replaced =>
        account.secret \in confirmed /\ account.codes = account.secret
=============================================================================
