----------------------------- MODULE WebhookSecret ------------------------------
(***************************************************************************)
(* The webhook secret of one company: rotation by administrators whose     *)
(* requests may overlap, and the worker that clears the previous secret.   *)
(* Secrets are numbered in the order they are issued.                      *)
(***************************************************************************)
EXTENDS Naturals

CONSTANTS
    Rotators,       \* administrators with a rotation under way
    MaxSecrets      \* bound: webhook secrets ever issued

ASSUME SecretAssumption == MaxSecrets \in Nat \ {0}

VARIABLES
    secret,     \* companies: webhook_secret_enc, webhook_secret_prev_enc and
                \* whether webhook_secret_rotated_at is less than 7 days ago
    rotations,  \* per administrator, the secret his rotation has read, or 0
    promised,   \* history: replaced secrets whose dual_sign_until is to come
    crossed     \* history: a secret was rotated again within the 7 days

secretVars == <<secret, rotations, promised, crossed>>

-----------------------------------------------------------------------------
SecretId == 1 .. MaxSecrets

(* The columns of a company that bear its secret.                          *)
CompanyRow == [current : SecretId, previous : SecretId \cup {0}, recent : BOOLEAN]

(* CompaniesService.create issues the first secret.                        *)
SecretInit ==
    /\ secret = [current |-> 1, previous |-> 0, recent |-> FALSE]
    /\ rotations = [a \in Rotators |-> 0]
    /\ promised = {}
    /\ crossed = FALSE

(* WebhookSecretService.rotate reads the company.                          *)
ReadSecret(a) ==
    /\ rotations[a] = 0
    /\ rotations' = [rotations EXCEPT ![a] = secret.current]
    /\ UNCHANGED <<secret, promised, crossed>>

(* It keeps what it read as the previous secret.  The response promises    *)
(* that the replaced secret signs for seven days (dual_sign_until).        *)
ReplaceSecret(a) ==
    /\ rotations[a] # 0 /\ secret.current < MaxSecrets
    /\ secret' = [current |-> secret.current + 1, previous |-> rotations[a], recent |-> TRUE]
    /\ promised' = promised \cup {secret.current}
    /\ crossed' = (crossed \/ promised # {} \/ rotations[a] # secret.current)
    /\ rotations' = [rotations EXCEPT ![a] = 0]

(* The request dies before its update.                                     *)
AbortRotation(a) ==
    /\ rotations[a] # 0
    /\ rotations' = [rotations EXCEPT ![a] = 0]
    /\ UNCHANGED <<secret, promised, crossed>>

(* Seven days since the last rotation.                                     *)
WeekPasses ==
    /\ secret.recent
    /\ secret' = [secret EXCEPT !.recent = FALSE]
    /\ promised' = {}
    /\ UNCHANGED <<rotations, crossed>>

(* Mutant of ClearPrevious: the previous secret goes with the next tick.   *)
ClearAtOnce ==
    /\ secret.previous # 0
    /\ secret' = [secret EXCEPT !.previous = 0]
    /\ UNCHANGED <<rotations, promised, crossed>>

(* CleanupCredentialsProcessor.tick, the previous secret.                  *)
ClearPrevious ==
    /\ secret.previous # 0 /\ ~secret.recent
    /\ secret' = [secret EXCEPT !.previous = 0]
    /\ UNCHANGED <<rotations, promised, crossed>>

(* SignerService.secretsFor: what a delivery is signed with.               *)
SecretsFor ==
    [secret |-> secret.current, prevSecret |-> IF secret.recent THEN secret.previous ELSE 0]

(* signWebhook: the header has a signature with the secret (v1) and one    *)
(* with the previous secret when there is one (v0).  A signature stands    *)
(* for the secret it is made with: two secrets never sign a body alike.    *)
SignWebhook(input) ==
    IF input.prevSecret # 0
    THEN {<<"v1", input.secret>>, <<"v0", input.prevSecret>>}
    ELSE {<<"v1", input.secret>>}

(* verifyWebhook, which the clients' snippets copy, in the hands of a      *)
(* client that holds one secret: any of the header's signatures serves,    *)
(* until the header is older than the tolerance of five minutes.           *)
Tolerance == 300
VerifyWebhook(held, header, age) ==
    /\ age <= Tolerance
    /\ \E signature \in header : signature[1] \in {"v1", "v0"} /\ signature[2] = held

SecretNext ==
    \/ \E a \in Rotators : ReadSecret(a) \/ ReplaceSecret(a) \/ AbortRotation(a)
    \/ WeekPasses \/ ClearPrevious

SecretSpec == SecretInit /\ [][SecretNext]_secretVars

-----------------------------------------------------------------------------
SecretTypeOK ==
    /\ secret \in CompanyRow
    /\ rotations \in [Rotators -> SecretId \cup {0}]
    /\ promised \subseteq SecretId
    /\ crossed \in BOOLEAN

(* For seven days after a rotation a client that still holds the replaced  *)
(* secret accepts every delivery that reaches it in time, as               *)
(* dual_sign_until promises, unless the secret is rotated again before;    *)
(* a client that holds the current one always does (secretsFor,            *)
(* signWebhook and the cleanup against rotate and verifyWebhook).          *)
PromisedSecretSigns ==
    \A held \in {secret.current} \cup IF crossed THEN {} ELSE promised :
        VerifyWebhook(held, SignWebhook(SecretsFor), Tolerance)
=============================================================================
