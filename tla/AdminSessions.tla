----------------------------- MODULE AdminSessions -----------------------------
(***************************************************************************)
(* Refresh tokens of one administrator's browser: the refreshers of the    *)
(* admin interface's tabs share its cookie, and every statement of         *)
(* POST /auth/refresh is a step of its own.  A refresh token is named by   *)
(* its session; a session family begins with a sign-in and is named by its *)
(* first session.                                                          *)
(***************************************************************************)
EXTENDS Naturals, FiniteSets

CONSTANTS
    Refreshers,     \* those that share one refresh each: two of a tab, api-client's
                    \* and the one of Providers
    Refreshes,      \* refresh requests under way at once
    MaxSessions     \* bound: rows of admin_sessions

ASSUME SessionAssumption == MaxSessions \in Nat

VARIABLES
    sessions,   \* admin_sessions, in the order they are created
    cookie,     \* the session the browser's refresh cookie names, 0 for none
    refreshes,  \* refresh requests
    presented,  \* history: the refreshers that presented each session's token
    lostAnswers, \* history: sessions whose refresh was never answered
    ended,      \* history: families whose sessions were all revoked at once
    loggedOut,  \* history: those of them that were logged out
    overtaken   \* history: families ended between a refresh's read and its insert

sessionVars == <<sessions, cookie, refreshes, presented, lostAnswers, ended, loggedOut, overtaken>>

-----------------------------------------------------------------------------
SessionId == 1 .. MaxSessions
SessionRow == [family : SessionId \cup {0}, live : BOOLEAN]
NoSession == [family |-> 0, live |-> FALSE]

RefreshState ==
    [step : {"FREE"}]
    \cup [step : {"READ", "CREATE", "KILL"}, by : Refreshers, session : SessionId]
    \cup [step : {"REVOKE", "ANSWER"}, by : Refreshers, session : SessionId, next : SessionId]
    \cup [step : {"DENIED"}, by : Refreshers, session : SessionId]

NoRefresh == [step |-> "FREE"]
UnderWay(r) == refreshes[r].step # "FREE"
Continue(r, state) == refreshes' = [refreshes EXCEPT ![r] = state]
FamilyOf(s) == sessions[s].family
Families == {FamilyOf(s) : s \in SessionId} \ {0}
Live(f) == {s \in SessionId : FamilyOf(s) = f /\ sessions[s].live}
Unused == {s \in SessionId : FamilyOf(s) = 0}
Newest == CHOOSE s \in Unused : \A x \in Unused : s <= x

SessionsInit ==
    /\ sessions = [s \in SessionId |-> NoSession]
    /\ cookie = 0
    /\ refreshes = [r \in Refreshes |-> NoRefresh]
    /\ presented = [s \in SessionId |-> {}]
    /\ lostAnswers = {}
    /\ ended = {}
    /\ loggedOut = {}
    /\ overtaken = {}

(* POST 2fa/verify succeeds: SessionService.issue, and the browser has the *)
(* new cookie in place of the one before.                                  *)
SignIn ==
    /\ Unused # {}
    /\ sessions' = [sessions EXCEPT ![Newest] = [family |-> Newest, live |-> TRUE]]
    /\ cookie' = Newest
    /\ UNCHANGED <<refreshes, presented, lostAnswers, ended, loggedOut, overtaken>>

(* Mutant of Refresh: every request that meets a 401 refreshes for itself. *)
RefreshEach(t, r) ==
    /\ cookie # 0 /\ ~UnderWay(r)
    /\ Continue(r, [step |-> "READ", by |-> t, session |-> cookie])
    /\ presented' = [presented EXCEPT ![cookie] = @ \cup {t}]
    /\ UNCHANGED <<sessions, cookie, lostAnswers, ended, loggedOut, overtaken>>

(* apiRequest meets a 401, or Providers recovers a session on a hard       *)
(* reload.  singleFlight: the requests of one refresher share one refresh. *)
Refresh(t, r) ==
    /\ cookie # 0 /\ ~UnderWay(r)
    /\ \A x \in Refreshes : UnderWay(x) => refreshes[x].by # t
    /\ Continue(r, [step |-> "READ", by |-> t, session |-> cookie])
    /\ presented' = [presented EXCEPT ![cookie] = @ \cup {t}]
    /\ UNCHANGED <<sessions, cookie, lostAnswers, ended, loggedOut, overtaken>>

(* Mutant of ReadSession: a revoked session is rotated like any other.     *)
ReadUnchecked(r) ==
    /\ refreshes[r].step = "READ"
    /\ Continue(r, [refreshes[r] EXCEPT !.step = "CREATE"])
    /\ UNCHANGED <<sessions, cookie, presented, lostAnswers, ended, loggedOut, overtaken>>

(* SessionService.rotate reads the session the token names.                *)
ReadSession(r) ==
    /\ refreshes[r].step = "READ"
    /\ Continue(r, [refreshes[r] EXCEPT !.step =
          IF sessions[refreshes[r].session].live THEN "CREATE" ELSE "KILL"])
    /\ UNCHANGED <<sessions, cookie, presented, lostAnswers, ended, loggedOut, overtaken>>

(* The families in which a refresh has read and not yet inserted.          *)
Rotating == {FamilyOf(refreshes[r].session) : r \in {r \in Refreshes : refreshes[r].step = "CREATE"}}

RevokeFamilies(F) ==
    /\ sessions' = [s \in SessionId |->
          IF FamilyOf(s) \in F THEN [sessions[s] EXCEPT !.live = FALSE] ELSE sessions[s]]
    /\ ended' = ended \cup F
    /\ overtaken' = overtaken \cup (F \cap Rotating)

(* A token that was rotated before: its family ends.                       *)
KillFamily(r) ==
    /\ refreshes[r].step = "KILL"
    /\ RevokeFamilies({FamilyOf(refreshes[r].session)})
    /\ Continue(r, [step |-> "DENIED", by |-> refreshes[r].by,
                    session |-> refreshes[r].session])
    /\ UNCHANGED <<cookie, presented, lostAnswers, loggedOut>>

(* The next session is created first, then the old one is revoked.         *)
CreateNext(r) ==
    /\ refreshes[r].step = "CREATE" /\ Unused # {}
    /\ LET old == refreshes[r].session
       IN  /\ sessions' = [sessions EXCEPT ![Newest] = [family |-> FamilyOf(old), live |-> TRUE]]
           /\ Continue(r, [step |-> "REVOKE", by |-> refreshes[r].by,
                           session |-> old, next |-> Newest])
    /\ UNCHANGED <<cookie, presented, lostAnswers, ended, loggedOut, overtaken>>

RevokeOld(r) ==
    /\ refreshes[r].step = "REVOKE"
    /\ sessions' = [sessions EXCEPT ![refreshes[r].session].live = FALSE]
    /\ Continue(r, [refreshes[r] EXCEPT !.step = "ANSWER"])
    /\ UNCHANGED <<cookie, presented, lostAnswers, ended, loggedOut, overtaken>>

(* The browser stores the cookie of the answer, in the order answers come. *)
StoreCookie(r) ==
    /\ refreshes[r].step = "ANSWER"
    /\ cookie' = refreshes[r].next
    /\ Continue(r, NoRefresh)
    /\ UNCHANGED <<sessions, presented, lostAnswers, ended, loggedOut, overtaken>>

(* api-client's tab goes to the login page; the cookie stays.              *)
Denied(r) ==
    /\ refreshes[r].step = "DENIED"
    /\ Continue(r, NoRefresh)
    /\ UNCHANGED <<sessions, cookie, presented, lostAnswers, ended, loggedOut, overtaken>>

(* The request or its answer is lost, the tab closes, or the server dies   *)
(* between two statements.                                                 *)
LoseRefresh(r) ==
    /\ UnderWay(r)
    /\ lostAnswers' = lostAnswers \cup {refreshes[r].session}
    /\ Continue(r, NoRefresh)
    /\ UNCHANGED <<sessions, cookie, presented, ended, loggedOut, overtaken>>

(* POST /auth/logout, for the family of the access token; logout-all, for  *)
(* every family.                                                           *)
Logout(F) ==
    /\ F # {} /\ RevokeFamilies(F)
    /\ loggedOut' = loggedOut \cup F
    /\ cookie' = 0
    /\ UNCHANGED <<refreshes, presented, lostAnswers>>

(* POST /auth/password: revokeAll, and the cookie stays.                   *)
ChangePassword ==
    /\ Families # {} /\ RevokeFamilies(Families)
    /\ loggedOut' = loggedOut \cup Families
    /\ UNCHANGED <<cookie, refreshes, presented, lostAnswers>>

SessionsNext ==
    \/ SignIn \/ ChangePassword
    \/ \E f \in Families : Logout({f})
    \/ Logout(Families)
    \/ \E t \in Refreshers, r \in Refreshes : Refresh(t, r)
    \/ \E r \in Refreshes :
          \/ ReadSession(r) \/ KillFamily(r) \/ CreateNext(r) \/ RevokeOld(r)
          \/ StoreCookie(r) \/ Denied(r) \/ LoseRefresh(r)

SessionsSpec == SessionsInit /\ [][SessionsNext]_sessionVars

-----------------------------------------------------------------------------
SessionsTypeOK ==
    /\ sessions \in [SessionId -> SessionRow]
    /\ cookie \in SessionId \cup {0}
    /\ refreshes \in [Refreshes -> RefreshState]
    /\ presented \in [SessionId -> SUBSET Refreshers]
    /\ lostAnswers \subseteq SessionId
    /\ ended \subseteq SessionId
    /\ loggedOut \subseteq ended
    /\ overtaken \subseteq SessionId

(* Nobody is signed out by his own browser: a family keeps a live session  *)
(* until it is logged out, or one of its tokens is presented by two        *)
(* refreshers (two tabs, or the two of one tab on a hard reload), or again *)
(* after an answer that was lost (rotate against singleFlight, "parallel   *)
(* 401s trigger exactly one refresh").                                     *)
SignedInUntilLogout ==
    \A f \in Families \ loggedOut :
        \/ Live(f) # {}
        \/ \E s \in SessionId : FamilyOf(s) = f
                              /\ (s \in lostAnswers \/ Cardinality(presented[s]) > 1)

(* A family that was logged out, or killed on the reuse of a token, stays  *)
(* ended: only a refresh that had read its session before and inserts the  *)
(* next one after can outlive it (rotate, revokeCurrent and revokeAll).    *)
EndedStaysEnded == \A f \in ended \ overtaken : Live(f) = {}
=============================================================================
