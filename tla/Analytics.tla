-------------------------------- MODULE Analytics -------------------------------
(***************************************************************************)
(* The dashboard's figures (analytics.service.ts): seven reports, each a   *)
(* few SQL aggregates run one after the other, behind a read-through cache *)
(* in Redis (cache.ts).  What the tables hold is given: any commit of the  *)
(* rest of the system may fall between two statements.  A report is kept   *)
(* under a key made of its name and its parameters; requests that miss     *)
(* together all compute it, and the last to finish overwrites the others.  *)
(***************************************************************************)
EXTENDS Integers, Sequences, FiniteSetsExt

CONSTANTS
    Contents,       \* successive contents of the tables a report reads
    Dashboards,     \* sets of requests: what the pages of the admin UI ask
    Viewers,        \* concurrent requests
    DayLength,      \* ticks of the clock
    DhakaLead,      \* by how much a day begins earlier in Dhaka than in UTC
    CacheTTL,       \* TTL_SEC
    Slowest,        \* bound: how long a report's statements take
    LastTick        \* bound: the clock

ASSUME AnalyticsAssumption ==
    /\ DayLength \in Nat \ {0} /\ DhakaLead \in 0 .. DayLength
    /\ Len(Contents) \in Nat \ {0} /\ DOMAIN Contents = 1 .. Len(Contents)
    /\ CacheTTL \in Nat \ {0} /\ Slowest \in Nat /\ LastTick \in Nat \ {0}

VARIABLES
    dashboard,  \* the requests of this behaviour
    past,       \* the contents of the tables at every tick (an index); the last is now
    figuresKept,\* Redis: the entry of each key
    views,      \* what each request in flight is about to do
    answered       \* history: the answer the last step gave, if it gave one

analyticsVars == <<dashboard, past, figuresKept, views, answered>>

-----------------------------------------------------------------------------
(* Requests                                                                *)

Nothing == "NONE"
Reports == {"overview", "providers", "daily", "funnel", "methods", "companies", "parser-health"}
Ranges == {"7d", "30d", "90d"}
AskedOf(companyIds) ==
    [report : Reports \ {"daily", "parser-health"}, range : Ranges, company : {Nothing}]
    \cup [report : {"daily"}, range : Ranges, company : companyIds \cup {Nothing}]
    \cup [report : {"parser-health"}, range : {Nothing}, company : {Nothing}]
ASSUME DashboardsAssumption == \A d \in Dashboards : \A q \in d : q \in AskedOf({q.company})

(* An unknown range counts as 30 days.                                     *)
Days(range) == CASE range = "7d" -> 7 [] range = "90d" -> 90 [] OTHER -> 30
Since(range, at) == at - Days(range) * DayLength

(* Mutant of Key: a company's daily figures are kept with everybody's.     *)
KeyOfRange(q) == <<q.report, q.range>>

Key(q) == IF q.report = "parser-health" THEN <<q.report>>
          ELSE IF q.report = "daily" THEN <<q.report, q.range, q.company>>
          ELSE <<q.report, q.range>>

-----------------------------------------------------------------------------
(* The reports: the figures of each statement, on the tables db.           *)

With(rows, status) == Cardinality({r \in rows : r.status = status})
Taka(rows) == MapThenSumSet(LAMBDA r : r.amount, rows)
Rate(part, whole) == IF whole > 0 THEN <<part, whole>> ELSE << >>
Grouped(rows, GroupOf(_), Figures(_)) ==
    [g \in {GroupOf(r) : r \in rows} |-> Figures({r \in rows : GroupOf(r) = g})]
VerifiedOf(rows) == {r \in rows : r.status = "VERIFIED"}

(* The calendar day in Asia/Dhaka.                                         *)
Day(at) == (at + DhakaLead) \div DayLength

Overview(db, from) ==
    LET os == {o \in db.orders : o.created >= from}
    IN  << [verified |-> With(os, "VERIFIED"), amount |-> Taka(VerifiedOf(os)),
            pending |-> With(os, "PENDING"),
            success |-> Rate(With(os, "VERIFIED"), Cardinality(os))],
           With(db.reviews, "OPEN"),
           With(db.events, "DEAD"),
           Cardinality({s \in db.sms : s.match = "UNMATCHED"}) >>

Providers(db, from) ==
    << Grouped({s \in db.sms : s.uploaded >= from}, LAMBDA s : s.provider,
               LAMBDA S : [received |-> Cardinality(S),
                           parsed |-> Cardinality({s \in S : s.parse = "PARSED"}),
                           ignored |-> Cardinality({s \in S : s.parse = "IGNORED"}),
                           matched |-> Cardinality({s \in S : s.match = "MATCHED"})]) >>

Daily(db, from, company) ==
    << Grouped({o \in db.orders : /\ o.created >= from
                                  /\ company \in {Nothing, o.company}},
               LAMBDA o : Day(o.created),
               LAMBDA S : [registered |-> Cardinality(S), verified |-> With(S, "VERIFIED"),
                           expired |-> With(S, "EXPIRED"), amount |-> Taka(VerifiedOf(S))]) >>

Funnel(db, from) ==
    LET os == {o \in db.orders : o.created >= from}
    IN  << [registered |-> Cardinality(os), verified |-> With(os, "VERIFIED"),
            expired |-> With(os, "EXPIRED"), cancelled |-> With(os, "CANCELLED")],
           With({e \in db.events : e.type = "payment.verified" /\ e.created >= from},
                "DELIVERED") >>

VerificationMethods(db, from) ==
    << Grouped({v \in db.credits : v.verified >= from}, LAMBDA v : v.method,
               LAMBDA S : [count |-> Cardinality(S),
                           confidence |-> MapThenSumSet(LAMBDA v : v.confidence, S)]) >>

(* A company without orders is listed too (LEFT JOIN).                     *)
League(db, from) ==
    << [c \in db.companies |->
          LET os == {o \in db.orders : o.company = c /\ o.created >= from}
          IN  [registered |-> Cardinality(os), verified |-> With(os, "VERIFIED")]] >>

ParserHealth(db) == << Grouped(db.sms, LAMBDA s : s.parse, LAMBDA S : Cardinality(S)) >>

Report(q, from, db) ==
    CASE q.report = "overview"      -> Overview(db, from)
      [] q.report = "providers"     -> Providers(db, from)
      [] q.report = "daily"         -> Daily(db, from, q.company)
      [] q.report = "funnel"        -> Funnel(db, from)
      [] q.report = "methods"       -> VerificationMethods(db, from)
      [] q.report = "companies"     -> League(db, from)
      [] q.report = "parser-health" -> ParserHealth(db)

-----------------------------------------------------------------------------
Now == Len(past)
Silent == [at |-> 0]
NoView == [step |-> "NONE"]
Viewing(c) == views[c] # NoView
Answer(q, figures, asOf) ==
    answered' = [request |-> q, figures |-> figures, asOf |-> asOf, at |-> Now]

AnalyticsInit ==
    /\ dashboard \in Dashboards
    /\ past = <<1>>
    /\ figuresKept = [k \in {Key(q) : q \in dashboard} |-> [until |-> 0]]
    /\ views = [c \in Viewers |-> NoView]
    /\ answered = Silent

(* The cache answers: with the entry, or with none, also for an error.     *)
Fresh(entry) == Now < entry.until

CacheHit(c, q) ==
    /\ ~Viewing(c) /\ Fresh(figuresKept[Key(q)])
    /\ Answer(q, figuresKept[Key(q)].figures, figuresKept[Key(q)].asOf)
    /\ UNCHANGED <<dashboard, past, figuresKept, views>>

CacheMiss(c, q) ==
    /\ ~Viewing(c)
    /\ views' = [views EXCEPT ![c] =
          [step |-> "READ", request |-> q, from |-> Since(q.range, Now), begun |-> Now,
           figures |-> <<>>]]
    /\ UNCHANGED <<dashboard, past, figuresKept>> /\ answered' = Silent

(* One statement of the report; as_of is taken after the last.             *)
RunStatement(c) ==
    /\ views[c].step = "READ"
    /\ LET v == views[c]
           all == Report(v.request, v.from, Contents[past[Now]])
           k == Len(v.figures) + 1
           figures == Append(v.figures, all[k])
       IN  views' = [views EXCEPT ![c] =
              IF k < Len(all) THEN [v EXCEPT !.figures = figures]
              ELSE [step |-> "STORE", request |-> v.request, begun |-> v.begun,
                    figures |-> figures, asOf |-> Now]]
    /\ UNCHANGED <<dashboard, past, figuresKept>> /\ answered' = Silent

(* The entry replaces whatever was stored meanwhile; Redis may refuse it.  *)
StoreFigures(c) ==
    /\ views[c].step = "STORE"
    /\ LET v == views[c]
           entry == [figures |-> v.figures, asOf |-> v.asOf, until |-> Now + CacheTTL]
       IN  /\ \/ figuresKept' = [figuresKept EXCEPT ![Key(v.request)] = entry]
              \/ UNCHANGED figuresKept
           /\ Answer(v.request, v.figures, v.asOf)
    /\ views' = [views EXCEPT ![c] = NoView]
    /\ UNCHANGED <<dashboard, past>>

(* The database does not answer, or the process dies.                      *)
ViewFails(c) ==
    /\ Viewing(c)
    /\ views' = [views EXCEPT ![c] = NoView]
    /\ UNCHANGED <<dashboard, past, figuresKept>> /\ answered' = Silent

(* A tick passes, with or without a commit of the rest of the system.      *)
Commit(i) ==
    /\ Now < LastTick /\ i \in {past[Now], past[Now] + 1}
    /\ \A c \in Viewers : Viewing(c) => Now < views[c].begun + Slowest
    /\ past' = Append(past, i)
    /\ UNCHANGED <<dashboard, figuresKept, views>> /\ answered' = Silent

AnalyticsNext ==
    \/ \E c \in Viewers :
          \/ \E q \in dashboard : CacheHit(c, q) \/ CacheMiss(c, q)
          \/ RunStatement(c) \/ StoreFigures(c) \/ ViewFails(c)
    \/ \E i \in DOMAIN Contents : Commit(i)

AnalyticsSpec == AnalyticsInit /\ [][AnalyticsNext]_analyticsVars

-----------------------------------------------------------------------------
AnalyticsTypeOK ==
    /\ dashboard \in Dashboards
    /\ past \in Seq(DOMAIN Contents) /\ Now \in 1 .. LastTick
    /\ \A c \in Viewers : views[c].step \in {"NONE", "READ", "STORE"}

(* "A stale-within-TTL read is self-describing" (cache.ts:7-11): whoever   *)
(* asks is answered what was asked, each figure as it stood at some moment *)
(* of the computation that as_of ends, and as_of is younger than the TTL    *)
(* and one computation, whoever else was filling the entry.                *)
AnswersAreRecent ==
    answered.at > 0 =>
        LET computed == {t \in 1 .. answered.asOf : t >= answered.asOf - Slowest}
            q == answered.request
        IN  /\ answered.at - answered.asOf < CacheTTL + Slowest
            /\ \A k \in DOMAIN answered.figures : \E t, begun \in computed :
                  answered.figures[k] = Report(q, Since(q.range, begun), Contents[past[t]])[k]
=============================================================================
