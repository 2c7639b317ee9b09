------------------------------- MODULE MCOffice -------------------------------
(***************************************************************************)
(* A testimonial, the content of a week, a referral link, two financial    *)
(* reports, or the weekly copy of the resale transactions: they share no   *)
(* variable, so a behaviour is one of the five (which no step changes).    *)
(***************************************************************************)
EXTENDS Integers, FiniteSets

CONSTANTS h1, h2, x1, x2, w1, w2, v1, v2, r1, r2,
          Staff,                                           \* requests in flight
          Texts, Weeklies, Visitors, MaxBadRuns,           \* of Content
          Rows, MaxNotices,                                \* of Reports
          Records, Seeded, PageSize, MaxRetries            \* of HdbSync

\* A text is not the word for none.
ASSUME ContentAssumption == "none" \notin Texts

\* Finitely many rows, none called as what is no row; an announcement counts.
ASSUME ReportsAssumption ==
  /\ IsFiniteSet(Rows) /\ Rows \cap {"none", "version"} = {}
  /\ MaxNotices \in Nat \ {0}

\* The dataset: pairs of a month and a number, some of them seeded.
ASSUME SyncAssumption ==
  /\ IsFiniteSet(Records) /\ Records \subseteq Nat \X Nat
  /\ Seeded \subseteq Records
  /\ PageSize \in Nat \ {0} /\ MaxRetries \in Nat \ {0}

VARIABLE part, testimonial, vetted, submissions, weekly, referral, leads, sold, daily,
         badRuns, task, crossed, report, doing, notices, shared, broken,
         published, held, sync, promised, cut

C == INSTANCE Content WITH Callers <- Staff
F == INSTANCE Reports WITH Clerks <- Staff
H == INSTANCE HdbSync WITH Syncs <- Staff

\* One month is seeded, two are to come.
MCSeeded == {<<1, 1>>}
MCRecords == MCSeeded \cup ({2, 3} \X {1, 2})

contentVars == <<testimonial, vetted, submissions, weekly, referral, leads, sold, daily,
                 badRuns, task, crossed>>
reportsVars == <<report, doing, notices, shared, broken>>
syncVars == <<published, held, sync, promised, cut>>

MCInit ==
  /\ part \in {"testimonial", "market", "referral", "report", "sync"}
  /\ C!ContentInit /\ F!ReportsInit /\ H!HdbSyncInit

MCNext ==
  /\ UNCHANGED part
  /\ \/ /\ \/ part = "testimonial" /\ C!TestimonialNext
           \/ part = "market" /\ C!MarketNext
           \/ part = "referral" /\ C!ReferralNext
        /\ UNCHANGED <<reportsVars, syncVars>>
     \/ part = "report" /\ F!ReportsNext /\ UNCHANGED <<contentVars, syncVars>>
     \/ part = "sync" /\ H!HdbSyncNext /\ UNCHANGED <<contentVars, reportsVars>>

MCSpec ==
  /\ MCInit
  /\ [][MCNext]_<<part, contentVars, reportsVars, syncVars>>
  /\ C!ReferralFairness

\* Of Content: what is public was reviewed as it stands, and once a week.
PublishedIsReviewed == C!ContentTypeOK /\ C!TestimonialIsVetted /\ C!OneContentAWeek

\* Of Content: the sale of a referred seller completes the referral.
ReferralCompletes == C!ReferralCompletes

\* Of Reports: nothing is listed or announced without an approval.
ReportsAreSound == F!ReportsAreSound

\* Of HdbSync: a success missed nothing it could have seen.
SyncFetchesAll == H!SyncFetchesAll
=============================================================================
