-------------------------------- MODULE Content --------------------------------
(***************************************************************************)
(* What the public reads and passes on (src/src/domains/content): the      *)
(* testimonial of a seller, from the link he is sent to the home page; the *)
(* market content of one week; and the referral link of a seller, from its *)
(* first click to the sale of the flat it brought.                         *)
(*                                                                         *)
(* Status columns are read, then written by id; approving and rejecting    *)
(* read nothing at all, and rest on the page the agent has open.  So an    *)
(* open page is a request like any other here: what it showed may be past. *)
(***************************************************************************)
EXTENDS Integers, FiniteSets

CONSTANTS
  Texts,         \* texts a testimonial may have
  Weeklies,      \* rows of market content for one period
  Visitors,      \* people the referral link reaches, each a lead at most once
  Callers,       \* requests in flight and pages left open
  MaxBadRuns     \* bound: runs of the referral job that fail

VARIABLES
  testimonial,   \* the row: status, text, link (it is accepted), display, manual
  vetted,        \* ghost: the text the approving agent had on his page
  submissions,   \* ghost: submissions taken by the link in force
  weekly,        \* status of each row of market content
  referral,      \* the row: status, clicks (2: more than one), referred
  leads,         \* visitors who became sellers
  sold,          \* those among them with a completed transaction
  daily,         \* the job of referrals: what it is about to do
  badRuns,       \* runs that failed
  task,          \* what each request is about to do, with what it read
  crossed        \* ghost: the rows two requests were at work on at once, and
                 \* "clicked" once a click was written over what came after it

contentVars == <<testimonial, vetted, submissions, weekly, referral, leads, sold, daily,
                 badRuns, task, crossed>>

testimonialRows == <<testimonial, vetted, submissions>>
referralRows == <<referral, leads, sold, daily, badRuns>>

NoText == "none"
Free == [op |-> "idle", about |-> NoText]
Todo(op, about) == [op |-> op, about |-> about]

ContentInit ==
  /\ testimonial = [status |-> "none", text |-> NoText, link |-> FALSE,
                    display |-> FALSE, manual |-> FALSE]
  /\ vetted = NoText /\ submissions = 0
  /\ weekly = [w \in Weeklies |-> "none"]
  /\ referral = [status |-> "none", clicks |-> 0, referred |-> NoText]
  /\ leads = {} /\ sold = {}
  /\ daily = "idle" /\ badRuns = 0
  /\ task = [c \in Callers |-> Free]
  /\ crossed = {}

\* Request c starts on a row others may be at work on.
Begin(c, op, about, row) ==
  /\ task[c] = Free
  /\ task' = [task EXCEPT ![c] = Todo(op, about)]
  /\ crossed' = IF \E o \in Callers : task[o] # Free THEN crossed \cup {row} ELSE crossed

End(c) == task' = [task EXCEPT ![c] = Free]

\* A page is closed, a process restarts, the AI is unavailable.
Abandon(c) ==
  /\ task[c] # Free
  /\ End(c)
  /\ UNCHANGED <<testimonialRows, weekly, referralRows, crossed>>

-----------------------------------------------------------------------------
(* The testimonial.                                                        *)

Becomes(status) == testimonial' = [testimonial EXCEPT !.status = status]

\* A row there is: "none" before it is created, "removed" after.
Stands == testimonial.status \notin {"none", "removed"}

\* Seven days after the sale the job issues a link, unless there is a row.
IssueTestimonialToken ==
  /\ testimonial.status = "none"
  /\ testimonial' = [testimonial EXCEPT !.status = "pending_submission", !.link = TRUE]
  /\ UNCHANGED <<vetted, submissions, weekly, referralRows, task, crossed>>

\* The agent types one in: it has no seller and no link.
CreateManualTestimonial ==
  /\ testimonial.status = "none"
  /\ \E x \in Texts :
       testimonial' = [testimonial EXCEPT !.status = "pending_review", !.text = x,
                                          !.manual = TRUE]
  /\ UNCHANGED <<vetted, submissions, weekly, referralRows, task, crossed>>

\* Thirty days pass.
TokenExpires ==
  /\ testimonial.link
  /\ testimonial' = [testimonial EXCEPT !.link = FALSE]
  /\ UNCHANGED <<vetted, submissions, weekly, referralRows, task, crossed>>

SubmitTestimonial_Again(c) ==
  /\ Stands /\ testimonial.link
  /\ \E x \in Texts : Begin(c, "submit", x, "testimonial")
  /\ UNCHANGED <<testimonialRows, weekly, referralRows>>

SubmitTestimonial(c) ==
  /\ testimonial.status = "pending_submission" /\ testimonial.link
  /\ \E x \in Texts : Begin(c, "submit", x, "testimonial")
  /\ UNCHANGED <<testimonialRows, weekly, referralRows>>

\* By id: the row may have gone on since, or gone.
UpdateTestimonialSubmission(c) ==
  /\ task[c].op = "submit" /\ Stands
  /\ testimonial' = [testimonial EXCEPT !.status = "pending_review", !.text = task[c].about]
  /\ submissions' = submissions + 1
  /\ End(c)
  /\ UNCHANGED <<vetted, weekly, referralRows, crossed>>

\* The page of one awaiting review, with the buttons to approve and to reject.
OpenTestimonial(c) ==
  /\ testimonial.status = "pending_review"
  /\ Begin(c, "page", testimonial.text, "testimonial")
  /\ UNCHANGED <<testimonialRows, weekly, referralRows>>

ApproveTestimonial(c) ==
  /\ task[c].op = "page" /\ Stands
  /\ Becomes("approved")
  /\ vetted' = task[c].about
  /\ End(c)
  /\ UNCHANGED <<submissions, weekly, referralRows, crossed>>

RejectTestimonial(c) ==
  /\ task[c].op = "page" /\ Stands
  /\ Becomes("rejected")
  /\ End(c)
  /\ UNCHANGED <<vetted, submissions, weekly, referralRows, crossed>>

ReissueStart(c) ==
  /\ testimonial.status = "rejected"
  /\ Begin(c, "reissue", NoText, "testimonial")
  /\ UNCHANGED <<testimonialRows, weekly, referralRows>>

\* The text and its place on the website stay.
ReissueTestimonialToken(c) ==
  /\ task[c].op = "reissue" /\ Stands
  /\ testimonial' = [testimonial EXCEPT !.status = "pending_submission", !.link = TRUE]
  /\ submissions' = 0
  /\ End(c)
  /\ UNCHANGED <<vetted, weekly, referralRows, crossed>>

FeatureTestimonial(c) ==
  /\ testimonial.status = "approved"
  /\ Begin(c, "feature", NoText, "testimonial")
  /\ UNCHANGED <<testimonialRows, weekly, referralRows>>

SetTestimonialDisplay(c) ==
  /\ task[c].op = "feature" /\ Stands
  /\ \E shown \in BOOLEAN : testimonial' = [testimonial EXCEPT !.display = shown]
  /\ End(c)
  /\ UNCHANGED <<vetted, submissions, weekly, referralRows, crossed>>

\* The seller takes it back: found by the seller, deleted by id.
RemoveTestimonial(c) ==
  /\ Stands /\ ~testimonial.manual
  /\ Begin(c, "remove", NoText, "testimonial")
  /\ UNCHANGED <<testimonialRows, weekly, referralRows>>

HardDeleteTestimonial(c) ==
  /\ task[c].op = "remove" /\ Stands
  /\ testimonial' = [status |-> "removed", text |-> NoText, link |-> FALSE,
                     display |-> FALSE, manual |-> FALSE]
  /\ End(c)
  /\ UNCHANGED <<vetted, submissions, weekly, referralRows, crossed>>

TestimonialNext ==
  \/ IssueTestimonialToken \/ CreateManualTestimonial \/ TokenExpires
  \/ \E c \in Callers :
       \/ SubmitTestimonial(c) \/ UpdateTestimonialSubmission(c) \/ Abandon(c)
       \/ OpenTestimonial(c) \/ ApproveTestimonial(c) \/ RejectTestimonial(c)
       \/ ReissueStart(c) \/ ReissueTestimonialToken(c)
       \/ FeatureTestimonial(c) \/ SetTestimonialDisplay(c)
       \/ RemoveTestimonial(c) \/ HardDeleteTestimonial(c)

-----------------------------------------------------------------------------
(* The market content of a week.                                           *)

FindMarketContentByPeriod == {w \in Weeklies : weekly[w] \notin {"none", "rejected"}}

\* By the job of Monday or by an admin: the AI writes between check and row.
GenerateMarketContent(c) ==
  /\ FindMarketContentByPeriod = {}
  /\ Begin(c, "generate", NoText, "weekly")
  /\ UNCHANGED <<testimonialRows, weekly, referralRows>>

CreateMarketContent(c) ==
  /\ task[c].op = "generate"
  /\ \E w \in Weeklies :
       weekly[w] = "none" /\ weekly' = [weekly EXCEPT ![w] = "pending_review"]
  /\ End(c)
  /\ UNCHANGED <<testimonialRows, referralRows, crossed>>

OpenMarketContent(c, w) ==
  /\ weekly[w] = "pending_review"
  /\ Begin(c, "panel", w, "weekly")
  /\ UNCHANGED <<testimonialRows, weekly, referralRows>>

\* approveMarketContent, rejectMarketContent: whatever the status has become.
UpdateMarketContentStatus(c) ==
  /\ task[c].op = "panel"
  /\ \E verdict \in {"approved", "rejected"} :
       weekly' = [weekly EXCEPT ![task[c].about] = verdict]
  /\ End(c)
  /\ UNCHANGED <<testimonialRows, referralRows, crossed>>

MarketNext ==
  \E c \in Callers :
    \/ GenerateMarketContent(c) \/ CreateMarketContent(c) \/ UpdateMarketContentStatus(c)
    \/ Abandon(c)
    \/ \E w \in Weeklies : OpenMarketContent(c, w)

-----------------------------------------------------------------------------
(* The referral link.                                                      *)

\* By the seller's page or by the job two weeks after his sale.
SendReferralLinks ==
  /\ referral.status = "none"
  /\ referral' = [referral EXCEPT !.status = "link_generated"]
  /\ UNCHANGED <<testimonialRows, weekly, leads, sold, daily, badRuns, task, crossed>>

\* incrementClickCount returns the row as it left it.
FirstClick == referral.clicks = 0 /\ referral.status = "link_generated"

TrackReferralClick(c) ==
  /\ referral.status # "none" /\ task[c] = Free
  /\ referral' = [referral EXCEPT !.clicks = IF @ = 0 THEN 1 ELSE 2]
  /\ IF FirstClick
     THEN task' = [task EXCEPT ![c] = Todo("click", referral.status)]
     ELSE UNCHANGED task
  /\ UNCHANGED <<testimonialRows, weekly, leads, sold, daily, badRuns, crossed>>

MarkClicked(c) ==
  /\ task[c].op = "click"
  /\ referral' = [referral EXCEPT !.status = "clicked"]
  /\ crossed' = IF referral.status # task[c].about THEN crossed \cup {"clicked"} ELSE crossed
  /\ End(c)
  /\ UNCHANGED <<testimonialRows, weekly, leads, sold, daily, badRuns>>

\* The lead exists, and the code is in its session.
LinkReferralToLead(c, v) ==
  /\ v \notin leads /\ leads' = leads \cup {v}
  /\ referral.status # "none" /\ task[c] = Free
  /\ task' = [task EXCEPT ![c] = Todo("lead", v)]
  /\ UNCHANGED <<testimonialRows, weekly, referral, sold, daily, badRuns, crossed>>

\* One link has one row: another visitor takes the place of the first.
LinkReferredSeller(c) ==
  /\ task[c].op = "lead"
  /\ referral' = [referral EXCEPT !.status = "lead_created", !.referred = task[c].about]
  /\ End(c)
  /\ UNCHANGED <<testimonialRows, weekly, leads, sold, daily, badRuns, crossed>>

ReferredSells(v) ==
  /\ v \in leads \ sold /\ sold' = sold \cup {v}
  /\ UNCHANGED <<testimonialRows, weekly, referral, leads, daily, badRuns, task, crossed>>

\* hardDeleteSeller of the one referred.
NullifyReferredSeller ==
  /\ referral.referred # NoText
  /\ referral' = [referral EXCEPT !.referred = NoText]
  /\ UNCHANGED <<testimonialRows, weekly, leads, sold, daily, badRuns, task, crossed>>

FindReferralsWithCompletedTransactions_Clicked ==
  referral.status = "clicked" /\ referral.referred \in sold

FindReferralsWithCompletedTransactions ==
  referral.status = "lead_created" /\ referral.referred \in sold

\* Every day at two; an error is logged, and the next day finds the row again.
ReferralJob ==
  /\ daily = "idle" /\ FindReferralsWithCompletedTransactions
  /\ daily' = referral.referred
  /\ UNCHANGED <<testimonialRows, weekly, referral, leads, sold, badRuns, task, crossed>>

MarkReferralTransactionComplete ==
  /\ daily # "idle"
  /\ referral' = IF referral.referred = daily
                  THEN [referral EXCEPT !.status = "transaction_completed"] ELSE referral
  /\ daily' = "idle"
  /\ UNCHANGED <<testimonialRows, weekly, leads, sold, badRuns, task, crossed>>

ReferralJobFails ==
  /\ daily # "idle" /\ badRuns < MaxBadRuns
  /\ badRuns' = badRuns + 1 /\ daily' = "idle"
  /\ UNCHANGED <<testimonialRows, weekly, referral, leads, sold, task, crossed>>

ReferralNext ==
  \/ SendReferralLinks \/ NullifyReferredSeller
  \/ ReferralJob \/ MarkReferralTransactionComplete \/ ReferralJobFails
  \/ \E v \in Visitors : ReferredSells(v)
  \/ \E c \in Callers :
       \/ TrackReferralClick(c) \/ MarkClicked(c) \/ LinkReferredSeller(c) \/ Abandon(c)
       \/ \E v \in Visitors : LinkReferralToLead(c, v)

\* The cron of the job; requests may stop anywhere.
ReferralFairness == WF_contentVars(ReferralJob) /\ WF_contentVars(MarkReferralTransactionComplete)

ContentNext == TestimonialNext \/ MarketNext \/ ReferralNext

ContentSpec == ContentInit /\ [][ContentNext]_contentVars /\ ReferralFairness

-----------------------------------------------------------------------------
(* Properties                                                              *)

ContentTypeOK ==
  /\ testimonial \in [status : {"none", "pending_submission", "pending_review", "approved",
                                "rejected", "removed"},
                      text : Texts \cup {NoText}, link : BOOLEAN, display : BOOLEAN,
                      manual : BOOLEAN]
  /\ weekly \in [Weeklies -> {"none", "pending_review", "approved", "rejected"}]
  /\ referral \in [status : {"none", "link_generated", "clicked", "lead_created",
                             "transaction_completed"},
                   clicks : 0..2, referred : Visitors \cup {NoText}]
  /\ sold \subseteq leads /\ leads \subseteq Visitors
  /\ daily \in Visitors \cup {"idle"}

\* What is approved has a text, in whatever order pages and submissions land; and
\* where no two of them crossed, it is the text the agent had before him, and a link
\* was used once, through any number of rejections and new links.
TestimonialIsVetted ==
  /\ testimonial.status = "approved" => testimonial.text # NoText
  /\ "testimonial" \notin crossed =>
       /\ testimonial.status = "approved" => testimonial.text = vetted
       /\ submissions <= 1

\* A week has one content that was not rejected, unless two runs met or a page was
\* decided on late.
OneContentAWeek ==
  "weekly" \notin crossed =>
    Cardinality({w \in Weeklies : weekly[w] \in {"pending_review", "approved"}}) <= 1

\* A sale by the seller a link brought completes the referral, unless another lead
\* took his place, he was deleted, or a click was written over the lead.
ReferralCompletes ==
  \A v \in Visitors :
    (referral.referred = v /\ v \in sold)
      ~> \/ referral.status = "transaction_completed"
         \/ referral.referred # v
         \/ "clicked" \in crossed
=============================================================================
