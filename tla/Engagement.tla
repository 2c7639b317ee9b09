------------------------------ MODULE Engagement ------------------------------
(***************************************************************************)
(* One seller's engagement: status, onboarding, due diligence (CDD),       *)
(* agency agreement (EAA), case flag and data correction                   *)
(* (src/src/domains/seller, agent and compliance).                         *)
(*                                                                         *)
(* Every handler reads a row, checks it and writes it by id, with other    *)
(* handlers in between, so that a write may answer a row which is no more. *)
(***************************************************************************)
EXTENDS Integers, Sequences, FiniteSets

CONSTANTS
  Requests,  \* handlers the process may have in flight
  Records,   \* bound: ids of the seller's CDD records
  NoRecord   \* no CDD record

VARIABLES
  status,     \* of the seller
  step,       \* onboardingStep
  saved,      \* the onboarding steps whose data are in the database
  cdd,        \* CDD records, oldest first: [id, verified]
  eaa,        \* status of the agreement
  vouched,    \* ghost: the CDD was verified when the agreement was made
  explained,  \* videoCallConfirmedAt: how many times written, 2 for more
  flag,       \* status of the case flag
  correction, \* the correction request
  applied,    \* its field holds the value requested
  call,       \* the local state of each request
  overtaken,  \* ghost: the rows written on a reading that was no more true
  cut         \* ghost: the handlers left between two of their writes

\* A reading is of a status, of a step or of a CDD record; a goal a new status.
Free == [op |-> "idle", seen |-> "", goal |-> "", n |-> 0, id |-> NoRecord]

rows == <<status, step, saved, cdd, eaa, vouched, explained, flag, correction, applied>>
engVars == <<rows, call, overtaken, cut>>

STATUS_TRANSITIONS == [lead |-> {"engaged", "archived"}, engaged |-> {"active", "archived"},
                       active |-> {"completed", "archived"}, completed |-> {"archived"},
                       archived |-> {}]
VALID_EAA_STATUS_TRANSITIONS == [none |-> {}, draft |-> {"sent_to_seller"},
                                 sent_to_seller |-> {"signed"}, signed |-> {"active"}, active |-> {}]
CASE_FLAG_TRANSITIONS == [none |-> {}, identified |-> {"in_progress", "resolved", "out_of_scope"},
                          in_progress |-> {"resolved", "out_of_scope"}, resolved |-> {},
                          out_of_scope |-> {}]

TOTAL_ONBOARDING_STEPS == 5
NeedsData == {2, 3, 5}    \* the property, the proceeds, the consent to the transfer

EngTypeOK ==
  /\ status \in DOMAIN STATUS_TRANSITIONS
  /\ step \in 0..TOTAL_ONBOARDING_STEPS /\ saved \subseteq NeedsData
  /\ \A i \in 1..Len(cdd) : cdd[i] \in [id : Records, verified : BOOLEAN]
  /\ \A i, j \in 1..Len(cdd) : i # j => cdd[i].id # cdd[j].id
  /\ eaa \in DOMAIN VALID_EAA_STATUS_TRANSITIONS /\ (eaa = "none" \/ vouched)
  /\ explained \in 0..2 /\ (explained > 1 => "eaa" \in overtaken)
  /\ flag \in DOMAIN CASE_FLAG_TRANSITIONS
  /\ correction \in {"none", "pending", "completed", "rejected"} /\ applied \in BOOLEAN
  /\ overtaken \subseteq {"status", "step", "cdd", "eaa", "flag"}
  /\ cut \subseteq {"activate", "apply"}

Enter(r, op, seen, goal, n) ==
  /\ call[r].op = "idle"
  /\ call' = [call EXCEPT ![r] = [op |-> op, seen |-> seen, goal |-> goal, n |-> n, id |-> NoRecord]]
  /\ UNCHANGED <<rows, overtaken, cut>>

Leave(r) == call' = [call EXCEPT ![r] = Free]

\* The write of r lands on a row that says something else than r read.
Overtakes(row, stale) == overtaken' = IF stale THEN overtaken \cup {row} ELSE overtaken

\* The handler throws or dies.
Quit(r) ==
  /\ call[r].op # "idle"
  /\ Leave(r)
  /\ cut' = cut \cup ({call[r].op} \cap {"activate", "apply"})
                \cup (IF call[r].goal = "active" /\ call[r].n = 1 THEN {"activate"} ELSE {})
  /\ UNCHANGED <<rows, overtaken>>

-----------------------------------------------------------------------------
(* The status: PUT /agent/sellers/:id/status.                              *)

UpdateSellerStatus(r, goal) ==
  /\ goal \in STATUS_TRANSITIONS[status]
  /\ Enter(r, "status", status, goal, 0)

\* By id.  (Once engaged, a verified seller is sent a link: see Account.)
WriteStatus(r) ==
  /\ call[r].op = "status"
  /\ status' = call[r].goal
  /\ Overtakes("status", status # call[r].seen)
  /\ Leave(r)
  /\ UNCHANGED <<step, saved, cdd, eaa, vouched, explained, flag, correction, applied, cut>>

-----------------------------------------------------------------------------
(* Onboarding: POST /seller/onboarding/step/:step.                         *)

SubmitStep(r, n) == Enter(r, "save", "", "", n)

SaveStep_AfterStep(r) ==
  /\ call[r].op = "save"
  /\ call' = [call EXCEPT ![r].op = "saved"]
  /\ saved' = IF step >= call[r].n THEN saved \cup ({call[r].n} \cap NeedsData) ELSE saved
  /\ UNCHANGED <<status, step, cdd, eaa, vouched, explained, flag, correction, applied, overtaken, cut>>

\* The data first, whatever the step: step 1 has none, step 4 may leave it out.
SaveStep(r) ==
  /\ call[r].op = "save"
  /\ call' = [call EXCEPT ![r].op = "saved"]
  /\ saved' = saved \cup ({call[r].n} \cap NeedsData)
  /\ UNCHANGED <<status, step, cdd, eaa, vouched, explained, flag, correction, applied, overtaken, cut>>

\* getOnboardingStatus: a step submitted again is saved, and that is all.
GetOnboardingStatus(r) ==
  /\ call[r].op = "saved"
  /\ call' = [call EXCEPT ![r] = IF @.n = step + 1 THEN [@ EXCEPT !.op = "complete"] ELSE Free]
  /\ UNCHANGED <<rows, overtaken, cut>>

\* completeOnboardingStep reads the step once more, and refuses any but the next.
CompleteOnboardingStep(r) ==
  /\ call[r].op = "complete" /\ call[r].n = step + 1
  /\ call' = [call EXCEPT ![r].op = "step"]
  /\ UNCHANGED <<rows, overtaken, cut>>

WriteStep(r) ==
  /\ call[r].op = "step"
  /\ step' = call[r].n
  /\ Overtakes("step", step # call[r].n - 1)
  /\ Leave(r)
  /\ UNCHANGED <<status, saved, cdd, eaa, vouched, explained, flag, correction, applied, cut>>

-----------------------------------------------------------------------------
(* Due diligence.  The latest record tells, and locks once verified.       *)

Verified == cdd # <<>> /\ cdd[Len(cdd)].verified

Lock == IF Verified THEN "locked" ELSE "open"

UpdateCddStatus_Unlocked(r, admin, goal) ==
  /\ goal = "verified" => admin
  /\ Enter(r, "cdd", IF admin THEN "admin" ELSE Lock, goal, 0)

\* updateCddStatus: agents may not verify, nor touch a verified record; admins may.
UpdateCddStatus(r, admin, goal) ==
  /\ goal = "verified" => admin
  /\ admin \/ ~Verified
  /\ Enter(r, "cdd", IF admin THEN "admin" ELSE Lock, goal, 0)

\* verifyCdd: not twice.
VerifyCdd(r) == ~Verified /\ Enter(r, "cdd", Lock, "verified", 0)

\* An agent's request locked out of a record by one verified meanwhile.
Unlocks(r, goal) == call[r].seen = "open" /\ goal # "verified" /\ Verified

DeleteCddRecord(r) ==
  /\ call[r].op = "cdd" /\ call[r].goal = "not_started"
  /\ cdd' = <<>>
  /\ Overtakes("cdd", Unlocks(r, "not_started"))
  /\ Leave(r)
  /\ UNCHANGED <<status, step, saved, eaa, vouched, explained, flag, correction, applied, cut>>

\* upsertCddStatus: the latest record, or that there is none, is read ...
UpsertCddRead(r) ==
  /\ call[r].op = "cdd" /\ call[r].goal # "not_started"
  /\ call' = [call EXCEPT ![r].op = "upsert",
                          ![r].id = IF cdd = <<>> THEN NoRecord ELSE cdd[Len(cdd)].id]
  /\ UNCHANGED <<rows, overtaken, cut>>

\* ... then written: two first requests make two records, and the row of one
\* deleted in between is gone (Quit).
UpsertCddWrite(r) ==
  LET ok == call[r].goal = "verified"
  IN  /\ call[r].op = "upsert"
      /\ \/ /\ call[r].id = NoRecord
            /\ \E id \in Records :
                 /\ \A i \in 1..Len(cdd) : cdd[i].id # id
                 /\ \A q \in Requests : call[q].id # id
                 /\ cdd' = Append(cdd, [id |-> id, verified |-> ok])
         \/ \E i \in 1..Len(cdd) :
              /\ cdd[i].id = call[r].id
              /\ cdd' = [cdd EXCEPT ![i].verified = ok]
      /\ Overtakes("cdd", Unlocks(r, call[r].goal))
      /\ Leave(r)
      /\ UNCHANGED <<status, step, saved, eaa, vouched, explained, flag, correction, applied, cut>>

-----------------------------------------------------------------------------
(* The agreement.                                                          *)

\* createEaa.
CreateEaa(r) == eaa = "none" /\ Verified /\ Enter(r, "createEaa", "", "", 0)

WriteEaa(r) ==
  /\ call[r].op = "createEaa" /\ eaa = "none"
  /\ eaa' = "draft" /\ vouched' = TRUE
  /\ Leave(r)
  /\ UNCHANGED <<status, step, saved, cdd, explained, flag, correction, applied, overtaken, cut>>

UpdateEaaStatus(r, goal) ==
  /\ goal \in VALID_EAA_STATUS_TRANSITIONS[eaa]
  /\ Enter(r, "eaa", eaa, goal, 0)

WriteEaaStatus(r) ==
  /\ call[r].op = "eaa"
  /\ eaa' = call[r].goal
  /\ Overtakes("eaa", eaa # call[r].seen)
  /\ IF call[r].goal = "active" THEN call' = [call EXCEPT ![r].op = "activate"] ELSE Leave(r)
  /\ UNCHANGED <<status, step, saved, cdd, vouched, explained, flag, correction, applied, cut>>

\* updateSellerStatus to active refuses (Quit) a seller who is not engaged.
ActivateSeller(r) ==
  /\ call[r].op = "activate" /\ "active" \in STATUS_TRANSITIONS[status]
  /\ call' = [call EXCEPT ![r] = [@ EXCEPT !.op = "status", !.seen = status, !.n = 1]]
  /\ UNCHANGED <<rows, overtaken, cut>>

ConfirmEaaExplanation(r) ==
  /\ eaa # "none" /\ explained = 0
  /\ Enter(r, "explain", "", "", explained)

WriteExplanation(r) ==
  /\ call[r].op = "explain"
  /\ explained' = IF explained = 0 THEN 1 ELSE 2
  /\ Overtakes("eaa", explained # call[r].n)
  /\ Leave(r)
  /\ UNCHANGED <<status, step, saved, cdd, eaa, vouched, flag, correction, applied, cut>>

-----------------------------------------------------------------------------
(* The case flag and the correction.                                       *)

CreateCaseFlag ==
  /\ flag = "none" /\ flag' = "identified"
  /\ UNCHANGED <<status, step, saved, cdd, eaa, vouched, explained, correction, applied,
                 call, overtaken, cut>>

UpdateCaseFlag(r, goal) ==
  /\ goal \in CASE_FLAG_TRANSITIONS[flag]
  /\ Enter(r, "flag", flag, goal, 0)

WriteCaseFlag(r) ==
  /\ call[r].op = "flag"
  /\ flag' = call[r].goal
  /\ Overtakes("flag", flag # call[r].seen)
  /\ Leave(r)
  /\ UNCHANGED <<status, step, saved, cdd, eaa, vouched, explained, correction, applied, cut>>

CreateCorrectionRequest ==
  /\ correction = "none" /\ correction' = "pending"
  /\ UNCHANGED <<status, step, saved, cdd, eaa, vouched, explained, flag, applied,
                 call, overtaken, cut>>

\* processCorrectionRequest: one already processed may be processed again.
ProcessCorrectionRequest(r, goal) ==
  /\ correction # "none" /\ goal \in {"completed", "rejected"}
  /\ Enter(r, "correct", "", goal, 0)

UpdateCorrectionRequest(r) ==
  /\ call[r].op = "correct"
  /\ correction' = call[r].goal
  /\ IF call[r].goal = "completed" THEN call' = [call EXCEPT ![r].op = "apply"] ELSE Leave(r)
  /\ UNCHANGED <<status, step, saved, cdd, eaa, vouched, explained, flag, applied, overtaken, cut>>

UpdateSellerField(r) ==
  /\ call[r].op = "apply"
  /\ applied' = TRUE
  /\ Leave(r)
  /\ UNCHANGED <<status, step, saved, cdd, eaa, vouched, explained, flag, correction, overtaken, cut>>

-----------------------------------------------------------------------------

EngInit ==
  /\ status = "lead" /\ step = 0 /\ saved = {} /\ cdd = <<>>
  /\ eaa = "none" /\ vouched = FALSE /\ explained = 0
  /\ flag = "none" /\ correction = "none" /\ applied = FALSE
  /\ call = [r \in Requests |-> Free] /\ overtaken = {} /\ cut = {}

StatusStep(r) ==
  \/ \E goal \in DOMAIN STATUS_TRANSITIONS : UpdateSellerStatus(r, goal)
  \/ WriteStatus(r)

OnboardingStep(r) ==
  \/ \E n \in 1..TOTAL_ONBOARDING_STEPS : SubmitStep(r, n)
  \/ SaveStep(r) \/ GetOnboardingStatus(r) \/ CompleteOnboardingStep(r) \/ WriteStep(r)

DueDiligenceStep(r) ==
  \/ \E admin \in BOOLEAN, goal \in {"not_started", "pending", "verified"} :
       UpdateCddStatus(r, admin, goal)
  \/ VerifyCdd(r) \/ DeleteCddRecord(r) \/ UpsertCddRead(r) \/ UpsertCddWrite(r)

AgreementStep(r) ==
  \/ \E goal \in DOMAIN VALID_EAA_STATUS_TRANSITIONS : UpdateEaaStatus(r, goal)
  \/ CreateEaa(r) \/ WriteEaa(r) \/ WriteEaaStatus(r) \/ ActivateSeller(r)
  \/ ConfirmEaaExplanation(r) \/ WriteExplanation(r)

FlagStep(r) ==
  \/ \E goal \in DOMAIN CASE_FLAG_TRANSITIONS : UpdateCaseFlag(r, goal)
  \/ CreateCaseFlag \/ WriteCaseFlag(r)

CorrectionStep(r) ==
  \/ \E goal \in {"completed", "rejected"} : ProcessCorrectionRequest(r, goal)
  \/ CreateCorrectionRequest \/ UpdateCorrectionRequest(r) \/ UpdateSellerField(r)

\* Three parts that share no row but through the handlers in flight.
AgreeNext == \E r \in Requests : Quit(r) \/ StatusStep(r) \/ DueDiligenceStep(r) \/ AgreementStep(r)
OnboardNext == \E r \in Requests : Quit(r) \/ OnboardingStep(r)
CaseNext == \E r \in Requests : Quit(r) \/ FlagStep(r) \/ CorrectionStep(r)

EngNext == AgreeNext \/ OnboardNext \/ CaseNext

EngSpec == EngInit /\ [][EngNext]_engVars

-----------------------------------------------------------------------------
(* Properties.                                                             *)

\* The data of every onboarding step passed is in the database.
OnboardedHasData == NeedsData \cap 1..step \subseteq saved

\* A correction marked completed changed its field, but for a handler between
\* the two writes, or cut off there.
CorrectionIsApplied ==
  correction = "completed" =>
    applied \/ "apply" \in cut \/ \E r \in Requests : call[r].op = "apply"

\* An active agreement has an active seller, or one past that, but for a handler
\* between the two writes, one refused there, and an overtaken write of the status.
AgreementActivates ==
  eaa = "active" => \/ status \in {"active", "completed", "archived"}
                    \/ "activate" \in cut \/ {"status", "eaa"} \cap overtaken # {}
                    \/ \E r \in Requests : \/ call[r].op = "activate"
                                           \/ call[r].op = "status" /\ call[r].n = 1

\* What a row announces has what it rests on.
OutcomeIsBacked == OnboardedHasData /\ CorrectionIsApplied /\ AgreementActivates

\* Verified due diligence is undone by an admin only, or by the request of an agent
\* who read it before it was verified.
VerifiedIsKept ==
  Verified /\ ~Verified' => \/ "cdd" \in overtaken'
                             \/ \E r \in Requests : call[r].op \in {"cdd", "upsert"}
                                  /\ call[r].seen = "admin" /\ call'[r].op = "idle"

\* What a step may do: see EngagementFollowsRules.
FollowsRules ==
  /\ status' = status \/ status' \in STATUS_TRANSITIONS[status] \/ "status" \in overtaken'
  /\ eaa' = eaa \/ eaa' \in VALID_EAA_STATUS_TRANSITIONS[eaa] \cup {"draft"} \/ "eaa" \in overtaken'
  /\ flag' = flag \/ flag' \in CASE_FLAG_TRANSITIONS[flag] \cup {"identified"} \/ "flag" \in overtaken'
  /\ step' \in {step, step + 1} \/ "step" \in overtaken'
  /\ VerifiedIsKept

\* The status, the agreement, the flag and the onboarding step move as the tables
\* say, one step at a time, but where one handler overtook another; and verified due
\* diligence is undone as VerifiedIsKept says.
EngagementFollowsRules == [][FollowsRules]_engVars
=============================================================================
