----------------------------- MODULE PersonalData -----------------------------
(***************************************************************************)
(* What one seller may ask of the data held about them                     *)
(* (src/src/domains/compliance/compliance.service.ts): consent given and   *)
(* withdrawn, and the requests for deletion an admin carries               *)
(* out (executeHardDelete).  The scan that makes requests too is in        *)
(* Retention, what a withdrawal does to the sale in Transaction, Offer and *)
(* Listing.                                                                *)
(*                                                                         *)
(* A handler is a request that yields at each await; seen holds the        *)
(* consent it has read.  Each kind of row is represented by one row.       *)
(***************************************************************************)
EXTENDS Integers, FiniteSets

CONSTANTS
  Deletions,  \* identities of rows of data_deletion_requests
  Requests,   \* handlers the process may have in flight
  NoDeletion  \* no request for deletion

\* The identity of a request is neither "none" nor what deletes an account.
ASSUME DeletionAssumption == NoDeletion \notin Deletions /\ "account" \notin Deletions

\* What may be deleted: the seller with all they have, one consent record of
\* theirs, one closed listing.
Targets == {"lead", "consent_record", "listing"}

Purposes == {"service", "marketing"}

VARIABLES
  consent,   \* consentService and consentMarketing of the seller
  record,    \* the purposes of the latest consent record
  alive,     \* targets whose row is there
  deletion,  \* status and target of each request for deletion
  task,      \* the local state of each request
  contended, \* ghost: two handlers about consent overlapped, or see Unsubscribe
  killer,    \* ghost: what deleted each target: a request for deletion, or "account"
  torn       \* ghost: requests for deletion whose execution ended half-way

Free == [op |-> "idle", seen |-> {}, purpose |-> "none", q |-> NoDeletion]

consentVars == <<consent, record, contended>>
deletionVars == <<alive, deletion, killer, torn>>
dataVars == <<consentVars, deletionVars, task>>

ConsentOps == {"withdraw", "grant", "huttons"}

DataTypeOK ==
  /\ consent \subseteq Purposes /\ record \subseteq Purposes \cup {"huttons"}
  /\ alive \subseteq Targets
  /\ deletion \in [Deletions -> [status : {"none", "flagged", "executed"},
                                 target : Targets \cup {"none"}]]
  /\ contended \in BOOLEAN
  /\ \A r \in Requests :
       /\ task[r].op \in {"idle", "flag", "collect", "delete", "unlink", "execute"} \cup ConsentOps
       /\ task[r].seen \subseteq Purposes /\ task[r].q \in Deletions \cup {NoDeletion}
  /\ killer \in [Targets -> Deletions \cup {NoDeletion, "account"}]
  /\ torn \subseteq Deletions

Begin(r, state) == task[r].op = "idle" /\ task' = [task EXCEPT ![r] = state]

Go(r, op) == task' = [task EXCEPT ![r].op = op]

End(r) == task' = [task EXCEPT ![r] = Free]

\* The handler throws or dies at an await.
Die(r) ==
  /\ task[r].op # "idle"
  /\ End(r)
  /\ torn' = torn \cup ({task[r].q} \ {NoDeletion})
  /\ UNCHANGED <<consentVars, alive, deletion, killer>>

Contend == contended' = (contended \/ \E q \in Requests : task[q].op \in ConsentOps)

-----------------------------------------------------------------------------
(* Consent.                                                                *)

\* The routes: a withdrawal of service consent is confirmed first.
ReadConsent(r, op, purpose) ==
  /\ "lead" \in alive
  /\ Contend
  /\ Begin(r, [Free EXCEPT !.op = op, !.seen = consent, !.purpose = purpose])
  /\ UNCHANGED <<consent, record, deletionVars>>

WithdrawConsentAtomically_AsGiven(r) ==
  /\ "lead" \in alive
  /\ record' = task[r].seen
  /\ consent' = consent \ {task[r].purpose}

\* The record has what was read for the other purpose; the flag of this one is
\* written in the same database transaction.
WithdrawConsentAtomically(r) ==
  /\ "lead" \in alive
  /\ record' = task[r].seen \ {task[r].purpose}
  /\ consent' = consent \ {task[r].purpose}

\* withdrawConsent: for the service, a request for deletion comes next.
WithdrawConsent(r) ==
  /\ task[r].op = "withdraw"
  /\ WithdrawConsentAtomically(r)
  /\ IF task[r].purpose = "service" THEN Go(r, "flag") ELSE End(r)
  /\ UNCHANGED <<contended, deletionVars>>

GrantConsentAtomically(r) ==
  /\ "lead" \in alive
  /\ record' = task[r].seen \cup {"marketing"}
  /\ consent' = consent \cup {"marketing"}

GrantMarketingConsent(r) ==
  /\ task[r].op = "grant"
  /\ GrantConsentAtomically(r)
  /\ End(r)
  /\ UNCHANGED <<contended, deletionVars>>

RecordHuttonsTransferConsent(r) ==
  /\ task[r].op = "huttons" /\ "lead" \in alive
  /\ record' = task[r].seen \cup {"huttons"}
  /\ End(r)
  /\ UNCHANGED <<consent, contended, deletionVars>>

\* handleUnsubscribe, the link of an e-mail: its record says that service consent
\* is given, whatever the flag says.
Unsubscribe ==
  /\ "lead" \in alive
  /\ consent' = consent \ {"marketing"}
  /\ record' = {"service"}
  /\ contended' = (\/ contended \/ "service" \notin consent
                   \/ \E q \in Requests : task[q].op \in ConsentOps)
  /\ UNCHANGED <<deletionVars, task>>

-----------------------------------------------------------------------------
(* Requests for deletion.                                                  *)

CreateDeletionRequest(target) ==
  \E q \in Deletions :
    /\ deletion[q].status = "none"
    /\ deletion' = [deletion EXCEPT ![q] = [status |-> "flagged", target |-> target]]

\* Every withdrawal makes its own request.
FlagWithdrawal(r) ==
  /\ task[r].op = "flag"
  /\ CreateDeletionRequest("lead")
  /\ End(r)
  /\ UNCHANGED <<consentVars, alive, killer, torn>>

\* flagNewItems of the scan (see Retention): for a row without a request.
FlagByScan(target) ==
  /\ target \in alive
  /\ \A q \in Deletions : deletion[q].target # target
  /\ CreateDeletionRequest(target)
  /\ UNCHANGED <<consentVars, alive, killer, torn, task>>

\* executeHardDelete: the status is checked, not the age of the request.
ExecuteHardDelete(r, q) ==
  /\ deletion[q].status = "flagged"
  /\ Begin(r, [Free EXCEPT !.op = "collect", !.q = q])
  /\ UNCHANGED <<consentVars, deletionVars>>

TargetOf(r) == deletion[task[r].q].target

\* Rows first for a seller, whose paths it has collected; files first for a
\* listing; no files for a consent record.
CollectFilePaths(r) ==
  /\ task[r].op = "collect"
  /\ Go(r, IF TargetOf(r) = "listing" THEN "unlink" ELSE "delete")
  /\ UNCHANGED <<consentVars, deletionVars>>

\* hardDeleteSeller takes the listings and the consent records of the seller.
Deleted(target) == IF target = "lead" THEN Targets ELSE {target}

KillBy(target, who) ==
  /\ alive' = alive \ Deleted(target)
  /\ killer' = [t \in Targets |-> IF t \in Deleted(target) \cap alive THEN who ELSE killer[t]]

HardDelete_Quietly(r) ==
  /\ task[r].op = "delete"
  /\ KillBy(TargetOf(r), task[r].q)
  /\ Go(r, IF TargetOf(r) = "lead" THEN "unlink" ELSE "execute")
  /\ UNCHANGED <<consentVars, deletion, torn>>

\* A row that is gone makes the delete throw (Die).
HardDelete(r) ==
  /\ task[r].op = "delete" /\ TargetOf(r) \in alive
  /\ KillBy(TargetOf(r), task[r].q)
  /\ Go(r, IF TargetOf(r) = "lead" THEN "unlink" ELSE "execute")
  /\ UNCHANGED <<consentVars, deletion, torn>>

\* One after the other, a failure logged in the audit trail (what is on disk is in
\* SellerDocuments, SaleDocuments and Photo).
UnlinkFiles(r) ==
  /\ task[r].op = "unlink"
  /\ Go(r, IF TargetOf(r) = "listing" THEN "delete" ELSE "execute")
  /\ UNCHANGED <<consentVars, alive, deletion, killer, torn>>

UpdateDeletionRequest(r) ==
  /\ task[r].op = "execute"
  /\ deletion' = [deletion EXCEPT ![task[r].q].status = "executed"]
  /\ End(r)
  /\ UNCHANGED <<consentVars, alive, killer, torn>>

\* deleteSellerAccount, by the seller (its files are in SellerDocuments).
DeleteSellerAccount ==
  /\ "lead" \in alive
  /\ KillBy("lead", "account")
  /\ UNCHANGED <<consentVars, deletion, torn, task>>

-----------------------------------------------------------------------------

DataInit ==
  /\ consent \in {{"service"}, {"service", "marketing"}}
  /\ record = consent
  /\ alive = Targets
  /\ deletion = [q \in Deletions |-> [status |-> "none", target |-> "none"]]
  /\ task = [r \in Requests |-> Free]
  /\ contended = FALSE
  /\ killer = [t \in Targets |-> NoDeletion]
  /\ torn = {}

\* /seller/compliance/consent, and the last step of the onboarding.
ConsentStep(r) ==
  \/ \E purpose \in Purposes : ReadConsent(r, "withdraw", purpose)
  \/ ReadConsent(r, "grant", "marketing") \/ ReadConsent(r, "huttons", "none")
  \/ WithdrawConsent(r) \/ GrantMarketingConsent(r) \/ RecordHuttonsTransferConsent(r)
  \/ FlagWithdrawal(r)

\* /admin/compliance/deletion-queue
DeletionStep(r) ==
  \/ \E q \in Deletions : ExecuteHardDelete(r, q)
  \/ CollectFilePaths(r) \/ HardDelete(r) \/ UnlinkFiles(r) \/ UpdateDeletionRequest(r)

DataNext ==
  \/ Unsubscribe \/ DeleteSellerAccount
  \/ \E target \in Targets : FlagByScan(target)
  \/ \E r \in Requests : Die(r) \/ ConsentStep(r) \/ DeletionStep(r)

DataSpec == DataInit /\ [][DataNext]_dataVars

-----------------------------------------------------------------------------
(* Properties.                                                             *)

\* The latest consent record says what the flags say, unless two handlers read
\* the consent before either wrote, or the link of an e-mail came after the
\* withdrawal of the service.
RecordFollowsConsent ==
  ~contended /\ "lead" \in alive => record \ {"huttons"} = consent

\* A request executed has no target left, and none is executed on the deletion
\* another one made: of two, the second throws.
ExecutedIsErased ==
  \A q \in Deletions : deletion[q].status = "executed" => killer[deletion[q].target] = q

\* A request that can be neither executed nor left, because its target is gone,
\* was overtaken by another deletion or cut off after its own.
StuckIsExplained ==
  \A q \in Deletions :
    deletion[q].status = "flagged" /\ deletion[q].target \notin alive
      => \/ killer[deletion[q].target] # q
         \/ q \in torn
         \/ \E r \in Requests : task[r].q = q

\* Flags and records of a consent agree.
ConsentIsSound == DataTypeOK /\ RecordFollowsConsent

\* A request for deletion is executed by its own deletion, and one that is stuck
\* can be explained.
ErasureIsSound == ExecutedIsErased /\ StuckIsExplained
=============================================================================
