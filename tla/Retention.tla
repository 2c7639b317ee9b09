------------------------------ MODULE Retention ------------------------------
(***************************************************************************)
(* The end of personal data: the weekly scan (scanRetention of             *)
(* src/src/domains/compliance/compliance.service.ts), the daily purge      *)
(* (purgeSensitiveDocs), two jobs of the runner of                         *)
(* src/src/infra/jobs/runner.ts.                                           *)
(*                                                                         *)
(* A job goes through its steps in order.  A step selects its rows with    *)
(* one query and then treats them one after the other, with an await (and  *)
(* so anybody else's work, or a failure that ends the run) between two.    *)
(* The runner never has a job running twice; the next tick starts it       *)
(* afresh.  Dates are abstracted to "past the period": age counts the      *)
(* periods of a sale that have passed since it ended.                      *)
(***************************************************************************)
EXTENDS Integers, Sequences, FiniteSets

CONSTANTS
  Sellers,      \* rows of sellers
  Txs,          \* rows of transactions
  SellerOf,     \* the seller of each transaction
  MaxFailures,  \* bound: runs that fail
  Scenarios,    \* bound: the sellers, sales (and which have papers) and other rows of a behaviour
  NoSeller      \* no seller

ASSUME RetentionAssumption ==
  /\ SellerOf \in [Txs -> Sellers]
  /\ MaxFailures \in Nat
  /\ \A x \in Scenarios : x.sellers \subseteq Sellers /\ x.txs \subseteq Txs
  /\ NoSeller \notin Sellers

\* The other kinds of rows with a period, one row of each standing for all.
Kinds == {"consent_record", "viewer", "buyer", "listing", "slot", "weekly", "agent"}

VARIABLES
  cast,        \* bound: the scenario, which no step changes
  lead,        \* sellers whose status is lead or engaged
  idle,        \* sellers not updated for lead_retention_months
  withdrawn,   \* sellers who withdrew service consent, consentWithdrawnAt 30 days old
  flags,       \* deletion requests the scan made, by seller or kind
  tx,          \* status of each transaction
  age,         \* 1: past the periods in days (7), 2: past the anonymisation's (30)
  docs,        \* transactions with the path of a scan or of an invoice
  nric,        \* sellers whose CDD record holds the digits of their NRIC
  documents,   \* sellers whose CDD record lists documents
  priced,      \* transactions whose agreedPrice is not 0
  anonymised,  \* transactions with anonymisedAt
  pii,         \* sellers whose name, email and phone are theirs
  notices,     \* sellers with notifications in clear
  others,      \* the row of each kind
  job,         \* step and rows left of each job; seller: its notifications come next
  failures,    \* runs that failed
  fresh,       \* ghost: transactions opened since the job chose whom to anonymise
  abandoned    \* ghost: sellers whose run ended between two writes

sellerVars == <<lead, idle, withdrawn>>
saleVars == <<tx, age, cast>>
recordVars == <<docs, nric, documents, priced, anonymised, pii, notices>>
vars == <<sellerVars, flags, saleVars, recordVars, others, job, failures, fresh, abandoned>>

\* What each job does, in order.  The scan has the purge of the day within it.
Program ==
  [scan  |-> <<"lead", "withdrawn", "docs", "nric", "prices", "identities",
               "consent_record", "viewer", "buyer", "listing", "slot", "weekly", "agent">>,
   purge |-> <<"docs", "nric">>]

Jobs == DOMAIN Program

Stopped == [step |-> 0, todo |-> {}, seller |-> NoSeller]

StepOf(j) == IF job[j].step = 0 THEN "none" ELSE Program[j][job[j].step]

TypeOK ==
  /\ cast \in Scenarios
  /\ lead \subseteq Sellers /\ idle \subseteq Sellers /\ withdrawn \subseteq Sellers
  /\ flags \in [Sellers \cup Kinds -> Nat]
  /\ tx \in [Txs -> {"none", "open", "completed", "fallen_through"}]
  /\ age \in [Txs -> 0..2]
  /\ docs \subseteq Txs /\ priced \subseteq Txs /\ anonymised \subseteq Txs
  /\ nric \subseteq Sellers /\ documents \subseteq Sellers
  /\ pii \subseteq Sellers /\ notices \subseteq Sellers
  /\ others \in [Kinds -> {"kept", "expired", "emptied", "flagged", "erased"}]
  /\ \A j \in Jobs : /\ job[j].step \in 0..Len(Program[j])
                     /\ job[j].todo \subseteq Sellers \cup Txs \cup Kinds
                     /\ job[j].seller \in Sellers \cup {NoSeller}
                     /\ job[j].seller # NoSeller => StepOf(j) = "identities"
  /\ failures \in 0..MaxFailures
  /\ fresh \in [Jobs -> SUBSET Txs]
  /\ abandoned \subseteq Sellers

-----------------------------------------------------------------------------
(* The queries.                                                            *)

SalesOf(s) == {t \in Txs : SellerOf[t] = s /\ tx[t] # "none"}

\* completionDate is written when the status becomes completed, and only then
\* (updateTransactionStatus): a sale that fell through has none.
HasCompletionDate(t) == tx[t] = "completed"

CompletedBefore_Exactly(t, n) ==
  tx[t] \in {"completed", "fallen_through"} /\ HasCompletionDate(t) /\ age[t] = n

CompletedBefore(t, n) ==
  tx[t] \in {"completed", "fallen_through"} /\ HasCompletionDate(t) /\ age[t] >= n

FindLeadsForRetention == {s \in lead \cap idle : SalesOf(s) = {}}

FindServiceWithdrawnForDeletion == {s \in withdrawn : SalesOf(s) = {}}

FindCompletedTransactionsForDocPurge == {t \in docs : CompletedBefore(t, 1)}

FindCddRecordsForNricRedaction ==
  {s \in nric : \E t \in SalesOf(s) : CompletedBefore(t, 1)}

FindCompletedTransactionsForFinancialRedaction == {t \in priced : CompletedBefore(t, 1)}

FindCompletedTransactionsForAnonymisation_Any ==
  {t \in Txs \ anonymised : CompletedBefore(t, 2)}

\* Every sale of the seller must be past its period, not only this one.
FindCompletedTransactionsForAnonymisation ==
  {t \in Txs \ anonymised :
     /\ CompletedBefore(t, 2)
     /\ \A u \in SalesOf(SellerOf[t]) : u \in anonymised \/ CompletedBefore(u, 2)}

FindOthers_NotEmptied(k) == {x \in {k} : others[x] = "expired"}

FindOthers(k) == {x \in {k} : others[x] \in {"expired", "emptied"}}

\* findExistingDeletionRequestIds: the rows nobody has asked to delete.
Unflagged(ids) == {x \in ids : flags[x] = 0}

Select(step) ==
  CASE step = "lead"       -> Unflagged(FindLeadsForRetention)
    [] step = "withdrawn"  -> Unflagged(FindServiceWithdrawnForDeletion)
    [] step = "docs"       -> FindCompletedTransactionsForDocPurge
    [] step = "nric"       -> FindCddRecordsForNricRedaction
    [] step = "prices"     -> FindCompletedTransactionsForFinancialRedaction
    [] step = "identities" -> FindCompletedTransactionsForAnonymisation
    [] step \in {"consent_record", "listing"} -> Unflagged(FindOthers(step))
    [] OTHER               -> FindOthers(step)

-----------------------------------------------------------------------------
(* The runner.                                                             *)

\* A tick of the cron starts the job unless it is still running.
StartJob(j) ==
  /\ job[j].step = 0
  /\ job' = [job EXCEPT ![j] =
       [step |-> 1, todo |-> Select(Program[j][1]), seller |-> NoSeller]]
  /\ fresh' = [fresh EXCEPT ![j] = {}]
  /\ UNCHANGED <<sellerVars, flags, saleVars, recordVars, others, failures, abandoned>>

NextStep_NotAwaited(j) ==
  /\ job[j].step # 0 /\ job[j].todo = {}
  /\ job' = [job EXCEPT ![j] =
       IF @.step = Len(Program[j]) THEN Stopped
       ELSE [step |-> @.step + 1, todo |-> Select(Program[j][@.step + 1]), seller |-> @.seller]]
  /\ fresh' = [fresh EXCEPT ![j] = {}]
  /\ UNCHANGED <<sellerVars, flags, saleVars, recordVars, others, failures, abandoned>>

\* All rows of a step treated: the next one selects its own; after the last the
\* runner takes the job out of runningJobs.
NextStep(j) ==
  /\ job[j].step # 0 /\ job[j].todo = {} /\ job[j].seller = NoSeller
  /\ job' = [job EXCEPT ![j] =
       IF @.step = Len(Program[j]) THEN Stopped
       ELSE [step |-> @.step + 1, todo |-> Select(Program[j][@.step + 1]), seller |-> NoSeller]]
  /\ fresh' = [fresh EXCEPT ![j] = {}]
  /\ UNCHANGED <<sellerVars, flags, saleVars, recordVars, others, failures, abandoned>>

\* The handler throws, or the process restarts: the run ends where it is.
FailJob(j) ==
  /\ job[j].step # 0
  /\ failures < MaxFailures
  /\ failures' = failures + 1
  /\ abandoned' = abandoned \cup ({job[j].seller} \ {NoSeller})
  /\ job' = [job EXCEPT ![j] = Stopped]
  /\ UNCHANGED <<sellerVars, flags, saleVars, recordVars, others, fresh>>

Done(j, rows) == job' = [job EXCEPT ![j].todo = @ \ rows]

runVars == <<failures, fresh, abandoned>>

-----------------------------------------------------------------------------
(* The treatment of a row.                                                 *)

\* A request that waits for an admin (see Erasure).
CreateDeletionRequestOf(x) == flags' = [flags EXCEPT ![x] = @ + 1]

\* flagNewItems: one createDeletionRequest after the other.
FlagNewItems(j, x) ==
  /\ StepOf(j) \in {"lead", "withdrawn", "consent_record", "listing"}
  /\ x \in job[j].todo
  /\ CreateDeletionRequestOf(x)
  /\ others' = [k \in Kinds |-> IF k = x THEN "flagged" ELSE others[k]]
  /\ Done(j, {x})
  /\ UNCHANGED <<sellerVars, saleVars, recordVars, runVars>>

\* purgeTransactionSensitiveDocs: the sale's paths, and in the seller's CDD record
\* the documents and the digits.  A sale with no path is passed over.
PurgeTransactionSensitiveDocs(j, t) ==
  /\ StepOf(j) = "docs"
  /\ t \in job[j].todo
  /\ docs' = docs \ {t}
  /\ nric' = nric \ {SellerOf[t]}
  /\ documents' = documents \ {SellerOf[t]}
  /\ Done(j, {t})
  /\ UNCHANGED <<sellerVars, flags, saleVars, priced, anonymised, pii, notices, others, runVars>>

\* Only nricLast4 is written: the documents of the record stay.
RedactNricFromCddRecordsBatch(j) ==
  /\ StepOf(j) = "nric"
  /\ job[j].todo # {}
  /\ nric' = nric \ job[j].todo
  /\ Done(j, job[j].todo)
  /\ UNCHANGED <<sellerVars, flags, saleVars, docs, documents, priced, anonymised, pii, notices,
                 others, runVars>>

RedactTransactionFinancialData(j, t) ==
  /\ StepOf(j) = "prices"
  /\ t \in job[j].todo
  /\ priced' = priced \ {t}
  /\ Done(j, {t})
  /\ UNCHANGED <<sellerVars, flags, saleVars, docs, nric, documents, anonymised, pii, notices,
                 others, runVars>>

\* One database transaction for the seller and the sale ...
AnonymiseTransactionSeller(j, t) ==
  /\ StepOf(j) = "identities"
  /\ t \in job[j].todo
  /\ job[j].seller = NoSeller
  /\ pii' = pii \ {SellerOf[t]}
  /\ anonymised' = anonymised \cup {t}
  /\ job' = [job EXCEPT ![j].todo = @ \ {t}, ![j].seller = SellerOf[t]]
  /\ UNCHANGED <<sellerVars, flags, saleVars, docs, nric, documents, priced, notices, others,
                 runVars>>

\* ... and one write of its own for the notifications.
RedactSellerNotifications(j) ==
  /\ job[j].seller # NoSeller
  /\ notices' = notices \ {job[j].seller}
  /\ job' = [job EXCEPT ![j].seller = NoSeller]
  /\ UNCHANGED <<sellerVars, flags, saleVars, docs, nric, documents, priced, anonymised, pii,
                 others, runVars>>

Erase(j, k) ==
  /\ k \in job[j].todo
  /\ others' = [others EXCEPT ![k] = "erased"]
  /\ Done(j, {k})
  /\ UNCHANGED <<sellerVars, flags, saleVars, recordVars, runVars>>

AnonymiseVerifiedViewerRecords(j) == StepOf(j) = "viewer" /\ Erase(j, "viewer")

AnonymiseBuyerRecords(j) == StepOf(j) = "buyer" /\ Erase(j, "buyer")

DeleteOldWeeklyUpdates(j) == StepOf(j) = "weekly" /\ Erase(j, "weekly")

AnonymiseAgentRecord(j) == StepOf(j) = "agent" /\ Erase(j, "agent")

\* Two statements outside a transaction: the viewings, then their slots.
DeleteOldViewingSlotsWithViewings(j) ==
  /\ StepOf(j) = "slot"
  /\ \/ others["slot"] = "emptied" /\ Erase(j, "slot")
     \/ /\ others["slot"] = "expired" /\ "slot" \in job[j].todo
        /\ others' = [others EXCEPT !["slot"] = "emptied"]
        /\ UNCHANGED <<sellerVars, flags, saleVars, recordVars, job, runVars>>

\* The steps about sellers and their sales ...
ScanSales(j) ==
  \/ \E s \in Sellers : FlagNewItems(j, s)
  \/ \E t \in Txs : PurgeTransactionSensitiveDocs(j, t)
  \/ RedactNricFromCddRecordsBatch(j)
  \/ \E t \in Txs : RedactTransactionFinancialData(j, t)
  \/ \E t \in Txs : AnonymiseTransactionSeller(j, t)
  \/ RedactSellerNotifications(j)

\* ... and those about other rows.
ScanRows(j) ==
  \/ \E k \in Kinds : FlagNewItems(j, k)
  \/ AnonymiseVerifiedViewerRecords(j)
  \/ AnonymiseBuyerRecords(j)
  \/ DeleteOldViewingSlotsWithViewings(j)
  \/ DeleteOldWeeklyUpdates(j)
  \/ AnonymiseAgentRecord(j)

RunJob(j) == ScanSales(j) \/ ScanRows(j) \/ NextStep(j)

-----------------------------------------------------------------------------
(* Everybody else.                                                         *)

worldRest == <<flags, job, failures, abandoned>>

BecomeIdle(s) ==
  /\ s \in cast.sellers
  /\ s \notin idle
  /\ idle' = idle \cup {s}
  /\ UNCHANGED <<lead, withdrawn, saleVars, recordVars, others, fresh, worldRest>>

\* Any write of the row sets updatedAt.
TouchSeller(s) ==
  /\ s \in idle
  /\ idle' = idle \ {s}
  /\ UNCHANGED <<lead, withdrawn, saleVars, recordVars, others, fresh, worldRest>>

WithdrawService(s) ==
  /\ s \in cast.sellers
  /\ s \notin withdrawn
  /\ withdrawn' = withdrawn \cup {s}
  /\ idle' = idle \ {s}
  /\ UNCHANGED <<lead, saleVars, recordVars, others, fresh, worldRest>>

\* A sale with its price and the record of the seller's due diligence; the scans of
\* the option and the invoice come with it, or never (or are downloaded and deleted
\* before they fall due, see SaleDocuments).
OpenSale(t) ==
  /\ tx[t] = "none" /\ t \in cast.txs
  /\ tx' = [tx EXCEPT ![t] = "open"]
  /\ lead' = lead \ {SellerOf[t]}
  /\ idle' = idle \ {SellerOf[t]}
  /\ docs' = docs \cup ({t} \cap cast.papers)
  /\ priced' = priced \cup {t}
  /\ nric' = nric \cup {SellerOf[t]}
  /\ documents' = documents \cup {SellerOf[t]}
  /\ fresh' = [j \in Jobs |->
                 IF StepOf(j) = "identities" THEN fresh[j] \cup {t} ELSE fresh[j]]
  /\ UNCHANGED <<withdrawn, age, cast, anonymised, pii, notices, others, worldRest>>

EndSale(t, status) ==
  /\ tx[t] = "open"
  /\ tx' = [tx EXCEPT ![t] = status]
  /\ UNCHANGED <<sellerVars, age, cast, recordVars, others, fresh, worldRest>>

PeriodPasses(t) ==
  /\ tx[t] \in {"completed", "fallen_through"}
  /\ age[t] < 2
  /\ age' = [age EXCEPT ![t] = @ + 1]
  /\ UNCHANGED <<sellerVars, tx, cast, recordVars, others, fresh, worldRest>>

Expire(k) ==
  /\ others[k] = "kept"
  /\ k \in cast.kinds
  /\ others' = [others EXCEPT ![k] = "expired"]
  /\ UNCHANGED <<sellerVars, saleVars, recordVars, fresh, worldRest>>

-----------------------------------------------------------------------------

Init ==
  /\ cast \in Scenarios
  /\ lead = Sellers /\ idle = {} /\ withdrawn = {}
  /\ flags = [x \in Sellers \cup Kinds |-> 0]
  /\ tx = [t \in Txs |-> "none"] /\ age = [t \in Txs |-> 0]
  /\ docs = {} /\ nric = {} /\ documents = {} /\ priced = {} /\ anonymised = {}
  /\ pii = Sellers /\ notices = Sellers
  /\ others = [k \in Kinds |-> "kept"]
  /\ job = [j \in Jobs |-> Stopped]
  /\ failures = 0
  /\ fresh = [j \in Jobs |-> {}]
  /\ abandoned = {}

World ==
  \/ \E s \in Sellers : BecomeIdle(s) \/ TouchSeller(s) \/ WithdrawService(s)
  \/ \E t \in Txs : \/ OpenSale(t)
                   \/ \E status \in {"completed", "fallen_through"} : EndSale(t, status)
                   \/ PeriodPasses(t)
  \/ \E k \in Kinds : Expire(k)

Next == World \/ \E j \in Jobs : StartJob(j) \/ RunJob(j) \/ FailJob(j)

\* The cron ticks for ever, and an await ends: a job that is not running is
\* started, and one that is goes on.  Nothing forces the rest of the world, and
\* failures are finitely many.
Fairness == \A j \in Jobs : WF_vars(StartJob(j) \/ RunJob(j))

Spec == Init /\ [][Next]_vars /\ Fairness

-----------------------------------------------------------------------------
(* Properties.                                                             *)

\* The scan asks for the deletion of a row once, whatever runs fail half-way and
\* though two of its steps select leads.
FlaggedOnce == \A x \in Sellers \cup Kinds : flags[x] <= 1

\* A seller is not anonymised while a sale of theirs is open, unless it was
\* opened after the scan made its list: the two jobs and the sale interleave.
OpenSaleKept ==
  [][\A t \in Txs : tx[t] = "open" /\ (\A j \in Jobs : t \notin fresh[j])
       => (SellerOf[t] \in pii => SellerOf[t] \in pii')]_vars

\* The notifications of a seller anonymised are redacted, unless the run ended
\* between the two writes: the sale is then marked and never selected again.
AnonymisedIsRedacted ==
  \A s \in notices \ (pii \cup abandoned) : \E j \in Jobs : job[j].seller = s

\* Nothing is left of the seller's sales, but the documents of the due diligence if a
\* sale had no scan or invoice to be selected by when it fell due.
Forgotten(s) ==
  /\ s \notin pii \cup nric
  /\ SalesOf(s) \cap (docs \cup priced) = {}
  /\ s \in documents => SalesOf(s) \ cast.papers # {}

AllCompleted(s) == SalesOf(s) # {} /\ \A t \in SalesOf(s) : CompletedBefore(t, 2)

\* A seller whose sales are all completed and past their periods is forgotten,
\* unless a new sale comes, though runs fail at any row.
SellerIsForgotten ==
  \A s \in Sellers : AllCompleted(s) ~> Forgotten(s) \/ ~AllCompleted(s)

\* Nothing waits for the scan: no row is past its period, and every idle lead is
\* flagged.
NothingDue ==
  /\ \A k \in Kinds : others[k] \notin {"expired", "emptied"}
  /\ \A s \in FindLeadsForRetention : flags[s] > 0

\* Again and again nothing is due: no step of the scan starves the later ones,
\* though runs fail at any row (a row of each kind falls due once in the model).
DueIsHandled == []<>NothingDue

AllEnded(s) ==
  SalesOf(s) # {} /\ \A t \in SalesOf(s) : tx[t] \in {"completed", "fallen_through"} /\ age[t] = 2

\* "completed/fallen-through transactions past the cutoff": the papers of a sale
\* that fell through go like those of one completed. The code does not keep it.
FallenThroughIsForgotten ==
  \A s \in Sellers : AllEnded(s) ~> Forgotten(s) \/ ~AllEnded(s)

\* "Days post-completion before NRIC, CDD docs, OTP scans, and invoices are
\* auto-deleted": the documents of a seller whose sales are all completed go.  The
\* code does not keep it: it passes over a sale with no scan and no invoice.
CddDocumentsAreDeleted ==
  \A s \in Sellers : AllCompleted(s) ~> s \notin documents \/ ~AllCompleted(s)

\* A row is flagged once, and a seller made anonymous is so in the notifications too,
\* whichever runs end half-way.
RedactionIsSound == TypeOK /\ FlaggedOnce /\ AnonymisedIsRedacted
=============================================================================
