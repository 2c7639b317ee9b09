---------------------------- MODULE Transaction ----------------------------
(***************************************************************************)
(* A sale from the accepted offer to completion                            *)
(* (src/src/domains/transaction): the transaction's status, HDB's progress *)
(* with it, the Option To Purchase (OTP) that is exercised on the way, the *)
(* cascade that withdraws the flat when the sale falls through, and the    *)
(* other way a sale falls through: the seller's withdrawal of consent      *)
(* (src/src/domains/compliance).                                           *)
(*                                                                         *)
(* A handler is a request, as in Viewing and Offer: one action per await   *)
(* whose read or write another handler could come between.  Handlers that  *)
(* write once, on a condition the statement itself checks, are one action. *)
(* The two compliance gates read other domains' rows: the newest           *)
(* counterparty CDD record of a transaction is a variable, what only an    *)
(* update outside the application can give is a constant.                  *)
(*                                                                         *)
(* A seller has one transaction here.  The invoice, the scans of the OTP   *)
(* and the handoff to the agency touch no row modelled here.  The slots of *)
(* the cascade are one step (Viewing has the steps; Offer has the offers a *)
(* withdrawal voids), and the flat is not listed again.                    *)
(***************************************************************************)
EXTENDS Integers, Sequences

CONSTANTS
  Transactions,  \* identities of rows of transactions, one per accepted offer
  Properties,    \* identities of rows of properties
  Listings,      \* identities of rows of listings
  Requests,      \* handlers the process may have in flight
  PropertyOf,    \* transaction -> property
  ListingOf,     \* property -> its listing not yet closed
  CoBroke,       \* transactions whose offer names the buyer's agent
  EaaConfirmed,  \* transactions linked to an agreement explained by video call
  BuyerVerified, \* transactions whose offer has a verified buyer CDD record
  NoTransaction  \* no transaction

ASSUME TransactionAssumption ==
  /\ PropertyOf \in [Transactions -> Properties]
  /\ ListingOf \in [Properties -> Listings]
  /\ Properties \cap Listings = {}
  /\ NoTransaction \notin Transactions

VARIABLES
  status,                \* transactions.status, "none" before the row exists
  hdbApplicationStatus,  \* transactions.hdb_application_status
  exerciseDeadline,      \* transactions with an exercise_deadline
  counterpartyCdd,       \* the newest counterparty CDD record of a transaction
  retained,              \* transactions whose CDD retention was refreshed
  otpStatus,             \* otps.status, "none" before the row exists
  agentReviewed,         \* transactions whose OTP has an agent_reviewed_at
  posted,                \* listings with portal listings ready or posted
  slotsOpen,             \* properties with viewing slots not cancelled
  listed,                \* properties whose listing is neither draft nor closed
  req,                   \* the local state of each request
  contended,             \* ghost: transactions two requests handled at once
  abandoned              \* ghost: transactions a request died on half-way

saleVars == <<status, hdbApplicationStatus, exerciseDeadline, counterpartyCdd, retained>>
otpVars == <<otpStatus, agentReviewed>>
flatVars == <<posted, slotsOpen, listed>>
vars == <<saleVars, otpVars, flatVars, req, contended, abandoned>>

TRANSACTION_STATUS_ORDER ==
  <<"option_issued", "option_exercised", "completing", "completed">>

OtpOrder == <<"prepared", "sent_to_seller", "signed_by_seller", "returned",
              "issued_to_buyer", "exercised">>

Terminal == {"completed", "fallen_through"}

Statuses == {"none", "option_issued", "option_exercised", "completing"} \cup Terminal

\* "other" stands for the statuses nothing in the program tests.
HdbStatuses == {"not_started", "application_submitted", "approval_granted", "other"}

\* The OTP statuses the cascade expires.
LiveOtp == {"prepared", "sent_to_seller", "signed_by_seller", "returned", "issued_to_buyer"}

OtpStatuses == LiveOtp \cup {"none", "exercised", "expired"}

\* What a request has read and has still to do: op names its next step.
RequestStates ==
  [op : {"idle", "gate", "approval", "update", "hdb", "otp", "advanceOtp",
         "deadline", "expire", "expiring", "portals", "slots", "draft",
         "withdraw", "close", "fall"},
   tx : Transactions \cup {NoTransaction},
   seen : Statuses,                              \* the status to compare with
   next : Statuses \cup HdbStatuses \cup OtpStatuses]  \* the value to write

Idle == [op |-> "idle", tx |-> NoTransaction, seen |-> "none", next |-> "none"]

On(op, t, next) ==
  [op |-> op, tx |-> t, seen |-> IF op = "gate" THEN status[t] ELSE "none", next |-> next]

TypeOK ==
  /\ status \in [Transactions -> Statuses]
  /\ hdbApplicationStatus \in [Transactions -> HdbStatuses]
  /\ exerciseDeadline \subseteq Transactions
  /\ counterpartyCdd \in [Transactions -> {"none", "recorded", "verified"}]
  /\ retained \subseteq Transactions
  /\ otpStatus \in [Transactions -> OtpStatuses]
  /\ agentReviewed \subseteq Transactions
  /\ posted \subseteq Listings
  /\ slotsOpen \subseteq Properties
  /\ listed \subseteq Properties
  /\ req \in [Requests -> RequestStates]
  /\ contended \subseteq Transactions
  /\ abandoned \subseteq Transactions

-----------------------------------------------------------------------------
(* Requests.                                                               *)

Open(t) == status[t] \notin Terminal \cup {"none"}

\* Status n comes after status s.
Forward(s, n) ==
  \E i, j \in DOMAIN TRANSACTION_STATUS_ORDER :
    i < j /\ TRANSACTION_STATUS_ORDER[i] = s /\ TRANSACTION_STATUS_ORDER[j] = n

Contend(r, t) ==
  contended' = contended \cup
    {x \in {t} : \E q \in Requests \ {r} : req[q].tx = x}

Begin(r, t, op, next) ==
  /\ req[r] = Idle
  /\ req' = [req EXCEPT ![r] = On(op, t, next)]
  /\ Contend(r, t)
  /\ UNCHANGED abandoned

\* A handler whose only write is the one of this step.
Once(r, t) ==
  /\ req[r] = Idle
  /\ Contend(r, t)
  /\ UNCHANGED <<req, abandoned>>

Continue(r, op) ==
  /\ req' = [req EXCEPT ![r].op = op]
  /\ UNCHANGED <<contended, abandoned>>

Finish(r) ==
  /\ req' = [req EXCEPT ![r] = Idle]
  /\ UNCHANGED <<contended, abandoned>>

\* The handler throws at its next await: a gate, a conflict, an error of the
\* database or of another domain, a restart.  What it has written stays, and
\* a cascade or a deadline it has still to write is never written.
Fail(r) ==
  /\ req[r] # Idle
  /\ req' = [req EXCEPT ![r] = Idle]
  /\ abandoned' = abandoned \cup
       {t \in {req[r].tx} : req[r].op \in
          {"deadline", "expire", "expiring", "portals", "slots", "draft"}}
  /\ UNCHANGED <<saleVars, otpVars, flatVars, contended>>

-----------------------------------------------------------------------------
(* createTransaction, and the counterparty's due diligence.                *)

\* The offer is accepted and has no transaction yet: offer_id is unique.
CreateTransaction(r, t) ==
  /\ status[t] = "none"
  /\ Once(r, t)
  /\ status' = [status EXCEPT ![t] = "option_issued"]
  /\ UNCHANGED <<hdbApplicationStatus, exerciseDeadline, counterpartyCdd, retained, otpVars, flatVars>>

\* The handler inserts a record without verified_at: a newest record that
\* hides a verified one.
RecordCounterpartyCdd(r, t) ==
  /\ status[t] # "none"
  /\ Once(r, t)
  /\ counterpartyCdd' = [counterpartyCdd EXCEPT ![t] = "recorded"]
  /\ UNCHANGED <<status, hdbApplicationStatus, exerciseDeadline, retained, otpVars, flatVars>>

\* No handler verifies a counterparty: it is done outside the application.
VerifyCounterparty(t) ==
  /\ counterpartyCdd[t] = "recorded"
  /\ counterpartyCdd' = [counterpartyCdd EXCEPT ![t] = "verified"]
  /\ UNCHANGED <<status, hdbApplicationStatus, exerciseDeadline, retained, otpVars, flatVars,
                 req, contended, abandoned>>

-----------------------------------------------------------------------------
(* advanceTransactionStatus.                                               *)

AdvanceStart(r, t, s) ==
  /\ Open(t)
  /\ Forward(status[t], s)
  /\ Begin(r, t, "gate", s)
  /\ UNCHANGED <<saleVars, otpVars, flatVars>>

\* checkComplianceGate('counterparty_cdd').
CounterpartyGate(r) ==
  /\ req[r].op = "gate"
  /\ req[r].tx \in CoBroke \/ counterpartyCdd[req[r].tx] = "verified"
  /\ Continue(r, IF req[r].next = "completed" THEN "approval" ELSE "update")
  /\ UNCHANGED <<saleVars, otpVars, flatVars>>

CompletionGate_AnyProgress(r) ==
  /\ req[r].op = "approval"
  /\ hdbApplicationStatus[req[r].tx] # "not_started"
  /\ retained' = retained \cup {req[r].tx}
  /\ Continue(r, "update")
  /\ UNCHANGED <<status, hdbApplicationStatus, exerciseDeadline, counterpartyCdd, otpVars, flatVars>>

\* checkComplianceGate('hdb_complete'), then refreshCddRetentionOnCompletion.
CompletionGate(r) ==
  /\ req[r].op = "approval"
  /\ hdbApplicationStatus[req[r].tx] = "approval_granted"
  /\ retained' = retained \cup {req[r].tx}
  /\ Continue(r, "update")
  /\ UNCHANGED <<status, hdbApplicationStatus, exerciseDeadline, counterpartyCdd, otpVars, flatVars>>

StatusUpdate_NoCompare(r) ==
  /\ req[r].op = "update"
  /\ status' = [status EXCEPT ![req[r].tx] = req[r].next]
  /\ Finish(r)
  /\ UNCHANGED <<hdbApplicationStatus, exerciseDeadline, counterpartyCdd, retained, otpVars, flatVars>>

\* updateTransactionStatus compares with the status read, and sets.
StatusUpdate(r) ==
  /\ req[r].op = "update"
  /\ status[req[r].tx] = req[r].seen
  /\ status' = [status EXCEPT ![req[r].tx] = req[r].next]
  /\ Finish(r)
  /\ UNCHANGED <<hdbApplicationStatus, exerciseDeadline, counterpartyCdd, retained, otpVars, flatVars>>

-----------------------------------------------------------------------------
(* updateHdbTracking.                                                      *)

HdbStart_NoGate(r, t, h) ==
  /\ status[t] # "none"
  /\ Begin(r, t, "hdb", h)
  /\ UNCHANGED <<saleVars, otpVars, flatVars>>

\* checkComplianceGate('hdb_submission_review'), for a submission only: the
\* seller's transaction has not fallen through and its OTP is exercised.
HdbStart(r, t, h) ==
  /\ status[t] # "none"
  /\ h = "application_submitted" =>
       status[t] # "fallen_through" /\ otpStatus[t] = "exercised"
  /\ Begin(r, t, "hdb", h)
  /\ UNCHANGED <<saleVars, otpVars, flatVars>>

\* The row takes the status asked for, on a terminal transaction too.
HdbCommit(r) ==
  /\ req[r].op = "hdb"
  /\ hdbApplicationStatus' = [hdbApplicationStatus EXCEPT ![req[r].tx] = req[r].next]
  /\ Finish(r)
  /\ UNCHANGED <<status, exerciseDeadline, counterpartyCdd, retained, otpVars, flatVars>>

-----------------------------------------------------------------------------
(* createOtp, markOtpReviewed and advanceOtp.                              *)

OtpStart(r, t) ==
  /\ Open(t)
  /\ otpStatus[t] = "none"
  /\ Begin(r, t, "otp", "prepared")
  /\ UNCHANGED <<saleVars, otpVars, flatVars>>

\* otps.transaction_id is unique.
OtpCommit(r) ==
  /\ req[r].op = "otp"
  /\ otpStatus[req[r].tx] = "none"
  /\ otpStatus' = [otpStatus EXCEPT ![req[r].tx] = req[r].next]
  /\ Finish(r)
  /\ UNCHANGED <<saleVars, agentReviewed, flatVars>>

\* At any status of the OTP.
ReviewOtp(r, t) ==
  /\ otpStatus[t] # "none"
  /\ t \in EaaConfirmed
  /\ Once(r, t)
  /\ agentReviewed' = agentReviewed \cup {t}
  /\ UNCHANGED <<saleVars, otpStatus, flatVars>>

\* One step along OTP_TRANSITIONS; the last but one needs the agent's review
\* and, when the buyer has no agent, the buyer's due diligence.
AdvanceOtpStart(r, t) ==
  /\ Open(t)
  /\ \E i \in DOMAIN OtpOrder \ {Len(OtpOrder)} :
       /\ OtpOrder[i] = otpStatus[t]
       /\ OtpOrder[i + 1] = "issued_to_buyer" =>
            t \in agentReviewed /\ t \in CoBroke \cup BuyerVerified
       /\ Begin(r, t, "advanceOtp", OtpOrder[i + 1])
  /\ UNCHANGED <<saleVars, otpVars, flatVars>>

AdvanceOtpCommit_NoDeadline(r) ==
  /\ req[r].op = "advanceOtp"
  /\ otpStatus' = [otpStatus EXCEPT ![req[r].tx] = req[r].next]
  /\ Finish(r)
  /\ UNCHANGED <<saleVars, agentReviewed, flatVars>>

\* updateOtpStatus: by the OTP's id, whatever its status is by now.
AdvanceOtpCommit(r) ==
  /\ req[r].op = "advanceOtp"
  /\ otpStatus' = [otpStatus EXCEPT ![req[r].tx] = req[r].next]
  /\ IF req[r].next = "issued_to_buyer" THEN Continue(r, "deadline") ELSE Finish(r)
  /\ UNCHANGED <<saleVars, agentReviewed, flatVars>>

SetExerciseDeadline(r) ==
  /\ req[r].op = "deadline"
  /\ exerciseDeadline' = exerciseDeadline \cup {req[r].tx}
  /\ Finish(r)
  /\ UNCHANGED <<status, hdbApplicationStatus, counterpartyCdd, retained, otpVars, flatVars>>

-----------------------------------------------------------------------------
(* markFallenThrough and its cascade.                                      *)

\* updateFallenThrough writes unless the status is terminal by now.
MarkFallenThrough(r, t) ==
  /\ Open(t)
  /\ Begin(r, t, "expire", "expired")
  /\ status' = [status EXCEPT ![t] = "fallen_through"]
  /\ UNCHANGED <<hdbApplicationStatus, exerciseDeadline, counterpartyCdd, retained, otpVars, flatVars>>

ReadOtp_IssuedOnly(r) ==
  /\ req[r].op = "expire"
  /\ Continue(r, IF otpStatus[req[r].tx] = "issued_to_buyer" THEN "expiring" ELSE "portals")
  /\ UNCHANGED <<saleVars, otpVars, flatVars>>

ReadOtp(r) ==
  /\ req[r].op = "expire"
  /\ Continue(r, IF otpStatus[req[r].tx] \in LiveOtp THEN "expiring" ELSE "portals")
  /\ UNCHANGED <<saleVars, otpVars, flatVars>>

ExpireOtp(r) ==
  /\ req[r].op = "expiring"
  /\ otpStatus' = [otpStatus EXCEPT ![req[r].tx] = req[r].next]
  /\ Continue(r, "portals")
  /\ UNCHANGED <<saleVars, agentReviewed, flatVars>>

\* expirePortalListings matches the id of a listing; it is given a property's.
ExpirePortalListings(r) ==
  /\ req[r].op = "portals"
  /\ posted' = posted \ {PropertyOf[req[r].tx]}
  /\ Continue(r, "slots")
  /\ UNCHANGED <<saleVars, otpVars, slotsOpen, listed>>

CancelSlots_NotCancelled(r) ==
  /\ req[r].op = "slots"
  /\ Continue(r, "draft")
  /\ UNCHANGED <<saleVars, otpVars, flatVars>>

CancelSlots(r) ==
  /\ req[r].op = "slots"
  /\ slotsOpen' = slotsOpen \ {PropertyOf[req[r].tx]}
  /\ Continue(r, "draft")
  /\ UNCHANGED <<saleVars, otpVars, posted, listed>>

RevertToDraft(r) ==
  /\ req[r].op = "draft"
  /\ listed' = listed \ {PropertyOf[req[r].tx]}
  /\ Finish(r)
  /\ UNCHANGED <<saleVars, otpVars, posted, slotsOpen>>

-----------------------------------------------------------------------------
(* withdrawConsent, for the service: its side effects on the seller's flat *)
(* and sale, with or without a transaction.                                *)

WithdrawConsent(r, t) ==
  /\ Begin(r, t, "withdraw", "fallen_through")
  /\ UNCHANGED <<saleVars, otpVars, flatVars>>

WithdrawSlots(r) ==
  /\ req[r].op = "withdraw"
  /\ slotsOpen' = slotsOpen \ {PropertyOf[req[r].tx]}
  /\ Continue(r, "close")
  /\ UNCHANGED <<saleVars, otpVars, posted, listed>>

CloseListing(r) ==
  /\ req[r].op = "close"
  /\ listed' = listed \ {PropertyOf[req[r].tx]}
  /\ Continue(r, "fall")
  /\ UNCHANGED <<saleVars, otpVars, posted, slotsOpen>>

\* The seller's transaction as of now, by updateFallenThrough: the OTP and the
\* portal listings are left alone.
WithdrawFall(r) ==
  /\ req[r].op = "fall"
  /\ status' = IF Open(req[r].tx)
               THEN [status EXCEPT ![req[r].tx] = "fallen_through"] ELSE status
  /\ Finish(r)
  /\ UNCHANGED <<hdbApplicationStatus, exerciseDeadline, counterpartyCdd, retained, otpVars, flatVars>>

-----------------------------------------------------------------------------

Init ==
  /\ status = [t \in Transactions |-> "none"]
  /\ hdbApplicationStatus = [t \in Transactions |-> "not_started"]
  /\ exerciseDeadline = {}
  /\ counterpartyCdd = [t \in Transactions |-> "none"]
  /\ retained = {}
  /\ otpStatus = [t \in Transactions |-> "none"]
  /\ agentReviewed = {}
  /\ posted = Listings
  /\ slotsOpen = Properties
  /\ listed = Properties
  /\ req = [r \in Requests |-> Idle]
  /\ contended = {}
  /\ abandoned = {}

Start(r, t) ==
  \/ CreateTransaction(r, t)
  \/ RecordCounterpartyCdd(r, t)
  \/ \E s \in Statuses : AdvanceStart(r, t, s)
  \/ \E h \in HdbStatuses : HdbStart(r, t, h)
  \/ OtpStart(r, t)
  \/ ReviewOtp(r, t)
  \/ AdvanceOtpStart(r, t)
  \/ MarkFallenThrough(r, t)
  \/ WithdrawConsent(r, t)

Step(r) ==
  \/ CounterpartyGate(r)
  \/ CompletionGate(r)
  \/ StatusUpdate(r)
  \/ HdbCommit(r)
  \/ OtpCommit(r)
  \/ AdvanceOtpCommit(r)
  \/ SetExerciseDeadline(r)
  \/ ReadOtp(r)
  \/ ExpireOtp(r)
  \/ ExpirePortalListings(r)
  \/ CancelSlots(r)
  \/ RevertToDraft(r)
  \/ WithdrawSlots(r)
  \/ CloseListing(r)
  \/ WithdrawFall(r)
  \/ Fail(r)

Next ==
  \/ \E r \in Requests : Step(r) \/ \E t \in Transactions : Start(r, t)
  \/ \E t \in Transactions : VerifyCounterparty(t)

Spec == Init /\ [][Next]_vars

-----------------------------------------------------------------------------
(* Properties.                                                             *)

\* No request is handling the transaction.
Quiet(t) == \A q \in Requests : req[q].tx # t

\* The sale keeps the promises of Sale, whatever requests race or die: its
\* status only goes forward or falls through, it completes with its due
\* diligence retained, its buyer holds reviewed options only.
WithBuyer == {t \in Transactions : otpStatus[t] \in {"issued_to_buyer", "exercised"}}

S == INSTANCE Sale WITH reviewed <- agentReviewed, withBuyer <- WithBuyer

ImplementsSale == S!Spec

\* While HDB has the application, the OTP is exercised and stays so.
SubmittedIsExercised ==
  \A t \in Transactions :
    (t \notin contended /\ hdbApplicationStatus[t] = "application_submitted") =>
      otpStatus[t] = "exercised"

\* An OTP that reached the buyer has the deadline the daily reminders read,
\* once no request is at work on it and none died before writing it.
IssuedHasDeadline ==
  \A t \in Transactions :
    (/\ otpStatus[t] \in {"issued_to_buyer", "exercised"}
     /\ Quiet(t)
     /\ t \notin abandoned) => t \in exerciseDeadline

\* The OTP moves one step along OTP_TRANSITIONS, or expires while it is live.
OtpMoves(t) ==
  \/ otpStatus[t] = "none" /\ otpStatus'[t] = "prepared"
  \/ otpStatus[t] \in LiveOtp /\ otpStatus'[t] = "expired"
  \/ \E i \in DOMAIN OtpOrder \ {Len(OtpOrder)} :
       OtpOrder[i] = otpStatus[t] /\ OtpOrder[i + 1] = otpStatus'[t]

\* On a sale handled by one request at a time the OTP moves along its table, and
\* the sale completes only with HDB's approval and the counterparty's due diligence
\* still in place when the status is written; another request may take either away
\* between the gate and the write.
StepsAreGated ==
  [][\A t \in Transactions \ contended' :
       /\ otpStatus'[t] # otpStatus[t] => OtpMoves(t)
       /\ status[t] # "completed" /\ status'[t] = "completed" =>
            /\ hdbApplicationStatus[t] = "approval_granted"
            /\ t \in CoBroke \/ counterpartyCdd[t] = "verified"]_vars

\* The flat of a sale that fell through, by the cascade or by a withdrawal of
\* consent that ran to its end alone, has no open viewing slot and no listing
\* on the market.
FallenThroughIsWithdrawn ==
  \A t \in Transactions :
    (/\ status[t] = "fallen_through"
     /\ Quiet(t)
     /\ t \notin contended \cup abandoned) =>
       PropertyOf[t] \notin slotsOpen \cup listed

\* A cascade that worked alone ends with no live OTP: whatever status the OTP
\* had reached, it is expired or exercised.
CascadeExpiresOtp ==
  [][\A r \in Requests :
       (RevertToDraft(r) /\ req[r].tx \notin contended) =>
         otpStatus[req[r].tx] \notin LiveOtp]_vars

\* The option and the sale are of their types, and the deadline of an option that
\* reached the buyer is written.
OptionIsSound == TypeOK /\ IssuedHasDeadline
=============================================================================
