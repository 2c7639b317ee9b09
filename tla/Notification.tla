------------------------------ MODULE Notification ------------------------------
(***************************************************************************)
(* Sending one notification (src/src/domains/notification): the in-app     *)
(* row first, then the message by WhatsApp or by email, with an email in   *)
(* place of a WhatsApp that failed and a word to the agent when both did;  *)
(* the receipts the provider calls back with, in any order and any number  *)
(* of times; the recipient who reads the row.                              *)
(*                                                                         *)
(* Every await of send is a step, after which the process may die.  A      *)
(* statement of the database may fail, and a provider may take a message   *)
(* without answering, in which case the code sends it again.               *)
(***************************************************************************)
EXTENDS Integers, FiniteSets

CONSTANTS
  Sends,       \* calls of send under way
  MaxRetries   \* MAX_RETRIES of the providers: 3 in the code

ASSUME NotificationAssumption == MaxRetries \in Nat \ {0}

VARIABLES
  seller,    \* what the database holds of the recipient
  row,       \* status of the rows of each send: in_app, main, spare, alert
  stored,    \* whatsappMessageId of the main row: which attempt answered, 0 none
  call,      \* where each call of send is, and with which input
  taken,     \* the attempts each provider took, by call and row
  phone,     \* what has become of the WhatsApp message at the recipient's
  slipped    \* ghost: calls with an answer lost, or a write after sending failed

notificationVars == <<seller, row, stored, call, taken, phone, slipped>>

Rows == {"in_app", "main", "spare", "alert"}
Status == {"none", "pending", "sent", "delivered", "read", "failed"}

Inputs == [to : {"seller", "viewer"}, cdd : BOOLEAN, marketing : BOOLEAN,
           approved : BOOLEAN]

\* before: what the recipient had said when the call began.
Idle == [op |-> "idle", input |-> [to |-> "seller", cdd |-> FALSE, marketing |-> FALSE,
                                   approved |-> FALSE],
         channel |-> "none", attempts |-> 0, silent |-> FALSE]

Ended == {"idle", "returned", "thrown"}

Then(s, op) == call' = [call EXCEPT ![s].op = op]

Write(s, r, status) == row' = [row EXCEPT ![s][r] = status]

Phone == "whatsapp"

-----------------------------------------------------------------------------
(* The recipient and the outside.                                          *)

\* handleUnsubscribe, and the withdrawal of consent in general.
WithdrawMarketingConsent ==
  /\ seller.marketing
  /\ seller' = [seller EXCEPT !.marketing = FALSE]
  /\ UNCHANGED <<row, stored, call, taken, phone, slipped>>

WithdrawServiceConsent ==
  /\ seller.service
  /\ seller' = [seller EXCEPT !.service = FALSE]
  /\ UNCHANGED <<row, stored, call, taken, phone, slipped>>

\* A CDD record of the seller becomes a sensitive case.
FlagSensitiveCase ==
  /\ ~seller.sensitive
  /\ seller' = [seller EXCEPT !.sensitive = TRUE]
  /\ UNCHANGED <<row, stored, call, taken, phone, slipped>>

\* The recipient, with an account, marks a row of his by its id: of whatever channel,
\* although the list shows those in the app alone.  The alert is the agent's.
MarkAsRead(s) ==
  /\ \E r \in Rows : /\ row[s][r] # "none"
                     /\ r = "alert" \/ call[s].input.to = "seller"
                     /\ Write(s, r, "read")
  /\ UNCHANGED <<seller, stored, call, taken, phone, slipped>>

\* What the provider took arrives, or bounces; what arrived is opened.
Arrive(s) ==
  /\ call[s].channel = Phone /\ taken[s]["main"] # {}
  /\ \/ phone[s] = "nothing" /\ phone' \in {[phone EXCEPT ![s] = p] : p \in {"arrived", "bounced"}}
     \/ phone[s] = "arrived" /\ phone' = [phone EXCEPT ![s] = "opened"]
  /\ UNCHANGED <<seller, row, stored, call, taken, slipped>>

\* The receipts Meta may call back with: of any attempt, late or again.
Receipts(s) ==
  IF phone[s] = "arrived" THEN {"delivered"}
  ELSE IF phone[s] = "opened" THEN {"delivered", "read"}
  ELSE IF phone[s] = "bounced" THEN {"failed"} ELSE {}

\* handleWhatsAppWebhook: the row is found by the message id, and takes the status
\* of the receipt whatever it had.  A receipt of another attempt finds none.
HandleWhatsAppWebhook(s) ==
  /\ \E n \in taken[s]["main"] : stored[s] = n
  /\ \E status \in Receipts(s) : Write(s, "main", status)
  /\ UNCHANGED <<seller, stored, call, taken, phone, slipped>>

-----------------------------------------------------------------------------
(* send                                                                    *)

Mute(i) == i.to = "seller" /\ i.cdd /\ seller.sensitive

\* checkDncAllowed, for a seller; nobody asks for a viewer.
DncAllowed(i) ==
  i.to = "seller" => seller.service /\ (i.marketing => seller.marketing)

\* What the recipient has said by now, and what the law says.
SaidNo(i) ==
  /\ i.to = "seller"
  /\ ~seller.service \/ (i.marketing /\ ~seller.marketing) \/ (i.cdd /\ seller.sensitive)

Send(s) ==
  /\ call[s].op = "idle"
  /\ \E i \in Inputs :
       call' = [call EXCEPT ![s] = [Idle EXCEPT !.op = "sensitive", !.input = i,
                                                !.silent = SaidNo(i)]]
  /\ UNCHANGED <<seller, row, stored, taken, phone, slipped>>

\* Reg 12H: a notification about compliance to the seller of a sensitive case is
\* dropped.
IsSensitiveCaseSeller(s) ==
  /\ call[s].op = "sensitive"
  /\ Then(s, IF Mute(call[s].input) THEN "returned" ELSE "inApp")
  /\ UNCHANGED <<seller, row, stored, taken, phone, slipped>>

CreateInApp(s) ==
  /\ call[s].op = "inApp"
  /\ Write(s, "in_app", "pending") /\ Then(s, "inAppSent")
  /\ UNCHANGED <<seller, stored, taken, phone, slipped>>

\* updateStatus by id: over a read in between.
MarkInAppSent(s) ==
  /\ call[s].op = "inAppSent"
  /\ Write(s, "in_app", "sent") /\ Then(s, "consent")
  /\ UNCHANGED <<seller, stored, taken, phone, slipped>>

\* Marketing to a seller without consent stays in the app.
CheckMarketingConsent(s) ==
  LET i == call[s].input
  IN  /\ call[s].op = "consent"
      /\ Then(s, IF i.marketing /\ i.to = "seller" /\ ~seller.marketing
                 THEN "returned" ELSE "channel")
      /\ UNCHANGED <<seller, row, stored, taken, phone, slipped>>

\* resolveChannel, then the WhatsApp template that is not approved yet: by email.
ResolveChannel(s) ==
  LET i == call[s].input
      wanted == IF i.to = "seller" /\ seller.emailOnly THEN "email" ELSE Phone
  IN  /\ call[s].op = "channel"
      /\ call' = [call EXCEPT ![s].op = "dnc",
                              ![s].channel = IF i.approved THEN wanted ELSE "email"]
      /\ UNCHANGED <<seller, row, stored, taken, phone, slipped>>

CheckDnc(s) ==
  /\ call[s].op = "dnc"
  /\ Then(s, IF DncAllowed(call[s].input) THEN "create" ELSE "blocked")
  /\ UNCHANGED <<seller, row, stored, taken, phone, slipped>>

\* The row of a blocked message stays pending.
CreateBlocked(s) ==
  /\ call[s].op = "blocked"
  /\ Write(s, "main", "pending") /\ Then(s, "returned")
  /\ UNCHANGED <<seller, stored, taken, phone, slipped>>

HasAddress(s, channel) ==
  IF call[s].input.to = "viewer" THEN channel = Phone
  ELSE IF channel = Phone THEN seller.phone ELSE seller.email

CreateMain_AsSent(s) ==
  /\ call[s].op = "create"
  /\ Write(s, "main", "sent")
  /\ Then(s, IF HasAddress(s, call[s].channel) THEN "send" ELSE "noAddress")
  /\ UNCHANGED <<seller, stored, taken, phone, slipped>>

CreateMain(s) ==
  /\ call[s].op = "create"
  /\ Write(s, "main", "pending")
  /\ Then(s, IF HasAddress(s, call[s].channel) THEN "send" ELSE "noAddress")
  /\ UNCHANGED <<seller, stored, taken, phone, slipped>>

RecordNoAddress(s) ==
  /\ call[s].op = "noAddress"
  /\ Write(s, "main", "failed") /\ Then(s, "returned")
  /\ UNCHANGED <<seller, stored, taken, phone, slipped>>

-----------------------------------------------------------------------------
(* The providers: up to MAX_RETRIES attempts.                              *)

Sending == [send |-> "main", spareSend |-> "spare"]
Answered == [send |-> "record", spareSend |-> "spareRecord"]
GaveUp == [send |-> "failed", spareSend |-> "alert"]

\* The provider takes the message and says so.
Accept(s) ==
  LET op == call[s].op
      n == call[s].attempts + 1
  IN  /\ op \in DOMAIN Sending
      /\ taken' = [taken EXCEPT ![s][Sending[op]] = @ \cup {n}]
      /\ call' = [call EXCEPT ![s].op = Answered[op], ![s].attempts = n]
      /\ UNCHANGED <<seller, row, stored, phone, slipped>>

\* The attempt fails: refused, or taken by the provider and its answer lost (a
\* timeout).  The next one sends the message anew; the last one gives up.
Refuse(s, lost) ==
  LET op == call[s].op
      n == call[s].attempts + 1
  IN  /\ op \in DOMAIN Sending
      /\ taken' = IF lost THEN [taken EXCEPT ![s][Sending[op]] = @ \cup {n}] ELSE taken
      /\ slipped' = IF lost THEN slipped \cup {s} ELSE slipped
      /\ call' = IF n < MaxRetries THEN [call EXCEPT ![s].attempts = n]
                 ELSE [call EXCEPT ![s].attempts = 0, ![s].op = GaveUp[op]]
      /\ UNCHANGED <<seller, row, stored, phone>>

\* The agent has no account with the provider: it throws at once.
NotConfigured(s) ==
  LET op == call[s].op
  IN  /\ op \in DOMAIN Sending /\ call[s].attempts = 0
      /\ Then(s, GaveUp[op])
      /\ UNCHANGED <<seller, row, stored, taken, phone, slipped>>

RecordSent(s) ==
  /\ call[s].op = "record"
  /\ Write(s, "main", "sent")
  /\ stored' = [stored EXCEPT ![s] = call[s].attempts]
  /\ Then(s, "returned")
  /\ UNCHANGED <<seller, taken, phone, slipped>>

-----------------------------------------------------------------------------
(* The failure of the first channel.                                       *)

AfterFailure_Never(s) == "returned"

\* Only WhatsApp has a spare.
AfterFailure(s) == IF call[s].channel = Phone THEN "spare" ELSE "returned"

RecordFailed(s) ==
  /\ call[s].op = "failed"
  /\ Write(s, "main", "failed")
  /\ call' = [call EXCEPT ![s].op = AfterFailure(s), ![s].attempts = 0]
  /\ UNCHANGED <<seller, stored, taken, phone, slipped>>

CreateSpare(s) ==
  /\ call[s].op = "spare"
  /\ Write(s, "spare", "pending")
  /\ Then(s, IF HasAddress(s, "email") THEN "spareSend" ELSE "spareNoAddress")
  /\ UNCHANGED <<seller, stored, taken, phone, slipped>>

RecordSpareNoAddress(s) ==
  /\ call[s].op = "spareNoAddress"
  /\ Write(s, "spare", "failed") /\ Then(s, "returned")
  /\ UNCHANGED <<seller, stored, taken, phone, slipped>>

RecordSpareSent(s) ==
  /\ call[s].op = "spareRecord"
  /\ Write(s, "spare", "sent") /\ Then(s, "returned")
  /\ UNCHANGED <<seller, stored, taken, phone, slipped>>

\* Both channels failed: a row for the agent, which stays pending (it is unread).
CreateAlert(s) ==
  /\ call[s].op = "alert"
  /\ Write(s, "alert", "pending") /\ Then(s, "returned")
  /\ UNCHANGED <<seller, stored, taken, phone, slipped>>

-----------------------------------------------------------------------------
(* What goes wrong in between.                                             *)

\* A statement of the database throws where the code catches it: the message is
\* taken for failed although it went out, or the failure is not on record.
Caught ==
  [record |-> "failed", noAddress |-> "failed",
   spare |-> "alert", spareNoAddress |-> "alert", spareRecord |-> "alert"]

DatabaseFails(s) ==
  LET op == call[s].op
  IN  /\ \/ op \in DOMAIN Caught /\ Then(s, Caught[op])
         \/ op = "failed"
            /\ call' = [call EXCEPT ![s].op = AfterFailure(s), ![s].attempts = 0]
      /\ slipped' = slipped \cup {s}
      /\ UNCHANGED <<seller, row, stored, taken, phone>>

\* It throws where nothing catches it, or the process dies.
Die(s) ==
  /\ call[s].op \notin Ended
  /\ Then(s, "thrown")
  /\ UNCHANGED <<seller, row, stored, taken, phone, slipped>>

-----------------------------------------------------------------------------
SendStep(s) ==
  \/ IsSensitiveCaseSeller(s) \/ CreateInApp(s) \/ MarkInAppSent(s)
  \/ CheckMarketingConsent(s) \/ ResolveChannel(s) \/ CheckDnc(s) \/ CreateBlocked(s)
  \/ CreateMain(s) \/ RecordNoAddress(s)
  \/ Accept(s) \/ Refuse(s, TRUE) \/ Refuse(s, FALSE) \/ NotConfigured(s) \/ RecordSent(s)
  \/ RecordFailed(s) \/ CreateSpare(s) \/ RecordSpareNoAddress(s) \/ RecordSpareSent(s)
  \/ CreateAlert(s)

NotificationInit ==
  /\ seller \in [phone : BOOLEAN, email : BOOLEAN, emailOnly : BOOLEAN, service : {TRUE},
                 marketing : BOOLEAN, sensitive : {FALSE}]
  /\ row = [s \in Sends |-> [r \in Rows |-> "none"]]
  /\ stored = [s \in Sends |-> 0]
  /\ call = [s \in Sends |-> Idle]
  /\ taken = [s \in Sends |-> [r \in {"main", "spare"} |-> {}]]
  /\ phone = [s \in Sends |-> "nothing"]
  /\ slipped = {}

\* The seller reads, the phone receives, the provider calls back.
ReceiptStep(s) == MarkAsRead(s) \/ Arrive(s) \/ HandleWhatsAppWebhook(s)

NotificationNext ==
  \/ WithdrawMarketingConsent \/ WithdrawServiceConsent \/ FlagSensitiveCase
  \/ \E s \in Sends : ReceiptStep(s)
  \/ \E s \in Sends : Send(s) \/ SendStep(s) \/ DatabaseFails(s) \/ Die(s)

NotificationSpec == NotificationInit /\ [][NotificationNext]_notificationVars

\* A handler that runs goes on; no caller has to send, nothing has to go wrong.
NotificationFairness == \A s \in Sends : WF_notificationVars(SendStep(s))

-----------------------------------------------------------------------------
(* Properties                                                              *)

\* A row says what happened: what was delivered arrived at the phone, what was read was
\* opened there or may have been marked by its recipient, what was sent was taken by the
\* provider; what is pending after the call returned was blocked or could not be written;
\* and no message is tried more often than MAX_RETRIES.
RowIsTrue(s) ==
  /\ row[s] \in [Rows -> Status] /\ phone[s] \in {"nothing", "arrived", "opened", "bounced"}
  /\ row[s]["main"] = "delivered" => phone[s] \in {"arrived", "opened"}
  /\ row[s]["main"] = "read" => phone[s] = "opened" \/ call[s].input.to = "seller"
  /\ row[s]["main"] = "sent" => stored[s] \in taken[s]["main"]
  /\ row[s]["spare"] = "sent" => taken[s]["spare"] # {}
  /\ call[s].op = "returned" /\ row[s]["main"] = "pending" /\ taken[s]["main"] # {}
       => s \in slipped
  /\ \A r \in {"main", "spare"} : taken[s][r] \subseteq 1..MaxRetries

RowsAreTrue == \A s \in Sends : RowIsTrue(s)

\* The recipient gets the message once: by two channels, or twice by one, only when
\* an answer was lost or the database failed after the message had gone out.
CarriedOnce ==
  \A s \in Sends \ slipped :
    Cardinality(taken[s]["main"]) + Cardinality(taken[s]["spare"]) <= 1

\* Nothing reaches a recipient who had said no before the call began, nor does a
\* word about compliance the seller of a sensitive case, whatever the channel and
\* whatever failed.
SilenceIsKept ==
  \A s \in Sends :
    /\ call[s].silent => taken[s]["main"] = {} /\ taken[s]["spare"] = {}
    /\ row[s]["spare"] # "none" => row[s]["main"] # "none"
    /\ row[s]["main"] # "none" => row[s]["in_app"] # "none"

\* A WhatsApp that failed is followed up: an email takes its place, or the agent
\* is told, or there is no email to send to, unless the process dies first.
FailureIsFollowedUp ==
  \A s \in Sends :
    (call[s].op = "failed" /\ call[s].channel = Phone)
      ~> \/ row[s]["spare"] \in {"sent", "failed"}
         \/ row[s]["alert"] = "pending"
         \/ call[s].op = "thrown"

\* The rows tell what was delivered; it was delivered once, and to nobody who had
\* said no.
DeliveryIsSound == RowsAreTrue /\ CarriedOnce /\ SilenceIsKept
=============================================================================
