-------------------------------- MODULE Invoice --------------------------------
(***************************************************************************)
(* The commission invoice of a transaction (src/src/domains/transaction):  *)
(* uploaded, sent to the client, paid.  Each handler reads the status and  *)
(* writes the next one by id; between the two, sending waits for the       *)
(* notification.                                                           *)
(***************************************************************************)
EXTENDS Integers, FiniteSets

CONSTANTS
  Handlers,    \* requests of the agent in flight
  MaxNotices   \* bound: notifications sent

VARIABLES
  invoice,    \* status: none, uploaded, sent_to_client, paid
  notices,    \* notifications with an in-app row for the seller
  handler,    \* what each request is about to do
  raced       \* ghost: a second request has set off to send while one was under way

invoiceVars == <<invoice, notices, handler, raced>>

InvoiceStatus == <<"none", "uploaded", "sent_to_client", "paid">>

Rank(status) == CHOOSE n \in DOMAIN InvoiceStatus : InvoiceStatus[n] = status

Sets(h, op) == handler' = [handler EXCEPT ![h] = op]

Ends(h) == Sets(h, "idle")

\* uploadInvoice: there is none, then the scan and the file.
UploadInvoice(h) ==
  /\ handler[h] = "idle" /\ invoice = "none" /\ Sets(h, "upload")
  /\ UNCHANGED <<invoice, notices, raced>>

\* transactionId is unique: the second of two uploads throws.
CreateCommissionInvoice(h) ==
  /\ handler[h] = "upload" /\ invoice = "none"
  /\ invoice' = "uploaded"
  /\ Ends(h)
  /\ UNCHANGED <<notices, raced>>

SendInvoice(h) ==
  /\ handler[h] = "idle" /\ invoice = "uploaded"
  /\ Sets(h, "notify")
  /\ raced' = (raced \/ \E o \in Handlers : handler[o] \in {"notify", "sent"})
  /\ UNCHANGED <<invoice, notices>>

SendNotice_InBackground(h) ==
  /\ handler[h] = "notify"
  /\ notices < MaxNotices
  /\ notices' \in {notices, notices + 1}
  /\ Sets(h, "sent")
  /\ UNCHANGED <<invoice, raced>>

\* notificationService.send is awaited: it returns with the row in the app.
SendNotice(h) ==
  /\ handler[h] = "notify"
  /\ notices < MaxNotices
  /\ notices' = notices + 1
  /\ Sets(h, "sent")
  /\ UNCHANGED <<invoice, raced>>

MarkSentToClient(h) ==
  /\ handler[h] = "sent"
  /\ invoice' = "sent_to_client"
  /\ Ends(h)
  /\ UNCHANGED <<notices, raced>>

MarkInvoicePaid(h) ==
  /\ handler[h] = "idle" /\ invoice = "sent_to_client" /\ Sets(h, "pay")
  /\ UNCHANGED <<invoice, notices, raced>>

WritePaid(h) ==
  /\ handler[h] = "pay"
  /\ invoice' = "paid"
  /\ Ends(h)
  /\ UNCHANGED <<notices, raced>>

\* It throws or dies, perhaps after the notification.
HandlerFails(h) ==
  /\ handler[h] # "idle"
  /\ Ends(h)
  /\ UNCHANGED <<invoice, notices, raced>>

InvoiceInit ==
  /\ invoice = "none" /\ notices = 0 /\ raced = FALSE
  /\ handler = [h \in Handlers |-> "idle"]

InvoiceNext ==
  \E h \in Handlers :
    \/ UploadInvoice(h) \/ CreateCommissionInvoice(h)
    \/ SendInvoice(h) \/ SendNotice(h) \/ MarkSentToClient(h)
    \/ MarkInvoicePaid(h) \/ WritePaid(h) \/ HandlerFails(h)

InvoiceSpec == InvoiceInit /\ [][InvoiceNext]_invoiceVars

-----------------------------------------------------------------------------
(* Properties                                                              *)

\* What the client is said to have was announced to him.
PaidWasAnnounced ==
  invoice \in {"sent_to_client", "paid"} => notices > 0

\* An invoice the client is said to have, or has paid, was announced to him; and it
\* goes from status to status, one at a time and never back, whatever fails, as long
\* as no two requests send it at once: the later one would write sent_to_client over
\* paid.
InvoiceIsSound ==
  [][/\ PaidWasAnnounced'
     /\ invoice' # invoice /\ ~raced => Rank(invoice') = Rank(invoice) + 1]_invoiceVars
=============================================================================
