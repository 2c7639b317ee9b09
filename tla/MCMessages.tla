------------------------------ MODULE MCMessages ------------------------------
(***************************************************************************)
(* One notification on its way, a job that reminds, or an invoice sent:    *)
(* they share no variable, so a behaviour is one of the three (which no    *)
(* step changes).  For the other two, send is what the first shows of it.  *)
(***************************************************************************)
EXTENDS Notification, Invoice

CONSTANTS s1, v1, v2, h1, h2, Items, MaxLate, Horizon

\* A timer fires within the unit of its job: with more, a window has a third firing.
ASSUME LateAssumption == MaxLate \in 0..1

VARIABLE part, kind, event, now, fired, run, marked, sent, missed, late

J == INSTANCE Reminders

jobVars == <<kind, event, now, fired, run, marked, sent, missed, late>>
others == <<jobVars, invoiceVars>>

MCInit ==
  /\ part \in {"send", "job", "invoice"}
  /\ NotificationInit /\ J!RemindersInit /\ InvoiceInit
  /\ part # "send" => seller = [seller EXCEPT !.phone = TRUE, !.email = TRUE,
                                              !.emailOnly = TRUE, !.marketing = TRUE]
  /\ part # "job" => kind = "deadline" /\ event = [i \in Items |-> 4]

MCNext ==
  /\ UNCHANGED part
  /\ \/ part = "send" /\ NotificationNext /\ UNCHANGED others
     \/ part = "job" /\ J!RemindersNext /\ UNCHANGED <<notificationVars, invoiceVars>>
     \/ part = "invoice" /\ InvoiceNext /\ UNCHANGED <<notificationVars, jobVars>>

MCSpec == MCInit /\ [][MCNext]_<<part, notificationVars, others>> /\ NotificationFairness

\* Of Reminders: they come, and no more often than their window allows.
RemindersAreSound == J!RemindersAreSound
=============================================================================
