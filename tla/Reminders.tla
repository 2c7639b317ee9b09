------------------------------- MODULE Reminders -------------------------------
(***************************************************************************)
(* The jobs that remind (src/src/infra/jobs/runner.ts with viewing.jobs    *)
(* and transaction.jobs): the clock fires a job every Period; a run lists  *)
(* what is due in its window and sends one message after the other.  What  *)
(* keeps a message from going out twice differs: nothing (the reminder an  *)
(* hour before a viewing), a mark after the message (the follow-up the day *)
(* after), or the row of the message itself (the reminders of a deadline). *)
(*                                                                         *)
(* The clock is in units of a job's own: five minutes, hours, days.  A run *)
(* may start late, take longer than a period, fail at an item, or die.     *)
(***************************************************************************)
EXTENDS Integers, FiniteSets

CONSTANTS
  Items,     \* viewings, or sales
  MaxLate,   \* bound: how late the timer of a running process may fire
  Horizon    \* bound: the last instant

Kinds == {"hour", "followup", "deadline"}

\* How long before the event an item is due: 60 to 75 minutes (in fives), 25 to 23
\* hours after it, 3 days (the other days ahead have jobs and templates alike).
Window == [hour |-> [first |-> 12, last |-> 15],
           followup |-> [first |-> -25, last |-> -23],
           deadline |-> [first |-> 3, last |-> 3]]

\* Every 15 minutes, every 2 hours, daily.
Period == [hour |-> 3, followup |-> 2, deadline |-> 1]

VARIABLES
  kind,      \* which job: no step changes it
  event,     \* when the viewing starts, was completed, or the deadline is
  now,       \* the clock
  fired,     \* the firings of the timer so far
  run,       \* the run under way: the items left to do, and what it is doing
  marked,    \* items with followupSentAt
  sent,      \* how often a message has gone out for each item
  missed,    \* ghost: items a firing came to nothing for
  late       \* ghost: some firing has been late

reminderVars == <<kind, event, now, fired, run, marked, sent, missed, late>>

Off == [op |-> "off", todo |-> {}, item |-> "none"]

Due(i) == event[i] - now \in Window[kind].first..Window[kind].last

Listed_Unmarked == {i \in Items : Due(i)}

\* findViewingsNeedingReminder, findViewingsNeedingFollowup (not marked yet), and
\* the deadlines a number of days ahead.
Listed == {i \in Items : Due(i) /\ (kind = "followup" => i \notin marked)}

\* findExistingNotification: of the template, to the seller, whatever came of it.
\* The sales are of one seller.
ExistingNotification == \E i \in Items : sent[i] > 0

-----------------------------------------------------------------------------
Tick ==
  /\ now < Horizon
  /\ run.op # "down" => now + 1 <= (fired + 1) * Period[kind] + MaxLate
  /\ now' = now + 1
  /\ UNCHANGED <<kind, event, fired, run, marked, sent, missed, late>>

\* The callback of cron.schedule: a run still under way has this one skipped.
Fire ==
  /\ run.op # "down" /\ now >= (fired + 1) * Period[kind]
  /\ fired' = fired + 1
  /\ late' = (late \/ now > (fired + 1) * Period[kind])
  /\ IF run.op = "off"
     THEN run' = [Off EXCEPT !.op = "next", !.todo = Listed] /\ missed' = missed
     ELSE run' = run /\ missed' = missed \cup Listed
  /\ UNCHANGED <<kind, event, now, marked, sent>>

TakeNext ==
  /\ run.op = "next" /\ run.todo # {}
  /\ \E i \in run.todo :
       run' = [op |-> IF kind = "deadline" THEN "dedup" ELSE "send",
               todo |-> run.todo \ {i}, item |-> i]
  /\ UNCHANGED <<kind, event, now, fired, marked, sent, missed, late>>

\* The loop is through: runningJobs.delete.
Finish ==
  /\ run.op = "next" /\ run.todo = {}
  /\ run' = Off
  /\ UNCHANGED <<kind, event, now, fired, marked, sent, missed, late>>

Dedup ==
  /\ run.op = "dedup"
  /\ run' = [run EXCEPT !.op = IF ExistingNotification THEN "next" ELSE "send"]
  /\ missed' = IF ExistingNotification THEN missed \cup {run.item} ELSE missed
  /\ UNCHANGED <<kind, event, now, fired, marked, sent, late>>

\* notificationService.send: its row is there from its first write on.
SendReminder ==
  /\ run.op = "send"
  /\ sent' = [sent EXCEPT ![run.item] = @ + 1]
  /\ run' = [run EXCEPT !.op = IF kind = "followup" THEN "mark" ELSE "next"]
  /\ UNCHANGED <<kind, event, now, fired, marked, missed, late>>

MarkFollowupSent ==
  /\ run.op = "mark"
  /\ marked' = marked \cup {run.item}
  /\ run' = [run EXCEPT !.op = "next"]
  /\ UNCHANGED <<kind, event, now, fired, sent, missed, late>>

\* One item fails, before its message or after it: the catch goes on with the next.
ItemFails ==
  /\ run.op \in {"dedup", "send", "mark"}
  /\ missed' = missed \cup {run.item}
  /\ run' = [run EXCEPT !.op = "next"]
  /\ UNCHANGED <<kind, event, now, fired, marked, sent, late>>

\* The process stops; whoever was listed or becomes due while it is down is missed.
Stop ==
  /\ run.op # "down"
  /\ run' = [Off EXCEPT !.op = "down"]
  /\ missed' = Items
  /\ UNCHANGED <<kind, event, now, fired, marked, sent, late>>

\* node-cron makes up for nothing: the next firing is the next in the schedule.
Start ==
  /\ run.op = "down"
  /\ run' = Off
  /\ fired' = now \div Period[kind]
  /\ UNCHANGED <<kind, event, now, marked, sent, missed, late>>

RemindersInit ==
  /\ kind \in Kinds
  /\ event \in [Items -> (Window[kind].first + Period[kind])..(Window[kind].last + 2 * Period[kind])]
  /\ now = 0 /\ fired = 0
  /\ run = Off
  /\ marked = {} /\ missed = {} /\ late = FALSE
  /\ sent = [i \in Items |-> 0]

RemindersNext ==
  \/ Tick \/ Fire \/ TakeNext \/ Finish \/ Dedup
  \/ SendReminder \/ MarkFollowupSent \/ ItemFails \/ Stop \/ Start

RemindersSpec == RemindersInit /\ [][RemindersNext]_reminderVars

-----------------------------------------------------------------------------
(* Properties                                                              *)

\* No more often than its window has firings: the deadline once, whatever failed
\* and however the job was started again; the follow-up once unless something
\* failed, and with the reminder an hour before never more than twice.
RemindedAtMost ==
  \A i \in Items :
    /\ sent[i] <= 2
    /\ kind = "deadline" => \A j \in Items : sent[i] + (IF i = j THEN 0 ELSE sent[j]) <= 1
    /\ kind = "followup" /\ i \notin missed => sent[i] <= 1

\* Nobody is forgotten: once the window has gone by and no run is at it, the
\* message has gone out, unless a firing was late, skipped or cut short, or the
\* item failed.  For deadlines the window is a day and the job runs daily.
NobodyForgotten ==
  \A i \in Items :
    (/\ event[i] - now < Window[kind].first
     /\ run.op = "off" /\ ~late /\ i \notin missed /\ now < (fired + 1) * Period[kind])
      => sent[i] > 0

\* Reminders come, and come no more often than their window allows.
RemindersAreSound == RemindedAtMost /\ NobodyForgotten
=============================================================================
