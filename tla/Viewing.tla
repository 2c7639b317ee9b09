------------------------------ MODULE Viewing ------------------------------
(***************************************************************************)
(* Bookings of viewing slots (src/src/domains/viewing).                    *)
(*                                                                         *)
(* HTTP handlers and cron jobs interleave at every await, and PostgreSQL   *)
(* runs its transactions at READ COMMITTED.  A handler is a request: one   *)
(* action reads the rows it decides on, later actions write.  Each write   *)
(* is one statement or one transaction; only the slot cancellation, whose  *)
(* transaction takes its row locks in two statements, is two actions.      *)
(*                                                                         *)
(* A viewing row never changes slot or viewer, so both are constants of    *)
(* its identity; a viewing not yet inserted has status "none".             *)
(* createSlot and the recurring schedule only add rows: the slots here are *)
(* those already inserted, available and empty.  The viewer's counters     *)
(* (total_bookings, no_show_count) and the feedback are left out: nothing  *)
(* the handlers decide depends on them.                                    *)
(***************************************************************************)
EXTENDS Integers, FiniteSets

CONSTANTS
  Slots,           \* rows of viewing_slots
  Viewings,        \* identities of rows of viewings
  Viewers,         \* rows of verified_viewers, one per phone number
  Requests,        \* handlers the process may have in flight
  SlotOf,          \* viewing -> slot
  ViewerOf,        \* viewing -> viewer
  SlotType,        \* slot -> "single" or "group"
  MaxViewers,      \* slot -> max_viewers
  BookingsPerDay,  \* BOOKINGS_PER_PHONE_PER_DAY, all bookings on one day
  OtpMaxAttempts,  \* OTP_MAX_ATTEMPTS
  NoViewing        \* no viewing

ASSUME SlotAssumption ==
  /\ IsFiniteSet(Viewings) /\ NoViewing \notin Viewings
  /\ Slots \cap Viewers = {}
  /\ SlotOf \in [Viewings -> Slots]
  /\ ViewerOf \in [Viewings -> Viewers]
  /\ SlotType \in [Slots -> {"single", "group"}]
  /\ MaxViewers \in [Slots -> Nat \ {0}]
  /\ BookingsPerDay \in Nat /\ OtpMaxAttempts \in Nat

VARIABLES
  viewingStatus,    \* viewings.status
  otpAttempts,      \* viewings.otp_attempts
  slotStatus,       \* viewing_slots.status
  currentBookings,  \* viewing_slots.current_bookings
  phoneVerified,    \* verified_viewers.phone_verified_at is set
  req,              \* the local state of each request
  contended         \* ghost: slots and viewers two requests worked on at once

viewingVars == <<viewingStatus, otpAttempts>>
slotVars == <<slotStatus, currentBookings>>
rows == <<viewingVars, slotVars, phoneVerified>>
vars == <<rows, req, contended>>

ViewingStatuses ==
  {"none", "pending_otp", "scheduled", "completed", "cancelled", "no_show"}
SlotStatuses == {"available", "booked", "full", "cancelled"}

\* What a request has read and has still to do: op names its next write.
RequestStates ==
  [op : {"idle", "book", "verify", "verified", "cancel", "no_show", "completed",
         "cancelSlots", "cascade"},
   v : Viewings \cup {NoViewing},
   returning : BOOLEAN,       \* isReturningViewer
   attempts : 0..OtpMaxAttempts,  \* v.otpAttempts as read
   newStatus : SlotStatuses,  \* computed by cancelViewing
   todo : SUBSET Slots,       \* slots still to cancel
   batch : SUBSET Slots,      \* slots of the transaction in progress
   hit : SUBSET Viewings]     \* rows that transaction has updated and locked

Idle == [op |-> "idle", v |-> NoViewing, returning |-> FALSE, attempts |-> 0,
         newStatus |-> "available", todo |-> {}, batch |-> {}, hit |-> {}]

On(op, v) == [Idle EXCEPT !.op = op, !.v = v]

TypeOK ==
  /\ viewingStatus \in [Viewings -> ViewingStatuses]
  /\ otpAttempts \in [Viewings -> 0..OtpMaxAttempts]
  /\ slotStatus \in [Slots -> SlotStatuses]
  /\ currentBookings \in [Slots -> Int]
  /\ phoneVerified \in [Viewers -> BOOLEAN]
  /\ req \in [Requests -> RequestStates]
  /\ contended \subseteq Slots \cup Viewers

-----------------------------------------------------------------------------
(* The rows, as the handlers' queries see them.                            *)

\* status not in ('cancelled'): a completed or missed viewing keeps its seat.
Live(v) == viewingStatus[v] \notin {"none", "cancelled"}
LiveOn(s) == {v \in Viewings : SlotOf[v] = s /\ Live(v)}
LiveOf(w) == {v \in Viewings : ViewerOf[v] = w /\ Live(v)}

ComputeSlotStatus(s, n) ==
  IF n <= 0 THEN "available"
  ELSE IF SlotType[s] # "single" /\ n >= MaxViewers[s] THEN "full" ELSE "booked"

CanBook_NoCapacity(s) == slotStatus[s] # "cancelled"

\* What createViewingWithLock demands of the locked slot row.
CanBook(s) ==
  /\ slotStatus[s] \notin {"cancelled", "full"}
  /\ SlotType[s] = "single" => currentBookings[s] < 1
  /\ currentBookings[s] < MaxViewers[s]

NotDuplicate(v) == LiveOn(SlotOf[v]) \cap LiveOf(ViewerOf[v]) = {}

UnderDailyLimit_OffByOne(w) == Cardinality(LiveOf(w)) <= BookingsPerDay

UnderDailyLimit(w) == Cardinality(LiveOf(w)) < BookingsPerDay

\* A row updated by a transaction in progress blocks every other writer.
Unlocked(v) == \A q \in Requests : v \notin req[q].hit

-----------------------------------------------------------------------------
(* Requests.                                                               *)

\* The slots a request decides on; a booking also decides on its phone number.
Touched(q) ==
  IF q.v = NoViewing THEN q.todo
  ELSE {SlotOf[q.v]} \cup (IF q.op = "book" THEN {ViewerOf[q.v]} ELSE {})

Begin(r, state) ==
  /\ req[r] = Idle
  /\ req' = [req EXCEPT ![r] = state]
  /\ contended' = contended \cup
       {x \in Touched(state) : \E q \in Requests \ {r} : x \in Touched(req[q])}
  /\ UNCHANGED rows

Continue(r, state) ==
  /\ req' = [req EXCEPT ![r] = state]
  /\ UNCHANGED contended

\* The handler throws at its next await (a guard re-checked in a transaction,
\* an error of the database, a restart); an open transaction rolls back.
Fail(r) ==
  /\ req[r] # Idle
  /\ Continue(r, Idle)
  /\ UNCHANGED rows

-----------------------------------------------------------------------------
(* initiateBooking.  The viewer row is found or created under its unique   *)
(* phone number, and is fresh (not verified) until an OTP is verified.     *)

BookStart(r, v) ==
  /\ viewingStatus[v] = "none"
  /\ \A q \in Requests : req[q].v # v   \* createId: a fresh identity
  /\ NotDuplicate(v)
  /\ UnderDailyLimit(ViewerOf[v])
  /\ Begin(r, [On("book", v) EXCEPT !.returning = phoneVerified[ViewerOf[v]]])

\* createViewingWithLock: SELECT ... FOR UPDATE, insert, increment.
BookCreate(r) ==
  LET v == req[r].v
      s == SlotOf[v]
  IN  /\ req[r].op = "book"
      /\ CanBook(s)
      /\ viewingStatus' = [viewingStatus EXCEPT ![v] =
           IF req[r].returning THEN "scheduled" ELSE "pending_otp"]
      /\ currentBookings' = [currentBookings EXCEPT ![s] = @ + 1]
      /\ slotStatus' = [slotStatus EXCEPT ![s] =
           IF SlotType[s] # "single" /\ currentBookings[s] + 1 >= MaxViewers[s]
           THEN "full" ELSE "booked"]
      /\ Continue(r, Idle)
      /\ UNCHANGED <<otpAttempts, phoneVerified>>

-----------------------------------------------------------------------------
(* verifyOtp.  An expired OTP is refused with no effect.                   *)

VerifyStart(r, v) ==
  /\ viewingStatus[v] = "pending_otp"
  /\ otpAttempts[v] < OtpMaxAttempts
  /\ Begin(r, [On("verify", v) EXCEPT !.attempts = otpAttempts[v]])

\* The comparison failed: the attempts read before it, plus one.
VerifyInvalid(r) ==
  LET v == req[r].v
  IN  /\ req[r].op = "verify"
      /\ Unlocked(v)
      /\ otpAttempts' = [otpAttempts EXCEPT ![v] = req[r].attempts + 1]
      /\ Continue(r, Idle)
      /\ UNCHANGED <<viewingStatus, slotVars, phoneVerified>>

\* The comparison succeeded: the status is written whatever it is by now.
VerifyValid(r) ==
  LET v == req[r].v
  IN  /\ req[r].op = "verify"
      /\ Unlocked(v)
      /\ viewingStatus' = [viewingStatus EXCEPT ![v] = "scheduled"]
      /\ Continue(r, On("verified", v))
      /\ UNCHANGED <<otpAttempts, slotVars, phoneVerified>>

\* setPhoneVerified
VerifyViewer(r) ==
  /\ req[r].op = "verified"
  /\ phoneVerified' = [phoneVerified EXCEPT ![ViewerOf[req[r].v]] = TRUE]
  /\ Continue(r, Idle)
  /\ UNCHANGED <<viewingVars, slotVars>>

-----------------------------------------------------------------------------
(* cancelViewing: the slot's next status comes from the row as read.       *)

CancelStart_AnyStatus(r, v) ==
  LET s == SlotOf[v]
  IN  /\ viewingStatus[v] # "none"
      /\ Begin(r, [On("cancel", v) EXCEPT !.newStatus =
           ComputeSlotStatus(s, currentBookings[s] - 1)])

CancelStart(r, v) ==
  LET s == SlotOf[v]
  IN  /\ viewingStatus[v] \in {"pending_otp", "scheduled"}
      /\ Begin(r, [On("cancel", v) EXCEPT !.newStatus =
           ComputeSlotStatus(s, currentBookings[s] - 1)])

\* cancelViewingAtomically: one transaction, no condition on either row.
CancelCommit(r) ==
  LET v == req[r].v
      s == SlotOf[v]
  IN  /\ req[r].op = "cancel"
      /\ Unlocked(v)
      /\ viewingStatus' = [viewingStatus EXCEPT ![v] = "cancelled"]
      /\ currentBookings' = [currentBookings EXCEPT ![s] = @ - 1]
      /\ slotStatus' = [slotStatus EXCEPT ![s] = req[r].newStatus]
      /\ Continue(r, Idle)
      /\ UNCHANGED <<otpAttempts, phoneVerified>>

-----------------------------------------------------------------------------
(* markNoShow and markCompleted.                                           *)

MarkStart(r, v, outcome) ==
  /\ viewingStatus[v] = "scheduled"
  /\ Begin(r, On(outcome, v))

MarkCommit(r) ==
  LET v == req[r].v
  IN  /\ req[r].op \in {"no_show", "completed"}
      /\ Unlocked(v)
      /\ viewingStatus' = [viewingStatus EXCEPT ![v] = req[r].op]
      /\ Continue(r, Idle)
      /\ UNCHANGED <<otpAttempts, slotVars, phoneVerified>>

-----------------------------------------------------------------------------
(* cancelSlot and bulkCancelSlots cancel the slots they are given, in one  *)
(* transaction, and so does withdrawConsent with the active slots it read; *)
(* cancelSlotsForPropertyCascade cancels the active slots it read, one     *)
(* transaction each.                                                       *)

CancelSlotsStart(r, chosen) ==
  /\ chosen # {}
  /\ Begin(r, [On("cancelSlots", NoViewing) EXCEPT !.todo = chosen])

CascadeStart(r) ==
  LET active == {s \in Slots : slotStatus[s] # "cancelled"}
  IN  /\ active # {}
      /\ Begin(r, [On("cascade", NoViewing) EXCEPT !.todo = active])

\* The transaction's first statement: every viewing not cancelled, as
\* committed by now.  Its update is not visible before the commit.
SlotCancelViewings(r) ==
  /\ req[r].op \in {"cancelSlots", "cascade"}
  /\ req[r].batch = {}
  /\ \E b \in IF req[r].op = "cascade"
              THEN {{s} : s \in req[r].todo} ELSE {req[r].todo} :
       LET found == {v \in Viewings : SlotOf[v] \in b /\ Live(v)}
       IN  /\ \A v \in found : Unlocked(v)
           /\ Continue(r, [req[r] EXCEPT !.batch = b, !.hit = found])
  /\ UNCHANGED rows

\* The second statement and the commit.
SlotCancelCommit(r) ==
  LET left == req[r].todo \ req[r].batch
  IN  /\ req[r].batch # {}
      /\ viewingStatus' = [v \in Viewings |->
           IF v \in req[r].hit THEN "cancelled" ELSE viewingStatus[v]]
      /\ slotStatus' = [s \in Slots |->
           IF s \in req[r].batch THEN "cancelled" ELSE slotStatus[s]]
      /\ currentBookings' = [s \in Slots |->
           IF s \in req[r].batch THEN 0 ELSE currentBookings[s]]
      /\ Continue(r, IF left = {} THEN Idle
                     ELSE [req[r] EXCEPT !.todo = left, !.batch = {}, !.hit = {}])
      /\ UNCHANGED <<otpAttempts, phoneVerified>>

-----------------------------------------------------------------------------

Init ==
  /\ viewingStatus = [v \in Viewings |-> "none"]
  /\ otpAttempts = [v \in Viewings |-> 0]
  /\ slotStatus = [s \in Slots |-> "available"]
  /\ currentBookings = [s \in Slots |-> 0]
  /\ phoneVerified = [w \in Viewers |-> FALSE]
  /\ req = [r \in Requests |-> Idle]
  /\ contended = {}

Start(r) ==
  \/ \E v \in Viewings :
       \/ BookStart(r, v)
       \/ VerifyStart(r, v)
       \/ CancelStart(r, v)
       \/ \E outcome \in {"no_show", "completed"} : MarkStart(r, v, outcome)
  \/ \E chosen \in SUBSET Slots : CancelSlotsStart(r, chosen)
  \/ CascadeStart(r)

Next ==
  \E r \in Requests :
    \/ Start(r)
    \/ BookCreate(r)
    \/ VerifyInvalid(r)
    \/ VerifyValid(r)
    \/ VerifyViewer(r)
    \/ CancelCommit(r)
    \/ MarkCommit(r)
    \/ SlotCancelViewings(r)
    \/ SlotCancelCommit(r)
    \/ Fail(r)

Spec == Init /\ [][Next]_vars

-----------------------------------------------------------------------------
(* Properties.                                                             *)

Capacity(s) == IF SlotType[s] = "single" THEN 1 ELSE MaxViewers[s]

\* The counter never passes the slot's capacity, however requests interleave:
\* it only grows under the row lock of createViewingWithLock.
CounterWithinCapacity == \A s \in Slots : currentBookings[s] <= Capacity(s)

\* On a slot no two requests ever worked on at once, the denormalised counter
\* and status agree with the viewing rows: the counter is the number of live
\* viewings, a cancelled slot has none, any other slot has the status computed
\* from the counter.
SlotAccounting ==
  \A s \in Slots \ contended :
    /\ currentBookings[s] = Cardinality(LiveOn(s))
    /\ slotStatus[s] = "cancelled" => LiveOn(s) = {}
    /\ slotStatus[s] # "cancelled"
         => slotStatus[s] = ComputeSlotStatus(s, currentBookings[s])

\* On such a slot there are never more live viewings than seats, what
\* SELECT ... FOR UPDATE and the counter are there for.
NoOverbooking ==
  \A s \in Slots \ contended : Cardinality(LiveOn(s)) <= Capacity(s)

\* A phone number no two requests worked on at once, and whose slots none did,
\* never holds more than BOOKINGS_PER_PHONE_PER_DAY live viewings of the day.
DailyLimit ==
  \A w \in Viewers \ contended :
    (\A v \in Viewings : ViewerOf[v] = w => SlotOf[v] \notin contended)
      => Cardinality(LiveOf(w)) <= BookingsPerDay

\* SLOT_STATUS_TRANSITIONS and VIEWING_STATUS_TRANSITIONS give cancelled no
\* successor: on a slot no two requests worked on at once, neither the slot
\* nor a viewing of it ever leaves cancelled.
CancelledIsFinal ==
  [][\A s \in Slots \ contended' :
       /\ slotStatus[s] = "cancelled" => slotStatus'[s] = "cancelled"
       /\ \A v \in Viewings :
            (SlotOf[v] = s /\ viewingStatus[v] = "cancelled")
              => viewingStatus'[v] = "cancelled"]_vars

\* The booking of a slot: its rows are of their types, its seats are never
\* oversold, and counter, status and viewings agree.
SeatsAreSound == TypeOK /\ CounterWithinCapacity /\ SlotAccounting /\ NoOverbooking
=============================================================================
