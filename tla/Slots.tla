--------------------------------- MODULE Slots ---------------------------------
(***************************************************************************)
(* The viewing slots of one property (src/src/domains/viewing): created    *)
(* one by one or in bulk, promised by a weekly schedule and made real by   *)
(* the first booking of a window, cancelled by the seller or all at once   *)
(* when the sale falls through; and what the three calendars show.         *)
(*                                                                         *)
(* Nothing locks: a handler reads the rows, decides, and inserts.  All     *)
(* that PostgreSQL holds is one row for a date, a start and an end.  The   *)
(* places of a slot are in Viewing; here a slot is live or cancelled, and  *)
(* has a viewing that stands or none: whoever cancels one writes the       *)
(* status of its slot, whatever that has become.                           *)
(* Times are multiples of a quarter of an hour within the bounds of the    *)
(* validators (10:00 to 20:00), the dates fall on one day of the week.     *)
(***************************************************************************)
EXTENDS Integers, FiniteSets

CONSTANTS
  Dates,       \* dates a week apart
  Quarters,    \* the last instant of a day, in quarters from its first
  Handlers,    \* requests in flight
  PerDay,      \* MAX_SLOTS_PER_DAY: 10 in the code
  MaxActive,   \* MAX_ACTIVE_SLOTS: 200 in the code
  MaxViewed    \* slots with viewings at a time (a bound)

\* Finitely many dates, within the limits' reach.
ASSUME SlotsAssumption ==
  /\ IsFiniteSet(Dates) /\ Quarters \in Nat
  /\ PerDay \in Nat /\ MaxActive \in Nat /\ MaxViewed \in Nat

Spans == {w \in (0..Quarters) \X (0..Quarters) : w[1] < w[2]}

\* A slot is known by its date, start and end (the unique key of viewing_slots).
Keys == Dates \X Spans

VARIABLES
  slot,        \* the row of each key: none, live or cancelled
  viewed,      \* rows with a viewing that is neither cancelled nor over
  schedule,    \* the weekly timeslots, or NoSchedule
  work,        \* the local state of each request
  made,        \* ghost: how a live row came about: slot or bulk; or loose, when it was
               \* a window, was revived, or another request was about to insert
  during,      \* ghost: rows inserted or revived since a cascade listed the slots
  resaved      \* ghost: the seller saved a schedule after the cascade

slotsVars == <<slot, viewed, schedule, work, made, during, resaved>>

NoSchedule == {}

\* A group's timeslot of one quarter is one window as a single one's is.
Timeslots ==
  {t \in [span : Spans, type : {"single", "group"}] :
     t.type = "group" => t.span[2] > t.span[1] + 1}

Overlap(v, w) == v[1] < w[2] /\ v[2] > w[1]

\* validateScheduleDays: at least one timeslot, at most three, none over another.
Schedules ==
  {s \in SUBSET Timeslots :
     /\ Cardinality(s) \in 1..3
     /\ \A t, u \in s : t # u => ~Overlap(t.span, u.span)}

Rest == [op |-> "idle", key |-> {}, todo |-> {}]

On(op, keys, todo) == [op |-> op, key |-> keys, todo |-> todo]

Live == {k \in Keys : slot[k] = "live"}

LiveOn(d) == {k \in Live : k[1] = d}

\* About to insert what it has checked.
Creating(h) == work[h].op \in {"active", "insert", "bulk"}

\* The sale falls through, or has.
Falling == \E h \in Handlers : work[h].op \in {"cascade", "over"}

Through == \E h \in Handlers : work[h].op = "over"

-----------------------------------------------------------------------------
(* The windows of the schedule.                                            *)

\* A single timeslot is cut in quarters of an hour, a group's is one window.
WindowsOf(t) ==
  IF t.type = "group" THEN {t.span}
  ELSE {w \in Spans : w[2] = w[1] + 1 /\ t.span[1] <= w[1] /\ w[2] <= t.span[2]}

\* generateRecurringWindowsForRange: the same for every date of the weekday.
Windows == UNION {WindowsOf(t) : t \in schedule}

-----------------------------------------------------------------------------
(* The calendars: windows and rows merged by key.                          *)

\* getPublicBookingPage reads every row of the date: a cancelled one hides its
\* window.
RowsOfPublicPage(d) == {k \in Keys : k[1] = d /\ slot[k] # "none"}

PublicPage(d) ==
  LET rows == RowsOfPublicPage(d)
  IN  ({<<d, w>> : w \in Windows} \ rows) \cup {k \in rows : slot[k] # "cancelled"}

\* getSlotsForDate and getMonthSlotMeta read the rows that are not cancelled: the
\* window of a cancelled row is back.
SellerCalendar(d) == {<<d, w>> : w \in Windows} \cup LiveOn(d)

-----------------------------------------------------------------------------
(* createSlot                                                              *)

Insert(h, keys, how) ==
  /\ \A k \in keys : slot[k] = "none"
  /\ slot' = [k \in Keys |-> IF k \in keys THEN "live" ELSE slot[k]]
  /\ LET raced == \E o \in Handlers \ {h} : Creating(o)
     IN  made' = [k \in Keys |-> IF k \notin keys THEN made[k]
                                 ELSE IF raced THEN "loose" ELSE how]
  /\ during' = IF Falling THEN during \cup keys ELSE during
  /\ UNCHANGED <<viewed, schedule, resaved>>

Does(h, state) == work' = [work EXCEPT ![h] = state]

Stays == UNCHANGED <<slot, viewed, schedule, made, during, resaved>>

\* Fewer than PerDay live slots on the day, and none over the new one; a cancelled
\* one counts for nothing, although its row still holds the key.
DayHasRoom_AnyOverlap(k) == Cardinality(LiveOn(k[1])) < PerDay

DayHasRoom(k) ==
  /\ Cardinality(LiveOn(k[1])) < PerDay
  /\ \A l \in LiveOn(k[1]) : ~Overlap(l[2], k[2])

CreateSlot(h) ==
  /\ work[h] = Rest
  /\ \E k \in Keys : DayHasRoom(k) /\ Does(h, On("active", {k}, {}))
  /\ Stays

CountActive(n) == Cardinality(Live) + n <= MaxActive

CheckActive(h) ==
  /\ work[h].op = "active" /\ CountActive(1)
  /\ Does(h, On("insert", work[h].key, {}))
  /\ Stays

\* The second of two rows of a key is refused by the index.
InsertSlot(h) ==
  /\ work[h].op = "insert"
  /\ Insert(h, work[h].key, "slot")
  /\ Does(h, Rest)

-----------------------------------------------------------------------------
(* createBulkSlots                                                         *)

\* The same spans on every date: only the total is counted, neither the day's
\* limit nor the overlaps are looked at.
CreateBulkSlots(h) ==
  /\ work[h] = Rest
  /\ \E w \in Spans, n \in 1..Quarters, ds \in SUBSET Dates \ {{}} :
       LET cut == {v \in Spans : /\ v[2] = v[1] + n /\ w[1] <= v[1] /\ v[2] <= w[2]
                                 /\ (v[1] - w[1]) % n = 0}
       IN  /\ cut # {} /\ CountActive(Cardinality(ds \X cut))
           /\ Does(h, On("bulk", ds \X cut, {}))
  /\ Stays

\* One createMany: all of them, or none when a key is taken.
CreateManySlots(h) ==
  /\ work[h].op = "bulk"
  /\ Insert(h, work[h].key, "bulk")
  /\ Does(h, Rest)

-----------------------------------------------------------------------------
(* The schedule and the booking of a window.                               *)

\* Whatever has become of the sale.
SaveSchedule ==
  /\ schedule' \in Schedules
  /\ resaved' = Through
  /\ UNCHANGED <<slot, viewed, work, made, during>>

DeleteSchedule ==
  /\ schedule # NoSchedule
  /\ schedule' = NoSchedule
  /\ UNCHANGED <<slot, viewed, work, made, during, resaved>>

\* initiateBooking of a window: it must be in the schedule as read.
BookWindow(h) ==
  /\ work[h] = Rest
  /\ \E d \in Dates, w \in Windows : Does(h, On("materialise", {<<d, w>>}, {}))
  /\ Stays

MaterialiseRecurringSlot_Upsert(h) ==
  /\ work[h].op = "materialise"
  /\ slot' = [k \in Keys |-> IF k \in work[h].key THEN "live" ELSE slot[k]]
  /\ made' = [k \in Keys |-> IF k \in work[h].key THEN "loose" ELSE made[k]]
  /\ during' = during \cup work[h].key
  /\ Does(h, Rest)
  /\ UNCHANGED <<viewed, schedule, resaved>>

\* INSERT ... ON CONFLICT DO NOTHING, then the row of the key, whatever it is: a
\* cancelled one refuses the booking (Viewing, CanBook).
MaterialiseRecurringSlot(h) ==
  /\ work[h].op = "materialise"
  /\ \/ Insert(h, work[h].key, "loose")
     \/ /\ \A k \in work[h].key : slot[k] # "none"
        /\ Stays
  /\ Does(h, Rest)

-----------------------------------------------------------------------------
(* Viewings (the counts and their capacity are in Viewing).                *)

\* createViewingWithLock: the row is locked and live.
CreateViewingWithLock ==
  /\ Cardinality(viewed) < MaxViewed
  /\ \E k \in Live : viewed' = viewed \cup {k}
  /\ UNCHANGED <<slot, schedule, work, made, during, resaved>>

\* The last viewing of a slot is completed, or its viewer did not show up.
EndViewing ==
  /\ \E k \in viewed : viewed' = viewed \ {k}
  /\ UNCHANGED <<slot, schedule, work, made, during, resaved>>

\* cancelViewing computes the status of the slot from its count of bookings ...
CancelViewing(h) ==
  /\ work[h] = Rest
  /\ \E k \in viewed : Does(h, On("uncancel", {k}, {}))
  /\ Stays

\* ... and writes it (available, booked or full) with the viewing's, unconditionally:
\* a slot cancelled since, or under a viewing its cancellation missed, is back.
CancelViewingAtomically(h) ==
  LET ks == work[h].key
      revived == ks \ Live
  IN  /\ work[h].op = "uncancel"
      /\ slot' = [k \in Keys |-> IF k \in ks THEN "live" ELSE slot[k]]
      /\ made' = [k \in Keys |-> IF k \in revived THEN "loose" ELSE made[k]]
      /\ during' = IF Falling THEN during \cup revived ELSE during
      /\ viewed' \in {viewed, viewed \ ks}
      /\ Does(h, Rest)
      /\ UNCHANGED <<schedule, resaved>>

-----------------------------------------------------------------------------
(* Cancelling.                                                             *)

\* The viewings, then the slots, in one transaction: a viewing booked or verified
\* between the two statements stands (see Viewing).
Cancel(ks) ==
  /\ slot' = [k \in Keys |-> IF k \in ks THEN "cancelled" ELSE slot[k]]
  /\ made' = [k \in Keys |-> IF k \in ks THEN "none" ELSE made[k]]
  /\ during' = during \ ks
  /\ \E left \in SUBSET (ks \cap viewed) : viewed' = (viewed \ ks) \cup left

\* cancelSlot and bulkCancelSlots: by id, so of rows there are.
CancelSlots ==
  /\ \E ks \in {{k} : k \in Keys} \cup {Live} :
       /\ ks # {} /\ \A k \in ks : slot[k] # "none"
       /\ Cancel(ks)
  /\ UNCHANGED <<schedule, work, resaved>>

\* cancelSlotsForPropertyCascade lists the live slots, cancels them one after the
\* other (each after its notifications), and deletes the schedule last.
Cascade(h) ==
  /\ work[h] = Rest /\ ~Falling
  /\ Does(h, On("cascade", {}, Live))
  /\ during' = {}
  /\ UNCHANGED <<slot, viewed, schedule, made, resaved>>

CascadeSlot(h) ==
  /\ work[h].op = "cascade"
  /\ \E k \in work[h].todo :
       /\ Cancel({k})
       /\ Does(h, On("cascade", {}, work[h].todo \ {k}))
  /\ UNCHANGED <<schedule, resaved>>

CascadeEnds(h) ==
  /\ work[h].op = "cascade" /\ work[h].todo = {}
  /\ schedule' = NoSchedule
  /\ Does(h, On("over", {}, {}))
  /\ UNCHANGED <<slot, viewed, made, during, resaved>>

\* The handler throws or the process dies; a cascade stays half done.
Abandon(h) ==
  /\ work[h].op \notin {"idle", "over"}
  /\ Does(h, Rest)
  /\ Stays

SlotsInit ==
  /\ slot = [k \in Keys |-> "none"] /\ made = [k \in Keys |-> "none"]
  /\ viewed = {} /\ schedule = NoSchedule
  /\ work = [h \in Handlers |-> Rest]
  /\ during = {} /\ resaved = FALSE

SlotsNext ==
  \/ SaveSchedule \/ DeleteSchedule
  \/ CreateViewingWithLock \/ EndViewing \/ CancelSlots
  \/ \E h \in Handlers :
       \/ CreateSlot(h) \/ CheckActive(h) \/ InsertSlot(h)
       \/ CreateBulkSlots(h) \/ CreateManySlots(h)
       \/ BookWindow(h) \/ MaterialiseRecurringSlot(h)
       \/ CancelViewing(h) \/ CancelViewingAtomically(h)
       \/ Cascade(h) \/ CascadeSlot(h) \/ CascadeEnds(h) \/ Abandon(h)

SlotsSpec == SlotsInit /\ [][SlotsNext]_slotsVars

-----------------------------------------------------------------------------
(* Properties                                                              *)

\* The limits hold for the slots a seller made, and no slot he made one by one lies
\* over another such, unless requests were about to insert together, or a viewer's
\* cancellation brought it back.  The windows of the schedule know no limit, and bulk
\* creation neither the day's nor overlaps.
SlotsAreSound ==
  LET of(how) == {k \in Live : made[k] \in how}
  IN  /\ Cardinality(of({"slot", "bulk"})) <= MaxActive
      /\ \A d \in Dates : Cardinality(of({"slot"}) \cap LiveOn(d)) <= PerDay
      /\ \A k, l \in of({"slot"}) : k[1] = l[1] /\ k # l => ~Overlap(k[2], l[2])

\* The public page offers no cancelled window, and the seller sees everything it
\* offers; what he sees in excess are the cancelled windows of his own schedule.
CalendarsAgree ==
  \A d \in Dates :
    /\ PublicPage(d) \subseteq SellerCalendar(d)
    /\ \A k \in SellerCalendar(d) \ PublicPage(d) : slot[k] = "cancelled"
    /\ \A k \in PublicPage(d) : slot[k] # "cancelled"

\* When the sale has fallen through, no window is offered but of a schedule saved
\* since, and a slot is live only if it was inserted, or revived by a viewer's
\* cancellation, while the cascade ran or after it.
CascadeClears ==
  Through => (resaved \/ schedule = NoSchedule) /\ Live \subseteq during

\* Cancelled, and no viewing stands there whose cancellation could write the slot.
IsOff(k) ==
  /\ slot[k] = "cancelled" /\ k \notin viewed
  /\ \A h \in Handlers : work[h].op = "uncancel" => k \notin work[h].key

\* A cancelled slot without viewings stays so: a booking that makes its window real
\* brings back none, whatever is created, saved and cancelled around it.
CancelledStaysOff ==
  [][\A k \in Keys : IsOff(k) => IsOff(k)']_slotsVars

\* The slots hold their limits, the two calendars agree on them, and a sale that fell
\* through leaves none.
CalendarIsSound == SlotsAreSound /\ CalendarsAgree /\ CascadeClears
=============================================================================
