--------------------------- MODULE ViewingProofs ---------------------------
(***************************************************************************)
(* Proofs about Viewing, for any number of slots, viewings, viewers and    *)
(* requests.                                                               *)
(***************************************************************************)
EXTENDS Viewing, FiniteSetTheorems, TLAPS

\* The shape of a request's state: which fields each operation uses.
WellShaped(q) ==
  /\ q \in RequestStates
  /\ q.op \in {"idle", "cancelSlots", "cascade"} <=> q.v = NoViewing
  /\ q.op = "idle" => q.todo = {}
  /\ q.v # NoViewing => q.todo = {}
  /\ q.op = "verify" => q.attempts < OtpMaxAttempts
  /\ q.batch \subseteq q.todo
  /\ \A v \in q.hit : SlotOf[v] \in q.batch

\* A transaction locks rows that exist.
HitsExist == \A r \in Requests : \A v \in req[r].hit : viewingStatus[v] # "none"

TypeInv == TypeOK /\ HitsExist /\ \A r \in Requests : WellShaped(req[r])

\* A booking in flight owns its viewing: no row yet, and no other request on
\* it.  Every other operation works on a row that exists.
FreshBookings ==
  \A r \in Requests :
    /\ req[r].op = "book" =>
         /\ viewingStatus[req[r].v] = "none"
         /\ \A p \in Requests \ {r} : req[p].v # req[r].v
    /\ req[r].op # "book" /\ req[r].v # NoViewing => viewingStatus[req[r].v] # "none"

\* Two requests never work on an uncontended slot at once.
Exclusive ==
  \A s \in Slots \ contended, r \in Requests, p \in Requests :
    s \in Touched(req[r]) /\ s \in Touched(req[p]) => r = p

\* What a request read of an uncontended slot still holds when it writes.
ReadsHold ==
  \A r \in Requests :
    LET q == req[r]
    IN  /\ q.v # NoViewing /\ SlotOf[q.v] \notin contended =>
             /\ q.op = "verify" => viewingStatus[q.v] = "pending_otp"
             /\ q.op \in {"no_show", "completed"} => viewingStatus[q.v] = "scheduled"
             /\ q.op = "cancel" =>
                  /\ viewingStatus[q.v] \in {"pending_otp", "scheduled"}
                  /\ q.newStatus = ComputeSlotStatus(SlotOf[q.v],
                                     currentBookings[SlotOf[q.v]] - 1)
        /\ \A v \in Viewings :
             SlotOf[v] \in q.batch \ contended /\ Live(v) => v \in q.hit

Inv == TypeInv /\ FreshBookings /\ Exclusive /\ ReadsHold /\ SlotAccounting

-----------------------------------------------------------------------------

\* A request's new state keeps the types of the requests.
LEMMA ContinueType ==
  ASSUME TypeInv, NEW r \in Requests, NEW state, WellShaped(state),
         req' = [req EXCEPT ![r] = state]
  PROVE  /\ req' \in [Requests -> RequestStates]
         /\ \A p \in Requests : WellShaped(req'[p])
         /\ req'[r] = state
         /\ \A p \in Requests \ {r} : req'[p] = req[p]
  BY DEF TypeInv, TypeOK, WellShaped

\* Starting an operation that holds no lock keeps the type invariant.
LEMMA BeginType ==
  ASSUME TypeInv, NEW r \in Requests, NEW state, WellShaped(state), state.hit = {},
         Begin(r, state)
  PROVE  TypeInv'
<1>1. /\ req' \in [Requests -> RequestStates]
      /\ \A p \in Requests : WellShaped(req'[p])
      /\ req'[r] = state
      /\ \A p \in Requests \ {r} : req'[p] = req[p]
  BY ContinueType DEF Begin
<1>2. Touched(state) \subseteq Slots \cup Viewers
  BY SlotAssumption DEF WellShaped, RequestStates, Touched
<1>3. contended' \subseteq Slots \cup Viewers
  BY <1>2 DEF Begin, TypeInv, TypeOK
<1>4. HitsExist'
  BY <1>1 DEF HitsExist, TypeInv, Begin, rows, viewingVars
<1>5. QED
  BY <1>1, <1>3, <1>4
     DEF TypeInv, TypeOK, Begin, rows, viewingVars, slotVars, WellShaped

\* An idle request has nothing read and nothing to do.
LEMMA IdleShaped ==
  /\ Idle \in RequestStates /\ WellShaped(Idle)
  /\ Idle.op = "idle" /\ Idle.v = NoViewing /\ Idle.todo = {}
  /\ Idle.batch = {} /\ Idle.hit = {} /\ Idle.attempts = 0
<1>1. "available" \in SlotStatuses /\ 0 \in 0..OtpMaxAttempts
  BY SlotAssumption DEF SlotStatuses
<1>2. /\ Idle.op = "idle" /\ Idle.v = NoViewing /\ Idle.todo = {}
      /\ Idle.batch = {} /\ Idle.hit = {} /\ Idle.attempts = 0
  BY DEF Idle
<1>3. Idle \in RequestStates
  BY <1>1 DEF Idle, RequestStates
<1>4. QED
  BY <1>2, <1>3 DEF WellShaped

\* An operation on one viewing, or on slots, as its handler starts it.
LEMMA OnShaped ==
  ASSUME NEW v \in Viewings \cup {NoViewing},
         NEW op \in {"book", "verify", "verified", "cancel", "no_show", "completed",
                     "cancelSlots", "cascade"}
  PROVE  /\ On(op, v) \in RequestStates
         /\ On(op, v).op = op /\ On(op, v).v = v /\ On(op, v).todo = {}
         /\ On(op, v).batch = {} /\ On(op, v).hit = {} /\ On(op, v).attempts = 0
         /\ op \notin {"verify", "cancelSlots", "cascade"} /\ v # NoViewing
              => WellShaped(On(op, v))
<1>1. /\ On(op, v) \in RequestStates
      /\ On(op, v).op = op /\ On(op, v).v = v /\ On(op, v).todo = {}
      /\ On(op, v).batch = {} /\ On(op, v).hit = {} /\ On(op, v).attempts = 0
  BY IdleShaped DEF On, RequestStates
<1>2. QED
  BY <1>1 DEF WellShaped

LEMMA TypeInvInit == Init => TypeInv
<1> SUFFICES ASSUME Init PROVE TypeInv
  OBVIOUS
<1>1. TypeOK
  BY SlotAssumption, IdleShaped DEF Init, TypeOK, ViewingStatuses, SlotStatuses
<1>2. HitsExist /\ \A r \in Requests : WellShaped(req[r])
  BY IdleShaped DEF Init, HitsExist
<1>3. QED
  BY <1>1, <1>2 DEF TypeInv

LEMMA TypeInvStart ==
  ASSUME TypeInv, NEW r \in Requests, Start(r)
  PROVE  TypeInv'
<1> USE SlotAssumption
<1>1. ASSUME NEW v \in Viewings, BookStart(r, v) PROVE TypeInv'
  <2> DEFINE known == phoneVerified[ViewerOf[v]]
             state == [On("book", v) EXCEPT !.returning = known]
  <2>0. known \in BOOLEAN
    BY Zenon DEF TypeInv, TypeOK
  <2> HIDE DEF known
  <2>1. WellShaped(state) /\ state.hit = {}
    BY <2>0, OnShaped DEF WellShaped, RequestStates
  <2>2. Begin(r, state)
    BY <1>1 DEF BookStart, known
  <2>3. QED
    BY <2>1, <2>2, BeginType
<1>2. ASSUME NEW v \in Viewings, VerifyStart(r, v) PROVE TypeInv'
  <2> DEFINE state == [On("verify", v) EXCEPT !.attempts = otpAttempts[v]]
  <2>1. WellShaped(state) /\ state.hit = {}
    BY SMTT(30), <1>2, OnShaped DEF VerifyStart, WellShaped, RequestStates, TypeInv, TypeOK
  <2>2. Begin(r, state)
    BY <1>2 DEF VerifyStart
  <2>3. QED
    BY <2>1, <2>2, BeginType
<1>3. ASSUME NEW v \in Viewings, CancelStart(r, v) PROVE TypeInv'
  <2> DEFINE st == ComputeSlotStatus(SlotOf[v], currentBookings[SlotOf[v]] - 1)
             state == [On("cancel", v) EXCEPT !.newStatus = st]
  <2>1. st \in SlotStatuses
    BY DEF ComputeSlotStatus, SlotStatuses
  <2> HIDE DEF st
  <2>2. WellShaped(state) /\ state.hit = {}
    BY <2>1, OnShaped DEF WellShaped, RequestStates
  <2>3. Begin(r, state)
    BY <1>3 DEF CancelStart, st
  <2>4. QED
    BY <2>2, <2>3, BeginType
<1>4. ASSUME NEW v \in Viewings, NEW outcome \in {"no_show", "completed"},
             MarkStart(r, v, outcome)
      PROVE TypeInv'
  BY <1>4, OnShaped, BeginType DEF MarkStart
<1>5. ASSUME NEW chosen \in SUBSET Slots, CancelSlotsStart(r, chosen) PROVE TypeInv'
  <2> DEFINE state == [On("cancelSlots", NoViewing) EXCEPT !.todo = chosen]
  <2>1. WellShaped(state) /\ state.hit = {}
    BY OnShaped DEF WellShaped, RequestStates
  <2>2. QED
    BY <1>5, <2>1, BeginType DEF CancelSlotsStart
<1>6. ASSUME CascadeStart(r) PROVE TypeInv'
  <2> DEFINE active == {s \in Slots : slotStatus[s] # "cancelled"}
             state == [On("cascade", NoViewing) EXCEPT !.todo = active]
  <2>1. WellShaped(state) /\ state.hit = {}
    BY OnShaped DEF WellShaped, RequestStates
  <2>2. QED
    BY <1>6, <2>1, BeginType DEF CascadeStart
<1>7. QED
  BY <1>1, <1>2, <1>3, <1>4, <1>5, <1>6 DEF Start

\* The statuses and counters a write stores are of their types.
LEMMA TypeInvStep == TypeInv /\ [Next]_vars => TypeInv'
<1> SUFFICES ASSUME TypeInv, [Next]_vars PROVE TypeInv'
  OBVIOUS
<1> USE SlotAssumption
<1>1. ASSUME NEW r \in Requests, Start(r) PROVE TypeInv'
  BY <1>1, TypeInvStart
<1>2. ASSUME NEW r \in Requests, NEW state, WellShaped(state), Continue(r, state),
             HitsExist',
             viewingStatus' \in [Viewings -> ViewingStatuses],
             otpAttempts' \in [Viewings -> 0..OtpMaxAttempts],
             slotStatus' \in [Slots -> SlotStatuses],
             currentBookings' \in [Slots -> Int],
             phoneVerified' \in [Viewers -> BOOLEAN]
      PROVE TypeInv'
  BY <1>2, ContinueType DEF Continue, TypeInv, TypeOK
<1>3. ASSUME NEW r \in Requests, NEW state, state.hit = {}, Continue(r, state),
             \A v \in Viewings : viewingStatus[v] # "none" => viewingStatus'[v] # "none"
      PROVE HitsExist'
  BY <1>3 DEF Continue, HitsExist, TypeInv, TypeOK, RequestStates
<1>4. ASSUME NEW r \in Requests, BookCreate(r) PROVE TypeInv'
  <2>1. req[r].v \in Viewings
    BY <1>4 DEF BookCreate, TypeInv, TypeOK, WellShaped, RequestStates
  <2>2. HitsExist'
    BY <1>3, <1>4 DEF BookCreate, Idle, TypeInv, TypeOK
  <2>3. QED
    BY <1>2, <1>4, <2>1, <2>2, IdleShaped
       DEF BookCreate, TypeInv, TypeOK, ViewingStatuses, SlotStatuses
<1>5. ASSUME NEW r \in Requests, VerifyInvalid(r) PROVE TypeInv'
  <2>1. /\ req[r].v \in Viewings
        /\ req[r].attempts \in 0..OtpMaxAttempts /\ req[r].attempts < OtpMaxAttempts
    BY <1>5 DEF VerifyInvalid, TypeInv, TypeOK, WellShaped, RequestStates
  <2>2. HitsExist'
    BY <1>3, <1>5 DEF VerifyInvalid, Idle
  <2>3. otpAttempts' \in [Viewings -> 0..OtpMaxAttempts]
    BY <1>5, <2>1 DEF VerifyInvalid, TypeInv, TypeOK
  <2>4. QED
    BY <1>2, <1>5, <2>2, <2>3, IdleShaped DEF VerifyInvalid, TypeInv, TypeOK, slotVars
<1>6. ASSUME NEW r \in Requests, VerifyValid(r) PROVE TypeInv'
  <2>1. req[r].v \in Viewings
    BY <1>6 DEF VerifyValid, TypeInv, TypeOK, WellShaped, RequestStates
  <2>2. WellShaped(On("verified", req[r].v)) /\ On("verified", req[r].v).hit = {}
    BY <2>1, OnShaped
  <2>3. viewingStatus' = [viewingStatus EXCEPT ![req[r].v] = "scheduled"]
    BY <1>6 DEF VerifyValid
  <2>4. HitsExist'
    BY <1>3, <1>6, <2>2, <2>3 DEF VerifyValid, TypeInv, TypeOK
  <2>5. viewingStatus' \in [Viewings -> ViewingStatuses]
    BY <2>3 DEF TypeInv, TypeOK, ViewingStatuses
  <2>6. /\ Continue(r, On("verified", req[r].v))
        /\ UNCHANGED <<otpAttempts, slotStatus, currentBookings, phoneVerified>>
    BY <1>6 DEF VerifyValid, slotVars
  <2>7. QED
    BY <1>2, <2>2, <2>4, <2>5, <2>6 DEF TypeInv, TypeOK
<1>7. ASSUME NEW r \in Requests, VerifyViewer(r) PROVE TypeInv'
  <2>1. HitsExist'
    BY <1>3, <1>7 DEF VerifyViewer, Idle, viewingVars
  <2>2. QED
    BY <1>2, <1>7, <2>1, IdleShaped
       DEF VerifyViewer, TypeInv, TypeOK, viewingVars, slotVars
<1>8. ASSUME NEW r \in Requests, CancelCommit(r) PROVE TypeInv'
  <2>1. req[r].v \in Viewings /\ req[r].newStatus \in SlotStatuses
    BY <1>8 DEF CancelCommit, TypeInv, TypeOK, WellShaped, RequestStates
  <2>2. HitsExist'
    BY <1>3, <1>8 DEF CancelCommit, Idle, TypeInv, TypeOK
  <2>3. QED
    BY <1>2, <1>8, <2>1, <2>2, IdleShaped
       DEF CancelCommit, TypeInv, TypeOK, ViewingStatuses
<1>9. ASSUME NEW r \in Requests, MarkCommit(r) PROVE TypeInv'
  <2>1. HitsExist'
    BY <1>3, <1>9 DEF MarkCommit, Idle, TypeInv, TypeOK
  <2>2. QED
    BY <1>2, <1>9, <2>1, IdleShaped
       DEF MarkCommit, TypeInv, TypeOK, ViewingStatuses, slotVars
<1>10. ASSUME NEW r \in Requests, SlotCancelViewings(r) PROVE TypeInv'
  <2> DEFINE batches == IF req[r].op = "cascade"
                        THEN {{s} : s \in req[r].todo} ELSE {req[r].todo}
  <2>0. PICK b \in batches :
          Continue(r, [req[r] EXCEPT !.batch = b,
                 !.hit = {v \in Viewings : SlotOf[v] \in b /\ Live(v)}])
    BY <1>10, Zenon DEF SlotCancelViewings
  <2>1. /\ b \in SUBSET Slots /\ b \subseteq req[r].todo
        /\ Continue(r, [req[r] EXCEPT !.batch = b,
                 !.hit = {v \in Viewings : SlotOf[v] \in b /\ Live(v)}])
    <3>1. req[r].todo \in SUBSET Slots
      BY DEF TypeInv, TypeOK, RequestStates
    <3>2. b \subseteq req[r].todo
      OBVIOUS
    <3>3. QED
      BY <2>0, <3>1, <3>2
  <2> DEFINE found == {v \in Viewings : SlotOf[v] \in b /\ Live(v)}
             state == [req[r] EXCEPT !.batch = b, !.hit = found]
  <2>2. WellShaped(state)
    <3>1. req[r] \in RequestStates /\ WellShaped(req[r]) /\ found \in SUBSET Viewings
      BY DEF TypeInv, TypeOK
    <3>2. \A v \in found : SlotOf[v] \in b
      OBVIOUS
    <3> HIDE DEF found
    <3>3. QED
      BY <1>10, <2>1, <3>1, <3>2 DEF SlotCancelViewings, WellShaped, RequestStates
  <2>3. HitsExist'
    <3>1. state.hit = found
      BY DEF TypeInv, TypeOK, RequestStates
    <3>2. /\ \A v \in found : viewingStatus[v] # "none"
          /\ viewingStatus' = viewingStatus
      BY <1>10 DEF SlotCancelViewings, Live, rows, viewingVars
    <3> HIDE DEF state
    <3>3. req'[r] = state /\ \A p \in Requests \ {r} : req'[p] = req[p]
      BY <2>1, <2>2, ContinueType DEF Continue, state
    <3>4. QED
      BY <3>1, <3>2, <3>3 DEF HitsExist, TypeInv
  <2>4. QED
    BY <1>2, <1>10, <2>1, <2>2, <2>3
       DEF SlotCancelViewings, TypeInv, TypeOK, rows, viewingVars, slotVars
<1>11. ASSUME NEW r \in Requests, SlotCancelCommit(r) PROVE TypeInv'
  <2> DEFINE left == req[r].todo \ req[r].batch
             state == IF left = {} THEN Idle
                      ELSE [req[r] EXCEPT !.todo = left, !.batch = {}, !.hit = {}]
  <2>1. WellShaped(state) /\ state.hit = {}
    <3>1. WellShaped([req[r] EXCEPT !.todo = left, !.batch = {}, !.hit = {}])
      <4>1. req[r] \in RequestStates /\ WellShaped(req[r]) /\ left \in SUBSET Slots
        BY DEF TypeInv, TypeOK, WellShaped, RequestStates
      <4>2. req[r].todo # {}
        BY <1>11, <4>1 DEF SlotCancelCommit, WellShaped
      <4> HIDE DEF left
      <4>3. QED
        BY <4>1, <4>2 DEF WellShaped, RequestStates
    <3>2. QED
      BY <3>1, IdleShaped DEF Idle, TypeInv, TypeOK, RequestStates
  <2>2. HitsExist'
    BY <1>3, <1>11, <2>1 DEF SlotCancelCommit
  <2>3. QED
    BY <1>2, <1>11, <2>1, <2>2 DEF SlotCancelCommit, TypeInv, TypeOK, ViewingStatuses, SlotStatuses
<1>12. ASSUME NEW r \in Requests, Fail(r) PROVE TypeInv'
  <2>1. HitsExist'
    BY <1>3, <1>12 DEF Fail, Idle, rows, viewingVars
  <2>2. QED
    BY <1>2, <1>12, <2>1, IdleShaped DEF Fail, TypeInv, TypeOK, rows, viewingVars, slotVars
<1>13. CASE UNCHANGED vars
  BY <1>13 DEF vars, TypeInv, TypeOK, HitsExist, WellShaped, rows, viewingVars, slotVars
<1>14. QED
  BY <1>1, <1>4, <1>5, <1>6, <1>7, <1>8, <1>9, <1>10, <1>11, <1>12, <1>13 DEF Next

\* Type correctness of the specification: the otp attempts stay within the
\* limit, and every status is one the schema declares.
THEOREM TypeCorrect == Spec => []TypeOK
<1>1. TypeInv => TypeOK
  BY DEF TypeInv
<1>2. QED
  BY TypeInvInit, TypeInvStep, <1>1, PTL DEF Spec

-----------------------------------------------------------------------------
(* The counter never passes the capacity of the slot.                      *)

\* Whatever the interleaving, current_bookings never exceeds the seats:
\* createViewingWithLock decides and increments under the lock of the row.
THEOREM CapacityKept == Spec => []CounterWithinCapacity
<1> USE SlotAssumption
<1>1. Init => CounterWithinCapacity
  BY DEF Init, CounterWithinCapacity, Capacity
<1>2. TypeInv /\ CounterWithinCapacity /\ [Next]_vars => CounterWithinCapacity'
  <2> SUFFICES ASSUME TypeInv, CounterWithinCapacity, [Next]_vars,
                      NEW s \in Slots
               PROVE  currentBookings'[s] <= Capacity(s)
    BY DEF CounterWithinCapacity, Capacity
  <2>1. /\ currentBookings \in [Slots -> Int] /\ currentBookings[s] <= Capacity(s)
        /\ Capacity(s) \in Nat /\ 0 <= Capacity(s)
    BY DEF TypeInv, TypeOK, CounterWithinCapacity, Capacity
  <2>2. CASE currentBookings' = currentBookings
    BY <2>1, <2>2
  <2>3. ASSUME NEW r \in Requests, BookCreate(r)
        PROVE  currentBookings'[s] <= Capacity(s)
    BY <2>1, <2>3 DEF BookCreate, CanBook, Capacity
  <2>4. ASSUME NEW r \in Requests, CancelCommit(r)
        PROVE  currentBookings'[s] <= Capacity(s)
    BY <2>1, <2>4 DEF CancelCommit
  <2>5. ASSUME NEW r \in Requests, SlotCancelCommit(r)
        PROVE  currentBookings'[s] <= Capacity(s)
    BY <2>1, <2>5 DEF SlotCancelCommit
  <2>6. ASSUME NEW r \in Requests,
               \/ Start(r) \/ VerifyInvalid(r) \/ VerifyValid(r) \/ VerifyViewer(r)
               \/ MarkCommit(r) \/ SlotCancelViewings(r) \/ Fail(r)
        PROVE  currentBookings' = currentBookings
    BY <2>6
       DEF Start, BookStart, VerifyStart, CancelStart, MarkStart, CancelSlotsStart,
           CascadeStart, Begin, VerifyInvalid, VerifyValid, VerifyViewer, MarkCommit,
           SlotCancelViewings, Fail, rows, slotVars
  <2>7. CASE UNCHANGED vars
    BY <2>2, <2>7 DEF vars, rows, slotVars
  <2>8. QED
    BY <2>2, <2>3, <2>4, <2>5, <2>6, <2>7 DEF Next
<1>3. QED
  BY TypeInvInit, TypeInvStep, <1>1, <1>2, PTL DEF Spec

-----------------------------------------------------------------------------
(* The accounting of the slots no two requests worked on at once.          *)

\* The live viewings of a slot are finitely many.
LEMMA LiveFinite ==
  ASSUME NEW s \in Slots
  PROVE  IsFiniteSet(LiveOn(s)) /\ Cardinality(LiveOn(s)) \in Nat
  BY SlotAssumption, FS_Subset, FS_CardinalityType DEF LiveOn

\* A handler that starts on rows whose reads hold keeps the invariant.
LEMMA BeginInv ==
  ASSUME Inv, NEW r \in Requests, NEW state, Begin(r, state),
         WellShaped(state), state.hit = {}, state.batch = {},
         state.op = "book" =>
           viewingStatus[state.v] = "none" /\ \A q \in Requests : req[q].v # state.v,
         state.op # "book" => state.v = NoViewing \/ viewingStatus[state.v] # "none",
         state.op = "verify" => viewingStatus[state.v] = "pending_otp",
         state.op \in {"no_show", "completed"} => viewingStatus[state.v] = "scheduled",
         state.op = "cancel" =>
           /\ viewingStatus[state.v] \in {"pending_otp", "scheduled"}
           /\ state.newStatus =
                ComputeSlotStatus(SlotOf[state.v], currentBookings[SlotOf[state.v]] - 1)
  PROVE  Inv'
<1> USE SlotAssumption
<1>1. TypeInv'
  BY BeginType DEF Inv
<1>2. /\ req'[r] = state /\ \A p \in Requests \ {r} : req'[p] = req[p]
      /\ contended \subseteq contended'
      /\ \A q \in Requests \ {r} :
            Touched(state) \cap Touched(req[q]) \subseteq contended'
      /\ viewingStatus' = viewingStatus /\ slotStatus' = slotStatus
      /\ currentBookings' = currentBookings
  BY ContinueType DEF Begin, Inv, rows, viewingVars, slotVars
<1>2b. \A p \in Requests : req'[p].op # "book" /\ req'[p].v # NoViewing
                            => viewingStatus[req'[p].v] # "none"
  BY <1>2 DEF Inv, FreshBookings
<1>3. FreshBookings'
  <2> SUFFICES ASSUME NEW p \in Requests, req'[p].op = "book"
               PROVE  /\ viewingStatus[req'[p].v] = "none"
                      /\ \A q \in Requests \ {p} : req'[q].v # req'[p].v
    BY <1>2, <1>2b DEF FreshBookings
  <2>1. CASE p = r
    BY <1>2, <2>1
  <2>2. CASE p # r
    <3>1. /\ req[p].op = "book" /\ viewingStatus[req[p].v] = "none"
          /\ \A q \in Requests \ {p} : req[q].v # req[p].v
      BY <1>2, <2>2 DEF Inv, FreshBookings
    <3>2. req[p].v # NoViewing
      BY <3>1 DEF Inv, TypeInv, WellShaped
    <3>3. state.v # req[p].v
      BY <3>1, <3>2
    <3>4. QED
      BY <1>2, <2>2, <3>1, <3>3
  <2>3. QED
    BY <2>1, <2>2
<1>4. Exclusive'
  <2> SUFFICES ASSUME NEW s \in Slots \ contended', NEW p \in Requests, NEW q \in Requests,
                      s \in Touched(req'[p]), s \in Touched(req'[q])
               PROVE  p = q
    BY DEF Exclusive, Touched
  <2>1. CASE p # r /\ q # r
    BY <1>2, <2>1 DEF Inv, Exclusive
  <2>2. CASE p = r \/ q = r
    BY <1>2, <2>2
  <2>3. QED
    BY <2>1, <2>2
<1>5. ReadsHold'
  BY <1>2 DEF ReadsHold, Inv, Live, ComputeSlotStatus
<1>6. SlotAccounting'
  <2>1. \A s \in Slots : LiveOn(s)' = LiveOn(s)
    BY <1>2 DEF LiveOn, Live
  <2>2. \A s \in Slots :
          ComputeSlotStatus(s, currentBookings[s])' = ComputeSlotStatus(s, currentBookings[s])
    BY <1>2 DEF ComputeSlotStatus
  <2>3. SlotAccounting
    BY DEF Inv
  <2> HIDE DEF LiveOn, ComputeSlotStatus
  <2> SUFFICES ASSUME NEW s \in Slots \ contended'
               PROVE  /\ currentBookings'[s] = Cardinality(LiveOn(s)')
                      /\ slotStatus'[s] = "cancelled" => LiveOn(s)' = {}
                      /\ slotStatus'[s] # "cancelled"
                           => slotStatus'[s] = ComputeSlotStatus(s, currentBookings[s])'
    BY DEF SlotAccounting
  <2>4. QED
    BY <1>2, <2>1, <2>2, <2>3 DEF SlotAccounting
<1>7. QED
  BY <1>1, <1>3, <1>4, <1>5, <1>6 DEF Inv

\* The effect of a handler's write: it changes rows of slots W that it works
\* on, so no other request reads or writes those of them that are uncontended.
LEMMA WriteInv ==
  ASSUME Inv, TypeInv', NEW r \in Requests, NEW state, NEW W \in SUBSET Slots,
         Continue(r, state), WellShaped(state),
         Touched(state) \subseteq Touched(req[r]), W \subseteq Touched(req[r]),
         state.op # "book", state.v \in {req[r].v, NoViewing},
         \A s \in Slots \ W : /\ slotStatus'[s] = slotStatus[s]
                              /\ currentBookings'[s] = currentBookings[s],
         \A v \in Viewings : SlotOf[v] \notin W => viewingStatus'[v] = viewingStatus[v],
         \A v \in Viewings : viewingStatus[v] = "none" /\ viewingStatus'[v] # "none"
                             => req[r].op = "book" /\ v = req[r].v,
         \A v \in Viewings : viewingStatus[v] # "none" => viewingStatus'[v] # "none",
         state.v # NoViewing => viewingStatus[state.v] # "none",
         state.op \notin {"verify", "no_show", "completed", "cancel"},
         \A v \in Viewings : SlotOf[v] \in state.batch /\ Live(v)' => v \in state.hit,
         \A s \in W \ contended :
           /\ currentBookings'[s] = Cardinality(LiveOn(s)')
           /\ slotStatus'[s] = "cancelled" => LiveOn(s)' = {}
           /\ slotStatus'[s] # "cancelled"
                => slotStatus'[s] = ComputeSlotStatus(s, currentBookings'[s])
  PROVE  Inv'
<1> USE SlotAssumption
<1>1. /\ req'[r] = state /\ \A p \in Requests \ {r} : req'[p] = req[p]
      /\ contended' = contended
  BY ContinueType DEF Continue, Inv
<1>2. \A p \in Requests \ {r} : W \cap Touched(req[p]) \subseteq contended
  BY DEF Inv, Exclusive
<1>2b. \A p \in Requests : req'[p].op # "book" /\ req'[p].v # NoViewing
                            => viewingStatus'[req'[p].v] # "none"
  BY <1>1 DEF Inv, FreshBookings, TypeInv, WellShaped, RequestStates
<1>3. FreshBookings'
  <2> SUFFICES ASSUME NEW p \in Requests, req'[p].op = "book"
               PROVE  /\ viewingStatus'[req'[p].v] = "none"
                      /\ \A q \in Requests \ {p} : req'[q].v # req'[p].v
    BY <1>2b DEF FreshBookings
  <2>1. p # r /\ req'[p] = req[p]
    BY <1>1
  <2>2. /\ viewingStatus[req[p].v] = "none" /\ req[p].v \in Viewings
        /\ \A q \in Requests \ {p} : req[q].v # req[p].v
    BY <2>1 DEF Inv, FreshBookings, TypeInv, WellShaped, RequestStates
  <2>3. req[p].v # state.v
    BY <2>1, <2>2
  <2>4. viewingStatus'[req[p].v] = "none"
    BY <2>1, <2>2
  <2>5. QED
    BY <1>1, <2>1, <2>2, <2>3, <2>4
<1>4. Exclusive'
  <2> SUFFICES ASSUME NEW s \in Slots \ contended, NEW p \in Requests, NEW q \in Requests,
                      s \in Touched(req'[p]), s \in Touched(req'[q])
               PROVE  p = q
    BY <1>1 DEF Exclusive, Touched
  <2>1. s \in Touched(req[p]) /\ s \in Touched(req[q])
    BY <1>1
  <2>2. QED
    BY <2>1 DEF Inv, Exclusive
<1>5. ReadsHold'
  <2> SUFFICES ASSUME NEW p \in Requests
               PROVE  LET q == req'[p]
                      IN  /\ q.v # NoViewing /\ SlotOf[q.v] \notin contended =>
                               /\ q.op = "verify" => viewingStatus'[q.v] = "pending_otp"
                               /\ q.op \in {"no_show", "completed"}
                                    => viewingStatus'[q.v] = "scheduled"
                               /\ q.op = "cancel" =>
                                    /\ viewingStatus'[q.v] \in {"pending_otp", "scheduled"}
                                    /\ q.newStatus = ComputeSlotStatus(SlotOf[q.v],
                                                       currentBookings'[SlotOf[q.v]] - 1)
                          /\ \A v \in Viewings :
                               SlotOf[v] \in q.batch \ contended /\ Live(v)' => v \in q.hit
    BY <1>1 DEF ReadsHold, ComputeSlotStatus
  <2>1. CASE p = r
    BY <1>1, <2>1
  <2>2. CASE p # r
    <3>1. req'[p] = req[p] /\ WellShaped(req[p])
      BY <1>1, <2>2 DEF Inv, TypeInv
    <3>2. ASSUME req[p].v # NoViewing, SlotOf[req[p].v] \notin contended
          PROVE  /\ viewingStatus'[req[p].v] = viewingStatus[req[p].v]
                 /\ currentBookings'[SlotOf[req[p].v]] = currentBookings[SlotOf[req[p].v]]
      <4>1. req[p].v \in Viewings /\ SlotOf[req[p].v] \in Touched(req[p])
        BY <3>1, <3>2 DEF WellShaped, RequestStates, Touched
      <4>2. SlotOf[req[p].v] \in Slots \ W
        BY <1>2, <2>2, <3>2, <4>1
      <4>3. QED
        BY <4>1, <4>2
    <3>3. ASSUME NEW v \in Viewings, SlotOf[v] \in req[p].batch \ contended
          PROVE  viewingStatus'[v] = viewingStatus[v]
      <4>1. SlotOf[v] \in Touched(req[p])
        BY <3>1, <3>3 DEF WellShaped, Touched
      <4>2. SlotOf[v] \notin W
        BY <1>2, <2>2, <3>3, <4>1
      <4>3. QED
        BY <4>2
    <3>4. QED
      BY <3>1, <3>2, <3>3 DEF Inv, ReadsHold, Live
  <2>3. QED
    BY <2>1, <2>2
<1>6. SlotAccounting'
  <2> SUFFICES ASSUME NEW s \in Slots \ contended
               PROVE  /\ currentBookings'[s] = Cardinality(LiveOn(s)')
                      /\ slotStatus'[s] = "cancelled" => LiveOn(s)' = {}
                      /\ slotStatus'[s] # "cancelled"
                           => slotStatus'[s] = ComputeSlotStatus(s, currentBookings'[s])
    BY <1>1 DEF SlotAccounting, ComputeSlotStatus
  <2>1. CASE s \in W
    BY <2>1
  <2>2. CASE s \notin W
    <3>1. LiveOn(s)' = LiveOn(s)
      BY <2>2 DEF LiveOn, Live
    <3>2. QED
      BY <2>2, <3>1 DEF Inv, SlotAccounting
  <2>3. QED
    BY <2>1, <2>2
<1>7. QED
  BY <1>3, <1>4, <1>5, <1>6 DEF Inv

LEMMA InvInit == Init => Inv
<1> SUFFICES ASSUME Init PROVE Inv
  OBVIOUS
<1> USE SlotAssumption
<1>1. TypeInv
  BY TypeInvInit
<1>2. FreshBookings /\ Exclusive /\ ReadsHold
  BY IdleShaped DEF Init, FreshBookings, Exclusive, ReadsHold, Touched
<1>3. \A s \in Slots : LiveOn(s) = {} /\ Cardinality(LiveOn(s)) = 0
  BY FS_EmptySet DEF Init, LiveOn, Live
<1>4. SlotAccounting
  BY <1>3 DEF Init, SlotAccounting, ComputeSlotStatus
<1>5. QED
  BY <1>1, <1>2, <1>4 DEF Inv

LEMMA InvStart ==
  ASSUME Inv, NEW r \in Requests, Start(r)
  PROVE  Inv'
<1> USE SlotAssumption
<1>1. ASSUME NEW v \in Viewings, BookStart(r, v) PROVE Inv'
  <2> DEFINE known == phoneVerified[ViewerOf[v]]
             state == [On("book", v) EXCEPT !.returning = known]
  <2>1. known \in BOOLEAN
    BY Zenon DEF Inv, TypeInv, TypeOK
  <2> HIDE DEF known
  <2>2. /\ WellShaped(state) /\ state.hit = {} /\ state.batch = {}
        /\ state.op = "book" /\ state.v = v
    BY <2>1, OnShaped DEF WellShaped, RequestStates
  <2>3. Begin(r, state)
    BY <1>1 DEF BookStart, known
  <2>4. viewingStatus[v] = "none" /\ \A q \in Requests : req[q].v # v
    BY <1>1 DEF BookStart
  <2> HIDE DEF state
  <2>5. QED
    BY <2>2, <2>3, <2>4, BeginInv
<1>2. ASSUME NEW v \in Viewings, VerifyStart(r, v) PROVE Inv'
  <2> DEFINE state == [On("verify", v) EXCEPT !.attempts = otpAttempts[v]]
  <2>1. /\ WellShaped(state) /\ state.hit = {} /\ state.batch = {}
        /\ state.op = "verify" /\ state.v = v
    BY SMTT(30), <1>2, OnShaped
       DEF VerifyStart, WellShaped, RequestStates, Inv, TypeInv, TypeOK
  <2>2. Begin(r, state) /\ viewingStatus[v] = "pending_otp"
    BY <1>2 DEF VerifyStart
  <2> HIDE DEF state
  <2>3. QED
    BY <2>1, <2>2, BeginInv
<1>3. ASSUME NEW v \in Viewings, CancelStart(r, v) PROVE Inv'
  <2> DEFINE st == ComputeSlotStatus(SlotOf[v], currentBookings[SlotOf[v]] - 1)
             state == [On("cancel", v) EXCEPT !.newStatus = st]
  <2>1. st \in SlotStatuses
    BY DEF ComputeSlotStatus, SlotStatuses
  <2> HIDE DEF st
  <2>2. /\ WellShaped(state) /\ state.hit = {} /\ state.batch = {}
        /\ state.op = "cancel" /\ state.v = v /\ state.newStatus = st
    BY <2>1, OnShaped DEF WellShaped, RequestStates
  <2>3. Begin(r, state) /\ viewingStatus[v] \in {"pending_otp", "scheduled"}
    BY <1>3 DEF CancelStart, st
  <2> HIDE DEF state
  <2>4. QED
    BY <2>2, <2>3, BeginInv DEF st
<1>4. ASSUME NEW v \in Viewings, NEW outcome \in {"no_show", "completed"},
             MarkStart(r, v, outcome)
      PROVE Inv'
  BY <1>4, OnShaped, BeginInv DEF MarkStart
<1>5. ASSUME NEW chosen \in SUBSET Slots, CancelSlotsStart(r, chosen) PROVE Inv'
  <2> DEFINE state == [On("cancelSlots", NoViewing) EXCEPT !.todo = chosen]
  <2>1. /\ WellShaped(state) /\ state.hit = {} /\ state.batch = {}
        /\ state.op = "cancelSlots" /\ state.v = NoViewing
    BY OnShaped DEF WellShaped, RequestStates
  <2>2. Begin(r, state)
    BY <1>5 DEF CancelSlotsStart
  <2> HIDE DEF state
  <2>3. QED
    BY <2>1, <2>2, BeginInv
<1>6. ASSUME CascadeStart(r) PROVE Inv'
  <2> DEFINE active == {s \in Slots : slotStatus[s] # "cancelled"}
             state == [On("cascade", NoViewing) EXCEPT !.todo = active]
  <2>1. /\ WellShaped(state) /\ state.hit = {} /\ state.batch = {}
        /\ state.op = "cascade" /\ state.v = NoViewing
    BY OnShaped DEF WellShaped, RequestStates
  <2>2. Begin(r, state)
    BY <1>6 DEF CascadeStart
  <2> HIDE DEF state
  <2>3. QED
    BY <2>1, <2>2, BeginInv
<1>7. QED
  BY <1>1, <1>2, <1>3, <1>4, <1>5, <1>6 DEF Start

\* What a request on one viewing touches and what its reads still say of it.
LEMMA OnViewing ==
  ASSUME Inv, NEW r \in Requests, req[r].v # NoViewing
  PROVE  /\ req[r].v \in Viewings /\ SlotOf[req[r].v] \in Slots
         /\ {SlotOf[req[r].v]} \subseteq Touched(req[r])
         /\ Touched(Idle) = {}
  BY SlotAssumption, IdleShaped
     DEF Inv, TypeInv, WellShaped, RequestStates, Touched

\* A request that goes idle without changing a slot row or a viewing's status.
LEMMA QuietInv ==
  ASSUME Inv, TypeInv', NEW r \in Requests, Continue(r, Idle),
         viewingStatus' = viewingStatus, slotStatus' = slotStatus,
         currentBookings' = currentBookings
  PROVE  Inv'
<1>1. Touched(Idle) = {} /\ WellShaped(Idle)
  BY IdleShaped DEF Touched
<1>2. QED
  BY <1>1, IdleShaped, WriteInv, {} \in SUBSET Slots

\* A write to one viewing and its slot, after which the handler holds no read.
LEMMA OneRowInv ==
  ASSUME Inv, TypeInv', NEW r \in Requests, NEW state, NEW s \in Slots,
         Continue(r, state), WellShaped(state), state.op \in {"idle", "verified"},
         state.batch = {}, Touched(state) \subseteq {s}, s \in Touched(req[r]),
         state.v = NoViewing \/ (state.v = req[r].v /\ viewingStatus[state.v] # "none"),
         \A x \in Slots \ {s} : /\ slotStatus'[x] = slotStatus[x]
                                /\ currentBookings'[x] = currentBookings[x],
         \A x \in Viewings : SlotOf[x] # s => viewingStatus'[x] = viewingStatus[x],
         \A x \in Viewings : viewingStatus[x] = "none" /\ viewingStatus'[x] # "none"
                             => req[r].op = "book" /\ x = req[r].v,
         \A x \in Viewings : viewingStatus[x] # "none" => viewingStatus'[x] # "none",
         s \notin contended =>
           /\ currentBookings'[s] = Cardinality(LiveOn(s)')
           /\ slotStatus'[s] = "cancelled" => LiveOn(s)' = {}
           /\ slotStatus'[s] # "cancelled"
                => slotStatus'[s] = ComputeSlotStatus(s, currentBookings'[s])
  PROVE  Inv'
<1> DEFINE W == {s}
<1>1. W \in SUBSET Slots /\ W \subseteq Touched(req[r])
  OBVIOUS
<1>2. Touched(state) \subseteq Touched(req[r])
  OBVIOUS
<1>3. /\ \A x \in Slots \ W : /\ slotStatus'[x] = slotStatus[x]
                              /\ currentBookings'[x] = currentBookings[x]
      /\ \A x \in Viewings : SlotOf[x] \notin W => viewingStatus'[x] = viewingStatus[x]
  OBVIOUS
<1>4. \A x \in W \ contended :
        /\ currentBookings'[x] = Cardinality(LiveOn(x)')
        /\ slotStatus'[x] = "cancelled" => LiveOn(x)' = {}
        /\ slotStatus'[x] # "cancelled"
             => slotStatus'[x] = ComputeSlotStatus(x, currentBookings'[x])
  OBVIOUS
<1>5. /\ state.op # "book" /\ state.v \in {req[r].v, NoViewing}
      /\ state.op \notin {"verify", "no_show", "completed", "cancel"}
      /\ state.v # NoViewing => viewingStatus[state.v] # "none"
      /\ \A x \in Viewings : SlotOf[x] \in state.batch /\ Live(x)' => x \in state.hit
  OBVIOUS
<1> HIDE DEF W
<1>6. QED
  BY <1>1, <1>2, <1>3, <1>4, <1>5, WriteInv

\* Every write of a handler keeps the invariant.
LEMMA InvStep == Inv /\ [Next]_vars => Inv'
<1> SUFFICES ASSUME Inv, [Next]_vars PROVE Inv'
  OBVIOUS
<1> USE SlotAssumption
<1>1. TypeInv'
  BY TypeInvStep DEF Inv
<1>2. ASSUME NEW r \in Requests, Start(r) PROVE Inv'
  BY <1>2, InvStart
<1>3. ASSUME NEW r \in Requests, BookCreate(r) PROVE Inv'
  <2>1. PICK v \in Viewings, s \in Slots :
          /\ v = req[r].v /\ s = SlotOf[v] /\ {s} \subseteq Touched(req[r])
          /\ Touched(Idle) = {}
    BY <1>3, OnViewing DEF BookCreate, Inv, TypeInv, WellShaped
  <2> DEFINE n == currentBookings[s]
  <2>2. /\ CanBook(s) /\ Continue(r, Idle)
        /\ viewingStatus[v] = "none"
        /\ viewingStatus'[v] \in {"scheduled", "pending_otp"}
        /\ \A x \in Viewings \ {v} : viewingStatus'[x] = viewingStatus[x]
        /\ currentBookings'[s] = n + 1
        /\ \A x \in Slots \ {s} : /\ slotStatus'[x] = slotStatus[x]
                                  /\ currentBookings'[x] = currentBookings[x]
        /\ slotStatus'[s] = IF SlotType[s] # "single" /\ n + 1 >= MaxViewers[s]
                            THEN "full" ELSE "booked"
    BY <1>3, <2>1 DEF BookCreate, Inv, TypeInv, TypeOK, FreshBookings
  <2>3. ASSUME s \notin contended
        PROVE  /\ currentBookings'[s] = Cardinality(LiveOn(s)')
               /\ slotStatus'[s] # "cancelled"
               /\ slotStatus'[s] = ComputeSlotStatus(s, currentBookings'[s])
    <3>1. n = Cardinality(LiveOn(s)) /\ n \in Nat
      BY <2>1, <2>3, LiveFinite DEF Inv, SlotAccounting
    <3>2. LiveOn(s)' = LiveOn(s) \cup {v} /\ v \notin LiveOn(s)
      BY <2>1, <2>2 DEF LiveOn, Live
    <3>3. Cardinality(LiveOn(s)') = n + 1
      <4>1. Cardinality(LiveOn(s) \cup {v}) = Cardinality(LiveOn(s)) + 1
        BY <3>2, LiveFinite, FS_AddElement
      <4>2. QED
        BY <3>1, <3>2, <4>1
    <3>4. QED
      BY <2>2, <3>1, <3>3 DEF ComputeSlotStatus
  <2>4. /\ \A x \in Viewings : SlotOf[x] # s => viewingStatus'[x] = viewingStatus[x]
        /\ \A x \in Viewings : viewingStatus[x] # "none" => viewingStatus'[x] # "none"
    BY <2>1, <2>2
  <2>5. /\ req[r].op = "book"
        /\ \A x \in Viewings : viewingStatus[x] = "none" /\ viewingStatus'[x] # "none"
                             => x = req[r].v
    BY <1>3, <2>1, <2>2 DEF BookCreate
  <2> HIDE DEF n
  <2>6. QED
    BY SMTT(30), <1>1, <2>1, <2>2, <2>3, <2>4, <2>5, IdleShaped, OneRowInv
<1>4. ASSUME NEW r \in Requests, \/ VerifyInvalid(r) \/ VerifyViewer(r) \/ Fail(r)
      PROVE Inv'
  BY <1>1, <1>4, QuietInv
     DEF VerifyInvalid, VerifyViewer, Fail, rows, viewingVars, slotVars
\* One viewing takes a status that keeps its seat; the slot is left alone.
<1>5. ASSUME NEW r \in Requests, NEW state, state = Idle \/ state = On("verified", req[r].v),
             Continue(r, state), req[r].v # NoViewing, req[r].op # "book",
             SlotOf[req[r].v] \notin contended
               => viewingStatus[req[r].v] \in {"pending_otp", "scheduled"},
             NEW new \in {"scheduled", "no_show", "completed"},
             viewingStatus' = [viewingStatus EXCEPT ![req[r].v] = new],
             slotStatus' = slotStatus, currentBookings' = currentBookings
      PROVE Inv'
  <2>1. PICK v \in Viewings, s \in Slots :
          /\ v = req[r].v /\ s = SlotOf[v] /\ {s} \subseteq Touched(req[r])
          /\ Touched(Idle) = {} /\ viewingStatus[v] # "none"
    BY <1>5, OnViewing DEF Inv, FreshBookings
  <2>2. /\ viewingStatus'[v] = new
        /\ \A x \in Viewings \ {v} : viewingStatus'[x] = viewingStatus[x]
    BY <1>5, <2>1 DEF Inv, TypeInv, TypeOK
  <2>3. /\ WellShaped(state) /\ state.batch = {} /\ state.op \in {"idle", "verified"}
        /\ state.v \in {v, NoViewing} /\ Touched(state) \subseteq {s}
    <3>1. CASE state = Idle
      BY <3>1, <2>1, IdleShaped
    <3>2. CASE state = On("verified", v)
      BY <3>2, <2>1, OnShaped DEF Touched
    <3>3. QED
      BY <1>5, <2>1, <3>1, <3>2
  <2>4. ASSUME s \notin contended
        PROVE  /\ currentBookings'[s] = Cardinality(LiveOn(s)')
               /\ slotStatus'[s] = "cancelled" => LiveOn(s)' = {}
               /\ slotStatus'[s] # "cancelled"
                    => slotStatus'[s] = ComputeSlotStatus(s, currentBookings'[s])
    <3>1. LiveOn(s)' = LiveOn(s)
      BY <1>5, <2>1, <2>2, <2>4 DEF LiveOn, Live
    <3>2. QED
      BY <1>5, <2>1, <2>4, <3>1 DEF Inv, SlotAccounting
  <2>5. /\ \A x \in Viewings : SlotOf[x] # s => viewingStatus'[x] = viewingStatus[x]
        /\ \A x \in Viewings : viewingStatus[x] # "none" => viewingStatus'[x] # "none"
        /\ \A x \in Viewings : viewingStatus[x] = "none" => viewingStatus'[x] = "none"
    BY <2>1, <2>2
  <2>6. QED
    BY <1>1, <1>5, <2>1, <2>3, <2>4, <2>5, OneRowInv
<1>6. ASSUME NEW r \in Requests, VerifyValid(r) PROVE Inv'
  <2>1. /\ req[r].op = "verify" /\ req[r].v # NoViewing
        /\ SlotOf[req[r].v] \notin contended => viewingStatus[req[r].v] = "pending_otp"
    BY <1>6 DEF VerifyValid, Inv, TypeInv, WellShaped, ReadsHold
  <2>2. /\ viewingStatus' = [viewingStatus EXCEPT ![req[r].v] = "scheduled"]
        /\ Continue(r, On("verified", req[r].v))
        /\ slotStatus' = slotStatus /\ currentBookings' = currentBookings
    BY <1>6 DEF VerifyValid, slotVars
  <2>3. QED
    BY <1>5, <2>1, <2>2
<1>7. ASSUME NEW r \in Requests, MarkCommit(r) PROVE Inv'
  <2>1. /\ req[r].op \in {"no_show", "completed"} /\ req[r].v # NoViewing
        /\ SlotOf[req[r].v] \notin contended => viewingStatus[req[r].v] = "scheduled"
    BY <1>7 DEF MarkCommit, Inv, TypeInv, WellShaped, ReadsHold
  <2>2. /\ viewingStatus' = [viewingStatus EXCEPT ![req[r].v] = req[r].op]
        /\ Continue(r, Idle)
        /\ slotStatus' = slotStatus /\ currentBookings' = currentBookings
    BY <1>7 DEF MarkCommit, slotVars
  <2>3. QED
    BY <1>5, <2>1, <2>2
<1>8. ASSUME NEW r \in Requests, CancelCommit(r) PROVE Inv'
  <2>1. req[r].op = "cancel" /\ req[r].v # NoViewing
    BY <1>8 DEF CancelCommit, Inv, TypeInv, WellShaped
  <2>2. PICK v \in Viewings, s \in Slots :
          /\ v = req[r].v /\ s = SlotOf[v] /\ {s} \subseteq Touched(req[r])
          /\ Touched(Idle) = {} /\ viewingStatus[v] # "none"
    BY <2>1, OnViewing DEF Inv, FreshBookings
  <2> DEFINE n == currentBookings[s]
  <2>3. /\ Continue(r, Idle)
        /\ viewingStatus'[v] = "cancelled"
        /\ \A x \in Viewings \ {v} : viewingStatus'[x] = viewingStatus[x]
        /\ currentBookings'[s] = n - 1 /\ slotStatus'[s] = req[r].newStatus
        /\ \A x \in Slots \ {s} : /\ slotStatus'[x] = slotStatus[x]
                                  /\ currentBookings'[x] = currentBookings[x]
    BY <1>8, <2>2 DEF CancelCommit, Inv, TypeInv, TypeOK
  <2>4. ASSUME s \notin contended
        PROVE  /\ currentBookings'[s] = Cardinality(LiveOn(s)')
               /\ slotStatus'[s] # "cancelled"
               /\ slotStatus'[s] = ComputeSlotStatus(s, currentBookings'[s])
    <3>1. n = Cardinality(LiveOn(s)) /\ n \in Nat
      BY <2>2, <2>4, LiveFinite DEF Inv, SlotAccounting
    <3>2. /\ viewingStatus[v] \in {"pending_otp", "scheduled"}
          /\ req[r].newStatus = ComputeSlotStatus(s, n - 1)
      BY <2>1, <2>2, <2>4 DEF Inv, ReadsHold
    <3>3. LiveOn(s)' = LiveOn(s) \ {v} /\ v \in LiveOn(s)
      BY <2>2, <2>3, <3>2 DEF LiveOn, Live
    <3>4. Cardinality(LiveOn(s)') = n - 1
      <4>1. Cardinality(LiveOn(s) \ {v}) = Cardinality(LiveOn(s)) - 1
        BY <3>3, LiveFinite, FS_RemoveElement
      <4>2. QED
        BY <3>1, <3>3, <4>1
    <3>5. QED
      BY <2>3, <3>2, <3>4 DEF ComputeSlotStatus
  <2> HIDE DEF n
  <2>5. /\ \A x \in Viewings : SlotOf[x] # s => viewingStatus'[x] = viewingStatus[x]
        /\ \A x \in Viewings : viewingStatus[x] # "none" => viewingStatus'[x] # "none"
        /\ \A x \in Viewings : viewingStatus[x] = "none" => viewingStatus'[x] = "none"
    BY <2>2, <2>3
  <2>6. QED
    BY <1>1, <2>2, <2>3, <2>4, <2>5, IdleShaped, OneRowInv
<1>9. ASSUME NEW r \in Requests, SlotCancelViewings(r) PROVE Inv'
  <2> DEFINE found(b) == {v \in Viewings : SlotOf[v] \in b /\ Live(v)}
             state(b) == [req[r] EXCEPT !.batch = b, !.hit = found(b)]
             batches == IF req[r].op = "cascade"
                        THEN {{s} : s \in req[r].todo} ELSE {req[r].todo}
  <2>1. PICK b \in batches : Continue(r, state(b))
    BY <1>9, Zenon DEF SlotCancelViewings
  <2>2. /\ viewingStatus' = viewingStatus /\ slotStatus' = slotStatus
        /\ currentBookings' = currentBookings
        /\ req[r].op \in {"cancelSlots", "cascade"}
    BY <1>9 DEF SlotCancelViewings, rows, viewingVars, slotVars
  <2>3. req[r] \in RequestStates /\ WellShaped(req[r]) /\ req[r].v = NoViewing
    BY <2>2 DEF Inv, TypeInv, WellShaped
  <2>4. /\ state(b).op = req[r].op /\ state(b).v = NoViewing
        /\ state(b).todo = req[r].todo /\ state(b).batch = b /\ state(b).hit = found(b)
    BY <2>3 DEF RequestStates
  <2>5. WellShaped(state(b))
    <3>1. req'[r] = state(b)
      BY <2>1, <2>3 DEF Continue, Inv, TypeInv, TypeOK
    <3>2. QED
      BY <1>1, <3>1 DEF TypeInv
  <2>6. \A v \in Viewings : SlotOf[v] \in state(b).batch /\ Live(v)' => v \in state(b).hit
    BY <2>2, <2>4 DEF Live
  <2>7. Touched(state(b)) \subseteq Touched(req[r])
    BY <2>3, <2>4 DEF Touched
  <2> HIDE DEF found, state
  <2>8. QED
    BY <1>1, <2>1, <2>2, <2>3, <2>4, <2>5, <2>6, <2>7, WriteInv, {} \in SUBSET Slots
<1>10. ASSUME NEW r \in Requests, SlotCancelCommit(r) PROVE Inv'
  <2> DEFINE left == req[r].todo \ req[r].batch
             state == IF left = {} THEN Idle
                      ELSE [req[r] EXCEPT !.todo = left, !.batch = {}, !.hit = {}]
             W == req[r].batch
  <2>1. /\ Continue(r, state) /\ W # {}
        /\ viewingStatus' = [v \in Viewings |->
             IF v \in req[r].hit THEN "cancelled" ELSE viewingStatus[v]]
        /\ slotStatus' = [s \in Slots |->
             IF s \in W THEN "cancelled" ELSE slotStatus[s]]
        /\ currentBookings' = [s \in Slots |->
             IF s \in W THEN 0 ELSE currentBookings[s]]
    BY <1>10 DEF SlotCancelCommit
  <2>2. req[r] \in RequestStates /\ WellShaped(req[r])
    BY DEF Inv, TypeInv, WellShaped
  <2>3. /\ req[r].v = NoViewing /\ req[r].op \in {"cancelSlots", "cascade"}
        /\ W \subseteq Touched(req[r]) /\ Touched(req[r]) = req[r].todo
        /\ W \in SUBSET Slots /\ \A v \in req[r].hit : SlotOf[v] \in W
    BY <2>1, <2>2 DEF WellShaped, Touched, RequestStates
  <2>4. /\ WellShaped(state) /\ state.batch = {} /\ state.v = NoViewing
        /\ state.op \in {"idle", "cancelSlots", "cascade"}
        /\ Touched(state) \subseteq Touched(req[r])
    <3>1. WellShaped(state)
      <4>1. req'[r] = state
        BY <2>1 DEF Continue, Inv, TypeInv, TypeOK
      <4>2. QED
        BY <1>1, <4>1 DEF TypeInv
    <3>2. CASE left = {}
      BY <3>1, <3>2, <2>3, IdleShaped DEF Touched
    <3>3. CASE left # {}
      BY <3>1, <3>3, <2>2, <2>3 DEF Touched, RequestStates
    <3>4. QED
      BY <3>2, <3>3
  <2>5. ASSUME NEW s \in W \ contended
        PROVE  /\ currentBookings'[s] = Cardinality(LiveOn(s)')
               /\ slotStatus'[s] = "cancelled" /\ LiveOn(s)' = {}
    <3>1. \A v \in Viewings : SlotOf[v] = s /\ Live(v) => v \in req[r].hit
      BY <2>5 DEF Inv, ReadsHold
    <3>2. LiveOn(s)' = {}
      BY <2>1, <3>1 DEF LiveOn, Live
    <3>3. QED
      BY <2>1, <2>3, <2>5, <3>2, FS_EmptySet
  <2>6. /\ \A v \in Viewings : SlotOf[v] \notin W => viewingStatus'[v] = viewingStatus[v]
        /\ \A v \in Viewings : viewingStatus[v] # "none" => viewingStatus'[v] # "none"
        /\ \A v \in Viewings : viewingStatus[v] = "none" => viewingStatus'[v] = "none"
        /\ \A s \in Slots \ W : /\ slotStatus'[s] = slotStatus[s]
                                /\ currentBookings'[s] = currentBookings[s]
    BY <2>1, <2>3 DEF Inv, TypeInv, HitsExist
  <2> HIDE DEF left, state, W
  <2>7. QED
    BY <1>1, <2>1, <2>3, <2>4, <2>5, <2>6, WriteInv
<1>11. CASE UNCHANGED vars
  BY SMTT(30), <1>1, <1>11
     DEF vars, Inv, FreshBookings, Exclusive, ReadsHold, SlotAccounting, Live, LiveOn,
         Touched, ComputeSlotStatus, rows, viewingVars, slotVars
<1>12. QED
  BY <1>2, <1>3, <1>4, <1>6, <1>7, <1>8, <1>9, <1>10, <1>11 DEF Next

\* On every slot no two requests ever worked on at once, the counter and the
\* status of the slot row are those the viewing rows determine.
THEOREM AccountingKept == Spec => []SlotAccounting
<1>1. Inv => SlotAccounting
  BY DEF Inv
<1>2. QED
  BY InvInit, InvStep, <1>1, PTL DEF Spec

\* Such a slot is never overbooked.
THEOREM NeverOverbooked == Spec => []NoOverbooking
<1>1. SlotAccounting /\ CounterWithinCapacity => NoOverbooking
  BY DEF SlotAccounting, CounterWithinCapacity, NoOverbooking
<1>2. QED
  BY AccountingKept, CapacityKept, <1>1, PTL

\* Neither such a slot nor a viewing of it ever leaves the cancelled status.
THEOREM CancelledStays == Spec => CancelledIsFinal
<1> DEFINE Final(s) == /\ slotStatus[s] = "cancelled" => slotStatus'[s] = "cancelled"
                       /\ \A v \in Viewings :
                            (SlotOf[v] = s /\ viewingStatus[v] = "cancelled")
                              => viewingStatus'[v] = "cancelled"
           Step == \A s \in Slots \ contended' : Final(s)
<1> USE SlotAssumption
<1>1. Inv /\ [Next]_vars => [Step]_vars
  <2> SUFFICES ASSUME Inv, Next, NEW s \in Slots \ contended' PROVE Final(s)
    OBVIOUS
  <2>1. ASSUME viewingStatus' = viewingStatus, slotStatus' = slotStatus
        PROVE  Final(s)
    BY <2>1
  <2>2. ASSUME NEW r \in Requests,
               \/ Start(r) \/ VerifyInvalid(r) \/ VerifyViewer(r)
               \/ SlotCancelViewings(r) \/ Fail(r)
        PROVE  Final(s)
    BY <2>1, <2>2
       DEF Start, BookStart, VerifyStart, CancelStart, MarkStart, CancelSlotsStart,
           CascadeStart, Begin, VerifyInvalid, VerifyViewer, SlotCancelViewings, Fail,
           rows, viewingVars, slotVars
  <2>3. ASSUME NEW r \in Requests, BookCreate(r) PROVE Final(s)
    BY <2>3 DEF BookCreate, CanBook, Inv, TypeInv, TypeOK, FreshBookings
  <2>4. ASSUME NEW r \in Requests, VerifyValid(r) PROVE Final(s)
    BY <2>4
       DEF VerifyValid, Continue, slotVars, Inv, TypeInv, TypeOK, WellShaped, ReadsHold
  <2>5. ASSUME NEW r \in Requests, MarkCommit(r) PROVE Final(s)
    BY <2>5
       DEF MarkCommit, Continue, slotVars, Inv, TypeInv, TypeOK, WellShaped, ReadsHold
  <2>6. ASSUME NEW r \in Requests, CancelCommit(r) PROVE Final(s)
    <3>1. /\ req[r].op = "cancel" /\ req[r].v # NoViewing /\ contended' = contended
          /\ slotStatus' = [slotStatus EXCEPT ![SlotOf[req[r].v]] = req[r].newStatus]
          /\ viewingStatus' = [viewingStatus EXCEPT ![req[r].v] = "cancelled"]
      BY <2>6 DEF CancelCommit, Continue, Inv, TypeInv, WellShaped
    <3>2. req[r].v \in Viewings
      BY <3>1, OnViewing
    <3>3. CASE SlotOf[req[r].v] = s
      <4>1. req[r].v \in LiveOn(s)
        BY <3>1, <3>2, <3>3 DEF Inv, ReadsHold, LiveOn, Live
      <4>2. slotStatus[s] # "cancelled"
        BY <3>1, <4>1 DEF Inv, SlotAccounting
      <4>3. QED
        BY <3>1, <4>2 DEF Inv, TypeInv, TypeOK
    <3>4. CASE SlotOf[req[r].v] # s
      BY <3>1, <3>4 DEF Inv, TypeInv, TypeOK
    <3>5. QED
      BY <3>3, <3>4
  <2>7. ASSUME NEW r \in Requests, SlotCancelCommit(r) PROVE Final(s)
    BY <2>7 DEF SlotCancelCommit
  <2>8. QED
    BY <2>2, <2>3, <2>4, <2>5, <2>6, <2>7 DEF Next
<1>2. QED
  BY InvInit, InvStep, <1>1, PTL DEF Spec, CancelledIsFinal

\* The four parts of a sound booking together.
THEOREM SeatsAreSoundKept == Spec => []SeatsAreSound
<1>1. Spec => [](TypeOK /\ CounterWithinCapacity /\ SlotAccounting /\ NoOverbooking)
  BY TypeCorrect, CapacityKept, AccountingKept, NeverOverbooked, PTL
<1>2. QED
  BY <1>1 DEF SeatsAreSound

-----------------------------------------------------------------------------
(* The daily limit of a phone number.                                      *)

\* No two requests worked on the phone number or on a slot of it at once.
Undisturbed(w) ==
  w \notin contended /\ \A v \in Viewings : ViewerOf[v] = w => SlotOf[v] \notin contended

Books(r, w) == req[r].op = "book" /\ ViewerOf[req[r].v] = w

\* A booking on its way still finds the number below its limit, and is the only one.
Daily(w) ==
  /\ Cardinality(LiveOf(w)) <= BookingsPerDay
  /\ \A r \in Requests : Books(r, w) =>
       /\ Cardinality(LiveOf(w)) < BookingsPerDay
       /\ \A q \in Requests \ {r} : ~Books(q, w)

DailyInv == Inv /\ \A w \in Viewers : Undisturbed(w) => Daily(w)

LEMMA LiveOfFinite ==
  ASSUME NEW w \in Viewers
  PROVE  IsFiniteSet(LiveOf(w)) /\ Cardinality(LiveOf(w)) \in Nat
  BY SlotAssumption, FS_Subset, FS_CardinalityType DEF LiveOf

LEMMA DailyInit == Init => DailyInv
<1> SUFFICES ASSUME Init, NEW w \in Viewers PROVE Daily(w)
  BY InvInit DEF DailyInv
<1>1. LiveOf(w) = {} /\ Cardinality(LiveOf(w)) = 0
  BY FS_EmptySet DEF Init, LiveOf, Live
<1>2. \A r \in Requests : ~Books(r, w)
  BY IdleShaped DEF Init, Books
<1>3. QED
  BY <1>1, <1>2, SlotAssumption DEF Daily

\* A step after which the number has no viewing more and no booking more.
LEMMA DailyShrinks ==
  ASSUME NEW w \in Viewers, Daily(w), LiveOf(w)' \subseteq LiveOf(w),
         \A q \in Requests : Books(q, w)' => Books(q, w)
  PROVE  Daily(w)'
<1>1. Cardinality(LiveOf(w)') <= Cardinality(LiveOf(w))
  BY LiveOfFinite, FS_Subset
<1>2. LiveOf(w)' \in SUBSET LiveOf(w) /\ Cardinality(LiveOf(w)') \in Nat
  BY LiveOfFinite, FS_Subset, FS_CardinalityType
<1>3. Cardinality(LiveOf(w)) \in Nat /\ BookingsPerDay \in Nat
  BY LiveOfFinite, SlotAssumption
<1>4. QED
  BY <1>1, <1>2, <1>3 DEF Daily

LEMMA DailyStart ==
  ASSUME Inv, NEW w \in Viewers, w \notin contended', Daily(w), NEW r \in Requests, Start(r)
  PROVE  Daily(w)'
<1> USE SlotAssumption
<1>1. TypeInv
  BY DEF Inv
<1>2. ASSUME NEW state, Begin(r, state), state.op # "book" PROVE Daily(w)'
  <2>1. /\ req'[r] = state /\ \A q \in Requests \ {r} : req'[q] = req[q]
        /\ viewingStatus' = viewingStatus
    BY <1>1, <1>2 DEF Begin, TypeInv, TypeOK, rows, viewingVars
  <2>2. LiveOf(w)' = LiveOf(w)
    BY <2>1 DEF LiveOf, Live
  <2>3. \A q \in Requests : Books(q, w)' => Books(q, w)
    BY <1>2, <2>1 DEF Books
  <2>4. QED
    BY <2>2, <2>3, DailyShrinks
<1>3. ASSUME NEW v \in Viewings, BookStart(r, v) PROVE Daily(w)'
  <2> DEFINE known == phoneVerified[ViewerOf[v]]
             state == [On("book", v) EXCEPT !.returning = known]
  <2>1. state.op = "book" /\ state.v = v
    BY OnShaped DEF RequestStates
  <2>2. Begin(r, state) /\ UnderDailyLimit(ViewerOf[v])
    BY <1>3 DEF BookStart
  <2> HIDE DEF state
  <2>3. /\ req'[r] = state /\ \A q \in Requests \ {r} : req'[q] = req[q]
        /\ viewingStatus' = viewingStatus
    BY <1>1, <2>2 DEF Begin, TypeInv, TypeOK, rows, viewingVars
  <2>4. LiveOf(w)' = LiveOf(w)
    BY <2>3 DEF LiveOf, Live
  <2>5. CASE ViewerOf[v] # w
    BY <2>1, <2>3, <2>4, <2>5, DailyShrinks DEF Books
  <2>6. CASE ViewerOf[v] = w
    <3>1. \A q \in Requests \ {r} : ~Books(q, w)
      <4>1. w \in Touched(state)
        BY <2>1, <2>6 DEF Touched
      <4>2. ASSUME NEW q \in Requests \ {r}, Books(q, w) PROVE w \in Touched(req[q])
        BY <1>1, <4>2 DEF Books, Touched, TypeInv, WellShaped
      <4>3. QED
        BY <2>2, <4>1, <4>2 DEF Begin
    <3>2. \A q \in Requests \ {r} : ~Books(q, w)'
      BY <2>3, <3>1 DEF Books
    <3>3. Cardinality(LiveOf(w)') < BookingsPerDay
      BY <2>2, <2>4, <2>6 DEF UnderDailyLimit
    <3>4. Cardinality(LiveOf(w)') <= BookingsPerDay
      BY <2>4 DEF Daily
    <3>5. QED
      BY <3>2, <3>3, <3>4 DEF Daily
  <2>7. QED
    BY <2>5, <2>6
<1>4. ASSUME NEW v \in Viewings, VerifyStart(r, v) PROVE Daily(w)'
  <2> DEFINE state == [On("verify", v) EXCEPT !.attempts = otpAttempts[v]]
  <2>1. Begin(r, state) /\ state.op = "verify"
    BY <1>4, OnShaped DEF VerifyStart, RequestStates
  <2> HIDE DEF state
  <2>2. QED
    BY <1>2, <2>1
<1>5. ASSUME NEW v \in Viewings, CancelStart(r, v) PROVE Daily(w)'
  <2> DEFINE st == ComputeSlotStatus(SlotOf[v], currentBookings[SlotOf[v]] - 1)
             state == [On("cancel", v) EXCEPT !.newStatus = st]
  <2>1. Begin(r, state)
    BY <1>5 DEF CancelStart
  <2> HIDE DEF st
  <2>2. state.op = "cancel"
    BY OnShaped DEF RequestStates
  <2> HIDE DEF state
  <2>3. QED
    BY <1>2, <2>1, <2>2
<1>6. ASSUME NEW v \in Viewings, NEW outcome \in {"no_show", "completed"},
             MarkStart(r, v, outcome)
      PROVE  Daily(w)'
  <2>1. Begin(r, On(outcome, v)) /\ On(outcome, v).op # "book"
    BY <1>6, OnShaped DEF MarkStart
  <2>2. QED
    BY <1>2, <2>1
<1>7. ASSUME NEW chosen \in SUBSET Slots, CancelSlotsStart(r, chosen) PROVE Daily(w)'
  <2> DEFINE state == [On("cancelSlots", NoViewing) EXCEPT !.todo = chosen]
  <2>1. Begin(r, state) /\ state.op = "cancelSlots"
    BY <1>7, OnShaped DEF CancelSlotsStart, RequestStates
  <2> HIDE DEF state
  <2>2. QED
    BY <1>2, <2>1
<1>8. ASSUME CascadeStart(r) PROVE Daily(w)'
  <2> DEFINE active == {s \in Slots : slotStatus[s] # "cancelled"}
             state == [On("cascade", NoViewing) EXCEPT !.todo = active]
  <2>1. Begin(r, state)
    BY <1>8 DEF CascadeStart
  <2>2. state.op = "cascade"
    BY OnShaped DEF RequestStates
  <2> HIDE DEF state
  <2>3. QED
    BY <1>2, <2>1, <2>2
<1>9. QED
  BY <1>3, <1>4, <1>5, <1>6, <1>7, <1>8 DEF Start

\* No write begins a booking.
LEMMA WritesBookNothing ==
  ASSUME TypeInv, NEW r \in Requests, NEW w \in Viewers,
         \/ BookCreate(r) \/ VerifyInvalid(r) \/ VerifyValid(r) \/ VerifyViewer(r)
         \/ CancelCommit(r) \/ MarkCommit(r) \/ SlotCancelViewings(r)
         \/ SlotCancelCommit(r) \/ Fail(r)
  PROVE  /\ contended' = contended /\ ~Books(r, w)'
         /\ \A q \in Requests : Books(q, w)' => Books(q, w)
<1> USE SlotAssumption
<1>1. req[r] \in RequestStates /\ req[r].v \in Viewings \cup {NoViewing}
  BY DEF TypeInv, TypeOK, RequestStates
<1>2. \E state : Continue(r, state) /\ state.op # "book"
  <2>1. CASE \/ BookCreate(r) \/ VerifyInvalid(r) \/ VerifyViewer(r)
             \/ CancelCommit(r) \/ MarkCommit(r) \/ Fail(r)
    BY <2>1, IdleShaped
       DEF BookCreate, VerifyInvalid, VerifyViewer, CancelCommit, MarkCommit, Fail
  <2>2. CASE VerifyValid(r)
    <3>1. Continue(r, On("verified", req[r].v)) /\ On("verified", req[r].v).op = "verified"
      BY <1>1, <2>2, OnShaped DEF VerifyValid
    <3>2. QED
      BY <3>1
  <2>3. CASE SlotCancelViewings(r)
    <3>1. req[r].op \in {"cancelSlots", "cascade"}
      BY <2>3 DEF SlotCancelViewings
    <3>2. PICK b, found : Continue(r, [req[r] EXCEPT !.batch = b, !.hit = found])
      BY <2>3, Zenon DEF SlotCancelViewings
    <3>3. [req[r] EXCEPT !.batch = b, !.hit = found].op = req[r].op
      BY <1>1 DEF RequestStates
    <3>4. QED
      BY <3>1, <3>2, <3>3
  <2>4. CASE SlotCancelCommit(r)
    <3> DEFINE left == req[r].todo \ req[r].batch
               state == IF left = {} THEN Idle
                        ELSE [req[r] EXCEPT !.todo = left, !.batch = {}, !.hit = {}]
    <3>1. Continue(r, state) /\ req[r].batch # {}
      BY <2>4 DEF SlotCancelCommit
    <3>2. req[r].op # "book"
      BY <3>1 DEF TypeInv, WellShaped
    <3>3. state.op # "book"
      <4>1. CASE left = {}
        BY <4>1, IdleShaped
      <4>2. CASE left # {}
        BY <1>1, <3>2, <4>2 DEF RequestStates
      <4>3. QED
        BY <4>1, <4>2
    <3> HIDE DEF state
    <3>4. QED
      BY <3>1, <3>3
  <2>5. QED
    BY <2>1, <2>2, <2>3, <2>4
<1>3. QED
  BY <1>2 DEF Continue, Books, TypeInv, TypeOK

LEMMA DailyWrite ==
  ASSUME Inv, NEW w \in Viewers, Undisturbed(w), Daily(w), NEW r \in Requests,
         \/ BookCreate(r) \/ VerifyInvalid(r) \/ VerifyValid(r) \/ VerifyViewer(r)
         \/ CancelCommit(r) \/ MarkCommit(r) \/ SlotCancelViewings(r)
         \/ SlotCancelCommit(r) \/ Fail(r)
  PROVE  Daily(w)'
<1> USE SlotAssumption
<1>1. /\ ~Books(r, w)'
      /\ \A q \in Requests : Books(q, w)' => Books(q, w)
  BY WritesBookNothing DEF Inv
<1>2. viewingStatus \in [Viewings -> ViewingStatuses]
  BY DEF Inv, TypeInv, TypeOK
<1>3. CASE BookCreate(r)
  <2> DEFINE v == req[r].v
  <2>1. req[r].op = "book" /\ v \in Viewings
    BY <1>3, OnViewing DEF BookCreate, Inv, TypeInv, WellShaped
  <2>2. \A x \in Viewings \ {v} : viewingStatus'[x] = viewingStatus[x]
    BY <1>2, <1>3, <2>1 DEF BookCreate
  <2>3. CASE ViewerOf[v] # w
    <3>1. LiveOf(w)' \subseteq LiveOf(w)
      BY <2>2, <2>3 DEF LiveOf, Live
    <3>2. QED
      BY <1>1, <3>1, DailyShrinks
  <2>4. CASE ViewerOf[v] = w
    <3>1. /\ Cardinality(LiveOf(w)) < BookingsPerDay
          /\ \A q \in Requests \ {r} : ~Books(q, w)
      BY <2>1, <2>4 DEF Daily, Books
    <3>2. LiveOf(w)' \in SUBSET (LiveOf(w) \cup {v})
      BY <2>2 DEF LiveOf, Live
    <3>3. /\ IsFiniteSet(LiveOf(w) \cup {v})
          /\ Cardinality(LiveOf(w) \cup {v}) <= Cardinality(LiveOf(w)) + 1
      <4>1. IsFiniteSet(LiveOf(w)) /\ Cardinality(LiveOf(w)) \in Nat
        BY LiveOfFinite
      <4> HIDE DEF v
      <4>2. /\ IsFiniteSet(LiveOf(w) \cup {v})
            /\ Cardinality(LiveOf(w) \cup {v}) =
                 IF v \in LiveOf(w) THEN Cardinality(LiveOf(w)) ELSE Cardinality(LiveOf(w)) + 1
        BY <4>1, FS_AddElement, Zenon
      <4>3. QED
        BY <4>1, <4>2
    <3>4. Cardinality(LiveOf(w)') <= Cardinality(LiveOf(w) \cup {v})
      BY <3>2, <3>3, FS_Subset
    <3>5. /\ Cardinality(LiveOf(w)') \in Nat /\ Cardinality(LiveOf(w)) \in Nat
          /\ Cardinality(LiveOf(w) \cup {v}) \in Nat /\ BookingsPerDay \in Nat
      BY <3>2, <3>3, LiveOfFinite, FS_Subset, FS_CardinalityType
    <3>6. Cardinality(LiveOf(w)') <= BookingsPerDay
      BY <3>1, <3>3, <3>4, <3>5
    <3>7. \A q \in Requests : ~Books(q, w)'
      BY <1>1, <3>1
    <3>8. QED
      BY <3>6, <3>7 DEF Daily
  <2>5. QED
    BY <2>3, <2>4
<1>4. CASE VerifyValid(r) \/ MarkCommit(r)
  <2> DEFINE v == req[r].v
  <2>1. /\ v \in Viewings /\ SlotOf[v] \notin contended => Live(v)
        /\ \A x \in Viewings \ {v} : viewingStatus'[x] = viewingStatus[x]
    <3>1. req[r].op \in {"verify", "no_show", "completed"} /\ v # NoViewing
      BY <1>4 DEF VerifyValid, MarkCommit, Inv, TypeInv, WellShaped
    <3>2. v \in Viewings
      BY <3>1, OnViewing
    <3>3. SlotOf[v] \notin contended => Live(v)
      BY <3>1 DEF Inv, ReadsHold, Live
    <3>4. QED
      BY <1>2, <1>4, <3>2, <3>3 DEF VerifyValid, MarkCommit
  <2>2. LiveOf(w)' \subseteq LiveOf(w)
    BY <2>1 DEF LiveOf, Live, Undisturbed
  <2>3. QED
    BY <1>1, <2>2, DailyShrinks
<1>5. CASE \/ VerifyInvalid(r) \/ VerifyViewer(r) \/ CancelCommit(r)
           \/ SlotCancelViewings(r) \/ SlotCancelCommit(r) \/ Fail(r)
  <2>1. \A x \in Viewings : viewingStatus'[x] \in {viewingStatus[x], "cancelled"}
    BY <1>2, <1>5 DEF VerifyInvalid, VerifyViewer, CancelCommit, SlotCancelViewings,
       SlotCancelCommit, Fail, rows, viewingVars
  <2>2. LiveOf(w)' \subseteq LiveOf(w)
    BY <2>1 DEF LiveOf, Live
  <2>3. QED
    BY <1>1, <2>2, DailyShrinks
<1>6. QED
  BY <1>3, <1>4, <1>5

LEMMA DailyStep == DailyInv /\ [Next]_vars => DailyInv'
<1> SUFFICES ASSUME DailyInv, [Next]_vars, NEW w \in Viewers, Undisturbed(w)'
             PROVE  Daily(w)'
  BY InvStep DEF DailyInv
<1>1. TypeInv /\ Inv
  BY DEF DailyInv, Inv
<1>2. ASSUME NEW r \in Requests, Start(r) PROVE contended \subseteq contended'
  BY <1>2 DEF Start, BookStart, VerifyStart, CancelStart, MarkStart, CancelSlotsStart,
     CascadeStart, Begin
<1>3. ASSUME NEW r \in Requests,
             \/ BookCreate(r) \/ VerifyInvalid(r) \/ VerifyValid(r) \/ VerifyViewer(r)
             \/ CancelCommit(r) \/ MarkCommit(r) \/ SlotCancelViewings(r)
             \/ SlotCancelCommit(r) \/ Fail(r)
      PROVE  contended' = contended
  BY <1>1, <1>3, WritesBookNothing
<1>4. contended \subseteq contended'
  BY <1>2, <1>3 DEF Next, vars
<1>5. Undisturbed(w) /\ Daily(w)
  <2>1. Undisturbed(w)
    BY <1>4 DEF Undisturbed
  <2>2. QED
    BY <2>1 DEF DailyInv
<1>6. ASSUME NEW r \in Requests, Start(r) PROVE Daily(w)'
  BY <1>1, <1>5, <1>6, DailyStart DEF Undisturbed
<1>7. CASE UNCHANGED vars
  BY <1>5, <1>7 DEF vars, rows, viewingVars, Daily, Books, LiveOf, Live
<1>8. QED
  BY <1>1, <1>5, <1>6, <1>7, DailyWrite DEF Next

\* A phone number holds no more live viewings of the day than its limit, where no
\* two requests worked on it or on its slots at once.
THEOREM DailyLimitKept == Spec => []DailyLimit
<1>1. DailyInv => DailyLimit
  BY DEF DailyInv, Daily, Undisturbed, DailyLimit
<1>2. QED
  BY DailyInit, DailyStep, <1>1, PTL DEF Spec
=============================================================================
