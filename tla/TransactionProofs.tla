------------------------- MODULE TransactionProofs -------------------------
(***************************************************************************)
(* Proofs about Transaction, for any number of transactions, properties,   *)
(* listings and requests.                                                  *)
(***************************************************************************)
EXTENDS Transaction, TLAPS

Ops == {"idle", "gate", "approval", "update", "hdb", "otp", "advanceOtp",
        "deadline", "expire", "expiring", "portals", "slots", "draft",
        "withdraw", "close", "fall"}

Values == Statuses \cup HdbStatuses \cup OtpStatuses

\* The values a request carries fit what its next steps write.
WellFormed(q) ==
  /\ q.op = "idle" => q = Idle
  /\ q.op # "idle" => q.tx \in Transactions
  /\ q.op \in {"gate", "approval", "update"} => Forward(q.seen, q.next)
  /\ q.op = "approval" => q.next = "completed"
  /\ q.op = "hdb" => q.next \in HdbStatuses
  /\ q.op = "otp" => q.next = "prepared"
  /\ q.op \in {"advanceOtp", "expire", "expiring"} => q.next \in OtpStatuses \ {"none"}
  /\ q.op \in {"expire", "expiring"} => q.next = "expired"

TypeInv == TypeOK /\ \A r \in Requests : WellFormed(req[r])

-----------------------------------------------------------------------------
(* The states requests take.                                               *)

LEMMA ForwardStatuses ==
  ASSUME NEW s, NEW n, Forward(s, n)
  PROVE  /\ s \in {"option_issued", "option_exercised", "completing"}
         /\ n \in {"option_exercised", "completing", "completed"}
  BY DEF Forward, TRANSACTION_STATUS_ORDER

LEMMA IdleFormed ==
  /\ Idle \in RequestStates /\ WellFormed(Idle)
  /\ Idle.op = "idle" /\ Idle.tx = NoTransaction
<1>1. Idle.op = "idle" /\ Idle.tx = NoTransaction
  BY DEF Idle
<1>2. Idle \in RequestStates
  BY DEF Idle, RequestStates, Statuses, Terminal
<1>3. QED
  BY <1>1, <1>2 DEF WellFormed

\* Only the request that takes the step changes its state.
LEMMA Moves ==
  ASSUME TypeOK, NEW r \in Requests, NEW state \in RequestStates,
         req' = [req EXCEPT ![r] = state]
  PROVE  /\ req' \in [Requests -> RequestStates]
         /\ req'[r] = state
         /\ \A p \in Requests \ {r} : req'[p] = req[p]
  BY DEF TypeOK

LEMMA FinishMoves ==
  ASSUME TypeOK, NEW r \in Requests, req' = [req EXCEPT ![r] = Idle]
  PROVE  /\ req' \in [Requests -> RequestStates]
         /\ req'[r] = Idle
         /\ \A p \in Requests \ {r} : req'[p] = req[p]
  BY IdleFormed, Moves

LEMMA ContinueMoves ==
  ASSUME TypeOK, NEW r \in Requests, NEW op \in Ops, Continue(r, op)
  PROVE  /\ req' \in [Requests -> RequestStates]
         /\ req'[r].op = op /\ req'[r].tx = req[r].tx
         /\ req'[r].seen = req[r].seen /\ req'[r].next = req[r].next
         /\ \A p \in Requests \ {r} : req'[p] = req[p]
<1> DEFINE state == [req[r] EXCEPT !.op = op]
<1>1. req[r] \in RequestStates
  BY DEF TypeOK
<1>2. /\ state \in RequestStates /\ state.op = op /\ state.tx = req[r].tx
      /\ state.seen = req[r].seen /\ state.next = req[r].next
  BY <1>1 DEF RequestStates, Ops
<1>3. req' = [req EXCEPT ![r] = state]
  BY DEF Continue
<1> HIDE DEF state
<1>4. QED
  BY <1>2, <1>3, Moves

LEMMA BeginMoves ==
  ASSUME TypeOK, NEW r \in Requests, NEW t \in Transactions, NEW op \in Ops,
         NEW next \in Values, Begin(r, t, op, next)
  PROVE  /\ req' \in [Requests -> RequestStates]
         /\ req[r] = Idle
         /\ req'[r].op = op /\ req'[r].tx = t
         /\ op = "gate" => req'[r].seen = status[t]
         /\ req'[r].next = next
         /\ \A p \in Requests \ {r} : req'[p] = req[p]
         /\ contended' \subseteq Transactions /\ abandoned' = abandoned
<1>1. status[t] \in Statuses
  BY DEF TypeOK
<1>2. /\ On(op, t, next) \in RequestStates
      /\ On(op, t, next).op = op /\ On(op, t, next).tx = t
      /\ op = "gate" => On(op, t, next).seen = status[t]
      /\ On(op, t, next).next = next
  BY <1>1 DEF On, RequestStates, Ops, Values, Statuses
<1>3. /\ req[r] = Idle /\ req' = [req EXCEPT ![r] = On(op, t, next)]
      /\ contended' \subseteq Transactions /\ abandoned' = abandoned
  BY DEF Begin, Contend, TypeOK
<1>4. QED
  BY <1>2, <1>3, Moves

LEMMA OnceMoves ==
  ASSUME TypeOK, NEW r \in Requests, NEW t \in Transactions, Once(r, t)
  PROVE  req' = req /\ contended' \subseteq Transactions /\ abandoned' = abandoned
  BY DEF Once, Contend, TypeOK

\* The transaction of a request at work.
LEMMA AtWork ==
  ASSUME TypeInv, NEW r \in Requests, req[r].op # "idle"
  PROVE  req[r].tx \in Transactions
  BY DEF TypeInv, WellFormed

-----------------------------------------------------------------------------
(* Type correctness.                                                       *)

LEMMA TypeInvInit == Init => TypeInv
<1> SUFFICES ASSUME Init PROVE TypeInv
  OBVIOUS
<1>1. TypeOK
  BY IdleFormed DEF Init, TypeOK, Statuses, HdbStatuses, OtpStatuses
<1>2. \A r \in Requests : WellFormed(req[r])
  BY IdleFormed DEF Init
<1>3. QED
  BY <1>1, <1>2 DEF TypeInv

\* A step that leaves the other requests alone.
LEMMA TypeInvMove ==
  ASSUME TypeInv, NEW r \in Requests, TypeOK', WellFormed(req'[r]),
         \A p \in Requests \ {r} : req'[p] = req[p]
  PROVE  TypeInv'
<1>1. \A p \in Requests : WellFormed(req'[p])
  BY DEF TypeInv
<1>2. QED
  BY <1>1 DEF TypeInv, WellFormed

LEMMA TypeInvStart ==
  ASSUME TypeInv, NEW r \in Requests, NEW t \in Transactions, Start(r, t)
  PROVE  TypeInv'
<1>1. TypeOK /\ WellFormed(req[r])
  BY DEF TypeInv
<1>2. ASSUME \/ CreateTransaction(r, t) \/ RecordCounterpartyCdd(r, t) \/ ReviewOtp(r, t)
      PROVE  TypeInv'
  <2>1. req' = req /\ contended' \subseteq Transactions /\ abandoned' = abandoned
    BY <1>1, <1>2, OnceMoves DEF CreateTransaction, RecordCounterpartyCdd, ReviewOtp
  <2>2. TypeOK'
    BY <1>1, <1>2, <2>1 DEF CreateTransaction, RecordCounterpartyCdd, ReviewOtp, TypeOK,
       Statuses, otpVars, flatVars, saleVars
  <2>3. QED
    BY <1>1, <2>1, <2>2, TypeInvMove
<1>3. ASSUME NEW op \in Ops, NEW next \in Values, Begin(r, t, op, next),
             UNCHANGED <<hdbApplicationStatus, exerciseDeadline, counterpartyCdd, retained,
                         otpVars, flatVars>>,
             status' \in [Transactions -> Statuses],
             \/ op = "gate" /\ Forward(status[t], next)
             \/ op = "hdb" /\ next \in HdbStatuses
             \/ op = "otp" /\ next = "prepared"
             \/ op = "advanceOtp" /\ next \in OtpStatuses \ {"none"}
             \/ op = "expire" /\ next = "expired"
             \/ op = "withdraw"
      PROVE  TypeInv'
  <2>1. /\ req' \in [Requests -> RequestStates]
        /\ req'[r].op = op /\ req'[r].tx = t
        /\ op = "gate" => req'[r].seen = status[t]
        /\ req'[r].next = next
        /\ \A p \in Requests \ {r} : req'[p] = req[p]
        /\ contended' \subseteq Transactions /\ abandoned' = abandoned
    BY <1>1, <1>3, BeginMoves
  <2>2. TypeOK'
    BY <1>1, <1>3, <2>1 DEF TypeOK, otpVars, flatVars
  <2>3. WellFormed(req'[r])
    BY <1>3, <2>1 DEF WellFormed, OtpStatuses
  <2>4. QED
    BY <2>1, <2>2, <2>3, TypeInvMove
<1>4. status \in [Transactions -> Statuses]
  BY <1>1 DEF TypeOK
<1>5. ASSUME NEW s \in Statuses, AdvanceStart(r, t, s) PROVE TypeInv'
  BY <1>3, <1>4, <1>5 DEF AdvanceStart, Ops, Values, saleVars
<1>6. ASSUME NEW h \in HdbStatuses, HdbStart(r, t, h) PROVE TypeInv'
  BY <1>3, <1>4, <1>6 DEF HdbStart, Ops, Values, saleVars
<1>7. CASE OtpStart(r, t)
  BY <1>3, <1>4, <1>7 DEF OtpStart, Ops, Values, OtpStatuses, LiveOtp, saleVars
<1>8. CASE AdvanceOtpStart(r, t)
  <2>1. PICK n \in OtpStatuses \ {"none"} : Begin(r, t, "advanceOtp", n)
    BY <1>8 DEF AdvanceOtpStart, OtpOrder, OtpStatuses, LiveOtp
  <2>2. QED
    BY <1>3, <1>4, <1>8, <2>1 DEF AdvanceOtpStart, Ops, Values, saleVars
<1>9. CASE MarkFallenThrough(r, t)
  <2>1. status' \in [Transactions -> Statuses]
    BY <1>4, <1>9 DEF MarkFallenThrough, Statuses, Terminal
  <2>2. QED
    BY <1>3, <1>9, <2>1 DEF MarkFallenThrough, Ops, Values, OtpStatuses
<1>10. CASE WithdrawConsent(r, t)
  BY <1>3, <1>4, <1>10 DEF WithdrawConsent, Ops, Values, Statuses, Terminal, saleVars
<1>11. QED
  BY <1>2, <1>5, <1>6, <1>7, <1>8, <1>9, <1>10 DEF Start

LEMMA TypeInvRequest ==
  ASSUME TypeInv, NEW r \in Requests, Step(r)
  PROVE  TypeInv'
<1>1. TypeOK /\ WellFormed(req[r])
  BY DEF TypeInv
<1>2. ASSUME NEW op \in Ops, Continue(r, op), req[r].op # "idle",
             op \in {"approval", "update"} => Forward(req[r].seen, req[r].next),
             op = "approval" => req[r].next = "completed",
             op \in {"expire", "expiring"} => req[r].next = "expired",
             op \notin {"idle", "gate", "hdb", "otp", "advanceOtp"},
             UNCHANGED <<status, hdbApplicationStatus, exerciseDeadline, counterpartyCdd,
                         agentReviewed>>,
             retained' \subseteq Transactions,
             otpStatus' \in [Transactions -> OtpStatuses],
             posted' \subseteq Listings, slotsOpen' \subseteq Properties,
             listed' \subseteq Properties
      PROVE  TypeInv'
  <2>1. /\ req' \in [Requests -> RequestStates]
        /\ req'[r].op = op /\ req'[r].tx = req[r].tx
        /\ req'[r].seen = req[r].seen /\ req'[r].next = req[r].next
        /\ \A p \in Requests \ {r} : req'[p] = req[p]
    BY <1>1, <1>2, ContinueMoves
  <2>2. TypeOK'
    BY <1>1, <1>2, <2>1 DEF TypeOK, Continue
  <2>3. WellFormed(req'[r])
    BY <1>1, <1>2, <2>1 DEF WellFormed, OtpStatuses
  <2>4. QED
    BY <2>1, <2>2, <2>3, TypeInvMove
<1>3. ASSUME req' = [req EXCEPT ![r] = Idle], TypeOK => TypeOK' PROVE TypeInv'
  BY <1>1, <1>3, IdleFormed, FinishMoves, TypeInvMove
<1>4. req[r].op # "idle" => req[r].tx \in Transactions
  BY <1>1 DEF WellFormed
<1>5. CASE CounterpartyGate(r)
  <2>1. PICK op \in {"approval", "update"} :
          Continue(r, op) /\ (op = "approval" => req[r].next = "completed")
    BY <1>5 DEF CounterpartyGate
  <2>2. QED
    BY <1>1, <1>2, <1>5, <2>1 DEF CounterpartyGate, WellFormed, Ops, TypeOK,
       saleVars, otpVars, flatVars
<1>6. CASE CompletionGate(r)
  BY <1>1, <1>2, <1>4, <1>6 DEF CompletionGate, WellFormed, Ops, TypeOK, otpVars, flatVars
<1>7. CASE StatusUpdate(r)
  <2>1. req[r].next \in Statuses
    BY <1>1, <1>7, ForwardStatuses DEF StatusUpdate, WellFormed, Statuses, Terminal
  <2>2. QED
    BY <1>3, <1>4, <1>7, <2>1, FinishMoves DEF StatusUpdate, Finish, TypeOK, otpVars, flatVars
<1>8. CASE HdbCommit(r)
  BY <1>1, <1>3, <1>4, <1>8, FinishMoves DEF HdbCommit, Finish, WellFormed, TypeOK, otpVars, flatVars
<1>9. CASE OtpCommit(r)
  BY <1>1, <1>3, <1>4, <1>9, FinishMoves DEF OtpCommit, Finish, WellFormed, TypeOK, saleVars,
     flatVars, OtpStatuses, LiveOtp
<1>10. CASE AdvanceOtpCommit(r)
  <2>1. otpStatus' \in [Transactions -> OtpStatuses]
    BY <1>1, <1>4, <1>10 DEF AdvanceOtpCommit, WellFormed, TypeOK
  <2>2. CASE Continue(r, "deadline")
    BY <1>1, <1>2, <1>10, <2>1, <2>2 DEF AdvanceOtpCommit, Ops, TypeOK, saleVars, flatVars
  <2>3. CASE Finish(r)
    BY <1>1, <1>3, <1>10, <2>1, <2>3, FinishMoves DEF AdvanceOtpCommit, Finish, TypeOK,
       saleVars, flatVars
  <2>4. QED
    BY <1>10, <2>2, <2>3 DEF AdvanceOtpCommit
<1>11. CASE SetExerciseDeadline(r)
  BY <1>3, <1>4, <1>11, FinishMoves DEF SetExerciseDeadline, Finish, TypeOK, otpVars, flatVars
<1>12. CASE ReadOtp(r)
  <2>1. PICK op \in {"expiring", "portals"} : Continue(r, op)
    BY <1>12 DEF ReadOtp
  <2>2. QED
    BY <1>1, <1>2, <1>12, <2>1 DEF ReadOtp, WellFormed, Ops, TypeOK, saleVars, otpVars, flatVars
<1>13. CASE ExpireOtp(r)
  <2>1. otpStatus' \in [Transactions -> OtpStatuses]
    BY <1>1, <1>4, <1>13 DEF ExpireOtp, WellFormed, TypeOK
  <2>2. QED
    BY <1>1, <1>2, <1>13, <2>1 DEF ExpireOtp, Ops, TypeOK, saleVars, flatVars
<1>14. CASE ExpirePortalListings(r)
  BY <1>1, <1>2, <1>14 DEF ExpirePortalListings, Ops, TypeOK, saleVars, otpVars
<1>15. CASE CancelSlots(r)
  BY <1>1, <1>2, <1>15 DEF CancelSlots, Ops, TypeOK, saleVars, otpVars
<1>16. CASE RevertToDraft(r)
  BY <1>3, <1>16, FinishMoves DEF RevertToDraft, Finish, TypeOK, saleVars, otpVars
<1>17. CASE Fail(r)
  <2>1. req[r].op # "idle" \/ req[r].op \notin
          {"deadline", "expire", "expiring", "portals", "slots", "draft"}
    OBVIOUS
  <2>2. abandoned' \subseteq Transactions
    BY <1>1, <1>4, <1>17, <2>1 DEF Fail, TypeOK
  <2>3. QED
    BY <1>3, <1>17, <2>2, FinishMoves DEF Fail, TypeOK, saleVars, otpVars, flatVars
<1>18. CASE WithdrawSlots(r) \/ CloseListing(r)
  <2>1. PICK op \in {"close", "fall"} : Continue(r, op)
    BY <1>18 DEF WithdrawSlots, CloseListing
  <2>2. QED
    BY <1>1, <1>2, <1>18, <2>1 DEF WithdrawSlots, CloseListing, Ops, TypeOK, saleVars, otpVars
<1>19. CASE WithdrawFall(r)
  <2>1. status' \in [Transactions -> Statuses]
    BY <1>1, <1>19 DEF WithdrawFall, TypeOK, Statuses, Terminal
  <2>2. QED
    BY <1>3, <1>19, <2>1, FinishMoves DEF WithdrawFall, Finish, TypeOK, otpVars, flatVars
<1>20. QED
  BY <1>5, <1>6, <1>7, <1>8, <1>9, <1>10, <1>11, <1>12, <1>13, <1>14, <1>15, <1>16, <1>17,
     <1>18, <1>19 DEF Step

LEMMA TypeInvStep == TypeInv /\ [Next]_vars => TypeInv'
<1> SUFFICES ASSUME TypeInv, [Next]_vars PROVE TypeInv'
  OBVIOUS
<1>1. ASSUME NEW t \in Transactions, VerifyCounterparty(t) PROVE TypeInv'
  BY <1>1 DEF VerifyCounterparty, TypeInv, TypeOK, WellFormed, otpVars, flatVars
<1>2. CASE UNCHANGED vars
  BY <1>2 DEF vars, saleVars, otpVars, flatVars, TypeInv, TypeOK, WellFormed
<1>3. QED
  BY <1>1, <1>2, TypeInvStart, TypeInvRequest DEF Next

\* Type correctness of the specification.
THEOREM TypeCorrect == Spec => []TypeOK
<1>1. TypeInv => TypeOK
  BY DEF TypeInv
<1>2. QED
  BY TypeInvInit, TypeInvStep, <1>1, PTL DEF Spec

-----------------------------------------------------------------------------
(* The status, and what a completed sale and an issued OTP rest on.        *)

\* The OTP's deadline is written, or its writer is at work, or has died.
Covered(t) ==
  \/ t \in exerciseDeadline \cup abandoned
  \/ \E q \in Requests : req[q].op = "deadline" /\ req[q].tx = t

IssuedIsCovered ==
  \A t \in Transactions : otpStatus[t] \in {"issued_to_buyer", "exercised"} => Covered(t)

\* What a request has checked or written on its way still holds.
Promises ==
  \A r \in Requests, t \in Transactions : req[r].tx = t =>
    /\ req[r].op = "update" /\ req[r].next = "completed" => t \in retained
    /\ req[r].op = "advanceOtp" /\ req[r].next \in {"issued_to_buyer", "exercised"} =>
         t \in agentReviewed
    /\ req[r].op = "advanceOtp" /\ req[r].next = "exercised" => Covered(t)

\* A completed transaction's CDD records had their retention refreshed, even
\* when its completion raced other requests.
CompletedIsRetained ==
  \A t \in Transactions : status[t] = "completed" => t \in retained

\* An OTP reaches the buyer only after an agent's review, whatever requests race.
IssuedIsReviewed ==
  \A t \in Transactions :
    otpStatus[t] \in {"issued_to_buyer", "exercised"} => t \in agentReviewed

SaleParts == Promises /\ CompletedIsRetained /\ IssuedIsReviewed /\ IssuedIsCovered

SaleInv == TypeInv /\ SaleParts

\* A step of one request leaves the others as they are.
LEMMA Others ==
  ASSUME TypeOK, NEW r \in Requests,
         Step(r) \/ \E t \in Transactions : Start(r, t)
  PROVE  \A p \in Requests \ {r} : req'[p] = req[p]
<1>1. \/ req' = req
      \/ \E state : req' = [req EXCEPT ![r] = state]
  <2>1. CASE Step(r)
    BY <2>1 DEF Step, CounterpartyGate, CompletionGate, StatusUpdate, HdbCommit, OtpCommit,
       AdvanceOtpCommit, SetExerciseDeadline, ReadOtp, ExpireOtp, ExpirePortalListings,
       CancelSlots, RevertToDraft, WithdrawSlots, CloseListing, WithdrawFall,
       Fail, Continue, Finish
  <2>2. ASSUME NEW t \in Transactions, Start(r, t)
        PROVE  req' = req \/ \E state : req' = [req EXCEPT ![r] = state]
    BY <2>2 DEF Start, CreateTransaction, RecordCounterpartyCdd, ReviewOtp, AdvanceStart,
       HdbStart, OtpStart, AdvanceOtpStart, MarkFallenThrough, WithdrawConsent, Begin, Once
  <2>3. QED
    BY <2>1, <2>2
<1>2. QED
  BY <1>1 DEF TypeOK

\* What is retained, reviewed, given a deadline or abandoned stays so.
LEMMA Monotone ==
  ASSUME [Next]_vars
  PROVE  /\ retained \subseteq retained' /\ agentReviewed \subseteq agentReviewed'
         /\ exerciseDeadline \subseteq exerciseDeadline' /\ abandoned \subseteq abandoned'
<1> DEFINE Kept == /\ retained \subseteq retained' /\ agentReviewed \subseteq agentReviewed'
                   /\ exerciseDeadline \subseteq exerciseDeadline'
                   /\ abandoned \subseteq abandoned'
<1>1. ASSUME NEW r \in Requests, Step(r) PROVE Kept
  BY <1>1 DEF Step, CounterpartyGate, CompletionGate, StatusUpdate, HdbCommit, OtpCommit,
     AdvanceOtpCommit, SetExerciseDeadline, ReadOtp, ExpireOtp, ExpirePortalListings,
     CancelSlots, RevertToDraft, WithdrawSlots, CloseListing, WithdrawFall,
     Fail, Continue, Finish, saleVars, otpVars
<1>2. ASSUME NEW r \in Requests, NEW t \in Transactions, Start(r, t) PROVE Kept
  BY <1>2 DEF Start, CreateTransaction, RecordCounterpartyCdd, ReviewOtp, AdvanceStart,
     HdbStart, OtpStart, AdvanceOtpStart,
     MarkFallenThrough, WithdrawConsent, Begin, Once, saleVars, otpVars
<1>3. QED
  BY <1>1, <1>2 DEF Next, VerifyCounterparty, vars, saleVars, otpVars

LEMMA CoveredStays ==
  ASSUME TypeInv, [Next]_vars, NEW t \in Transactions, Covered(t)
  PROVE  Covered(t)'
<1>1. CASE t \in exerciseDeadline \cup abandoned
  BY <1>1, Monotone DEF Covered
<1>2. ASSUME NEW q \in Requests, req[q].op = "deadline", req[q].tx = t PROVE Covered(t)'
  <2>1. CASE req'[q] = req[q]
    BY <1>2, <2>1 DEF Covered
  <2>2. CASE req'[q] # req[q]
    <3>1. Step(q)
      <4>1. Step(q) \/ \E x \in Transactions : Start(q, x)
        BY <2>2, Others DEF TypeInv, Next, VerifyCounterparty, vars
      <4>2. req[q] # Idle
        BY <1>2 DEF Idle
      <4>3. ASSUME NEW x \in Transactions, Start(q, x) PROVE FALSE
        BY <4>2, <4>3 DEF Start, CreateTransaction, RecordCounterpartyCdd, ReviewOtp,
           AdvanceStart, HdbStart, OtpStart, AdvanceOtpStart,
           MarkFallenThrough, WithdrawConsent, Begin, Once
      <4>4. QED
        BY <4>1, <4>3
    <3>2. SetExerciseDeadline(q) \/ Fail(q)
      BY <1>2, <3>1 DEF Step, CounterpartyGate, CompletionGate, StatusUpdate, HdbCommit,
         OtpCommit, AdvanceOtpCommit, ReadOtp, ExpireOtp, ExpirePortalListings,
         CancelSlots, RevertToDraft, WithdrawSlots, CloseListing, WithdrawFall
    <3>3. t \in exerciseDeadline' \cup abandoned'
      BY <1>2, <3>2 DEF SetExerciseDeadline, Fail
    <3>4. QED
      BY <3>3 DEF Covered
  <2>3. QED
    BY <2>1, <2>2
<1>3. QED
  BY <1>1, <1>2 DEF Covered

LEMMA SaleInit == Init => SaleInv
<1> SUFFICES ASSUME Init PROVE SaleInv
  OBVIOUS
<1>1. SaleParts
  BY IdleFormed DEF Init, SaleParts, Promises, CompletedIsRetained, IssuedIsReviewed, IssuedIsCovered
<1>2. QED
  BY <1>1, TypeInvInit DEF SaleInv

\* Only StatusUpdate completes a sale.
LEMMA RetainedStep ==
  ASSUME TypeInv, SaleParts, [Next]_vars
  PROVE  CompletedIsRetained'
<1> SUFFICES ASSUME NEW t \in Transactions, status'[t] = "completed", status[t] # "completed"
             PROVE  t \in retained'
  BY Monotone DEF SaleParts, CompletedIsRetained
<1>1. PICK r \in Requests : StatusUpdate(r)
  <2>1. ASSUME NEW r \in Requests, NEW x \in Transactions, Start(r, x) PROVE FALSE
    BY <2>1 DEF Start, CreateTransaction, RecordCounterpartyCdd, ReviewOtp, AdvanceStart,
       HdbStart, OtpStart, AdvanceOtpStart,
       MarkFallenThrough, WithdrawConsent, saleVars, TypeInv, TypeOK
  <2>2. ASSUME NEW r \in Requests, Step(r) PROVE StatusUpdate(r) \/ WithdrawFall(r)
    BY <2>2 DEF Step, CounterpartyGate, CompletionGate, HdbCommit, OtpCommit,
       AdvanceOtpCommit, SetExerciseDeadline, ReadOtp, ExpireOtp, ExpirePortalListings,
       CancelSlots, RevertToDraft, WithdrawSlots, CloseListing, Fail, saleVars
  <2>3. ASSUME NEW r \in Requests, WithdrawFall(r) PROVE FALSE
    BY <2>3 DEF WithdrawFall, TypeInv, TypeOK
  <2>4. QED
    BY <2>1, <2>2, <2>3 DEF Next, VerifyCounterparty, vars, saleVars
<1>2. /\ req[r].tx = t /\ req[r].op = "update" /\ req[r].next = "completed"
  BY <1>1, AtWork DEF StatusUpdate, TypeInv, TypeOK
<1>3. QED
  BY <1>2, Monotone DEF SaleParts, Promises

\* Only AdvanceOtpCommit issues an OTP or has it exercised.
LEMMA IssuedStep ==
  ASSUME TypeInv, SaleParts, [Next]_vars
  PROVE  IssuedIsReviewed' /\ IssuedIsCovered'
<1> SUFFICES ASSUME NEW t \in Transactions, otpStatus'[t] \in {"issued_to_buyer", "exercised"}
             PROVE  t \in agentReviewed' /\ Covered(t)'
  BY DEF IssuedIsReviewed, IssuedIsCovered
<1>1. CASE otpStatus[t] \in {"issued_to_buyer", "exercised"}
  BY <1>1, Monotone, CoveredStays DEF SaleParts, IssuedIsReviewed, IssuedIsCovered
<1>2. CASE otpStatus[t] \notin {"issued_to_buyer", "exercised"}
  <2>1. PICK r \in Requests : OtpCommit(r) \/ AdvanceOtpCommit(r) \/ ExpireOtp(r)
    <3>1. ASSUME NEW r \in Requests, NEW x \in Transactions, Start(r, x) PROVE FALSE
      BY <1>2, <3>1 DEF Start, CreateTransaction, RecordCounterpartyCdd, ReviewOtp,
         AdvanceStart, HdbStart, OtpStart, AdvanceOtpStart,
         MarkFallenThrough, WithdrawConsent, otpVars
    <3>2. ASSUME NEW r \in Requests, Step(r)
          PROVE  OtpCommit(r) \/ AdvanceOtpCommit(r) \/ ExpireOtp(r)
      BY <1>2, <3>2 DEF Step, CounterpartyGate, CompletionGate, StatusUpdate, HdbCommit,
         SetExerciseDeadline, ReadOtp, ExpirePortalListings, CancelSlots, RevertToDraft,
         WithdrawSlots, CloseListing, WithdrawFall, Fail, otpVars
    <3>3. QED
      BY <1>2, <3>1, <3>2 DEF Next, VerifyCounterparty, vars, otpVars
  <2>2. req[r].tx = t /\ req[r].next = otpStatus'[t]
    BY <1>2, <2>1, AtWork DEF OtpCommit, AdvanceOtpCommit, ExpireOtp, TypeInv, TypeOK
  <2>3. AdvanceOtpCommit(r)
    BY <2>1, <2>2 DEF OtpCommit, ExpireOtp, TypeInv, WellFormed
  <2>4. t \in agentReviewed'
    BY <2>2, <2>3, Monotone DEF AdvanceOtpCommit, SaleParts, Promises
  <2>5. CASE req[r].next = "exercised"
    <3>1. Covered(t)
      BY <2>2, <2>3, <2>5 DEF AdvanceOtpCommit, SaleParts, Promises
    <3>2. QED
      BY <2>4, <3>1, CoveredStays
  <2>6. CASE req[r].next = "issued_to_buyer"
    <3>1. Continue(r, "deadline")
      BY <2>3, <2>6 DEF AdvanceOtpCommit
    <3>2. req'[r].op = "deadline" /\ req'[r].tx = t
      BY <2>2, <3>1, ContinueMoves DEF TypeInv, Ops
    <3>3. QED
      BY <2>4, <3>2 DEF Covered
  <2>7. QED
    BY <2>2, <2>5, <2>6
<1>3. QED
  BY <1>1, <1>2
LEMMA PromisesStep ==
  ASSUME TypeInv, SaleParts, [Next]_vars
  PROVE  Promises'
<1> DEFINE Kept(r, t) ==
      /\ req[r].op = "update" /\ req[r].next = "completed" => t \in retained
      /\ req[r].op = "advanceOtp" /\ req[r].next \in {"issued_to_buyer", "exercised"} =>
           t \in agentReviewed
      /\ req[r].op = "advanceOtp" /\ req[r].next = "exercised" => Covered(t)
<1> SUFFICES ASSUME NEW r \in Requests, NEW t \in Transactions, req'[r].tx = t
             PROVE  Kept(r, t)'
  BY DEF Promises
<1>1. CASE req'[r] = req[r]
  BY <1>1, Monotone, CoveredStays DEF SaleParts, Promises
<1>2. ASSUME req'[r].op \notin {"update", "advanceOtp"} PROVE Kept(r, t)'
  BY <1>2
<1>3. CASE Step(r)
  <2>1. CASE CounterpartyGate(r)
    <3>1. PICK op \in {"approval", "update"} :
            Continue(r, op) /\ (op = "update" => req[r].next # "completed")
      BY <2>1 DEF CounterpartyGate
    <3>2. QED
      BY <3>1, ContinueMoves DEF TypeInv, Ops
  <2>2. CASE CompletionGate(r)
    <3>1. req'[r].op = "update" /\ req[r].tx = t
      BY <2>2, ContinueMoves DEF CompletionGate, TypeInv, Ops
    <3>2. QED
      BY <2>2, <3>1 DEF CompletionGate
  <2>3. ASSUME req' = [req EXCEPT ![r] = Idle] PROVE Kept(r, t)'
    BY <1>2, <2>3, FinishMoves, IdleFormed DEF TypeInv
  <2>4. ASSUME NEW op \in Ops \ {"update", "advanceOtp"}, Continue(r, op) PROVE Kept(r, t)'
    BY <1>2, <2>4, ContinueMoves DEF TypeInv
  <2>5. CASE \/ StatusUpdate(r) \/ HdbCommit(r) \/ OtpCommit(r) \/ SetExerciseDeadline(r)
             \/ RevertToDraft(r) \/ WithdrawFall(r) \/ Fail(r)
    BY <2>3, <2>5 DEF StatusUpdate, HdbCommit, OtpCommit, SetExerciseDeadline, RevertToDraft,
       WithdrawFall, Fail, Finish
  <2>6. CASE \/ ExpireOtp(r) \/ ExpirePortalListings(r) \/ CancelSlots(r)
             \/ WithdrawSlots(r) \/ CloseListing(r)
    BY <2>4, <2>6 DEF ExpireOtp, ExpirePortalListings, CancelSlots, WithdrawSlots,
       CloseListing, Ops
  <2>7. CASE ReadOtp(r)
    <3>1. PICK op \in {"expiring", "portals"} : Continue(r, op)
      BY <2>7 DEF ReadOtp
    <3>2. QED
      BY <2>4, <3>1 DEF Ops
  <2>8. CASE AdvanceOtpCommit(r)
    BY <2>3, <2>4, <2>8 DEF AdvanceOtpCommit, Finish, Ops
  <2>9. QED
    BY <1>3, <2>1, <2>2, <2>5, <2>6, <2>7, <2>8 DEF Step
<1>4. ASSUME NEW x \in Transactions, Start(r, x) PROVE Kept(r, t)'
  <2>1. CASE CreateTransaction(r, x) \/ RecordCounterpartyCdd(r, x) \/ ReviewOtp(r, x)
    BY <1>1, <2>1 DEF CreateTransaction, RecordCounterpartyCdd, ReviewOtp, Once
  <2>2. ASSUME NEW op \in Ops \ {"update", "advanceOtp"}, NEW next \in Values,
               Begin(r, x, op, next)
        PROVE  Kept(r, t)'
    BY <1>2, <2>2, BeginMoves DEF TypeInv
  <2>3. ASSUME NEW s \in Statuses, AdvanceStart(r, x, s) PROVE Kept(r, t)'
    BY <2>2, <2>3 DEF AdvanceStart, Ops, Values
  <2>4. ASSUME NEW h \in HdbStatuses, HdbStart(r, x, h) PROVE Kept(r, t)'
    BY <2>2, <2>4 DEF HdbStart, Ops, Values
  <2>5. CASE OtpStart(r, x)
    BY <2>2, <2>5 DEF OtpStart, Ops, Values, OtpStatuses, LiveOtp
  <2>6. CASE MarkFallenThrough(r, x) \/ WithdrawConsent(r, x)
    BY <2>2, <2>6 DEF MarkFallenThrough, WithdrawConsent, Ops, Values, OtpStatuses, Statuses,
       Terminal
  <2>7. CASE AdvanceOtpStart(r, x)
    <3>1. PICK n \in OtpStatuses :
            /\ Begin(r, x, "advanceOtp", n)
            /\ n = "issued_to_buyer" => x \in agentReviewed
            /\ n = "exercised" => otpStatus[x] = "issued_to_buyer"
      BY <2>7 DEF AdvanceOtpStart, OtpOrder, OtpStatuses, LiveOtp
    <3>2. req'[r].op = "advanceOtp" /\ x = t /\ req'[r].next = n
      BY <3>1, BeginMoves DEF TypeInv, Ops, Values
    <3>3. n \in {"issued_to_buyer", "exercised"} => t \in agentReviewed'
      BY <3>1, <3>2, Monotone DEF SaleParts, IssuedIsReviewed
    <3>4. n = "exercised" => Covered(t)'
      BY <3>1, <3>2, CoveredStays DEF SaleParts, IssuedIsCovered
    <3>5. QED
      BY <3>2, <3>3, <3>4
  <2>8. QED
    BY <1>4, <2>1, <2>3, <2>4, <2>5, <2>6, <2>7 DEF Start
<1>5. QED
  BY <1>1, <1>3, <1>4, Others DEF TypeInv, Next, VerifyCounterparty, vars

LEMMA SaleStep == SaleInv /\ [Next]_vars => SaleInv'
  BY TypeInvStep, RetainedStep, IssuedStep, PromisesStep DEF SaleInv, SaleParts

\* A completed transaction's due diligence records had their retention
\* refreshed, whatever requests raced its completion.
THEOREM CompletedIsRetainedKept == Spec => []CompletedIsRetained
<1>1. SaleInv => CompletedIsRetained
  BY DEF SaleInv, SaleParts
<1>2. QED
  BY SaleInit, SaleStep, <1>1, PTL DEF Spec

\* No OTP reaches the buyer without an agent's review.
THEOREM IssuedIsReviewedKept == Spec => []IssuedIsReviewed
<1>1. SaleInv => IssuedIsReviewed
  BY DEF SaleInv, SaleParts
<1>2. QED
  BY SaleInit, SaleStep, <1>1, PTL DEF Spec

\* Once requests are done with it and none died, an issued OTP has a deadline.
THEOREM IssuedHasDeadlineKept == Spec => []IssuedHasDeadline
<1>1. SaleInv => IssuedHasDeadline
  BY DEF SaleInv, SaleParts, IssuedIsCovered, IssuedHasDeadline, Covered, Quiet
<1>2. QED
  BY SaleInit, SaleStep, <1>1, PTL DEF Spec

-----------------------------------------------------------------------------
(* Transaction implements Sale.                                            *)

LEMMA ForwardIsAfter ==
  ASSUME NEW s, NEW n, Forward(s, n)
  PROVE  \E j \in S!After(s) : S!TRANSACTION_STATUS_ORDER[j] = n
  BY DEF Forward, S!After, TRANSACTION_STATUS_ORDER, S!TRANSACTION_STATUS_ORDER

\* The writes of the status.
LEMMA StatusSteps ==
  ASSUME SaleInv, NEW r \in Requests
  PROVE  /\ \A t \in Transactions : CreateTransaction(r, t) => S!Create(t)
         /\ \A t \in Transactions : MarkFallenThrough(r, t) => S!FallThrough(t)
         /\ StatusUpdate(r) => S!Next
         /\ WithdrawFall(r) => S!Next \/ UNCHANGED S!vars
<1>1. ASSUME NEW t \in Transactions, CreateTransaction(r, t) PROVE S!Create(t)
  BY <1>1 DEF CreateTransaction, S!Create, otpVars, WithBuyer
<1>2. ASSUME NEW t \in Transactions, MarkFallenThrough(r, t) PROVE S!FallThrough(t)
  BY <1>2 DEF MarkFallenThrough, Open, Terminal, S!FallThrough, S!Open, otpVars, WithBuyer
<1>3. ASSUME StatusUpdate(r) PROVE S!Next
  <2>1. req[r].tx \in Transactions
    BY <1>3, AtWork DEF StatusUpdate, SaleInv
  <2>2. Forward(status[req[r].tx], req[r].next)
    BY <1>3, <2>1 DEF StatusUpdate, SaleInv, TypeInv, WellFormed
  <2>3. req[r].next = "completed" => req[r].tx \in retained
    BY <1>3, <2>1 DEF StatusUpdate, SaleInv, SaleParts, Promises
  <2>4. S!Advance(req[r].tx)
    <3>1. PICK j \in S!After(status[req[r].tx]) : S!TRANSACTION_STATUS_ORDER[j] = req[r].next
      BY <2>2, ForwardIsAfter
    <3>2. /\ status' = [status EXCEPT ![req[r].tx] = req[r].next]
          /\ UNCHANGED <<retained, agentReviewed, WithBuyer>>
      BY <1>3 DEF StatusUpdate, otpVars, WithBuyer
    <3>3. QED
      BY <2>3, <3>1, <3>2 DEF S!Advance
  <2>5. QED
    BY <2>1, <2>4 DEF S!Next
<1>4. ASSUME WithdrawFall(r) PROVE S!Next \/ UNCHANGED S!vars
  <2>1. req[r].tx \in Transactions
    BY <1>4, AtWork DEF WithdrawFall, SaleInv
  <2>2. CASE Open(req[r].tx)
    <3>1. S!FallThrough(req[r].tx)
      BY <1>4, <2>2 DEF WithdrawFall, Open, Terminal, S!FallThrough, S!Open, otpVars, WithBuyer
    <3>2. QED
      BY <2>1, <3>1 DEF S!Next
  <2>3. CASE ~Open(req[r].tx)
    BY <1>4, <2>3 DEF WithdrawFall, S!vars, otpVars, WithBuyer
  <2>4. QED
    BY <2>2, <2>3
<1>5. QED
  BY <1>1, <1>2, <1>3, <1>4

\* A write of the OTP hands the option over or takes it back.
LEMMA OptionSteps ==
  ASSUME SaleInv, NEW r \in Requests,
         OtpCommit(r) \/ AdvanceOtpCommit(r) \/ ExpireOtp(r)
  PROVE  S!Next
<1> DEFINE t == req[r].tx
           Out == {"issued_to_buyer", "exercised"}
<1>1. t \in Transactions
  BY AtWork DEF OtpCommit, AdvanceOtpCommit, ExpireOtp, SaleInv
<1>2. /\ otpStatus' = [otpStatus EXCEPT ![t] = req[r].next]
      /\ UNCHANGED <<saleVars, agentReviewed>>
  BY DEF OtpCommit, AdvanceOtpCommit, ExpireOtp
<1>3. otpStatus \in [Transactions -> OtpStatuses]
  BY DEF SaleInv, TypeInv, TypeOK
<1>4. CASE req[r].next \in Out
  <2>1. t \in agentReviewed
    BY <1>1, <1>4 DEF OtpCommit, AdvanceOtpCommit, ExpireOtp, SaleInv, SaleParts, Promises,
       TypeInv, WellFormed
  <2>2. WithBuyer' = WithBuyer \cup {t}
    BY <1>1, <1>2, <1>3, <1>4 DEF WithBuyer
  <2>3. S!HandOver(t)
    BY <1>2, <2>1, <2>2 DEF S!HandOver, saleVars
  <2>4. QED
    BY <1>1, <2>3 DEF S!Next
<1>5. CASE req[r].next \notin Out
  <2>1. WithBuyer' = WithBuyer \ {t}
    BY <1>1, <1>2, <1>3, <1>5 DEF WithBuyer
  <2>2. S!TakeBack(t)
    BY <1>2, <2>1 DEF S!TakeBack, saleVars
  <2>3. QED
    BY <1>1, <2>2 DEF S!Next
<1>6. QED
  BY <1>4, <1>5

\* Every step of Transaction is a step of Sale or leaves it alone.
LEMMA SaleSimulation == SaleInv /\ [Next]_vars => [S!Next]_S!vars
<1> SUFFICES ASSUME SaleInv, [Next]_vars PROVE S!Next \/ UNCHANGED S!vars
  OBVIOUS
<1>1. ASSUME UNCHANGED <<status, retained, otpVars>> PROVE UNCHANGED S!vars
  BY <1>1 DEF otpVars, S!vars, WithBuyer
<1>2. ASSUME NEW r \in Requests, NEW t \in Transactions, Start(r, t)
      PROVE  S!Next \/ UNCHANGED S!vars
  <2>1. CASE CreateTransaction(r, t) \/ MarkFallenThrough(r, t)
    BY <2>1, StatusSteps DEF S!Next
  <2>2. CASE ReviewOtp(r, t)
    <3>1. S!Review(t)
      BY <2>2 DEF ReviewOtp, S!Review, saleVars, WithBuyer
    <3>2. QED
      BY <3>1 DEF S!Next
  <2>3. CASE \/ RecordCounterpartyCdd(r, t) \/ (\E s \in Statuses : AdvanceStart(r, t, s))
             \/ (\E h \in HdbStatuses : HdbStart(r, t, h)) \/ OtpStart(r, t)
             \/ AdvanceOtpStart(r, t) \/ WithdrawConsent(r, t)
    BY <1>1, <2>3 DEF RecordCounterpartyCdd, AdvanceStart, HdbStart, OtpStart, AdvanceOtpStart,
       WithdrawConsent, saleVars
  <2>4. QED
    BY <1>2, <2>1, <2>2, <2>3 DEF Start
<1>3. ASSUME NEW r \in Requests, Step(r) PROVE S!Next \/ UNCHANGED S!vars
  <2>1. CASE StatusUpdate(r) \/ WithdrawFall(r)
    BY <2>1, StatusSteps
  <2>2. CASE OtpCommit(r) \/ AdvanceOtpCommit(r) \/ ExpireOtp(r)
    BY <2>2, OptionSteps
  <2>3. CASE CompletionGate(r)
    <3>1. req[r].tx \in Transactions
      BY <2>3, AtWork DEF CompletionGate, SaleInv
    <3>2. S!Retain(req[r].tx)
      BY <2>3 DEF CompletionGate, S!Retain, otpVars, WithBuyer
    <3>3. QED
      BY <3>1, <3>2 DEF S!Next
  <2>4. CASE \/ CounterpartyGate(r) \/ HdbCommit(r) \/ SetExerciseDeadline(r) \/ ReadOtp(r)
             \/ ExpirePortalListings(r) \/ CancelSlots(r) \/ RevertToDraft(r)
             \/ WithdrawSlots(r) \/ CloseListing(r) \/ Fail(r)
    BY <1>1, <2>4 DEF CounterpartyGate, HdbCommit, SetExerciseDeadline, ReadOtp,
       ExpirePortalListings, CancelSlots, RevertToDraft, WithdrawSlots, CloseListing, Fail, saleVars
  <2>5. QED
    BY <1>3, <2>1, <2>2, <2>3, <2>4 DEF Step
<1>4. CASE UNCHANGED vars \/ \E t \in Transactions : VerifyCounterparty(t)
  BY <1>1, <1>4 DEF VerifyCounterparty, vars, saleVars
<1>5. QED
  BY <1>2, <1>3, <1>4 DEF Next

\* Whatever requests race or die, a sale keeps the promises of Sale.
THEOREM SaleImplemented == Spec => ImplementsSale
<1>1. Init => S!Init
  BY DEF Init, S!Init, WithBuyer
<1>2. QED
  BY <1>1, SaleInit, SaleStep, SaleSimulation, PTL DEF Spec, ImplementsSale, S!Spec

-----------------------------------------------------------------------------
(* The cascade of a transaction handled by one request at a time.          *)

CascadeOps == {"expire", "expiring", "portals", "slots", "draft"}

Withdrawn(t) == PropertyOf[t] \notin slotsOpen \cup listed

\* One request works on the transaction; what it has checked or done still
\* holds; a sale that fell through is withdrawn, or being withdrawn.
Handled(t) ==
  /\ \A r, q \in Requests : req[r].tx = t /\ req[q].tx = t => r = q
  /\ \A r \in Requests : req[r].tx = t =>
       /\ req[r].op \in {"otp", "advanceOtp"} => Open(t)
       /\ req[r].op \in {"portals", "slots", "draft"} => otpStatus[t] \notin LiveOtp
       /\ req[r].op \in {"draft", "close"} => PropertyOf[t] \notin slotsOpen
       /\ req[r].op = "fall" => Withdrawn(t)
  /\ (status[t] = "fallen_through" /\ t \notin abandoned) =>
       \/ Withdrawn(t)
       \/ \E r \in Requests : req[r].tx = t /\ req[r].op \in CascadeOps

CascadeInv == TypeInv /\ \A t \in Transactions : t \notin contended => Handled(t)

LEMMA CascadeInit == Init => CascadeInv
<1> SUFFICES ASSUME Init PROVE CascadeInv
  OBVIOUS
<1>1. ASSUME NEW t \in Transactions PROVE Handled(t)
  BY IdleFormed, TransactionAssumption DEF Init, Handled
<1>2. QED
  BY <1>1, TypeInvInit DEF CascadeInv

\* A step on another transaction.
LEMMA HandledElsewhere ==
  ASSUME NEW t \in Transactions, Handled(t), NEW r \in Requests,
         req[r].tx # t, req'[r].tx # t,
         \A p \in Requests \ {r} : req'[p] = req[p],
         status'[t] = status[t], otpStatus'[t] = otpStatus[t],
         slotsOpen' \subseteq slotsOpen, listed' \subseteq listed,
         abandoned \subseteq abandoned'
  PROVE  Handled(t)'
<1>1. Open(t)' <=> Open(t)
  BY DEF Open
<1>2. Withdrawn(t) => Withdrawn(t)'
  BY DEF Withdrawn
<1>3. QED
  BY <1>1, <1>2 DEF Handled

\* A step by the only request at work on the transaction.
LEMMA HandledAlone ==
  ASSUME NEW t \in Transactions, NEW r \in Requests,
         \A q \in Requests \ {r} : req'[q].tx # t,
         req'[r].tx = t =>
           /\ req'[r].op \in {"otp", "advanceOtp"} => Open(t)'
           /\ req'[r].op \in {"portals", "slots", "draft"} => otpStatus'[t] \notin LiveOtp
           /\ req'[r].op \in {"draft", "close"} => PropertyOf[t] \notin slotsOpen'
           /\ req'[r].op = "fall" => Withdrawn(t)',
         (status'[t] = "fallen_through" /\ t \notin abandoned') =>
           Withdrawn(t)' \/ (req'[r].tx = t /\ req'[r].op \in CascadeOps)
  PROVE  Handled(t)'
  BY DEF Handled

\* A request takes its steps on one transaction, until it is done with it.
LEMMA StepMoves ==
  ASSUME TypeInv, NEW r \in Requests, Step(r)
  PROVE  /\ req[r].op # "idle" /\ req[r].tx \in Transactions
         /\ req'[r].tx \in {req[r].tx, NoTransaction}
<1>0. TypeOK /\ WellFormed(req[r])
  BY DEF TypeInv
<1>1. req[r].op # "idle"
  BY DEF Step, CounterpartyGate, CompletionGate, StatusUpdate, HdbCommit, OtpCommit,
     AdvanceOtpCommit, SetExerciseDeadline, ReadOtp, ExpireOtp, ExpirePortalListings,
     CancelSlots, RevertToDraft, WithdrawSlots, CloseListing, WithdrawFall,
     Fail, TypeInv, WellFormed
<1>2. req' = [req EXCEPT ![r] = Idle] \/ \E op \in Ops : Continue(r, op)
  BY DEF Step, CounterpartyGate, CompletionGate, StatusUpdate, HdbCommit, OtpCommit,
     AdvanceOtpCommit, SetExerciseDeadline, ReadOtp, ExpireOtp, ExpirePortalListings,
     CancelSlots, RevertToDraft, WithdrawSlots, CloseListing, WithdrawFall, Fail, Finish, Ops
<1>3. QED
  BY <1>0, <1>1, <1>2, ContinueMoves, FinishMoves, IdleFormed, AtWork

LEMMA HandledRequest ==
  ASSUME TypeInv, NEW t \in Transactions, Handled(t), NEW r \in Requests, Step(r)
  PROVE  Handled(t)'
<1>1. TypeOK /\ WellFormed(req[r])
  BY DEF TypeInv
<1>2. \A p \in Requests \ {r} : req'[p] = req[p]
  BY <1>1, Others
<1>3. /\ req[r].op # "idle" /\ req[r].tx \in Transactions
      /\ req'[r].tx \in {req[r].tx, NoTransaction}
  BY StepMoves
<1>4. CASE req[r].tx # t
  <2>1. /\ status'[t] = status[t] /\ otpStatus'[t] = otpStatus[t]
        /\ slotsOpen' \subseteq slotsOpen /\ listed' \subseteq listed
        /\ abandoned \subseteq abandoned'
    BY <1>1, <1>3, <1>4 DEF Step, CounterpartyGate, CompletionGate, StatusUpdate, HdbCommit,
       OtpCommit, AdvanceOtpCommit, SetExerciseDeadline, ReadOtp, ExpireOtp,
       ExpirePortalListings,
       CancelSlots, RevertToDraft, WithdrawSlots, CloseListing, WithdrawFall,
       Fail, Continue, Finish, TypeOK,
       saleVars, otpVars, flatVars
  <2>2. QED
    BY <1>2, <1>3, <1>4, <2>1, HandledElsewhere, TransactionAssumption
<1>5. CASE req[r].tx = t
  <2>1. \A q \in Requests \ {r} : req'[q].tx # t
    BY <1>2, <1>5 DEF Handled
  <2>2. (status[t] = "fallen_through" /\ t \notin abandoned /\ req[r].op \notin CascadeOps)
          => Withdrawn(t)
    BY <1>5 DEF Handled
  <2>3. ASSUME NEW op \in Ops, Continue(r, op) PROVE req'[r].tx = t /\ req'[r].op = op
    BY <1>1, <1>5, <2>3, ContinueMoves
  <2>4. ASSUME req' = [req EXCEPT ![r] = Idle] PROVE req'[r].tx # t
    BY <1>1, <2>4, FinishMoves, IdleFormed, TransactionAssumption
  <2>5. CASE \/ CounterpartyGate(r) \/ CompletionGate(r)
    <3>1. PICK op \in {"approval", "update"} : Continue(r, op)
      BY <2>5 DEF CounterpartyGate, CompletionGate
    <3>2. req'[r].op \in {"approval", "update"}
      BY <2>3, <3>1 DEF Ops
    <3>3. /\ req[r].op \notin CascadeOps /\ abandoned' = abandoned
          /\ status' = status /\ (Withdrawn(t) => Withdrawn(t)')
      BY <2>5 DEF CounterpartyGate, CompletionGate, Continue, CascadeOps, Withdrawn,
         saleVars, otpVars, flatVars
    <3>4. QED
      BY <2>1, <2>2, <3>2, <3>3, HandledAlone
  <2>6. CASE StatusUpdate(r)
    <3>1. status'[t] # "fallen_through"
      BY <1>1, <1>5, <2>6, ForwardStatuses DEF StatusUpdate, WellFormed, TypeOK
    <3>2. req'[r].tx # t
      BY <2>4, <2>6 DEF StatusUpdate, Finish
    <3>3. QED
      BY <2>1, <3>1, <3>2, HandledAlone
  <2>7. CASE HdbCommit(r) \/ SetExerciseDeadline(r)
    <3>1. /\ req[r].op \notin CascadeOps /\ abandoned' = abandoned
          /\ status' = status /\ (Withdrawn(t) => Withdrawn(t)')
      BY <2>7 DEF HdbCommit, SetExerciseDeadline, Finish, CascadeOps, Withdrawn,
         saleVars, otpVars, flatVars
    <3>2. req'[r].tx # t
      BY <2>4, <2>7 DEF HdbCommit, SetExerciseDeadline, Finish
    <3>3. QED
      BY <2>1, <2>2, <3>1, <3>2, HandledAlone
  <2>8. CASE OtpCommit(r) \/ AdvanceOtpCommit(r)
    <3>1. status'[t] # "fallen_through"
      BY <1>5, <2>8 DEF OtpCommit, AdvanceOtpCommit, Handled, Open, Terminal, saleVars
    <3>2. req'[r].tx # t \/ req'[r].op = "deadline"
      BY <2>3, <2>4, <2>8 DEF OtpCommit, AdvanceOtpCommit, Finish, Ops
    <3>3. QED
      BY <2>1, <3>1, <3>2, HandledAlone
  <2>9. CASE ReadOtp(r)
    <3>1. /\ Continue(r, IF otpStatus[t] \in LiveOtp THEN "expiring" ELSE "portals")
          /\ otpStatus' = otpStatus
      BY <1>5, <2>9 DEF ReadOtp, otpVars
    <3>2. /\ req'[r].op \in {"expiring", "portals"} /\ req'[r].tx = t
          /\ req'[r].op = "portals" => otpStatus'[t] \notin LiveOtp
      BY <2>3, <3>1 DEF Ops
    <3>3. QED
      BY <2>1, <3>2, HandledAlone DEF CascadeOps
  <2>10. CASE ExpireOtp(r)
    <3>1. otpStatus'[t] = "expired"
      BY <1>1, <1>5, <2>10 DEF ExpireOtp, WellFormed, TypeOK
    <3>2. req'[r].op = "portals" /\ req'[r].tx = t
      BY <2>3, <2>10 DEF ExpireOtp, Ops
    <3>3. QED
      BY <2>1, <3>1, <3>2, HandledAlone DEF CascadeOps, LiveOtp
  <2>11. CASE ExpirePortalListings(r)
    <3>1. otpStatus'[t] \notin LiveOtp
      BY <1>5, <2>11 DEF ExpirePortalListings, Handled, otpVars
    <3>2. req'[r].op = "slots" /\ req'[r].tx = t
      BY <2>3, <2>11 DEF ExpirePortalListings, Ops
    <3>3. QED
      BY <2>1, <3>1, <3>2, HandledAlone DEF CascadeOps
  <2>12. CASE CancelSlots(r)
    <3>1. otpStatus'[t] \notin LiveOtp /\ PropertyOf[t] \notin slotsOpen'
      BY <1>5, <2>12 DEF CancelSlots, Handled, otpVars
    <3>2. req'[r].op = "draft" /\ req'[r].tx = t
      BY <2>3, <2>12 DEF CancelSlots, Ops
    <3>3. QED
      BY <2>1, <3>1, <3>2, HandledAlone DEF CascadeOps
  <2>13. CASE RevertToDraft(r)
    <3>1. Withdrawn(t)'
      BY <1>5, <2>13 DEF RevertToDraft, Handled, Withdrawn, otpVars
    <3>2. req'[r].tx # t
      BY <2>4, <2>13 DEF RevertToDraft, Finish
    <3>3. QED
      BY <2>1, <3>1, <3>2, HandledAlone
  <2>14. CASE Fail(r)
    <3>1. /\ req[r].op \in CascadeOps => t \in abandoned'
          /\ t \notin abandoned' => t \notin abandoned
          /\ status' = status /\ (Withdrawn(t) => Withdrawn(t)')
      BY <1>5, <2>14 DEF Fail, CascadeOps, Withdrawn, saleVars, otpVars, flatVars
    <3>2. req'[r].tx # t
      BY <2>4, <2>14 DEF Fail
    <3>3. QED
      BY <2>1, <2>2, <3>1, <3>2, HandledAlone
  <2>15. CASE WithdrawSlots(r) \/ CloseListing(r)
    <3>1. /\ req[r].op \notin CascadeOps /\ abandoned' = abandoned
          /\ status' = status /\ (Withdrawn(t) => Withdrawn(t)')
      BY <2>15 DEF WithdrawSlots, CloseListing, Continue, CascadeOps, Withdrawn, saleVars
    <3>2. CASE WithdrawSlots(r)
      <4>1. req'[r].op = "close" /\ PropertyOf[t] \notin slotsOpen'
        BY <1>5, <2>3, <3>2 DEF WithdrawSlots, Ops
      <4>2. QED
        BY <2>1, <2>2, <3>1, <4>1, HandledAlone
    <3>3. CASE CloseListing(r)
      <4>1. req'[r].op = "fall" /\ Withdrawn(t)'
        BY <1>5, <2>3, <3>3 DEF CloseListing, Handled, Withdrawn, Ops
      <4>2. QED
        BY <2>1, <4>1, HandledAlone
    <3>4. QED
      BY <2>15, <3>2, <3>3
  <2>16. CASE WithdrawFall(r)
    <3>1. Withdrawn(t)'
      BY <1>5, <2>16 DEF WithdrawFall, Handled, Withdrawn, flatVars
    <3>2. req'[r].tx # t
      BY <2>4, <2>16 DEF WithdrawFall, Finish
    <3>3. QED
      BY <2>1, <3>1, <3>2, HandledAlone
  <2>17. QED
    BY <2>5, <2>6, <2>7, <2>8, <2>9, <2>10, <2>11, <2>12, <2>13, <2>14, <2>15, <2>16 DEF Step
<1>6. QED
  BY <1>4, <1>5

LEMMA HandledStart ==
  ASSUME TypeInv, NEW t \in Transactions, t \notin contended', Handled(t),
         NEW r \in Requests, NEW x \in Transactions, Start(r, x)
  PROVE  Handled(t)'
<1>1. TypeOK
  BY DEF TypeInv
<1>2. \A p \in Requests \ {r} : req'[p] = req[p]
  BY <1>1, Others
<1>3. req[r] = Idle /\ req[r].tx # t
  BY IdleFormed, TransactionAssumption DEF Start, CreateTransaction, RecordCounterpartyCdd,
     ReviewOtp, AdvanceStart, HdbStart, OtpStart, AdvanceOtpStart,
     MarkFallenThrough, WithdrawConsent, Begin, Once
<1>4. x = t => \A q \in Requests \ {r} : req[q].tx # t
  BY DEF Start, CreateTransaction, RecordCounterpartyCdd, ReviewOtp, AdvanceStart, HdbStart,
     OtpStart, AdvanceOtpStart, MarkFallenThrough, WithdrawConsent, Begin, Once, Contend
<1>5. /\ otpStatus' = otpStatus /\ slotsOpen' = slotsOpen /\ listed' = listed
      /\ abandoned' = abandoned
  BY DEF Start, CreateTransaction, RecordCounterpartyCdd, ReviewOtp, AdvanceStart, HdbStart,
     OtpStart, AdvanceOtpStart, MarkFallenThrough, WithdrawConsent, Begin, Once, otpVars, flatVars
<1>6. CASE x # t
  <2>1. status'[t] = status[t]
    BY <1>1, <1>6 DEF Start, CreateTransaction, RecordCounterpartyCdd, ReviewOtp, AdvanceStart,
       HdbStart, OtpStart, AdvanceOtpStart, MarkFallenThrough, WithdrawConsent, TypeOK, saleVars
  <2>2. req'[r].tx # t
    <3>1. ASSUME NEW op \in Ops, NEW next \in Values, Begin(r, x, op, next)
          PROVE  req'[r].tx # t
      BY <1>1, <1>6, <3>1, BeginMoves
    <3>2. ASSUME Once(r, x) PROVE req'[r].tx # t
      BY <1>3, <3>2 DEF Once
    <3>3. CASE AdvanceOtpStart(r, x)
      <4>1. PICK n \in Values : Begin(r, x, "advanceOtp", n)
        BY <3>3 DEF AdvanceOtpStart, OtpOrder, Values, OtpStatuses, LiveOtp
      <4>2. QED
        BY <3>1, <4>1 DEF Ops
    <3>4. CASE \/ \E s \in Statuses : AdvanceStart(r, x, s)
               \/ \E h \in HdbStatuses : HdbStart(r, x, h)
               \/ OtpStart(r, x) \/ MarkFallenThrough(r, x) \/ WithdrawConsent(r, x)
      BY <3>1, <3>4 DEF AdvanceStart, HdbStart, OtpStart, MarkFallenThrough, WithdrawConsent,
         Ops, Values, OtpStatuses, LiveOtp, Statuses, Terminal
    <3>5. QED
      BY <3>2, <3>3, <3>4 DEF Start, CreateTransaction, RecordCounterpartyCdd, ReviewOtp
  <2>3. QED
    BY <1>2, <1>3, <1>5, <2>1, <2>2, HandledElsewhere
<1>7. CASE x = t
  <2>1. \A q \in Requests \ {r} : req'[q].tx # t
    BY <1>2, <1>4, <1>7
  <2>2. status[t] = "fallen_through" /\ t \notin abandoned => Withdrawn(t)
    BY <1>3, <1>4, <1>7 DEF Handled
  <2>3. Withdrawn(t) => Withdrawn(t)'
    BY <1>5 DEF Withdrawn
  <2>4. ASSUME status'[t] = status[t] \/ status'[t] # "fallen_through",
               req'[r].tx = t => /\ req'[r].op \notin {"portals", "slots", "draft", "close", "fall"}
                                 /\ req'[r].op \in {"otp", "advanceOtp"} => Open(t)'
        PROVE  Handled(t)'
    BY <1>5, <2>1, <2>2, <2>3, <2>4, HandledAlone
  <2>5. CASE CreateTransaction(r, t) \/ RecordCounterpartyCdd(r, t) \/ ReviewOtp(r, t)
    <3>1. req'[r].tx # t
      BY <1>3, <2>5 DEF CreateTransaction, RecordCounterpartyCdd, ReviewOtp, Once
    <3>2. status'[t] = status[t] \/ status'[t] # "fallen_through"
      BY <1>1, <2>5 DEF CreateTransaction, RecordCounterpartyCdd, ReviewOtp, TypeOK, saleVars
    <3>3. QED
      BY <2>4, <3>1, <3>2
  <2>6. ASSUME NEW op \in Ops, NEW next \in Values, Begin(r, t, op, next), status' = status,
               op \notin {"portals", "slots", "draft", "close", "fall"},
               op \in {"otp", "advanceOtp"} => Open(t)
        PROVE  Handled(t)'
    <3>1. req'[r].op = op
      BY <1>1, <2>6, BeginMoves
    <3>2. Open(t)' <=> Open(t)
      BY <2>6 DEF Open
    <3>3. QED
      BY <2>4, <2>6, <3>1, <3>2
  <2>7. CASE \/ \E s \in Statuses : AdvanceStart(r, t, s)
             \/ \E h \in HdbStatuses : HdbStart(r, t, h)
             \/ OtpStart(r, t) \/ WithdrawConsent(r, t)
    BY <2>6, <2>7 DEF AdvanceStart, HdbStart, OtpStart, WithdrawConsent, Ops, Values,
       OtpStatuses, LiveOtp, Statuses, Terminal, saleVars
  <2>8. CASE AdvanceOtpStart(r, t)
    <3>1. PICK n \in Values : Begin(r, t, "advanceOtp", n)
      BY <2>8 DEF AdvanceOtpStart, OtpOrder, Values, OtpStatuses, LiveOtp
    <3>2. QED
      BY <2>6, <2>8, <3>1 DEF AdvanceOtpStart, Ops, saleVars
  <2>9. CASE MarkFallenThrough(r, t)
    <3>1. req'[r].op = "expire" /\ req'[r].tx = t
      BY <1>1, <2>9, BeginMoves DEF MarkFallenThrough, Ops, Values, OtpStatuses
    <3>2. QED
      BY <2>1, <3>1, HandledAlone DEF CascadeOps
  <2>10. QED
    BY <1>7, <2>5, <2>7, <2>8, <2>9 DEF Start
<1>8. QED
  BY <1>6, <1>7

LEMMA ContendedGrows ==
  ASSUME [Next]_vars
  PROVE  contended \subseteq contended'
<1>1. ASSUME NEW r \in Requests, Step(r) PROVE contended' = contended
  BY <1>1 DEF Step, CounterpartyGate, CompletionGate, StatusUpdate, HdbCommit, OtpCommit,
     AdvanceOtpCommit, SetExerciseDeadline, ReadOtp, ExpireOtp, ExpirePortalListings,
     CancelSlots, RevertToDraft, WithdrawSlots, CloseListing, WithdrawFall,
     Fail, Continue, Finish
<1>2. ASSUME NEW r \in Requests, NEW x \in Transactions, Start(r, x)
      PROVE  contended \subseteq contended'
  <2>1. Contend(r, x)
    BY <1>2 DEF Start, CreateTransaction, RecordCounterpartyCdd, ReviewOtp, AdvanceStart,
       HdbStart, OtpStart, AdvanceOtpStart, MarkFallenThrough, WithdrawConsent, Begin, Once
  <2>2. QED
    BY <2>1 DEF Contend
<1>3. ASSUME NEW x \in Transactions, VerifyCounterparty(x) PROVE contended' = contended
  BY <1>3 DEF VerifyCounterparty
<1>4. CASE UNCHANGED vars
  BY <1>4 DEF vars
<1>5. QED
  BY <1>1, <1>2, <1>3, <1>4 DEF Next

LEMMA CascadeStep == CascadeInv /\ [Next]_vars => CascadeInv'
<1> SUFFICES ASSUME CascadeInv, [Next]_vars, NEW t \in Transactions, t \notin contended'
             PROVE  Handled(t)'
  BY TypeInvStep DEF CascadeInv
<1>1. contended \subseteq contended'
  BY ContendedGrows
<1>2. TypeInv /\ Handled(t)
  BY <1>1 DEF CascadeInv
<1>3. ASSUME NEW r \in Requests, Step(r) PROVE Handled(t)'
  BY <1>2, <1>3, HandledRequest
<1>4. ASSUME NEW r \in Requests, NEW x \in Transactions, Start(r, x) PROVE Handled(t)'
  BY <1>2, <1>4, HandledStart
<1>5. ASSUME UNCHANGED <<status, otpStatus, slotsOpen, listed, req, abandoned>>
      PROVE  Handled(t)'
  BY <1>2, <1>5 DEF Handled, Open, Withdrawn
<1>6. ASSUME NEW x \in Transactions, VerifyCounterparty(x) PROVE Handled(t)'
  BY <1>5, <1>6 DEF VerifyCounterparty, otpVars, flatVars
<1>7. CASE UNCHANGED vars
  BY <1>5, <1>7 DEF vars, saleVars, otpVars, flatVars
<1>8. QED
  BY <1>3, <1>4, <1>6, <1>7 DEF Next

\* A sale that fell through, handled by one request at a time, leaves no open
\* slot and no listing on the market.
THEOREM FallenThroughIsWithdrawnKept == Spec => []FallenThroughIsWithdrawn
<1>1. CascadeInv => FallenThroughIsWithdrawn
  BY DEF CascadeInv, Handled, FallenThroughIsWithdrawn, Withdrawn, Quiet
<1>2. QED
  BY CascadeInit, CascadeStep, <1>1, PTL DEF Spec

\* A cascade that worked alone ends with its OTP expired or exercised.
THEOREM CascadeExpiresOtpKept == Spec => CascadeExpiresOtp
<1> DEFINE Expires == \A r \in Requests :
             (RevertToDraft(r) /\ req[r].tx \notin contended) => otpStatus[req[r].tx] \notin LiveOtp
<1>1. CascadeInv => Expires
  BY AtWork DEF CascadeInv, Handled, RevertToDraft
<1>2. CascadeInv /\ [Next]_vars => [Expires]_vars
  BY <1>1
<1>3. QED
  BY CascadeInit, CascadeStep, <1>2, PTL DEF Spec, CascadeExpiresOtp

\* The option has its type and its deadline.
THEOREM OptionIsSoundKept == Spec => []OptionIsSound
<1>1. Spec => [](TypeOK /\ IssuedHasDeadline)
  BY TypeCorrect, IssuedHasDeadlineKept, PTL
<1>2. QED
  BY <1>1 DEF OptionIsSound

-----------------------------------------------------------------------------
(* The gates of a transaction handled by one request at a time.            *)

\* One step along OTP_TRANSITIONS.
Follows(s, n) ==
  \E i \in DOMAIN OtpOrder \ {Len(OtpOrder)} : OtpOrder[i] = s /\ OtpOrder[i + 1] = n

\* What a request checked or read on its way still holds.
Passed(q, t) ==
  /\ q.op \in {"approval", "update"} => t \in CoBroke \/ counterpartyCdd[t] = "verified"
  /\ q.op = "update" /\ q.next = "completed" => hdbApplicationStatus[t] = "approval_granted"
  /\ q.op = "hdb" /\ q.next = "application_submitted" => otpStatus[t] = "exercised"
  /\ q.op = "advanceOtp" => Follows(otpStatus[t], q.next)
  /\ q.op = "expiring" => otpStatus[t] \in LiveOtp

Exercised(t) == hdbApplicationStatus[t] = "application_submitted" => otpStatus[t] = "exercised"

Gated(t) == Exercised(t) /\ \A r \in Requests : req[r].tx = t => Passed(req[r], t)

GateInv == CascadeInv /\ \A t \in Transactions : t \notin contended => Gated(t)

\* StepsAreGated, of one transaction.
StepIsGated(t) ==
  /\ otpStatus'[t] # otpStatus[t] => OtpMoves(t)
  /\ status[t] # "completed" /\ status'[t] = "completed" =>
       /\ hdbApplicationStatus[t] = "approval_granted"
       /\ t \in CoBroke \/ counterpartyCdd[t] = "verified"

LEMMA FollowsLive ==
  ASSUME NEW s, NEW n, Follows(s, n)
  PROVE  s \in LiveOtp
  BY DEF Follows, OtpOrder, LiveOtp

LEMMA GateInit == Init => GateInv
<1> SUFFICES ASSUME Init, NEW t \in Transactions PROVE Gated(t)
  BY CascadeInit DEF GateInv
<1>1. QED
  BY IdleFormed, TransactionAssumption DEF Init, Gated, Exercised

\* A step that leaves the row of the transaction alone, by a request on another.
LEMMA GatedElsewhere ==
  ASSUME NEW t \in Transactions, Gated(t), NEW r \in Requests, req'[r].tx # t,
         \A p \in Requests \ {r} : req'[p] = req[p],
         status'[t] = status[t], otpStatus'[t] = otpStatus[t],
         hdbApplicationStatus'[t] = hdbApplicationStatus[t],
         counterpartyCdd'[t] = counterpartyCdd[t]
  PROVE  Gated(t)' /\ StepIsGated(t)
  BY DEF Gated, Exercised, Passed, StepIsGated

\* A step by the only request at work on the transaction.
LEMMA GatedAlone ==
  ASSUME NEW t \in Transactions, NEW r \in Requests, Exercised(t)',
         \A q \in Requests \ {r} : req'[q].tx # t,
         req'[r].tx = t => Passed(req[r], t)'
  PROVE  Gated(t)'
  BY DEF Gated

LEMMA GatedRequest ==
  ASSUME TypeInv, NEW t \in Transactions, Handled(t), Gated(t), NEW r \in Requests, Step(r)
  PROVE  Gated(t)' /\ StepIsGated(t)
<1>1. TypeOK /\ WellFormed(req[r])
  BY DEF TypeInv
<1>2. \A p \in Requests \ {r} : req'[p] = req[p]
  BY <1>1, Others
<1>3. /\ req[r].op # "idle" /\ req[r].tx \in Transactions
      /\ req'[r].tx \in {req[r].tx, NoTransaction}
  BY StepMoves
<1>4. CASE req[r].tx # t
  <2>1. /\ status'[t] = status[t] /\ otpStatus'[t] = otpStatus[t]
        /\ hdbApplicationStatus'[t] = hdbApplicationStatus[t]
        /\ counterpartyCdd'[t] = counterpartyCdd[t]
    BY <1>1, <1>3, <1>4 DEF Step, CounterpartyGate, CompletionGate, StatusUpdate, HdbCommit,
       OtpCommit, AdvanceOtpCommit, SetExerciseDeadline, ReadOtp, ExpireOtp,
       ExpirePortalListings, CancelSlots, RevertToDraft, WithdrawSlots, CloseListing,
       WithdrawFall, Fail, TypeOK, saleVars, otpVars
  <2>2. QED
    BY <1>2, <1>3, <1>4, <2>1, GatedElsewhere, TransactionAssumption
<1>5. CASE req[r].tx = t
  <2>1. \A q \in Requests \ {r} : req'[q].tx # t
    BY <1>2, <1>5 DEF Handled
  <2>2. Passed(req[r], t) /\ Exercised(t)
    BY <1>5 DEF Gated
  <2>3. ASSUME NEW op \in Ops, Continue(r, op)
        PROVE  req'[r].op = op /\ req'[r].next = req[r].next
    BY <1>1, <2>3, ContinueMoves
  <2>4. ASSUME req' = [req EXCEPT ![r] = Idle] PROVE req'[r].tx # t
    BY <1>1, <2>4, FinishMoves, IdleFormed, TransactionAssumption
  <2> DEFINE Same == /\ hdbApplicationStatus' = hdbApplicationStatus
                     /\ counterpartyCdd' = counterpartyCdd
                     /\ otpStatus' = otpStatus
  <2>5. CASE CounterpartyGate(r) \/ CompletionGate(r)
    <3>1. Same /\ status' = status
      BY <2>5 DEF CounterpartyGate, CompletionGate, saleVars, otpVars
    <3>2. t \in CoBroke \/ counterpartyCdd[t] = "verified"
      BY <1>5, <2>2, <2>5 DEF CounterpartyGate, CompletionGate, Passed
    <3>3. /\ req'[r].op \in {"approval", "update"}
          /\ req'[r].op = "update" /\ req'[r].next = "completed" =>
               hdbApplicationStatus[t] = "approval_granted"
      <4>1. CASE CounterpartyGate(r)
        <5>1. CASE req[r].next = "completed"
          BY <2>3, <4>1, <5>1 DEF CounterpartyGate, Ops
        <5>2. CASE req[r].next # "completed"
          BY <2>3, <4>1, <5>2 DEF CounterpartyGate, Ops
        <5>3. QED
          BY <5>1, <5>2
      <4>2. CASE CompletionGate(r)
        BY <1>5, <2>3, <4>2 DEF CompletionGate, Ops
      <4>3. QED
        BY <2>5, <4>1, <4>2
    <3>4. Passed(req[r], t)' /\ Exercised(t)'
      BY <2>2, <3>1, <3>2, <3>3 DEF Passed, Exercised
    <3>5. QED
      BY <2>1, <3>1, <3>4, GatedAlone DEF StepIsGated
  <2>6. CASE StatusUpdate(r)
    <3>1. Same /\ status'[t] = req[r].next
      BY <1>1, <1>5, <2>6 DEF StatusUpdate, TypeOK, otpVars
    <3>2. req'[r].tx # t
      BY <2>4, <2>6 DEF StatusUpdate, Finish
    <3>3. StepIsGated(t)
      BY <2>2, <2>6, <3>1 DEF StatusUpdate, Passed, StepIsGated
    <3>4. QED
      BY <2>1, <2>2, <3>1, <3>2, <3>3, GatedAlone DEF Exercised
  <2>7. CASE SetExerciseDeadline(r) \/ RevertToDraft(r) \/ WithdrawFall(r) \/ Fail(r)
    <3>1. Same
      BY <2>7 DEF SetExerciseDeadline, RevertToDraft, WithdrawFall, Fail, saleVars, otpVars
    <3>2. status'[t] \in {status[t], "fallen_through"}
      BY <1>1, <1>5, <2>7 DEF SetExerciseDeadline, RevertToDraft, WithdrawFall, Fail, TypeOK,
         saleVars
    <3>3. req'[r].tx # t
      BY <2>4, <2>7 DEF SetExerciseDeadline, RevertToDraft, WithdrawFall, Fail, Finish
    <3>4. QED
      BY <2>1, <2>2, <3>1, <3>2, <3>3, GatedAlone DEF Exercised, StepIsGated
  <2>8. CASE HdbCommit(r)
    <3>1. /\ hdbApplicationStatus'[t] = req[r].next
          /\ otpStatus' = otpStatus /\ status' = status
      BY <1>1, <1>5, <2>8 DEF HdbCommit, TypeOK, otpVars
    <3>2. Exercised(t)'
      BY <2>2, <2>8, <3>1 DEF HdbCommit, Passed, Exercised
    <3>3. req'[r].tx # t
      BY <2>4, <2>8 DEF HdbCommit, Finish
    <3>4. QED
      BY <2>1, <3>1, <3>2, <3>3, GatedAlone DEF StepIsGated
  <2>9. CASE OtpCommit(r) \/ AdvanceOtpCommit(r) \/ ExpireOtp(r)
    <3>1. /\ otpStatus'[t] = req[r].next /\ status' = status
          /\ hdbApplicationStatus' = hdbApplicationStatus
      BY <1>1, <1>5, <2>9 DEF OtpCommit, AdvanceOtpCommit, ExpireOtp, TypeOK, saleVars
    <3>2. /\ OtpCommit(r) => otpStatus[t] = "none" /\ req[r].next = "prepared"
          /\ AdvanceOtpCommit(r) => Follows(otpStatus[t], req[r].next)
          /\ ExpireOtp(r) => otpStatus[t] \in LiveOtp /\ req[r].next = "expired"
      BY <1>1, <1>5, <2>2 DEF OtpCommit, AdvanceOtpCommit, ExpireOtp, Passed, WellFormed
    <3>3. OtpMoves(t)
      BY <2>9, <3>1, <3>2 DEF OtpMoves, Follows
    <3>4. otpStatus[t] # "exercised"
      BY <2>9, <3>2, FollowsLive DEF LiveOtp
    <3>5. Exercised(t)'
      BY <2>2, <3>1, <3>4 DEF Exercised
    <3>6. req'[r].tx # t \/ req'[r].op \in {"deadline", "portals"}
      BY <2>3, <2>4, <2>9 DEF OtpCommit, AdvanceOtpCommit, ExpireOtp, Finish, Ops
    <3>7. QED
      BY <2>1, <3>1, <3>3, <3>5, <3>6, GatedAlone DEF StepIsGated, Passed
  <2>10. CASE ReadOtp(r)
    <3>1. Same /\ status' = status
      BY <2>10 DEF ReadOtp, saleVars, otpVars
    <3>2. /\ req'[r].op \in {"expiring", "portals"}
          /\ req'[r].op = "expiring" => otpStatus[t] \in LiveOtp
      <4>1. CASE otpStatus[t] \in LiveOtp
        BY <1>5, <2>3, <2>10, <4>1 DEF ReadOtp, Ops
      <4>2. CASE otpStatus[t] \notin LiveOtp
        BY <1>5, <2>3, <2>10, <4>2 DEF ReadOtp, Ops
      <4>3. QED
        BY <4>1, <4>2
    <3>3. QED
      BY <2>1, <2>2, <3>1, <3>2, GatedAlone DEF Exercised, Passed, StepIsGated
  <2>11. CASE \/ ExpirePortalListings(r) \/ CancelSlots(r)
              \/ WithdrawSlots(r) \/ CloseListing(r)
    <3>1. Same /\ status' = status
      BY <2>11 DEF ExpirePortalListings, CancelSlots, WithdrawSlots, CloseListing,
         saleVars, otpVars
    <3>2. req'[r].op \in {"slots", "draft", "close", "fall"}
      BY <2>3, <2>11 DEF ExpirePortalListings, CancelSlots, WithdrawSlots, CloseListing, Ops
    <3>3. QED
      BY <2>1, <2>2, <3>1, <3>2, GatedAlone DEF Exercised, Passed, StepIsGated
  <2>12. QED
    BY <2>5, <2>6, <2>7, <2>8, <2>9, <2>10, <2>11 DEF Step
<1>6. QED
  BY <1>4, <1>5

\* What a handler begins with on its transaction.
LEMMA StartMoves ==
  ASSUME TypeInv, NEW r \in Requests, NEW x \in Transactions, Start(r, x)
  PROVE  /\ req[r] = Idle /\ Contend(r, x)
         /\ \/ req' = req
            \/ \E op \in Ops, next \in Values :
                 Begin(r, x, op, next) /\ req'[r].tx = x /\ req'[r].op = op /\ req'[r].next = next
<1>1. req[r] = Idle /\ Contend(r, x)
  BY DEF Start, CreateTransaction, RecordCounterpartyCdd, ReviewOtp, AdvanceStart, HdbStart,
     OtpStart, AdvanceOtpStart, MarkFallenThrough, WithdrawConsent, Begin, Once
<1>2. CASE CreateTransaction(r, x) \/ RecordCounterpartyCdd(r, x) \/ ReviewOtp(r, x)
  BY <1>1, <1>2 DEF CreateTransaction, RecordCounterpartyCdd, ReviewOtp, Once
<1>3. ASSUME NEW op \in Ops, NEW next \in Values, Begin(r, x, op, next)
      PROVE  req'[r].tx = x /\ req'[r].op = op /\ req'[r].next = next
  BY <1>3, BeginMoves DEF TypeInv
<1>4. CASE AdvanceOtpStart(r, x)
  <2>1. PICK n \in Values : Begin(r, x, "advanceOtp", n)
    BY <1>4 DEF AdvanceOtpStart, OtpOrder, Values, OtpStatuses, LiveOtp
  <2>2. "advanceOtp" \in Ops
    BY DEF Ops
  <2>3. QED
    BY <1>1, <1>3, <2>1, <2>2
<1>5. CASE \/ \E s \in Statuses : AdvanceStart(r, x, s)
           \/ \E h \in HdbStatuses : HdbStart(r, x, h)
           \/ OtpStart(r, x) \/ MarkFallenThrough(r, x) \/ WithdrawConsent(r, x)
  <2>1. \E op \in Ops, next \in Values : Begin(r, x, op, next)
    BY <1>5 DEF AdvanceStart, HdbStart, OtpStart, MarkFallenThrough, WithdrawConsent,
       Ops, Values, OtpStatuses, LiveOtp, Statuses, Terminal
  <2>2. QED
    BY <1>1, <1>3, <2>1
<1>6. QED
  BY <1>1, <1>2, <1>4, <1>5 DEF Start

LEMMA GatedStart ==
  ASSUME TypeInv, NEW t \in Transactions, t \notin contended', Gated(t),
         NEW r \in Requests, NEW x \in Transactions, Start(r, x)
  PROVE  Gated(t)' /\ StepIsGated(t)
<1>1. TypeOK
  BY DEF TypeInv
<1>2. \A p \in Requests \ {r} : req'[p] = req[p]
  BY <1>1, Others
<1>3. req[r] = Idle /\ Contend(r, x)
  BY StartMoves
<1>4. \/ req' = req
      \/ req'[r].tx = x
  BY StartMoves
<1>5. otpStatus' = otpStatus /\ hdbApplicationStatus' = hdbApplicationStatus
  BY DEF Start, CreateTransaction, RecordCounterpartyCdd, ReviewOtp, AdvanceStart, HdbStart,
     OtpStart, AdvanceOtpStart, MarkFallenThrough, WithdrawConsent, saleVars, otpVars
<1>6. CASE x # t
  <2>1. /\ status'[t] = status[t] /\ counterpartyCdd'[t] = counterpartyCdd[t]
    BY <1>1, <1>6 DEF Start, CreateTransaction, RecordCounterpartyCdd, ReviewOtp, AdvanceStart,
       HdbStart, OtpStart, AdvanceOtpStart, MarkFallenThrough, WithdrawConsent, TypeOK, saleVars
  <2>2. req'[r].tx # t
    BY <1>3, <1>4, <1>6, IdleFormed, TransactionAssumption
  <2>3. QED
    BY <1>2, <1>5, <2>1, <2>2, GatedElsewhere
<1>7. CASE x = t
  <2>1. \A q \in Requests \ {r} : req'[q].tx # t
    BY <1>2, <1>3, <1>7 DEF Contend
  <2>2. status'[t] \in {status[t], "option_issued", "fallen_through"}
    BY <1>1, <1>7 DEF Start, CreateTransaction, RecordCounterpartyCdd, ReviewOtp, AdvanceStart,
       HdbStart, OtpStart, AdvanceOtpStart, MarkFallenThrough, WithdrawConsent, TypeOK, saleVars
  <2>3. Exercised(t)' /\ StepIsGated(t)
    BY <1>5, <2>2 DEF Gated, Exercised, StepIsGated
  <2>4. ASSUME NEW op \in Ops, NEW next \in Values, Begin(r, t, op, next)
        PROVE  req'[r].op = op /\ req'[r].next = next
    BY <1>1, <2>4, BeginMoves
  <2>5. req'[r].tx = t => Passed(req[r], t)'
    <3>1. CASE CreateTransaction(r, t) \/ RecordCounterpartyCdd(r, t) \/ ReviewOtp(r, t)
      BY <1>3, <3>1, IdleFormed, TransactionAssumption
         DEF CreateTransaction, RecordCounterpartyCdd, ReviewOtp, Once
    <3>2. CASE AdvanceOtpStart(r, t)
      <4>1. PICK n \in Values : Begin(r, t, "advanceOtp", n) /\ Follows(otpStatus[t], n)
        BY <3>2 DEF AdvanceOtpStart, Follows, OtpOrder, Values, OtpStatuses, LiveOtp
      <4>2. req'[r].op = "advanceOtp" /\ req'[r].next = n
        BY <2>4, <4>1 DEF Ops
      <4>3. QED
        BY <1>5, <4>1, <4>2 DEF Passed
    <3>3. ASSUME NEW h \in HdbStatuses, HdbStart(r, t, h)
          PROVE  Passed(req[r], t)'
      <4>1. req'[r].op = "hdb" /\ req'[r].next = h
        BY <2>4, <3>3 DEF HdbStart, Ops, Values
      <4>2. QED
        BY <1>5, <3>3, <4>1 DEF HdbStart, Passed
    <3>4. CASE \/ \E s \in Statuses : AdvanceStart(r, t, s)
               \/ OtpStart(r, t) \/ MarkFallenThrough(r, t) \/ WithdrawConsent(r, t)
      <4>1. req'[r].op \in {"gate", "otp", "expire", "withdraw"}
        BY <2>4, <3>4 DEF AdvanceStart, OtpStart, MarkFallenThrough, WithdrawConsent,
           Ops, Values, OtpStatuses, LiveOtp, Statuses, Terminal
      <4>2. QED
        BY <4>1 DEF Passed
    <3>5. QED
      BY <1>7, <3>1, <3>2, <3>3, <3>4 DEF Start
  <2>6. QED
    BY <2>1, <2>3, <2>5, GatedAlone
<1>8. QED
  BY <1>6, <1>7

LEMMA GateStep ==
  GateInv /\ [Next]_vars => GateInv' /\ \A t \in Transactions \ contended' : StepIsGated(t)
<1> SUFFICES ASSUME GateInv, [Next]_vars, NEW t \in Transactions, t \notin contended'
             PROVE  Gated(t)' /\ StepIsGated(t)
  BY CascadeStep DEF GateInv
<1>1. TypeInv /\ Handled(t) /\ Gated(t)
  BY ContendedGrows DEF GateInv, CascadeInv
<1>2. ASSUME NEW r \in Requests, Step(r) PROVE Gated(t)' /\ StepIsGated(t)
  BY <1>1, <1>2, GatedRequest
<1>3. ASSUME NEW r \in Requests, NEW x \in Transactions, Start(r, x)
      PROVE  Gated(t)' /\ StepIsGated(t)
  BY <1>1, <1>3, GatedStart
<1>4. ASSUME NEW x \in Transactions, VerifyCounterparty(x)
      PROVE  Gated(t)' /\ StepIsGated(t)
  <2>1. /\ UNCHANGED <<status, hdbApplicationStatus, otpStatus, req>>
        /\ counterpartyCdd[t] = "verified" => counterpartyCdd'[t] = "verified"
    BY <1>1, <1>4 DEF VerifyCounterparty, otpVars, TypeInv, TypeOK
  <2>2. QED
    BY <1>1, <2>1 DEF Gated, Exercised, Passed, StepIsGated
<1>5. CASE UNCHANGED vars
  BY <1>1, <1>5 DEF vars, saleVars, otpVars, Gated, Exercised, Passed, StepIsGated
<1>6. QED
  BY <1>2, <1>3, <1>4, <1>5 DEF Next

\* While HDB has the application, the OTP is exercised and stays so, on a sale no
\* two requests handled at once.
THEOREM SubmittedIsExercisedKept == Spec => []SubmittedIsExercised
<1>1. GateInv => SubmittedIsExercised
  BY DEF GateInv, Gated, Exercised, SubmittedIsExercised
<1>2. QED
  BY GateInit, GateStep, <1>1, PTL DEF Spec

\* The OTP keeps to its table and the sale completes on what its gates saw, on a
\* sale no two requests handled at once.
THEOREM StepsAreGatedKept == Spec => StepsAreGated
<1> DEFINE Step1 == \A t \in Transactions \ contended' : StepIsGated(t)
<1>1. GateInv /\ [Next]_vars => [Step1]_vars
  BY GateStep
<1>2. QED
  BY GateInit, GateStep, <1>1, PTL DEF Spec, StepsAreGated, StepIsGated
=============================================================================
