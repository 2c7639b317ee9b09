--------------------------- MODULE ComplianceProofs ---------------------------
(***************************************************************************)
(* Proofs about PersonalData, SellerDocuments, SaleDocuments and           *)
(* Retention, for any number of handlers, of requests for deletion, of     *)
(* documents and files, of sellers, sales and failures.                    *)
(***************************************************************************)
EXTENDS MCPersonalData, Retention, FiniteSetTheorems, TLAPS

\* The steps of executeHardDelete.
Erasing == {"collect", "delete", "unlink", "execute"}

TaskType ==
  task \in [Requests -> [op : {"idle", "flag"} \cup Erasing \cup ConsentOps,
                         seen : SUBSET Purposes,
                         purpose : Purposes \cup {"none"},
                         q : Deletions \cup {NoDeletion}]]

TypeInv == DataTypeOK /\ TaskType

\* Unless two have met, one handler at most is about to write a consent, and what
\* it read is still so.
ReadHolds ==
  ~contended => \A r \in Requests : task[r].op \in ConsentOps =>
    /\ task[r].seen = consent
    /\ \A p \in Requests : task[p].op \in ConsentOps => p = r

ConsentInv == ReadHolds /\ RecordFollowsConsent

\* A request that was made says what to delete, and deletes nothing before it is made.
Made ==
  /\ \A q \in Deletions : deletion[q].status # "none" => deletion[q].target \in Targets
  /\ \A t \in Targets : killer[t] \in Deletions => deletion[killer[t]].status # "none"

\* What a request for deletion has deleted is gone for good.
Erased(q) == killer[deletion[q].target] = q /\ deletion[q].target \notin alive

\* Only an execution holds a request for deletion, one that was made; past its
\* delete, the row is gone by its hand.
Executions ==
  \A r \in Requests :
    IF task[r].op \in Erasing
      THEN /\ task[r].q \in Deletions /\ deletion[task[r].q].status # "none"
           /\ \/ task[r].op = "execute"
              \/ task[r].op = "unlink" /\ TargetOf(r) # "listing"
              => Erased(task[r].q)
      ELSE task[r].q = NoDeletion

ExecutedIsGone ==
  \A q \in Deletions : deletion[q].status = "executed" => Erased(q)

ErasureInv == Made /\ Executions /\ ExecutedIsGone /\ StuckIsExplained

DataInv == TypeInv /\ ConsentInv /\ ErasureInv

-----------------------------------------------------------------------------

LEMMA InitInv == DataInit => DataInv
<1> SUFFICES ASSUME DataInit PROVE DataInv
  OBVIOUS
<1> USE DEF DataInit, Free
<1>1. TypeInv
  BY DEF TypeInv, DataTypeOK, TaskType, Purposes, Targets, ConsentOps
<1>2. ConsentInv
  BY DEF ConsentInv, ReadHolds, RecordFollowsConsent, ConsentOps
<1>3. ErasureInv
  BY DeletionAssumption
     DEF ErasureInv, Made, Executions, ExecutedIsGone, StuckIsExplained, Erasing
<1> QED
  BY <1>1, <1>2, <1>3 DEF DataInv

-----------------------------------------------------------------------------
(* What the helpers do to a handler's state.                               *)

States == [op : {"idle", "flag"} \cup Erasing \cup ConsentOps, seen : SUBSET Purposes,
           purpose : Purposes \cup {"none"}, q : Deletions \cup {NoDeletion}]

LEMMA Began ==
  ASSUME TaskType, NEW r \in Requests, NEW state \in States, Begin(r, state)
  PROVE  /\ TaskType' /\ task[r].op = "idle" /\ task'[r] = state
         /\ \A p \in Requests \ {r} : task'[p] = task[p]
BY DEF TaskType, States, Begin

LEMMA Went ==
  ASSUME TaskType, NEW r \in Requests,
         NEW op \in {"idle", "flag"} \cup Erasing \cup ConsentOps, Go(r, op)
  PROVE  /\ TaskType'
         /\ task'[r].op = op /\ task'[r].q = task[r].q
         /\ \A p \in Requests \ {r} : task'[p] = task[p]
<1>1. [task[r] EXCEPT !.op = op] \in States
  BY DEF TaskType, States
<1>2. task' = [task EXCEPT ![r] = [task[r] EXCEPT !.op = op]]
  BY DEF Go, TaskType
<1> QED
  BY <1>1, <1>2 DEF TaskType, States

LEMMA Ended ==
  ASSUME TaskType, NEW r \in Requests, End(r)
  PROVE  /\ TaskType' /\ task'[r] = Free
         /\ \A p \in Requests \ {r} : task'[p] = task[p]
<1>1. Free \in States
  BY DEF Free, States
<1> QED
  BY <1>1 DEF TaskType, States, End

\* The types of the rows follow from those of what is written.
LEMMA RowsKept ==
  ASSUME TypeInv, TaskType',
         consent' \subseteq Purposes, record' \subseteq Purposes \cup {"huttons"},
         contended' \in BOOLEAN, alive' \subseteq Targets,
         deletion' \in [Deletions -> [status : {"none", "flagged", "executed"},
                                      target : Targets \cup {"none"}]],
         killer' \in [Targets -> Deletions \cup {NoDeletion, "account"}],
         torn' \subseteq Deletions
  PROVE  TypeInv'
<1>1. \A r \in Requests :
        /\ task'[r].op \in {"idle", "collect", "delete", "unlink", "execute", "flag"} \cup ConsentOps
        /\ task'[r].seen \subseteq Purposes /\ task'[r].q \in Deletions \cup {NoDeletion}
  BY DEF TaskType, Erasing
<1> QED
  BY <1>1 DEF TypeInv, DataTypeOK

LEMMA KillType ==
  ASSUME TypeInv, NEW target \in Targets, NEW who \in Deletions \cup {"account"},
         KillBy(target, who)
  PROVE  /\ alive' \subseteq Targets
         /\ killer' \in [Targets -> Deletions \cup {NoDeletion, "account"}]
BY DEF KillBy, TypeInv, DataTypeOK

LEMMA CreateType ==
  ASSUME TypeInv, NEW target \in Targets, CreateDeletionRequest(target)
  PROVE  deletion' \in [Deletions -> [status : {"none", "flagged", "executed"},
                                      target : Targets \cup {"none"}]]
BY DEF CreateDeletionRequest, TypeInv, DataTypeOK

-----------------------------------------------------------------------------
(* A step leaves one of the two halves, consent and deletion, as it is.    *)

\* No handler is newly about to write a consent, so what holds of them stays.
LEMMA ConsentLeft ==
  ASSUME ConsentInv, UNCHANGED consentVars, alive' \subseteq alive,
         \A r \in Requests : task'[r].op \in ConsentOps => task'[r] = task[r]
  PROVE  ConsentInv'
BY DEF ConsentInv, ReadHolds, RecordFollowsConsent, consentVars

\* No execution starts, goes on or ends.
LEMMA ErasureLeft ==
  ASSUME ErasureInv, UNCHANGED deletionVars, NEW r \in Requests,
         \A p \in Requests \ {r} : task'[p] = task[p],
         task[r].op \notin Erasing, task'[r].op \notin Erasing, task'[r].q = NoDeletion
  PROVE  ErasureInv'
<1>1. task[r].q = NoDeletion
  BY DEF ErasureInv, Executions
<1>2. Made' /\ ExecutedIsGone'
  BY DEF ErasureInv, deletionVars, Made, ExecutedIsGone, Erased
<1>3. Executions'
  BY DEF ErasureInv, deletionVars, Executions, Erased, TargetOf
<1>4. StuckIsExplained'
  BY <1>1, DeletionAssumption DEF ErasureInv, deletionVars, StuckIsExplained
<1> QED
  BY <1>2, <1>3, <1>4 DEF ErasureInv

\* A request is made that was not; no execution is about it.
LEMMA CreateKeeps ==
  ASSUME TypeInv, ErasureInv, NEW target \in Targets, CreateDeletionRequest(target),
         UNCHANGED <<alive, killer, torn>>,
         \A p \in Requests : \/ task'[p] = task[p]
                             \/ /\ task[p].op \notin Erasing /\ task'[p].op \notin Erasing
                                /\ task'[p].q = NoDeletion
  PROVE  ErasureInv'
<1> PICK q \in Deletions : /\ deletion[q].status = "none"
                           /\ deletion' = [deletion EXCEPT
                                ![q] = [status |-> "flagged", target |-> target]]
  BY DEF CreateDeletionRequest
<1> USE DEF ErasureInv
<1>1. /\ deletion'[q].status = "flagged" /\ deletion'[q].target = target
      /\ \A o \in Deletions \ {q} : deletion'[o] = deletion[o]
  BY DEF TypeInv, DataTypeOK
<1>2. Made'
  BY <1>1 DEF Made
<1>3. Executions'
  BY <1>1 DEF Executions, Erased, TargetOf
<1>4. ExecutedIsGone'
  BY <1>1 DEF ExecutedIsGone, Erased
<1>5. StuckIsExplained'
  <2>1. killer[target] # q
    BY DEF Made
  <2>2. ASSUME NEW o \in Deletions \ {q}, NEW p \in Requests, task[p].q = o
        PROVE  task'[p].q = o
    BY <2>2, DeletionAssumption DEF Executions
  <2> QED
    BY <1>1, <2>1, <2>2 DEF StuckIsExplained
<1> QED
  BY <1>2, <1>3, <1>4, <1>5

\* A deletion takes nothing back from another: what is gone stays gone, and who
\* deleted it is not rewritten.
LEMMA KillKeeps ==
  ASSUME TypeInv, ErasureInv, NEW target \in Targets,
         NEW who \in Deletions \cup {"account"}, KillBy(target, who),
         who \in Deletions => deletion[who].status # "none",
         UNCHANGED <<deletion, torn>>,
         \A q \in Deletions : q # who =>
           \A p \in Requests : task[p].q = q => task'[p].q = q,
         who \in Deletions => \E p \in Requests : task'[p].q = who
  PROVE  /\ Made' /\ ExecutedIsGone' /\ StuckIsExplained'
         /\ \A q \in Deletions : deletion[q].status # "none" /\ Erased(q) => Erased(q)'
<1> USE DEF ErasureInv
<1>1. \A t \in Targets :
        /\ t \notin alive => t \notin alive' /\ killer'[t] = killer[t]
        /\ t \in alive /\ t \notin alive' => killer'[t] = who
        /\ killer'[t] \in {killer[t], who}
  BY DEF KillBy, TypeInv, DataTypeOK
<1>2. Made'
  BY <1>1 DEF Made
<1>3. \A q \in Deletions : deletion[q].status # "none" /\ Erased(q) => Erased(q)'
  BY <1>1 DEF Erased, Made
<1>4. ExecutedIsGone'
  BY <1>3 DEF ExecutedIsGone
<1>5. StuckIsExplained'
  <2> SUFFICES ASSUME NEW q \in Deletions, deletion[q].status = "flagged",
                      deletion[q].target \notin alive'
               PROVE  \/ killer'[deletion[q].target] # q
                      \/ q \in torn
                      \/ \E r \in Requests : task'[r].q = q
    BY DEF StuckIsExplained
  <2>0. deletion[q].target \in Targets
    BY DEF Made
  <2>1. CASE q = who
    BY <2>1
  <2>2. CASE q # who /\ deletion[q].target \in alive
    BY <1>1, <2>0, <2>2
  <2>3. CASE q # who /\ deletion[q].target \notin alive
    BY <1>1, <2>0, <2>3 DEF StuckIsExplained
  <2> QED
    BY <2>1, <2>2, <2>3
<1> QED
  BY <1>2, <1>3, <1>4, <1>5

-----------------------------------------------------------------------------
(* Consent.                                                                *)

LEMMA ReadConsentStep ==
  ASSUME DataInv, NEW r \in Requests, NEW op \in ConsentOps,
         NEW purpose \in Purposes \cup {"none"}, ReadConsent(r, op, purpose)
  PROVE  DataInv'
<1> USE DEF DataInv
<1> DEFINE state == [Free EXCEPT !.op = op, !.seen = consent, !.purpose = purpose]
<1>0. state \in States /\ state.op = op /\ state.seen = consent /\ state.q = NoDeletion
  BY DEF TypeInv, DataTypeOK, Free, States
<1>1. /\ TaskType' /\ task[r].op = "idle" /\ task'[r] = state
      /\ \A p \in Requests \ {r} : task'[p] = task[p]
  BY <1>0, Began DEF ReadConsent, TypeInv
<1> HIDE DEF state
<1>2. TypeInv'
  BY <1>1, RowsKept DEF ReadConsent, Contend, deletionVars, TypeInv, DataTypeOK
<1>3. ReadHolds'
  BY <1>0, <1>1 DEF ReadConsent, Contend, ConsentInv, ReadHolds, ConsentOps
<1>4. RecordFollowsConsent'
  BY DEF ReadConsent, Contend, deletionVars, ConsentInv, RecordFollowsConsent
<1>5. ErasureInv'
  BY <1>0, <1>1, ErasureLeft DEF ReadConsent, ConsentOps, Erasing
<1> QED
  BY <1>2, <1>3, <1>4, <1>5 DEF ConsentInv

\* A handler that writes a consent made from what it has read is the only one.
LEMMA WriteConsentStep ==
  ASSUME DataInv, NEW r \in Requests, task[r].op \in ConsentOps, TaskType',
         task'[r].op \in {"idle", "flag"}, task'[r].q = NoDeletion,
         \A p \in Requests \ {r} : task'[p] = task[p],
         consent' \subseteq Purposes, record' \subseteq Purposes \cup {"huttons"},
         task[r].seen = consent => record' \ {"huttons"} = consent',
         UNCHANGED <<contended, deletionVars>>
  PROVE  DataInv'
<1> USE DEF DataInv
<1>1. TypeInv'
  BY RowsKept DEF deletionVars, TypeInv, DataTypeOK
<1>2. ASSUME ~contended
      PROVE  task[r].seen = consent /\ \A p \in Requests : task'[p].op \notin ConsentOps
  BY <1>2 DEF ConsentInv, ReadHolds, ConsentOps
<1>3. ConsentInv'
  BY <1>2 DEF ConsentInv, ReadHolds, RecordFollowsConsent
<1>4. ErasureInv'
  BY ErasureLeft DEF ConsentOps, Erasing
<1> QED
  BY <1>1, <1>3, <1>4

LEMMA ConsentStepKeeps ==
  ASSUME DataInv, NEW r \in Requests, ConsentStep(r)
  PROVE  DataInv'
<1>t. TypeInv /\ DataTypeOK /\ TaskType
  BY DEF DataInv, TypeInv
<1>s. task[r].seen \subseteq Purposes /\ consent \subseteq Purposes /\ "huttons" \notin Purposes
  BY <1>t DEF DataTypeOK, Purposes
<1>f. Free.op = "idle" /\ Free.q = NoDeletion
  BY DEF Free
<1>q. task[r].op \notin Erasing => task[r].q = NoDeletion
  BY DEF DataInv, ErasureInv, Executions
<1>1. CASE \E purpose \in Purposes : ReadConsent(r, "withdraw", purpose)
  BY <1>1, ReadConsentStep DEF ConsentOps
<1>2. CASE ReadConsent(r, "grant", "marketing") \/ ReadConsent(r, "huttons", "none")
  BY <1>2, ReadConsentStep DEF ConsentOps, Purposes
<1>3. CASE WithdrawConsent(r)
  <2>1. /\ TaskType' /\ task'[r].op \in {"idle", "flag"} /\ task'[r].q = NoDeletion
        /\ \A p \in Requests \ {r} : task'[p] = task[p]
    <3>1. CASE task[r].purpose = "service"
      BY <1>3, <3>1, <1>t, <1>q, Went DEF WithdrawConsent, Erasing
    <3>2. CASE task[r].purpose # "service"
      BY <1>3, <3>2, <1>t, <1>f, Ended DEF WithdrawConsent
    <3> QED
      BY <3>1, <3>2
  <2>2. /\ consent' \subseteq Purposes /\ record' \subseteq Purposes
        /\ task[r].seen = consent => record' \ {"huttons"} = consent'
    BY <1>3, <1>s DEF WithdrawConsent, WithdrawConsentAtomically
  <2> QED
    BY <1>3, <2>1, <2>2, WriteConsentStep DEF WithdrawConsent, ConsentOps
<1>4. CASE GrantMarketingConsent(r)
  <2>1. /\ TaskType' /\ task'[r] = Free /\ \A p \in Requests \ {r} : task'[p] = task[p]
    BY <1>4, <1>t, Ended DEF GrantMarketingConsent
  <2>2. /\ consent' \subseteq Purposes /\ record' \subseteq Purposes
        /\ task[r].seen = consent => record' \ {"huttons"} = consent'
    BY <1>4, <1>s DEF GrantMarketingConsent, GrantConsentAtomically, Purposes
  <2> QED
    BY <1>4, <1>f, <2>1, <2>2, WriteConsentStep DEF GrantMarketingConsent, ConsentOps
<1>5. CASE RecordHuttonsTransferConsent(r)
  <2>1. /\ TaskType' /\ task'[r] = Free /\ \A p \in Requests \ {r} : task'[p] = task[p]
    BY <1>5, <1>t, Ended DEF RecordHuttonsTransferConsent
  <2>2. /\ consent' \subseteq Purposes /\ record' \subseteq Purposes \cup {"huttons"}
        /\ task[r].seen = consent => record' \ {"huttons"} = consent'
    BY <1>5, <1>s DEF RecordHuttonsTransferConsent
  <2> QED
    BY <1>5, <1>f, <2>1, <2>2, WriteConsentStep
       DEF RecordHuttonsTransferConsent, ConsentOps
<1>6. CASE FlagWithdrawal(r)
  <2>1. /\ TaskType' /\ task'[r] = Free /\ \A p \in Requests \ {r} : task'[p] = task[p]
    BY <1>6, <1>t, Ended DEF FlagWithdrawal
  <2>2. TypeInv'
    BY <1>6, <1>t, <2>1, RowsKept, CreateType
       DEF FlagWithdrawal, Targets, consentVars, DataTypeOK
  <2>3. ConsentInv'
    BY <1>6, <1>f, <2>1, ConsentLeft DEF FlagWithdrawal, DataInv, ConsentOps
  <2>4. ErasureInv'
    BY <1>6, <1>f, <1>t, <2>1, CreateKeeps DEF FlagWithdrawal, DataInv, Targets, Erasing
  <2> QED
    BY <2>2, <2>3, <2>4 DEF DataInv
<1> QED
  BY <1>1, <1>2, <1>3, <1>4, <1>5, <1>6 DEF ConsentStep

-----------------------------------------------------------------------------
(* Deletion.                                                               *)

\* The types and what holds of consent, at a step of an execution.
LEMMA ErasingTypes ==
  ASSUME DataInv, UNCHANGED consentVars, TaskType', NEW r \in Requests,
         task'[r].op \notin ConsentOps, \A p \in Requests \ {r} : task'[p] = task[p],
         alive' \subseteq alive,
         deletion' \in [Deletions -> [status : {"none", "flagged", "executed"},
                                      target : Targets \cup {"none"}]],
         killer' \in [Targets -> Deletions \cup {NoDeletion, "account"}],
         torn' \subseteq Deletions
  PROVE  TypeInv' /\ ConsentInv'
<1>1. ConsentInv'
  BY ConsentLeft DEF DataInv
<1>2. TypeInv'
  BY RowsKept DEF DataInv, consentVars, TypeInv, DataTypeOK
<1> QED
  BY <1>1, <1>2

LEMMA DieKeeps ==
  ASSUME DataInv, NEW r \in Requests, Die(r)
  PROVE  DataInv'
<1> USE DEF DataInv
<1>1. /\ TaskType' /\ task'[r].op = "idle" /\ task'[r].q = NoDeletion
      /\ \A p \in Requests \ {r} : task'[p] = task[p]
  BY Ended DEF Die, TypeInv, Free
<1>2. task[r].q \in Deletions \cup {NoDeletion}
  BY DEF TypeInv, TaskType
<1>3. TypeInv' /\ ConsentInv'
  <2>1. torn' \subseteq Deletions
    BY <1>2 DEF Die, TypeInv, DataTypeOK
  <2> QED
    BY <1>1, <2>1, ErasingTypes DEF Die, ConsentOps, TypeInv, DataTypeOK
<1>4. Made' /\ ExecutedIsGone'
  BY DEF Die, ErasureInv, Made, ExecutedIsGone, Erased
<1>5. Executions'
  BY <1>1 DEF Die, ErasureInv, Executions, Erased, TargetOf, Erasing
<1>6. StuckIsExplained'
  BY <1>1, DeletionAssumption DEF Die, ErasureInv, StuckIsExplained
<1> QED
  BY <1>3, <1>4, <1>5, <1>6 DEF ErasureInv

LEMMA DeletionStepKeeps ==
  ASSUME DataInv, NEW r \in Requests, DeletionStep(r)
  PROVE  DataInv'
<1>t. TypeInv /\ DataTypeOK /\ TaskType /\ ErasureInv
  BY DEF DataInv, TypeInv
<1>e. task[r].op \in Erasing =>
        /\ task[r].q \in Deletions /\ deletion[task[r].q].status # "none"
        /\ TargetOf(r) \in Targets
  BY <1>t DEF ErasureInv, Executions, Made, TargetOf
<1>1. ASSUME NEW q \in Deletions, ExecuteHardDelete(r, q) PROVE DataInv'
  <2> DEFINE state == [Free EXCEPT !.op = "collect", !.q = q]
  <2>1. state \in States /\ state.op = "collect" /\ state.q = q
    BY DEF Free, States, Erasing
  <2>2. /\ TaskType' /\ task[r].op = "idle" /\ task'[r] = state
        /\ \A p \in Requests \ {r} : task'[p] = task[p]
    BY <1>1, <1>t, <2>1, Began DEF ExecuteHardDelete
  <2> HIDE DEF state
  <2>3. TypeInv' /\ ConsentInv'
    BY <1>1, <1>t, <2>1, <2>2, ErasingTypes
       DEF ExecuteHardDelete, ConsentOps, deletionVars, DataTypeOK
  <2>4. Made' /\ ExecutedIsGone'
    BY <1>1, <1>t
       DEF ExecuteHardDelete, ErasureInv, deletionVars, Made, ExecutedIsGone, Erased
  <2>5. Executions'
    BY <1>1, <1>t, <2>1, <2>2
       DEF ExecuteHardDelete, ErasureInv, deletionVars, Executions, Erased, TargetOf, Erasing
  <2>6. StuckIsExplained'
    <3>1. task[r].q = NoDeletion
      BY <1>t, <2>2 DEF ErasureInv, Executions, Erasing
    <3> QED
      BY <1>1, <1>t, <2>2, <3>1, DeletionAssumption
         DEF ExecuteHardDelete, ErasureInv, deletionVars, StuckIsExplained
  <2> QED
    BY <2>3, <2>4, <2>5, <2>6 DEF DataInv, ErasureInv
<1>2. CASE CollectFilePaths(r)
  <2> DEFINE op == IF TargetOf(r) = "listing" THEN "unlink" ELSE "delete"
  <2>1. /\ TaskType' /\ task'[r].op = op /\ task'[r].q = task[r].q
        /\ \A p \in Requests \ {r} : task'[p] = task[p]
    BY <1>2, <1>t, Went DEF CollectFilePaths, Erasing
  <2>2. op \in Erasing /\ op # "execute" /\ (op = "unlink" => TargetOf(r) = "listing")
    BY DEF Erasing
  <2> HIDE DEF op
  <2>3. TypeInv' /\ ConsentInv'
    BY <1>2, <1>t, <2>1, <2>2, ErasingTypes
       DEF CollectFilePaths, ConsentOps, deletionVars, Erasing, DataTypeOK
  <2>4. ErasureInv'
    BY <1>2, <1>t, <1>e, <2>1, <2>2
       DEF CollectFilePaths, ErasureInv, deletionVars, Made, ExecutedIsGone, Erased,
           Executions, TargetOf, StuckIsExplained, Erasing
  <2> QED
    BY <2>3, <2>4 DEF DataInv
<1>3. CASE HardDelete(r)
  <2> DEFINE op == IF TargetOf(r) = "lead" THEN "unlink" ELSE "execute"
  <2>0. task[r].q \in Deletions /\ TargetOf(r) \in Targets /\ TargetOf(r) \in alive
    BY <1>3, <1>e DEF HardDelete, Erasing
  <2>1. /\ TaskType' /\ task'[r].op = op /\ task'[r].q = task[r].q
        /\ \A p \in Requests \ {r} : task'[p] = task[p]
    BY <1>3, <1>t, Went DEF HardDelete, Erasing
  <2>2. op \in Erasing
    BY DEF Erasing
  <2> HIDE DEF op
  <2>3. /\ alive' \subseteq alive
        /\ killer' \in [Targets -> Deletions \cup {NoDeletion, "account"}]
    BY <1>3, <1>t, <2>0, KillType DEF HardDelete, KillBy
  <2>4. TypeInv' /\ ConsentInv'
    BY <1>3, <1>t, <2>1, <2>2, <2>3, ErasingTypes
       DEF HardDelete, ConsentOps, Erasing, DataTypeOK
  <2>5. /\ Made' /\ ExecutedIsGone' /\ StuckIsExplained'
        /\ \A q \in Deletions : deletion[q].status # "none" /\ Erased(q) => Erased(q)'
    <3>1. deletion[task[r].q].status # "none"
      BY <1>3, <1>e DEF HardDelete, Erasing
    <3> QED
      BY <1>3, <1>t, <2>0, <2>1, <3>1, KillKeeps DEF HardDelete
  <2>6. Erased(task[r].q)'
    <3>1. TargetOf(r) \in Deleted(TargetOf(r))
      BY <2>0 DEF Deleted
    <3>2. TargetOf(r) \notin alive' /\ killer'[TargetOf(r)] = task[r].q
      BY <1>3, <2>0, <3>1 DEF HardDelete, KillBy
    <3> QED
      BY <1>3, <2>1, <3>2 DEF HardDelete, Erased, TargetOf
  <2>7. Executions'
    BY <1>3, <1>t, <1>e, <2>1, <2>2, <2>5, <2>6
       DEF HardDelete, ErasureInv, Executions, TargetOf, Erasing
  <2> QED
    BY <2>4, <2>5, <2>7 DEF DataInv, ErasureInv
<1>4. CASE UnlinkFiles(r)
  <2> DEFINE op == IF TargetOf(r) = "listing" THEN "delete" ELSE "execute"
  <2>1. /\ TaskType' /\ task'[r].op = op /\ task'[r].q = task[r].q
        /\ \A p \in Requests \ {r} : task'[p] = task[p]
    BY <1>4, <1>t, Went DEF UnlinkFiles, Erasing
  <2>2. op \in Erasing /\ op # "unlink" /\ (op = "execute" => TargetOf(r) # "listing")
    BY DEF Erasing
  <2> HIDE DEF op
  <2>3. TypeInv' /\ ConsentInv'
    BY <1>4, <1>t, <2>1, <2>2, ErasingTypes
       DEF UnlinkFiles, ConsentOps, deletionVars, Erasing, DataTypeOK
  <2>4. TargetOf(r) # "listing" => Erased(task[r].q)
    BY <1>4, <1>t DEF UnlinkFiles, ErasureInv, Executions, Erasing
  <2>5. ErasureInv'
    BY <1>4, <1>t, <1>e, <2>1, <2>2, <2>4
       DEF UnlinkFiles, ErasureInv, Made, ExecutedIsGone, Erased,
           Executions, TargetOf, StuckIsExplained, Erasing
  <2> QED
    BY <2>3, <2>5 DEF DataInv
<1>5. CASE UpdateDeletionRequest(r)
  <2>0. /\ task[r].q \in Deletions /\ deletion[task[r].q].status # "none"
        /\ Erased(task[r].q)
    BY <1>5, <1>t DEF UpdateDeletionRequest, ErasureInv, Executions, Erasing
  <2>1. /\ TaskType' /\ task'[r].op = "idle" /\ task'[r].q = NoDeletion
        /\ \A p \in Requests \ {r} : task'[p] = task[p]
    BY <1>5, <1>t, Ended DEF UpdateDeletionRequest, Free
  <2>2. /\ deletion' \in [Deletions -> [status : {"none", "flagged", "executed"},
                                       target : Targets \cup {"none"}]]
        /\ deletion'[task[r].q].status = "executed"
        /\ \A q \in Deletions : /\ deletion'[q].target = deletion[q].target
                                /\ q # task[r].q => deletion'[q] = deletion[q]
    BY <1>5, <1>t, <2>0 DEF UpdateDeletionRequest, DataTypeOK
  <2>3. TypeInv' /\ ConsentInv'
    BY <1>5, <1>t, <2>1, <2>2, ErasingTypes DEF UpdateDeletionRequest, ConsentOps, DataTypeOK
  <2>4. Made' /\ ExecutedIsGone'
    <3>1. killer' = killer /\ alive' = alive /\ Made /\ ExecutedIsGone
      BY <1>5, <1>t DEF UpdateDeletionRequest, ErasureInv
    <3>2. Made'
      BY <2>0, <2>2, <3>1 DEF Made
    <3>3. \A q \in Deletions : Erased(q) => Erased(q)'
      BY <2>2, <3>1 DEF Erased
    <3>4. ASSUME NEW q \in Deletions, deletion'[q].status = "executed" PROVE Erased(q)
      <4>1. CASE q = task[r].q
        BY <2>0, <4>1
      <4>2. CASE q # task[r].q
        <5>1. deletion[q].status = "executed"
          BY <2>2, <3>4, <4>2
        <5> QED
          BY <3>1, <5>1 DEF ExecutedIsGone
      <4> QED
        BY <4>1, <4>2
    <3> QED
      BY <3>2, <3>3, <3>4 DEF ExecutedIsGone
  <2>5. Executions'
    BY SMTT(30), <1>5, <1>t, <2>0, <2>1, <2>2
       DEF UpdateDeletionRequest, ErasureInv, Executions, Erased, TargetOf, Erasing
  <2>6. StuckIsExplained'
    BY <1>5, <1>t, <2>0, <2>1, <2>2
       DEF UpdateDeletionRequest, ErasureInv, StuckIsExplained
  <2> QED
    BY <2>3, <2>4, <2>5, <2>6 DEF DataInv, ErasureInv
<1> QED
  BY <1>1, <1>2, <1>3, <1>4, <1>5 DEF DeletionStep

\* The scan, the link of an e-mail and the account: one write each.
LEMMA FlagByScanKeeps ==
  ASSUME DataInv, NEW target \in Targets, FlagByScan(target)
  PROVE  DataInv'
<1>1. TypeInv'
  <2>1. TaskType'
    BY DEF FlagByScan, DataInv, TypeInv, TaskType
  <2> QED
    BY <2>1, CreateType, RowsKept
       DEF FlagByScan, DataInv, TypeInv, DataTypeOK, consentVars
<1>2. ConsentInv'
  BY ConsentLeft DEF FlagByScan, DataInv
<1>3. ErasureInv'
  BY CreateKeeps DEF FlagByScan, DataInv
<1> QED
  BY <1>1, <1>2, <1>3 DEF DataInv

LEMMA UnsubscribeKeeps ==
  ASSUME DataInv, Unsubscribe
  PROVE  DataInv'
<1> USE DEF DataInv
<1>1. TypeInv'
  <2>1. TaskType'
    BY DEF Unsubscribe, TypeInv, TaskType
  <2>2. /\ consent' \subseteq Purposes /\ record' \subseteq Purposes \cup {"huttons"}
        /\ contended' \in BOOLEAN
    <3>1. contended' \in BOOLEAN
      BY DEF Unsubscribe, TypeInv, DataTypeOK
    <3> QED
      BY <3>1 DEF Unsubscribe, TypeInv, DataTypeOK, Purposes
  <2> QED
    BY <2>1, <2>2, RowsKept DEF Unsubscribe, TypeInv, DataTypeOK, deletionVars
<1>2. ReadHolds'
  BY DEF Unsubscribe, ConsentInv, ReadHolds
<1>3. RecordFollowsConsent'
  BY DEF Unsubscribe, RecordFollowsConsent, TypeInv, DataTypeOK, Purposes
<1>4. ErasureInv'
  BY DEF Unsubscribe, deletionVars, ErasureInv, Made, Executions, ExecutedIsGone, Erased,
         TargetOf, StuckIsExplained
<1> QED
  BY <1>1, <1>2, <1>3, <1>4 DEF ConsentInv

LEMMA AccountKeeps ==
  ASSUME DataInv, DeleteSellerAccount
  PROVE  DataInv'
<1> USE DEF DataInv
<1>0. "lead" \in Targets /\ "account" \notin Deletions
  BY DeletionAssumption DEF Targets
<1>1. TypeInv'
  BY <1>0, KillType, RowsKept
     DEF DeleteSellerAccount, TypeInv, DataTypeOK, consentVars, TaskType
<1>2. ConsentInv'
  BY ConsentLeft DEF DeleteSellerAccount, KillBy
<1>3. /\ Made' /\ ExecutedIsGone' /\ StuckIsExplained'
      /\ \A q \in Deletions : deletion[q].status # "none" /\ Erased(q) => Erased(q)'
  BY <1>0, KillKeeps DEF DeleteSellerAccount
<1>4. Executions'
  BY <1>3 DEF DeleteSellerAccount, ErasureInv, Executions, TargetOf
<1> QED
  BY <1>1, <1>2, <1>3, <1>4 DEF ErasureInv

LEMMA StepInv == DataInv /\ [DataNext]_dataVars => DataInv'
<1> SUFFICES ASSUME DataInv, [DataNext]_dataVars PROVE DataInv'
  OBVIOUS
<1>1. CASE UNCHANGED dataVars
  <2>1. TypeInv'
    BY <1>1 DEF DataInv, dataVars, consentVars, deletionVars, TypeInv, DataTypeOK, TaskType
  <2>2. ConsentInv'
    BY <1>1, ConsentLeft DEF DataInv, dataVars, deletionVars
  <2>3. ErasureInv'
    BY <1>1 DEF DataInv, dataVars, deletionVars, ErasureInv, Made, Executions,
                ExecutedIsGone, Erased, TargetOf, StuckIsExplained
  <2> QED
    BY <2>1, <2>2, <2>3 DEF DataInv
<1> QED
  BY <1>1, DieKeeps, ConsentStepKeeps, DeletionStepKeeps, FlagByScanKeeps,
     UnsubscribeKeeps, AccountKeeps DEF DataNext

-----------------------------------------------------------------------------

\* The values of the rows and of what handlers hold of them.
THEOREM TypeCorrect == DataSpec => []DataTypeOK
<1>1. DataInv => DataTypeOK
  BY DEF DataInv, TypeInv
<1> QED
  BY InitInv, StepInv, <1>1, PTL DEF DataSpec

\* Flags and records of a consent agree unless handlers overlapped
\* (withdrawConsent, grantMarketingConsent, handleUnsubscribe).
THEOREM ConsentIsSoundKept == DataSpec => []ConsentIsSound
<1>1. DataInv => ConsentIsSound
  BY DEF DataInv, TypeInv, ConsentInv, ConsentIsSound
<1> QED
  BY InitInv, StepInv, <1>1, PTL DEF DataSpec

\* A request for deletion is executed by its own deletion, and one that is stuck was
\* overtaken or cut off (executeHardDelete, deleteSellerAccount).
THEOREM ErasureIsSoundKept == DataSpec => []ErasureIsSound
<1>1. Made /\ ExecutedIsGone => ExecutedIsErased
  BY DEF Made, ExecutedIsGone, ExecutedIsErased, Erased
<1>2. DataInv => ErasureIsSound
  BY <1>1 DEF DataInv, ErasureInv, ErasureIsSound
<1> QED
  BY InitInv, StepInv, <1>2, PTL DEF DataSpec

-----------------------------------------------------------------------------
(* The documents a seller uploads.                                         *)

Uploads == {"save", "create"}
Downloads == {"one", "all"}

Active == Seller!Rows({"active"})

Uploading == {r \in Requests : req[r].op \in Uploads}

\* An upload is of a document there is no row of; every other request is about
\* documents with a row, and holds those whose file is still to go.
RequestFits(r) ==
  /\ req[r].op \in Uploads =>
       /\ req[r].doc \in Docs /\ row[req[r].doc] = "none"
       /\ \A q \in Requests \ {r} : req[q].doc # req[r].doc
  /\ req[r].op \notin Uploads /\ req[r].doc # NoDoc => row[req[r].doc] # "none"
  /\ req[r].op \in {"idle", "claimAll", "purge", "erase", "eraseFiles"} => req[r].doc = NoDoc
  /\ req[r].op \in {"take", "back", "purgeMark"} => req[r].doc # NoDoc
  /\ req[r].op \in {"idle", "save", "create", "take", "back"} => req[r].todo = {}
  /\ req[r].op \in Downloads /\ req[r].doc # NoDoc => req[r].doc \in req[r].todo
  /\ \A d \in req[r].todo : row[d] # "none"
  /\ req[r].op \in {"back", "purgeMark"} => req[r].doc \notin file

\* The deletion of an account holds the documents that have a live row, but for
\* those uploaded since it looked.
ErasesAll(r) == req[r].op = "erase" => Active \subseteq req[r].todo \cup stray

\* Whoever reads a document and deletes its file is the only one.
ReadsAlone(r) ==
  /\ req[r].op \notin Downloads => req[r].read = {}
  /\ \A d \in req[r].read :
       /\ d \notin file /\ row[d] # "none" /\ got[d] = {}
       /\ \A q \in Requests \ {r} : d \notin req[q].read

GotOnce(d) ==
  /\ got[d] # {} => d \notin file /\ row[d] # "none"
  /\ \A q, r \in got[d] : q = r

AccountedFor(d) ==
  d \in file \ stray => row[d] = "active" \/ \E r \in Requests : d \in Seller!Busy(r)

\* An upload has counted the live rows before it, as has each that is under way.
CountHolds ==
  /\ IsFiniteSet(Active)
  /\ Cardinality(Active) + Cardinality(Uploading) <= MaxFiles - 1 + Cardinality(Requests)

DocHolds ==
  /\ \A r \in Requests : RequestFits(r) /\ ErasesAll(r) /\ ReadsAlone(r)
  /\ \A d \in Docs : GotOnce(d) /\ AccountedFor(d)
  /\ CountHolds

DocInv == Seller!DocTypeOK /\ DocHolds

Sessions == [op : Seller!DocOps, doc : Docs \cup {NoDoc}, todo : SUBSET Docs, read : SUBSET Docs]

\* The module of the documents counts as the library does.
LEMMA SameCount == ASSUME NEW S PROVE Seller!Cardinality(S) = Cardinality(S)
BY DEF Seller!Cardinality, Cardinality

LEMMA Fits ==
  ASSUME DocInv, NEW r \in Requests
  PROVE  RequestFits(r) /\ ErasesAll(r) /\ ReadsAlone(r)
BY DEF DocInv, DocHolds

LEMMA DocFits ==
  ASSUME DocInv, NEW d \in Docs
  PROVE  GotOnce(d) /\ AccountedFor(d)
BY DEF DocInv, DocHolds

\* The state of a request, replaced.
LEMMA SessionBecomes ==
  ASSUME Seller!DocTypeOK, NEW r \in Requests, NEW s \in Sessions, req' = [req EXCEPT ![r] = s]
  PROVE  req' \in [Requests -> Sessions] /\ req'[r] = s /\ \A q \in Requests \ {r} : req'[q] = req[q]
BY DEF Seller!DocTypeOK, Sessions

\* A new request, of an operation that treats the documents of todo.
LEMMA SessionBegins ==
  ASSUME Seller!DocTypeOK, NEW r \in Requests, NEW s \in Sessions, Seller!Become(r, s)
  PROVE  /\ req[r].op = "idle" /\ req' \in [Requests -> Sessions] /\ req'[r] = s
         /\ \A q \in Requests \ {r} : req'[q] = req[q]
BY SessionBecomes DEF Seller!Become

LEMMA SessionGoes ==
  ASSUME Seller!DocTypeOK, NEW r \in Requests, NEW op \in Seller!DocOps, Seller!Go(r, op)
  PROVE  /\ req' \in [Requests -> Sessions] /\ req'[r].op = op /\ req'[r].doc = req[r].doc
         /\ req'[r].todo = req[r].todo /\ req'[r].read = req[r].read
         /\ \A q \in Requests \ {r} : req'[q] = req[q]
<1>1. PICK s \in Sessions : s = [req[r] EXCEPT !.op = op]
  BY DEF Seller!DocTypeOK, Sessions
<1>2. s.op = op /\ s.doc = req[r].doc /\ s.todo = req[r].todo /\ s.read = req[r].read
  BY <1>1 DEF Seller!DocTypeOK
<1>3. req' = [req EXCEPT ![r] = s]
  BY <1>1 DEF Seller!Go
<1> QED
  BY <1>2, <1>3, SessionBecomes

LEMMA SessionEnds ==
  ASSUME Seller!DocTypeOK, NEW r \in Requests, req' = [req EXCEPT ![r] = Seller!Idle]
  PROVE  /\ req' \in [Requests -> Sessions] /\ req'[r].op = "idle" /\ req'[r].doc = NoDoc
         /\ req'[r].todo = {} /\ req'[r].read = {}
         /\ \A q \in Requests \ {r} : req'[q] = req[q]
<1>1. PICK s \in Sessions : s = Seller!Idle
  BY DEF Seller!Idle, Sessions, Seller!DocOps
<1>2. s.op = "idle" /\ s.doc = NoDoc /\ s.todo = {} /\ s.read = {}
  BY <1>1 DEF Seller!Idle
<1> QED
  BY <1>1, <1>2, SessionBecomes

\* What the counting of uploads rests on.
LEMMA CountShrinks ==
  ASSUME CountHolds, Active' \subseteq Active, Uploading' \subseteq Uploading
  PROVE  CountHolds'
<1>1. IsFiniteSet(Uploading)
  BY DocAssumption, FS_Subset DEF Uploading
<1>2. Cardinality(Active') <= Cardinality(Active) /\ IsFiniteSet(Active')
  BY FS_Subset DEF CountHolds
<1>3. Cardinality(Uploading') <= Cardinality(Uploading) /\ IsFiniteSet(Uploading')
  BY <1>1, FS_Subset
<1>4. /\ Cardinality(Active) \in Nat /\ Cardinality(Active') \in Nat
      /\ Cardinality(Uploading) \in Nat /\ Cardinality(Uploading') \in Nat
      /\ Cardinality(Requests) \in Nat /\ MaxFiles \in Nat
  BY <1>1, <1>2, <1>3, DocAssumption, FS_CardinalityType DEF CountHolds
<1> QED
  BY <1>2, <1>3, <1>4 DEF CountHolds

\* Of the request that takes the step only: what the others are about, hold and
\* have read is untouched by it.
LEMMA DocMoves ==
  ASSUME DocInv, NEW r \in Requests, Seller!DocTypeOK', stray \subseteq stray',
         \A q \in Requests \ {r} : req'[q] = req[q],
         RequestFits(r)', ErasesAll(r)', CountHolds',
         req'[r].op \notin Downloads => req'[r].read = {},
         \A d \in Docs : row[d] # "none" => row'[d] # "none",
         \A d \in Docs : row[d] = "none" /\ row'[d] # "none" => d = req[r].doc /\ req[r].op \in Uploads,
         \A d \in Docs : row'[d] = "active" /\ row[d] # "active" =>
           d \in stray' \/ \A q \in Requests \ {r} : req[q].op # "erase",
         \A d \in file' : d \in file \/ (d = req[r].doc /\ req[r].op \in Uploads),
         \A d \in req'[r].read : d \in req[r].read \/ (d \in file \ file' /\ row[d] # "none"),
         \A d \in Docs : got'[d] = got[d]
                         \/ (d \in req[r].read /\ req'[r].read = {} /\ got'[d] = got[d] \cup {r}),
         \/ req'[r].doc = req[r].doc \/ req'[r].doc = NoDoc \/ row[req'[r].doc] # "none"
         \/ \A q \in Requests : req[q].doc # req'[r].doc,
         \A d \in file' \ stray' :
           /\ d \in file \/ d \in Seller!Busy(r)'
           /\ row[d] = "active" => row'[d] = "active" \/ d \in Seller!Busy(r)'
           /\ d \in Seller!Busy(r) => row'[d] = "active" \/ d \in Seller!Busy(r)'
  PROVE  DocInv'
<1>1. ASSUME NEW d \in Docs PROVE GotOnce(d)'
  <2>1. GotOnce(d) /\ (d \in req[r].read => d \notin file /\ row[d] # "none" /\ got[d] = {})
    BY Fits, DocFits DEF ReadsAlone
  <2>2. d = req[r].doc /\ req[r].op \in Uploads => row[d] = "none"
    BY Fits DEF RequestFits
  <2>3. got'[d] # {} => d \notin file' /\ row'[d] # "none"
    BY <2>1, <2>2 DEF GotOnce
  <2> QED
    BY <2>1, <2>3 DEF GotOnce
<1>2. ASSUME NEW d \in Docs PROVE AccountedFor(d)'
  <2> SUFFICES ASSUME d \in file' \ stray'
               PROVE  row'[d] = "active" \/ \E q \in Requests : d \in Seller!Busy(q)'
    BY DEF AccountedFor
  <2>1. CASE d \in Seller!Busy(r)'
    BY <2>1
  <2>2. CASE d \notin Seller!Busy(r)'
    <3>1. (d \in file \ stray /\ d \notin Seller!Busy(r)) \/ row'[d] = "active"
      BY <2>2
    <3>2. CASE row[d] = "active"
      BY <2>2, <3>2
    <3>3. CASE d \in file \ stray /\ d \notin Seller!Busy(r) /\ row[d] # "active"
      <4>1. PICK q \in Requests : d \in Seller!Busy(q)
        BY <3>3, DocFits DEF AccountedFor
      <4>2. q # r /\ d \in Seller!Busy(q)'
        BY <3>3, <4>1 DEF Seller!Busy
      <4> QED
        BY <4>2
    <3> QED
      BY <3>1, <3>2, <3>3
  <2> QED
    BY <2>1, <2>2
<1>3. ReadsAlone(r)'
  <2>1. ReadsAlone(r)
    BY Fits
  <2>2. ASSUME NEW d \in req'[r].read
        PROVE  /\ d \notin file' /\ row'[d] # "none" /\ got'[d] = {}
               /\ \A q \in Requests \ {r} : d \notin req'[q].read
    <3>1. d \in Docs
      BY DEF Seller!DocTypeOK
    <3>2. GotOnce(d)
      BY <3>1, DocFits
    <3>3. d \in req[r].read \/ (d \in file \ file' /\ row[d] # "none")
      BY <2>2
    <3>4. d = req[r].doc /\ req[r].op \in Uploads => row[d] = "none"
      BY Fits DEF RequestFits
    <3>5. got[d] = {} /\ row[d] # "none" /\ d \notin file'
      BY <2>1, <3>2, <3>3, <3>4 DEF ReadsAlone, GotOnce
    <3>6. got'[d] = got[d]
      BY <2>2, <3>1
    <3>7. ASSUME NEW q \in Requests \ {r} PROVE d \notin req[q].read
      <4>1. ReadsAlone(q)
        BY Fits
      <4> QED
        BY <2>1, <3>3, <4>1 DEF ReadsAlone
    <3> QED
      BY <3>1, <3>5, <3>6, <3>7
  <2> QED
    BY <2>2 DEF ReadsAlone
<1>4. ASSUME NEW q \in Requests \ {r} PROVE RequestFits(q)' /\ ErasesAll(q)' /\ ReadsAlone(q)'
  <2>1. RequestFits(q) /\ ErasesAll(q) /\ ReadsAlone(q) /\ RequestFits(r) /\ ReadsAlone(r) /\ req'[q] = req[q]
    BY Fits
  <2>2. /\ req[q].doc \in Docs \cup {NoDoc} /\ req[q].todo \subseteq Docs /\ req[q].read \subseteq Docs
        /\ req'[r].doc \in Docs \cup {NoDoc} /\ NoDoc \notin Docs
    BY DocAssumption DEF DocInv, Seller!DocTypeOK
  <2>3. ASSUME req[q].op \in Uploads
        PROVE  /\ req[q].doc \in Docs /\ row'[req[q].doc] = "none"
               /\ \A p \in Requests \ {q} : req'[p].doc # req[q].doc
    <3>1. req[q].doc \in Docs /\ row[req[q].doc] = "none" /\ req[r].doc # req[q].doc
      BY <2>1, <2>3 DEF RequestFits
    <3>2. row'[req[q].doc] = "none"
      BY <3>1
    <3>3. req'[r].doc # req[q].doc
      BY <2>2, <3>1
    <3> QED
      BY <2>1, <2>3, <3>1, <3>2, <3>3 DEF RequestFits
  <2>4. ASSUME req[q].op \notin Uploads, req[q].doc # NoDoc PROVE row'[req[q].doc] # "none"
    BY <2>1, <2>2, <2>4 DEF RequestFits
  <2>5. \A d \in req[q].todo : row'[d] # "none"
    BY <2>1, <2>2 DEF RequestFits
  <2>6. req[q].op \in {"back", "purgeMark"} => req[q].doc \notin file'
    <3> SUFFICES ASSUME req[q].op \in {"back", "purgeMark"} PROVE req[q].doc \notin file'
      OBVIOUS
    <3>1. req[q].doc \notin file /\ req[q].doc # NoDoc /\ row[req[q].doc] # "none"
      BY <2>1 DEF RequestFits, Uploads
    <3>2. req[r].op \in Uploads => req[r].doc # req[q].doc
      BY <2>1, <3>1 DEF RequestFits
    <3> QED
      BY <3>1, <3>2
  <2>7. RequestFits(q)'
    BY <2>1, <2>3, <2>4, <2>5, <2>6 DEF RequestFits
  <2>8. ErasesAll(q)'
    <3> SUFFICES ASSUME req[q].op = "erase", NEW d \in Docs, row'[d] = "active"
                 PROVE  d \in req[q].todo \cup stray'
      BY <2>1 DEF ErasesAll, Active, Seller!Rows
    <3>1. row[d] = "active" => d \in req[q].todo \cup stray
      BY <2>1 DEF ErasesAll, Active, Seller!Rows
    <3> QED
      BY <3>1
  <2>9. ASSUME NEW d \in req[q].read
        PROVE  /\ d \notin file' /\ row'[d] # "none" /\ got'[d] = {}
               /\ \A p \in Requests \ {q} : d \notin req'[p].read
    <3>1. /\ d \notin file /\ row[d] # "none" /\ got[d] = {} /\ d \notin req[r].read /\ d \in Docs
          /\ \A p \in Requests \ {q} : d \notin req[p].read
      BY <2>1, <2>2 DEF ReadsAlone
    <3>2. req[r].op \in Uploads => req[r].doc # d
      BY <2>1, <3>1 DEF RequestFits
    <3>3. d \notin req'[r].read
      BY <3>1
    <3> QED
      BY <3>1, <3>2, <3>3
  <2>10. ReadsAlone(q)'
    BY <2>1, <2>9 DEF ReadsAlone
  <2> QED
    BY <2>7, <2>8, <2>10
<1> QED
  BY <1>1, <1>2, <1>3, <1>4 DEF DocInv, DocHolds

\* The same of a step that writes no row.
LEMMA QuietMoves ==
  ASSUME DocInv, NEW r \in Requests, Seller!DocTypeOK', row' = row, stray \subseteq stray',
         \A q \in Requests \ {r} : req'[q] = req[q],
         RequestFits(r)',
         req'[r].op = "erase" => Active \subseteq req'[r].todo \cup stray',
         req'[r].op \in Uploads => req[r].op \in Uploads,
         req'[r].op \notin Downloads => req'[r].read = {},
         \A d \in file' : d \in file \/ (d = req[r].doc /\ req[r].op \in Uploads),
         \A d \in req'[r].read : d \in req[r].read \/ (d \in file \ file' /\ row[d] # "none"),
         \A d \in Docs : got'[d] = got[d]
                         \/ (d \in req[r].read /\ req'[r].read = {} /\ got'[d] = got[d] \cup {r}),
         req'[r].doc = req[r].doc \/ req'[r].doc = NoDoc \/ row[req'[r].doc] # "none",
         \A d \in file' \ stray' : /\ d \in file \/ d \in Seller!Busy(r)'
                                   /\ d \in Seller!Busy(r) => d \in Seller!Busy(r)'
  PROVE  DocInv'
<1>1. Active' = Active
  BY DEF Active, Seller!Rows
<1>2. Uploading' \subseteq Uploading
  BY DEF Uploading
<1>3. CountHolds'
  BY <1>1, <1>2, CountShrinks DEF DocInv, DocHolds
<1>4. ErasesAll(r)'
  BY <1>1 DEF ErasesAll
<1> QED
  BY <1>3, <1>4, DocMoves

LEMMA AbortKeeps ==
  ASSUME DocInv, NEW r \in Requests, Seller!Abort(r)
  PROVE  DocInv'
<1>1. /\ stray' = stray \cup (Seller!Busy(r) \cap Docs) /\ UNCHANGED <<row, old, closed, file, got>>
      /\ req' = [req EXCEPT ![r] = Seller!Idle]
  BY DEF Seller!Abort, Seller!rowVars
<1>2. Seller!DocTypeOK
  BY DEF DocInv
<1>3. /\ req' \in [Requests -> Sessions] /\ req'[r].op = "idle" /\ req'[r].doc = NoDoc
      /\ req'[r].todo = {} /\ req'[r].read = {}
      /\ \A q \in Requests \ {r} : req'[q] = req[q]
  BY <1>1, <1>2, SessionEnds
<1>4. Seller!DocTypeOK'
  BY <1>1, <1>2, <1>3 DEF Seller!DocTypeOK, Sessions
<1>5. RequestFits(r)'
  BY <1>3 DEF RequestFits, Uploads, Downloads
<1>6. \A d \in file' \ stray' : d \notin Seller!Busy(r)
  BY <1>1, <1>2 DEF Seller!DocTypeOK
<1> QED
  BY <1>1, <1>3, <1>4, <1>5, <1>6, QuietMoves DEF Uploads, Downloads

LEMMA UploadCheckKeeps ==
  ASSUME DocInv, NEW r \in Requests, NEW d \in Docs, Seller!UploadCheck(r, d)
  PROVE  DocInv'
<1>1. /\ Seller!CountActive < MaxFiles /\ row[d] = "none" /\ d \notin file
      /\ \A q \in Requests : req[q].doc # d
      /\ UNCHANGED <<row, old, closed, file, got, stray>>
  BY DEF Seller!UploadCheck, Seller!rowVars, Seller!ghosts
<1>2. Seller!DocTypeOK
  BY DEF DocInv
<1>3. PICK s \in Sessions : s = [Seller!Idle EXCEPT !.op = "save", !.doc = d]
  BY DEF Seller!Idle, Sessions, Seller!DocOps
<1>4. s.op = "save" /\ s.doc = d /\ s.todo = {} /\ s.read = {}
  BY <1>3 DEF Seller!Idle
<1>5. /\ req[r].op = "idle" /\ req' \in [Requests -> Sessions] /\ req'[r] = s
      /\ \A q \in Requests \ {r} : req'[q] = req[q]
  <2>1. Seller!Become(r, s)
    BY <1>3 DEF Seller!UploadCheck
  <2> QED
    BY <1>2, <2>1, SessionBegins
<1>6. Seller!DocTypeOK'
  BY <1>1, <1>2, <1>5 DEF Seller!DocTypeOK, Sessions
<1>7. RequestFits(r)'
  BY <1>1, <1>4, <1>5 DEF RequestFits, Uploads, Downloads
<1>8. ErasesAll(r)'
  BY <1>4, <1>5 DEF ErasesAll
<1>9. CountHolds'
  <2>1. Active' = Active /\ Uploading' \subseteq Requests
    BY <1>1 DEF Active, Seller!Rows, Uploading
  <2>2. IsFiniteSet(Active) /\ Cardinality(Active) < MaxFiles
    BY <1>1, SameCount DEF Seller!CountActive, Active, DocInv, DocHolds, CountHolds
  <2>3. /\ Cardinality(Uploading') <= Cardinality(Requests) /\ Cardinality(Uploading') \in Nat
    BY <2>1, DocAssumption, FS_Subset, FS_CardinalityType
  <2>4. Cardinality(Active) \in Nat /\ Cardinality(Requests) \in Nat /\ MaxFiles \in Nat
    BY <2>2, DocAssumption, FS_CardinalityType
  <2>5. Cardinality(Active) + Cardinality(Uploading') <= MaxFiles - 1 + Cardinality(Requests)
    BY <2>2, <2>3, <2>4
  <2> QED
    BY <2>1, <2>2, <2>5 DEF CountHolds
<1>10. \A e \in file' \ stray' : e \notin Seller!Busy(r)
  BY <1>1, <1>2, <1>5, Fits, DocAssumption DEF RequestFits, Seller!Busy, Seller!DocTypeOK
<1> QED
  BY <1>1, <1>4, <1>5, <1>6, <1>7, <1>8, <1>9, <1>10, DocMoves DEF Uploads, Downloads

LEMMA SaveFileKeeps ==
  ASSUME DocInv, NEW r \in Requests, Seller!SaveFile(r)
  PROVE  DocInv'
<1>1. req[r].op = "save" /\ file' = file \cup {req[r].doc} /\ Seller!Go(r, "create")
      /\ UNCHANGED <<row, old, closed, got, stray>>
  BY DEF Seller!SaveFile, Seller!rowVars, Seller!ghosts
<1>2. Seller!DocTypeOK /\ RequestFits(r) /\ ReadsAlone(r) /\ "create" \in Seller!DocOps
  BY Fits DEF DocInv, Seller!DocOps
<1>3. /\ req' \in [Requests -> Sessions] /\ req'[r].op = "create" /\ req'[r].doc = req[r].doc
      /\ req'[r].todo = req[r].todo /\ req'[r].read = req[r].read
      /\ \A q \in Requests \ {r} : req'[q] = req[q]
  BY <1>1, <1>2, SessionGoes
<1>4. req[r].doc \in Docs /\ req[r].read = {}
  BY <1>1, <1>2 DEF RequestFits, Uploads, ReadsAlone, Downloads
<1>5. Seller!DocTypeOK'
  BY <1>1, <1>2, <1>3, <1>4 DEF Seller!DocTypeOK, Sessions
<1>6. RequestFits(r)'
  BY <1>1, <1>2, <1>3 DEF RequestFits, Uploads, Downloads
<1>7. \A d \in Seller!Busy(r) : d \in Seller!Busy(r)'
  BY <1>3 DEF Seller!Busy
<1>8. req[r].doc \in Seller!Busy(r)'
  BY <1>3 DEF Seller!Busy
<1> QED
  BY <1>1, <1>3, <1>4, <1>5, <1>6, <1>7, <1>8, QuietMoves DEF Uploads, Downloads

LEMMA CreateRowKeeps ==
  ASSUME DocInv, NEW r \in Requests, Seller!CreateRow(r)
  PROVE  DocInv'
<1>1. /\ req[r].op = "create" /\ row' = [row EXCEPT ![req[r].doc] = "active"]
      /\ req' = [req EXCEPT ![r] = Seller!Idle]
      /\ stray' = IF \E q \in Requests : req[q].op = "erase" THEN stray \cup {req[r].doc} ELSE stray
      /\ UNCHANGED <<old, closed, file, got>>
  BY DEF Seller!CreateRow
<1>2. Seller!DocTypeOK /\ RequestFits(r)
  BY Fits DEF DocInv
<1>3. /\ req' \in [Requests -> Sessions] /\ req'[r].op = "idle" /\ req'[r].doc = NoDoc
      /\ req'[r].todo = {} /\ req'[r].read = {}
      /\ \A q \in Requests \ {r} : req'[q] = req[q]
  BY <1>1, <1>2, SessionEnds
<1>4. /\ req[r].doc \in Docs /\ row[req[r].doc] = "none" /\ req[r].todo = {}
  BY <1>1, <1>2 DEF RequestFits, Uploads
<1>5. /\ row' \in [Docs -> {"none", "active", "claimed", "received", "removed"}]
      /\ row'[req[r].doc] = "active" /\ \A d \in Docs \ {req[r].doc} : row'[d] = row[d]
  BY <1>1, <1>2, <1>4 DEF Seller!DocTypeOK
<1>6. Seller!DocTypeOK'
  BY <1>1, <1>2, <1>3, <1>4, <1>5 DEF Seller!DocTypeOK, Sessions
<1>7. RequestFits(r)' /\ ErasesAll(r)'
  BY <1>3 DEF RequestFits, Uploads, Downloads, ErasesAll
<1>8. CountHolds'
  <2>1. Active' = Active \cup {req[r].doc} /\ req[r].doc \notin Active
    BY <1>4, <1>5 DEF Active, Seller!Rows
  <2>2. Uploading' = Uploading \ {r} /\ r \in Uploading
    BY <1>1, <1>3 DEF Uploading, Uploads
  <2>3. IsFiniteSet(Uploading) /\ IsFiniteSet(Active)
    BY DocAssumption, FS_Subset DEF Uploading, DocInv, DocHolds, CountHolds
  <2>4. Cardinality(Active') = Cardinality(Active) + 1 /\ IsFiniteSet(Active')
    BY <2>1, <2>3, FS_AddElement
  <2>5. Cardinality(Uploading') = Cardinality(Uploading) - 1
    BY <2>2, <2>3, FS_RemoveElement
  <2>6. Cardinality(Active) \in Nat /\ Cardinality(Uploading) \in Nat
    BY <2>3, FS_CardinalityType
  <2> QED
    BY <2>4, <2>5, <2>6 DEF CountHolds, DocInv, DocHolds
<1>9. \A d \in Seller!Busy(r) : d \in Docs => row'[d] = "active"
  BY <1>4, <1>5 DEF Seller!Busy
<1>10. file' \subseteq Docs /\ stray \subseteq stray'
  BY <1>1, <1>6 DEF Seller!DocTypeOK
<1> QED
  BY <1>1, <1>3, <1>4, <1>5, <1>6, <1>7, <1>8, <1>9, <1>10, DocMoves DEF Uploads, Downloads

\* Rows claimed, received or removed, none added: the counting is untouched.
LEMMA RowsGo ==
  ASSUME DocInv, NEW r \in Requests, Seller!DocTypeOK', stray' = stray, file' = file, got' = got,
         \A q \in Requests \ {r} : req'[q] = req[q],
         RequestFits(r)', ErasesAll(r)',
         req'[r].op \notin Uploads,
         req'[r].op \notin Downloads => req'[r].read = {},
         req'[r].read \subseteq req[r].read,
         \A d \in Docs : row[d] = "none" <=> row'[d] = "none",
         \A d \in Docs : row'[d] = "active" => row[d] = "active",
         req'[r].doc = req[r].doc \/ req'[r].doc = NoDoc,
         \A d \in file : /\ row[d] = "active" => row'[d] = "active" \/ d \in Seller!Busy(r)'
                         /\ d \in Seller!Busy(r) => d \in Seller!Busy(r)'
  PROVE  DocInv'
<1>1. Active' \subseteq Active
  BY DEF Active, Seller!Rows
<1>2. Uploading' \subseteq Uploading
  BY DEF Uploading
<1>3. CountHolds'
  BY <1>1, <1>2, CountShrinks DEF DocInv, DocHolds
<1> QED
  BY <1>3, DocMoves

LEMMA ClaimKeeps ==
  ASSUME DocInv, NEW r \in Requests, NEW d \in Docs, Seller!ClaimForDownload(r, d)
  PROVE  DocInv'
<1>1. /\ row[d] = "active" /\ row' = [row EXCEPT ![d] = "claimed"]
      /\ UNCHANGED <<old, closed, file, got, stray>>
  BY DEF Seller!ClaimForDownload, Seller!ghosts
<1>2. Seller!DocTypeOK /\ RequestFits(r)
  BY Fits DEF DocInv
<1>3. PICK s \in Sessions : s = [Seller!Idle EXCEPT !.op = "one", !.todo = {d}]
  BY DEF Seller!Idle, Sessions, Seller!DocOps
<1>4. s.op = "one" /\ s.doc = NoDoc /\ s.todo = {d} /\ s.read = {}
  BY <1>3 DEF Seller!Idle
<1>5. /\ req[r].op = "idle" /\ req' \in [Requests -> Sessions] /\ req'[r] = s
      /\ \A q \in Requests \ {r} : req'[q] = req[q]
  BY <1>2, <1>3, SessionBegins DEF Seller!ClaimForDownload
<1>6. /\ row' \in [Docs -> {"none", "active", "claimed", "received", "removed"}]
      /\ row'[d] = "claimed" /\ \A e \in Docs \ {d} : row'[e] = row[e]
  BY <1>1, <1>2 DEF Seller!DocTypeOK
<1>7. Seller!DocTypeOK'
  BY <1>1, <1>2, <1>5, <1>6 DEF Seller!DocTypeOK, Sessions
<1>8. RequestFits(r)' /\ ErasesAll(r)'
  BY <1>4, <1>5, <1>6 DEF RequestFits, Uploads, Downloads, ErasesAll
<1>9. d \in Seller!Busy(r)'
  BY <1>4, <1>5 DEF Seller!Busy
<1>10. \A e \in file : e \in Docs /\ e \notin Seller!Busy(r)
  BY <1>2, <1>5, DocAssumption DEF RequestFits, Seller!Busy, Seller!DocTypeOK
<1> QED
  BY <1>1, <1>4, <1>5, <1>6, <1>7, <1>8, <1>9, <1>10, RowsGo DEF Uploads, Downloads

LEMMA ClaimAllKeeps ==
  ASSUME DocInv, NEW r \in Requests, Seller!ClaimAllForDownload(r)
  PROVE  DocInv'
<1>1. /\ row' = [d \in Docs |-> IF row[d] = "active" THEN "claimed" ELSE row[d]]
      /\ UNCHANGED <<old, closed, file, got, stray>>
  BY DEF Seller!ClaimAllForDownload, Seller!ghosts
<1>2. Seller!DocTypeOK /\ RequestFits(r)
  BY Fits DEF DocInv
<1>3. PICK s \in Sessions : s = [Seller!Idle EXCEPT !.op = "claimAll", !.todo = Seller!Rows({"active"})]
  BY DEF Seller!Idle, Sessions, Seller!DocOps, Seller!Rows
<1>4. s.op = "claimAll" /\ s.doc = NoDoc /\ s.todo = Active /\ s.read = {}
  BY <1>3 DEF Seller!Idle, Active
<1>5. /\ req[r].op = "idle" /\ req' \in [Requests -> Sessions] /\ req'[r] = s
      /\ \A q \in Requests \ {r} : req'[q] = req[q]
  BY <1>2, <1>3, SessionBegins DEF Seller!ClaimAllForDownload
<1>6. Seller!DocTypeOK'
  BY <1>1, <1>2, <1>5 DEF Seller!DocTypeOK, Sessions
<1>7. RequestFits(r)' /\ ErasesAll(r)'
  BY <1>1, <1>4, <1>5 DEF RequestFits, Uploads, Downloads, ErasesAll, Active, Seller!Rows
<1>8. \A e \in Docs : row[e] = "active" => e \in Seller!Busy(r)'
  BY <1>4, <1>5 DEF Seller!Busy, Active, Seller!Rows
<1>9. \A e \in file : e \in Docs /\ e \notin Seller!Busy(r)
  BY <1>2, <1>5, DocAssumption DEF RequestFits, Seller!Busy, Seller!DocTypeOK
<1> QED
  BY <1>1, <1>4, <1>5, <1>6, <1>7, <1>8, <1>9, RowsGo DEF Uploads, Downloads

LEMMA FindClaimedKeeps ==
  ASSUME DocInv, NEW r \in Requests, Seller!FindClaimed(r)
  PROVE  DocInv'
<1> DEFINE claimed == Seller!Rows({"claimed"})
<1>1. /\ req[r].op = "claimAll" /\ req' = [req EXCEPT ![r].op = "all", ![r].todo = claimed]
      /\ stray' = stray \cup (req[r].todo \ claimed)
      /\ UNCHANGED <<row, old, closed, file, got>>
  BY DEF Seller!FindClaimed, Seller!rowVars
<1>2. Seller!DocTypeOK /\ RequestFits(r) /\ ReadsAlone(r)
  BY Fits DEF DocInv
<1>3. PICK s \in Sessions : s = [req[r] EXCEPT !.op = "all", !.todo = claimed]
  BY ZenonT(40), <1>2 DEF Seller!DocTypeOK, Sessions, Seller!DocOps, Seller!Rows
<1>4. s.op = "all" /\ s.doc = NoDoc /\ s.todo = claimed /\ s.read = {}
  BY <1>1, <1>2, <1>3 DEF Seller!DocTypeOK, RequestFits, ReadsAlone, Downloads
<1>5. req' = [req EXCEPT ![r] = s]
  BY <1>1, <1>2, <1>3 DEF Seller!DocTypeOK
<1>6. req' \in [Requests -> Sessions] /\ req'[r] = s /\ \A q \in Requests \ {r} : req'[q] = req[q]
  BY <1>2, <1>5, SessionBecomes
<1>7. Seller!DocTypeOK'
  BY <1>1, <1>2, <1>6 DEF Seller!DocTypeOK, Sessions
<1>8. RequestFits(r)'
  BY <1>1, <1>4, <1>6 DEF RequestFits, Uploads, Downloads, Seller!Rows
<1>9. \A d \in file' \ stray' : d \in Seller!Busy(r) => d \in Seller!Busy(r)'
  BY <1>1, <1>2, <1>4, <1>6, DocAssumption DEF Seller!Busy, RequestFits, Seller!DocTypeOK
<1> QED
  BY <1>1, <1>4, <1>6, <1>7, <1>8, <1>9, QuietMoves DEF Uploads, Downloads

LEMMA ReadFileKeeps ==
  ASSUME DocInv, NEW r \in Requests, NEW d \in Docs, Seller!ReadFile(r, d)
  PROVE  DocInv'
<1>1. /\ req[r].op \in Downloads /\ req[r].doc = NoDoc /\ d \in req[r].todo
      /\ req' = [req EXCEPT ![r].doc = d] /\ UNCHANGED <<row, old, closed, file, got, stray>>
  BY DEF Seller!ReadFile, Seller!rowVars, Seller!ghosts, Downloads
<1>2. Seller!DocTypeOK /\ RequestFits(r)
  BY Fits DEF DocInv
<1>3. PICK s \in Sessions : s = [req[r] EXCEPT !.doc = d]
  BY <1>2 DEF Seller!DocTypeOK, Sessions
<1>4. s.op = req[r].op /\ s.doc = d /\ s.todo = req[r].todo /\ s.read = req[r].read
  BY <1>2, <1>3 DEF Seller!DocTypeOK
<1>5. req' = [req EXCEPT ![r] = s]
  BY <1>1, <1>3 DEF Seller!DocTypeOK
<1>6. req' \in [Requests -> Sessions] /\ req'[r] = s /\ \A q \in Requests \ {r} : req'[q] = req[q]
  BY <1>2, <1>5, SessionBecomes
<1>7. Seller!DocTypeOK'
  BY <1>1, <1>2, <1>6 DEF Seller!DocTypeOK, Sessions
<1>8. RequestFits(r)'
  BY <1>1, <1>2, <1>4, <1>6 DEF RequestFits, Uploads, Downloads
<1>9. \A e \in file' : e \in Docs /\ (e \in Seller!Busy(r) => e \in Seller!Busy(r)')
  BY <1>1, <1>2, <1>4, <1>6, DocAssumption DEF Seller!Busy, Seller!DocTypeOK
<1>10. row[d] # "none"
  BY <1>1, <1>2 DEF RequestFits
<1> QED
  BY <1>1, <1>4, <1>6, <1>7, <1>8, <1>9, <1>10, QuietMoves DEF Uploads, Downloads

LEMMA UnlinkReadKeeps ==
  ASSUME DocInv, NEW r \in Requests, Seller!UnlinkRead(r)
  PROVE  DocInv'
<1>1. /\ req[r].op \in Downloads /\ req[r].doc \in file /\ file' = file \ {req[r].doc}
      /\ req' = [req EXCEPT ![r].read = @ \cup {req[r].doc}]
      /\ UNCHANGED <<row, old, closed, got, stray>>
  BY DEF Seller!UnlinkRead, Seller!rowVars, Seller!ghosts, Downloads
<1>2. Seller!DocTypeOK /\ RequestFits(r)
  BY Fits DEF DocInv
<1>3. req[r].doc \in Docs /\ row[req[r].doc] # "none"
  BY <1>1, <1>2, DocAssumption DEF RequestFits, Seller!DocTypeOK, Downloads, Uploads
<1>4. PICK s \in Sessions : s = [req[r] EXCEPT !.read = @ \cup {req[r].doc}]
  BY <1>2, <1>3 DEF Seller!DocTypeOK, Sessions
<1>5. s.op = req[r].op /\ s.doc = req[r].doc /\ s.todo = req[r].todo /\ s.read = req[r].read \cup {req[r].doc}
  BY <1>2, <1>4 DEF Seller!DocTypeOK
<1>6. req' = [req EXCEPT ![r] = s]
  BY <1>1, <1>4 DEF Seller!DocTypeOK
<1>7. req' \in [Requests -> Sessions] /\ req'[r] = s /\ \A q \in Requests \ {r} : req'[q] = req[q]
  BY <1>2, <1>6, SessionBecomes
<1>8. Seller!DocTypeOK'
  BY <1>1, <1>2, <1>7 DEF Seller!DocTypeOK, Sessions
<1>9. RequestFits(r)'
  BY <1>1, <1>2, <1>5, <1>7 DEF RequestFits, Uploads, Downloads
<1>10. \A e \in file' : e \in file /\ (e \in Seller!Busy(r) => e \in Seller!Busy(r)')
  BY <1>1, <1>5, <1>7 DEF Seller!Busy
<1>11. \A e \in req'[r].read : e \in req[r].read \/ (e \in file \ file' /\ row[e] # "none")
  BY <1>1, <1>3, <1>5, <1>7
<1> QED
  BY <1>1, <1>5, <1>7, <1>8, <1>9, <1>10, <1>11, QuietMoves DEF Uploads, Downloads

LEMMA MarkDownloadedKeeps ==
  ASSUME DocInv, NEW r \in Requests, Seller!MarkDownloadedAndDeleted(r)
  PROVE  DocInv'
<1>1. /\ req[r].op \in Downloads /\ req[r].doc \in req[r].read
      /\ row[req[r].doc] \notin {"none", "removed"}
      /\ row' = [row EXCEPT ![req[r].doc] = "received"]
      /\ req' = [req EXCEPT ![r].doc = NoDoc, ![r].todo = @ \ {req[r].doc}]
      /\ UNCHANGED <<old, closed, file, got, stray>>
  BY DEF Seller!MarkDownloadedAndDeleted, Seller!ghosts, Downloads
<1>2. Seller!DocTypeOK /\ RequestFits(r) /\ ReadsAlone(r)
  BY Fits DEF DocInv
<1>3. req[r].doc \in Docs /\ req[r].doc \notin file
  BY <1>1, <1>2 DEF Seller!DocTypeOK, ReadsAlone
<1>4. PICK s \in Sessions : s = [req[r] EXCEPT !.doc = NoDoc, !.todo = @ \ {req[r].doc}]
  BY <1>2 DEF Seller!DocTypeOK, Sessions
<1>5. s.op = req[r].op /\ s.doc = NoDoc /\ s.todo = req[r].todo \ {req[r].doc} /\ s.read = req[r].read
  BY <1>2, <1>4 DEF Seller!DocTypeOK
<1>6. req' = [req EXCEPT ![r] = s]
  BY <1>1, <1>2, <1>4 DEF Seller!DocTypeOK
<1>7. req' \in [Requests -> Sessions] /\ req'[r] = s /\ \A q \in Requests \ {r} : req'[q] = req[q]
  BY <1>2, <1>6, SessionBecomes
<1>8. /\ row' \in [Docs -> {"none", "active", "claimed", "received", "removed"}]
      /\ row'[req[r].doc] = "received" /\ \A e \in Docs \ {req[r].doc} : row'[e] = row[e]
  BY <1>1, <1>2, <1>3 DEF Seller!DocTypeOK
<1>9. Seller!DocTypeOK'
  BY <1>1, <1>2, <1>7, <1>8 DEF Seller!DocTypeOK, Sessions
<1>10. RequestFits(r)' /\ ErasesAll(r)'
  BY <1>1, <1>2, <1>5, <1>7, <1>8 DEF RequestFits, ErasesAll, Uploads, Downloads, Seller!DocTypeOK
<1>11. \A e \in file : e \in Docs /\ e # req[r].doc /\ (e \in Seller!Busy(r) => e \in Seller!Busy(r)')
  BY <1>2, <1>3, <1>5, <1>7 DEF Seller!Busy, Seller!DocTypeOK
<1> QED
  BY <1>1, <1>3, <1>5, <1>7, <1>8, <1>9, <1>10, <1>11, RowsGo DEF Uploads, Downloads

LEMMA SendDocumentsKeeps ==
  ASSUME DocInv, NEW r \in Requests, Seller!SendDocuments(r)
  PROVE  DocInv'
<1>1. /\ req[r].op \in Downloads /\ req[r].todo = {}
      /\ got' = [d \in Docs |-> IF d \in req[r].read THEN got[d] \cup {r} ELSE got[d]]
      /\ req' = [req EXCEPT ![r] = Seller!Idle]
      /\ UNCHANGED <<row, old, closed, file, stray>>
  BY DEF Seller!SendDocuments, Seller!rowVars, Downloads
<1>2. Seller!DocTypeOK /\ RequestFits(r)
  BY Fits DEF DocInv
<1>3. /\ req' \in [Requests -> Sessions] /\ req'[r].op = "idle" /\ req'[r].doc = NoDoc
      /\ req'[r].todo = {} /\ req'[r].read = {}
      /\ \A q \in Requests \ {r} : req'[q] = req[q]
  BY <1>1, <1>2, SessionEnds
<1>4. got' \in [Docs -> SUBSET Requests]
  BY <1>1, <1>2 DEF Seller!DocTypeOK
<1>5. Seller!DocTypeOK'
  BY <1>1, <1>2, <1>3, <1>4 DEF Seller!DocTypeOK, Sessions
<1>6. RequestFits(r)'
  BY <1>3 DEF RequestFits, Uploads, Downloads
<1>7. \A e \in file : e \notin Seller!Busy(r)
  BY <1>1, <1>2, DocAssumption DEF Seller!Busy, RequestFits, Seller!DocTypeOK
<1>8. \A d \in Docs : got'[d] = got[d] \/ (d \in req[r].read /\ got'[d] = got[d] \cup {r})
  BY <1>1
<1> QED
  BY <1>1, <1>3, <1>5, <1>6, <1>7, <1>8, QuietMoves DEF Uploads, Downloads

LEMMA TakeBackKeeps ==
  ASSUME DocInv, NEW r \in Requests, NEW d \in Docs, Seller!TakeBack(r, d)
  PROVE  DocInv'
<1>1. /\ row[d] \in {"active", "claimed"} /\ UNCHANGED <<row, old, closed, file, got, stray>>
  BY DEF Seller!TakeBack, Seller!rowVars, Seller!ghosts
<1>2. Seller!DocTypeOK /\ RequestFits(r)
  BY Fits DEF DocInv
<1>3. PICK s \in Sessions : s = [Seller!Idle EXCEPT !.op = "take", !.doc = d]
  BY DEF Seller!Idle, Sessions, Seller!DocOps
<1>4. s.op = "take" /\ s.doc = d /\ s.todo = {} /\ s.read = {}
  BY <1>3 DEF Seller!Idle
<1>5. /\ req[r].op = "idle" /\ req' \in [Requests -> Sessions] /\ req'[r] = s
      /\ \A q \in Requests \ {r} : req'[q] = req[q]
  BY <1>2, <1>3, SessionBegins DEF Seller!TakeBack
<1>6. Seller!DocTypeOK'
  BY <1>1, <1>2, <1>5 DEF Seller!DocTypeOK, Sessions
<1>7. RequestFits(r)'
  BY <1>1, <1>4, <1>5, DocAssumption DEF RequestFits, Uploads, Downloads
<1>8. \A e \in file : e \notin Seller!Busy(r)
  BY <1>2, <1>5, DocAssumption DEF RequestFits, Seller!Busy, Seller!DocTypeOK
<1> QED
  BY <1>1, <1>4, <1>5, <1>6, <1>7, <1>8, QuietMoves DEF Uploads, Downloads

LEMMA TakeBackFileKeeps ==
  ASSUME DocInv, NEW r \in Requests, Seller!TakeBackFile(r)
  PROVE  DocInv'
<1>1. /\ req[r].op = "take" /\ file' = file \ {req[r].doc} /\ Seller!Go(r, "back")
      /\ UNCHANGED <<row, old, closed, got, stray>>
  BY DEF Seller!TakeBackFile, Seller!rowVars, Seller!ghosts
<1>2. Seller!DocTypeOK /\ RequestFits(r) /\ ReadsAlone(r) /\ "back" \in Seller!DocOps
  BY Fits DEF DocInv, Seller!DocOps
<1>3. /\ req' \in [Requests -> Sessions] /\ req'[r].op = "back" /\ req'[r].doc = req[r].doc
      /\ req'[r].todo = req[r].todo /\ req'[r].read = req[r].read
      /\ \A q \in Requests \ {r} : req'[q] = req[q]
  BY <1>1, <1>2, SessionGoes
<1>4. req[r].read = {}
  BY <1>1, <1>2 DEF ReadsAlone, Downloads
<1>5. Seller!DocTypeOK'
  BY <1>1, <1>2, <1>3 DEF Seller!DocTypeOK, Sessions
<1>6. RequestFits(r)'
  BY <1>1, <1>2, <1>3 DEF RequestFits, Uploads, Downloads
<1>7. \A d \in Seller!Busy(r) : d \in Seller!Busy(r)'
  BY <1>3 DEF Seller!Busy
<1> QED
  BY <1>1, <1>3, <1>4, <1>5, <1>6, <1>7, QuietMoves DEF Uploads, Downloads

LEMMA HardDeleteRowKeeps ==
  ASSUME DocInv, NEW r \in Requests, Seller!HardDeleteRow(r)
  PROVE  DocInv'
<1>1. /\ req[r].op = "back" /\ row' = [row EXCEPT ![req[r].doc] = "removed"]
      /\ req' = [req EXCEPT ![r] = Seller!Idle]
      /\ UNCHANGED <<old, closed, file, got, stray>>
  BY DEF Seller!HardDeleteRow, Seller!ghosts
<1>2. Seller!DocTypeOK /\ RequestFits(r)
  BY Fits DEF DocInv
<1>3. /\ req' \in [Requests -> Sessions] /\ req'[r].op = "idle" /\ req'[r].doc = NoDoc
      /\ req'[r].todo = {} /\ req'[r].read = {}
      /\ \A q \in Requests \ {r} : req'[q] = req[q]
  BY <1>1, <1>2, SessionEnds
<1>4. /\ req[r].doc \in Docs /\ row[req[r].doc] # "none" /\ req[r].doc \notin file /\ req[r].todo = {}
  BY <1>1, <1>2 DEF RequestFits, Uploads, Seller!DocTypeOK
<1>5. /\ row' \in [Docs -> {"none", "active", "claimed", "received", "removed"}]
      /\ row'[req[r].doc] = "removed" /\ \A e \in Docs \ {req[r].doc} : row'[e] = row[e]
  BY <1>1, <1>2, <1>4 DEF Seller!DocTypeOK
<1>6. Seller!DocTypeOK'
  BY <1>1, <1>2, <1>3, <1>5 DEF Seller!DocTypeOK, Sessions
<1>7. RequestFits(r)' /\ ErasesAll(r)'
  BY <1>3 DEF RequestFits, ErasesAll, Uploads, Downloads
<1>8. \A e \in file : e \in Docs /\ e # req[r].doc /\ e \notin Seller!Busy(r)
  BY <1>2, <1>4 DEF Seller!Busy, Seller!DocTypeOK
<1> QED
  BY <1>1, <1>3, <1>4, <1>5, <1>6, <1>7, <1>8, RowsGo DEF Uploads, Downloads

LEMMA FindExpiredKeeps ==
  ASSUME DocInv, NEW r \in Requests, Seller!FindExpiredUnpurged(r)
  PROVE  DocInv'
<1>1. UNCHANGED <<row, old, closed, file, got, stray>>
  BY DEF Seller!FindExpiredUnpurged, Seller!rowVars, Seller!ghosts
<1>2. Seller!DocTypeOK /\ RequestFits(r)
  BY Fits DEF DocInv
<1>3. PICK s \in Sessions : s = [Seller!Idle EXCEPT !.op = "purge", !.todo = old \cap Seller!Rows({"active"})]
  BY DEF Seller!Idle, Sessions, Seller!DocOps, Seller!Rows
<1>4. s.op = "purge" /\ s.doc = NoDoc /\ s.todo \subseteq Active /\ s.read = {}
  BY <1>3 DEF Seller!Idle, Active
<1>5. /\ req[r].op = "idle" /\ req' \in [Requests -> Sessions] /\ req'[r] = s
      /\ \A q \in Requests \ {r} : req'[q] = req[q]
  BY <1>2, <1>3, SessionBegins DEF Seller!FindExpiredUnpurged
<1>6. Seller!DocTypeOK'
  BY <1>1, <1>2, <1>5 DEF Seller!DocTypeOK, Sessions
<1>7. RequestFits(r)'
  BY <1>1, <1>4, <1>5 DEF RequestFits, Uploads, Downloads, Active, Seller!Rows
<1>8. \A e \in file : e \notin Seller!Busy(r)
  BY <1>2, <1>5, DocAssumption DEF RequestFits, Seller!Busy, Seller!DocTypeOK
<1> QED
  BY <1>1, <1>4, <1>5, <1>6, <1>7, <1>8, QuietMoves DEF Uploads, Downloads

LEMMA PurgeFileKeeps ==
  ASSUME DocInv, NEW r \in Requests, NEW d \in Docs, Seller!PurgeFile(r, d)
  PROVE  DocInv'
<1>1. /\ req[r].op = "purge" /\ d \in req[r].todo /\ file' = file \ {d}
      /\ req' = [req EXCEPT ![r].op = "purgeMark", ![r].doc = d, ![r].todo = @ \ {d}]
      /\ UNCHANGED <<row, old, closed, got, stray>>
  BY DEF Seller!PurgeFile, Seller!rowVars, Seller!ghosts
<1>2. Seller!DocTypeOK /\ RequestFits(r) /\ ReadsAlone(r)
  BY Fits DEF DocInv
<1>3. PICK s \in Sessions : s = [req[r] EXCEPT !.op = "purgeMark", !.doc = d, !.todo = @ \ {d}]
  BY ZenonT(40), <1>2 DEF Seller!DocTypeOK, Sessions, Seller!DocOps
<1>4. s.op = "purgeMark" /\ s.doc = d /\ s.todo = req[r].todo \ {d} /\ s.read = req[r].read
  BY <1>2, <1>3 DEF Seller!DocTypeOK
<1>5. req' = [req EXCEPT ![r] = s]
  BY <1>1, <1>2, <1>3 DEF Seller!DocTypeOK
<1>6. req' \in [Requests -> Sessions] /\ req'[r] = s /\ \A q \in Requests \ {r} : req'[q] = req[q]
  BY <1>2, <1>5, SessionBecomes
<1>7. req[r].read = {} /\ req[r].doc = NoDoc /\ row[d] # "none"
  BY <1>1, <1>2 DEF ReadsAlone, RequestFits, Downloads
<1>8. Seller!DocTypeOK'
  BY <1>1, <1>2, <1>6 DEF Seller!DocTypeOK, Sessions
<1>9. RequestFits(r)'
  BY <1>1, <1>2, <1>4, <1>6, <1>7, DocAssumption DEF RequestFits, Uploads, Downloads
<1>10. \A e \in file' : e \in file /\ (e \in Seller!Busy(r) => e \in Seller!Busy(r)')
  BY <1>1, <1>2, <1>4, <1>6, <1>7, DocAssumption DEF Seller!Busy, Seller!DocTypeOK
<1> QED
  BY <1>1, <1>4, <1>6, <1>7, <1>8, <1>9, <1>10, QuietMoves DEF Uploads, Downloads

LEMMA MarkPurgedKeeps ==
  ASSUME DocInv, NEW r \in Requests, Seller!MarkPurged(r)
  PROVE  DocInv'
<1> DEFINE d == req[r].doc
<1>1. /\ req[r].op = "purgeMark"
      /\ row' = [row EXCEPT ![d] = IF @ = "active" THEN "claimed" ELSE @]
      /\ req' = [req EXCEPT ![r] = IF @.todo = {} THEN Seller!Idle
                                   ELSE [@ EXCEPT !.op = "purge", !.doc = NoDoc]]
      /\ UNCHANGED <<old, closed, file, got, stray>>
  BY DEF Seller!MarkPurged, Seller!ghosts
<1>2. Seller!DocTypeOK /\ RequestFits(r) /\ ReadsAlone(r)
  BY Fits DEF DocInv
<1>3. d \in Docs /\ d \notin file /\ row[d] # "none" /\ req[r].read = {}
  BY <1>1, <1>2 DEF RequestFits, ReadsAlone, Uploads, Downloads, Seller!DocTypeOK
<1>4. PICK s \in Sessions : s = IF req[r].todo = {} THEN Seller!Idle
                                ELSE [req[r] EXCEPT !.op = "purge", !.doc = NoDoc]
  BY ZenonT(40), <1>2 DEF Seller!DocTypeOK, Sessions, Seller!DocOps, Seller!Idle
<1>5. s.op \in {"idle", "purge"} /\ (s.op = "idle" => s.todo = {}) /\ s.doc = NoDoc
      /\ s.todo = req[r].todo /\ s.read = {}
  BY <1>2, <1>3, <1>4 DEF Seller!DocTypeOK, Seller!Idle
<1>6. req' = [req EXCEPT ![r] = s]
  BY <1>1, <1>2, <1>4 DEF Seller!DocTypeOK
<1>7. req' \in [Requests -> Sessions] /\ req'[r] = s /\ \A q \in Requests \ {r} : req'[q] = req[q]
  BY <1>2, <1>6, SessionBecomes
<1>8. /\ row' \in [Docs -> {"none", "active", "claimed", "received", "removed"}]
      /\ row'[d] \notin {"none", "active"} /\ \A e \in Docs \ {d} : row'[e] = row[e]
  BY <1>1, <1>2, <1>3 DEF Seller!DocTypeOK
<1>9. Seller!DocTypeOK'
  BY <1>1, <1>2, <1>7, <1>8 DEF Seller!DocTypeOK, Sessions
<1>10. RequestFits(r)' /\ ErasesAll(r)'
  BY <1>2, <1>5, <1>7, <1>8 DEF RequestFits, ErasesAll, Uploads, Downloads, Seller!DocTypeOK
<1>11. \A e \in file : e \in Docs /\ e # d /\ (e \in Seller!Busy(r) => e \in Seller!Busy(r)')
  BY <1>2, <1>3, <1>5, <1>7 DEF Seller!Busy, Seller!DocTypeOK
<1> QED
  BY <1>1, <1>3, <1>5, <1>7, <1>8, <1>9, <1>10, <1>11, RowsGo DEF Uploads, Downloads

LEMMA DeleteAccountKeeps ==
  ASSUME DocInv, NEW r \in Requests, Seller!DeleteSellerAccount(r)
  PROVE  DocInv'
<1>1. UNCHANGED <<row, old, closed, file, got, stray>>
  BY DEF Seller!DeleteSellerAccount, Seller!rowVars, Seller!ghosts
<1>2. Seller!DocTypeOK /\ RequestFits(r)
  BY Fits DEF DocInv
<1>3. PICK s \in Sessions : s = [Seller!Idle EXCEPT !.op = "erase", !.todo = Seller!CollectFiles]
  BY DEF Seller!Idle, Sessions, Seller!DocOps, Seller!Rows, Seller!CollectFiles
<1>4. s.op = "erase" /\ s.doc = NoDoc /\ s.todo = Active /\ s.read = {}
  BY <1>3 DEF Seller!Idle, Active, Seller!CollectFiles
<1>5. /\ req[r].op = "idle" /\ req' \in [Requests -> Sessions] /\ req'[r] = s
      /\ \A q \in Requests \ {r} : req'[q] = req[q]
  BY <1>2, <1>3, SessionBegins DEF Seller!DeleteSellerAccount
<1>6. Seller!DocTypeOK'
  BY <1>1, <1>2, <1>5 DEF Seller!DocTypeOK, Sessions
<1>7. RequestFits(r)'
  BY <1>1, <1>4, <1>5 DEF RequestFits, Uploads, Downloads, Active, Seller!Rows
<1>8. \A e \in file : e \notin Seller!Busy(r)
  BY <1>2, <1>5, DocAssumption DEF RequestFits, Seller!Busy, Seller!DocTypeOK
<1> QED
  BY <1>1, <1>4, <1>5, <1>6, <1>7, <1>8, QuietMoves DEF Uploads, Downloads

LEMMA HardDeleteSellerKeeps ==
  ASSUME DocInv, NEW r \in Requests, Seller!HardDeleteSellerRows(r)
  PROVE  DocInv'
<1>1. /\ req[r].op = "erase" /\ closed' = TRUE /\ Seller!Go(r, "eraseFiles")
      /\ row' = [d \in Docs |-> IF row[d] = "none" THEN "none" ELSE "removed"]
      /\ UNCHANGED <<old, file, got, stray>>
  BY DEF Seller!HardDeleteSellerRows, Seller!ghosts
<1>2. /\ Seller!DocTypeOK /\ RequestFits(r) /\ ReadsAlone(r) /\ ErasesAll(r)
      /\ "eraseFiles" \in Seller!DocOps
  BY Fits DEF DocInv, Seller!DocOps
<1>3. /\ req' \in [Requests -> Sessions] /\ req'[r].op = "eraseFiles" /\ req'[r].doc = req[r].doc
      /\ req'[r].todo = req[r].todo /\ req'[r].read = req[r].read
      /\ \A q \in Requests \ {r} : req'[q] = req[q]
  BY <1>1, <1>2, SessionGoes
<1>4. req[r].read = {} /\ req[r].doc = NoDoc
  BY <1>1, <1>2 DEF ReadsAlone, RequestFits, Downloads
<1>5. Seller!DocTypeOK'
  BY <1>1, <1>2, <1>3 DEF Seller!DocTypeOK, Sessions
<1>6. RequestFits(r)' /\ ErasesAll(r)'
  BY <1>1, <1>2, <1>3, <1>4 DEF RequestFits, ErasesAll, Uploads, Downloads, Seller!DocTypeOK
<1>7. \A e \in Docs : row'[e] # "active" /\ (row[e] = "none" <=> row'[e] = "none")
  BY <1>1
<1>8. CountHolds'
  <2>1. Active' \subseteq Active
    BY <1>7 DEF Active, Seller!Rows
  <2>2. Uploading' \subseteq Uploading
    BY <1>1, <1>3 DEF Uploading, Uploads
  <2> QED
    BY <2>1, <2>2, CountShrinks DEF DocInv, DocHolds
<1>9. \A e \in file' \ stray' : /\ row[e] = "active" => e \in Seller!Busy(r)'
                                /\ e \in Seller!Busy(r) => e \in Seller!Busy(r)'
  BY <1>1, <1>2, <1>3 DEF ErasesAll, Active, Seller!Rows, Seller!Busy, Seller!DocTypeOK
<1> QED
  BY <1>1, <1>3, <1>4, <1>5, <1>6, <1>7, <1>8, <1>9, DocMoves DEF Uploads, Downloads

LEMMA EraseFileKeeps ==
  ASSUME DocInv, NEW r \in Requests, NEW d \in Docs, Seller!EraseFile(r, d)
  PROVE  DocInv'
<1>1. /\ req[r].op = "eraseFiles" /\ d \in req[r].todo /\ file' = file \ {d}
      /\ req' = [req EXCEPT ![r].todo = @ \ {d}]
      /\ UNCHANGED <<row, old, closed, got, stray>>
  BY DEF Seller!EraseFile, Seller!rowVars, Seller!ghosts
<1>2. Seller!DocTypeOK /\ RequestFits(r) /\ ReadsAlone(r)
  BY Fits DEF DocInv
<1>3. PICK s \in Sessions : s = [req[r] EXCEPT !.todo = @ \ {d}]
  BY <1>2 DEF Seller!DocTypeOK, Sessions
<1>4. s.op = "eraseFiles" /\ s.doc = req[r].doc /\ s.todo = req[r].todo \ {d} /\ s.read = req[r].read
  BY <1>1, <1>2, <1>3 DEF Seller!DocTypeOK
<1>5. req' = [req EXCEPT ![r] = s]
  BY <1>1, <1>2, <1>3 DEF Seller!DocTypeOK
<1>6. req' \in [Requests -> Sessions] /\ req'[r] = s /\ \A q \in Requests \ {r} : req'[q] = req[q]
  BY <1>2, <1>5, SessionBecomes
<1>7. req[r].read = {} /\ req[r].doc = NoDoc
  BY <1>1, <1>2 DEF ReadsAlone, RequestFits, Downloads
<1>8. Seller!DocTypeOK'
  BY <1>1, <1>2, <1>6 DEF Seller!DocTypeOK, Sessions
<1>9. RequestFits(r)'
  BY <1>1, <1>2, <1>4, <1>6, <1>7 DEF RequestFits, Uploads, Downloads
<1>10. \A e \in file' : e \in file /\ (e \in Seller!Busy(r) => e \in Seller!Busy(r)')
  BY <1>1, <1>2, <1>4, <1>6, <1>7, DocAssumption DEF Seller!Busy, Seller!DocTypeOK
<1> QED
  BY <1>1, <1>4, <1>6, <1>7, <1>8, <1>9, <1>10, QuietMoves DEF Uploads, Downloads

LEMMA EraseDoneKeeps ==
  ASSUME DocInv, NEW r \in Requests, Seller!EraseDone(r)
  PROVE  DocInv'
<1>1. /\ req[r].op = "eraseFiles" /\ req[r].todo = {} /\ req' = [req EXCEPT ![r] = Seller!Idle]
      /\ UNCHANGED <<row, old, closed, file, got, stray>>
  BY DEF Seller!EraseDone, Seller!rowVars, Seller!ghosts
<1>2. Seller!DocTypeOK /\ RequestFits(r)
  BY Fits DEF DocInv
<1>3. /\ req' \in [Requests -> Sessions] /\ req'[r].op = "idle" /\ req'[r].doc = NoDoc
      /\ req'[r].todo = {} /\ req'[r].read = {}
      /\ \A q \in Requests \ {r} : req'[q] = req[q]
  BY <1>1, <1>2, SessionEnds
<1>4. Seller!DocTypeOK'
  BY <1>1, <1>2, <1>3 DEF Seller!DocTypeOK, Sessions
<1>5. RequestFits(r)'
  BY <1>3 DEF RequestFits, Uploads, Downloads
<1>6. \A e \in file : e \notin Seller!Busy(r)
  BY <1>1, <1>2, DocAssumption DEF Seller!Busy, RequestFits, Seller!DocTypeOK
<1> QED
  BY <1>1, <1>3, <1>4, <1>5, <1>6, QuietMoves DEF Uploads, Downloads

LEMMA DaysPassKeeps ==
  ASSUME DocInv, NEW d \in Docs, Seller!DaysPass(d)
  PROVE  DocInv'
<1>1. old' = old \cup {d} /\ UNCHANGED <<row, closed, file, req, got, stray>>
  BY DEF Seller!DaysPass, Seller!ghosts
<1>2. Seller!DocTypeOK'
  BY <1>1 DEF DocInv, Seller!DocTypeOK
<1>3. DocHolds'
  BY <1>1 DEF DocInv, DocHolds, RequestFits, ErasesAll, ReadsAlone, GotOnce, AccountedFor, CountHolds,
     Active, Uploading, Seller!Rows, Seller!Busy
<1> QED
  BY <1>2, <1>3 DEF DocInv

LEMMA DocStarts == Seller!DocInit => DocInv
<1> SUFFICES ASSUME Seller!DocInit PROVE DocInv
  OBVIOUS
<1>1. /\ row = [d \in Docs |-> "none"] /\ file = {} /\ old = {} /\ closed = FALSE
      /\ req = [r \in Requests |-> Seller!Idle] /\ got = [d \in Docs |-> {}] /\ stray = {}
  BY DEF Seller!DocInit
<1>2. Seller!Idle \in Sessions
  BY DEF Seller!Idle, Sessions, Seller!DocOps
<1>3. Seller!DocTypeOK
  BY <1>1, <1>2 DEF Seller!DocTypeOK, Sessions
<1>4. ASSUME NEW r \in Requests
      PROVE req[r].op = "idle" /\ req[r].doc = NoDoc /\ req[r].todo = {} /\ req[r].read = {}
  BY <1>1 DEF Seller!Idle
<1>5. ASSUME NEW r \in Requests PROVE RequestFits(r) /\ ErasesAll(r) /\ ReadsAlone(r)
  BY <1>4 DEF RequestFits, ErasesAll, ReadsAlone, Uploads, Downloads
<1>6. CountHolds
  <2>1. Active = {} /\ Uploading \subseteq Requests
    BY <1>1 DEF Active, Uploading, Seller!Rows
  <2>2. Uploading = {}
    BY <1>4 DEF Uploading, Uploads
  <2>3. Cardinality({}) = 0 /\ IsFiniteSet({})
    BY FS_EmptySet
  <2>4. Cardinality(Requests) \in Nat /\ MaxFiles \in Nat \ {0}
    BY DocAssumption, FS_CardinalityType
  <2>5. Cardinality(Active) = 0 /\ Cardinality(Uploading) = 0 /\ IsFiniteSet(Active)
    BY <2>1, <2>2, <2>3, Zenon
  <2>6. 0 + 0 <= MaxFiles - 1 + Cardinality(Requests)
    BY <2>4
  <2> QED
    BY <2>5, <2>6 DEF CountHolds
<1> QED
  BY <1>1, <1>3, <1>5, <1>6 DEF DocInv, DocHolds, GotOnce, AccountedFor

LEMMA DocInvKept == Seller!DocSpec => []DocInv
<1>1. DocInv /\ [Seller!DocNext]_(Seller!docVars) => DocInv'
  <2> SUFFICES ASSUME DocInv, [Seller!DocNext]_(Seller!docVars) PROVE DocInv'
    OBVIOUS
  <2>1. CASE UNCHANGED Seller!docVars
    BY <2>1 DEF Seller!docVars, Seller!rowVars, Seller!ghosts, DocInv, DocHolds, Seller!DocTypeOK,
       RequestFits, ErasesAll, ReadsAlone, GotOnce, AccountedFor, CountHolds, Active, Uploading,
       Seller!Rows, Seller!Busy
  <2>2. ASSUME NEW r \in Requests, Seller!SellerStep(r) PROVE DocInv'
    BY <2>2, UploadCheckKeeps, TakeBackKeeps, SaveFileKeeps, CreateRowKeeps, TakeBackFileKeeps,
       HardDeleteRowKeeps DEF Seller!SellerStep
  <2>3. ASSUME NEW r \in Requests, Seller!AgentStep(r) PROVE DocInv'
    BY <2>3, ClaimKeeps, ReadFileKeeps, ClaimAllKeeps, FindClaimedKeeps, UnlinkReadKeeps,
       MarkDownloadedKeeps, SendDocumentsKeeps DEF Seller!AgentStep
  <2>4. ASSUME NEW r \in Requests, Seller!EraseStep(r) PROVE DocInv'
    BY <2>4, PurgeFileKeeps, EraseFileKeeps, FindExpiredKeeps, MarkPurgedKeeps, DeleteAccountKeeps,
       HardDeleteSellerKeeps, EraseDoneKeeps DEF Seller!EraseStep
  <2> QED
    BY <2>1, <2>2, <2>3, <2>4, AbortKeeps, DaysPassKeeps DEF Seller!DocNext
<1> QED
  BY <1>1, DocStarts, PTL DEF Seller!DocSpec

\* A document reaches one agent at most, its file is accounted for, and uploads that
\* race exceed the limit by one each at most, for any number of documents, requests
\* and files allowed.
THEOREM DocumentsAreSoundKept == Seller!DocSpec => []DocumentsAreSound
<1>1. DocInv => DocumentsAreSound
  <2> SUFFICES ASSUME DocInv PROVE Seller!DocumentsAreSound
    BY DEF DocumentsAreSound
  <2>1. Seller!ReceivedOnce
    <3>1. ASSUME NEW d \in Docs PROVE Seller!Cardinality(got[d]) <= 1
      <4>1. CASE got[d] = {}
        BY <4>1, SameCount, FS_EmptySet
      <4>2. CASE got[d] # {}
        <5>1. PICK q \in got[d] : got[d] = {q}
          BY <4>2, DocFits DEF GotOnce
        <5> QED
          BY <5>1, SameCount, FS_Singleton
      <4> QED
        BY <4>1, <4>2
    <3> QED
      BY <3>1 DEF Seller!ReceivedOnce
  <2>2. Seller!FilesAreAccountedFor
    BY DocFits DEF Seller!FilesAreAccountedFor, AccountedFor, DocInv, Seller!DocTypeOK
  <2>3. Seller!OvershootIsBounded
    <3>1. Seller!CountActive = Cardinality(Active) /\ Seller!Cardinality(Requests) = Cardinality(Requests)
      BY SameCount DEF Seller!CountActive, Active
    <3>2. IsFiniteSet(Uploading) /\ IsFiniteSet(Active)
      BY DocAssumption, FS_Subset DEF Uploading, DocInv, DocHolds, CountHolds
    <3>3. /\ Cardinality(Uploading) \in Nat /\ Cardinality(Active) \in Nat
          /\ Cardinality(Requests) \in Nat /\ MaxFiles \in Nat
      BY <3>2, DocAssumption, FS_CardinalityType
    <3> QED
      BY <3>1, <3>3 DEF Seller!OvershootIsBounded, DocInv, DocHolds, CountHolds
  <2> QED
    BY <2>1, <2>2, <2>3 DEF Seller!DocumentsAreSound, DocInv
<1> QED
  BY <1>1, DocInvKept, PTL
-----------------------------------------------------------------------------
(* The papers of a sale.                                                   *)

\* A file just written, which its own request alone knows of.
Fresh == {"scan", "addInvoice", "addCdd", "cddAdd"}

\* Operations of a request that holds no single file.
Empty == {"idle", "save", "hand", "purge", "purgeOtp", "purgeInvoice", "purgeCdd", "files", "sending"}

WorkFits(r) ==
  /\ work[r].op \notin {"files", "sending", "mark"} => work[r].todo = {}
  /\ work[r].op \in Empty => work[r].paper = NoPaper
  /\ work[r].op \notin Empty => work[r].paper # NoPaper
  /\ work[r].op \in Fresh => work[r].paper \in disk
  /\ work[r].op = "save" => work[r].slot # "none"
  /\ work[r].op \in {"cddRow", "cddRemove", "mark"} => work[r].paper \notin disk
  /\ Sale!Held(r) \cup work[r].seen \subseteq Sale!Written

\* A file is held for what it was written as.
KindFits(r) ==
  /\ work[r].op = "scan" =>
       work[r].slot \in {"seller", "returned"} /\ kind[work[r].paper] = work[r].slot
  /\ work[r].op = "addInvoice" => kind[work[r].paper] = "invoice"
  /\ work[r].op \in {"addCdd", "cddAdd", "cddFile", "cddRow", "cddRemove"} =>
       kind[work[r].paper] = "cdd"
  /\ work[r].op \in {"cddAdd", "cddRemove"} => \A p \in work[r].seen : kind[p] = "cdd"

\* A path is of a file written as such.
Placed ==
  /\ \A s \in Sale!Slots : path[s] # NoPaper => kind[path[s]] = s
  /\ \A p \in cdd : kind[p] = "cdd"

\* A new file has no path yet, and nobody else has read or holds one.
FreshIsNew(r) ==
  work[r].op \in Fresh =>
    /\ work[r].paper \notin Sale!Known
    /\ \A q \in Requests \ {r} : work[r].paper \notin Sale!Held(q) \cup work[q].seen

\* A purge that has committed holds the file of no path.
HoldsNoPath(r) ==
  work[r].op = "files" => \A s \in Sale!Slots : path[s] \notin work[r].todo

\* A path whose file is gone is about to be cleared by who deleted the file.
PathHasFile(s) ==
  path[s] \notin {NoPaper} \cup disk \cup lost =>
    \E r \in Requests : work[r].op = "mark" /\ work[r].paper = path[s]

SaleRequestFits(r) == WorkFits(r) /\ KindFits(r) /\ FreshIsNew(r) /\ HoldsNoPath(r)

PaperHolds ==
  /\ \A r \in Requests : SaleRequestFits(r)
  /\ Placed /\ Sale!PapersAreAccountedFor
  /\ \A s \in Sale!Slots : PathHasFile(s)

PaperInv == Sale!PaperTypeOK /\ PaperHolds

Works == [op : Sale!Ops, slot : Sale!Kinds \cup {"none"}, todo : SUBSET Papers,
          seen : SUBSET Papers, paper : Papers \cup {NoPaper}]

LEMMA PaperFits ==
  ASSUME PaperInv, NEW r \in Requests
  PROVE  /\ WorkFits(r) /\ KindFits(r) /\ FreshIsNew(r) /\ HoldsNoPath(r)
         /\ work[r] \in Works /\ Sale!Held(r) = work[r].todo \cup ({work[r].paper} \ {NoPaper})
BY DEF PaperInv, PaperHolds, SaleRequestFits, Sale!PaperTypeOK, Works, Sale!Held

\* The state of a request, replaced.
LEMMA WorkBecomes ==
  ASSUME Sale!PaperTypeOK, NEW r \in Requests, NEW w \in Works, work' = [work EXCEPT ![r] = w]
  PROVE  /\ work' \in [Requests -> Works] /\ work'[r] = w /\ \A q \in Requests \ {r} : work'[q] = work[q]
         /\ Sale!Held(r)' = w.todo \cup ({w.paper} \ {NoPaper})
BY DEF Sale!PaperTypeOK, Works, Sale!Held

\* The next operation of a request, and what it has read.
Goes(r, op, seen) == work' = [work EXCEPT ![r].op = op, ![r].seen = seen]

LEMMA WorkGoes ==
  ASSUME Sale!PaperTypeOK, NEW r \in Requests, NEW op \in Sale!Ops, NEW seen \in SUBSET Papers,
         Goes(r, op, seen) \/ (Sale!Step(r, op) /\ seen = work[r].seen)
  PROVE  /\ work' \in [Requests -> Works] /\ work'[r].op = op /\ work'[r].slot = work[r].slot
         /\ work'[r].todo = work[r].todo /\ work'[r].paper = work[r].paper /\ work'[r].seen = seen
         /\ \A q \in Requests \ {r} : work'[q] = work[q]
         /\ Sale!Held(r)' = Sale!Held(r)
<1>1. PICK w \in Works : w = [work[r] EXCEPT !.op = op, !.seen = seen]
  BY DEF Sale!PaperTypeOK, Works
<1>2. /\ w.op = op /\ w.slot = work[r].slot /\ w.todo = work[r].todo /\ w.paper = work[r].paper
      /\ w.seen = seen
  BY <1>1 DEF Sale!PaperTypeOK
<1>3. work' = [work EXCEPT ![r] = w]
  <2>1. CASE Goes(r, op, seen)
    BY <1>1, <2>1 DEF Goes, Sale!PaperTypeOK
  <2>2. CASE Sale!Step(r, op) /\ seen = work[r].seen
    <3>1. w = [work[r] EXCEPT !.op = op]
      BY <1>1, <2>2 DEF Sale!PaperTypeOK
    <3> QED
      BY <2>2, <3>1 DEF Sale!Step, Sale!PaperTypeOK
  <2> QED
    BY <2>1, <2>2
<1> QED
  BY <1>2, <1>3, WorkBecomes DEF Sale!Held

LEMMA RestFits ==
  /\ Sale!Rest \in Works /\ Sale!Rest.op = "idle" /\ Sale!Rest.todo = {} /\ Sale!Rest.paper = NoPaper
  /\ Sale!Rest.seen = {} /\ Sale!Rest.slot = "none"
BY DEF Sale!Rest, Works, Sale!Ops

LEMMA WorkEnds ==
  ASSUME Sale!PaperTypeOK, NEW r \in Requests, work' = [work EXCEPT ![r] = Sale!Rest]
  PROVE  /\ work' \in [Requests -> Works] /\ work'[r] = Sale!Rest
         /\ work'[r].op = "idle" /\ work'[r].todo = {} /\ work'[r].paper = NoPaper /\ work'[r].seen = {}
         /\ \A q \in Requests \ {r} : work'[q] = work[q]
         /\ Sale!Held(r)' = {} /\ SaleRequestFits(r)'
<1>1. /\ work' \in [Requests -> Works] /\ work'[r] = Sale!Rest
      /\ \A q \in Requests \ {r} : work'[q] = work[q] /\ Sale!Held(r)' = {}
  BY RestFits, WorkBecomes
<1>2. SaleRequestFits(r)'
  BY <1>1, RestFits DEF SaleRequestFits, WorkFits, KindFits, HoldsNoPath, FreshIsNew, Sale!Held, Fresh, Empty
<1> QED
  BY <1>1, <1>2, RestFits, WorkBecomes

\* Of the request that takes the step only: what the others hold stays apart from it.
LEMMA PaperMoves ==
  ASSUME PaperInv, NEW r \in Requests, Sale!PaperTypeOK', lost \subseteq lost',
         \A p \in Sale!Written : kind'[p] = kind[p], Sale!Written \subseteq Sale!Written',
         disk' \subseteq disk \cup (Sale!Written' \ Sale!Written), disk \ disk' \subseteq Sale!Held(r),
         \A q \in Requests \ {r} : work'[q] = work[q],
         SaleRequestFits(r)', Placed',
         Sale!Known' \subseteq Sale!Known \cup Sale!Held(r) \cup work[r].seen,
         Sale!Held(r)' \cup work'[r].seen
           \subseteq Sale!Held(r) \cup work[r].seen \cup Sale!Known \cup (Sale!Written' \ Sale!Written),
         \A s \in Sale!Slots : \/ path'[s] \in {path[s], NoPaper}
                               \/ work[r].op \in Fresh /\ path'[s] = work[r].paper,
         \A p \in disk' \ lost' :
           p \in Sale!Known' \cup Sale!Held(r)' \/ (p \in disk /\ p \notin Sale!Known \cup Sale!Held(r)),
         \A s \in Sale!Slots : path'[s] \notin {NoPaper} \cup disk' \cup lost' =>
           \/ work'[r].op = "mark" /\ work'[r].paper = path'[s]
           \/ /\ path'[s] = path[s] /\ path[s] \notin disk
              /\ ~(work[r].op = "mark" /\ work[r].paper = path[s])
  PROVE  PaperInv'
<1>1. ASSUME NEW q \in Requests \ {r} PROVE SaleRequestFits(q)'
  <2>1. /\ WorkFits(q) /\ KindFits(q) /\ FreshIsNew(q) /\ HoldsNoPath(q)
        /\ WorkFits(r) /\ FreshIsNew(r)
        /\ work'[q] = work[q] /\ Sale!Held(q)' = Sale!Held(q)
        /\ Sale!Held(q) = work[q].todo \cup ({work[q].paper} \ {NoPaper})
    BY PaperFits DEF Sale!Held
  <2>2. Sale!Held(q) \subseteq Sale!Written /\ work[q].seen \subseteq Sale!Written
    BY <2>1 DEF WorkFits
  <2>3. work[q].paper # NoPaper => work[q].paper \in Sale!Held(q)
    BY <2>1
  <2>4. ASSUME work[q].op \in Fresh
        PROVE  /\ work[q].paper \in Sale!Written /\ work[q].paper \in disk
               /\ work[q].paper \notin Sale!Known \cup Sale!Held(r) \cup work[r].seen
               /\ \A p \in Requests \ {q} : work[q].paper \notin Sale!Held(p) \cup work[p].seen
    BY <2>1, <2>2, <2>3, <2>4 DEF WorkFits, FreshIsNew, Fresh, Empty
  <2>5. work[q].op \in Fresh => work[q].paper \in disk'
    BY <2>4
  <2>6. work[q].op \in {"cddRow", "cddRemove", "mark"} => work[q].paper \notin disk'
    BY <2>1, <2>2, <2>3 DEF WorkFits, Empty
  <2>7. WorkFits(q)'
    BY <2>1, <2>2, <2>5, <2>6 DEF WorkFits
  <2>8. FreshIsNew(q)'
    <3> SUFFICES ASSUME work[q].op \in Fresh
                 PROVE  /\ work[q].paper \notin Sale!Known'
                        /\ \A p \in Requests \ {q} : work[q].paper \notin Sale!Held(p)' \cup work'[p].seen
      BY <2>1 DEF FreshIsNew
    <3>1. work[q].paper \notin Sale!Known' /\ work[q].paper \notin Sale!Held(r)' \cup work'[r].seen
      BY <2>4
    <3>2. ASSUME NEW p \in Requests \ {q, r} PROVE Sale!Held(p)' = Sale!Held(p) /\ work'[p] = work[p]
      BY DEF Sale!Held
    <3> QED
      BY <2>4, <3>1, <3>2
  <2>9. ASSUME NEW s \in Sale!Slots, path'[s] # NoPaper, path'[s] # path[s]
        PROVE  path'[s] \notin Sale!Held(q)
    BY <2>9, <2>1 DEF FreshIsNew
  <2>10. HoldsNoPath(q)'
    <3>1. ASSUME work[q].op = "files", NEW s \in Sale!Slots PROVE path'[s] \notin work[q].todo
      <4>1. NoPaper \notin work[q].todo
        BY PaperAssumption, PaperFits DEF Works
      <4> QED
        BY <2>1, <2>9, <3>1, <4>1 DEF HoldsNoPath
    <3> QED
      BY <2>1, <3>1 DEF HoldsNoPath
  <2>11. KindFits(q)'
    <3>1. work[q].paper # NoPaper => kind'[work[q].paper] = kind[work[q].paper]
      BY <2>2, <2>3
    <3>2. \A p \in work[q].seen : kind'[p] = kind[p]
      BY <2>2
    <3>3. work[q].op \in {"scan", "addInvoice", "addCdd", "cddAdd", "cddFile", "cddRow", "cddRemove"}
            => work[q].paper # NoPaper
      BY <2>1 DEF WorkFits, Empty
    <3> QED
      BY <2>1, <3>1, <3>2, <3>3 DEF KindFits
  <2> QED
    BY <2>7, <2>8, <2>10, <2>11 DEF SaleRequestFits
<1>2. Sale!PapersAreAccountedFor'
  <2>1. ASSUME NEW p \in disk', p \notin lost'
        PROVE  p \in Sale!Known' \/ \E q \in Requests : p \in Sale!Held(q)'
    <3>1. CASE p \in Sale!Known' \cup Sale!Held(r)'
      BY <3>1
    <3>2. CASE p \in disk /\ p \notin Sale!Known \cup Sale!Held(r)
      <4>1. p \notin lost
        BY <2>1
      <4>2. PICK q \in Requests : p \in Sale!Held(q)
        BY <3>2, <4>1 DEF PaperInv, PaperHolds, Sale!PapersAreAccountedFor
      <4>3. q # r /\ Sale!Held(q)' = Sale!Held(q)
        BY <3>2, <4>2 DEF Sale!Held
      <4> QED
        BY <4>2, <4>3
    <3> QED
      BY <2>1, <3>1, <3>2
  <2> QED
    BY <2>1 DEF Sale!PapersAreAccountedFor
<1>3. ASSUME NEW s \in Sale!Slots PROVE PathHasFile(s)'
  <2> SUFFICES ASSUME path'[s] \notin {NoPaper} \cup disk' \cup lost'
               PROVE  \E q \in Requests : work'[q].op = "mark" /\ work'[q].paper = path'[s]
    BY DEF PathHasFile
  <2>1. CASE work'[r].op = "mark" /\ work'[r].paper = path'[s]
    BY <2>1
  <2>2. CASE path'[s] = path[s] /\ path[s] \notin disk
             /\ ~(work[r].op = "mark" /\ work[r].paper = path[s])
    <3>1. PathHasFile(s) /\ path[s] \notin {NoPaper} \cup disk \cup lost
      BY <2>2 DEF PaperInv, PaperHolds
    <3>2. PICK q \in Requests : work[q].op = "mark" /\ work[q].paper = path[s]
      BY <3>1 DEF PathHasFile
    <3>3. q # r /\ work'[q] = work[q]
      BY <2>2, <3>2
    <3> QED
      BY <2>2, <3>2, <3>3
  <2> QED
    BY <2>1, <2>2
<1> QED
  BY <1>1, <1>2, <1>3 DEF PaperInv, PaperHolds

LEMMA KnownIs ==
  /\ \A s \in Sale!Slots : path[s] # NoPaper => path[s] \in Sale!Known
  /\ cdd \ {NoPaper} \subseteq Sale!Known
  /\ \A p \in Sale!Known : p # NoPaper /\ (p \in cdd \/ \E s \in Sale!Slots : path[s] = p)
BY DEF Sale!Known

LEMMA KnownWillBe ==
  /\ \A s \in Sale!Slots : path'[s] # NoPaper => path'[s] \in Sale!Known'
  /\ cdd' \ {NoPaper} \subseteq Sale!Known'
  /\ \A p \in Sale!Known' : p # NoPaper /\ (p \in cdd' \/ \E s \in Sale!Slots : path'[s] = p)
BY DEF Sale!Known

\* The same of a step that writes no file, and at most clears paths.
LEMMA SteadyMoves ==
  ASSUME PaperInv, NEW r \in Requests, Sale!PaperTypeOK', kind' = kind, lost \subseteq lost',
         disk' \subseteq disk, disk \ disk' \subseteq Sale!Held(r),
         \A q \in Requests \ {r} : work'[q] = work[q],
         WorkFits(r)', KindFits(r)', work'[r].op \notin Fresh, HoldsNoPath(r)',
         \A s \in Sale!Slots : path'[s] \in {path[s], NoPaper}, cdd' \subseteq cdd,
         Sale!Held(r)' \cup work'[r].seen \subseteq Sale!Held(r) \cup work[r].seen \cup Sale!Known,
         \A p \in disk' \ lost' :
           p \in Sale!Known \cup Sale!Held(r) => p \in Sale!Known' \cup Sale!Held(r)',
         \A s \in Sale!Slots : path'[s] \notin {NoPaper} \cup disk' \cup lost' =>
           \/ work'[r].op = "mark" /\ work'[r].paper = path'[s]
           \/ path[s] \notin disk /\ ~(work[r].op = "mark" /\ work[r].paper = path[s])
  PROVE  PaperInv'
<1>1. Sale!Known' \subseteq Sale!Known
  <2>1. ASSUME NEW p \in Sale!Known' PROVE p \in Sale!Known
    <3>1. p # NoPaper /\ (p \in cdd' \/ \E s \in Sale!Slots : path'[s] = p)
      BY KnownWillBe
    <3> QED
      BY <3>1, KnownIs
  <2> QED
    BY <2>1
<1>2. Placed'
  BY DEF PaperInv, PaperHolds, Placed
<1>3. SaleRequestFits(r)'
  BY DEF FreshIsNew, SaleRequestFits
<1>4. Sale!Written' = Sale!Written
  BY DEF Sale!Written
<1> QED
  BY <1>1, <1>2, <1>3, <1>4, PaperMoves

\* A request that starts has written and read nothing yet.
LEMMA StartMoves ==
  ASSUME PaperInv, NEW r \in Requests, NEW w \in Works, Sale!Start(r, w),
         UNCHANGED <<path, invoiced, cdd, disk, kind, sale, handed, rooted, lost>>,
         w.op \notin Fresh, w.todo \subseteq Sale!Known, w.paper \in Sale!Known \cup {NoPaper}, w.seen = {},
         WorkFits(r)', KindFits(r)', HoldsNoPath(r)'
  PROVE  PaperInv'
<1>1. Sale!PaperTypeOK
  BY DEF PaperInv
<1>2. /\ work' \in [Requests -> Works] /\ work'[r] = w /\ \A q \in Requests \ {r} : work'[q] = work[q]
      /\ Sale!Held(r)' = w.todo \cup ({w.paper} \ {NoPaper})
  BY <1>1, WorkBecomes DEF Sale!Start
<1>3. work[r].op = "idle" /\ work[r].todo = {} /\ work[r].paper = NoPaper
  BY PaperFits DEF Sale!Start, WorkFits, Empty
<1>4. Sale!PaperTypeOK'
  BY <1>1, <1>2 DEF Sale!PaperTypeOK, Works, Sale!Written
<1>5. Sale!Known' = Sale!Known /\ Sale!Held(r) = {} /\ Sale!Held(r)' \subseteq Sale!Known
  BY <1>2, <1>3 DEF Sale!Known, Sale!Held
<1> QED
  BY <1>2, <1>3, <1>4, <1>5, SteadyMoves

\* What Known gathers has been written.
LEMMA KnownIsWritten ==
  ASSUME PaperInv PROVE Sale!Known \subseteq Sale!Written /\ Sale!Known \subseteq Papers
<1>1. ASSUME NEW p \in Sale!Known PROVE p \in Sale!Written
  <2>1. p # NoPaper /\ (p \in cdd \/ \E s \in Sale!Slots : path[s] = p)
    BY KnownIs
  <2>2. p \in Papers /\ (kind[p] = "cdd" \/ kind[p] \in Sale!Slots)
    BY <2>1 DEF PaperInv, PaperHolds, Placed, Sale!PaperTypeOK
  <2> QED
    BY <2>2 DEF Sale!Written, Sale!Slots
<1> QED
  BY <1>1 DEF Sale!Written

LEMMA DropKeeps ==
  ASSUME PaperInv, NEW r \in Requests, Sale!Drop(r)
  PROVE  PaperInv'
<1>1. /\ lost' = lost \cup Sale!Held(r) /\ work' = [work EXCEPT ![r] = Sale!Rest]
      /\ UNCHANGED <<path, invoiced, cdd, disk, kind, sale, handed, rooted>>
  BY DEF Sale!Drop, Sale!End, Sale!pathVars, Sale!fileVars, Sale!saleVars
<1>2. Sale!PaperTypeOK /\ Sale!Held(r) \subseteq Papers
  BY PaperFits DEF PaperInv, Works
<1>3. /\ work' \in [Requests -> Works] /\ work'[r].op = "idle" /\ Sale!Held(r)' = {} /\ work'[r].seen = {}
      /\ WorkFits(r)' /\ KindFits(r)' /\ HoldsNoPath(r)' /\ \A q \in Requests \ {r} : work'[q] = work[q]
  BY <1>1, <1>2, WorkEnds DEF SaleRequestFits
<1>4. Sale!PaperTypeOK'
  BY <1>1, <1>2, <1>3 DEF Sale!PaperTypeOK, Works, Sale!Written
<1>5. Sale!Known' = Sale!Known
  BY <1>1 DEF Sale!Known
<1>6. work[r].paper # NoPaper => work[r].paper \in Sale!Held(r)
  BY DEF Sale!Held
<1> QED
  BY <1>1, <1>3, <1>4, <1>5, <1>6, SteadyMoves DEF Fresh

LEMMA UploadStarts ==
  ASSUME PaperInv, NEW r \in Requests,
         (\E slot \in Sale!Slots : Sale!UploadOtpScan(r, slot)) \/ Sale!UploadInvoice(r)
           \/ Sale!UploadCddDocument(r)
  PROVE  PaperInv'
<1>1. PICK slot \in Sale!Kinds : Sale!Start(r, [Sale!Rest EXCEPT !.op = "save", !.slot = slot])
  BY DEF Sale!UploadOtpScan, Sale!UploadInvoice, Sale!UploadCddDocument, Sale!Slots, Sale!Kinds
<1>2. UNCHANGED <<path, invoiced, cdd, disk, kind, sale, handed, rooted, lost>>
  <2>1. UNCHANGED <<Sale!pathVars, Sale!fileVars, Sale!saleVars, lost>>
    BY Zenon DEF Sale!UploadOtpScan, Sale!UploadInvoice, Sale!UploadCddDocument
  <2> QED
    BY <2>1 DEF Sale!pathVars, Sale!fileVars, Sale!saleVars
<1>3. PICK w \in Works : w = [Sale!Rest EXCEPT !.op = "save", !.slot = slot]
  BY DEF Sale!Rest, Works, Sale!Ops
<1>4. w.op = "save" /\ w.todo = {} /\ w.paper = NoPaper /\ w.slot = slot /\ slot # "none" /\ w.seen = {}
  BY <1>3 DEF Sale!Rest, Sale!Slots, Sale!Kinds
<1>5. Sale!PaperTypeOK /\ Sale!Start(r, w)
  BY <1>1, <1>3 DEF PaperInv
<1>6. work'[r] = w /\ Sale!Held(r)' = {}
  BY <1>4, <1>5, WorkBecomes DEF Sale!Start
<1>7. WorkFits(r)' /\ KindFits(r)' /\ HoldsNoPath(r)'
  BY <1>4, <1>6 DEF WorkFits, KindFits, HoldsNoPath, Empty, Fresh
<1> QED
  BY <1>2, <1>4, <1>5, <1>7, StartMoves DEF Fresh

LEMMA SaveBlobKeeps ==
  ASSUME PaperInv, NEW r \in Requests, NEW p \in Papers, Sale!SaveBlob(r, p)
  PROVE  PaperInv'
<1> DEFINE next == CASE work[r].slot = "cdd" -> "addCdd"
                     [] work[r].slot = "invoice" -> "addInvoice"
                     [] OTHER -> "scan"
           slot == work[r].slot
<1>1. /\ work[r].op = "save" /\ kind[p] = "none" /\ disk' = disk \cup {p}
      /\ kind' = [kind EXCEPT ![p] = slot]
      /\ work' = [work EXCEPT ![r].paper = p, ![r].op = next]
      /\ UNCHANGED <<path, invoiced, cdd, sale, handed, rooted, lost>>
  BY DEF Sale!SaveBlob, Sale!pathVars, Sale!saleVars
<1>2. Sale!PaperTypeOK /\ work[r] \in Works /\ WorkFits(r) /\ slot \in Sale!Kinds
  BY <1>1, PaperFits DEF PaperInv, WorkFits, Works
<1>3. PICK w \in Works : w = [work[r] EXCEPT !.paper = p, !.op = next]
  BY <1>2 DEF Works, Sale!Ops
<1>4. w.op = next /\ w.paper = p /\ w.todo = {} /\ w.slot = slot /\ w.seen = work[r].seen
  BY <1>1, <1>2, <1>3 DEF Works, WorkFits
<1>5. work' = [work EXCEPT ![r] = w]
  BY <1>1, <1>3 DEF Sale!PaperTypeOK
<1>6. /\ work' \in [Requests -> Works] /\ work'[r] = w /\ \A q \in Requests \ {r} : work'[q] = work[q]
      /\ Sale!Held(r)' = {p}
  BY <1>2, <1>4, <1>5, WorkBecomes, PaperAssumption
<1>7. /\ kind' \in [Papers -> Sale!Kinds \cup {"none"}] /\ kind'[p] = slot /\ slot # "none"
      /\ \A x \in Papers \ {p} : kind'[x] = kind[x]
      /\ p \notin Sale!Written /\ Sale!Written' = Sale!Written \cup {p}
  BY <1>1, <1>2 DEF Sale!PaperTypeOK, Sale!Written, WorkFits
<1>8. Sale!PaperTypeOK'
  BY <1>1, <1>2, <1>6, <1>7 DEF Sale!PaperTypeOK, Works
<1>9. /\ next \in {"scan", "addInvoice", "addCdd"}
      /\ next = "scan" => slot \in {"seller", "returned"}
      /\ next = "addInvoice" => slot = "invoice"
      /\ next = "addCdd" => slot = "cdd"
  BY <1>2 DEF Sale!Kinds, Sale!Slots
<1> HIDE DEF next
<1>10. WorkFits(r)'
  <2>1. Sale!Held(r)' \cup w.seen \subseteq Sale!Written'
    BY <1>2, <1>4, <1>6, <1>7 DEF WorkFits
  <2>2. p # NoPaper /\ p \in disk'
    BY <1>1, PaperAssumption
  <2> QED
    BY <1>4, <1>6, <1>9, <2>1, <2>2 DEF WorkFits, Empty, Fresh
<1>11. KindFits(r)'
  BY <1>4, <1>6, <1>7, <1>9 DEF KindFits
<1>12. /\ Sale!Known' = Sale!Known /\ Sale!Known \subseteq Sale!Written
  BY <1>1, KnownIsWritten DEF Sale!Known
<1>13. FreshIsNew(r)' /\ HoldsNoPath(r)'
  <2>1. ASSUME NEW q \in Requests \ {r} PROVE p \notin Sale!Held(q)' \cup work'[q].seen
    BY <1>6, <1>7, PaperFits DEF WorkFits, Sale!Held
  <2> QED
    BY <1>4, <1>6, <1>7, <1>9, <1>12, <2>1 DEF FreshIsNew, HoldsNoPath
<1>14. Placed'
  <2>1. \A s \in Sale!Slots : path[s] # NoPaper => path[s] \in Sale!Written
    BY <1>12, KnownIs
  <2>2. cdd \subseteq Sale!Written
    BY <1>2, <1>12, KnownIs, PaperAssumption DEF Sale!PaperTypeOK
  <2>3. \A x \in Sale!Written : kind'[x] = kind[x]
    BY <1>7 DEF Sale!Written
  <2> QED
    BY <1>1, <2>1, <2>2, <2>3 DEF Placed, PaperInv, PaperHolds
<1>15. Sale!Held(r) = {}
  BY <1>1, <1>2 DEF WorkFits, Sale!Held, Empty
<1>16. \A x \in Sale!Written : kind'[x] = kind[x]
  BY <1>7 DEF Sale!Written
<1> QED
  BY <1>1, <1>4, <1>6, <1>7, <1>8, <1>10, <1>11, <1>12, <1>13, <1>14, <1>15, <1>16, PaperMoves
  DEF SaleRequestFits

\* A new file gets its path, or its place in the due diligence.
LEMMA PlacesFresh ==
  ASSUME PaperInv, NEW r \in Requests, Sale!PaperTypeOK', work[r].op \in Fresh,
         work' = [work EXCEPT ![r] = Sale!Rest],
         UNCHANGED <<disk, kind>>, lost \subseteq lost',
         Placed',
         work[r].paper \in Sale!Known', Sale!Known' \subseteq Sale!Known \cup {work[r].paper} \cup work[r].seen,
         \A p \in Sale!Known \ Sale!Known' : p \in lost',
         \A s \in Sale!Slots : path'[s] \in {path[s], work[r].paper}
  PROVE  PaperInv'
<1>1. Sale!PaperTypeOK /\ WorkFits(r) /\ Sale!Held(r) = work[r].todo \cup ({work[r].paper} \ {NoPaper})
  BY PaperFits DEF PaperInv
<1>2. /\ work'[r].op = "idle" /\ Sale!Held(r)' = {} /\ work'[r].seen = {} /\ SaleRequestFits(r)'
      /\ \A q \in Requests \ {r} : work'[q] = work[q]
  BY <1>1, WorkEnds
<1>3. /\ work[r].todo = {} /\ work[r].paper # NoPaper /\ work[r].paper \in disk /\ work[r].op # "mark"
      /\ Sale!Held(r) = {work[r].paper}
  BY <1>1 DEF WorkFits, Fresh, Empty
<1>4. ASSUME NEW s \in Sale!Slots, path'[s] \notin {NoPaper} \cup disk' \cup lost'
      PROVE  path'[s] = path[s] /\ path[s] \notin disk
  BY <1>3, <1>4
<1>5. Sale!Written' = Sale!Written
  BY DEF Sale!Written
<1> QED
  BY <1>2, <1>3, <1>4, <1>5, PaperMoves

\* The file a request has just written is new, and of the kind it places.
LEMMA FreshPaper ==
  ASSUME PaperInv, NEW r \in Requests, work[r].op \in Fresh
  PROVE  /\ work[r].paper \in Papers /\ work[r].paper # NoPaper /\ work[r].paper \notin Sale!Known
         /\ \A s \in Sale!Slots : path[s] # work[r].paper
<1>1. WorkFits(r) /\ FreshIsNew(r) /\ work[r] \in Works
  BY PaperFits
<1>2. work[r].paper \in Papers /\ work[r].paper # NoPaper /\ work[r].paper \notin Sale!Known
  BY <1>1 DEF WorkFits, FreshIsNew, Fresh, Empty, Works
<1> QED
  BY <1>2, KnownIs

LEMMA UpdateScanKeeps ==
  ASSUME PaperInv, NEW r \in Requests, Sale!UpdateOtpScanPath(r)
  PROVE  PaperInv'
<1>1. work[r].op = "scan" /\ work[r].op \in Fresh
  BY DEF Sale!UpdateOtpScanPath, Fresh
<1>2. PICK slot \in {"seller", "returned"}, p \in Papers :
        /\ slot = work[r].slot /\ p = work[r].paper /\ kind[p] = slot
        /\ p # NoPaper /\ \A s \in Sale!Slots : path[s] # p
  BY <1>1, FreshPaper, PaperFits DEF KindFits
<1>3. /\ path' = [path EXCEPT ![slot] = p]
      /\ lost' = lost \cup ({path[slot]} \ {NoPaper})
      /\ work' = [work EXCEPT ![r] = Sale!Rest]
      /\ UNCHANGED <<invoiced, cdd, disk, kind, sale, handed, rooted>>
  BY <1>2 DEF Sale!UpdateOtpScanPath, Sale!End, Sale!fileVars, Sale!saleVars
<1>4. Sale!PaperTypeOK /\ slot \in Sale!Slots
  BY <1>2 DEF PaperInv, Sale!Slots
<1>5. /\ path' \in [Sale!Slots -> Papers \cup {NoPaper}] /\ path'[slot] = p
      /\ \A s \in Sale!Slots \ {slot} : path'[s] = path[s]
  BY <1>3, <1>4 DEF Sale!PaperTypeOK
<1>6. work' \in [Requests -> Works]
  BY <1>3, <1>4, WorkEnds
<1>7. Sale!PaperTypeOK'
  <2>1. path'["invoice"] = path["invoice"]
    BY <1>2, <1>5 DEF Sale!Slots
  <2> QED
    BY <1>3, <1>4, <1>5, <1>6, <2>1 DEF Sale!PaperTypeOK, Works, Sale!Written
<1>8. Sale!Known' \subseteq Sale!Known \cup {p} /\ p \in Sale!Known'
      /\ \A x \in Sale!Known \ Sale!Known' : x \in lost'
  <2>1. ASSUME NEW x \in Sale!Known' PROVE x \in Sale!Known \cup {p}
    <3>1. x # NoPaper /\ (x \in cdd' \/ \E s \in Sale!Slots : path'[s] = x)
      BY KnownWillBe
    <3> QED
      BY <1>3, <1>5, <3>1, KnownIs
  <2>2. ASSUME NEW x \in Sale!Known \ Sale!Known' PROVE x \in lost'
    <3>1. x # NoPaper /\ (x \in cdd \/ \E s \in Sale!Slots : path[s] = x)
      BY KnownIs
    <3>2. x \notin cdd
      BY <1>3, <3>1, KnownWillBe
    <3>3. PICK s \in Sale!Slots : path[s] = x
      BY <3>1, <3>2
    <3>4. s = slot
      BY <1>5, <3>1, <3>3, KnownWillBe
    <3> QED
      BY <1>3, <3>1, <3>3, <3>4
  <2>3. p \in Sale!Known'
    BY <1>2, <1>4, <1>5, KnownWillBe
  <2> QED
    BY <2>1, <2>2, <2>3
<1>9. Placed'
  BY <1>2, <1>3, <1>5 DEF Placed, PaperInv, PaperHolds
<1> QED
  BY <1>1, <1>2, <1>3, <1>5, <1>7, <1>8, <1>9, PlacesFresh

LEMMA CreateInvoiceKeeps ==
  ASSUME PaperInv, NEW r \in Requests, Sale!CreateCommissionInvoice(r)
  PROVE  PaperInv'
<1>1. work[r].op = "addInvoice" /\ work[r].op \in Fresh
  BY DEF Sale!CreateCommissionInvoice, Fresh
<1>2. PICK p \in Papers :
        /\ p = work[r].paper /\ kind[p] = "invoice"
        /\ p # NoPaper /\ \A s \in Sale!Slots : path[s] # p
  BY <1>1, FreshPaper, PaperFits DEF KindFits
<1>3. /\ ~invoiced /\ path' = [path EXCEPT !["invoice"] = p]
      /\ invoiced' = TRUE /\ work' = [work EXCEPT ![r] = Sale!Rest]
      /\ UNCHANGED <<cdd, disk, kind, sale, handed, rooted, lost>>
  BY <1>2 DEF Sale!CreateCommissionInvoice, Sale!End, Sale!fileVars, Sale!saleVars
<1>4. Sale!PaperTypeOK /\ "invoice" \in Sale!Slots /\ path["invoice"] = NoPaper
  BY <1>3 DEF PaperInv, Sale!Slots, Sale!PaperTypeOK
<1>5. /\ path' \in [Sale!Slots -> Papers \cup {NoPaper}] /\ path'["invoice"] = p
      /\ \A s \in Sale!Slots \ {"invoice"} : path'[s] = path[s]
  BY <1>3, <1>4 DEF Sale!PaperTypeOK
<1>6. work' \in [Requests -> Works]
  BY <1>3, <1>4, WorkEnds
<1>7. Sale!PaperTypeOK'
  BY <1>3, <1>4, <1>5, <1>6 DEF Sale!PaperTypeOK, Works, Sale!Written
<1>8. Sale!Known' = Sale!Known \cup {p}
  <2>1. ASSUME NEW x \in Sale!Known' PROVE x \in Sale!Known \cup {p}
    <3>1. x # NoPaper /\ (x \in cdd' \/ \E s \in Sale!Slots : path'[s] = x)
      BY KnownWillBe
    <3> QED
      BY <1>3, <1>5, <3>1, KnownIs
  <2>2. ASSUME NEW x \in Sale!Known PROVE x \in Sale!Known'
    <3>1. x # NoPaper /\ (x \in cdd \/ \E s \in Sale!Slots : path[s] = x)
      BY KnownIs
    <3> QED
      BY <1>3, <1>4, <1>5, <3>1, KnownWillBe
  <2>3. p \in Sale!Known'
    BY <1>2, <1>4, <1>5, KnownWillBe
  <2> QED
    BY <2>1, <2>2, <2>3
<1>9. Placed'
  BY <1>2, <1>3, <1>5 DEF Placed, PaperInv, PaperHolds
<1> QED
  BY <1>1, <1>2, <1>3, <1>5, <1>7, <1>8, <1>9, PlacesFresh

\* A list of documents read.
LEMMA ReadKeeps ==
  ASSUME PaperInv, NEW r \in Requests, NEW op \in Sale!Ops, NEW seen \in SUBSET Papers,
         Goes(r, op, seen),
         UNCHANGED <<path, invoiced, cdd, disk, kind, sale, handed, rooted, lost>>,
         op \notin Fresh, work[r].op # "mark", seen \subseteq Sale!Known \cup work[r].seen,
         WorkFits(r)', KindFits(r)', HoldsNoPath(r)'
  PROVE  PaperInv'
<1>1. Sale!PaperTypeOK
  BY DEF PaperInv
<1>2. /\ work' \in [Requests -> Works] /\ work'[r].op = op /\ work'[r].seen = seen
      /\ \A q \in Requests \ {r} : work'[q] = work[q]
      /\ Sale!Held(r)' = Sale!Held(r)
  BY <1>1, WorkGoes
<1>3. Sale!PaperTypeOK'
  BY <1>1, <1>2 DEF Sale!PaperTypeOK, Works, Sale!Written
<1>4. Sale!Known' = Sale!Known
  BY DEF Sale!Known
<1> QED
  BY <1>2, <1>3, <1>4, SteadyMoves

LEMMA ReadToAddKeeps ==
  ASSUME PaperInv, NEW r \in Requests, Sale!ReadToAdd(r)
  PROVE  PaperInv'
<1>1. /\ work[r].op = "addCdd" /\ Goes(r, "cddAdd", cdd)
      /\ UNCHANGED <<path, invoiced, cdd, disk, kind, sale, handed, rooted, lost>>
  BY DEF Goes, Sale!ReadToAdd, Sale!pathVars, Sale!fileVars, Sale!saleVars
<1>2. /\ Sale!PaperTypeOK /\ WorkFits(r) /\ KindFits(r) /\ FreshIsNew(r) /\ "cddAdd" \in Sale!Ops
      /\ cdd \subseteq Papers /\ NoPaper \notin cdd
  BY PaperFits, PaperAssumption DEF PaperInv, Sale!Ops, Sale!PaperTypeOK
<1>3. /\ work' \in [Requests -> Works] /\ work'[r].op = "cddAdd" /\ work'[r].slot = work[r].slot
      /\ work'[r].todo = work[r].todo /\ work'[r].paper = work[r].paper /\ work'[r].seen = cdd
      /\ \A q \in Requests \ {r} : work'[q] = work[q]
      /\ Sale!Held(r)' = Sale!Held(r)
  BY <1>1, <1>2, WorkGoes
<1>4. Sale!PaperTypeOK' /\ Sale!Written' = Sale!Written
  BY <1>1, <1>2, <1>3 DEF Sale!PaperTypeOK, Works, Sale!Written
<1>5. Sale!Known' = Sale!Known /\ cdd \subseteq Sale!Known /\ Sale!Known \subseteq Sale!Written
  BY <1>1, <1>2, KnownIs, KnownIsWritten DEF Sale!Known
<1>6. WorkFits(r)'
  BY <1>1, <1>2, <1>3, <1>4, <1>5 DEF WorkFits, Empty, Fresh
<1>7. Placed' /\ KindFits(r)' /\ HoldsNoPath(r)'
  BY <1>1, <1>2, <1>3 DEF Placed, PaperInv, PaperHolds, KindFits, HoldsNoPath
<1>8. FreshIsNew(r)'
  <2>1. ASSUME NEW q \in Requests \ {r} PROVE Sale!Held(q)' \cup work'[q].seen = Sale!Held(q) \cup work[q].seen
    BY <1>3 DEF Sale!Held
  <2> QED
    BY <1>1, <1>2, <1>3, <1>5, <2>1 DEF FreshIsNew, Fresh
<1> QED
  BY <1>1, <1>3, <1>4, <1>5, <1>6, <1>7, <1>8, PaperMoves DEF SaleRequestFits

LEMMA AddCddKeeps ==
  ASSUME PaperInv, NEW r \in Requests, Sale!AddCddDocument(r)
  PROVE  PaperInv'
<1>1. work[r].op = "cddAdd" /\ work[r].op \in Fresh
  BY DEF Sale!AddCddDocument, Fresh
<1>2. PICK p \in Papers, seen \in SUBSET Papers :
        /\ p = work[r].paper /\ seen = work[r].seen /\ kind[p] = "cdd" /\ \A x \in seen : kind[x] = "cdd"
        /\ p # NoPaper
  BY <1>1, FreshPaper, PaperFits DEF KindFits, Works
<1>3. /\ cdd' = seen \cup {p} /\ lost' = lost \cup (cdd \ seen) /\ work' = [work EXCEPT ![r] = Sale!Rest]
      /\ UNCHANGED <<path, invoiced, disk, kind, sale, handed, rooted>>
  BY <1>2 DEF Sale!AddCddDocument, Sale!End, Sale!fileVars, Sale!saleVars
<1>4. Sale!PaperTypeOK
  BY DEF PaperInv
<1>5. work' \in [Requests -> Works]
  BY <1>3, <1>4, WorkEnds
<1>6. Sale!PaperTypeOK'
  BY <1>2, <1>3, <1>4, <1>5 DEF Sale!PaperTypeOK, Works, Sale!Written
<1>7. /\ p \in Sale!Known' /\ Sale!Known' \subseteq Sale!Known \cup {p} \cup seen
      /\ \A x \in Sale!Known \ Sale!Known' : x \in lost'
  <2>1. ASSUME NEW x \in Sale!Known' PROVE x \in Sale!Known \cup {p} \cup seen
    <3>1. x # NoPaper /\ (x \in cdd' \/ \E s \in Sale!Slots : path'[s] = x)
      BY KnownWillBe
    <3> QED
      BY <1>3, <3>1, KnownIs
  <2>2. ASSUME NEW x \in Sale!Known \ Sale!Known' PROVE x \in lost'
    <3>1. x # NoPaper /\ (x \in cdd \/ \E s \in Sale!Slots : path[s] = x)
      BY KnownIs
    <3>2. x \notin cdd' /\ \A s \in Sale!Slots : path'[s] # x
      BY <3>1, KnownWillBe
    <3> QED
      BY <1>3, <3>1, <3>2
  <2>3. p \in Sale!Known'
    BY <1>2, <1>3, KnownWillBe
  <2> QED
    BY <2>1, <2>2, <2>3
<1>8. Placed'
  BY <1>2, <1>3 DEF Placed, PaperInv, PaperHolds
<1> QED
  BY <1>1, <1>2, <1>3, <1>6, <1>7, <1>8, PlacesFresh

LEMMA DeleteCddKeeps ==
  ASSUME PaperInv, NEW r \in Requests, NEW p \in Papers, Sale!DeleteCddDocument(r, p)
  PROVE  PaperInv'
<1>1. p \in cdd /\ UNCHANGED <<path, invoiced, cdd, disk, kind, sale, handed, rooted, lost>>
  BY DEF Sale!DeleteCddDocument, Sale!pathVars, Sale!fileVars, Sale!saleVars
<1>2. PICK w \in Works : w = [Sale!Rest EXCEPT !.op = "cddFile", !.paper = p]
  BY DEF Sale!Rest, Works, Sale!Ops
<1>3. w.op = "cddFile" /\ w.todo = {} /\ w.paper = p /\ p # NoPaper /\ w.seen = {}
  BY <1>2, PaperAssumption DEF Sale!Rest
<1>4. Sale!PaperTypeOK /\ Sale!Start(r, w)
  BY <1>2 DEF PaperInv, Sale!DeleteCddDocument
<1>5. work'[r] = w /\ Sale!Held(r)' = {p}
  BY <1>3, <1>4, WorkBecomes DEF Sale!Start
<1>6. p \in Sale!Known /\ p \in Sale!Written /\ kind[p] = "cdd"
  BY <1>1, <1>3, KnownIs, KnownIsWritten DEF PaperInv, PaperHolds, Placed
<1>7. Sale!Written' = Sale!Written
  BY <1>1 DEF Sale!Written
<1>8. WorkFits(r)' /\ KindFits(r)' /\ HoldsNoPath(r)'
  BY <1>1, <1>3, <1>5, <1>6, <1>7 DEF WorkFits, KindFits, HoldsNoPath, Empty, Fresh
<1> QED
  BY <1>1, <1>3, <1>4, <1>6, <1>8, StartMoves DEF Fresh

LEMMA DeleteCddFileKeeps ==
  ASSUME PaperInv, NEW r \in Requests, Sale!DeleteCddFile(r)
  PROVE  PaperInv'
<1>1. /\ work[r].op = "cddFile" /\ disk' = disk \ {work[r].paper} /\ Sale!Step(r, "cddRow")
      /\ UNCHANGED <<path, invoiced, cdd, kind, sale, handed, rooted, lost>>
  BY DEF Sale!DeleteCddFile, Sale!pathVars, Sale!saleVars
<1>2. /\ Sale!PaperTypeOK /\ WorkFits(r) /\ KindFits(r) /\ "cddRow" \in Sale!Ops
      /\ work[r].seen \in SUBSET Papers
  BY PaperFits DEF PaperInv, Sale!Ops, Works
<1>3. /\ work' \in [Requests -> Works] /\ work'[r].op = "cddRow" /\ work'[r].slot = work[r].slot
      /\ work'[r].todo = work[r].todo /\ work'[r].paper = work[r].paper /\ work'[r].seen = work[r].seen
      /\ \A q \in Requests \ {r} : work'[q] = work[q]
      /\ Sale!Held(r)' = Sale!Held(r)
  BY <1>1, <1>2, WorkGoes
<1>4. Sale!PaperTypeOK' /\ Sale!Written' = Sale!Written
  BY <1>1, <1>2, <1>3 DEF Sale!PaperTypeOK, Works, Sale!Written
<1>5. WorkFits(r)' /\ KindFits(r)' /\ HoldsNoPath(r)'
  BY <1>1, <1>2, <1>3, <1>4 DEF WorkFits, KindFits, HoldsNoPath, Empty, Fresh
<1>6. /\ Sale!Known' = Sale!Known /\ work[r].paper \in Sale!Held(r)
      /\ \A s \in Sale!Slots : path[s] # work[r].paper
  <2>1. work[r].paper # NoPaper /\ kind[work[r].paper] = "cdd"
    BY <1>1, <1>2 DEF WorkFits, KindFits, Empty
  <2> QED
    BY <1>1, <2>1 DEF Sale!Known, Sale!Held, PaperInv, PaperHolds, Placed, Sale!Slots
<1> QED
  BY <1>1, <1>3, <1>4, <1>5, <1>6, SteadyMoves DEF Fresh

LEMMA ReadToRemoveKeeps ==
  ASSUME PaperInv, NEW r \in Requests, Sale!ReadToRemove(r)
  PROVE  PaperInv'
<1>1. /\ work[r].op = "cddRow"
      /\ work' = [work EXCEPT ![r] = IF work[r].paper \in cdd
                                     THEN [@ EXCEPT !.op = "cddRemove", !.seen = cdd] ELSE Sale!Rest]
      /\ UNCHANGED <<path, invoiced, cdd, disk, kind, sale, handed, rooted, lost>>
  BY DEF Sale!ReadToRemove, Sale!pathVars, Sale!fileVars, Sale!saleVars
<1>2. /\ Sale!PaperTypeOK /\ WorkFits(r) /\ KindFits(r) /\ "cddRemove" \in Sale!Ops
      /\ cdd \subseteq Papers /\ cdd \subseteq Sale!Known /\ Sale!Known \subseteq Sale!Written
      /\ Sale!Written' = Sale!Written
  BY <1>1, PaperFits, KnownIs, KnownIsWritten, PaperAssumption DEF PaperInv, Sale!Ops, Sale!PaperTypeOK, Sale!Written
<1>3. CASE work[r].paper \in cdd
  <2>1. Goes(r, "cddRemove", cdd)
    BY <1>1, <1>2, <1>3 DEF Goes, Sale!PaperTypeOK
  <2>2. /\ work'[r].op = "cddRemove" /\ work'[r].todo = work[r].todo /\ work'[r].paper = work[r].paper
        /\ work'[r].seen = cdd /\ Sale!Held(r)' = Sale!Held(r)
    BY <1>2, <2>1, WorkGoes
  <2>3. \A p \in cdd : kind[p] = "cdd"
    BY DEF PaperInv, PaperHolds, Placed
  <2>4. WorkFits(r)' /\ KindFits(r)' /\ HoldsNoPath(r)'
    BY <1>1, <1>2, <2>2, <2>3 DEF WorkFits, KindFits, HoldsNoPath, Empty, Fresh
  <2> QED
    BY <1>1, <1>2, <2>1, <2>4, ReadKeeps DEF Fresh
<1>4. CASE work[r].paper \notin cdd
  <2>1. work' = [work EXCEPT ![r] = Sale!Rest]
    BY <1>1, <1>4
  <2>2. /\ work' \in [Requests -> Works] /\ work'[r].op = "idle" /\ Sale!Held(r)' = {} /\ work'[r].seen = {}
        /\ WorkFits(r)' /\ KindFits(r)' /\ HoldsNoPath(r)' /\ \A q \in Requests \ {r} : work'[q] = work[q]
    BY <1>2, <2>1, WorkEnds DEF SaleRequestFits
  <2>3. Sale!PaperTypeOK'
    BY <1>1, <1>2, <2>2 DEF Sale!PaperTypeOK, Works
  <2>4. Sale!Known' = Sale!Known /\ \A p \in disk : p \notin Sale!Held(r)
    BY <1>1, <1>2 DEF Sale!Known, Sale!Held, WorkFits
  <2> QED
    BY <1>1, <2>2, <2>3, <2>4, SteadyMoves DEF Fresh
<1> QED
  BY <1>3, <1>4

LEMMA RemoveCddKeeps ==
  ASSUME PaperInv, NEW r \in Requests, Sale!RemoveCddDocument(r)
  PROVE  PaperInv'
<1>1. /\ work[r].op = "cddRemove" /\ cdd' = work[r].seen \ {work[r].paper}
      /\ lost' = lost \cup (cdd \ work[r].seen) /\ work' = [work EXCEPT ![r] = Sale!Rest]
      /\ UNCHANGED <<path, invoiced, disk, kind, sale, handed, rooted>>
  BY DEF Sale!RemoveCddDocument, Sale!End, Sale!fileVars, Sale!saleVars
<1>2. /\ Sale!PaperTypeOK /\ WorkFits(r) /\ KindFits(r) /\ work[r].seen \subseteq Papers
      /\ Sale!Held(r) = work[r].todo \cup ({work[r].paper} \ {NoPaper})
  BY PaperFits DEF PaperInv, Works
<1>3. /\ work' \in [Requests -> Works] /\ work'[r].op = "idle" /\ Sale!Held(r)' = {} /\ work'[r].seen = {}
      /\ SaleRequestFits(r)' /\ \A q \in Requests \ {r} : work'[q] = work[q]
  BY <1>1, <1>2, WorkEnds
<1>4. Sale!PaperTypeOK' /\ Sale!Written' = Sale!Written
  BY <1>1, <1>2, <1>3 DEF Sale!PaperTypeOK, Works, Sale!Written
<1>5. work[r].paper \notin disk /\ Sale!Held(r) = {work[r].paper}
  BY <1>1, <1>2 DEF WorkFits, Empty
<1>6. Sale!Known' \subseteq Sale!Known \cup work[r].seen
  <2>1. ASSUME NEW x \in Sale!Known' PROVE x \in Sale!Known \cup work[r].seen
    <3>1. x # NoPaper /\ (x \in cdd' \/ \E s \in Sale!Slots : path'[s] = x)
      BY KnownWillBe
    <3> QED
      BY <1>1, <3>1, KnownIs
  <2> QED
    BY <2>1
<1>7. ASSUME NEW x \in disk' \ lost', x \in Sale!Known PROVE x \in Sale!Known'
  <2>1. x # NoPaper /\ (x \in cdd \/ \E s \in Sale!Slots : path[s] = x)
    BY <1>7, KnownIs
  <2>2. x \in cdd => x \in cdd'
    BY <1>1, <1>5, <1>7
  <2> QED
    BY <1>1, <2>1, <2>2, KnownWillBe
<1>8. Placed'
  BY <1>1, <1>2 DEF Placed, PaperInv, PaperHolds, KindFits
<1>9. \A p \in disk' \ lost' :
        p \in Sale!Known' \cup Sale!Held(r)' \/ (p \in disk /\ p \notin Sale!Known \cup Sale!Held(r))
  BY <1>1, <1>5, <1>7
<1> QED
  BY <1>1, <1>3, <1>4, <1>6, <1>8, <1>9, PaperMoves

LEMMA PurgeStarts ==
  ASSUME PaperInv, NEW r \in Requests,
         Sale!FindCompletedTransactionsForDocPurge(r) \/ Sale!ConfirmHuttonsSubmission(r)
  PROVE  PaperInv'
<1>1. PICK op \in {"purge", "hand"} : Sale!Start(r, [Sale!Rest EXCEPT !.op = op])
  BY DEF Sale!FindCompletedTransactionsForDocPurge, Sale!ConfirmHuttonsSubmission
<1>2. UNCHANGED <<path, invoiced, cdd, disk, kind, sale, handed, rooted, lost>>
  BY DEF Sale!FindCompletedTransactionsForDocPurge, Sale!ConfirmHuttonsSubmission, Sale!pathVars,
     Sale!fileVars, Sale!saleVars
<1>3. PICK w \in Works : w = [Sale!Rest EXCEPT !.op = op]
  BY DEF Sale!Rest, Works, Sale!Ops
<1>4. w.op = op /\ w.todo = {} /\ w.paper = NoPaper /\ w.seen = {}
  BY <1>3 DEF Sale!Rest
<1>5. Sale!PaperTypeOK /\ Sale!Start(r, w)
  BY <1>1, <1>3 DEF PaperInv
<1>6. work'[r] = w /\ Sale!Held(r)' = {}
  BY <1>4, <1>5, WorkBecomes DEF Sale!Start
<1>7. WorkFits(r)' /\ KindFits(r)' /\ HoldsNoPath(r)'
  BY <1>4, <1>6 DEF WorkFits, KindFits, HoldsNoPath, Empty, Fresh
<1> QED
  BY <1>2, <1>4, <1>5, <1>7, StartMoves DEF Fresh

LEMMA HandoffKeeps ==
  ASSUME PaperInv, NEW r \in Requests, Sale!ConfirmHuttonsHandoff(r)
  PROVE  PaperInv'
<1>1. /\ work[r].op = "hand" /\ handed' = TRUE /\ Sale!Step(r, "purge")
      /\ UNCHANGED <<path, invoiced, cdd, disk, kind, sale, rooted, lost>>
  BY DEF Sale!ConfirmHuttonsHandoff, Sale!pathVars, Sale!fileVars
<1>2. /\ Sale!PaperTypeOK /\ WorkFits(r) /\ "purge" \in Sale!Ops /\ work[r].seen \in SUBSET Papers
  BY PaperFits DEF PaperInv, Sale!Ops, Works
<1>3. /\ work' \in [Requests -> Works] /\ work'[r].op = "purge" /\ work'[r].slot = work[r].slot
      /\ work'[r].todo = work[r].todo /\ work'[r].paper = work[r].paper /\ work'[r].seen = work[r].seen
      /\ \A q \in Requests \ {r} : work'[q] = work[q]
      /\ Sale!Held(r)' = Sale!Held(r)
  BY <1>1, <1>2, WorkGoes
<1>4. Sale!PaperTypeOK' /\ Sale!Written' = Sale!Written
  BY <1>1, <1>2, <1>3 DEF Sale!PaperTypeOK, Works, Sale!Written
<1>5. WorkFits(r)' /\ KindFits(r)' /\ HoldsNoPath(r)'
  BY <1>1, <1>2, <1>3, <1>4 DEF WorkFits, KindFits, HoldsNoPath, Empty, Fresh
<1>6. Sale!Known' = Sale!Known
  BY <1>1 DEF Sale!Known
<1> QED
  BY <1>1, <1>3, <1>4, <1>5, <1>6, SteadyMoves DEF Fresh

\* What a purge reads in its transaction.
LEMMA PurgeReadsKeep ==
  ASSUME PaperInv, NEW r \in Requests, Sale!ReadOtp(r) \/ Sale!ReadInvoice(r) \/ Sale!ReadCdd(r)
  PROVE  PaperInv'
<1> DEFINE read == ({path["seller"], path["returned"], path["invoice"]} \ {NoPaper}) \cup cdd
<1>1. PICK op \in {"purgeOtp", "purgeInvoice", "purgeCdd"}, seen \in SUBSET (work[r].seen \cup read) :
        Goes(r, op, seen)
  <2>1. CASE Sale!ReadOtp(r)
    <3>1. Goes(r, "purgeOtp", {path["seller"], path["returned"]} \ {NoPaper})
      BY <2>1 DEF Goes, Sale!ReadOtp
    <3> QED
      BY <3>1
  <2>2. CASE Sale!ReadInvoice(r)
    <3>1. Goes(r, "purgeInvoice", work[r].seen \cup ({path["invoice"]} \ {NoPaper}))
      BY <2>2 DEF Goes, Sale!ReadInvoice, PaperInv, Sale!PaperTypeOK
    <3> QED
      BY <3>1
  <2>3. CASE Sale!ReadCdd(r)
    <3>1. Goes(r, "purgeCdd", work[r].seen \cup cdd)
      BY <2>3 DEF Goes, Sale!ReadCdd, PaperInv, Sale!PaperTypeOK
    <3> QED
      BY <3>1
  <2> QED
    BY <2>1, <2>2, <2>3
<1>2. /\ work[r].op \in {"purge", "purgeOtp", "purgeInvoice"}
      /\ UNCHANGED <<path, invoiced, cdd, disk, kind, sale, handed, rooted, lost>>
  BY DEF Sale!ReadOtp, Sale!ReadInvoice, Sale!ReadCdd, Sale!pathVars, Sale!fileVars, Sale!saleVars
<1>3. /\ Sale!PaperTypeOK /\ WorkFits(r) /\ work[r].seen \subseteq Papers /\ op \in Sale!Ops
      /\ NoPaper \notin cdd
  BY PaperFits, PaperAssumption DEF PaperInv, Works, Sale!Ops, Sale!PaperTypeOK
<1>4. read \subseteq Sale!Known
  BY <1>3, KnownIs DEF Sale!Slots
<1>5. seen \subseteq Papers /\ seen \subseteq Sale!Known \cup work[r].seen /\ seen \subseteq Sale!Written
  BY <1>1, <1>3, <1>4, KnownIsWritten DEF WorkFits
<1>6. /\ work'[r].op = op /\ work'[r].todo = work[r].todo /\ work'[r].paper = work[r].paper
      /\ work'[r].seen = seen /\ Sale!Held(r)' = Sale!Held(r) /\ Sale!Written' = Sale!Written
  BY <1>1, <1>2, <1>3, <1>5, WorkGoes DEF Sale!Written
<1>7. WorkFits(r)' /\ KindFits(r)' /\ HoldsNoPath(r)'
  BY <1>2, <1>3, <1>5, <1>6 DEF WorkFits, KindFits, HoldsNoPath, Empty, Fresh
<1> QED
  BY <1>1, <1>2, <1>3, <1>5, <1>7, ReadKeeps DEF Fresh

LEMMA PurgeKeeps ==
  ASSUME PaperInv, NEW r \in Requests, Sale!PurgeTransactionSensitiveDocs(r)
  PROVE  PaperInv'
<1> DEFINE seen == work[r].seen
<1>1. /\ work[r].op = "purgeCdd"
      /\ work' = [work EXCEPT ![r].op = "files", ![r].seen = {}, ![r].todo = seen]
      /\ path' = Sale!Purged(r) /\ cdd' = {}
      /\ lost' = lost \cup (({path["seller"], path["returned"]} \cup cdd) \ (seen \cup {NoPaper}))
      /\ UNCHANGED <<invoiced, disk, kind, sale, handed, rooted>>
  BY DEF Sale!PurgeTransactionSensitiveDocs, Sale!fileVars, Sale!saleVars
<1>2. Sale!PaperTypeOK /\ WorkFits(r) /\ work[r] \in Works /\ seen \subseteq Papers
      /\ seen \subseteq Sale!Written /\ Sale!Written' = Sale!Written
  BY <1>1, PaperFits DEF PaperInv, Works, WorkFits, Sale!Written
<1>3. PICK w \in Works : w = [work[r] EXCEPT !.op = "files", !.seen = {}, !.todo = seen]
  BY <1>2 DEF Works, Sale!Ops
<1>4. w.op = "files" /\ w.todo = seen /\ w.paper = NoPaper /\ w.seen = {}
  BY <1>1, <1>2, <1>3 DEF Works, WorkFits, Empty
<1>5. work' = [work EXCEPT ![r] = w]
  BY <1>1, <1>2, <1>3 DEF Sale!PaperTypeOK
<1>6. /\ work' \in [Requests -> Works] /\ work'[r] = w /\ \A q \in Requests \ {r} : work'[q] = work[q]
      /\ Sale!Held(r)' = seen
  <2>1. /\ work' \in [Requests -> Works] /\ work'[r] = w /\ \A q \in Requests \ {r} : work'[q] = work[q]
        /\ Sale!Held(r)' = w.todo \cup ({w.paper} \ {NoPaper})
    BY <1>2, <1>5, WorkBecomes
  <2> QED
    BY <1>4, <2>1
<1>7. /\ path' \in [Sale!Slots -> Papers \cup {NoPaper}]
      /\ \A s \in Sale!Slots : path'[s] \in {path[s], NoPaper} /\ path'[s] \notin seen
      /\ path["invoice"] \notin seen => path'["invoice"] = path["invoice"]
  BY <1>1, <1>2, PaperAssumption DEF Sale!Purged, Sale!PaperTypeOK, Sale!Slots
<1>8. Sale!PaperTypeOK'
  <2>1. path'["invoice"] # NoPaper => invoiced'
    BY <1>1, <1>2, <1>7 DEF Sale!PaperTypeOK, Sale!Slots
  <2>2. lost' \subseteq Papers
    BY <1>1, <1>2 DEF Sale!PaperTypeOK, Sale!Slots
  <2> QED
    BY <1>1, <1>2, <1>6, <1>7, <2>1, <2>2 DEF Sale!PaperTypeOK, Works
<1>9. WorkFits(r)' /\ KindFits(r)' /\ HoldsNoPath(r)'
  BY <1>2, <1>4, <1>6, <1>7 DEF WorkFits, KindFits, HoldsNoPath, Empty, Fresh
<1>10. Sale!Held(r) = {}
  BY <1>1, <1>2 DEF WorkFits, Sale!Held, Empty
<1>11. ASSUME NEW x \in disk' \ lost', x \in Sale!Known PROVE x \in Sale!Known' \cup seen
  <2>1. x # NoPaper /\ (x \in cdd \/ \E s \in Sale!Slots : path[s] = x)
    BY <1>11, KnownIs
  <2>2. CASE x \in cdd \cup {path["seller"], path["returned"]}
    BY <1>1, <1>11, <2>1, <2>2
  <2>3. CASE x = path["invoice"]
    BY <1>7, <2>1, <2>3, KnownWillBe DEF Sale!Slots
  <2> QED
    BY <2>1, <2>2, <2>3 DEF Sale!Slots
<1> QED
  BY <1>1, <1>4, <1>6, <1>7, <1>8, <1>9, <1>10, <1>11, SteadyMoves DEF Fresh

LEMMA PurgePaperKeeps ==
  ASSUME PaperInv, NEW r \in Requests, NEW p \in Papers, Sale!PurgeFile(r, p)
  PROVE  PaperInv'
<1>1. /\ work[r].op = "files" /\ p \in work[r].todo /\ disk' = disk \ {p}
      /\ work' = [work EXCEPT ![r] = IF @.todo = {p} THEN Sale!Rest ELSE [work[r] EXCEPT !.todo = work[r].todo \ {p}]]
      /\ UNCHANGED <<path, invoiced, cdd, kind, sale, handed, rooted, lost>>
  BY DEF Sale!PurgeFile, Sale!pathVars, Sale!saleVars
<1>2. Sale!PaperTypeOK /\ WorkFits(r) /\ HoldsNoPath(r) /\ work[r] \in Works
      /\ Sale!Held(r) = work[r].todo \cup ({work[r].paper} \ {NoPaper})
  BY PaperFits DEF PaperInv
<1>3. PICK w \in Works : w = IF work[r].todo = {p} THEN Sale!Rest ELSE [work[r] EXCEPT !.todo = work[r].todo \ {p}]
  BY <1>2, RestFits DEF Works
<1>4. /\ w.op \in {"idle", "files"} /\ (w.op = "idle" => w.todo = {})
      /\ w.todo = work[r].todo \ {p} /\ w.paper = NoPaper /\ w.seen \subseteq work[r].seen
  <2>1. CASE work[r].todo = {p}
    BY <1>3, <2>1, RestFits
  <2>2. CASE work[r].todo # {p}
    BY <1>1, <1>2, <1>3, <2>2 DEF Works, WorkFits, Empty
  <2> QED
    BY <2>1, <2>2
<1>5. work' = [work EXCEPT ![r] = w]
  <2>1. work' = [work EXCEPT ![r] = IF work[r].todo = {p} THEN Sale!Rest ELSE [work[r] EXCEPT !.todo = work[r].todo \ {p}]]
    BY <1>1
  <2> QED
    BY <1>3, <2>1
<1>6. /\ work' \in [Requests -> Works] /\ work'[r] = w /\ \A q \in Requests \ {r} : work'[q] = work[q]
      /\ Sale!Held(r)' = w.todo
  BY ZenonT(40), <1>2, <1>4, <1>5, WorkBecomes
<1>7. Sale!PaperTypeOK' /\ Sale!Written' = Sale!Written
  BY <1>1, <1>2, <1>6 DEF Sale!PaperTypeOK, Works, Sale!Written
<1>8. WorkFits(r)' /\ KindFits(r)' /\ HoldsNoPath(r)'
  <2>1. Sale!Held(r)' \cup w.seen \subseteq Sale!Written'
    BY <1>1, <1>2, <1>4, <1>6, <1>7 DEF WorkFits
  <2>2. WorkFits(r)'
    BY <1>4, <1>6, <2>1 DEF WorkFits, Empty, Fresh
  <2>3. HoldsNoPath(r)' /\ KindFits(r)'
    BY <1>1, <1>2, <1>4, <1>6 DEF HoldsNoPath, KindFits
  <2> QED
    BY <2>2, <2>3
<1>9. Sale!Known' = Sale!Known /\ work[r].paper = NoPaper /\ p \in Sale!Held(r)
      /\ \A s \in Sale!Slots : path[s] # p
  BY <1>1, <1>2 DEF Sale!Known, WorkFits, Empty, HoldsNoPath
<1> QED
  BY <1>1, <1>2, <1>4, <1>6, <1>7, <1>8, <1>9, SteadyMoves DEF Fresh

LEMMA PurgeNothingKeeps ==
  ASSUME PaperInv, NEW r \in Requests, Sale!PurgeNothing(r)
  PROVE  PaperInv'
<1>1. /\ work[r].op = "files" /\ work[r].todo = {} /\ work' = [work EXCEPT ![r] = Sale!Rest]
      /\ UNCHANGED <<path, invoiced, cdd, disk, kind, sale, handed, rooted, lost>>
  BY DEF Sale!PurgeNothing, Sale!End, Sale!pathVars, Sale!fileVars, Sale!saleVars
<1>2. Sale!PaperTypeOK /\ WorkFits(r)
  BY PaperFits DEF PaperInv
<1>3. /\ work' \in [Requests -> Works] /\ work'[r].op = "idle" /\ Sale!Held(r)' = {} /\ work'[r].seen = {}
      /\ WorkFits(r)' /\ KindFits(r)' /\ HoldsNoPath(r)' /\ \A q \in Requests \ {r} : work'[q] = work[q]
  BY <1>1, <1>2, WorkEnds DEF SaleRequestFits
<1>4. Sale!PaperTypeOK'
  BY <1>1, <1>2, <1>3 DEF Sale!PaperTypeOK, Works, Sale!Written
<1>5. Sale!Known' = Sale!Known /\ Sale!Held(r) = {}
  BY <1>1, <1>2 DEF Sale!Known, Sale!Held, WorkFits, Empty
<1> QED
  BY <1>1, <1>3, <1>4, <1>5, SteadyMoves DEF Fresh

\* The files of a type of document are of paths.
LEMMA FilesAreKnown ==
  ASSUME PaperInv, NEW docType \in Sale!DocTypes PROVE Sale!FilesOf(docType) \subseteq Sale!Known
<1>1. Sale!OtpPath \in Sale!Known \cup {NoPaper} /\ path["invoice"] \in Sale!Known \cup {NoPaper}
  BY DEF Sale!OtpPath, Sale!Known, Sale!Slots
<1>2. cdd \subseteq Sale!Known
  BY KnownIs, PaperAssumption DEF PaperInv, Sale!PaperTypeOK
<1> QED
  BY <1>1, <1>2 DEF Sale!FilesOf, Sale!DocTypes

Sending(ps) == [Sale!Rest EXCEPT !.op = "sending", !.todo = ps]

LEMMA DownloadStarts ==
  ASSUME PaperInv, NEW r \in Requests,
         (\E docType \in Sale!DocTypes : Sale!DownloadAndDelete(r, docType)) \/ Sale!DownloadAllAndDelete(r)
  PROVE  PaperInv'
<1>1. Sale!PaperTypeOK
  BY DEF PaperInv
<1>2. PICK ps \in SUBSET Sale!Known : Sale!Start(r, Sending(ps))
  <2>1. ASSUME NEW docType \in Sale!DocTypes, Sale!DownloadAndDelete(r, docType)
        PROVE  \E ps \in SUBSET Sale!Known : Sale!Start(r, Sending(ps))
    <3>1. PICK p \in Sale!FilesOf(docType) : Sale!Start(r, Sending({p}))
      BY <2>1, Zenon DEF Sale!DownloadAndDelete, Sending
    <3>2. {p} \in SUBSET Sale!Known
      BY <3>1, FilesAreKnown
    <3> QED
      BY <3>1, <3>2
  <2>2. ASSUME Sale!DownloadAllAndDelete(r)
        PROVE  \E ps \in SUBSET Sale!Known : Sale!Start(r, Sending(ps))
    <3> DEFINE all == UNION {Sale!FilesOf(docType) : docType \in Sale!DocTypes}
    <3>1. Sale!Start(r, Sending(all))
      BY <2>2, Zenon DEF Sale!DownloadAllAndDelete, Sending
    <3>2. all \in SUBSET Sale!Known
      BY FilesAreKnown
    <3> QED
      BY <3>1, <3>2
  <2> QED
    BY <2>1, <2>2
<1>3. UNCHANGED <<path, invoiced, cdd, disk, kind, sale, handed, rooted, lost>>
  <2>1. UNCHANGED <<Sale!pathVars, Sale!fileVars, Sale!saleVars, lost>>
    BY Zenon DEF Sale!DownloadAndDelete, Sale!DownloadAllAndDelete
  <2> QED
    BY <2>1 DEF Sale!pathVars, Sale!fileVars, Sale!saleVars
<1>4. ps \subseteq Papers /\ ps \subseteq Sale!Written /\ Sale!Written' = Sale!Written
  BY <1>3, KnownIsWritten DEF Sale!Written
<1>5. PICK w \in Works : w = Sending(ps)
  BY <1>4 DEF Sending, Sale!Rest, Works, Sale!Ops
<1>6. w.op = "sending" /\ w.todo = ps /\ w.paper = NoPaper /\ w.seen = {}
  BY <1>5 DEF Sending, Sale!Rest
<1>7. Sale!Start(r, w)
  BY <1>2, <1>5
<1>8. work'[r] = w /\ Sale!Held(r)' = ps
  BY <1>1, <1>6, <1>7, WorkBecomes DEF Sale!Start
<1>9. WorkFits(r)' /\ KindFits(r)' /\ HoldsNoPath(r)'
  BY <1>3, <1>4, <1>6, <1>8 DEF WorkFits, KindFits, HoldsNoPath, Empty, Fresh
<1> QED
  BY <1>3, <1>6, <1>7, <1>9, StartMoves DEF Fresh

LEMMA UnlinkSentKeeps ==
  ASSUME PaperInv, NEW r \in Requests, NEW p \in Papers, Sale!UnlinkSent(r, p)
  PROVE  PaperInv'
<1> DEFINE next == CASE p \in disk -> [work[r] EXCEPT !.op = "mark", !.todo = work[r].todo \ {p}, !.paper = p]
                     [] p \notin disk /\ work[r].todo = {p} -> Sale!Rest
                     [] OTHER -> [work[r] EXCEPT !.todo = work[r].todo \ {p}]
<1>1. /\ work[r].op = "sending" /\ p \in work[r].todo /\ disk' = disk \ {p}
      /\ UNCHANGED <<path, invoiced, cdd, kind, sale, handed, rooted, lost>>
  BY DEF Sale!UnlinkSent, Sale!pathVars, Sale!saleVars
<1>2. Sale!PaperTypeOK /\ WorkFits(r) /\ work[r] \in Works
      /\ Sale!Held(r) = work[r].todo \cup ({work[r].paper} \ {NoPaper})
  BY PaperFits DEF PaperInv
<1>3. /\ next \in Works /\ next.todo = work[r].todo \ {p} /\ next.seen \subseteq work[r].seen
      /\ p \in disk => next.op = "mark" /\ next.paper = p
      /\ p \notin disk => next.op \in {"idle", "sending"} /\ next.paper = NoPaper
                          /\ (next.op = "idle" => next.todo = {})
  <2>1. CASE p \in disk
    <3>1. next = [work[r] EXCEPT !.op = "mark", !.todo = work[r].todo \ {p}, !.paper = p]
      BY <2>1
    <3> QED
      BY <1>2, <2>1, <3>1 DEF Works, Sale!Ops
  <2>2. CASE p \notin disk /\ work[r].todo = {p}
    <3>1. next = Sale!Rest
      BY <2>2
    <3> QED
      BY <2>2, <3>1, RestFits
  <2>3. CASE p \notin disk /\ work[r].todo # {p}
    <3>1. next = [work[r] EXCEPT !.todo = work[r].todo \ {p}]
      BY <2>3
    <3> QED
      BY <1>1, <1>2, <2>3, <3>1 DEF Works, WorkFits, Empty
  <2> QED
    BY <2>1, <2>2, <2>3
<1>4. PICK w \in Works : w = next
  BY <1>3
<1>5. work' = [work EXCEPT ![r] = w]
  <2>1. work' = [work EXCEPT ![r] = next]
    BY DEF Sale!UnlinkSent
  <2> HIDE DEF next
  <2> QED
    BY <1>4, <2>1
<1> HIDE DEF next
<1>6. /\ work' \in [Requests -> Works] /\ work'[r] = w /\ \A q \in Requests \ {r} : work'[q] = work[q]
      /\ Sale!Held(r)' = w.todo \cup ({w.paper} \ {NoPaper})
  BY <1>2, <1>5, WorkBecomes
<1>7. Sale!PaperTypeOK' /\ Sale!Written' = Sale!Written
  BY <1>1, <1>2, <1>6 DEF Sale!PaperTypeOK, Works, Sale!Written
<1>8. work[r].paper = NoPaper /\ p # NoPaper /\ p \in Sale!Held(r) /\ Sale!Known' = Sale!Known
      /\ Sale!Held(r) \cup work[r].seen \subseteq Sale!Written
  BY <1>1, <1>2, PaperAssumption DEF WorkFits, Empty, Sale!Known
<1>9. WorkFits(r)' /\ KindFits(r)' /\ HoldsNoPath(r)'
  <2>1. Sale!Held(r)' \cup w.seen \subseteq Sale!Written'
    BY <1>1, <1>2, <1>3, <1>4, <1>6, <1>7, <1>8
  <2>2. w.op \in {"idle", "sending", "mark"} /\ (w.op = "mark" <=> p \in disk)
    BY <1>3, <1>4
  <2> QED
    BY <1>1, <1>3, <1>4, <1>6, <1>8, <2>1, <2>2 DEF WorkFits, KindFits, HoldsNoPath, Empty, Fresh
<1>10. \A x \in disk' : x \in Sale!Held(r) => x \in Sale!Held(r)'
  BY <1>1, <1>2, <1>3, <1>4, <1>6, <1>8
<1>11. Sale!Held(r)' \cup w.seen \subseteq Sale!Held(r) \cup work[r].seen /\ w.op \notin Fresh
  BY <1>2, <1>3, <1>4, <1>6, <1>8 DEF Fresh
<1>12. \A s \in Sale!Slots : path'[s] \notin {NoPaper} \cup disk' \cup lost' =>
         (work'[r].op = "mark" /\ work'[r].paper = path'[s]) \/ path[s] \notin disk
  BY <1>1, <1>3, <1>4, <1>6
<1> QED
  BY <1>1, <1>6, <1>7, <1>8, <1>9, <1>10, <1>11, <1>12, SteadyMoves

LEMMA MarkSentKeeps ==
  ASSUME PaperInv, NEW r \in Requests, Sale!MarkSent(r)
  PROVE  PaperInv'
<1> DEFINE p == work[r].paper
<1>1. /\ work[r].op = "mark"
      /\ work' = [work EXCEPT ![r] = IF @.todo = {} THEN Sale!Rest
                                     ELSE [@ EXCEPT !.op = "sending", !.paper = NoPaper]]
      /\ UNCHANGED <<invoiced, cdd, disk, kind, sale, handed, rooted>>
  BY DEF Sale!MarkSent, Sale!fileVars, Sale!saleVars
<1>2. Sale!PaperTypeOK /\ WorkFits(r) /\ work[r] \in Works
      /\ Sale!Held(r) = work[r].todo \cup ({p} \ {NoPaper})
  BY PaperFits DEF PaperInv
<1>3. PICK w \in Works : w = IF work[r].todo = {} THEN Sale!Rest
                             ELSE [work[r] EXCEPT !.op = "sending", !.paper = NoPaper]
  BY <1>2, RestFits DEF Works, Sale!Ops
<1>4. w.op \in {"idle", "sending"} /\ (w.op = "idle" => w.todo = {}) /\ w.todo = work[r].todo /\ w.paper = NoPaper
      /\ w.seen \subseteq work[r].seen
  BY <1>2, <1>3, RestFits DEF Works
<1>5. work' = [work EXCEPT ![r] = w]
  BY <1>1, <1>3, Zenon
<1>6. /\ work' \in [Requests -> Works] /\ work'[r] = w /\ \A q \in Requests \ {r} : work'[q] = work[q]
      /\ Sale!Held(r)' = w.todo
  <2>1. /\ work' \in [Requests -> Works] /\ work'[r] = w /\ \A q \in Requests \ {r} : work'[q] = work[q]
        /\ Sale!Held(r)' = w.todo \cup ({w.paper} \ {NoPaper})
    BY <1>2, <1>5, WorkBecomes
  <2> QED
    BY <1>4, <2>1
<1>7. p \notin disk /\ p # NoPaper /\ p \in Papers
  BY <1>1, <1>2 DEF WorkFits, Empty, Works
<1>8. /\ path' \in [Sale!Slots -> Papers \cup {NoPaper}] /\ lost \subseteq lost' /\ lost' \subseteq Papers
      /\ \A s \in Sale!Slots : path'[s] \in {path[s], NoPaper}
      /\ \A s \in Sale!Slots : path'[s] # path[s] => path[s] \in lost' \cup {p, NoPaper}
      /\ \A s \in Sale!Slots : path'[s] # p
  <2>1. \A s \in Sale!Slots : path[s] = p => kind[p] = s
    BY <1>7 DEF PaperInv, PaperHolds, Placed
  <2>2. "seller" \in Sale!Slots /\ "returned" \in Sale!Slots /\ "invoice" \in Sale!Slots
        /\ Sale!Slots = {"seller", "returned", "invoice"}
    BY DEF Sale!Slots
  <2>3. CASE kind[p] \in {"seller", "returned"}
    <3>1. /\ path' = [path EXCEPT !["seller"] = NoPaper, !["returned"] = NoPaper]
          /\ lost' = lost \cup ({path["seller"], path["returned"]} \ {NoPaper, p})
      BY <2>3 DEF Sale!MarkSent, Sale!MarkOtpScannedCopyDeleted
    <3>2. /\ path' \in [Sale!Slots -> Papers \cup {NoPaper}] /\ path'["seller"] = NoPaper
          /\ path'["returned"] = NoPaper /\ path'["invoice"] = path["invoice"]
      BY <1>2, <2>2, <3>1 DEF Sale!PaperTypeOK
    <3>3. path["invoice"] # p
      BY <2>1, <2>2, <2>3
    <3>4. lost' \subseteq Papers
      BY <1>2, <2>2, <3>1 DEF Sale!PaperTypeOK
    <3> QED
      BY <1>7, <2>2, <3>1, <3>2, <3>3, <3>4
  <2>4. CASE kind[p] = "invoice"
    <3>1. /\ path' = [path EXCEPT !["invoice"] = NoPaper]
          /\ lost' = lost \cup ({path["invoice"]} \ {NoPaper, p})
      BY <2>4 DEF Sale!MarkSent, Sale!MarkInvoiceDeleted
    <3>2. /\ path' \in [Sale!Slots -> Papers \cup {NoPaper}] /\ path'["seller"] = path["seller"]
          /\ path'["returned"] = path["returned"] /\ path'["invoice"] = NoPaper
      BY <1>2, <2>2, <3>1 DEF Sale!PaperTypeOK
    <3>3. path["seller"] # p /\ path["returned"] # p
      BY <2>1, <2>2, <2>4
    <3>4. lost' \subseteq Papers
      BY <1>2, <2>2, <3>1 DEF Sale!PaperTypeOK
    <3> QED
      BY <1>7, <2>2, <3>1, <3>2, <3>3, <3>4
  <2>5. CASE kind[p] \notin Sale!Slots
    <3>1. path' = path /\ lost' = lost
      BY <2>2, <2>5 DEF Sale!MarkSent
    <3> QED
      BY <1>2, <2>1, <2>5, <3>1 DEF Sale!PaperTypeOK
  <2> QED
    BY <2>2, <2>3, <2>4, <2>5
<1>9. Sale!PaperTypeOK' /\ Sale!Written' = Sale!Written
  <2>1. path'["invoice"] # NoPaper => invoiced'
    BY <1>1, <1>2, <1>8 DEF Sale!PaperTypeOK, Sale!Slots
  <2> QED
    BY <1>1, <1>2, <1>6, <1>8, <2>1 DEF Sale!PaperTypeOK, Works, Sale!Written
<1>10. WorkFits(r)' /\ KindFits(r)' /\ HoldsNoPath(r)'
  BY <1>1, <1>2, <1>4, <1>6, <1>9 DEF WorkFits, KindFits, HoldsNoPath, Empty, Fresh
<1>11. \A x \in disk' \ lost' : x \in Sale!Known => x \in Sale!Known'
  <2>1. ASSUME NEW x \in disk' \ lost', x \in Sale!Known PROVE x \in Sale!Known'
    <3>1. x # NoPaper /\ (x \in cdd \/ \E s \in Sale!Slots : path[s] = x) /\ x # p
      BY <1>1, <1>7, <2>1, KnownIs
    <3>2. CASE x \in cdd
      BY <1>1, <3>1, <3>2, KnownWillBe
    <3>3. CASE \E s \in Sale!Slots : path[s] = x
      <4>1. PICK s \in Sale!Slots : path[s] = x
        BY <3>3
      <4>2. path'[s] = x
        BY <1>8, <2>1, <3>1, <4>1
      <4> QED
        BY <3>1, <4>2, KnownWillBe
    <3> QED
      BY <3>1, <3>2, <3>3
  <2> QED
    BY <2>1
<1>12. \A s \in Sale!Slots : path'[s] \notin {NoPaper} \cup disk' \cup lost' => path[s] \notin disk /\ path[s] # p
  BY <1>1, <1>8
<1>13. /\ Sale!Held(r)' \cup w.seen \subseteq Sale!Held(r) \cup work[r].seen /\ w.op \notin Fresh
       /\ \A x \in disk' : x \in Sale!Held(r) => x \in Sale!Held(r)'
  BY <1>1, <1>2, <1>4, <1>6, <1>7 DEF Fresh
<1> QED
  BY <1>1, <1>6, <1>8, <1>9, <1>10, <1>11, <1>12, <1>13, SteadyMoves

LEMMA PaperStarts == Sale!PaperInit => PaperInv
<1> SUFFICES ASSUME Sale!PaperInit PROVE PaperInv
  OBVIOUS
<1>1. /\ path = [s \in Sale!Slots |-> NoPaper] /\ invoiced = FALSE /\ cdd = {} /\ disk = {}
      /\ kind = [p \in Papers |-> "none"]
      /\ sale = "open" /\ handed = FALSE /\ rooted \in BOOLEAN
      /\ work = [r \in Requests |-> Sale!Rest] /\ lost = {}
  BY DEF Sale!PaperInit
<1>2. Sale!PaperTypeOK
  BY <1>1, RestFits DEF Sale!PaperTypeOK, Works, Sale!Slots
<1>3. ASSUME NEW r \in Requests PROVE SaleRequestFits(r)
  <2>1. work[r].op = "idle" /\ work[r].todo = {} /\ work[r].paper = NoPaper /\ work[r].seen = {}
    BY <1>1, RestFits
  <2> QED
    BY <2>1 DEF SaleRequestFits, WorkFits, KindFits, FreshIsNew, HoldsNoPath, Fresh, Empty, Sale!Held
<1>4. \A s \in Sale!Slots : path[s] = NoPaper
  BY <1>1
<1>5. Placed
  BY <1>1, <1>4 DEF Placed
<1> QED
  BY <1>1, <1>2, <1>3, <1>4, <1>5 DEF PaperInv, PaperHolds, Sale!PapersAreAccountedFor, PathHasFile

LEMMA PaperInvKept == Sale!PaperSpec => []PaperInv
<1>1. PaperInv /\ [Sale!PaperNext]_(Sale!paperVars) => PaperInv'
  <2> SUFFICES ASSUME PaperInv, [Sale!PaperNext]_(Sale!paperVars) PROVE PaperInv'
    OBVIOUS
  <2>1. CASE UNCHANGED Sale!paperVars \/ Sale!TimePasses
    <3>1. /\ UNCHANGED <<path, invoiced, cdd, disk, kind, handed, rooted, work, lost>>
          /\ sale' \in {sale, "completed", "due"}
      BY <2>1 DEF Sale!paperVars, Sale!pathVars, Sale!fileVars, Sale!saleVars, Sale!TimePasses
    <3>2. Sale!PaperTypeOK'
      BY <3>1 DEF PaperInv, Sale!PaperTypeOK, Sale!Written
    <3>3. PaperHolds'
      BY <3>1 DEF PaperInv, PaperHolds, SaleRequestFits, WorkFits, KindFits, FreshIsNew, HoldsNoPath, Placed,
         PathHasFile, Sale!PapersAreAccountedFor, Sale!Known, Sale!Held, Sale!Written
    <3> QED
      BY <3>2, <3>3 DEF PaperInv
  <2>2. ASSUME NEW r \in Requests, Sale!UploadStep(r) PROVE PaperInv'
    BY <2>2, UploadStarts, SaveBlobKeeps, UpdateScanKeeps, CreateInvoiceKeeps DEF Sale!UploadStep
  <2>3. ASSUME NEW r \in Requests, Sale!CddStep(r) PROVE PaperInv'
    BY <2>3, UploadStarts, ReadToAddKeeps, AddCddKeeps, DeleteCddKeeps, DeleteCddFileKeeps,
       ReadToRemoveKeeps, RemoveCddKeeps
    DEF Sale!CddStep
  <2>4. ASSUME NEW r \in Requests, Sale!PurgeStep(r) PROVE PaperInv'
    BY <2>4, PurgeStarts, PurgePaperKeeps, HandoffKeeps, PurgeReadsKeep, PurgeKeeps, PurgeNothingKeeps
    DEF Sale!PurgeStep
  <2>5. ASSUME NEW r \in Requests, Sale!DownloadStep(r) PROVE PaperInv'
    BY <2>5, DownloadStarts, UnlinkSentKeeps, MarkSentKeeps DEF Sale!DownloadStep
  <2> QED
    BY <2>1, <2>2, <2>3, <2>4, <2>5, DropKeeps DEF Sale!PaperNext
<1> QED
  BY <1>1, PaperStarts, PTL DEF Sale!PaperSpec

\* A file on disk has its row or its request, and the path of a file that is gone is
\* about to be cleared, for any number of papers and requests.
THEOREM PapersAreSoundKept == Sale!PaperSpec => []PapersAreSound
<1>1. PaperInv => PapersAreSound
  <2> SUFFICES ASSUME PaperInv PROVE Sale!PapersAreSound
    BY DEF PapersAreSound
  <2>1. ASSUME NEW s \in Sale!Slots, path[s] \notin {NoPaper} \cup disk \cup lost
        PROVE  \E r \in Requests : path[s] \in Sale!Held(r)
    <3>1. PICK r \in Requests : work[r].paper = path[s]
      BY <2>1 DEF PaperInv, PaperHolds, PathHasFile
    <3> QED
      BY <2>1, <3>1 DEF Sale!Held
  <2>2. Sale!PathsHaveFiles
    BY <2>1 DEF Sale!PathsHaveFiles
  <2> QED
    BY <2>2 DEF PaperInv, PaperHolds, Sale!PapersAreSound
<1> QED
  BY <1>1, PaperInvKept, PTL

-----------------------------------------------------------------------------
(* The scan and the purge of the day.                                      *)

Flagging == {"lead", "withdrawn", "consent_record", "listing"}

JobStates == [step : Nat, todo : SUBSET (Sellers \cup Txs \cup Kinds),
              seller : Sellers \cup {NoSeller}]

JobsTypeInv == TypeOK /\ job \in [Jobs -> JobStates]

\* Only the scan flags, and what waits to be flagged has not been.
FlagsOnce ==
  /\ FlaggedOnce
  /\ \A j \in Jobs : StepOf(j) \in Flagging =>
       j = "scan" /\ \A x \in job[j].todo : flags[x] = 0

\* Whom the scan chose to make anonymous has no open sale but those opened since.
ChosenAreOver ==
  /\ \A t \in anonymised : tx[t] = "completed"
  /\ \A j \in Jobs : StepOf(j) = "identities" =>
       \A t \in job[j].todo :
         /\ t \in Txs /\ tx[t] = "completed"
         /\ \A u \in SalesOf(SellerOf[t]) : u \in fresh[j] \/ tx[u] = "completed"

RetentionInv == JobsTypeInv /\ FlagsOnce /\ ChosenAreOver /\ AnonymisedIsRedacted

-----------------------------------------------------------------------------
(* The programs of the two jobs, and what their queries return.            *)

LEMMA Programs ==
  /\ Jobs = {"scan", "purge"}
  /\ Len(Program["scan"]) = 13 /\ Len(Program["purge"]) = 2
  /\ \A n \in 1..13 :
       Program["scan"][n] \in Flagging \cup Kinds \cup {"docs", "nric", "prices", "identities"}
  /\ \A n \in 1..2 : Program["purge"][n] \in {"docs", "nric"}
BY DEF Jobs, Program, Flagging, Kinds

\* Each step of a job has a query, and only the scan flags.
LEMMA StepsOf ==
  ASSUME NEW j \in Jobs, NEW n \in 1..Len(Program[j])
  PROVE  /\ Program[j][n] \in Flagging \cup Kinds \cup {"docs", "nric", "prices", "identities"}
         /\ Program[j][n] \in Flagging => j = "scan"
BY Programs DEF Flagging, Kinds

LEMMA FirstStep == \A j \in Jobs : 1 \in 1..Len(Program[j])
BY Programs

\* What a query returns: rows, none of them flagged if the step flags, and sales of
\* sellers without an open one if it makes them anonymous.
LEMMA Selected ==
  ASSUME TypeOK, ChosenAreOver,
         NEW step \in Flagging \cup Kinds \cup {"docs", "nric", "prices", "identities"}
  PROVE  /\ Select(step) \subseteq Sellers \cup Txs \cup Kinds
         /\ step \in Flagging => \A x \in Select(step) : flags[x] = 0
         /\ step = "identities" =>
              \A t \in Select(step) :
                /\ t \in Txs /\ tx[t] = "completed"
                /\ \A u \in SalesOf(SellerOf[t]) : tx[u] = "completed"
<1>1. CASE step \in Flagging
  BY <1>1 DEF Flagging, Select, Unflagged, FindLeadsForRetention, FindServiceWithdrawnForDeletion,
              FindOthers, TypeOK, Kinds
<1>2. CASE step \in {"docs", "nric", "prices"}
  BY <1>2 DEF Flagging, Select, FindCompletedTransactionsForDocPurge,
              FindCddRecordsForNricRedaction, FindCompletedTransactionsForFinancialRedaction, TypeOK
<1>3. CASE step = "identities"
  BY <1>3 DEF Flagging, Select, FindCompletedTransactionsForAnonymisation, CompletedBefore,
              HasCompletionDate, ChosenAreOver
<1>4. CASE step \in Kinds \ Flagging
  BY <1>4 DEF Flagging, Select, FindOthers, Kinds
<1> QED
  BY <1>1, <1>2, <1>3, <1>4

-----------------------------------------------------------------------------
(* The jobs.                                                               *)

LEMMA JobsStart == Init => RetentionInv
<1> SUFFICES ASSUME Init PROVE RetentionInv
  OBVIOUS
<1>1. job \in [Jobs -> JobStates] /\ \A j \in Jobs : job[j] = Stopped
  BY DEF Init, Stopped, JobStates
<1>2. TypeOK
  BY <1>1, RetentionAssumption DEF Init, TypeOK, Stopped
<1>3. FlagsOnce
  BY <1>1 DEF Init, FlagsOnce, FlaggedOnce, StepOf, Stopped, Flagging
<1>4. ChosenAreOver
  BY <1>1 DEF Init, ChosenAreOver, StepOf, Stopped
<1>5. AnonymisedIsRedacted
  BY DEF Init, AnonymisedIsRedacted
<1> QED
  BY <1>1, <1>2, <1>3, <1>4, <1>5 DEF RetentionInv, JobsTypeInv

\* A job that ends, or goes on to a step with what its query returns.
LEMMA TurnStep ==
  ASSUME RetentionInv, NEW j \in Jobs, NEW next,
         \/ next = Stopped
         \/ \E n \in 1..Len(Program[j]) :
              next = [step |-> n, todo |-> Select(Program[j][n]), seller |-> NoSeller],
         job' = [job EXCEPT ![j] = next],
         job[j].seller = NoSeller \/ job[j].seller \in abandoned',
         failures' \in 0..MaxFailures,
         fresh' \in [Jobs -> SUBSET Txs], \A k \in Jobs \ {j} : fresh'[k] = fresh[k],
         abandoned \subseteq abandoned', abandoned' \subseteq Sellers,
         UNCHANGED <<sellerVars, flags, saleVars, recordVars, others>>
  PROVE  RetentionInv'
<1> USE DEF RetentionInv, JobsTypeInv, sellerVars, saleVars, recordVars
<1>1. next \in JobStates /\ next.seller = NoSeller
  <2>1. CASE next = Stopped
    BY <2>1 DEF Stopped, JobStates
  <2>2. ASSUME NEW n \in 1..Len(Program[j]),
               next = [step |-> n, todo |-> Select(Program[j][n]), seller |-> NoSeller]
        PROVE  <1>1
    <3>1. Select(Program[j][n]) \subseteq Sellers \cup Txs \cup Kinds
      BY StepsOf, Selected
    <3>2. n \in Nat
      BY <2>2, Programs
    <3> QED
      BY <2>2, <3>1, <3>2 DEF JobStates
  <2> QED
    BY <2>1, <2>2
<1>2. job' \in [Jobs -> JobStates] /\ job'[j] = next /\ \A k \in Jobs \ {j} : job'[k] = job[k]
  BY <1>1
<1>3. \A k \in Jobs \ {j} : StepOf(k)' = StepOf(k)
  BY <1>2 DEF StepOf
<1>4. /\ next.step \in 0..Len(Program[j])
      /\ StepOf(j)' \in Flagging => j = "scan" /\ \A x \in next.todo : flags[x] = 0
      /\ StepOf(j)' = "identities" =>
           \A t \in next.todo :
             /\ t \in Txs /\ tx[t] = "completed"
             /\ \A u \in SalesOf(SellerOf[t]) : tx[u] = "completed"
  <2>1. CASE next = Stopped
    BY <2>1, <1>2, Programs DEF Stopped, StepOf, Flagging
  <2>2. ASSUME NEW n \in 1..Len(Program[j]),
               next = [step |-> n, todo |-> Select(Program[j][n]), seller |-> NoSeller]
        PROVE  <1>4
    <3>1. StepOf(j)' = Program[j][n]
      BY <2>2, <1>2, Programs DEF StepOf
    <3>2. /\ Program[j][n] \in Flagging \cup Kinds \cup {"docs", "nric", "prices", "identities"}
          /\ Program[j][n] \in Flagging => j = "scan"
      BY StepsOf
    <3>3. next.step = n /\ next.todo = Select(Program[j][n]) /\ n \in 0..Len(Program[j])
      BY <2>2, Programs
    <3> QED
      BY <3>1, <3>2, <3>3, Selected
  <2> QED
    BY <2>1, <2>2
<1>5. TypeOK'
  BY <1>1, <1>2, <1>3, <1>4 DEF TypeOK, JobStates
<1>6. FlagsOnce'
  BY <1>2, <1>3, <1>4 DEF FlagsOnce, FlaggedOnce
<1>7. ChosenAreOver'
  BY <1>2, <1>3, <1>4 DEF ChosenAreOver, SalesOf
<1>8. AnonymisedIsRedacted'
  BY <1>2, RetentionAssumption DEF AnonymisedIsRedacted, TypeOK
<1> QED
  BY <1>2, <1>5, <1>6, <1>7, <1>8

\* A row, or all, treated in a step that neither flags nor makes anonymous.
LEMMA RowStep ==
  ASSUME RetentionInv, NEW j \in Jobs, NEW rows, Done(j, rows) \/ UNCHANGED job,
         docs' \subseteq docs, nric' \subseteq nric, documents' \subseteq documents, priced' \subseteq priced,
         others' \in [Kinds -> {"kept", "expired", "emptied", "flagged", "erased"}],
         UNCHANGED <<sellerVars, flags, saleVars, anonymised, pii, notices, runVars>>
  PROVE  RetentionInv'
<1> USE DEF RetentionInv, JobsTypeInv, Done, sellerVars, saleVars, runVars
<1>1. /\ job' \in [Jobs -> JobStates]
      /\ \A k \in Jobs : /\ StepOf(k)' = StepOf(k) /\ job'[k].todo \subseteq job[k].todo
                         /\ job'[k].seller = job[k].seller /\ job'[k].step = job[k].step
  BY SMTT(30) DEF JobStates, StepOf
<1>2. TypeOK'
  BY <1>1 DEF TypeOK
<1>3. FlagsOnce'
  BY <1>1 DEF FlagsOnce, FlaggedOnce
<1>4. ChosenAreOver'
  BY <1>1 DEF ChosenAreOver, SalesOf
<1>5. AnonymisedIsRedacted'
  BY <1>1 DEF AnonymisedIsRedacted
<1> QED
  BY <1>1, <1>2, <1>3, <1>4, <1>5

\* A row flagged leaves the rows to flag.
LEMMA FlagNewItemsStep ==
  ASSUME RetentionInv, NEW j \in Jobs, NEW x \in Sellers \cup Kinds, FlagNewItems(j, x)
  PROVE  RetentionInv'
<1> USE DEF RetentionInv, JobsTypeInv, FlagNewItems, sellerVars, saleVars, recordVars,
            Done, CreateDeletionRequestOf, runVars
<1>1. job' \in [Jobs -> JobStates] /\ \A k \in Jobs : StepOf(k)' = StepOf(k)
  BY RetentionAssumption DEF JobStates, StepOf
<1>2. TypeOK'
  BY <1>1, RetentionAssumption DEF TypeOK, JobStates, Kinds
<1>3. FlagsOnce'
  BY <1>1 DEF FlagsOnce, FlaggedOnce, TypeOK, Flagging, JobStates
<1>4. ChosenAreOver'
  BY <1>1 DEF ChosenAreOver, SalesOf, TypeOK, JobStates
<1>5. AnonymisedIsRedacted'
  BY <1>1 DEF AnonymisedIsRedacted, TypeOK, JobStates
<1> QED
  BY <1>1, <1>2, <1>3, <1>4, <1>5

\* The notifications come next.
LEMMA AnonymiseTransactionSellerStep ==
  ASSUME RetentionInv, NEW j \in Jobs, NEW t \in Txs, AnonymiseTransactionSeller(j, t)
  PROVE  RetentionInv'
<1> USE DEF RetentionInv, JobsTypeInv, AnonymiseTransactionSeller, sellerVars, saleVars, recordVars,
            runVars
<1>1. job' \in [Jobs -> JobStates] /\ \A k \in Jobs : StepOf(k)' = StepOf(k)
  BY RetentionAssumption DEF JobStates, StepOf
<1>2. TypeOK'
  BY <1>1, RetentionAssumption DEF TypeOK, JobStates, Kinds
<1>3. FlagsOnce'
  BY <1>1 DEF FlagsOnce, FlaggedOnce, TypeOK, Flagging, JobStates
<1>4. ChosenAreOver'
  BY <1>1 DEF ChosenAreOver, SalesOf, TypeOK, JobStates
<1>5. AnonymisedIsRedacted'
  BY <1>1 DEF AnonymisedIsRedacted, TypeOK, JobStates
<1> QED
  BY <1>1, <1>2, <1>3, <1>4, <1>5

LEMMA RedactSellerNotificationsStep ==
  ASSUME RetentionInv, NEW j \in Jobs, RedactSellerNotifications(j)
  PROVE  RetentionInv'
<1> USE DEF RetentionInv, JobsTypeInv, RedactSellerNotifications, sellerVars, saleVars, recordVars,
            runVars
<1>1. job' \in [Jobs -> JobStates] /\ \A k \in Jobs : StepOf(k)' = StepOf(k)
  BY RetentionAssumption DEF JobStates, StepOf
<1>2. TypeOK'
  BY <1>1, RetentionAssumption DEF TypeOK, JobStates, Kinds
<1>3. FlagsOnce'
  BY <1>1 DEF FlagsOnce, FlaggedOnce, TypeOK, Flagging, JobStates
<1>4. ChosenAreOver'
  BY <1>1 DEF ChosenAreOver, SalesOf, TypeOK, JobStates
<1>5. AnonymisedIsRedacted'
  BY <1>1 DEF AnonymisedIsRedacted, TypeOK, JobStates
<1> QED
  BY <1>1, <1>2, <1>3, <1>4, <1>5

-----------------------------------------------------------------------------
(* Everybody else.                                                         *)

\* The jobs run on, whoever comes and goes meanwhile.
LEMMA WorldStep == RetentionInv /\ World => RetentionInv'
<1> SUFFICES ASSUME RetentionInv, World PROVE RetentionInv'
  OBVIOUS
<1> USE DEF RetentionInv, JobsTypeInv, worldRest, saleVars, recordVars
<1>1. UNCHANGED worldRest
  BY DEF World, BecomeIdle, TouchSeller, WithdrawService, OpenSale, EndSale, PeriodPasses, Expire
<1>2. \A j \in Jobs : StepOf(j)' = StepOf(j)
  BY <1>1 DEF StepOf
<1>3. FlagsOnce'
  BY <1>1, <1>2 DEF FlagsOnce, FlaggedOnce
<1>4. AnonymisedIsRedacted'
  BY <1>1 DEF World, BecomeIdle, TouchSeller, WithdrawService, OpenSale, EndSale, PeriodPasses,
              Expire, AnonymisedIsRedacted
<1>5. TypeOK'
  <2> USE <1>1, <1>2 DEF TypeOK
  <2>1. ASSUME NEW s \in Sellers, BecomeIdle(s) \/ TouchSeller(s) \/ WithdrawService(s)
        PROVE  TypeOK'
    BY <2>1 DEF BecomeIdle, TouchSeller, WithdrawService
  <2>2. ASSUME NEW t \in Txs, OpenSale(t) PROVE TypeOK'
    <3>1. /\ tx' \in [Txs -> {"none", "open", "completed", "fallen_through"}]
          /\ fresh' \in [Jobs -> SUBSET Txs]
      BY <2>2 DEF OpenSale
    <3>2. docs' \subseteq Txs /\ priced' \subseteq Txs
          /\ nric' \subseteq Sellers /\ documents' \subseteq Sellers
          /\ lead' \subseteq Sellers /\ idle' \subseteq Sellers
      BY ZenonT(40), <2>2, RetentionAssumption DEF OpenSale
    <3> QED
      BY <2>2, <3>1, <3>2 DEF OpenSale
  <2>3. ASSUME NEW t \in Txs, NEW status \in {"completed", "fallen_through"}, EndSale(t, status)
        PROVE  TypeOK'
    <3>1. tx' \in [Txs -> {"none", "open", "completed", "fallen_through"}]
      BY <2>3 DEF EndSale
    <3> QED
      BY <2>3, <3>1 DEF EndSale, sellerVars
  <2>4. ASSUME NEW t \in Txs, PeriodPasses(t) PROVE TypeOK'
    <3>1. age' \in [Txs -> 0..2]
      BY <2>4 DEF PeriodPasses
    <3> QED
      BY <2>4, <3>1 DEF PeriodPasses, sellerVars
  <2>5. ASSUME NEW k \in Kinds, Expire(k) PROVE TypeOK'
    <3>1. others' \in [Kinds -> {"kept", "expired", "emptied", "flagged", "erased"}]
      BY <2>5 DEF Expire
    <3> QED
      BY <2>5, <3>1 DEF Expire, sellerVars
  <2> QED
    BY <2>1, <2>2, <2>3, <2>4, <2>5 DEF World
<1>6. ChosenAreOver'
  <2> USE <1>1, <1>2 DEF ChosenAreOver, SalesOf
  <2>1. ASSUME NEW t \in Txs, OpenSale(t) PROVE ChosenAreOver'
    BY <2>1 DEF OpenSale, TypeOK
  <2>2. ASSUME NEW t \in Txs, NEW status \in {"completed", "fallen_through"}, EndSale(t, status)
        PROVE  ChosenAreOver'
    BY <2>2 DEF EndSale, TypeOK
  <2>3. CASE UNCHANGED <<tx, anonymised, fresh>>
    BY <2>3
  <2> QED
    BY <2>1, <2>2, <2>3
       DEF World, BecomeIdle, TouchSeller, WithdrawService, PeriodPasses, Expire
<1> QED
  BY <1>1, <1>3, <1>4, <1>5, <1>6 DEF worldRest

\* Every step keeps the invariant.
LEMMA JobsStepInv == RetentionInv /\ [Next]_vars => RetentionInv'
<1> SUFFICES ASSUME RetentionInv, [Next]_vars PROVE RetentionInv'
  OBVIOUS
<1> USE DEF sellerVars, saleVars, recordVars, runVars
<1>1. CASE World
  BY <1>1, WorldStep
<1>2. ASSUME NEW j \in Jobs, StartJob(j) PROVE RetentionInv'
  <2> DEFINE next == [step |-> 1, todo |-> Select(Program[j][1]), seller |-> NoSeller]
  <2>1. job[j].seller = NoSeller
    BY <1>2, RetentionAssumption DEF StartJob, RetentionInv, JobsTypeInv, TypeOK, StepOf
  <2>2. job' = [job EXCEPT ![j] = next]
    BY <1>2 DEF StartJob
  <2>3. failures' \in 0..MaxFailures /\ fresh' \in [Jobs -> SUBSET Txs]
        /\ \A k \in Jobs \ {j} : fresh'[k] = fresh[k]
    BY <1>2 DEF StartJob, RetentionInv, JobsTypeInv, TypeOK
  <2> QED
    BY <1>2, <2>1, <2>2, <2>3, FirstStep, TurnStep DEF StartJob, RetentionInv, JobsTypeInv, TypeOK
<1>3. ASSUME NEW j \in Jobs, NextStep(j) PROVE RetentionInv'
  <2> DEFINE n == job[j].step + 1
             next == IF job[j].step = Len(Program[j]) THEN Stopped
                     ELSE [step |-> n, todo |-> Select(Program[j][n]), seller |-> NoSeller]
  <2>1. job' = [job EXCEPT ![j] = next]
    BY <1>3 DEF NextStep
  <2>2. job[j].step # Len(Program[j]) => n \in 1..Len(Program[j])
    <3>1. job[j].step \in 0..Len(Program[j])
      BY DEF RetentionInv, JobsTypeInv, TypeOK
    <3>2. Len(Program[j]) \in Nat
      BY Programs
    <3> QED
      BY <3>1, <3>2
  <2>3. next = Stopped \/ \E i \in 1..Len(Program[j]) :
          next = [step |-> i, todo |-> Select(Program[j][i]), seller |-> NoSeller]
    BY <2>2
  <2>4. failures' \in 0..MaxFailures /\ fresh' \in [Jobs -> SUBSET Txs]
        /\ \A k \in Jobs \ {j} : fresh'[k] = fresh[k]
    BY <1>3 DEF NextStep, RetentionInv, JobsTypeInv, TypeOK
  <2> HIDE DEF next
  <2> QED
    BY <1>3, <2>1, <2>3, <2>4, TurnStep DEF NextStep, RetentionInv, JobsTypeInv, TypeOK
<1>4. ASSUME NEW j \in Jobs, FailJob(j) PROVE RetentionInv'
  <2>1. failures' \in 0..MaxFailures /\ fresh' \in [Jobs -> SUBSET Txs]
        /\ \A k \in Jobs \ {j} : fresh'[k] = fresh[k]
    BY <1>4, RetentionAssumption DEF FailJob, RetentionInv, JobsTypeInv, TypeOK
  <2>2. /\ job[j].seller = NoSeller \/ job[j].seller \in abandoned'
        /\ abandoned \subseteq abandoned' /\ abandoned' \subseteq Sellers
    BY <1>4 DEF FailJob, RetentionInv, JobsTypeInv, TypeOK
  <2> QED
    BY <1>4, <2>1, <2>2, TurnStep DEF FailJob
<1>5. ASSUME NEW j \in Jobs, RunJob(j), ~NextStep(j) PROVE RetentionInv'
  <2>1. ASSUME NEW x \in Sellers \cup Kinds, FlagNewItems(j, x) PROVE RetentionInv'
    BY <2>1, FlagNewItemsStep
  <2>2. ASSUME NEW t \in Txs, PurgeTransactionSensitiveDocs(j, t) PROVE RetentionInv'
    BY <2>2, RowStep DEF PurgeTransactionSensitiveDocs, RetentionInv, JobsTypeInv, TypeOK
  <2>3. ASSUME RedactNricFromCddRecordsBatch(j) PROVE RetentionInv'
    BY <2>3, RowStep DEF RedactNricFromCddRecordsBatch, RetentionInv, JobsTypeInv, TypeOK
  <2>4. ASSUME NEW t \in Txs, RedactTransactionFinancialData(j, t) PROVE RetentionInv'
    BY <2>4, RowStep DEF RedactTransactionFinancialData, RetentionInv, JobsTypeInv, TypeOK
  <2>5. ASSUME NEW t \in Txs, AnonymiseTransactionSeller(j, t) PROVE RetentionInv'
    BY <2>5, AnonymiseTransactionSellerStep
  <2>6. ASSUME RedactSellerNotifications(j) PROVE RetentionInv'
    BY <2>6, RedactSellerNotificationsStep
  <2>7. ASSUME NEW k \in Kinds, Erase(j, k) PROVE RetentionInv'
    BY <2>7, RowStep DEF Erase, RetentionInv, JobsTypeInv, TypeOK
  <2>8. ASSUME DeleteOldViewingSlotsWithViewings(j) PROVE RetentionInv'
    <3>1. CASE Erase(j, "slot")
      BY <3>1, <2>7 DEF Kinds
    <3>2. CASE UNCHANGED <<sellerVars, flags, saleVars, recordVars, job, runVars>>
               /\ others' = [others EXCEPT !["slot"] = "emptied"]
      BY <3>2, RowStep DEF RetentionInv, JobsTypeInv, TypeOK
    <3> QED
      BY <2>8, <3>1, <3>2 DEF DeleteOldViewingSlotsWithViewings
  <2> QED
    BY <1>5, <2>1, <2>2, <2>3, <2>4, <2>5, <2>6, <2>7, <2>8
       DEF RunJob, ScanSales, ScanRows, AnonymiseVerifiedViewerRecords, AnonymiseBuyerRecords,
           DeleteOldWeeklyUpdates, AnonymiseAgentRecord, Kinds
<1>6. CASE UNCHANGED vars
  BY <1>6 DEF vars, RetentionInv, JobsTypeInv, TypeOK, FlagsOnce, FlaggedOnce, ChosenAreOver,
              AnonymisedIsRedacted, StepOf, SalesOf
<1> QED
  BY <1>1, <1>2, <1>3, <1>4, <1>5, <1>6 DEF Next

-----------------------------------------------------------------------------

\* Who is made anonymous has no open sale the scan could have seen.
LEMMA StepKeepsOpen ==
  RetentionInv /\ [Next]_vars =>
    \A t \in Txs : tx[t] = "open" /\ (\A j \in Jobs : t \notin fresh[j])
       => (SellerOf[t] \in pii => SellerOf[t] \in pii')
<1> SUFFICES ASSUME RetentionInv, NEW t \in Txs, tx[t] = "open",
                    \A j \in Jobs : t \notin fresh[j],
                    NEW j \in Jobs, NEW u \in Txs, AnonymiseTransactionSeller(j, u),
                    SellerOf[t] = SellerOf[u]
             PROVE  FALSE
  BY ZenonT(40) DEF Next, vars, World, BecomeIdle, TouchSeller, WithdrawService, OpenSale, EndSale,
         PeriodPasses, Expire, StartJob, FailJob, RunJob, NextStep, ScanSales, ScanRows,
         FlagNewItems, PurgeTransactionSensitiveDocs, RedactNricFromCddRecordsBatch,
         RedactTransactionFinancialData, AnonymiseTransactionSeller, RedactSellerNotifications,
         AnonymiseVerifiedViewerRecords, AnonymiseBuyerRecords,
         DeleteOldViewingSlotsWithViewings, DeleteOldWeeklyUpdates, AnonymiseAgentRecord, Erase,
         recordVars
<1> QED
  BY DEF AnonymiseTransactionSeller, RetentionInv, ChosenAreOver, SalesOf

LEMMA JobsInvariance == Spec => []RetentionInv
BY JobsStart, JobsStepInv, PTL DEF Spec

\* The values of the rows the two jobs read and write.
THEOREM RetentionTypeCorrect == Spec => []TypeOK
<1>1. RetentionInv => TypeOK
  BY DEF RetentionInv, JobsTypeInv
<1> QED
  BY JobsInvariance, <1>1, PTL

\* No row is flagged twice, and who is anonymous is so in the notifications, but for
\* a run that ended between the two (scanRetention).
THEOREM RedactionIsSoundKept == Spec => []RedactionIsSound
<1>1. RetentionInv => RedactionIsSound
  BY DEF RetentionInv, JobsTypeInv, FlagsOnce, RedactionIsSound
<1> QED
  BY JobsInvariance, <1>1, PTL

\* A seller is not made anonymous under an open sale the query could have seen
\* (findCompletedTransactionsForAnonymisation).
THEOREM OpenSaleIsKept == Spec => OpenSaleKept
<1>1. RetentionInv /\ [Next]_vars
        => [\A t \in Txs : tx[t] = "open" /\ (\A j \in Jobs : t \notin fresh[j])
              => (SellerOf[t] \in pii => SellerOf[t] \in pii')]_vars
  BY StepKeepsOpen
<1> QED
  BY JobsInvariance, <1>1, PTL DEF Spec, OpenSaleKept
==============================================================================
