-------------------------------- MODULE HdbSync --------------------------------
(***************************************************************************)
(* The copy of the government's resale transactions                        *)
(* (src/src/domains/hdb/sync.service.ts): every Sunday, or when an admin   *)
(* asks, the months after the latest one held are fetched page by page,    *)
(* newest month first, from a dataset that goes on growing meanwhile.      *)
(***************************************************************************)
EXTENDS Integers, FiniteSets

CONSTANTS
  Records,       \* transactions: pairs of a month and a number of the dataset
  Seeded,        \* those of them the CSV seed loaded
  PageSize,      \* PAGE_SIZE: 10000 in the code
  MaxRetries,    \* MAX_RETRIES: 5 in the code
  Syncs          \* executions: the job skips itself, an admin's run beside it

VARIABLES
  published,     \* the dataset at data.gov.sg
  held,          \* the rows of hdb_transactions
  sync,          \* each execution
  promised,      \* ghost: what each had to fetch when it started
  cut            \* ghost: the months of which an answer to it held some records only

syncVars == <<published, held, sync, promised, cut>>

Month(r) == r[1]

\* What the loop knows is forgotten when it ends.
Ended(outcome) == [at |-> outcome, latest |-> 0, offset |-> 0, tries |-> 0]
Asleep == Ended("idle")

HdbSyncInit ==
  /\ published = Seeded /\ held = Seeded
  /\ sync = [s \in Syncs |-> Asleep]
  /\ promised = [s \in Syncs |-> {}] /\ cut = [s \in Syncs |-> {}]

\* sort: month desc, and nothing else: the first n records of some such order.
Firsts(n) ==
  {A \in SUBSET published :
     /\ Cardinality(A) = IF n < Cardinality(published) THEN n ELSE Cardinality(published)
     /\ \A r \in A, q \in published \ A : Month(r) >= Month(q)}

\* The answers to one request; the next may order the records of a month anew.
Pages(offset) ==
  {pq[2] \ pq[1] : pq \in {ab \in Firsts(offset) \X Firsts(offset + PageSize) : ab[1] \subseteq ab[2]}}

CutBy(page) == {Month(r) : r \in page} \cap {Month(r) : r \in published \ page}

Publish(r) ==
  /\ r \notin published /\ published' = published \cup {r}
  /\ UNCHANGED <<held, sync, promised, cut>>

\* getLatestMonth
LatestMonth == CHOOSE m \in {Month(r) : r \in held} : \A r \in held : Month(r) <= m

\* Without a seed there is nothing to begin from: a success that fetched nothing.
SyncStart(s) ==
  /\ sync[s].at \in {"idle", "success", "failed"}
  /\ IF held = {}
     THEN /\ sync' = [sync EXCEPT ![s] = Ended("success")]
          /\ promised' = [promised EXCEPT ![s] = {}]
     ELSE /\ sync' = [sync EXCEPT ![s] = [at |-> "fetch", latest |-> LatestMonth,
                                          offset |-> 0, tries |-> 0]]
          /\ promised' = [promised EXCEPT ![s] = {r \in published : Month(r) > LatestMonth}]
  /\ cut' = [cut EXCEPT ![s] = {}]
  /\ UNCHANGED <<published, held>>

HasMore_Short(offset) == offset + PageSize < Cardinality(published)

\* hasMore = offset < total, once offset went on by a page
HasMore(offset) == offset < Cardinality(published)

\* One answer: its new records are inserted, those held already skipped.
FetchPage(s) ==
  /\ sync[s].at = "fetch"
  /\ \E page \in Pages(sync[s].offset) :
     LET new == {r \in page : Month(r) > sync[s].latest}
         next == sync[s].offset + PageSize IN
       /\ held' = held \cup new
       /\ cut' = [cut EXCEPT ![s] = @ \cup CutBy(page)]
       /\ sync' = [sync EXCEPT ![s] =
                     IF new # {} /\ HasMore(next)
                     THEN [@ EXCEPT !.offset = next, !.tries = 0] ELSE Ended("success")]
  /\ UNCHANGED <<published, promised>>

\* A rate limit or the network: waited out, up to the limit.
RetryFetch(s) ==
  /\ sync[s].at = "fetch" /\ sync[s].tries + 1 < MaxRetries
  /\ sync' = [sync EXCEPT ![s].tries = @ + 1]
  /\ UNCHANGED <<published, held, promised, cut>>

\* The limit reached, another error, or the insertion itself: what came stays.
SyncFails(s) ==
  /\ sync[s].at = "fetch"
  /\ sync' = [sync EXCEPT ![s] = Ended("failed")]
  /\ promised' = [promised EXCEPT ![s] = {}] /\ cut' = [cut EXCEPT ![s] = {}]
  /\ UNCHANGED <<published, held>>

\* The process restarts: no log says how it ended.
SyncStops(s) ==
  /\ sync[s].at = "fetch"
  /\ sync' = [sync EXCEPT ![s] = Asleep]
  /\ promised' = [promised EXCEPT ![s] = {}] /\ cut' = [cut EXCEPT ![s] = {}]
  /\ UNCHANGED <<published, held>>

HdbSyncNext ==
  \/ \E r \in Records : Publish(r)
  \/ \E s \in Syncs :
       \/ SyncStart(s) \/ FetchPage(s) \/ RetryFetch(s) \/ SyncFails(s) \/ SyncStops(s)

HdbSyncSpec == HdbSyncInit /\ [][HdbSyncNext]_syncVars

-----------------------------------------------------------------------------
(* Properties                                                              *)

HdbSyncTypeOK ==
  /\ held \subseteq published /\ published \subseteq Records
  /\ sync \in [Syncs -> [at : {"idle", "fetch", "success", "failed"},
                         latest : {Month(r) : r \in Records} \cup {0},
                         offset : 0..(Cardinality(Records) + PageSize),
                         tries : 0..(MaxRetries - 1)]]

\* A run that logged a success holds every record of the months after the latest one
\* held that was published when it started, whatever was published between two pages,
\* whatever was retried, and whichever other run inserted meanwhile: but for a month
\* that a page was cut in, whose records two requests may order differently, so that
\* one of them comes twice and another never.
SyncFetchesAll ==
  /\ HdbSyncTypeOK
  /\ \A s \in Syncs : sync[s].at = "success" =>
       \A r \in promised[s] : r \in held \/ Month(r) \in cut[s]
=============================================================================
