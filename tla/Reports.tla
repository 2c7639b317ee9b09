-------------------------------- MODULE Reports --------------------------------
(***************************************************************************)
(* The financial reports of one seller's flat (src/src/domains/property/   *)
(* financial.service.ts): calculated in versions, given a narrative in the *)
(* background, approved by one of two routes, and sent.  The route of the  *)
(* report itself looks at its narrative and its sending, the review queue  *)
(* (src/src/domains/review) at its status; each then writes by id.         *)
(***************************************************************************)
EXTENDS Integers, FiniteSets

CONSTANTS
  Rows,          \* rows of financial_reports there may be
  Clerks,        \* requests in flight, the narrative's background work included
  MaxNotices     \* bound: announcements of one report worth telling apart

VARIABLES
  report,        \* each row: status, version, narrative, approved (approvedAt), sent
  doing,         \* what each request is about to do, with what it read
  notices,       \* ghost: announcements sent for each report
  shared,        \* ghost: reports two requests decided on at once; "version" once
                 \* two calculations met
  broken         \* ghost: reports whose sending died between its two writes

reportsVars == <<report, doing, notices, shared, broken>>

NoRow == "none"
Quiet == [op |-> "idle", row |-> NoRow, seen |-> 0]
Doing(op, row, seen) == [op |-> op, row |-> row, seen |-> seen]

Stored == {r \in Rows : report[r].status # "none"}

ReportsInit ==
  /\ report = [r \in Rows |-> [status |-> "none", version |-> 0, narrative |-> "none",
                               approved |-> FALSE, sent |-> FALSE]]
  /\ doing = [c \in Clerks |-> Quiet]
  /\ notices = [r \in Rows |-> 0]
  /\ shared = {} /\ broken = {}

Busy(row) == \E c \in Clerks : doing[c].row = row /\ doing[c].op # "idle"

\* Request c reads `row`, or all of them for a version, and is about to do op.
Takes(c, op, row, seen) ==
  /\ doing[c] = Quiet
  /\ doing' = [doing EXCEPT ![c] = Doing(op, row, seen)]
  /\ shared' = IF Busy(row) THEN shared \cup {row} ELSE shared

Done(c) == doing' = [doing EXCEPT ![c] = Quiet]

Gives(r, row) == report' = [report EXCEPT ![r] = row]

-----------------------------------------------------------------------------
(* Calculated by the seller.                                               *)

LatestVersion ==
  IF Stored = {} THEN 0
  ELSE CHOOSE v \in {report[r].version : r \in Stored} :
         \A r \in Stored : report[r].version <= v

\* findLatestForProperty
CalculateStart(c) ==
  /\ Takes(c, "create", "version", LatestVersion)
  /\ UNCHANGED <<report, notices, broken>>

\* The answer goes out, and the request lives on for the narrative.
CreateReport(c) ==
  /\ doing[c].op = "create" /\ Stored # Rows
  /\ LET r == CHOOSE x \in Rows : x \notin Stored IN
       /\ Gives(r, [report[r] EXCEPT !.status = "draft", !.version = doing[c].seen + 1])
       /\ doing' = [doing EXCEPT ![c] = Doing("narrate", r, 0)]
  /\ UNCHANGED <<notices, shared, broken>>

\* "empty" where the AI is unavailable; any other error leaves the draft as it is.
GenerateNarrative(c) ==
  /\ doing[c].op = "narrate"
  /\ LET r == doing[c].row IN
       \/ \E n \in {"text", "empty"} :
            Gives(r, [report[r] EXCEPT !.narrative = n, !.status = "pending_review"])
       \/ UNCHANGED report
  /\ Done(c)
  /\ UNCHANGED <<notices, shared, broken>>

-----------------------------------------------------------------------------
(* Approved, or rejected.                                                  *)

ApproveReport_Resent(c, r) ==
  /\ report[r].narrative = "text"
  /\ Takes(c, "approve", r, 0)
  /\ UNCHANGED <<report, notices, broken>>

\* approveReport: the status is not asked for.
ApproveReport(c, r) ==
  /\ report[r].narrative = "text" /\ ~report[r].sent
  /\ Takes(c, "approve", r, 0)
  /\ UNCHANGED <<report, notices, broken>>

\* approveItem, rejectItem: the narrative is not asked for.
ReviewReport(c, r) ==
  /\ report[r].status = "pending_review"
  /\ \E verdict \in {"approve", "reject"} : Takes(c, verdict, r, 0)
  /\ UNCHANGED <<report, notices, broken>>

Approve(c) ==
  /\ doing[c].op = "approve"
  /\ LET r == doing[c].row IN
       Gives(r, [report[r] EXCEPT !.status = "approved", !.approved = TRUE])
  /\ Done(c)
  /\ UNCHANGED <<notices, shared, broken>>

\* approvedAt stays what it was.
Reject(c) ==
  /\ doing[c].op = "reject"
  /\ LET r == doing[c].row IN Gives(r, [report[r] EXCEPT !.status = "rejected"])
  /\ Done(c)
  /\ UNCHANGED <<notices, shared, broken>>

-----------------------------------------------------------------------------
(* Sent.                                                                   *)

SendReport(c, r) ==
  /\ report[r].approved /\ ~report[r].sent
  /\ Takes(c, "announce", r, 0)
  /\ UNCHANGED <<report, notices, broken>>

Announce(c) ==
  /\ doing[c].op = "announce"
  /\ LET r == doing[c].row IN
       /\ notices' = [notices EXCEPT ![r] = IF @ < MaxNotices THEN @ + 1 ELSE @]
       /\ doing' = [doing EXCEPT ![c] = Doing("mark", r, 0)]
  /\ UNCHANGED <<report, shared, broken>>

MarkSent(c) ==
  /\ doing[c].op = "mark"
  /\ LET r == doing[c].row IN
       Gives(r, [report[r] EXCEPT !.status = "sent", !.sent = TRUE])
  /\ Done(c)
  /\ UNCHANGED <<notices, shared, broken>>

\* A request fails, or its process stops, before its next write.
Dies(c) ==
  /\ doing[c] # Quiet
  /\ broken' = IF doing[c].op = "mark" THEN broken \cup {doing[c].row} ELSE broken
  /\ Done(c)
  /\ UNCHANGED <<report, notices, shared>>

ReportsNext ==
  \E c \in Clerks :
    \/ CalculateStart(c) \/ CreateReport(c) \/ GenerateNarrative(c)
    \/ Approve(c) \/ Reject(c) \/ Announce(c) \/ MarkSent(c) \/ Dies(c)
    \/ \E r \in Rows : ApproveReport(c, r) \/ ReviewReport(c, r) \/ SendReport(c, r)

ReportsSpec == ReportsInit /\ [][ReportsNext]_reportsVars

-----------------------------------------------------------------------------
(* Properties                                                              *)

ReportsTypeOK ==
  /\ report \in [Rows -> [status : {"none", "draft", "pending_review", "approved",
                                    "rejected", "sent"},
                          version : 0..Cardinality(Rows),
                          narrative : {"none", "empty", "text"},
                          approved : BOOLEAN, sent : BOOLEAN]]
  /\ shared \subseteq Rows \cup {"version"} /\ broken \subseteq Rows

\* findApprovedForSeller: the list on the seller's page.  (By its id, which his
\* calculation answered him with, he can read any report of his: getReportForSeller.)
ListedForSeller == {r \in Rows : report[r].status \in {"approved", "sent"}}

\* However the two routes to an approval, the narrative and the sending interleave, the
\* seller's page lists, and he is told of, no report that was never approved, and lists
\* every report sent unless two agents decided on it at once.  A report decided on by
\* one request at a time is announced once, unless its sending died before it was
\* marked, never while it stands rejected, and what was sent stays sent.  Versions
\* repeat only where two calculations met.
ReportsAreSound ==
  /\ ReportsTypeOK
  /\ \A r \in Rows :
       /\ r \in ListedForSeller \/ notices[r] > 0 => report[r].approved
       /\ report[r].approved => report[r].narrative # "none"
       /\ report[r].sent => notices[r] > 0
       /\ r \notin shared =>
            /\ report[r].sent => report[r].status = "sent"
            /\ notices[r] > 0 => report[r].status # "rejected"
            /\ notices[r] > 1 => r \in broken
  /\ "version" \notin shared =>
       \A r, s \in Stored : r # s => report[r].version # report[s].version
=============================================================================
