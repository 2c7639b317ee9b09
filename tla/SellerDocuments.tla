--------------------------- MODULE SellerDocuments ---------------------------
(***************************************************************************)
(* The documents a seller uploads for the agent                            *)
(* (src/src/domains/seller/seller-document.service.ts): an encrypted file  *)
(* and a row each.  The agent downloads them, one or all, which deletes    *)
(* the files; the seller may take one back; a daily job purges the old;    *)
(* the deletion of the account takes everything.                           *)
(*                                                                         *)
(* A handler is a request that yields at each await; todo holds the        *)
(* documents it has still to treat.  The row outlives the file of a        *)
(* document received or purged: deletedAt and downloadedAt say which.      *)
(***************************************************************************)
EXTENDS Integers, FiniteSets

CONSTANTS
  Docs,      \* identities of documents: createId never gives one twice
  Requests,  \* handlers the process may have in flight
  MaxFiles,  \* SELLER_DOC_MAX_FILES of the one type of document modelled
  NoDoc      \* no document

VARIABLES
  row,    \* none, active, claimed (deletedAt set), received (downloadedAt too), removed
  file,   \* documents whose file is on disk
  old,    \* documents uploaded before the cut-off of the purge
  closed, \* the seller's row is gone
  req,    \* the local state of each request
  got,    \* ghost: the requests that returned each document
  stray   \* ghost: documents a request left half-way, or the deletion did not see

Idle == [op |-> "idle", doc |-> NoDoc, todo |-> {}, read |-> {}]

rowVars == <<row, old, closed>>
ghosts == <<got, stray>>
docVars == <<rowVars, file, req, ghosts>>

DocOps == {"idle", "save", "create", "claimOne", "claimAll", "one", "all", "take", "back", "mark",
           "unlink", "drop", "purge", "purgeMark", "erase", "eraseFiles"}

DocTypeOK ==
  /\ row \in [Docs -> {"none", "active", "claimed", "received", "removed"}]
  /\ file \subseteq Docs /\ old \subseteq Docs /\ stray \subseteq Docs
  /\ closed \in BOOLEAN
  /\ req \in [Requests -> [op : DocOps, doc : Docs \cup {NoDoc},
                           todo : SUBSET Docs, read : SUBSET Docs]]
  /\ got \in [Docs -> SUBSET Requests]

Rows(statuses) == {d \in Docs : row[d] \in statuses}

Busy(r) == {req[r].doc} \cup req[r].todo

\* findActiveBySeller, countActiveBySellerAndDocType.
CountActive == Cardinality(Rows({"active"}))

Go(r, op) == req' = [req EXCEPT ![r].op = op]

Become(r, state) == req[r].op = "idle" /\ req' = [req EXCEPT ![r] = state]

\* The handler throws or dies at an await: what it has written stays.
Abort(r) ==
  /\ req[r].op # "idle"
  /\ stray' = stray \cup (Busy(r) \cap Docs)
  /\ req' = [req EXCEPT ![r] = Idle]
  /\ UNCHANGED <<rowVars, file, got>>

-----------------------------------------------------------------------------
(* Upload.                                                                 *)

\* The count, the type and the scan of the content (a refusal ends it here).
UploadCheck(r, d) ==
  /\ ~closed /\ CountActive < MaxFiles
  /\ row[d] = "none" /\ d \notin file /\ \A q \in Requests : req[q].doc # d
  /\ d \notin stray
  /\ Become(r, [Idle EXCEPT !.op = "save", !.doc = d])
  /\ UNCHANGED <<rowVars, file, ghosts>>

\* encryptedStorage.save: the blob is on disk before its key is wrapped.
SaveFile(r) ==
  /\ req[r].op = "save"
  /\ file' = file \cup {req[r].doc}
  /\ Go(r, "create")
  /\ UNCHANGED <<rowVars, ghosts>>

\* sellerDocRepo.create: refused (Abort) if the seller's row is gone.
CreateRow(r) ==
  /\ req[r].op = "create" /\ ~closed
  /\ row' = [row EXCEPT ![req[r].doc] = "active"]
  /\ req' = [req EXCEPT ![r] = Idle]
  /\ stray' = IF \E q \in Requests : req[q].op = "erase" THEN stray \cup {req[r].doc} ELSE stray
  /\ UNCHANGED <<old, closed, file, got>>

-----------------------------------------------------------------------------
(* Download and delete.                                                    *)

\* One update with its condition: of two claims the second finds no row.
ClaimForDownload(r, d) ==
  /\ row[d] = "active"
  /\ row' = [row EXCEPT ![d] = "claimed"]
  /\ Become(r, [Idle EXCEPT !.op = "one", !.todo = {d}])
  /\ UNCHANGED <<old, closed, file, ghosts>>

ClaimAllForDownload(r) ==
  /\ CountActive > 0
  /\ row' = [d \in Docs |-> IF row[d] = "active" THEN "claimed" ELSE row[d]]
  /\ Become(r, [Idle EXCEPT !.op = "claimAll", !.todo = Rows({"active"})])
  /\ UNCHANGED <<old, closed, file, ghosts>>

\* Deleted and not downloaded: those it claimed, those another request is about,
\* and those the purge has emptied.
FindClaimed(r) ==
  /\ req[r].op = "claimAll"
  /\ req' = [req EXCEPT ![r].op = "all", ![r].todo = Rows({"claimed"})]
  /\ stray' = stray \cup (req[r].todo \ Rows({"claimed"}))
  /\ UNCHANGED <<rowVars, file, got>>

\* encryptedStorage.read, which throws (Abort) if there is no file.
ReadFile(r, d) ==
  /\ req[r].op \in {"one", "all"} /\ req[r].doc = NoDoc
  /\ d \in req[r].todo \cap file
  /\ req' = [req EXCEPT ![r].doc = d]
  /\ UNCHANGED <<rowVars, file, ghosts>>

\* encryptedStorage.delete: of two requests with the same file the second throws.
UnlinkRead(r) ==
  /\ req[r].op \in {"one", "all"} /\ req[r].doc \in file
  /\ req[r].doc \notin req[r].read
  /\ file' = file \ {req[r].doc}
  /\ req' = [req EXCEPT ![r].read = @ \cup {req[r].doc}]
  /\ UNCHANGED <<rowVars, ghosts>>

MarkDownloadedAndDeleted(r) ==
  LET d == req[r].doc
  IN  /\ req[r].op \in {"one", "all"} /\ d \in req[r].read
      /\ row[d] \notin {"none", "removed"}
      /\ row' = [row EXCEPT ![d] = "received"]
      /\ req' = [req EXCEPT ![r].doc = NoDoc, ![r].todo = @ \ {d}]
      /\ UNCHANGED <<old, closed, file, ghosts>>

\* The answer carries all that was read, once every document has been treated.
SendDocuments(r) ==
  /\ req[r].op \in {"one", "all"} /\ req[r].todo = {}
  /\ got' = [d \in Docs |-> IF d \in req[r].read THEN got[d] \cup {r} ELSE got[d]]
  /\ req' = [req EXCEPT ![r] = Idle]
  /\ UNCHANGED <<rowVars, file, stray>>

-----------------------------------------------------------------------------
(* The seller takes a document back; the purge.                            *)

\* Not once downloadedAt is set; a claimed document may still be taken back.
TakeBack(r, d) ==
  /\ row[d] \in {"active", "claimed"}
  /\ Become(r, [Idle EXCEPT !.op = "take", !.doc = d])
  /\ UNCHANGED <<rowVars, file, ghosts>>

TakeBackFile(r) ==
  /\ req[r].op = "take" /\ req[r].doc \in file
  /\ file' = file \ {req[r].doc}
  /\ Go(r, "back")
  /\ UNCHANGED <<rowVars, ghosts>>

HardDeleteRow(r) ==
  /\ req[r].op = "back" /\ row[req[r].doc] # "removed"
  /\ row' = [row EXCEPT ![req[r].doc] = "removed"]
  /\ req' = [req EXCEPT ![r] = Idle]
  /\ UNCHANGED <<old, closed, file, ghosts>>

FindExpiredUnpurged(r) ==
  /\ old \cap Rows({"active"}) # {}
  /\ \A q \in Requests : req[q].op \notin {"purge", "purgeMark"}
  /\ Become(r, [Idle EXCEPT !.op = "purge", !.todo = old \cap Rows({"active"})])
  /\ UNCHANGED <<rowVars, file, ghosts>>

\* A file that is not there does not stop the purge.
PurgeFile(r, d) ==
  /\ req[r].op = "purge" /\ d \in req[r].todo
  /\ file' = file \ {d}
  /\ req' = [req EXCEPT ![r].op = "purgeMark", ![r].doc = d, ![r].todo = @ \ {d}]
  /\ UNCHANGED <<rowVars, ghosts>>

\* markPurged writes deletedAt alone; a row that is gone ends the run (Abort).
MarkPurged(r) ==
  LET d == req[r].doc
  IN  /\ req[r].op = "purgeMark" /\ row[d] # "removed"
      /\ row' = [row EXCEPT ![d] = IF @ = "active" THEN "claimed" ELSE @]
      /\ req' = [req EXCEPT ![r] = IF @.todo = {} THEN Idle
                                   ELSE [@ EXCEPT !.op = "purge", !.doc = NoDoc]]
      /\ UNCHANGED <<old, closed, file, ghosts>>

DaysPass(d) ==
  /\ row[d] = "active" /\ d \notin old
  /\ old' = old \cup {d}
  /\ UNCHANGED <<row, closed, file, req, ghosts>>

-----------------------------------------------------------------------------
(* The deletion of the account: deleteSellerAccount.                       *)

CollectFiles_None == {}

\* collectSellerFilePaths: those not deleted nor claimed.
CollectFiles == Rows({"active"})

DeleteSellerAccount(r) ==
  /\ ~closed
  /\ \A q \in Requests : req[q].op # "erase"
  /\ Become(r, [Idle EXCEPT !.op = "erase", !.todo = CollectFiles])
  /\ UNCHANGED <<rowVars, file, ghosts>>

HardDeleteSellerRows(r) ==
  /\ req[r].op = "erase"
  /\ closed' = TRUE
  /\ row' = [d \in Docs |-> IF row[d] = "none" THEN "none" ELSE "removed"]
  /\ Go(r, "eraseFiles")
  /\ UNCHANGED <<old, file, ghosts>>

\* One file after the other; a failure is logged and the next one is tried.
EraseFile(r, d) ==
  /\ req[r].op = "eraseFiles" /\ d \in req[r].todo
  /\ file' = file \ {d}
  /\ req' = [req EXCEPT ![r].todo = @ \ {d}]
  /\ UNCHANGED <<rowVars, ghosts>>

EraseDone(r) ==
  /\ req[r].op = "eraseFiles" /\ req[r].todo = {}
  /\ req' = [req EXCEPT ![r] = Idle]
  /\ UNCHANGED <<rowVars, file, ghosts>>

-----------------------------------------------------------------------------

DocInit ==
  /\ row = [d \in Docs |-> "none"]
  /\ file = {} /\ old = {} /\ closed = FALSE
  /\ req = [r \in Requests |-> Idle]
  /\ got = [d \in Docs |-> {}]
  /\ stray = {}

\* /seller/documents
SellerStep(r) ==
  \/ \E d \in Docs : UploadCheck(r, d) \/ TakeBack(r, d)
  \/ SaveFile(r) \/ CreateRow(r) \/ TakeBackFile(r) \/ HardDeleteRow(r)

\* /agent/sellers/:id/documents
AgentStep(r) ==
  \/ \E d \in Docs : ClaimForDownload(r, d) \/ ReadFile(r, d)
  \/ ClaimAllForDownload(r) \/ FindClaimed(r)
  \/ UnlinkRead(r) \/ MarkDownloadedAndDeleted(r) \/ SendDocuments(r)

\* The daily job, and /seller/account/delete.
EraseStep(r) ==
  \/ \E d \in Docs : PurgeFile(r, d) \/ EraseFile(r, d)
  \/ FindExpiredUnpurged(r) \/ MarkPurged(r)
  \/ DeleteSellerAccount(r) \/ HardDeleteSellerRows(r) \/ EraseDone(r)

DocNext ==
  \/ \E r \in Requests : Abort(r) \/ SellerStep(r) \/ AgentStep(r) \/ EraseStep(r)
  \/ \E d \in Docs : DaysPass(d)

DocSpec == DocInit /\ [][DocNext]_docVars

-----------------------------------------------------------------------------
(* Properties.                                                             *)

\* A document reaches one agent at most, though a download of all takes up the
\* documents a single download has claimed: the file decides.
ReceivedOnce == \A d \in Docs : Cardinality(got[d]) <= 1

\* A file on disk is that of a live row, of a request at work, or of a request
\* that ended half-way: the deletion of an account and the purge leave none.
FilesAreAccountedFor ==
  \A d \in file \ stray : row[d] = "active" \/ \E r \in Requests : d \in Busy(r)

\* Uploads counted together exceed the limit, by one each at most.
OvershootIsBounded == CountActive <= MaxFiles - 1 + Cardinality(Requests)

\* A document is received once, its file is accounted for, and the limit on the
\* documents of a kind is overshot by the uploads that race and no more.
DocumentsAreSound == DocTypeOK /\ ReceivedOnce /\ FilesAreAccountedFor /\ OvershootIsBounded
=============================================================================
