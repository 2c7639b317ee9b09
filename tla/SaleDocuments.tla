---------------------------- MODULE SaleDocuments ----------------------------
(***************************************************************************)
(* The papers of one sale: the two scans of the OTP, the commission's      *)
(* invoice and the identity documents of the seller's due diligence        *)
(* (transaction.service.ts, compliance.service.ts and                      *)
(* compliance.router.ts, under src/src/domains).  Each is a path in a row  *)
(* and a file on disk; they go when the agent downloads them, when the     *)
(* submission to Huttons is confirmed, or seven days after completion.     *)
(*                                                                         *)
(* A handler is a request that yields at each await; todo holds the files  *)
(* it has still to delete, seen what it has read of the rows.  No          *)
(* transaction holds a path and its file together, and none locks a row    *)
(* before it writes it: what another writes between a read of documents    *)
(* and the write of the whole list is overwritten.  The list is held as a  *)
(* set; a record of a counterparty goes as the seller's does and is left   *)
(* out.                                                                    *)
(***************************************************************************)
EXTENDS Integers, FiniteSets

CONSTANTS
  Papers,    \* identities of files: createId never gives one twice
  Requests,  \* handlers the process may have in flight
  MaxCdd,    \* MAX_CDD_DOCUMENTS
  NoPaper    \* no file, or no path

Slots == {"seller", "returned", "invoice"}
Kinds == Slots \cup {"cdd"}

VARIABLES
  path,      \* scannedCopyPathSeller, scannedCopyPathReturned, invoiceFilePath
  invoiced,  \* the sale has its row of commission_invoices
  cdd,       \* the paths in documents of the seller's CDD record
  disk,      \* files on disk
  kind,      \* what each file was written as: none yet
  sale,      \* the sale: open, completed, due (seven days on)
  handed,    \* huttonsSubmittedAt
  rooted,    \* the deployment: UPLOADS_DIR is the working directory
  work,      \* the local state of each request
  lost       \* ghost: files whose path was overwritten unread, or whose write is torn

Rest == [op |-> "idle", slot |-> "none", todo |-> {}, seen |-> {}, paper |-> NoPaper]

saleVars == <<sale, handed, rooted>>
pathVars == <<path, invoiced, cdd>>
fileVars == <<disk, kind>>
paperVars == <<pathVars, fileVars, saleVars, work, lost>>

Ops == {"idle", "save", "scan", "addInvoice", "addCdd", "cddAdd", "cddFile", "cddRow",
        "cddRemove", "hand", "purge", "purgeOtp", "purgeInvoice", "purgeCdd", "files",
        "sending", "mark"}

Written == {p \in Papers : kind[p] # "none"}

PaperTypeOK ==
  /\ path \in [Slots -> Papers \cup {NoPaper}]
  /\ kind \in [Papers -> Kinds \cup {"none"}]
  /\ cdd \subseteq Papers /\ disk \subseteq Written /\ lost \subseteq Papers
  /\ sale \in {"open", "completed", "due"}
  /\ path["invoice"] # NoPaper => invoiced
  /\ invoiced \in BOOLEAN /\ handed \in BOOLEAN /\ rooted \in BOOLEAN
  /\ work \in [Requests -> [op : Ops, slot : Kinds \cup {"none"}, todo : SUBSET Papers,
                            seen : SUBSET Papers, paper : Papers \cup {NoPaper}]]

Known == ({path[s] : s \in Slots} \cup cdd) \ {NoPaper}

Held(r) == work[r].todo \cup ({work[r].paper} \ {NoPaper})

Start(r, state) == work[r].op = "idle" /\ work' = [work EXCEPT ![r] = state]

\* A purge that has written a row holds it until it commits: another write waits.
OtpLocked == \E r \in Requests : work[r].op \in {"purgeInvoice", "purgeCdd"}

InvoiceLocked == \E r \in Requests : work[r].op = "purgeCdd" /\ path["invoice"] \in work[r].seen

Step(r, op) == work' = [work EXCEPT ![r].op = op]

End(r) == work' = [work EXCEPT ![r] = Rest]

\* The handler throws or dies at an await: what it has written stays, a database
\* transaction it is in is rolled back.
Drop(r) ==
  /\ work[r].op # "idle"
  /\ lost' = lost \cup Held(r)
  /\ End(r)
  /\ UNCHANGED <<pathVars, fileVars, saleVars>>

-----------------------------------------------------------------------------
(* Uploads.                                                                *)

\* uploadOtpScan: any status of the OTP, any number of times.
UploadOtpScan(r, slot) ==
  /\ slot # "invoice"
  /\ Start(r, [Rest EXCEPT !.op = "save", !.slot = slot])
  /\ UNCHANGED <<pathVars, fileVars, saleVars, lost>>

UploadInvoice(r) ==
  /\ ~invoiced
  /\ Start(r, [Rest EXCEPT !.op = "save", !.slot = "invoice"])
  /\ UNCHANGED <<pathVars, fileVars, saleVars, lost>>

UploadCddDocument(r) ==
  /\ Cardinality(cdd) < MaxCdd
  /\ Start(r, [Rest EXCEPT !.op = "save", !.slot = "cdd"])
  /\ UNCHANGED <<pathVars, fileVars, saleVars, lost>>

\* encryptedStorage.save, under a name of its own.
SaveBlob(r, p) ==
  /\ work[r].op = "save" /\ kind[p] = "none"
  /\ disk' = disk \cup {p}
  /\ kind' = [kind EXCEPT ![p] = work[r].slot]
  /\ work' = [work EXCEPT ![r].paper = p,
                          ![r].op = CASE work[r].slot = "cdd" -> "addCdd"
                                      [] work[r].slot = "invoice" -> "addInvoice"
                                      [] OTHER -> "scan"]
  /\ UNCHANGED <<pathVars, saleVars, lost>>

\* The path of an earlier scan is overwritten; its file stays.
UpdateOtpScanPath(r) ==
  /\ work[r].op = "scan" /\ ~OtpLocked
  /\ path' = [path EXCEPT ![work[r].slot] = work[r].paper]
  /\ lost' = lost \cup ({path[work[r].slot]} \ {NoPaper})
  /\ End(r)
  /\ UNCHANGED <<invoiced, cdd, fileVars, saleVars>>

\* The transaction's id is unique among invoices: of two creations one throws (Drop).
CreateCommissionInvoice(r) ==
  /\ work[r].op = "addInvoice" /\ ~invoiced
  /\ path' = [path EXCEPT !["invoice"] = work[r].paper]
  /\ invoiced' = TRUE
  /\ End(r)
  /\ UNCHANGED <<cdd, fileVars, saleVars, lost>>

\* addCddDocument reads the list in a database transaction that takes no lock ...
ReadToAdd(r) ==
  /\ work[r].op = "addCdd"
  /\ work' = [work EXCEPT ![r].op = "cddAdd", ![r].seen = cdd]
  /\ UNCHANGED <<pathVars, fileVars, saleVars, lost>>

\* ... and writes all of it: what another has added meanwhile is gone from it.
AddCddDocument(r) ==
  /\ work[r].op = "cddAdd"
  /\ cdd' = work[r].seen \cup {work[r].paper}
  /\ lost' = lost \cup (cdd \ work[r].seen)
  /\ End(r)
  /\ UNCHANGED <<path, invoiced, fileVars, saleVars>>

-----------------------------------------------------------------------------
(* deleteCddDocument: the file, then the path.                             *)

DeleteCddDocument(r, p) ==
  /\ p \in cdd
  /\ Start(r, [Rest EXCEPT !.op = "cddFile", !.paper = p])
  /\ UNCHANGED <<pathVars, fileVars, saleVars, lost>>

DeleteCddFile(r) ==
  /\ work[r].op = "cddFile" /\ work[r].paper \in disk
  /\ disk' = disk \ {work[r].paper}
  /\ Step(r, "cddRow")
  /\ UNCHANGED <<pathVars, kind, saleVars, lost>>

\* removeCddDocument reads the list likewise, and writes none without the document.
ReadToRemove(r) ==
  /\ work[r].op = "cddRow"
  /\ work' = [work EXCEPT ![r] = IF work[r].paper \in cdd
                                  THEN [@ EXCEPT !.op = "cddRemove", !.seen = cdd] ELSE Rest]
  /\ UNCHANGED <<pathVars, fileVars, saleVars, lost>>

RemoveCddDocument(r) ==
  /\ work[r].op = "cddRemove"
  /\ cdd' = work[r].seen \ {work[r].paper}
  /\ lost' = lost \cup (cdd \ work[r].seen)
  /\ End(r)
  /\ UNCHANGED <<path, invoiced, fileVars, saleVars>>

-----------------------------------------------------------------------------
(* The purge, by the job or by the confirmation of the handoff.            *)

HasPapers == \E s \in Slots : path[s] # NoPaper

FindCompletedTransactionsForDocPurge(r) ==
  /\ sale = "due" /\ HasPapers
  /\ Start(r, [Rest EXCEPT !.op = "purge"])
  /\ UNCHANGED <<pathVars, fileVars, saleVars, lost>>

ConfirmHuttonsSubmission(r) ==
  /\ sale # "open" /\ ~handed
  /\ Start(r, [Rest EXCEPT !.op = "hand"])
  /\ UNCHANGED <<pathVars, fileVars, saleVars, lost>>

ConfirmHuttonsHandoff(r) ==
  /\ work[r].op = "hand"
  /\ handed' = TRUE
  /\ Step(r, "purge")
  /\ UNCHANGED <<pathVars, fileVars, sale, rooted, lost>>

\* purgeTransactionSensitiveDocs is one database transaction: it reads the paths of
\* the option, ...
ReadOtp(r) ==
  /\ work[r].op = "purge"
  /\ work' = [work EXCEPT ![r].op = "purgeOtp",
                          ![r].seen = {path["seller"], path["returned"]} \ {NoPaper}]
  /\ UNCHANGED <<pathVars, fileVars, saleVars, lost>>

\* ... clears both and reads the path of the invoice, ...
ReadInvoice(r) ==
  /\ work[r].op = "purgeOtp" /\ ~OtpLocked
  /\ work' = [work EXCEPT ![r].op = "purgeInvoice", ![r].seen = @ \cup ({path["invoice"]} \ {NoPaper})]
  /\ UNCHANGED <<pathVars, fileVars, saleVars, lost>>

\* ... clears it if there is one and reads the documents of the due diligence, ...
ReadCdd(r) ==
  /\ work[r].op = "purgeInvoice"
  /\ work' = [work EXCEPT ![r].op = "purgeCdd", ![r].seen = @ \cup cdd]
  /\ UNCHANGED <<pathVars, fileVars, saleVars, lost>>

Purged(r) == [s \in Slots |-> IF s # "invoice" \/ path[s] \in work[r].seen THEN NoPaper ELSE path[s]]

PurgeTransactionSensitiveDocs_AfterQuery(r) ==
  /\ work[r].op = "purgeCdd"
  /\ work' = [work EXCEPT ![r].op = "files", ![r].seen = {},
                          ![r].todo = {p \in work[r].seen : kind[p] \in Slots}]
  /\ path' = Purged(r)
  /\ cdd' = {}
  /\ lost' = lost \cup (({path["seller"], path["returned"]} \cup cdd) \ (work[r].seen \cup {NoPaper}))
  /\ UNCHANGED <<invoiced, fileVars, saleVars>>

\* ... which it empties, and commits.  What has been written since it read is cleared
\* with the rest, and its file is not among those to delete ...
PurgeTransactionSensitiveDocs(r) ==
  /\ work[r].op = "purgeCdd"
  /\ work' = [work EXCEPT ![r].op = "files", ![r].seen = {}, ![r].todo = work[r].seen]
  /\ path' = Purged(r)
  /\ cdd' = {}
  /\ lost' = lost \cup (({path["seller"], path["returned"]} \cup cdd) \ (work[r].seen \cup {NoPaper}))
  /\ UNCHANGED <<invoiced, fileVars, saleVars>>

\* ... and the files go one by one, one that is not there passed over.
PurgeFile(r, p) ==
  /\ work[r].op = "files" /\ p \in work[r].todo
  /\ disk' = disk \ {p}
  /\ work' = [work EXCEPT ![r] = IF @.todo = {p} THEN Rest ELSE [work[r] EXCEPT !.todo = work[r].todo \ {p}]]
  /\ UNCHANGED <<pathVars, kind, saleVars, lost>>

PurgeNothing(r) ==
  /\ work[r].op = "files" /\ work[r].todo = {}
  /\ End(r)
  /\ UNCHANGED <<pathVars, fileVars, saleVars, lost>>

-----------------------------------------------------------------------------
(* Download and delete.                                                    *)

\* The seller's copy, or else the returned one.
OtpPath == IF path["seller"] # NoPaper THEN path["seller"] ELSE path["returned"]

\* The paths are relative to UPLOADS_DIR, the handlers resolve them against the
\* working directory: unless they are one, no file is found.
Accessible(ps) == rooted /\ ps \subseteq disk

DocTypes == {"otp", "invoice", "cdd"}

\* The file of a type of document; one of those in the CDD record.
FilesOf(docType) ==
  CASE docType = "otp"     -> {OtpPath} \ {NoPaper}
    [] docType = "invoice" -> {path["invoice"]} \ {NoPaper}
    [] docType = "cdd"     -> cdd

\* The document sent, which is deleted when it has been sent.
DownloadAndDelete(r, docType) ==
  /\ sale # "open"
  /\ \E p \in FilesOf(docType) :
       Accessible({p}) /\ Start(r, [Rest EXCEPT !.op = "sending", !.todo = {p}])
  /\ UNCHANGED <<pathVars, fileVars, saleVars, lost>>

\* All of them in one archive, if all are there.
DownloadAllAndDelete(r) ==
  LET ps == UNION {FilesOf(docType) : docType \in DocTypes}
  IN  /\ sale # "open"
      /\ ps # {} /\ Accessible(ps)
      /\ Start(r, [Rest EXCEPT !.op = "sending", !.todo = ps])
      /\ UNCHANGED <<pathVars, fileVars, saleVars, lost>>

\* A file that is gone is passed over, and so is what its row says.
UnlinkSent(r, p) ==
  /\ work[r].op = "sending" /\ p \in work[r].todo
  /\ disk' = disk \ {p}
  /\ work' = [work EXCEPT ![r] =
       CASE p \in disk -> [work[r] EXCEPT !.op = "mark", !.todo = work[r].todo \ {p}, !.paper = p]
         [] p \notin disk /\ @.todo = {p} -> Rest
         [] OTHER -> [work[r] EXCEPT !.todo = work[r].todo \ {p}]]
  /\ UNCHANGED <<pathVars, kind, saleVars, lost>>

\* markOtpScannedCopyDeleted, by the id of the option: both paths go, whichever copy
\* was sent and whatever has been uploaded since.
MarkOtpScannedCopyDeleted(p) ==
  /\ ~OtpLocked
  /\ path' = [path EXCEPT !["seller"] = NoPaper, !["returned"] = NoPaper]
  /\ lost' = lost \cup ({path["seller"], path["returned"]} \ {NoPaper, p})

MarkInvoiceDeleted(p) ==
  /\ ~InvoiceLocked
  /\ path' = [path EXCEPT !["invoice"] = NoPaper]
  /\ lost' = lost \cup ({path["invoice"]} \ {NoPaper, p})

\* By the type of the document sent; the CDD record keeps its path.
MarkSent(r) ==
  LET p == work[r].paper
  IN  /\ work[r].op = "mark"
      /\ CASE kind[p] \in {"seller", "returned"} -> MarkOtpScannedCopyDeleted(p)
           [] kind[p] = "invoice" -> MarkInvoiceDeleted(p)
           [] OTHER -> UNCHANGED <<path, lost>>
      /\ work' = [work EXCEPT ![r] = IF @.todo = {} THEN Rest
                                     ELSE [@ EXCEPT !.op = "sending", !.paper = NoPaper]]
      /\ UNCHANGED <<invoiced, cdd, fileVars, saleVars>>

-----------------------------------------------------------------------------

\* Completion, and the seven days after it.
TimePasses ==
  /\ sale # "due"
  /\ sale' = IF sale = "open" THEN "completed" ELSE "due"
  /\ UNCHANGED <<pathVars, fileVars, handed, rooted, work, lost>>

PaperInit ==
  /\ path = [s \in Slots |-> NoPaper]
  /\ invoiced = FALSE /\ cdd = {} /\ disk = {} /\ kind = [p \in Papers |-> "none"]
  /\ sale = "open" /\ handed = FALSE /\ rooted \in BOOLEAN
  /\ work = [r \in Requests |-> Rest]
  /\ lost = {}

\* The scans of the option and the invoice.
UploadStep(r) ==
  \/ \E slot \in Slots : UploadOtpScan(r, slot)
  \/ UploadInvoice(r)
  \/ \E p \in Papers : SaveBlob(r, p)
  \/ UpdateOtpScanPath(r) \/ CreateCommissionInvoice(r)

\* /agent/cdd-records/:cddRecordId/documents
CddStep(r) ==
  \/ UploadCddDocument(r) \/ ReadToAdd(r) \/ AddCddDocument(r)
  \/ \E p \in Papers : DeleteCddDocument(r, p)
  \/ DeleteCddFile(r) \/ ReadToRemove(r) \/ RemoveCddDocument(r)

\* The daily job and the hand-off, which purge alike.
PurgeStep(r) ==
  \/ FindCompletedTransactionsForDocPurge(r) \/ ConfirmHuttonsSubmission(r)
  \/ \E p \in Papers : PurgeFile(r, p)
  \/ ConfirmHuttonsHandoff(r) \/ ReadOtp(r) \/ ReadInvoice(r) \/ ReadCdd(r)
  \/ PurgeTransactionSensitiveDocs(r) \/ PurgeNothing(r)

\* /agent/transactions/:transactionId/documents
DownloadStep(r) ==
  \/ \E docType \in DocTypes : DownloadAndDelete(r, docType)
  \/ \E p \in Papers : UnlinkSent(r, p)
  \/ DownloadAllAndDelete(r) \/ MarkSent(r)

PaperNext ==
  \/ TimePasses
  \/ \E r \in Requests : Drop(r) \/ UploadStep(r) \/ CddStep(r) \/ PurgeStep(r) \/ DownloadStep(r)

PaperSpec == PaperInit /\ [][PaperNext]_paperVars

-----------------------------------------------------------------------------
(* Properties.                                                             *)

\* A file on disk is known to a row or to a request at work, unless a write was
\* torn, or overwrote a path its request had not read: a scan replaced or uploaded
\* while another is marked or purged, a list of documents written back whole.
PapersAreAccountedFor ==
  disk \subseteq Known \cup lost \cup UNION {Held(r) : r \in Requests}

\* The row of a scan or of an invoice whose file is gone is about to say so,
\* unless the request that deleted the file ended there.
PathsHaveFiles ==
  \A s \in Slots : path[s] \notin {NoPaper} \cup disk \cup lost
                     => \E r \in Requests : path[s] \in Held(r)

\* The papers of a sale: a file on disk has its row, and a row its file.
PapersAreSound == PaperTypeOK /\ PapersAreAccountedFor /\ PathsHaveFiles
=============================================================================
