----------------------------- MODULE FileStore -----------------------------
(***************************************************************************)
(* Chat attachments: the upload handler that streams a body into a         *)
(* temporary file and registers it, the download handler, and the store    *)
(* with its byte budget, its expiry and its janitor (http/upload.rs,       *)
(* filestore.rs).  An expiry is the number of ticks left, so time is       *)
(* unbounded; the janitor sweeps at some ticks.                            *)
(*                                                                         *)
(* An upload id is a fresh ULID and a temporary path a fresh random name:  *)
(* one value of Files is both.  It is used again only when nothing refers  *)
(* to it any more.                                                         *)
(***************************************************************************)
EXTENDS Integers, FiniteSets, FiniteSetsExt

CONSTANTS
  Files,       \* uploads
  Downloads,   \* download handlers
  MaxUpload,   \* Config.max_upload_bytes
  MaxTotal,    \* Config.max_total_bytes; 0 is no budget
  FileTtl,     \* Config.ttl, in ticks
  HardCap      \* Config.ttl_hard_cap, in ticks

ASSUME FileStoreAssumption ==
  /\ {MaxUpload, MaxTotal} \subseteq Nat
  /\ {FileTtl, HardCap} \subseteq Nat \ {0} /\ FileTtl <= HardCap

VARIABLES
  onDisk,      \* the files in the working directory
  stored,      \* State.entries; NoFile when absent
  total,       \* State.total
  upload,      \* the upload handlers, by the file they write
  download,    \* the download handlers
  sweeping,    \* paths the janitor has yet to remove
  closed       \* Store::close has run

fsVars == <<onDisk, stored, total, upload, download, sweeping, closed>>

None == "none"
Expired == -1
\* left: until expires_at; cap: until created_at + ttl_hard_cap.
StoredFile == [size : Nat, left : Expired .. FileTtl, cap : Expired .. HardCap]
NoFile == [size |-> -1, left |-> Expired, cap |-> Expired]
NoUpload == [pc |-> "none", size |-> 0]
NoDownload == [pc |-> "idle", id |-> None]

FSTypeOK ==
  /\ onDisk \subseteq Files
  /\ stored \in [Files -> StoredFile \cup {NoFile}]
  /\ total \in Nat
  /\ upload \in [Files -> [pc : {"none", "started", "writing", "written", "failed"}, size : 0 .. MaxUpload + 1]]
  /\ download \in [Downloads -> [pc : {"idle", "found", "there", "opened"}, id : Files \cup {None}]]
  /\ sweeping \subseteq Files
  /\ closed \in BOOLEAN

FSInit ==
  /\ onDisk = {} /\ total = 0 /\ sweeping = {} /\ closed = FALSE
  /\ stored = [f \in Files |-> NoFile]
  /\ upload = [f \in Files |-> NoUpload]
  /\ download = [d \in Downloads |-> NoDownload]

Registered == {f \in Files : stored[f] # NoFile}

-----------------------------------------------------------------------------
(* POST /api/upload                                                         *)

UploadBegin(f) ==
  /\ upload[f].pc = "none" /\ f \notin onDisk \cup Registered \cup sweeping
  /\ \A d \in Downloads : download[d].id # f
  /\ upload' = [upload EXCEPT ![f] = [pc |-> "started", size |-> 0]]
  /\ UNCHANGED <<onDisk, stored, total, download, sweeping, closed>>

\* copy_to opens the file, unless a multipart body has no file or the working
\* directory is gone.
UploadOpen(f) ==
  /\ upload[f].pc = "started" /\ ~closed
  /\ upload' = [upload EXCEPT ![f].pc = "writing"]
  /\ onDisk' = onDisk \cup {f}
  /\ UNCHANGED <<stored, total, download, sweeping, closed>>

\* A chunk is written; `limited` lets MaxUpload + 1 bytes through and fails the
\* one that goes past.
UploadChunk(f) ==
  /\ upload[f].pc = "writing"
  /\ upload' = IF upload[f].size + 1 > MaxUpload + 1
                 THEN [upload EXCEPT ![f].pc = "failed"]
                 ELSE [upload EXCEPT ![f].size = @ + 1]
  /\ UNCHANGED <<onDisk, stored, total, download, sweeping, closed>>
UploadWritten(f) ==
  /\ upload[f].pc = "writing"
  /\ upload' = [upload EXCEPT ![f].pc = "written"]
  /\ UNCHANGED <<onDisk, stored, total, download, sweeping, closed>>
\* A bad body, a body that breaks off, or a write that fails.
UploadBroken(f) ==
  /\ upload[f].pc \in {"started", "writing"}
  /\ upload' = [upload EXCEPT ![f].pc = "failed"]
  /\ UNCHANGED <<onDisk, stored, total, download, sweeping, closed>>

\* Mutant: what is there counts, what comes does not.
OverBudgetAlready(size) == MaxTotal > 0 /\ total > MaxTotal
\* store_at: past the budget the caller keeps the file.
OverBudget(size) == MaxTotal > 0 /\ total + size > MaxTotal
\* Mutant: the cleanup of the temporary file runs on success, too.
StoreAtAndRemove(f) ==
  /\ upload[f].pc = "written"
  /\ upload' = [upload EXCEPT ![f].pc = "failed"]
  /\ IF OverBudget(upload[f].size)
       THEN UNCHANGED <<stored, total>>
       ELSE /\ stored' = [stored EXCEPT ![f] = [size |-> upload[f].size, left |-> FileTtl, cap |-> HardCap]]
            /\ total' = total + upload[f].size
  /\ UNCHANGED <<onDisk, download, sweeping, closed>>
StoreAt(f) ==
  /\ upload[f].pc = "written"
  /\ IF OverBudget(upload[f].size)
       THEN /\ upload' = [upload EXCEPT ![f].pc = "failed"]
            /\ UNCHANGED <<stored, total>>
       ELSE /\ upload' = [upload EXCEPT ![f] = NoUpload]
            /\ stored' = [stored EXCEPT ![f] = [size |-> upload[f].size, left |-> FileTtl, cap |-> HardCap]]
            /\ total' = total + upload[f].size
  /\ UNCHANGED <<onDisk, download, sweeping, closed>>

\* The handler removes the file of an upload that failed.
UploadRemove(f) ==
  /\ upload[f].pc = "failed"
  /\ onDisk' = onDisk \ {f}
  /\ upload' = [upload EXCEPT ![f] = NoUpload]
  /\ UNCHANGED <<stored, total, download, sweeping, closed>>

\* The client resets its stream, or the drain times out: the handler is
\* dropped where it waits for the body or for a write.
UploadDropped(f) ==
  /\ upload[f].pc \in {"started", "writing"}
  /\ upload' = [upload EXCEPT ![f] = NoUpload]
  /\ UNCHANGED <<onDisk, stored, total, download, sweeping, closed>>

UploadStep(f) ==
  \/ UploadBegin(f) \/ UploadOpen(f) \/ UploadChunk(f) \/ UploadWritten(f)
  \/ UploadBroken(f) \/ StoreAt(f) \/ UploadRemove(f) \/ UploadDropped(f)

-----------------------------------------------------------------------------
(* GET /api/file/{id}: the entry, then the file, then its service, then a   *)
(* longer life for the entry.                                               *)

Readable(f) == f \in Registered /\ stored[f].left >= 0

DownloadGet(d, f) ==
  /\ download[d].pc = "idle" /\ Readable(f)
  /\ download' = [download EXCEPT ![d] = [pc |-> "found", id |-> f]]
  /\ UNCHANGED <<onDisk, stored, total, upload, sweeping, closed>>
\* temp_path.exists(), then ServeFile's open: a 404 when the file is gone.
DownloadLook(d) ==
  /\ download[d].pc \in {"found", "there"}
  /\ download' = [download EXCEPT ![d] =
       IF @.id \notin onDisk THEN NoDownload
       ELSE [@ EXCEPT !.pc = IF @ = "found" THEN "there" ELSE "opened"]]
  /\ UNCHANGED <<onDisk, stored, total, upload, sweeping, closed>>

\* Mutant: the time of the request is not looked at.
ExtendedAlways(e) == [e EXCEPT !.left = Max({@, Min({FileTtl, e.cap})})]
\* touch_at: never past the hard cap, never shorter, never for what has expired.
Extended(e) == IF e.left >= 0 THEN [e EXCEPT !.left = Max({@, Min({FileTtl, e.cap})})] ELSE e
DownloadTouch(d) ==
  /\ download[d].pc = "opened"
  /\ stored' = [stored EXCEPT ![download[d].id] = Extended(@)]
  /\ download' = [download EXCEPT ![d] = NoDownload]
  /\ UNCHANGED <<onDisk, total, upload, sweeping, closed>>
DownloadDropped(d) ==
  /\ download[d].pc = "there"
  /\ download' = [download EXCEPT ![d] = NoDownload]
  /\ UNCHANGED <<onDisk, stored, total, upload, sweeping, closed>>

DownloadStep(d) ==
  \/ \E f \in Files : DownloadGet(d, f)
  \/ DownloadLook(d) \/ DownloadTouch(d) \/ DownloadDropped(d)

-----------------------------------------------------------------------------
(* The janitor, time and shutdown.                                          *)

Outdated == {f \in Registered : stored[f].left < 0}
SizeOf(set) == MapThenSumSet(LAMBDA f : stored[f].size, set)

\* sweep: entries and their bytes go under the lock, the files after it.
Sweep ==
  /\ ~closed /\ sweeping = {} /\ Outdated # {}
  /\ stored' = [f \in Files |-> IF f \in Outdated THEN NoFile ELSE stored[f]]
  /\ total' = total - SizeOf(Outdated)
  /\ sweeping' = Outdated
  /\ UNCHANGED <<onDisk, upload, download, closed>>
SweepRemove(f) ==
  /\ f \in sweeping
  /\ onDisk' = onDisk \ {f} /\ sweeping' = sweeping \ {f}
  /\ UNCHANGED <<stored, total, upload, download, closed>>

\* close: the janitor does not sweep again, the directory is removed.
Close ==
  /\ ~closed
  /\ closed' = TRUE /\ onDisk' = {}
  /\ UNCHANGED <<stored, total, upload, download, sweeping>>

FSTick ==
  /\ stored' = [f \in Files |-> [stored[f] EXCEPT !.left = Max({@ - 1, Expired}), !.cap = Max({@ - 1, Expired})]]
  /\ UNCHANGED <<onDisk, total, upload, download, sweeping, closed>>

FSNext ==
  \/ \E f \in Files : UploadStep(f) \/ SweepRemove(f)
  \/ \E d \in Downloads : DownloadStep(d)
  \/ Sweep \/ Close \/ FSTick

FSSpec == FSInit /\ [][FSNext]_fsVars

-----------------------------------------------------------------------------
(* Properties                                                               *)

\* The budget is charged and refunded exactly: total is the bytes of the entries
\* and never exceeds the budget (store_at and sweep).
TotalIsExact == total = SizeOf(Registered) /\ (MaxTotal > 0 => total <= MaxTotal)

\* An entry that reads as present has its file: the handlers and the janitor
\* remove only files no entry names (upload, get_at and sweep).
ReadableHasFile == \A f \in Files : Readable(f) /\ ~closed => f \in onDisk

StoreIsTrue == TotalIsExact /\ ReadableHasFile

\* A download that began in time never revives an entry that expired meanwhile,
\* nor carries one past its hard cap (touch_at after the file was served).
TouchIsBounded ==
  [][\A f \in Files : /\ f \in Registered /\ stored[f].left < 0 => ~Readable(f)'
                      /\ Readable(f)' => stored'[f].left <= stored'[f].cap]_fsVars

\* Stated by filestore.rs:1-4: every file is an entry's, or on its way to
\* becoming one or to being removed. Not kept: a handler that is dropped
\* while it waits for its body leaves its file.
FilesAreOwned ==
  \A f \in onDisk : f \in Registered \cup sweeping \/ upload[f].pc # "none"
=============================================================================
