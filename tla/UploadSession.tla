---------------------------- MODULE UploadSession ----------------------------
(***************************************************************************)
(* One resumable upload: its upload_sessions row, its temporary file, and  *)
(* the requests, notebook deletion and collector that work on both.        *)
(*                                                                         *)
(* The file of a session is created once, so it is one inode: it lies at   *)
(* its temporary path, or was renamed to its digest's path, or was         *)
(* removed, and a request that has it open keeps it whatever its path.     *)
(* Sizes are counted in chunks: received_bytes and next_chunk move         *)
(* together.  A digest stands for the content it is computed from.  Chunks *)
(* of one session are serialized by lockUpload; finalization, cancellation *)
(* and the collector take no lock.                                         *)
(***************************************************************************)
EXTENDS Naturals

CONSTANTS
  Requests,    \* request handlers
  Bodies,      \* chunk bodies of the right size
  BadBody,     \* a body of a wrong size
  Torn,        \* part of a chunk
  Empty,       \* past the end of the file
  NoDigest,    \* the empty digest
  Free,        \* the lock has no holder
  ChunkCount,  \* declared_bytes, in chunks
  MaxFaults    \* bound on crashes and failing writes

ASSUME BodiesAssumption == {Torn, Empty, BadBody} \cap Bodies = {} /\ Torn # Empty
ASSUME DigestAssumption == NoDigest \notin [0..(ChunkCount - 1) -> Bodies]
ASSUME FreeAssumption == Free \notin Requests
ASSUME CountAssumption == ChunkCount \in Nat \ {0} /\ MaxFaults \in Nat

VARIABLES
  status,      \* upload_sessions.status; "none" before and "gone" after the row
  next_chunk,  \* upload_sessions.next_chunk
  expected,    \* upload_sessions.expected_digest
  lapsed,      \* expires_at has passed
  outlived,    \* uploadMaxLifetime has passed
  permitted,   \* the uploader may still write to the notebook with its key
  place,       \* where the session's file is
  file,        \* its content
  moved,       \* the digest it was renamed to
  shared,      \* another upload has stored a file with the same digest
  stored,      \* finalized_digest, and the digest of the attachments row
  lock,        \* the request that holds lockUpload
  pc,          \* what each request has done
  arg,         \* what each request was sent and has read
  gc,          \* how far the collector is with this session
  promised,    \* history: chunks answered with success
  faults       \* crashes and failing writes so far

row == <<status, next_chunk, expected, lapsed, outlived>>
disk == <<place, file, moved, shared>>
vars == <<row, permitted, disk, stored, lock, pc, arg, gc, promised, faults>>

Positions == 0..(ChunkCount - 1)
Contents == [Positions -> Bodies]
Chunk == [index : 0..ChunkCount, body : Bodies \cup {BadBody}, seen : 0..ChunkCount,
          hash : Contents \cup {NoDigest}]
Blank == [index |-> 0, body |-> BadBody, seen |-> 0, hash |-> NoDigest]

-----------------------------------------------------------------------------
(* Helpers.                                                                 *)

HasRow == status \notin {"none", "gone"}

(* The owner has the session's id: its start was answered.                  *)
Known == HasRow /\ place # "none"

uploadLive == status = "pending" /\ ~lapsed /\ ~outlived

(* UPDATE upload_sessions SET status=s WHERE id=?, whatever the status is.  *)
SetStatus(s) == status' = IF HasRow THEN s ELSE status

(* Abort removes the temporary path, if the file is still there.            *)
Abort == place' = IF place = "tmp" THEN "removed" ELSE place

LockFree == lock = Free

Finish(r) ==
  /\ pc' = [pc EXCEPT ![r] = "idle"]
  /\ arg' = [arg EXCEPT ![r] = Blank]
  /\ lock' = IF lock = r THEN Free ELSE lock

Goto(r, l) == pc' = [pc EXCEPT ![r] = l]

Init ==
  /\ status = "none"
  /\ next_chunk = 0
  /\ expected = NoDigest
  /\ lapsed = FALSE
  /\ outlived = FALSE
  /\ permitted = TRUE
  /\ place = "none"
  /\ file = [i \in Positions |-> Empty]
  /\ moved = NoDigest
  /\ shared = FALSE
  /\ stored = NoDigest
  /\ lock = Free
  /\ pc = [r \in Requests |-> "idle"]
  /\ arg = [r \in Requests |-> Blank]
  /\ gc = "idle"
  /\ promised = {}
  /\ faults = 0

-----------------------------------------------------------------------------
(* POST /containers/{id}/uploads: the row is inserted in a transaction, the *)
(* file is created after it.                                                *)

Start(r, d) ==
  /\ pc[r] = "idle" /\ status = "none" /\ permitted
  /\ status' = "pending"
  /\ expected' = d
  /\ Goto(r, "starting")
  /\ UNCHANGED <<next_chunk, lapsed, outlived, permitted, disk, stored, lock, arg, gc, promised, faults>>

CreateTemp(r) ==
  /\ pc[r] = "starting"
  /\ place' = "tmp"
  /\ Finish(r)
  /\ UNCHANGED <<row, permitted, file, moved, shared, stored, gc, promised, faults>>

-----------------------------------------------------------------------------
(* PATCH /uploads/{id}: the body is read before the lock is taken.          *)

SendChunk(r, i, b) ==
  /\ pc[r] = "idle" /\ Known /\ permitted
  /\ Goto(r, "chunk")
  /\ arg' = [arg EXCEPT ![r] = [index |-> i, body |-> b, seen |-> 0, hash |-> NoDigest]]
  /\ UNCHANGED <<row, permitted, disk, stored, lock, gc, promised, faults>>

(* Under the lock the row and the permission are read again.                *)
LockChunk(r) ==
  /\ pc[r] = "chunk" /\ LockFree
  /\ permitted /\ uploadLive
  /\ lock' = r
  /\ arg' = [arg EXCEPT ![r].seen = next_chunk]
  /\ Goto(r, "locked")
  /\ UNCHANGED <<row, permitted, disk, stored, gc, promised, faults>>

RefuseChunk(r) ==
  /\ pc[r] = "chunk" /\ LockFree
  /\ ~(permitted /\ uploadLive)
  /\ Finish(r)
  /\ UNCHANGED <<row, permitted, disk, stored, gc, promised, faults>>

(* Mutant: a repeat of the last index succeeds whatever its bytes. *)
SameBytes_IndexOnly(r) == arg[r].index + 1 = arg[r].seen /\ place = "tmp"

SameBytes(r) ==
  /\ arg[r].index + 1 = arg[r].seen
  /\ place = "tmp"
  /\ file[arg[r].index] = arg[r].body

(* A repeat of the last chunk succeeds without effect, other repeats fail.  *)
RepeatChunk(r) ==
  /\ pc[r] = "locked" /\ arg[r].index < arg[r].seen
  /\ promised' = promised \cup {x \in {<<arg[r].index, arg[r].body>>} : SameBytes(r)}
  /\ Finish(r)
  /\ UNCHANGED <<row, permitted, disk, stored, gc, faults>>

SkipChunk(r) ==
  /\ pc[r] = "locked" /\ arg[r].index > arg[r].seen
  /\ Finish(r)
  /\ UNCHANGED <<row, permitted, disk, stored, gc, promised, faults>>

(* A wrong size, or more than was declared.                                 *)
Oversized(r) == arg[r].body = BadBody \/ arg[r].index = ChunkCount

DoomChunk(r) ==
  /\ pc[r] = "locked" /\ arg[r].index = arg[r].seen /\ Oversized(r)
  /\ SetStatus("failed")
  /\ Goto(r, "doomed")
  /\ UNCHANGED <<next_chunk, expected, lapsed, outlived, permitted, disk, stored, lock, arg, gc, promised, faults>>

(* The doomed session's file is removed after its status is set.            *)
DropTemp(r) ==
  /\ pc[r] = "doomed"
  /\ Abort
  /\ Finish(r)
  /\ UNCHANGED <<row, permitted, file, moved, shared, stored, gc, promised, faults>>

(* Bytes past received_bytes were never acknowledged and are dropped.       *)
Truncated(n) == [i \in Positions |-> IF i < n THEN file[i] ELSE Empty]

OpenChunk(r) ==
  /\ pc[r] = "locked" /\ arg[r].index = arg[r].seen /\ ~Oversized(r)
  /\ place = "tmp"
  /\ file' = Truncated(arg[r].seen)
  /\ Goto(r, "open")
  /\ UNCHANGED <<row, permitted, place, moved, shared, stored, lock, arg, gc, promised, faults>>

OpenFails(r) ==
  /\ pc[r] = "locked" /\ arg[r].index = arg[r].seen /\ ~Oversized(r)
  /\ place # "tmp"
  /\ Finish(r)
  /\ UNCHANGED <<row, permitted, disk, stored, gc, promised, faults>>

(* The open file is written, also when its path was removed meanwhile.      *)
WriteChunk(r) ==
  /\ pc[r] = "open"
  /\ file' = [file EXCEPT ![arg[r].index] = arg[r].body]
  /\ Goto(r, "written")
  /\ UNCHANGED <<row, permitted, place, moved, shared, stored, lock, arg, gc, promised, faults>>

ShortWrite(r) ==
  /\ pc[r] = "open" /\ faults < MaxFaults
  /\ file' = [file EXCEPT ![arg[r].index] = Torn]
  /\ SetStatus("failed")
  /\ Goto(r, "doomed")
  /\ faults' = faults + 1
  /\ UNCHANGED <<next_chunk, expected, lapsed, outlived, permitted, place, moved, shared, stored, lock, arg, gc, promised>>

(* The counters move and the expiry is refreshed, whatever the status is.   *)
CountChunk(r) ==
  /\ pc[r] = "written"
  /\ next_chunk' = next_chunk + 1
  /\ lapsed' = FALSE
  /\ promised' = promised \cup {<<arg[r].index, arg[r].body>>}
  /\ Finish(r)
  /\ UNCHANGED <<status, expected, outlived, permitted, disk, stored, gc, faults>>

CountFails(r) ==
  /\ pc[r] = "written" /\ faults < MaxFaults
  /\ faults' = faults + 1
  /\ Finish(r)
  /\ UNCHANGED <<row, permitted, disk, stored, gc, promised>>

-----------------------------------------------------------------------------
(* POST /uploads/{id}/finalize.  A session that is finalized answers again  *)
(* from its row; that changes nothing.                                      *)

(* Mutant: only the file's own size is compared with the declared one. *)
AllReceived_SizeOnly == TRUE

AllReceived == next_chunk = ChunkCount

BeginFinalize(r) ==
  /\ pc[r] = "idle" /\ Known /\ permitted
  /\ uploadLive /\ AllReceived
  /\ Goto(r, "finalizing")
  /\ UNCHANGED <<row, permitted, disk, stored, lock, arg, gc, promised, faults>>

OverQuota(r) ==
  /\ pc[r] = "finalizing"
  /\ SetStatus("failed")
  /\ Goto(r, "doomed")
  /\ UNCHANGED <<next_chunk, expected, lapsed, outlived, permitted, disk, stored, lock, arg, gc, promised, faults>>

(* The gate refuses, or the temporary file is gone.                         *)
RefuseFinalize(r) ==
  /\ pc[r] = "finalizing" /\ (~permitted \/ place # "tmp")
  /\ Finish(r)
  /\ UNCHANGED <<row, permitted, disk, stored, gc, promised, faults>>

(* Reopen hashes the file, and its size is compared with the declared one.  *)
HashFile(r) ==
  /\ pc[r] = "finalizing" /\ place = "tmp"
  /\ file \in Contents
  /\ arg' = [arg EXCEPT ![r].hash = file]
  /\ Goto(r, "hashed")
  /\ UNCHANGED <<row, permitted, disk, stored, lock, gc, promised, faults>>

(* Mutant: the client's digest is not compared. *)
DigestAgrees_Always(r) == TRUE

DigestAgrees(r) == expected \in {NoDigest, arg[r].hash}

RejectDigest(r) ==
  /\ pc[r] = "hashed" /\ ~DigestAgrees(r)
  /\ Abort
  /\ Goto(r, "failing")
  /\ UNCHANGED <<row, permitted, file, moved, shared, stored, lock, arg, gc, promised, faults>>

(* There is a file at the digest's path.                                    *)
FileAt(d) == shared \/ (place = "blob" /\ moved = d)

MoveFile(r) ==
  /\ pc[r] = "hashed" /\ DigestAgrees(r)
  /\ ~FileAt(arg[r].hash) /\ place = "tmp"
  /\ place' = "blob"
  /\ moved' = arg[r].hash
  /\ Goto(r, "moved")
  /\ UNCHANGED <<row, permitted, file, shared, stored, lock, arg, gc, promised, faults>>

(* The digest has a file, stored by a parallel finalization of this session *)
(* or by another upload of the same bytes.                                  *)
ReuseFile(r) ==
  /\ pc[r] = "hashed" /\ DigestAgrees(r)
  /\ shared' = (shared \/ ~FileAt(arg[r].hash))
  /\ Abort
  /\ Goto(r, "moved")
  /\ UNCHANGED <<row, permitted, file, moved, stored, lock, arg, gc, promised, faults>>

MoveFails(r) ==
  /\ pc[r] = "hashed" /\ DigestAgrees(r)
  /\ ~FileAt(arg[r].hash) /\ place # "tmp"
  /\ Goto(r, "failing")
  /\ UNCHANGED <<row, permitted, disk, stored, lock, arg, gc, promised, faults>>

FailSession(r) ==
  /\ pc[r] = "failing"
  /\ SetStatus("failed")
  /\ Finish(r)
  /\ UNCHANGED <<next_chunk, expected, lapsed, outlived, permitted, disk, stored, gc, promised, faults>>

CommitFinalize(r) ==
  /\ pc[r] = "moved" /\ permitted /\ FileAt(arg[r].hash)
  /\ stored' = arg[r].hash
  /\ SetStatus("finalized")
  /\ Finish(r)
  /\ UNCHANGED <<next_chunk, expected, lapsed, outlived, permitted, disk, gc, promised, faults>>

(* dropUnclaimed: a file that no row claims goes with the refusal.          *)
RefuseMoved(r) ==
  /\ pc[r] = "moved" /\ ~permitted
  /\ place' = IF place = "blob" /\ stored = NoDigest THEN "removed" ELSE place
  /\ Finish(r)
  /\ UNCHANGED <<row, permitted, file, moved, shared, stored, gc, promised, faults>>

(* claimBlob finds no file, or the transaction fails.                       *)
CommitFails(r) ==
  /\ pc[r] = "moved" /\ permitted
  /\ ~FileAt(arg[r].hash) \/ faults < MaxFaults
  /\ faults' = IF FileAt(arg[r].hash) THEN faults + 1 ELSE faults
  /\ Finish(r)
  /\ UNCHANGED <<row, permitted, disk, stored, gc, promised>>

-----------------------------------------------------------------------------
(* DELETE /uploads/{id}: the file first, then the status, whatever it is.   *)
Cancel(r) ==
  /\ pc[r] = "idle" /\ Known
  /\ Abort
  /\ Goto(r, "failing")
  /\ UNCHANGED <<row, permitted, file, moved, shared, stored, lock, arg, gc, promised, faults>>

(* The notebook is deleted, which fails its pending sessions.               *)
DeleteNotebook ==
  /\ permitted
  /\ permitted' = FALSE
  /\ status' = IF status = "pending" THEN "failed" ELSE status
  /\ UNCHANGED <<next_chunk, expected, lapsed, outlived, disk, stored, lock, pc, arg, gc, promised, faults>>

(* The uploader is removed or the notebook's key rotates.                   *)
LosePermission ==
  /\ permitted
  /\ permitted' = FALSE
  /\ UNCHANGED <<row, disk, stored, lock, pc, arg, gc, promised, faults>>

Lapse ==
  /\ status = "pending" /\ ~lapsed
  /\ lapsed' = TRUE
  /\ UNCHANGED <<status, next_chunk, expected, outlived, permitted, disk, stored, lock, pc, arg, gc, promised, faults>>

Outlive ==
  /\ status = "pending" /\ ~outlived
  /\ outlived' = TRUE
  /\ UNCHANGED <<status, next_chunk, expected, lapsed, permitted, disk, stored, lock, pc, arg, gc, promised, faults>>

-----------------------------------------------------------------------------
(* The collector lists the sessions to expire, then takes each one's file   *)
(* and sets its status, whatever it is by then.                             *)

Expirable ==
  \/ status = "pending" /\ lapsed
  \/ status = "failed" /\ stored = NoDigest

GCList ==
  /\ gc = "idle" /\ Expirable
  /\ gc' = "listed"
  /\ UNCHANGED <<row, permitted, disk, stored, lock, pc, arg, promised, faults>>

GCAbort ==
  /\ gc = "listed"
  /\ Abort
  /\ gc' = "aborted"
  /\ UNCHANGED <<row, permitted, file, moved, shared, stored, lock, pc, arg, promised, faults>>

GCExpire ==
  /\ gc = "aborted"
  /\ SetStatus("expired")
  /\ gc' = "idle"
  /\ UNCHANGED <<next_chunk, expected, lapsed, outlived, permitted, disk, stored, lock, pc, arg, promised, faults>>

(* A day later, longer than any request lasts, the row goes.                *)
GCPurge ==
  /\ gc = "idle" /\ status = "expired"
  /\ \A r \in Requests : pc[r] = "idle"
  /\ status' = "gone"
  /\ UNCHANGED <<next_chunk, expected, lapsed, outlived, permitted, disk, stored, lock, pc, arg, gc, promised, faults>>

(* The process dies, perhaps in the middle of a write.                      *)
Crash ==
  /\ faults < MaxFaults
  /\ faults' = faults + 1
  /\ file' \in {file} \cup {[file EXCEPT ![arg[r].index] = Torn] :
                              r \in {q \in Requests : pc[q] = "open"}}
  /\ pc' = [r \in Requests |-> "idle"]
  /\ arg' = [r \in Requests |-> Blank]
  /\ lock' = Free
  /\ gc' = "idle"
  /\ UNCHANGED <<row, permitted, place, moved, shared, stored, promised>>

-----------------------------------------------------------------------------
ChunkStep(r) ==
  \/ \E i \in 0..ChunkCount, b \in Bodies \cup {BadBody} : SendChunk(r, i, b)
  \/ LockChunk(r) \/ RefuseChunk(r) \/ RepeatChunk(r) \/ SkipChunk(r)
  \/ DoomChunk(r) \/ DropTemp(r)
  \/ OpenChunk(r) \/ OpenFails(r) \/ WriteChunk(r) \/ ShortWrite(r)
  \/ CountChunk(r) \/ CountFails(r)

FinalizeStep(r) ==
  \/ BeginFinalize(r) \/ OverQuota(r) \/ RefuseFinalize(r) \/ HashFile(r)
  \/ RejectDigest(r) \/ MoveFile(r) \/ ReuseFile(r) \/ MoveFails(r) \/ FailSession(r)
  \/ CommitFinalize(r) \/ RefuseMoved(r) \/ CommitFails(r)

RequestStep(r) ==
  \/ \E d \in Contents \cup {NoDigest} : Start(r, d)
  \/ CreateTemp(r) \/ Cancel(r)
  \/ ChunkStep(r) \/ FinalizeStep(r)

GCStep == GCList \/ GCAbort \/ GCExpire \/ GCPurge
WorldStep == DeleteNotebook \/ LosePermission \/ Lapse \/ Outlive \/ Crash

Next == (\E r \in Requests : RequestStep(r)) \/ GCStep \/ WorldStep

Spec == Init /\ [][Next]_vars

-----------------------------------------------------------------------------
(* The row, the file and the requests keep their shapes, and no more chunks *)
(* are counted than were declared.                                          *)
TypeOK ==
  /\ status \in {"none", "pending", "failed", "expired", "finalized", "gone"}
  /\ next_chunk \in 0..ChunkCount
  /\ expected \in Contents \cup {NoDigest}
  /\ lapsed \in BOOLEAN /\ outlived \in BOOLEAN /\ permitted \in BOOLEAN /\ shared \in BOOLEAN
  /\ place \in {"none", "tmp", "blob", "removed"}
  /\ file \in [Positions -> Bodies \cup {Torn, Empty}]
  /\ moved \in Contents \cup {NoDigest}
  /\ stored \in Contents \cup {NoDigest}
  /\ lock \in Requests \cup {Free}
  /\ pc \in [Requests -> {"idle", "starting", "chunk", "locked", "doomed", "open", "written",
                          "finalizing", "hashed", "moved", "failing"}]
  /\ arg \in [Requests -> Chunk]
  /\ gc \in {"idle", "listed", "aborted"}
  /\ promised \subseteq (Positions \X Bodies)
  /\ faults \in 0..MaxFaults

(* Every chunk whose request was answered with success, as a first delivery *)
(* or as a repeat, is counted and is in the file at its index, also after   *)
(* other bodies for that index, failed writes and crashes.                  *)
Receipts == \A p \in promised : p[1] < next_chunk /\ file[p[1]] = p[2]

(* A file that was renamed to its digest's path keeps the content that the  *)
(* digest was computed from: no chunk is still being written to it.         *)
BlobImmutable == place = "blob" => file = moved

(* "The digest is the server-side integrity contract": what is stored has   *)
(* the digest that the client announced, if it announced one.               *)
StoredAsExpected == stored # NoDigest /\ expected # NoDigest => stored = expected

(* Parts of the inductive invariant.  The lock: a request past it has read  *)
(* the present counter, and while it writes not everything is counted.      *)
LockHeld ==
  \A r \in Requests :
    /\ pc[r] \in {"locked", "open", "written"} => lock = r /\ arg[r].seen = next_chunk
    /\ pc[r] \in {"open", "written"} => /\ arg[r].index = next_chunk
                                        /\ next_chunk < ChunkCount
                                        /\ arg[r].body \in Bodies
    /\ pc[r] = "written" => file[arg[r].index] = arg[r].body

(* Counted chunks are whole.                                                *)
CountedWhole == \A i \in Positions : i < next_chunk => file[i] \in Bodies

(* Everything is counted before a file is hashed, moved or stored, and from *)
(* then on the file does not change.                                        *)
FinalContent ==
  /\ \A r \in Requests :
       /\ pc[r] \in {"finalizing", "hashed", "moved"} => next_chunk = ChunkCount
       /\ pc[r] \in {"hashed", "moved"} => arg[r].hash = file
       /\ pc[r] = "moved" => expected \in {NoDigest, file}
  /\ place = "blob" => next_chunk = ChunkCount
  /\ stored # NoDigest => next_chunk = ChunkCount /\ stored = file

(* Before the row exists nothing has happened.                              *)
NotStarted == status = "none" => next_chunk = 0 /\ \A r \in Requests : pc[r] = "idle"

UploadInv ==
  /\ TypeOK
  /\ LockHeld
  /\ CountedWhole
  /\ FinalContent
  /\ NotStarted
  /\ Receipts
  /\ BlobImmutable
  /\ StoredAsExpected

(* The counted chunks are the accepted ones of UploadPromise, and the       *)
(* session implements it.                                                   *)
Promise == INSTANCE UploadPromise WITH accepted <- Truncated(next_chunk)
PromiseKept == Promise!Spec
=============================================================================
