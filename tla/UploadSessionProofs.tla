------------------------- MODULE UploadSessionProofs -------------------------
(***************************************************************************)
(* Proofs about UploadSession, for any number of requests, chunks, bodies  *)
(* and faults: UploadInv is inductive, and the session implements          *)
(* UploadPromise.                                                          *)
(***************************************************************************)
EXTENDS UploadSession, TLAPS

(* There is a first position.                                               *)
LEMMA PositionFacts ==
  /\ ChunkCount \in Nat /\ ChunkCount > 0
  /\ Positions \subseteq Nat
  /\ \A i \in Nat : i < ChunkCount => i \in Positions
  /\ \A i \in Positions : i < ChunkCount
  BY CountAssumption DEF Positions

(* Special values are no bodies.                                            *)
LEMMA BodyFacts == Torn \notin Bodies /\ Empty \notin Bodies /\ BadBody \notin Bodies
  BY BodiesAssumption

(* A digest is not the empty one.                                           *)
LEMMA DigestFacts == NoDigest \notin Contents
  BY DigestAssumption DEF Contents, Positions

LEMMA BlankType == Blank \in Chunk
  BY PositionFacts DEF Blank, Chunk

-----------------------------------------------------------------------------
(* The initial state satisfies the inductive invariant. *)
LEMMA InvInit == Init => UploadInv
  <1> SUFFICES ASSUME Init PROVE UploadInv
    OBVIOUS
  <1>1. TypeOK
    <2>1. next_chunk \in 0..ChunkCount /\ faults \in 0..MaxFaults
      BY PositionFacts, CountAssumption DEF Init
    <2>2. /\ pc \in [Requests -> {"idle", "starting", "chunk", "locked", "doomed", "open", "written",
                                  "finalizing", "hashed", "moved", "failing"}]
          /\ arg \in [Requests -> Chunk]
          /\ file \in [Positions -> Bodies \cup {Torn, Empty}]
      BY BlankType DEF Init
    <2> QED BY <2>1, <2>2 DEF Init, TypeOK
  <1>2. LockHeld /\ FinalContent /\ NotStarted
    BY PositionFacts DEF Init, LockHeld, FinalContent, NotStarted
  <1>3. CountedWhole /\ Receipts /\ BlobImmutable /\ StoredAsExpected
    BY PositionFacts DEF Init, CountedWhole, Receipts, BlobImmutable, StoredAsExpected
  <1> QED BY <1>1, <1>2, <1>3 DEF UploadInv

-----------------------------------------------------------------------------
(* Types.                                                                   *)

(* Finish and Goto keep the types of what they assign.                      *)
LEMMA FinishType ==
  ASSUME TypeOK, NEW r \in Requests, Finish(r)
  PROVE  /\ pc' \in [Requests -> {"idle", "starting", "chunk", "locked", "doomed", "open", "written",
                                  "finalizing", "hashed", "moved", "failing"}]
         /\ arg' \in [Requests -> Chunk]
         /\ lock' \in Requests \cup {Free}
  BY BlankType DEF TypeOK, Finish

(* Every step of a request before its file is hashed keeps the types.       *)
LEMMA ChunkType ==
  ASSUME UploadInv, NEW r \in Requests, ChunkStep(r)
  PROVE  TypeOK'
  <1> USE DEF UploadInv, SetStatus, Abort, Goto, row, disk
  <1>1. ASSUME NEW i \in 0..ChunkCount, NEW b \in Bodies \cup {BadBody}, SendChunk(r, i, b)
        PROVE  TypeOK'
    <2>1. [index |-> i, body |-> b, seen |-> 0, hash |-> NoDigest] \in Chunk
      BY PositionFacts DEF Chunk
    <2> QED BY <1>1, <2>1 DEF SendChunk, TypeOK
  <1>2. CASE LockChunk(r)
    <2>1. [arg[r] EXCEPT !.seen = next_chunk] \in Chunk
      BY DEF TypeOK, Chunk
    <2> QED BY <1>2, <2>1 DEF LockChunk, TypeOK
  <1>3. CASE RefuseChunk(r)
    BY <1>3, FinishType DEF RefuseChunk, TypeOK
  <1>4. CASE RepeatChunk(r)
    <2>1. SameBytes(r) => arg[r].index \in Positions /\ arg[r].body \in Bodies
      BY <1>4, PositionFacts DEF SameBytes, RepeatChunk, LockHeld, CountedWhole, TypeOK, Chunk
    <2>2. promised' \subseteq Positions \X Bodies
      BY <1>4, <2>1 DEF RepeatChunk, TypeOK
    <2> QED BY <1>4, <2>2, FinishType DEF RepeatChunk, TypeOK
  <1>5. CASE SkipChunk(r)
    BY <1>5, FinishType DEF SkipChunk, TypeOK
  <1>6. CASE DoomChunk(r)
    BY <1>6 DEF DoomChunk, TypeOK
  <1>7. CASE DropTemp(r)
    BY <1>7, FinishType DEF DropTemp, TypeOK
  <1>8. CASE OpenChunk(r)
    BY <1>8 DEF OpenChunk, Truncated, TypeOK
  <1>9. CASE OpenFails(r)
    BY <1>9, FinishType DEF OpenFails, TypeOK
  <1>10. CASE WriteChunk(r)
    <2>1. arg[r].body \in Bodies
      BY <1>10 DEF WriteChunk, LockHeld
    <2>2. file' \in [Positions -> Bodies \cup {Torn, Empty}]
      BY <1>10, <2>1 DEF WriteChunk, TypeOK
    <2> QED BY <1>10, <2>2 DEF WriteChunk, TypeOK
  <1>11. CASE ShortWrite(r)
    <2>1. faults' \in 0..MaxFaults
      BY <1>11, CountAssumption DEF ShortWrite, TypeOK
    <2>2. file' \in [Positions -> Bodies \cup {Torn, Empty}]
      BY <1>11 DEF ShortWrite, TypeOK
    <2> QED BY <1>11, <2>1, <2>2 DEF ShortWrite, TypeOK
  <1>12. CASE CountChunk(r)
    <2>1. next_chunk' \in 0..ChunkCount /\ promised' \subseteq Positions \X Bodies
      BY <1>12, PositionFacts DEF CountChunk, LockHeld, TypeOK
    <2>2. lapsed' \in BOOLEAN
      BY <1>12 DEF CountChunk
    <2> QED BY <1>12, <2>1, <2>2, FinishType DEF CountChunk, TypeOK
  <1>13. CASE CountFails(r)
    BY <1>13, FinishType, CountAssumption DEF CountFails, TypeOK
  <1> QED
    BY <1>1, <1>2, <1>3, <1>4, <1>5, <1>6, <1>7, <1>8, <1>9, <1>10, <1>11, <1>12, <1>13 DEF ChunkStep

(* Every step of a finalization keeps the types.                            *)
LEMMA FinalizeType ==
  ASSUME UploadInv, NEW r \in Requests, FinalizeStep(r)
  PROVE  TypeOK'
  <1> USE DEF UploadInv, SetStatus, Abort, Goto, row, disk
  <1>1. CASE BeginFinalize(r)
    BY <1>1 DEF BeginFinalize, TypeOK
  <1>2. CASE OverQuota(r)
    BY <1>2 DEF OverQuota, TypeOK
  <1>3. CASE RefuseFinalize(r)
    BY <1>3, FinishType DEF RefuseFinalize, TypeOK
  <1>4. CASE HashFile(r)
    <2>1. [arg[r] EXCEPT !.hash = file] \in Chunk
      BY <1>4 DEF HashFile, TypeOK, Chunk
    <2> QED BY <1>4, <2>1 DEF HashFile, TypeOK
  <1>5. CASE RejectDigest(r)
    BY <1>5 DEF RejectDigest, TypeOK
  <1>6. CASE MoveFile(r)
    BY <1>6 DEF MoveFile, TypeOK, Chunk
  <1>7. CASE ReuseFile(r)
    BY <1>7 DEF ReuseFile, TypeOK
  <1>8. CASE MoveFails(r)
    BY <1>8 DEF MoveFails, TypeOK
  <1>9. CASE FailSession(r)
    BY <1>9, FinishType DEF FailSession, TypeOK
  <1>10. CASE CommitFinalize(r)
    BY <1>10, FinishType DEF CommitFinalize, TypeOK, Chunk
  <1>11. CASE RefuseMoved(r)
    BY <1>11, FinishType DEF RefuseMoved, TypeOK
  <1>12. CASE CommitFails(r)
    BY <1>12, FinishType, CountAssumption DEF CommitFails, TypeOK
  <1> QED
    BY <1>1, <1>2, <1>3, <1>4, <1>5, <1>6, <1>7, <1>8, <1>9, <1>10, <1>11, <1>12 DEF FinalizeStep

(* So do starting, cancelling, the collector and the rest of the world.     *)
LEMMA OtherType ==
  ASSUME UploadInv
  PROVE  /\ \A r \in Requests, d \in Contents \cup {NoDigest} : Start(r, d) => TypeOK'
         /\ \A r \in Requests : CreateTemp(r) \/ Cancel(r) => TypeOK'
         /\ GCStep \/ WorldStep => TypeOK'
  <1> USE DEF UploadInv, SetStatus, Abort, Goto, row, disk
  <1>1. ASSUME NEW r \in Requests, NEW d \in Contents \cup {NoDigest}, Start(r, d) PROVE TypeOK'
    BY <1>1 DEF Start, TypeOK
  <1>2. ASSUME NEW r \in Requests, CreateTemp(r) PROVE TypeOK'
    BY <1>2, FinishType DEF CreateTemp, TypeOK
  <1>3. ASSUME NEW r \in Requests, Cancel(r) PROVE TypeOK'
    BY <1>3 DEF Cancel, TypeOK
  <1>4. ASSUME GCStep PROVE TypeOK'
    BY <1>4 DEF GCStep, GCList, GCAbort, GCExpire, GCPurge, TypeOK
  <1>5. ASSUME DeleteNotebook \/ LosePermission \/ Lapse \/ Outlive PROVE TypeOK'
    <2>1. CASE DeleteNotebook
      <3>1. permitted' \in BOOLEAN
        BY <2>1 DEF DeleteNotebook
      <3>2. /\ status' \in {status, "failed"}
            /\ UNCHANGED <<next_chunk, expected, lapsed, outlived, disk, stored, lock, pc, arg, gc, promised, faults>>
        BY <2>1 DEF DeleteNotebook
      <3> QED BY <3>1, <3>2 DEF TypeOK
    <2>2. CASE LosePermission
      <3>1. permitted' \in BOOLEAN
        BY <2>2 DEF LosePermission
      <3>2. UNCHANGED <<row, disk, stored, lock, pc, arg, gc, promised, faults>>
        BY <2>2 DEF LosePermission
      <3> QED BY <3>1, <3>2 DEF TypeOK
    <2>3. CASE Lapse \/ Outlive
      BY <2>3 DEF Lapse, Outlive, TypeOK
    <2> QED BY <1>5, <2>1, <2>2, <2>3
  <1>6. ASSUME Crash PROVE TypeOK'
    <2>1. file' \in [Positions -> Bodies \cup {Torn, Empty}]
      BY <1>6 DEF Crash, TypeOK
    <2>2. /\ pc' \in [Requests -> {"idle"}] /\ arg' \in [Requests -> Chunk]
          /\ faults' \in 0..MaxFaults
      BY <1>6, BlankType, CountAssumption DEF Crash, TypeOK
    <2> QED BY <1>6, <2>1, <2>2 DEF Crash, TypeOK
  <1> QED BY <1>1, <1>2, <1>3, <1>4, <1>5, <1>6 DEF WorldStep

-----------------------------------------------------------------------------
(* Steps that leave the file, the counter and what is stored alone.         *)

(* A request that is not past the lock and not past BeginFinalize after the *)
(* step, or that the step does not concern.                                 *)
Undisturbed(q) ==
  \/ pc'[q] \in {"idle", "starting", "chunk", "doomed", "failing"}
  \/ pc'[q] = pc[q] /\ arg'[q] = arg[q] /\ (lock = q => lock' = q)

QuietStep ==
  /\ UNCHANGED <<file, next_chunk, expected, stored, moved>>
  /\ place' = "blob" => place = "blob"
  /\ \A q \in Requests : Undisturbed(q)
  /\ status' = "none" => status = "none" /\ \A q \in Requests : pc'[q] = "idle"

(* What the invariant says besides the types and the receipts.              *)
Relations ==
  /\ LockHeld
  /\ CountedWhole
  /\ FinalContent
  /\ NotStarted
  /\ BlobImmutable
  /\ StoredAsExpected

(* The receipts only depend on the file, the counter and the promises.      *)
LEMMA ReceiptsFrame ==
  ASSUME Receipts, UNCHANGED <<file, next_chunk, promised>>
  PROVE  Receipts'
  BY DEF Receipts

(* A quiet step keeps the relations. *)
LEMMA QuietKeeps ==
  ASSUME Relations, QuietStep
  PROVE  Relations'
  <1> USE DEF Relations, QuietStep
  <1>1. LockHeld'
    BY DEF LockHeld, Undisturbed
  <1>2. CountedWhole'
    BY DEF CountedWhole
  <1>3. FinalContent'
    <2>1. ASSUME NEW q \in Requests
          PROVE  /\ pc'[q] \in {"finalizing", "hashed", "moved"} => next_chunk' = ChunkCount
                 /\ pc'[q] \in {"hashed", "moved"} => arg'[q].hash = file'
                 /\ pc'[q] = "moved" => expected' \in {NoDigest, file'}
      BY <2>1 DEF FinalContent, Undisturbed
    <2> QED BY <2>1 DEF FinalContent
  <1>4. NotStarted'
    BY DEF NotStarted
  <1>5. BlobImmutable' /\ StoredAsExpected'
    BY DEF BlobImmutable, StoredAsExpected
  <1> QED BY <1>1, <1>2, <1>3, <1>4, <1>5

(* A request that ends disturbs no other. *)
LEMMA FinishUndisturbed ==
  ASSUME TypeOK, NEW r \in Requests, Finish(r)
  PROVE  /\ \A q \in Requests : Undisturbed(q)
         /\ pc'[r] = "idle" /\ \A q \in Requests : q # r => pc'[q] = pc[q]
  BY DEF TypeOK, Finish, Undisturbed

(* Nor does one that moves on to a place of no consequence. *)
LEMMA GotoUndisturbed ==
  ASSUME TypeOK, NEW r \in Requests, NEW l \in {"starting", "chunk", "doomed", "failing"},
         Goto(r, l), \A q \in Requests : q # r => arg'[q] = arg[q], UNCHANGED lock
  PROVE  \A q \in Requests : Undisturbed(q)
  BY DEF TypeOK, Goto, Undisturbed

(* While a request is anywhere but idle the row has been inserted. *)
LEMMA BusyStarted ==
  ASSUME NotStarted, NEW r \in Requests, pc[r] # "idle"
  PROVE  status # "none"
  BY DEF NotStarted

(* A row that was inserted is not undone. *)
LEMMA SetStatusStarted ==
  ASSUME NEW s \in {"failed", "expired", "finalized"}, SetStatus(s), status # "none"
  PROVE  status' # "none"
  BY DEF SetStatus, HasRow

(* The steps of a request that end it or change no more than its place. *)
LEMMA EndsQuietly ==
  ASSUME UploadInv, NEW r \in Requests,
         \/ CreateTemp(r) \/ RefuseChunk(r) \/ RepeatChunk(r) \/ SkipChunk(r) \/ DropTemp(r)
         \/ OpenFails(r) \/ CountFails(r) \/ RefuseFinalize(r) \/ FailSession(r)
         \/ RefuseMoved(r) \/ CommitFails(r)
  PROVE  QuietStep
  <1> USE DEF UploadInv
  <1>1. Finish(r) /\ pc[r] # "idle"
    BY DEF CreateTemp, RefuseChunk, RepeatChunk, SkipChunk, DropTemp, OpenFails, CountFails,
           RefuseFinalize, FailSession, RefuseMoved, CommitFails
  <1>2. UNCHANGED <<file, next_chunk, expected, stored, moved>>
    BY DEF CreateTemp, RefuseChunk, RepeatChunk, SkipChunk, DropTemp, OpenFails, CountFails,
           RefuseFinalize, FailSession, RefuseMoved, CommitFails, row, disk
  <1>3. place' = "blob" => place = "blob"
    BY DEF CreateTemp, RefuseChunk, RepeatChunk, SkipChunk, DropTemp, OpenFails, CountFails,
           RefuseFinalize, FailSession, RefuseMoved, CommitFails, disk, Abort
  <1>4. status' # "none"
    <2>1. status' = status \/ SetStatus("failed")
      BY DEF CreateTemp, RefuseChunk, RepeatChunk, SkipChunk, DropTemp, OpenFails, CountFails,
             RefuseFinalize, FailSession, RefuseMoved, CommitFails, row
    <2> QED BY <1>1, <2>1, BusyStarted, SetStatusStarted
  <1> QED BY <1>1, <1>2, <1>3, <1>4, FinishUndisturbed DEF QuietStep

LEMMA MovesQuietly ==
  ASSUME UploadInv, NEW r \in Requests,
         \/ \E i \in 0..ChunkCount, b \in Bodies \cup {BadBody} : SendChunk(r, i, b)
         \/ DoomChunk(r) \/ OverQuota(r) \/ RejectDigest(r) \/ MoveFails(r) \/ Cancel(r)
  PROVE  QuietStep
  <1> USE DEF UploadInv
  <1>1. (Goto(r, "chunk") \/ Goto(r, "doomed") \/ Goto(r, "failing")) /\ UNCHANGED lock
    BY DEF SendChunk, DoomChunk, OverQuota, RejectDigest, MoveFails, Cancel
  <1>2. \A q \in Requests : q # r => arg'[q] = arg[q]
    BY DEF SendChunk, DoomChunk, OverQuota, RejectDigest, MoveFails, Cancel, TypeOK
  <1>3. UNCHANGED <<file, next_chunk, expected, stored, moved>>
    BY DEF SendChunk, DoomChunk, OverQuota, RejectDigest, MoveFails, Cancel, row, disk
  <1>4. place' = "blob" => place = "blob"
    BY DEF SendChunk, DoomChunk, OverQuota, RejectDigest, MoveFails, Cancel, disk, Abort
  <1>5. status' # "none"
    <2>1. status' = status \/ SetStatus("failed")
      BY DEF SendChunk, DoomChunk, OverQuota, RejectDigest, MoveFails, Cancel, row
    <2>2. status # "none"
      BY BusyStarted DEF SendChunk, DoomChunk, OverQuota, RejectDigest, MoveFails, Cancel, Known, HasRow
    <2> QED BY <2>1, <2>2, SetStatusStarted
  <1>6. \A q \in Requests : Undisturbed(q)
    BY <1>1, <1>2, GotoUndisturbed
  <1> QED BY <1>3, <1>4, <1>5, <1>6 DEF QuietStep

(* The collector, time and the loss of permission touch no request.         *)
LEMMA WorldQuietly ==
  ASSUME UploadInv, GCStep \/ DeleteNotebook \/ LosePermission \/ Lapse \/ Outlive
  PROVE  QuietStep /\ UNCHANGED promised
  <1> USE DEF UploadInv
  <1>1. UNCHANGED <<file, next_chunk, expected, stored, moved, pc, arg, lock, promised>>
    BY DEF GCStep, GCList, GCAbort, GCExpire, GCPurge, DeleteNotebook, LosePermission, Lapse, Outlive,
           row, disk
  <1>2. place' = "blob" => place = "blob"
    BY DEF GCStep, GCList, GCAbort, GCExpire, GCPurge, DeleteNotebook, LosePermission, Lapse, Outlive,
           disk, Abort
  <1>3. status' = "none" => status = "none"
    BY DEF GCStep, GCList, GCAbort, GCExpire, GCPurge, DeleteNotebook, LosePermission, Lapse, Outlive,
           row, SetStatus
  <1> QED BY <1>1, <1>2, <1>3 DEF QuietStep, Undisturbed, NotStarted

(* Which of the quiet steps leave the promises alone: all but a repeat.     *)
LEMMA QuietPromises ==
  ASSUME UploadInv, NEW r \in Requests,
         \/ CreateTemp(r) \/ RefuseChunk(r) \/ SkipChunk(r) \/ DropTemp(r)
         \/ OpenFails(r) \/ CountFails(r) \/ RefuseFinalize(r) \/ FailSession(r)
         \/ RefuseMoved(r) \/ CommitFails(r)
         \/ (\E i \in 0..ChunkCount, b \in Bodies \cup {BadBody} : SendChunk(r, i, b))
         \/ DoomChunk(r) \/ OverQuota(r) \/ RejectDigest(r) \/ MoveFails(r) \/ Cancel(r)
  PROVE  UNCHANGED promised
  BY DEF CreateTemp, RefuseChunk, SkipChunk, DropTemp, OpenFails, CountFails,
         RefuseFinalize, FailSession, RefuseMoved, CommitFails, SendChunk, DoomChunk, OverQuota,
         RejectDigest, MoveFails, Cancel

-----------------------------------------------------------------------------
(* The steps that change what the relations are about.                      *)

(* The session starts: nothing has been received or stored before.          *)
LEMMA StartKeeps ==
  ASSUME UploadInv, NEW r \in Requests, NEW d \in Contents \cup {NoDigest}, Start(r, d)
  PROVE  Relations' /\ Receipts'
  <1> USE DEF UploadInv, Start, disk, Goto
  <1>1. /\ next_chunk = 0 /\ next_chunk # ChunkCount
        /\ \A q \in Requests : pc'[q] \in {"idle", "starting"}
    BY PositionFacts DEF NotStarted, TypeOK
  <1>2. place # "blob" /\ stored = NoDigest
    BY <1>1 DEF FinalContent
  <1>3. LockHeld' /\ NotStarted'
    BY <1>1 DEF LockHeld, NotStarted
  <1>4. CountedWhole' /\ Receipts'
    BY DEF CountedWhole, Receipts
  <1>5. FinalContent' /\ BlobImmutable' /\ StoredAsExpected'
    BY <1>1, <1>2 DEF FinalContent, BlobImmutable, StoredAsExpected
  <1> QED BY <1>3, <1>4, <1>5 DEF Relations

(* Two requests are not past the lock together. *)
LEMMA OneHolder ==
  ASSUME LockHeld, NEW r \in Requests, NEW q \in Requests,
         pc[r] \in {"locked", "open", "written"}, pc[q] \in {"locked", "open", "written"}
  PROVE  r = q
  BY DEF LockHeld

(* Taking the lock: no other request holds it. *)
LEMMA LockKeeps ==
  ASSUME UploadInv, NEW r \in Requests, LockChunk(r)
  PROVE  Relations' /\ Receipts'
  <1> USE DEF UploadInv, LockChunk, LockFree, Goto, row, disk
  <1>1. \A q \in Requests : pc[q] \notin {"locked", "open", "written"}
    BY FreeAssumption DEF LockHeld
  <1>2. /\ pc'[r] = "locked" /\ arg'[r].seen = next_chunk
        /\ \A q \in Requests : q # r => pc'[q] = pc[q] /\ arg'[q] = arg[q]
    BY DEF TypeOK, Chunk
  <1>3. LockHeld'
    BY <1>1, <1>2 DEF LockHeld
  <1>4. FinalContent'
    <2>1. \A q \in Requests : pc'[q] \in {"finalizing", "hashed", "moved"} => pc'[q] = pc[q] /\ arg'[q] = arg[q]
      BY <1>2
    <2> QED BY <2>1 DEF FinalContent
  <1>5. NotStarted'
    BY DEF NotStarted, uploadLive
  <1>6. CountedWhole' /\ BlobImmutable' /\ StoredAsExpected' /\ Receipts'
    BY DEF CountedWhole, BlobImmutable, StoredAsExpected, Receipts
  <1> QED BY <1>3, <1>4, <1>5, <1>6 DEF Relations

(* A repeat adds a promise about the chunk that was counted last.           *)
LEMMA RepeatReceipts ==
  ASSUME UploadInv, NEW r \in Requests, RepeatChunk(r)
  PROVE  Receipts'
  <1> USE DEF UploadInv, RepeatChunk, row, disk
  <1>1. arg[r].seen = next_chunk /\ arg[r].index < next_chunk
    BY DEF LockHeld
  <1>2. \A p \in promised' : p \in promised \/ (p = <<arg[r].index, arg[r].body>> /\ SameBytes(r))
    OBVIOUS
  <1>3. UNCHANGED <<file, next_chunk>>
    OBVIOUS
  <1> QED BY <1>1, <1>2, <1>3 DEF Receipts, SameBytes

(* Before everything is counted, nothing is hashed, moved or stored.        *)
LEMMA NothingFinal ==
  ASSUME FinalContent, next_chunk # ChunkCount
  PROVE  /\ \A q \in Requests : pc[q] \notin {"finalizing", "hashed", "moved"}
         /\ place # "blob"
         /\ stored = NoDigest
  BY DEF FinalContent

(* A change of the file past the counter, by the holder of the lock or as   *)
(* the process dies, while something is still missing.                      *)
LEMMA PastCounterKeeps ==
  ASSUME UploadInv, next_chunk # ChunkCount,
         UNCHANGED <<next_chunk, expected, stored, moved, place, promised>>,
         \A i \in Positions : i < next_chunk => file'[i] = file[i],
         LockHeld',
         \A q \in Requests : pc'[q] \notin {"finalizing", "hashed", "moved"},
         status' = "none" => status = "none" /\ \A q \in Requests : pc'[q] = "idle"
  PROVE  Relations' /\ Receipts'
  <1> USE DEF UploadInv
  <1>1. place # "blob" /\ stored = NoDigest
    BY NothingFinal
  <1>2. CountedWhole'
    BY DEF CountedWhole
  <1>3. FinalContent' /\ BlobImmutable' /\ StoredAsExpected'
    BY <1>1 DEF FinalContent, BlobImmutable, StoredAsExpected
  <1>4. NotStarted'
    BY DEF NotStarted
  <1>5. Receipts'
    <2>1. ASSUME NEW p \in promised PROVE p[1] < next_chunk /\ file'[p[1]] = p[2]
      BY <2>1 DEF Receipts, TypeOK
    <2> QED BY <2>1 DEF Receipts
  <1> QED BY <1>2, <1>3, <1>4, <1>5 DEF Relations

(* Opening truncates to what is counted. *)
LEMMA OpenKeeps ==
  ASSUME UploadInv, NEW r \in Requests, OpenChunk(r)
  PROVE  Relations' /\ Receipts'
  <1> USE DEF UploadInv, OpenChunk, Goto, row
  <1>1. /\ lock = r /\ arg[r].seen = next_chunk /\ arg[r].index = next_chunk
        /\ next_chunk # ChunkCount /\ next_chunk < ChunkCount /\ arg[r].body \in Bodies
    BY PositionFacts DEF LockHeld, Oversized, TypeOK, Chunk
  <1>2. \A i \in Positions : i < next_chunk => file'[i] = file[i]
    BY <1>1 DEF Truncated
  <1>3. pc'[r] = "open" /\ \A q \in Requests : q # r => pc'[q] = pc[q]
    BY DEF TypeOK
  <1>4. LockHeld'
    BY <1>1, <1>3, OneHolder DEF LockHeld
  <1>5. \A q \in Requests : pc'[q] \notin {"finalizing", "hashed", "moved"}
    BY <1>1, <1>3, NothingFinal
  <1>6. status' # "none"
    BY BusyStarted
  <1> QED BY <1>1, <1>2, <1>4, <1>5, <1>6, PastCounterKeeps

(* A write changes the position of the counter, which is not counted yet.   *)
LEMMA WriteKeeps ==
  ASSUME UploadInv, NEW r \in Requests, WriteChunk(r)
  PROVE  Relations' /\ Receipts'
  <1> USE DEF UploadInv, WriteChunk, Goto, row
  <1>1. /\ lock = r /\ arg[r].seen = next_chunk /\ arg[r].index = next_chunk
        /\ next_chunk # ChunkCount /\ next_chunk < ChunkCount /\ arg[r].body \in Bodies
        /\ next_chunk \in Positions
    BY PositionFacts DEF LockHeld, TypeOK
  <1>2. /\ \A i \in Positions : i < next_chunk => file'[i] = file[i]
        /\ file'[arg[r].index] = arg[r].body
    BY <1>1, PositionFacts DEF TypeOK
  <1>3. pc'[r] = "written" /\ \A q \in Requests : q # r => pc'[q] = pc[q]
    BY DEF TypeOK
  <1>4. LockHeld'
    BY <1>1, <1>2, <1>3, OneHolder DEF LockHeld
  <1>5. \A q \in Requests : pc'[q] \notin {"finalizing", "hashed", "moved"}
    BY <1>1, <1>3, NothingFinal
  <1>6. status' # "none"
    BY BusyStarted
  <1> QED BY <1>1, <1>2, <1>4, <1>5, <1>6, PastCounterKeeps

LEMMA ShortWriteKeeps ==
  ASSUME UploadInv, NEW r \in Requests, ShortWrite(r)
  PROVE  Relations' /\ Receipts'
  <1> USE DEF UploadInv, ShortWrite, Goto
  <1>1. /\ arg[r].index = next_chunk /\ next_chunk # ChunkCount /\ next_chunk < ChunkCount
    BY PositionFacts DEF LockHeld, TypeOK
  <1>2. \A i \in Positions : i < next_chunk => file'[i] = file[i]
    BY <1>1, PositionFacts DEF TypeOK
  <1>3. pc'[r] = "doomed" /\ \A q \in Requests : q # r => pc'[q] = pc[q]
    BY DEF TypeOK
  <1>4. LockHeld'
    BY <1>3, OneHolder DEF LockHeld
  <1>5. \A q \in Requests : pc'[q] \notin {"finalizing", "hashed", "moved"}
    BY <1>1, <1>3, NothingFinal
  <1>6. status' # "none"
    BY BusyStarted, SetStatusStarted
  <1> QED BY <1>1, <1>2, <1>4, <1>5, <1>6, PastCounterKeeps

(* A crash ends every request and may leave one chunk half written.         *)
LEMMA CrashKeeps ==
  ASSUME UploadInv, Crash
  PROVE  Relations' /\ Receipts'
  <1> USE DEF UploadInv, Crash, row
  <1>1. \A q \in Requests : pc'[q] = "idle"
    OBVIOUS
  <1>2. CASE file' = file
    <2>1. QuietStep
      BY <1>1, <1>2 DEF QuietStep, Undisturbed, NotStarted
    <2> QED BY <1>2, <2>1, QuietKeeps, ReceiptsFrame DEF Relations
  <1>3. ASSUME NEW q \in Requests, pc[q] = "open", file' = [file EXCEPT ![arg[q].index] = Torn]
        PROVE  Relations' /\ Receipts'
    <2>1. arg[q].index = next_chunk /\ next_chunk # ChunkCount
      BY <1>3, PositionFacts DEF LockHeld, TypeOK
    <2>2. \A i \in Positions : i < next_chunk => file'[i] = file[i]
      BY <1>3, <2>1, PositionFacts DEF TypeOK
    <2>3. LockHeld'
      BY <1>1 DEF LockHeld
    <2> QED BY <1>1, <2>1, <2>2, <2>3, PastCounterKeeps
  <1> QED BY <1>2, <1>3

(* Counting: the written chunk becomes the last counted one.                *)
LEMMA CountKeeps ==
  ASSUME UploadInv, NEW r \in Requests, CountChunk(r)
  PROVE  Relations' /\ Receipts'
  <1> USE DEF UploadInv, CountChunk, disk
  <1>1. /\ lock = r /\ arg[r].index = next_chunk /\ next_chunk # ChunkCount
        /\ arg[r].body \in Bodies /\ file[next_chunk] = arg[r].body
        /\ next_chunk \in Nat /\ next_chunk < ChunkCount
    BY PositionFacts DEF LockHeld, TypeOK
  <1>2. /\ place # "blob" /\ stored = NoDigest
        /\ \A q \in Requests : pc[q] \notin {"finalizing", "hashed", "moved"}
    BY <1>1, NothingFinal
  <1>3. pc'[r] = "idle" /\ \A q \in Requests : q # r => pc'[q] = pc[q]
    BY FinishUndisturbed
  <1>4. LockHeld'
    <2>1. \A q \in Requests : pc'[q] \notin {"locked", "open", "written"}
      BY <1>3, OneHolder
    <2> QED BY <2>1 DEF LockHeld
  <1>5. CountedWhole'
    BY <1>1, PositionFacts DEF CountedWhole
  <1>6. FinalContent' /\ BlobImmutable' /\ StoredAsExpected'
    <2>1. \A q \in Requests : pc'[q] \notin {"finalizing", "hashed", "moved"}
      BY <1>2, <1>3
    <2> QED BY <1>2, <2>1 DEF FinalContent, BlobImmutable, StoredAsExpected
  <1>7. NotStarted'
    BY BusyStarted DEF NotStarted
  <1>8. Receipts'
    <2>1. ASSUME NEW p \in promised PROVE p[1] < next_chunk + 1 /\ file[p[1]] = p[2]
      <3>1. p[1] \in Nat
        BY <2>1, PositionFacts DEF TypeOK
      <3> QED BY <1>1, <2>1, <3>1 DEF Receipts
    <2>2. next_chunk < next_chunk + 1
      BY <1>1
    <2> QED BY <1>1, <2>1, <2>2 DEF Receipts
  <1> QED BY <1>4, <1>5, <1>6, <1>7, <1>8 DEF Relations

(* The steps of a finalization that go on: everything is counted, and the   *)
(* hash is the file's.                                                      *)
LEMMA FinalizeKeeps ==
  ASSUME UploadInv, NEW r \in Requests,
         BeginFinalize(r) \/ HashFile(r) \/ MoveFile(r) \/ ReuseFile(r) \/ CommitFinalize(r)
  PROVE  Relations' /\ Receipts'
  <1> USE DEF UploadInv, row, disk
  <1>1. /\ UNCHANGED <<file, next_chunk, expected, promised>>
        /\ next_chunk = ChunkCount
    BY DEF BeginFinalize, HashFile, MoveFile, ReuseFile, CommitFinalize, AllReceived, FinalContent
  <1>2. /\ pc'[r] \in {"finalizing", "hashed", "moved", "idle"}
        /\ \A q \in Requests : q # r => pc'[q] = pc[q] /\ arg'[q] = arg[q] /\ (lock = q => lock' = q)
    BY DEF TypeOK, BeginFinalize, HashFile, MoveFile, ReuseFile, CommitFinalize, Goto, Finish
  <1>3. LockHeld'
    BY <1>1, <1>2 DEF LockHeld
  <1>4. CountedWhole' /\ Receipts'
    BY <1>1 DEF CountedWhole, Receipts
  <1>5. NotStarted'
    <2>1. status # "none"
      BY BusyStarted DEF BeginFinalize, Known, HasRow, HashFile, MoveFile, ReuseFile, CommitFinalize
    <2>2. status' = status \/ SetStatus("finalized")
      BY DEF BeginFinalize, HashFile, MoveFile, ReuseFile, CommitFinalize
    <2> QED BY <2>1, <2>2, SetStatusStarted DEF NotStarted
  <1>6. /\ pc'[r] \in {"hashed", "moved"} => arg'[r].hash = file'
        /\ pc'[r] = "moved" => expected' \in {NoDigest, file'}
    <2>1. CASE BeginFinalize(r)
      BY <2>1 DEF BeginFinalize, Goto, TypeOK
    <2>2. CASE HashFile(r)
      BY <2>2 DEF HashFile, Goto, TypeOK, Chunk
    <2>3. CASE MoveFile(r) \/ ReuseFile(r)
      BY <2>3 DEF MoveFile, ReuseFile, Goto, TypeOK, FinalContent, DigestAgrees
    <2>4. CASE CommitFinalize(r)
      BY <2>4, FinishUndisturbed DEF CommitFinalize
    <2> QED BY <2>1, <2>2, <2>3, <2>4
  <1>7. stored' \in {stored, file}
    BY DEF BeginFinalize, HashFile, MoveFile, ReuseFile, CommitFinalize, FinalContent
  <1>8. FinalContent'
    <2>1. ASSUME NEW q \in Requests
          PROVE  /\ pc'[q] \in {"finalizing", "hashed", "moved"} => next_chunk' = ChunkCount
                 /\ pc'[q] \in {"hashed", "moved"} => arg'[q].hash = file'
                 /\ pc'[q] = "moved" => expected' \in {NoDigest, file'}
      <3>1. CASE q = r
        BY <1>1, <1>6, <3>1
      <3>2. CASE q # r
        BY <1>1, <1>2, <3>2 DEF FinalContent
      <3> QED BY <3>1, <3>2
    <2>2. stored' # NoDigest => stored' = file'
      BY <1>1, <1>7 DEF FinalContent
    <2> QED BY <1>1, <2>1, <2>2 DEF FinalContent
  <1>9. BlobImmutable'
    <2>1. \/ (place' = "blob" => place = "blob") /\ UNCHANGED moved
          \/ MoveFile(r) /\ moved' = file
      BY DEF BeginFinalize, HashFile, MoveFile, ReuseFile, CommitFinalize, Abort, FinalContent
    <2> QED BY <1>1, <2>1 DEF BlobImmutable
  <1>10. StoredAsExpected'
    <2>1. stored' = stored \/ (stored' = file /\ expected \in {NoDigest, file})
      BY DEF BeginFinalize, HashFile, MoveFile, ReuseFile, CommitFinalize, FinalContent
    <2> QED BY <1>1, <2>1 DEF StoredAsExpected
  <1> QED BY <1>3, <1>4, <1>5, <1>8, <1>9, <1>10 DEF Relations

-----------------------------------------------------------------------------
(* Every step of the specification preserves the inductive invariant. *)
LEMMA InvStep == UploadInv /\ [Next]_vars => UploadInv'
  <1> SUFFICES ASSUME UploadInv, [Next]_vars PROVE UploadInv'
    OBVIOUS
  <1>0. Relations /\ Receipts
    BY DEF UploadInv, Relations
  <1>1. SUFFICES TypeOK' /\ Relations' /\ Receipts'
    BY DEF UploadInv, Relations
  <1>2. ASSUME NEW r \in Requests, RequestStep(r) PROVE TypeOK' /\ Relations' /\ Receipts'
    <2>1. TypeOK'
      BY <1>2, ChunkType, FinalizeType, OtherType DEF RequestStep
    <2>2. CASE \E d \in Contents \cup {NoDigest} : Start(r, d)
      BY <2>1, <2>2, StartKeeps
    <2>3. CASE CreateTemp(r) \/ Cancel(r)
      BY <1>0, <2>1, <2>3, EndsQuietly, MovesQuietly, QuietPromises, QuietKeeps, ReceiptsFrame DEF QuietStep
    <2>4. CASE ChunkStep(r)
      <3>1. CASE LockChunk(r) \/ OpenChunk(r) \/ WriteChunk(r) \/ ShortWrite(r) \/ CountChunk(r)
        BY <2>1, <3>1, LockKeeps, OpenKeeps, WriteKeeps, ShortWriteKeeps, CountKeeps
      <3>2. CASE RepeatChunk(r)
        BY <1>0, <2>1, <3>2, EndsQuietly, QuietKeeps, RepeatReceipts
      <3>3. CASE \/ RefuseChunk(r) \/ SkipChunk(r) \/ DropTemp(r) \/ OpenFails(r) \/ CountFails(r)
                 \/ DoomChunk(r)
                 \/ \E i \in 0..ChunkCount, b \in Bodies \cup {BadBody} : SendChunk(r, i, b)
        BY <1>0, <2>1, <3>3, EndsQuietly, MovesQuietly, QuietPromises, QuietKeeps, ReceiptsFrame DEF QuietStep
      <3> QED BY <2>4, <3>1, <3>2, <3>3 DEF ChunkStep
    <2>5. CASE FinalizeStep(r)
      <3>1. CASE BeginFinalize(r) \/ HashFile(r) \/ MoveFile(r) \/ ReuseFile(r) \/ CommitFinalize(r)
        BY <2>1, <3>1, FinalizeKeeps
      <3>2. CASE \/ OverQuota(r) \/ RefuseFinalize(r) \/ RejectDigest(r) \/ MoveFails(r)
                 \/ FailSession(r) \/ RefuseMoved(r) \/ CommitFails(r)
        BY <1>0, <2>1, <3>2, EndsQuietly, MovesQuietly, QuietPromises, QuietKeeps, ReceiptsFrame DEF QuietStep
      <3> QED BY <2>5, <3>1, <3>2 DEF FinalizeStep
    <2> QED BY <1>2, <2>2, <2>3, <2>4, <2>5 DEF RequestStep
  <1>3. CASE GCStep \/ WorldStep
    <2>1. TypeOK'
      BY <1>3, OtherType
    <2>2. CASE Crash
      BY <2>1, <2>2, CrashKeeps
    <2>3. CASE GCStep \/ DeleteNotebook \/ LosePermission \/ Lapse \/ Outlive
      BY <1>0, <2>1, <2>3, WorldQuietly, QuietKeeps, ReceiptsFrame DEF QuietStep
    <2> QED BY <1>3, <2>2, <2>3 DEF WorldStep
  <1>4. CASE UNCHANGED vars
    <2>1. QuietStep
      BY <1>4, <1>0 DEF QuietStep, Undisturbed, NotStarted, Relations, vars, row, disk
    <2>2. Relations' /\ Receipts'
      BY <1>0, <1>4, <2>1, QuietKeeps, ReceiptsFrame DEF vars, row, disk
    <2>3. TypeOK'
      BY <1>4 DEF vars, row, disk, TypeOK, UploadInv
    <2> QED BY <2>2, <2>3
  <1> QED BY <1>2, <1>3, <1>4 DEF Next

-----------------------------------------------------------------------------
(* Every behaviour of a session keeps the inductive invariant, and so the   *)
(* types: no step counts a chunk past the declared size.                    *)
THEOREM UploadTypes == Spec => []TypeOK
  <1>1. UploadInv => TypeOK
    BY DEF UploadInv
  <1> QED BY InvInit, InvStep, <1>1, PTL DEF Spec

(* What the PATCH handler acknowledged stays counted and stays in the file, *)
(* whatever repeats, failing writes, cancellations and crashes follow.      *)
THEOREM ReceiptsStand == Spec => []Receipts
  <1>1. UploadInv => Receipts
    BY DEF UploadInv
  <1> QED BY InvInit, InvStep, <1>1, PTL DEF Spec

(* Once Finalize has renamed the file to its digest's path, no chunk, no    *)
(* parallel finalization and no retry changes its content.                  *)
THEOREM StoredFilesNeverChange == Spec => []BlobImmutable
  <1>1. UploadInv => BlobImmutable
    BY DEF UploadInv
  <1> QED BY InvInit, InvStep, <1>1, PTL DEF Spec

(* An attachment is only stored under the digest its client announced.      *)
THEOREM StoredIsExpected == Spec => []StoredAsExpected
  <1>1. UploadInv => StoredAsExpected
    BY DEF UploadInv
  <1> QED BY InvInit, InvStep, <1>1, PTL DEF Spec

-----------------------------------------------------------------------------
(* Refinement: counting a chunk accepts it, committing a finalization       *)
(* stores, and every other step leaves both alone.                          *)

(* What is counted and stored does not change. *)
Stutters ==
  /\ UNCHANGED <<next_chunk, stored>>
  /\ \A i \in Positions : i < next_chunk => file'[i] = file[i]

LEMMA StuttersMap ==
  ASSUME Stutters
  PROVE  UNCHANGED <<Truncated(next_chunk), stored>>
  BY DEF Stutters, Truncated

(* A chunk that is being written is past the counter. *)
LEMMA WriterStutters ==
  ASSUME UploadInv, NEW r \in Requests,
         OpenChunk(r) \/ WriteChunk(r) \/ ShortWrite(r)
  PROVE  Stutters
  <1> USE DEF UploadInv
  <1>1. UNCHANGED <<next_chunk, stored>>
    BY DEF OpenChunk, WriteChunk, ShortWrite, row
  <1>2. CASE OpenChunk(r)
    BY <1>1, <1>2 DEF Stutters, OpenChunk, LockHeld, Truncated
  <1>3. CASE WriteChunk(r) \/ ShortWrite(r)
    <2>1. arg[r].index = next_chunk
      BY <1>3 DEF WriteChunk, ShortWrite, LockHeld
    <2> QED BY <1>1, <1>3, <2>1, PositionFacts DEF Stutters, WriteChunk, ShortWrite, TypeOK
  <1> QED BY <1>2, <1>3

LEMMA CrashStutters ==
  ASSUME UploadInv, Crash
  PROVE  Stutters
  <1> USE DEF UploadInv, Crash, row
  <1>1. CASE file' = file
    BY <1>1 DEF Stutters
  <1>2. ASSUME NEW q \in Requests, pc[q] = "open", file' = [file EXCEPT ![arg[q].index] = Torn]
        PROVE  Stutters
    <2>1. arg[q].index = next_chunk
      BY <1>2 DEF LockHeld
    <2> QED BY <1>2, <2>1, PositionFacts DEF Stutters, TypeOK
  <1> QED BY <1>1, <1>2

(* Counting is accepting. *)
LEMMA CountAccepts ==
  ASSUME UploadInv, NEW r \in Requests, CountChunk(r)
  PROVE  Promise!Accept(arg[r].index, arg[r].body) /\ arg[r].index \in Positions /\ arg[r].body \in Bodies
  <1> USE DEF UploadInv, CountChunk, disk
  <1>1. /\ arg[r].index = next_chunk /\ next_chunk \in Positions /\ next_chunk \in Nat
        /\ arg[r].body \in Bodies /\ file[next_chunk] = arg[r].body
    BY PositionFacts DEF LockHeld, TypeOK
  <1>2. /\ Truncated(next_chunk)[next_chunk] = Empty
        /\ \A j \in Positions : j < next_chunk => Truncated(next_chunk)[j] # Empty
    BY <1>1, PositionFacts, BodyFacts DEF Truncated, CountedWhole
  <1>3. Truncated(next_chunk)' = [Truncated(next_chunk) EXCEPT ![next_chunk] = arg[r].body]
    <2>1. Truncated(next_chunk)' = [i \in Positions |-> IF i < next_chunk + 1 THEN file[i] ELSE Empty]
      BY DEF Truncated
    <2>2. \A i \in Positions : i < next_chunk + 1 <=> i < next_chunk \/ i = next_chunk
      BY <1>1, PositionFacts
    <2> QED BY <1>1, <2>1, <2>2, PositionFacts DEF Truncated
  <1>4. UNCHANGED stored
    OBVIOUS
  <1>5. Promise!Positions = Positions
    BY DEF Promise!Positions, Positions
  <1> QED BY <1>1, <1>2, <1>3, <1>4, <1>5 DEF Promise!Accept

(* Committing is storing: everything is counted and the digest is the       *)
(* file's.                                                                  *)
LEMMA CommitStores ==
  ASSUME UploadInv, NEW r \in Requests, CommitFinalize(r)
  PROVE  Promise!Store
  <1> USE DEF UploadInv, CommitFinalize, disk
  <1>1. next_chunk = ChunkCount /\ stored' = file /\ UNCHANGED <<next_chunk, file>>
    BY DEF FinalContent
  <1>2. \A i \in Positions : i < next_chunk /\ file[i] \in Bodies
    BY <1>1, PositionFacts DEF CountedWhole
  <1>3. Truncated(next_chunk) = file
    <2>1. file = [i \in Positions |-> file[i]]
      BY DEF TypeOK
    <2> QED BY <1>2, <2>1 DEF Truncated
  <1>4. Truncated(next_chunk)' = Truncated(next_chunk)
    BY <1>1 DEF Truncated
  <1>5. Promise!Positions = Positions
    BY DEF Promise!Positions, Positions
  <1> QED BY <1>1, <1>2, <1>3, <1>4, <1>5, BodyFacts DEF Promise!Store

LEMMA PromiseInit == Init => Promise!Init
  <1> SUFFICES ASSUME Init PROVE Promise!Init
    OBVIOUS
  <1>1. \A i \in Positions : ~(i < 0)
    BY PositionFacts
  <1> QED BY <1>1 DEF Init, Promise!Init, Truncated, Promise!Positions, Positions

LEMMA PromiseStep == UploadInv /\ [Next]_vars => [Promise!Next]_(Promise!promiseVars)
  <1> SUFFICES ASSUME UploadInv, [Next]_vars PROVE [Promise!Next]_(Promise!promiseVars)
    OBVIOUS
  <1>1. ASSUME Stutters PROVE UNCHANGED Promise!promiseVars
    BY <1>1, StuttersMap DEF Promise!promiseVars
  <1>2. ASSUME QuietStep PROVE Stutters
    BY <1>2 DEF QuietStep, Stutters
  <1>3. ASSUME NEW r \in Requests, RequestStep(r) PROVE Stutters \/ Promise!Next
    <2>1. CASE \E d \in Contents \cup {NoDigest} : Start(r, d)
      BY <2>1 DEF Start, disk, Stutters
    <2>2. CASE CreateTemp(r) \/ Cancel(r)
      BY <2>2, <1>2, EndsQuietly, MovesQuietly
    <2>3. CASE ChunkStep(r)
      <3>1. CASE CountChunk(r)
        BY <3>1, CountAccepts DEF Promise!Next, Promise!Positions, Positions
      <3>2. CASE LockChunk(r)
        BY <3>2 DEF LockChunk, row, disk, Stutters
      <3>3. CASE OpenChunk(r) \/ WriteChunk(r) \/ ShortWrite(r)
        BY <3>3, WriterStutters
      <3>4. CASE \/ RefuseChunk(r) \/ RepeatChunk(r) \/ SkipChunk(r) \/ DropTemp(r) \/ OpenFails(r)
                 \/ CountFails(r) \/ DoomChunk(r)
                 \/ \E i \in 0..ChunkCount, b \in Bodies \cup {BadBody} : SendChunk(r, i, b)
        BY <3>4, <1>2, EndsQuietly, MovesQuietly
      <3> QED BY <2>3, <3>1, <3>2, <3>3, <3>4 DEF ChunkStep
    <2>4. CASE FinalizeStep(r)
      <3>1. CASE CommitFinalize(r)
        BY <3>1, CommitStores DEF Promise!Next
      <3>2. CASE BeginFinalize(r) \/ HashFile(r) \/ MoveFile(r) \/ ReuseFile(r)
        BY <3>2 DEF BeginFinalize, HashFile, MoveFile, ReuseFile, row, disk, Stutters
      <3>3. CASE \/ OverQuota(r) \/ RefuseFinalize(r) \/ RejectDigest(r) \/ MoveFails(r)
                 \/ FailSession(r) \/ RefuseMoved(r) \/ CommitFails(r)
        BY <3>3, <1>2, EndsQuietly, MovesQuietly
      <3> QED BY <2>4, <3>1, <3>2, <3>3 DEF FinalizeStep
    <2> QED BY <1>3, <2>1, <2>2, <2>3, <2>4 DEF RequestStep
  <1>4. ASSUME GCStep \/ WorldStep PROVE Stutters
    BY <1>4, <1>2, WorldQuietly, CrashStutters DEF WorldStep
  <1>5. ASSUME UNCHANGED vars PROVE Stutters
    BY <1>5 DEF vars, row, disk, Stutters
  <1> QED BY <1>1, <1>3, <1>4, <1>5 DEF Next

(* The chunk protocol with its lock, repeats, failing writes, crashes,      *)
(* parallel finalizations, cancellation and collector implements the        *)
(* promise: chunks are accepted in order, stay as they were accepted, and   *)
(* what is stored is all of them.                                           *)
THEOREM SessionKeepsPromise == Spec => PromiseKept
  <1> QED BY InvInit, InvStep, PromiseInit, PromiseStep, PTL DEF Spec, PromiseKept, Promise!Spec
=============================================================================
