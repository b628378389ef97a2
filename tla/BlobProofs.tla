----------------------------- MODULE BlobProofs -----------------------------
(***************************************************************************)
(* TLAPS proofs about BlobLifecycle, for any set of notebooks, pages,      *)
(* digests, handlers and collectors and any bound on faults: content is    *)
(* never lost, a sweep takes only what is not needed, and (BlobHistory) a  *)
(* mark never outlives a use of its blob.                                  *)
(***************************************************************************)
EXTENDS BlobHistory, TLAPS

USE HomeAssumption, NoDigestAssumption, TickerAssumption, FaultsAssumption

Job == SaveJob \cup PreviewJob \cup AttachmentJob

(* A handler that has started serves a request whose digest is a digest.    *)
LEMMA BusyJob ==
  ASSUME TypeOK, NEW h \in Handlers, pc[h] # "idle"
  PROVE  /\ job[h] \in Job
         /\ job[h].digest \in Digests
         /\ job[h].kind = "save" => job[h] \in SaveJob
         /\ job[h].kind = "preview" => job[h] \in PreviewJob
         /\ job[h].kind = "attachment" => job[h] \in AttachmentJob
  <1>1. job[h] \in Job
    BY DEF TypeOK, Job
  <1>2. /\ job[h] \in SaveJob => job[h].kind = "save" /\ job[h].digest \in Digests
        /\ job[h] \in PreviewJob => job[h].kind = "preview" /\ job[h].digest \in Digests
        /\ job[h] \in AttachmentJob => job[h].kind = "attachment" /\ job[h].digest \in Digests
    BY DEF SaveJob, PreviewJob, AttachmentJob
  <1> QED BY <1>1, <1>2 DEF Job

(* What Init says of the attachments an older release may have left.        *)
LEMMA LegacyAttachments ==
  ASSUME Init, NEW a \in attachments
  PROVE  a \in Attachment /\ a.live /\ a.digest \in files /\ blobs[a.digest] = "clear"
  <1>1. PICK c \in Containers, d \in Digests :
          a = [container |-> c, digest |-> d, preview |-> NoDigest, live |-> TRUE]
    BY DEF Init
  <1>2. a \in Attachment /\ a.digest = d /\ a.live
    BY <1>1 DEF Attachment
  <1> QED BY <1>2 DEF Init

(* The initial rows, marks and handler states have their types.             *)
LEMMA TypeInit == Init => TypeOK
  <1> SUFFICES ASSUME Init PROVE TypeOK
    OBVIOUS
  <1>1. object \in [Objects -> {"live", "deleted"}]
    BY DEF Init
  <1>2. attachments \subseteq Attachment
    BY LegacyAttachments
  <1>3. blobs \in [Digests -> Row]
    BY DEF Init, Row
  <1> QED BY <1>1, <1>2, <1>3 DEF Init, TypeOK

(* A handler that ends leaves well-typed handler states.                    *)
LEMMA FinishType ==
  ASSUME TypeOK, NEW h \in Handlers, Finish(h)
  PROVE  /\ pc' \in [Handlers -> {"idle", "checked", "moved"}]
         /\ job' \in [Handlers -> SaveJob \cup PreviewJob \cup AttachmentJob \cup {NoJob}]
         /\ \A g \in Handlers : pc'[g] # "idle" => job'[g] # NoJob
  BY DEF TypeOK, Finish

(* Tombstoned attachment rows are attachment rows.                          *)
LEMMA TombstoneType ==
  ASSUME NEW as, as \subseteq Attachment
  PROVE  Tombstone(as) \subseteq Attachment
  BY DEF Tombstone, Attachment

(* Revived attachment rows are attachment rows.                             *)
LEMMA ReviveType ==
  ASSUME NEW as, as \subseteq Attachment
  PROVE  Revive(as) \subseteq Attachment
  BY DEF Revive, Attachment

(* Every step of a request handler keeps the types.                         *)
LEMMA HandlerTypeStep ==
  ASSUME TypeOK, NEW h \in Handlers, HandlerStep(h)
  PROVE  TypeOK'
  <1> USE DEF content
  <1>1. ASSUME NEW o \in Objects, NEW d \in Digests, BeginSave(h, o, d) PROVE TypeOK'
    <2>1. [kind |-> "save", object |-> o, digest |-> d] \in SaveJob
      BY DEF SaveJob
    <2>2. [kind |-> "save", object |-> o, digest |-> d] # NoJob
      BY DEF NoJob
    <2> QED BY <1>1, <2>1, <2>2 DEF BeginSave, TypeOK
  <1>2. ASSUME NEW j \in UploadJobs, BeginUpload(h, j) PROVE TypeOK'
    <2>1. j \in PreviewJob \cup AttachmentJob
      BY DEF UploadJobs
    <2>2. j.kind \in {"preview", "attachment"}
      BY <2>1 DEF PreviewJob, AttachmentJob
    <2>3. j # NoJob
      BY <2>2 DEF NoJob
    <2> QED BY <1>2, <2>1, <2>3 DEF BeginUpload, TypeOK
  <1>3. CASE MoveSave(h)
    BY <1>3, BusyJob DEF MoveSave, TempFinalize, TypeOK
  <1>4. CASE MoveUpload(h)
    <2>1. pc[h] # "idle" /\ job[h].digest \in Digests /\ job[h] \in PreviewJob \cup AttachmentJob
      BY <1>4, BusyJob DEF MoveUpload
    <2>2. ReadPreview(job[h]) \in PreviewJob \cup AttachmentJob
      BY <2>1 DEF ReadPreview, PreviewJob, AttachmentJob
    <2>3. ReadPreview(job[h]) # NoJob
      BY <2>2 DEF NoJob, PreviewJob, AttachmentJob
    <2> QED BY <1>4, <2>1, <2>2, <2>3 DEF MoveUpload, TempFinalize, TypeOK
  <1>5. CASE AbortBeforeMove(h)
    BY <1>5, FinishType DEF AbortBeforeMove, TypeOK
  <1>6. CASE CommitVersion(h)
    <2>1. job[h] \in SaveJob
      BY <1>6, BusyJob DEF CommitVersion, MayCommit
    <2>2. [object |-> job[h].object, digest |-> job[h].digest] \in Version
      BY <2>1 DEF SaveJob, Version
    <2>3. blobs' \in [Digests -> Row]
      BY <1>6 DEF CommitVersion, claimBlob, TypeOK, Row
    <2> QED BY <1>6, <2>2, <2>3, FinishType DEF CommitVersion, TypeOK
  <1>7. ASSUME NEW id \in ConflictIds, CommitConflict(h, id) PROVE TypeOK'
    <2>1. job[h] \in SaveJob
      BY <1>7, BusyJob DEF CommitConflict, MayCommit
    <2>2. [id |-> id, object |-> job[h].object, digest |-> job[h].digest, open |-> TRUE] \in Conflict
      BY <2>1 DEF SaveJob, Conflict
    <2>3. blobs' \in [Digests -> Row]
      BY <1>7 DEF CommitConflict, claimBlob, TypeOK, Row
    <2> QED BY <1>7, <2>2, <2>3, FinishType DEF CommitConflict, TypeOK
  <1>8. CASE CommitPreview(h)
    <2>1. job[h] \in PreviewJob
      BY <1>8, BusyJob DEF CommitPreview, MayCommit
    <2>2. [container |-> job[h].container, digest |-> job[h].digest] \in Preview
      BY <2>1 DEF PreviewJob, Preview
    <2>3. blobs' \in [Digests -> Row]
      BY <1>8 DEF CommitPreview, claimBlob, TypeOK, Row
    <2> QED BY <1>8, <2>2, <2>3, FinishType DEF CommitPreview, TypeOK
  <1>9. CASE CommitAttachment(h)
    <2>1. job[h] \in AttachmentJob
      BY <1>9, BusyJob DEF CommitAttachment, MayCommit
    <2>2. [container |-> job[h].container, digest |-> job[h].digest,
           preview |-> job[h].preview, live |-> TRUE] \in Attachment
      BY <2>1 DEF AttachmentJob, Attachment
    <2>3. Revive(SameBytes(job[h])) \subseteq Attachment
      BY ReviveType DEF SameBytes, TypeOK
    <2>4. attachments' \subseteq Attachment
      BY <1>9, <2>2, <2>3 DEF CommitAttachment, TypeOK
    <2>5. blobs' \in [Digests -> Row]
      BY <1>9 DEF CommitAttachment, claimBlob, TypeOK, Row
    <2> QED BY <1>9, <2>4, <2>5, FinishType DEF CommitAttachment, TypeOK
  <1>10. CASE Refuse(h)
    BY <1>10, FinishType DEF Refuse, dropUnclaimed, TypeOK
  <1>11. CASE ClaimFails(h)
    BY <1>11, FinishType DEF ClaimFails, TypeOK
  <1>12. CASE CommitFails(h)
    BY <1>12, FinishType DEF CommitFails, TypeOK
  <1> QED BY <1>1, <1>2, <1>3, <1>4, <1>5, <1>6, <1>7, <1>8, <1>9, <1>10, <1>11, <1>12
          DEF HandlerStep

(* Links, resolutions and deletions keep the types.                         *)
LEMMA UserTypeStep ==
  ASSUME TypeOK, UserStep
  PROVE  TypeOK'
  <1> USE DEF content
  <1>1. ASSUME NEW p \in previews, CancelPreview(p) PROVE TypeOK'
    BY <1>1 DEF CancelPreview, TypeOK
  <1>2. ASSUME NEW o \in Objects, NEW a \in attachments, LinkAttachment(o, a) PROVE TypeOK'
    <2>1. [object |-> o, digest |-> a.digest] \in Ref
      BY DEF TypeOK, Attachment, Ref
    <2> QED BY <1>2, <2>1 DEF LinkAttachment, TypeOK
  <1>3. ASSUME NEW r \in refs, UnlinkAttachment(r) PROVE TypeOK'
    BY <1>3 DEF UnlinkAttachment, TypeOK
  <1>4. ASSUME NEW c \in conflicts, ResolveConflict(c) PROVE TypeOK'
    <2>1. c \in Conflict
      BY DEF TypeOK
    <2>2. [c EXCEPT !.open = FALSE] \in Conflict
      BY <2>1 DEF Conflict
    <2> QED BY <1>4, <2>2 DEF ResolveConflict, TypeOK
  <1>5. ASSUME NEW o \in Objects, DeleteObject(o) PROVE TypeOK'
    <2>1. Tombstone(OnlyLinkedBy(o)) \subseteq Attachment
      BY TombstoneType DEF OnlyLinkedBy, TypeOK
    <2> QED BY <1>5, <2>1 DEF DeleteObject, TypeOK
  <1>6. ASSUME NEW c \in Containers, DeleteContainer(c) PROVE TypeOK'
    <2>1. Tombstone(InContainer(c)) \subseteq Attachment
      BY TombstoneType DEF InContainer, TypeOK
    <2> QED BY <1>6, <2>1 DEF DeleteContainer, TypeOK
  <1> QED BY <1>1, <1>2, <1>3, <1>4, <1>5, <1>6 DEF UserStep

(* Every step of a collector keeps the types.                               *)
LEMMA GCTypeStep ==
  ASSUME TypeOK, NEW g \in Collectors, GCStep(g)
  PROVE  TypeOK'
  <1> USE DEF content
  <1>1. CASE GCFinishDeletions(g)
    <2>1. Tombstone(Orphaned) \subseteq Attachment
      BY TombstoneType DEF Orphaned, TypeOK
    <2> QED BY <1>1, <2>1 DEF GCFinishDeletions, TypeOK
  <1>2. CASE GCSelect(g)
    BY <1>2 DEF GCSelect, TypeOK
  <1>3. ASSUME NEW d \in Digests, SweepSkip(g, d) PROVE TypeOK'
    BY <1>3 DEF SweepSkip, TypeOK
  <1>4. ASSUME NEW d \in Digests, SweepDeleteFile(g, d) PROVE TypeOK'
    BY <1>4 DEF SweepDeleteFile, TypeOK
  <1>5. CASE SweepCommit(g)
    <2>1. blobs' \in [Digests -> Row]
      BY <1>5 DEF SweepCommit, TypeOK, Row
    <2> QED BY <1>5, <2>1 DEF SweepCommit, TypeOK
  <1>6. CASE GCClear(g)
    BY <1>6 DEF GCClear, TypeOK, Row
  <1>7. CASE GCMark(g)
    BY <1>7 DEF GCMark, TypeOK, Row
  <1> QED BY <1>1, <1>2, <1>3, <1>4, <1>5, <1>6, <1>7 DEF GCStep

(* Elapsed retention periods and faults keep the types.                     *)
LEMMA OtherTypeStep ==
  ASSUME TypeOK, (\E d \in Digests : Retention(d)) \/ FaultStep
  PROVE  TypeOK'
  <1> USE DEF content
  <1>1. ASSUME NEW g \in Collectors, SweepRollback(g) PROVE TypeOK'
    BY <1>1 DEF SweepRollback, TypeOK
  <1>2. ASSUME NEW d \in Digests, Retention(d) PROVE TypeOK'
    BY <1>2 DEF Retention, TypeOK, Row
  <1>3. ASSUME NEW g \in Collectors, PassDies(g) PROVE TypeOK'
    BY <1>3 DEF PassDies, EndPass, TypeOK
  <1>4. CASE Crash
    BY <1>4 DEF Crash, EndPass, TypeOK
  <1>5. ASSUME NEW g \in Collectors, NEW d \in Digests, SweepFails(g, d) PROVE TypeOK'
    BY <1>5 DEF SweepFails, TypeOK
  <1> QED BY <1>1, <1>2, <1>3, <1>4, <1>5 DEF FaultStep

(* Every step keeps the types.                                              *)
LEMMA TypeStep == TypeOK /\ [Next]_vars => TypeOK'
  <1>1. TypeOK /\ UNCHANGED vars => TypeOK'
    BY DEF vars, TypeOK
  <1> QED BY <1>1, HandlerTypeStep, UserTypeStep, GCTypeStep, OtherTypeStep DEF Next

(* Every reachable state has rows, marks and handler states of the right    *)
(* shape, whatever the number of notebooks, pages, digests and handlers.    *)
THEOREM TypeCorrect == Spec => []TypeOK
  BY TypeInit, TypeStep, PTL DEF Spec

-----------------------------------------------------------------------------
(* The digests a step references.                                           *)

(* What a step that writes no content row leaves referenced.                *)
LEMMA SameContent ==
  ASSUME UNCHANGED content
  PROVE  /\ \A d : Needed(d)' <=> Needed(d)
         /\ \A d : unreferenced(d)' <=> unreferenced(d)
  BY DEF content, Needed, unreferenced, Kept, Linked

(* Every row after the step descends from a row that kept as much.          *)
FewerRows ==
  /\ versions' \subseteq versions
  /\ refs' \subseteq refs
  /\ \A c \in conflicts' : \E b \in conflicts : b.digest = c.digest /\ (c.open => b.open)
  /\ \A a \in attachments' : \E b \in attachments :
       /\ b.container = a.container /\ b.digest = a.digest
       /\ a.live => b.live

(* Dropping references makes no digest needed.                              *)
LEMMA FewerNeeded ==
  ASSUME FewerRows, NEW d, Needed(d)'
  PROVE  Needed(d)
  <1>1. CASE \E v \in versions' : v.digest = d
    BY <1>1 DEF FewerRows, Needed
  <1>2. CASE \E c \in conflicts' : c.digest = d /\ c.open
    BY <1>2 DEF FewerRows, Needed
  <1>3. CASE \E a \in attachments' : a.digest = d /\ Kept(a)'
    <2>1. PICK a \in attachments' : a.digest = d /\ Kept(a)'
      BY <1>3
    <2>2. PICK b \in attachments : /\ b.container = a.container /\ b.digest = a.digest
                                   /\ a.live => b.live
      BY <2>1 DEF FewerRows
    <2>3. Kept(b)
      BY <2>1, <2>2 DEF FewerRows, Kept, Linked
    <2> QED BY <2>1, <2>2, <2>3 DEF Needed
  <1> QED BY <1>1, <1>2, <1>3 DEF Needed

(* A request or a pass that only drops references, with the write lock free *)
(* and no file touched, keeps the invariant.                                *)
LEMMA FewerRowsKeepInv ==
  ASSUME BlobInv, TypeOK', FewerRows, UNCHANGED <<blobs, files>>, WriteLockFree'
  PROVE  BlobInv'
  <1>1. NeededHasFile'
    BY FewerNeeded DEF BlobInv, NeededHasFile
  <1>2. ForeignKeys'
    BY DEF BlobInv, ForeignKeys, FewerRows
  <1>3. SweptIsUnneeded'
    BY DEF SweptIsUnneeded, WriteLockFree
  <1> QED BY <1>1, <1>2, <1>3 DEF BlobInv

(* Tombstoning some rows leaves no row more live than it was.               *)
LEMMA TombstoneRows ==
  ASSUME NEW as, as \subseteq attachments, attachments \subseteq Attachment,
         NEW x \in (attachments \ as) \cup Tombstone(as)
  PROVE  \E b \in attachments : /\ b.container = x.container /\ b.digest = x.digest
                                /\ x.live => b.live
  <1>1. CASE x \in attachments
    BY <1>1
  <1>2. CASE x \in Tombstone(as)
    <2>1. PICK a \in as : x = [a EXCEPT !.live = FALSE]
      BY <1>2 DEF Tombstone
    <2>2. a \in Attachment
      OBVIOUS
    <2>3. x.container = a.container /\ x.digest = a.digest /\ x.live = FALSE
      BY <2>1, <2>2 DEF Attachment
    <2> QED BY <2>3
  <1> QED BY <1>1, <1>2

-----------------------------------------------------------------------------
(* The invariant holds initially and every action preserves it.             *)

(* The invariant holds when the server starts.                              *)
LEMMA InvInit == Init => BlobInv
  <1> SUFFICES ASSUME Init PROVE BlobInv
    OBVIOUS
  <1>1. TypeOK
    BY TypeInit
  <1>2. NeededHasFile
    <2> SUFFICES ASSUME NEW d \in Digests, Needed(d) PROVE d \in files /\ blobs[d] # "none"
      BY DEF NeededHasFile
    <2>1. PICK a \in attachments : a.digest = d
      BY DEF Init, Needed
    <2> QED BY <2>1, LegacyAttachments
  <1>3. ForeignKeys
    BY LegacyAttachments DEF Init, ForeignKeys
  <1>4. SweptIsUnneeded
    BY DEF Init, SweptIsUnneeded
  <1> QED BY <1>1, <1>2, <1>3, <1>4 DEF BlobInv

(* A step that moves no reference, keeps every row's mark set or not, and   *)
(* keeps every needed file.                                                 *)
LEMMA SameContentKeepsInv ==
  ASSUME BlobInv, TypeOK', UNCHANGED content,
         \A d \in Digests : blobs[d] # "none" => blobs'[d] # "none",
         \A d \in Digests : d \in files /\ Needed(d) => d \in files',
         SweptIsUnneeded'
  PROVE  BlobInv'
  <1>1. NeededHasFile'
    BY SameContent DEF BlobInv, NeededHasFile
  <1>2. ForeignKeys'
    <2>1. /\ \A v \in versions : v.digest \in Digests
          /\ \A c \in conflicts : c.digest \in Digests
          /\ \A a \in attachments : a.digest \in Digests
      BY DEF BlobInv, TypeOK, Version, Conflict, Attachment
    <2> QED BY <2>1 DEF BlobInv, ForeignKeys, content
  <1> QED BY <1>1, <1>2 DEF BlobInv

(* A content transaction claims its digest and adds rows for it alone.      *)
LEMMA ClaimKeepsInv ==
  ASSUME BlobInv, TypeOK', NEW h \in Handlers, MayCommit(h, job[h].kind),
         claimBlob(job[h].digest), UNCHANGED <<files, current, refs>>,
         \A v \in versions' : v \in versions \/ v.digest = job[h].digest,
         \A c \in conflicts' : c \in conflicts \/ c.digest = job[h].digest,
         \A a \in attachments' : a \in attachments \/ a.digest = job[h].digest
  PROVE  BlobInv'
  <1> DEFINE d0 == job[h].digest
  <1>1. d0 \in Digests /\ d0 \in files /\ WriteLockFree
    BY BusyJob DEF BlobInv, MayCommit
  <1>2. blobs'[d0] = "clear" /\ \A d \in Digests : d # d0 => blobs'[d] = blobs[d]
    BY <1>1 DEF claimBlob, BlobInv, TypeOK
  <1>3. NeededHasFile'
    <2> SUFFICES ASSUME NEW d \in Digests, Needed(d)', d # d0 PROVE Needed(d)
      BY <1>1, <1>2 DEF NeededHasFile, BlobInv
    <2> QED BY DEF Needed, Kept, Linked
  <1>4. ForeignKeys'
    <2>1. /\ \A v \in versions' : v.digest \in Digests
          /\ \A c \in conflicts' : c.digest \in Digests
          /\ \A a \in attachments' : a.digest \in Digests
      BY DEF TypeOK, Version, Conflict, Attachment
    <2> QED BY <1>2, <2>1 DEF BlobInv, ForeignKeys
  <1>5. SweptIsUnneeded'
    BY <1>1 DEF SweptIsUnneeded, WriteLockFree
  <1> QED BY <1>3, <1>4, <1>5 DEF BlobInv

(* Steps that change no reference and no mark, and remove no file.          *)
LEMMA QuietKeepsInv ==
  ASSUME BlobInv, TypeOK', UNCHANGED content, UNCHANGED blobs, files \subseteq files',
         \A g \in Collectors : current'[g] \in {current[g], NoDigest}
  PROVE  BlobInv'
  <1>1. SweptIsUnneeded'
    BY SameContent DEF BlobInv, SweptIsUnneeded
  <1> QED BY <1>1, SameContentKeepsInv

(* Every step of a request handler keeps the invariant.                     *)
LEMMA HandlerKeepsInv ==
  ASSUME BlobInv, TypeOK', NEW h \in Handlers, HandlerStep(h)
  PROVE  BlobInv'
  <1>1. CASE (\E o \in Objects, d \in Digests : BeginSave(h, o, d))
             \/ (\E j \in UploadJobs : BeginUpload(h, j))
    BY <1>1, QuietKeepsInv DEF BeginSave, BeginUpload
  <1>2. CASE MoveSave(h) \/ MoveUpload(h)
    BY <1>2, QuietKeepsInv DEF MoveSave, MoveUpload, TempFinalize
  <1>3. CASE AbortBeforeMove(h) \/ ClaimFails(h) \/ CommitFails(h)
    BY <1>3, QuietKeepsInv DEF AbortBeforeMove, ClaimFails, CommitFails
  <1>4. CASE CommitVersion(h)
    BY <1>4, ClaimKeepsInv DEF CommitVersion, MayCommit
  <1>5. CASE \E id \in ConflictIds : CommitConflict(h, id)
    BY <1>5, ClaimKeepsInv DEF CommitConflict, MayCommit
  <1>6. CASE CommitPreview(h)
    BY <1>6, ClaimKeepsInv DEF CommitPreview, MayCommit, content
  <1>7. CASE CommitAttachment(h)
    <2>1. \A a \in attachments' : a \in attachments \/ a.digest = job[h].digest
      <3>1. \A a \in SameBytes(job[h]) : a \in Attachment /\ a.digest = job[h].digest
        BY DEF SameBytes, BlobInv, TypeOK
      <3>2. \A x \in Revive(SameBytes(job[h])) : x.digest = job[h].digest
        BY <3>1 DEF Revive, Attachment
      <3> QED BY <1>7, <3>2 DEF CommitAttachment
    <2> QED BY <1>7, <2>1, ClaimKeepsInv DEF CommitAttachment, MayCommit
  <1>8. CASE Refuse(h)
    \* Only a file no blobs row claims is dropped, and needed digests are claimed.
    <2>1. job[h].digest \in Digests /\ WriteLockFree
      BY <1>8, BusyJob DEF Refuse, BlobInv
    <2>2. \A d \in Digests : d \in files /\ Needed(d) => d \in files'
      BY <1>8, <2>1 DEF Refuse, dropUnclaimed, BlobInv, NeededHasFile
    <2>3. SweptIsUnneeded'
      BY <1>8, <2>1 DEF Refuse, SweptIsUnneeded, WriteLockFree
    <2> QED BY <1>8, <2>2, <2>3, SameContentKeepsInv DEF Refuse
  <1> QED BY <1>1, <1>2, <1>3, <1>4, <1>5, <1>6, <1>7, <1>8 DEF HandlerStep

(* Links, resolutions and deletions keep the invariant.                     *)
LEMMA UserKeepsInv ==
  ASSUME BlobInv, TypeOK', UserStep
  PROVE  BlobInv'
  <1> USE DEF WriteLockFree
  <1>0. attachments \subseteq Attachment /\ conflicts \subseteq Conflict
    BY DEF BlobInv, TypeOK
  <1>1. ASSUME NEW p \in previews, CancelPreview(p) PROVE BlobInv'
    BY <1>1, QuietKeepsInv DEF CancelPreview
  <1>2. ASSUME NEW o \in Objects, NEW a \in attachments, LinkAttachment(o, a) PROVE BlobInv'
    \* The attachment is live, so its digest was needed before the link.
    <2>1. Needed(a.digest)
      BY <1>2 DEF LinkAttachment, Needed, Kept
    <2>2. \A r \in refs' : r \in refs \/ r = [object |-> o, digest |-> a.digest]
      BY <1>2 DEF LinkAttachment
    <2>3. \A b \in attachments : Kept(b)' => Kept(b) \/ b.digest = a.digest
      BY <2>2 DEF Kept, Linked
    <2>4. \A d : Needed(d)' => Needed(d)
      BY <1>2, <2>1, <2>3 DEF LinkAttachment, Needed
    <2>5. NeededHasFile'
      BY <1>2, <2>4 DEF LinkAttachment, BlobInv, NeededHasFile
    <2>6. ForeignKeys' /\ SweptIsUnneeded'
      BY <1>2 DEF LinkAttachment, BlobInv, ForeignKeys, SweptIsUnneeded
    <2> QED BY <2>5, <2>6 DEF BlobInv
  <1>3. ASSUME NEW r \in refs, UnlinkAttachment(r) PROVE BlobInv'
    <2>1. FewerRows
      BY <1>3 DEF UnlinkAttachment, FewerRows
    <2> QED BY <1>3, <2>1, FewerRowsKeepInv DEF UnlinkAttachment
  <1>4. ASSUME NEW c \in conflicts, ResolveConflict(c) PROVE BlobInv'
    <2>1. c \in Conflict
      BY <1>0
    <2>2. [c EXCEPT !.open = FALSE].digest = c.digest /\ [c EXCEPT !.open = FALSE].open = FALSE
      BY <2>1 DEF Conflict
    <2>3. FewerRows
      BY <1>4, <2>2 DEF ResolveConflict, FewerRows
    <2> QED BY <1>4, <2>3, FewerRowsKeepInv DEF ResolveConflict
  <1>5. ASSUME NEW o \in Objects, DeleteObject(o) PROVE BlobInv'
    <2>1. OnlyLinkedBy(o) \subseteq attachments
      BY DEF OnlyLinkedBy
    <2>2. \A x \in attachments' : \E b \in attachments :
            /\ b.container = x.container /\ b.digest = x.digest
            /\ x.live => b.live
      BY <1>0, <1>5, <2>1, TombstoneRows DEF DeleteObject
    <2>3. FewerRows
      BY <1>5, <2>2 DEF DeleteObject, FewerRows
    <2> QED BY <1>5, <2>3, FewerRowsKeepInv DEF DeleteObject
  <1>6. ASSUME NEW c \in Containers, DeleteContainer(c) PROVE BlobInv'
    <2>1. InContainer(c) \subseteq attachments
      BY DEF InContainer
    <2>2. \A x \in attachments' : \E b \in attachments :
            /\ b.container = x.container /\ b.digest = x.digest
            /\ x.live => b.live
      BY <1>0, <1>6, <2>1, TombstoneRows DEF DeleteContainer
    <2>3. FewerRows
      BY <1>6, <2>2 DEF DeleteContainer, FewerRows
    <2> QED BY <1>6, <2>3, FewerRowsKeepInv DEF DeleteContainer
  <1> QED BY <1>1, <1>2, <1>3, <1>4, <1>5, <1>6 DEF UserStep

(* Every step of a collector keeps the invariant.                           *)
LEMMA GCKeepsInv ==
  ASSUME BlobInv, TypeOK', NEW g \in Collectors, GCStep(g)
  PROVE  BlobInv'
  <1>0. attachments \subseteq Attachment /\ conflicts \subseteq Conflict /\ versions \subseteq Version
    BY DEF BlobInv, TypeOK
  <1>1. CASE GCFinishDeletions(g)
    <2>1. Orphaned \subseteq attachments
      BY DEF Orphaned
    <2>2. \A x \in attachments' : \E b \in attachments :
            /\ b.container = x.container /\ b.digest = x.digest
            /\ x.live => b.live
      BY <1>0, <1>1, <2>1, TombstoneRows DEF GCFinishDeletions
    <2>3. FewerRows
      BY <1>1, <2>2 DEF GCFinishDeletions, FewerRows
    <2> QED BY <1>1, <2>3, FewerRowsKeepInv DEF GCFinishDeletions, WriteLockFree
  <1>2. CASE GCSelect(g) \/ \E d \in Digests : SweepSkip(g, d)
    BY <1>2, QuietKeepsInv DEF GCSelect, SweepSkip
  <1>3. ASSUME NEW d \in Digests, SweepDeleteFile(g, d) PROVE BlobInv'
    <2>1. unreferenced(d) /\ ~Needed(d)
      BY <1>3 DEF SweepDeleteFile, Sweepable, unreferenced
    <2>2. SweptIsUnneeded'
      BY <1>3, <2>1, SameContent DEF SweepDeleteFile, SweptIsUnneeded, WriteLockFree, BlobInv, TypeOK
    <2> QED BY <1>3, <2>1, <2>2, SameContentKeepsInv DEF SweepDeleteFile
  <1>4. CASE SweepCommit(g)
    \* Tombstones go with the row; a row that is not one would need the blob.
    <2> DEFINE d0 == current[g]
    <2>1. unreferenced(d0) /\ ~Needed(d0) /\ d0 \in Digests
      BY <1>4 DEF SweepCommit, BlobInv, SweptIsUnneeded, unreferenced, TypeOK
    <2>2. FewerRows
      BY <1>4 DEF SweepCommit, FewerRows
    <2>3. \A d \in Digests : d # d0 => blobs'[d] = blobs[d]
      BY <1>4 DEF SweepCommit, BlobInv, TypeOK
    <2>4. NeededHasFile'
      BY <1>4, <2>1, <2>2, <2>3, FewerNeeded DEF SweepCommit, BlobInv, NeededHasFile
    <2>5. /\ \A v \in versions' : v \in versions /\ v.digest \in Digests /\ v.digest # d0
          /\ \A c \in conflicts' : c \in conflicts /\ c.digest \in Digests /\ c.digest # d0
          /\ \A a \in attachments' : a \in attachments /\ a.digest \in Digests /\ a.digest # d0
      <3>1. \A v \in versions' : v \in versions /\ v.digest \in Digests /\ v.digest # d0
        BY <1>0, <1>4, <2>1 DEF SweepCommit, Needed, Version
      <3>2. \A c \in conflicts' : c \in conflicts /\ c.digest \in Digests /\ c.digest # d0
        BY <1>0, <1>4, <2>1 DEF SweepCommit, Needed, Conflict
      <3>3. \A a \in attachments' : a \in attachments /\ a.digest \in Digests /\ a.digest # d0
        BY <1>0, <1>4, <2>1 DEF SweepCommit, Needed, Kept, Attachment
      <3> QED BY <3>1, <3>2, <3>3
    <2>6. ForeignKeys'
      BY <2>3, <2>5 DEF BlobInv, ForeignKeys
    <2>7. SweptIsUnneeded'
      <3>1. \A d : unreferenced(d) => unreferenced(d)'
        BY <1>4 DEF SweepCommit, unreferenced, Needed, Kept, Linked
      <3>2. \A k \in Collectors : current'[k] \in {current[k], NoDigest}
        BY <1>4 DEF SweepCommit, BlobInv, TypeOK
      <3> QED BY <3>1, <3>2 DEF SweptIsUnneeded, BlobInv
    <2> QED BY <2>4, <2>6, <2>7 DEF BlobInv
  <1>5. CASE GCClear(g) \/ GCMark(g)
    <2>1. SweptIsUnneeded'
      BY <1>5, SameContent DEF GCClear, GCMark, SweptIsUnneeded, BlobInv
    <2>2. \A d \in Digests : blobs[d] # "none" => blobs'[d] # "none"
      BY <1>5 DEF GCClear, GCMark
    <2> QED BY <1>5, <2>1, <2>2, SameContentKeepsInv DEF GCClear, GCMark
  <1> QED BY <1>1, <1>2, <1>3, <1>4, <1>5 DEF GCStep

(* Elapsed retention periods, failed commits, dead passes and crashes keep  *)
(* the invariant.                                                           *)
LEMMA OtherKeepsInv ==
  ASSUME BlobInv, TypeOK', (\E d \in Digests : Retention(d)) \/ FaultStep
  PROVE  BlobInv'
  <1>1. ASSUME NEW d \in Digests, Retention(d) PROVE BlobInv'
    <2>1. SweptIsUnneeded'
      BY <1>1, SameContent DEF Retention, BlobInv, SweptIsUnneeded
    <2>2. \A e \in Digests : blobs[e] # "none" => blobs'[e] # "none"
      BY <1>1 DEF Retention, BlobInv, TypeOK
    <2> QED BY <1>1, <2>1, <2>2, SameContentKeepsInv DEF Retention
  <1>2. ASSUME NEW g \in Collectors, SweepRollback(g) \/ PassDies(g) PROVE BlobInv'
    <2>1. \A k \in Collectors : current'[k] \in {current[k], NoDigest}
      BY <1>2 DEF SweepRollback, PassDies, EndPass, BlobInv, TypeOK
    <2> QED BY <1>2, <2>1, QuietKeepsInv DEF SweepRollback, PassDies
  <1>3. CASE Crash
    <2>1. \A k \in Collectors : current'[k] \in {current[k], NoDigest}
      BY <1>3 DEF Crash, EndPass, BlobInv, TypeOK
    <2> QED BY <1>3, <2>1, QuietKeepsInv DEF Crash
  <1>4. CASE \E g \in Collectors, d \in Digests : SweepFails(g, d)
    BY <1>4, QuietKeepsInv DEF SweepFails
  <1> QED BY <1>1, <1>2, <1>3, <1>4 DEF FaultStep

(* Every step keeps the invariant.                                          *)
LEMMA InvStep == BlobInv /\ [Next]_vars => BlobInv'
  <1> SUFFICES ASSUME BlobInv, [Next]_vars PROVE BlobInv'
    OBVIOUS
  <1>1. TypeOK'
    BY TypeStep DEF BlobInv
  <1>2. CASE UNCHANGED vars
    BY <1>1, <1>2, QuietKeepsInv DEF vars, content
  <1>3. CASE Next
    BY <1>1, <1>3, HandlerKeepsInv, UserKeepsInv, GCKeepsInv, OtherKeepsInv DEF Next
  <1> QED BY <1>2, <1>3

(* For every number of notebooks, pages, digests, handlers and faults: no   *)
(* interleaving of saves, uploads, deletions, sweeps and crashes loses the  *)
(* file or the row of a version, an open conflict or a kept attachment.     *)
THEOREM ContentIsNeverLost == Spec => []NeededHasFile
  <1>1. BlobInv => NeededHasFile
    BY DEF BlobInv
  <1> QED BY <1>1, InvInit, InvStep, PTL DEF Spec

(* sweepBlob removes the tombstones of the digest it drops, so no row ever  *)
(* references a missing blobs row.                                          *)
THEOREM ForeignKeysHold == Spec => []ForeignKeys
  <1>1. BlobInv => ForeignKeys
    BY DEF BlobInv
  <1> QED BY <1>1, InvInit, InvStep, PTL DEF Spec

(* While a sweep's transaction is open, nothing comes to reference the blob *)
(* whose file it has removed.                                               *)
THEOREM SweepIsIsolated == Spec => []SweptIsUnneeded
  <1>1. BlobInv => SweptIsUnneeded
    BY DEF BlobInv
  <1> QED BY <1>1, InvInit, InvStep, PTL DEF Spec

-----------------------------------------------------------------------------
(* Marks and uses (BlobHistory). *)

Marked(d) == blobs[d] \in {"fresh", "aged"}

(* A mark is set on what is not needed, or stays on what has not come to be *)
(* needed.                                                                  *)
MarksHold ==
  \A d \in Digests : Marked(d)' =>
    \/ JustMarked(d) /\ ~Needed(d)'
    \/ Marked(d) /\ (Needed(d)' => Needed(d))

(* A step that sets no mark and makes nothing needed.                       *)
LEMMA QuietMarks ==
  ASSUME UNCHANGED blobs, \A d : Needed(d)' => Needed(d)
  PROVE  MarksHold
  BY DEF MarksHold, Marked

(* A sweep stays as it was, or ends, while no mark changes.                 *)
LEMMA QuietSweeps ==
  ASSUME SweepsAged, UNCHANGED blobs, \A g \in Collectors : current'[g] \in {current[g], NoDigest}
  PROVE  SweepsAged'
  BY DEF SweepsAged

(* A transaction leaves no sweep open when none was.                        *)
LEMMA NoSweep ==
  ASSUME WriteLockFree, UNCHANGED current
  PROVE  SweepsAged'
  BY DEF WriteLockFree, SweepsAged

(* A content transaction clears the mark of the digest it makes needed.     *)
LEMMA ClaimMarks ==
  ASSUME BlobInv, NEW h \in Handlers, MayCommit(h, job[h].kind),
         claimBlob(job[h].digest), UNCHANGED <<current, refs>>,
         \A v \in versions' : v \in versions \/ v.digest = job[h].digest,
         \A c \in conflicts' : c \in conflicts \/ c.digest = job[h].digest,
         \A a \in attachments' : a \in attachments \/ a.digest = job[h].digest
  PROVE  MarksHold /\ SweepsAged'
  <1> DEFINE d0 == job[h].digest
  <1>1. d0 \in Digests /\ WriteLockFree
    BY BusyJob DEF BlobInv, MayCommit
  <1>2. blobs'[d0] = "clear" /\ \A d \in Digests : d # d0 => blobs'[d] = blobs[d]
    BY <1>1 DEF claimBlob, BlobInv, TypeOK
  <1>3. \A d \in Digests : d # d0 /\ Needed(d)' => Needed(d)
    BY DEF Needed, Kept, Linked
  <1>4. MarksHold
    BY <1>2, <1>3 DEF MarksHold, Marked
  <1> QED BY <1>1, <1>4, NoSweep

(* Every step of a request handler keeps the marks.                         *)
LEMMA HandlerMarks ==
  ASSUME BlobInv, SweepsAged, NEW h \in Handlers, HandlerStep(h)
  PROVE  MarksHold /\ SweepsAged'
  <1>1. CASE \/ \E o \in Objects, d \in Digests : BeginSave(h, o, d)
             \/ \E j \in UploadJobs : BeginUpload(h, j)
             \/ MoveSave(h) \/ MoveUpload(h) \/ AbortBeforeMove(h)
             \/ ClaimFails(h) \/ CommitFails(h) \/ Refuse(h)
    <2>1. UNCHANGED <<content, blobs, current>>
      BY <1>1 DEF BeginSave, BeginUpload, MoveSave, MoveUpload, AbortBeforeMove, ClaimFails, CommitFails, Refuse
    <2> QED BY <2>1, SameContent, QuietMarks, QuietSweeps
  <1>2. CASE CommitVersion(h)
    BY <1>2, ClaimMarks DEF CommitVersion, MayCommit
  <1>3. CASE \E id \in ConflictIds : CommitConflict(h, id)
    BY <1>3, ClaimMarks DEF CommitConflict, MayCommit
  <1>4. CASE CommitPreview(h)
    BY <1>4, ClaimMarks DEF CommitPreview, MayCommit, content
  <1>5. CASE CommitAttachment(h)
    <2>1. \A a \in SameBytes(job[h]) : a \in Attachment /\ a.digest = job[h].digest
      BY DEF SameBytes, BlobInv, TypeOK
    <2>2. \A x \in Revive(SameBytes(job[h])) : x.digest = job[h].digest
      BY <2>1 DEF Revive, Attachment
    <2>3. \A a \in attachments' : a \in attachments \/ a.digest = job[h].digest
      BY <1>5, <2>2 DEF CommitAttachment
    <2> QED BY <1>5, <2>3, ClaimMarks DEF CommitAttachment, MayCommit
  <1> QED BY <1>1, <1>2, <1>3, <1>4, <1>5 DEF HandlerStep

(* Links, resolutions and deletions make nothing needed.                    *)
LEMMA UserMarks ==
  ASSUME BlobInv, SweepsAged, UserStep
  PROVE  MarksHold /\ SweepsAged'
  <1>0. attachments \subseteq Attachment /\ conflicts \subseteq Conflict
    BY DEF BlobInv, TypeOK
  <1>1. UNCHANGED <<blobs, current>>
    BY DEF UserStep, CancelPreview, LinkAttachment, UnlinkAttachment, ResolveConflict, DeleteObject, DeleteContainer
  <1>2. \A d : Needed(d)' => Needed(d)
    <2>1. ASSUME NEW p \in previews, CancelPreview(p) PROVE \A d : Needed(d)' => Needed(d)
      BY <2>1, SameContent DEF CancelPreview
    <2>2. ASSUME NEW o \in Objects, NEW a \in attachments, LinkAttachment(o, a) PROVE \A d : Needed(d)' => Needed(d)
      <3>1. Needed(a.digest)
        BY <2>2 DEF LinkAttachment, Needed, Kept
      <3>2. \A r \in refs' : r \in refs \/ r = [object |-> o, digest |-> a.digest]
        BY <2>2 DEF LinkAttachment
      <3>3. \A b \in attachments : Kept(b)' => Kept(b) \/ b.digest = a.digest
        BY <3>2 DEF Kept, Linked
      <3> QED BY <2>2, <3>1, <3>3 DEF LinkAttachment, Needed
    <2>3. ASSUME NEW r \in refs, UnlinkAttachment(r) PROVE FewerRows
      BY <2>3 DEF UnlinkAttachment, FewerRows
    <2>4. ASSUME NEW c \in conflicts, ResolveConflict(c) PROVE FewerRows
      <3>1. c \in Conflict
        BY <1>0
      <3>2. [c EXCEPT !.open = FALSE].digest = c.digest /\ [c EXCEPT !.open = FALSE].open = FALSE
        BY <3>1 DEF Conflict
      <3> QED BY <2>4, <3>2 DEF ResolveConflict, FewerRows
    <2>5. ASSUME NEW o \in Objects, DeleteObject(o) PROVE FewerRows
      <3>1. OnlyLinkedBy(o) \subseteq attachments
        BY DEF OnlyLinkedBy
      <3>2. \A x \in attachments' : \E b \in attachments :
              /\ b.container = x.container /\ b.digest = x.digest
              /\ x.live => b.live
        BY <1>0, <2>5, <3>1, TombstoneRows DEF DeleteObject
      <3> QED BY <2>5, <3>2 DEF DeleteObject, FewerRows
    <2>6. ASSUME NEW c \in Containers, DeleteContainer(c) PROVE FewerRows
      <3>1. InContainer(c) \subseteq attachments
        BY DEF InContainer
      <3>2. \A x \in attachments' : \E b \in attachments :
              /\ b.container = x.container /\ b.digest = x.digest
              /\ x.live => b.live
        BY <1>0, <2>6, <3>1, TombstoneRows DEF DeleteContainer
      <3> QED BY <2>6, <3>2 DEF DeleteContainer, FewerRows
    <2> QED BY <2>1, <2>2, <2>3, <2>4, <2>5, <2>6, FewerNeeded DEF UserStep
  <1> QED BY <1>1, <1>2, QuietMarks, QuietSweeps

(* Every step of a collector keeps the marks: it marks what is not needed,  *)
(* and sweeps what it finds marked and past its retention period.           *)
LEMMA CollectorMarks ==
  ASSUME BlobInv, SweepsAged, NEW g \in Collectors, GCStep(g)
  PROVE  MarksHold /\ SweepsAged'
  <1>0. /\ attachments \subseteq Attachment /\ current \in [Collectors -> Digests \cup {NoDigest}]
        /\ blobs \in [Digests -> Row]
    BY DEF BlobInv, TypeOK
  <1>1. CASE GCFinishDeletions(g)
    <2>1. Orphaned \subseteq attachments
      BY DEF Orphaned
    <2>2. \A x \in attachments' : \E b \in attachments :
            /\ b.container = x.container /\ b.digest = x.digest
            /\ x.live => b.live
      BY <1>0, <1>1, <2>1, TombstoneRows DEF GCFinishDeletions
    <2>3. FewerRows
      BY <1>1, <2>2 DEF GCFinishDeletions, FewerRows
    <2>4. UNCHANGED <<blobs, current>>
      BY <1>1 DEF GCFinishDeletions
    <2> QED BY <2>3, <2>4, FewerNeeded, QuietMarks, QuietSweeps
  <1>2. CASE GCSelect(g) \/ \E d \in Digests : SweepSkip(g, d)
    <2>1. UNCHANGED <<content, blobs, current>>
      BY <1>2 DEF GCSelect, SweepSkip
    <2> QED BY <2>1, SameContent, QuietMarks, QuietSweeps
  <1>3. ASSUME NEW d \in Digests, SweepDeleteFile(g, d) PROVE MarksHold /\ SweepsAged'
    <2>1. UNCHANGED <<content, blobs>> /\ blobs[d] = "aged" /\ WriteLockFree
      BY <1>3 DEF SweepDeleteFile, Sweepable
    <2>2. \A k \in Collectors : current'[k] = IF k = g THEN d ELSE NoDigest
      BY <1>0, <1>3, <2>1 DEF SweepDeleteFile, WriteLockFree
    <2> QED BY <2>1, <2>2, SameContent, QuietMarks DEF SweepsAged
  <1>4. CASE SweepCommit(g)
    <2>1. FewerRows
      BY <1>4 DEF SweepCommit, FewerRows
    <2>2. \A d \in Digests : blobs'[d] \in {blobs[d], "none"}
      BY <1>0, <1>4 DEF SweepCommit
    <2>3. MarksHold
      BY <2>1, <2>2, FewerNeeded DEF MarksHold, Marked
    <2>4. current'[g] = NoDigest /\ \A k \in Collectors \ {g} : current'[k] = current[k]
      BY <1>0, <1>4 DEF SweepCommit
    <2>5. \A k \in Collectors : current'[k] = NoDigest
      BY <1>4, <2>4 DEF SweepCommit, SweepsAged
    <2> QED BY <2>3, <2>5 DEF SweepsAged
  <1>5. CASE GCClear(g) \/ GCMark(g)
    <2>1. UNCHANGED content /\ UNCHANGED current /\ WriteLockFree
      BY <1>5 DEF GCClear, GCMark
    <2>2. \A d \in Digests : Marked(d)' => (JustMarked(d) /\ ~Needed(d)) \/ Marked(d)
      BY <1>0, <1>5 DEF GCClear, GCMark, Marked, JustMarked, unreferenced, Row
    <2> QED BY <2>1, <2>2, SameContent, NoSweep DEF MarksHold
  <1> QED BY <1>1, <1>2, <1>3, <1>4, <1>5 DEF GCStep

(* Elapsed retention periods, failed commits, dead passes and crashes set   *)
(* no mark and open no sweep.                                               *)
LEMMA OtherMarks ==
  ASSUME BlobInv, SweepsAged, (\E d \in Digests : Retention(d)) \/ FaultStep
  PROVE  MarksHold /\ SweepsAged'
  <1>0. current \in [Collectors -> Digests \cup {NoDigest}] /\ blobs \in [Digests -> Row]
    BY DEF BlobInv, TypeOK
  <1>1. ASSUME NEW d \in Digests, Retention(d) PROVE MarksHold /\ SweepsAged'
    <2>1. UNCHANGED <<content, current>> /\ blobs[d] = "fresh" /\ blobs' = [blobs EXCEPT ![d] = "aged"]
      BY <1>1 DEF Retention
    <2>2. \A e \in Digests : Marked(e)' => Marked(e)
      BY <1>0, <2>1 DEF Marked
    <2>3. \A e \in Digests : blobs[e] = "aged" => blobs'[e] = "aged"
      BY <1>0, <2>1
    <2>4. SweepsAged'
      BY <1>0, <2>1, <2>3 DEF SweepsAged
    <2> QED BY <2>1, <2>2, <2>4, SameContent DEF MarksHold
  <1>2. CASE FaultStep
    <2>1. UNCHANGED <<content, blobs>>
      BY <1>2 DEF FaultStep, SweepFails, SweepRollback, PassDies, Crash
    <2>2. \A k \in Collectors : current'[k] \in {current[k], NoDigest}
      BY <1>0, <1>2 DEF FaultStep, SweepFails, SweepRollback, PassDies, Crash, EndPass
    <2> QED BY <2>1, <2>2, SameContent, QuietMarks, QuietSweeps
  <1> QED BY <1>1, <1>2

(* The history, like the marks, holds what the theorem needs.               *)
LEMMA HistoryStep ==
  BlobInv /\ SweepsAged /\ TouchedUnmarked /\ [HNext]_<<vars, touched>> => SweepsAged' /\ TouchedUnmarked'
  <1> SUFFICES ASSUME BlobInv, SweepsAged, TouchedUnmarked, [HNext]_<<vars, touched>>
               PROVE  SweepsAged' /\ TouchedUnmarked'
    OBVIOUS
  <1>1. CASE UNCHANGED <<vars, touched>>
    <2>1. UNCHANGED <<content, blobs, current, touched>>
      BY <1>1 DEF vars, content
    <2>2. TouchedUnmarked'
      BY <2>1, SameContent DEF TouchedUnmarked
    <2> QED BY <2>1, <2>2, QuietSweeps
  <1>2. CASE HNext
    <2>1. MarksHold /\ SweepsAged'
      BY <1>2, HandlerMarks, UserMarks, CollectorMarks, OtherMarks DEF HNext, Next
    <2>2. blobs' \in [Digests -> Row]
      BY <1>2, TypeStep DEF HNext, BlobInv, TypeOK
    <2>3. touched' = {d \in Digests : Needed(d)' \/ (d \in touched /\ ~JustMarked(d))}
      BY <1>2 DEF HNext, HStep
    <2>4. ASSUME NEW d \in touched' PROVE blobs'[d] \in {"none", "clear"}
      <3>1. CASE Marked(d)'
        BY <2>1, <2>3, <2>4, <3>1 DEF MarksHold, TouchedUnmarked, Marked
      <3> QED BY <2>2, <2>3, <2>4, <3>1 DEF Row, Marked
    <2> QED BY <2>1, <2>3, <2>4 DEF TouchedUnmarked
  <1> QED BY <1>1, <1>2

(* The history invariant holds when the server starts.                      *)
LEMMA HistoryInit == HInit => BlobInv /\ SweepsAged /\ TouchedUnmarked
  <1> SUFFICES ASSUME HInit PROVE BlobInv /\ SweepsAged /\ TouchedUnmarked
    OBVIOUS
  <1>1. BlobInv /\ SweepsAged
    BY InvInit DEF HInit, Init, SweepsAged
  <1>2. \A d \in Digests : blobs[d] \in {"none", "clear"}
    BY DEF HInit, Init
  <1> QED BY <1>1, <1>2 DEF HInit, TouchedUnmarked

(* However saves, uploads, deletions and any number of collectors           *)
(* interleave, no blob is swept on the strength of a mark that predates a   *)
(* use of it: every use restarts the retention period.                      *)
THEOREM UseRestartsRetention == HSpec => []RetentionRestarts
  <1>1. BlobInv /\ [HNext]_<<vars, touched>> => BlobInv'
    BY InvStep DEF HNext
  <1>2. SweepsAged /\ TouchedUnmarked => RetentionRestarts
    BY NoDigestAssumption DEF SweepsAged, TouchedUnmarked, RetentionRestarts
  <1> QED BY <1>1, <1>2, HistoryInit, HistoryStep, PTL DEF HSpec
=============================================================================
