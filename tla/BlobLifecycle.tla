--------------------------- MODULE BlobLifecycle ---------------------------
(***************************************************************************)
(* Ciphertext blobs: content-addressed files on disk, the SQLite rows that *)
(* reference them, the request handlers that create both, and the garbage  *)
(* collector that reclaims them.                                           *)
(*                                                                         *)
(* A handler first moves its bytes to blobs/<digest> with no database lock *)
(* held, and only then opens a write transaction that claims the digest.   *)
(* SQLite is opened with _txlock=immediate, so write transactions exclude  *)
(* each other: each one is a single action here.  The exception is the     *)
(* sweep, whose file removal precedes its commit and may be separated from *)
(* it by a crash; it is two actions, and between them no other transaction *)
(* runs while file moves still do.  The server's ticker runs one collector *)
(* and the gc command, which takes no lock, may run others beside it.      *)
(***************************************************************************)
EXTENDS Naturals

CONSTANTS
  Containers,   \* notebooks
  Objects,      \* pages
  Digests,      \* sha-256 digests of ciphertexts
  Handlers,     \* concurrent request handlers (PUT object, POST finalize)
  Collectors,   \* the server's collector and any gc commands
  Ticker,       \* the server's own collector
  ConflictIds,  \* identifiers minted for conflict copies
  NoDigest,     \* the empty digest string ''
  home,         \* home[o]: objects.container_id
  RequestKinds, \* which of "save", "preview", "attachment" requests are made
  MaxFaults     \* bound on crashes and failed commits

ASSUME HomeAssumption == home \in [Objects -> Containers]
ASSUME NoDigestAssumption == NoDigest \notin Digests
ASSUME TickerAssumption == Ticker \in Collectors
ASSUME KindsAssumption == RequestKinds \subseteq {"save", "preview", "attachment"}
ASSUME FaultsAssumption == MaxFaults \in Nat

VARIABLES
  container,    \* containers.deleted_at, as "live" or "deleted"
  object,       \* objects.deleted_at, likewise
  versions,     \* object_versions rows, as (object, blob_digest)
  conflicts,    \* conflicts rows
  attachments,  \* attachments rows; unique on (container_id, blob_digest)
  refs,         \* attachment_refs rows, as (object, attachment's blob_digest)
  previews,     \* upload_sessions rows of kind preview and status finalized
  blobs,        \* blobs row of each digest and its unreferenced_since mark
  files,        \* digests that have a file under blobs/
  pc,           \* what each handler has done of its request
  job,          \* the request each handler serves
  gcpc,         \* where each collector is in its pass
  todo,         \* sweep candidates each pass has still to look at
  current,      \* the digest whose sweep transaction a collector has open
  faults        \* crashes and failed commits so far

content == <<versions, conflicts, attachments, refs>>
vars == <<container, object, versions, conflicts, attachments, refs, previews,
          blobs, files, pc, job, gcpc, todo, current, faults>>

Version == [object : Objects, digest : Digests]
Conflict == [id : ConflictIds, object : Objects, digest : Digests, open : BOOLEAN]
Attachment == [container : Containers, digest : Digests,
               preview : Digests \cup {NoDigest}, live : BOOLEAN]
Ref == [object : Objects, digest : Digests]
Preview == [container : Containers, digest : Digests]

SaveJob == [kind : {"save"}, object : Objects, digest : Digests]
PreviewJob == [kind : {"preview"}, container : Containers, digest : Digests]
AttachmentJob == [kind : {"attachment"}, container : Containers, digest : Digests,
                  preview : Digests \cup {NoDigest}]
NoJob == [kind |-> "none"]

(* A blobs row is absent, or present with its mark clear, set ("fresh"), or *)
(* set and older than the retention period ("aged").                        *)
Row == {"none", "clear", "fresh", "aged"}

-----------------------------------------------------------------------------
(* What keeps a blob.                                                       *)

Linked(a) == \E r \in refs : home[r.object] = a.container /\ r.digest = a.digest
Kept(a) == a.live \/ Linked(a)

(* d is the content of a version, an open conflict or a kept attachment.    *)
Needed(d) ==
  \/ \E v \in versions : v.digest = d
  \/ \E c \in conflicts : c.digest = d /\ c.open
  \/ \E a \in attachments : a.digest = d /\ Kept(a)

unreferenced(d) ==
  /\ ~Needed(d)
  /\ ~ \E a \in attachments : a.preview = d /\ Kept(a)

(* A sweep's transaction holds the database write lock.                     *)
WriteLockFree == \A g \in Collectors : current[g] = NoDigest

-----------------------------------------------------------------------------
Init ==
  /\ container \in [Containers -> {"live", "deleted"}]
  /\ object = [o \in Objects |-> container[home[o]]]
  /\ versions = {}
  /\ conflicts = {}
     \* An older release may have left live attachments in a deleted notebook.
  /\ attachments \in {{}} \cup
       {{[container |-> c, digest |-> d, preview |-> NoDigest, live |-> TRUE]} :
          c \in {x \in Containers : container[x] = "deleted"}, d \in Digests}
  /\ refs = {}
  /\ previews = {}
  /\ blobs = [d \in Digests |->
       IF \E a \in attachments : a.digest = d THEN "clear" ELSE "none"]
  /\ files = {d \in Digests : \E a \in attachments : a.digest = d}
  /\ pc = [h \in Handlers |-> "idle"]
  /\ job = [h \in Handlers |-> NoJob]
  /\ gcpc = [g \in Collectors |-> "idle"]
  /\ todo = [g \in Collectors |-> {}]
  /\ current = [g \in Collectors |-> NoDigest]
  /\ faults = 0

-----------------------------------------------------------------------------
(* Steps every content handler shares.                                      *)

Finish(h) ==
  /\ pc' = [pc EXCEPT ![h] = "idle"]
  /\ job' = [job EXCEPT ![h] = NoJob]

(* Mutant: an existing row keeps its mark. *)
claimBlob_KeepsMark(d) == blobs' = [blobs EXCEPT ![d] = IF @ = "none" THEN "clear" ELSE @]

(* claimBlob: insert the blobs row or clear its mark; the caller's guard    *)
(* carries its last check, that the file is there.                          *)
claimBlob(d) == blobs' = [blobs EXCEPT ![d] = "clear"]

(* dropUnclaimed: delete the file unless a blobs row claims the digest.     *)
dropUnclaimed(d) == files' = IF blobs[d] = "none" THEN files \ {d} ELSE files

(* Temp.Finalize: the bytes are at blobs/<digest>, by rename or because an  *)
(* equal file was already there.                                            *)
TempFinalize(d) == files' = files \cup {d}

(* The request's own notebook or page is still live, as every content       *)
(* transaction re-checks.                                                   *)
TargetLive(j) ==
  IF j.kind = "save" THEN object[j.object] = "live"
                     ELSE container[j.container] = "live"

(* A handler gives up before Finalize: page gone, over quota, an I/O error. *)
(* Its temporary file is removed.                                           *)
AbortBeforeMove(h) ==
  /\ pc[h] = "checked"
  /\ Finish(h)
  /\ UNCHANGED <<container, object, content, previews, blobs, files, gcpc, todo, current, faults>>

(* The content transaction refuses the request (write gate, role, replay,   *)
(* quota, or a page deleted meanwhile) and drops the file it had moved.     *)
Refuse(h) ==
  /\ pc[h] = "moved" /\ WriteLockFree
  /\ dropUnclaimed(job[h].digest)
  /\ Finish(h)
  /\ UNCHANGED <<container, object, content, previews, blobs, gcpc, todo, current, faults>>

(* claimBlob finds the file gone: the transaction rolls back with a 500.    *)
ClaimFails(h) ==
  /\ pc[h] = "moved" /\ WriteLockFree
  /\ TargetLive(job[h])
  /\ job[h].digest \notin files
  /\ Finish(h)
  /\ UNCHANGED <<container, object, content, previews, blobs, files, gcpc, todo, current, faults>>

(* The transaction fails for a reason of its own: it rolls back and the     *)
(* file it had moved stays.                                                 *)
CommitFails(h) ==
  /\ pc[h] = "moved" /\ WriteLockFree
  /\ faults < MaxFaults /\ faults' = faults + 1
  /\ Finish(h)
  /\ UNCHANGED <<container, object, content, previews, blobs, files, gcpc, todo, current>>

-----------------------------------------------------------------------------
(* PUT /objects/{id}: save a page.                                          *)

BeginSave(h, o, d) ==
  /\ "save" \in RequestKinds
  /\ pc[h] = "idle" /\ object[o] = "live"
  /\ pc' = [pc EXCEPT ![h] = "checked"]
  /\ job' = [job EXCEPT ![h] = [kind |-> "save", object |-> o, digest |-> d]]
  /\ UNCHANGED <<container, object, content, previews, blobs, files, gcpc, todo, current, faults>>

MoveSave(h) ==
  /\ pc[h] = "checked" /\ job[h].kind = "save"
  /\ object[job[h].object] = "live"
  /\ TempFinalize(job[h].digest)
  /\ pc' = [pc EXCEPT ![h] = "moved"]
  /\ UNCHANGED <<container, object, content, previews, blobs, job, gcpc, todo, current, faults>>

(* Mutant: claimBlob does not look for the file. *)
MayCommit_NoStat(h, kind) ==
  /\ pc[h] = "moved" /\ WriteLockFree
  /\ job[h].kind = kind
  /\ TargetLive(job[h])

(* The content transaction reaches its writes.                              *)
MayCommit(h, kind) ==
  /\ pc[h] = "moved" /\ WriteLockFree
  /\ job[h].kind = kind
  /\ TargetLive(job[h])
  /\ job[h].digest \in files

CommitVersion(h) ==
  /\ MayCommit(h, "save")
  /\ claimBlob(job[h].digest)
  /\ versions' = versions \cup {[object |-> job[h].object, digest |-> job[h].digest]}
  /\ Finish(h)
  /\ UNCHANGED <<container, object, conflicts, attachments, refs, previews, files, gcpc, todo, current, faults>>

(* The base version is stale: the bytes become a conflict copy instead.     *)
CommitConflict(h, id) ==
  /\ MayCommit(h, "save")
  /\ \A c \in conflicts : c.id # id
  /\ claimBlob(job[h].digest)
  /\ conflicts' = conflicts \cup
       {[id |-> id, object |-> job[h].object, digest |-> job[h].digest, open |-> TRUE]}
  /\ Finish(h)
  /\ UNCHANGED <<container, object, versions, attachments, refs, previews, files, gcpc, todo, current, faults>>

-----------------------------------------------------------------------------
(* POST /uploads/{id}/finalize: a preview, or an attachment that may name a *)
(* finalized preview session of the same notebook.                          *)

BeginUpload(h, j) ==
  /\ pc[h] = "idle" /\ container[j.container] = "live"
  /\ j.kind = "attachment" /\ j.preview # NoDigest =>
       [container |-> j.container, digest |-> j.preview] \in previews
  /\ pc' = [pc EXCEPT ![h] = "checked"]
  /\ job' = [job EXCEPT ![h] = j]
  /\ UNCHANGED <<container, object, content, previews, blobs, files, gcpc, todo, current, faults>>

(* After the move the preview's digest is read again, outside the           *)
(* transaction and with its error ignored.                                  *)
ReadPreview(j) ==
  IF j.kind = "attachment" /\ [container |-> j.container, digest |-> j.preview] \notin previews
  THEN [j EXCEPT !.preview = NoDigest] ELSE j

MoveUpload(h) ==
  /\ pc[h] = "checked" /\ job[h].kind \in {"preview", "attachment"}
  /\ TempFinalize(job[h].digest)
  /\ pc' = [pc EXCEPT ![h] = "moved"]
  /\ job' = [job EXCEPT ![h] = ReadPreview(job[h])]
  /\ UNCHANGED <<container, object, content, previews, blobs, gcpc, todo, current, faults>>

CommitPreview(h) ==
  /\ MayCommit(h, "preview")
  /\ claimBlob(job[h].digest)
  /\ previews' = previews \cup {[container |-> job[h].container, digest |-> job[h].digest]}
  /\ Finish(h)
  /\ UNCHANGED <<container, object, content, files, gcpc, todo, current, faults>>

(* The row the attachment's unique index finds, if any.                     *)
SameBytes(j) == {a \in attachments : a.container = j.container /\ a.digest = j.digest}

Revive(as) == {[a EXCEPT !.live = TRUE] : a \in as}

(* Insert the attachment, or revive the row that already has these bytes,   *)
(* which keeps the preview it had.                                          *)
CommitAttachment(h) ==
  /\ MayCommit(h, "attachment")
  /\ claimBlob(job[h].digest)
  /\ attachments' =
       IF SameBytes(job[h]) = {}
       THEN attachments \cup {[container |-> job[h].container, digest |-> job[h].digest,
                               preview |-> job[h].preview, live |-> TRUE]}
       ELSE (attachments \ SameBytes(job[h])) \cup Revive(SameBytes(job[h]))
  /\ Finish(h)
  /\ UNCHANGED <<container, object, versions, conflicts, refs, previews, files, gcpc, todo, current, faults>>

(* DELETE /uploads/{id}: the session is no longer finalized; its blob stays. *)
(* The collector's expiry of a session has the same effect here.             *)
CancelPreview(p) ==
  /\ p \in previews /\ WriteLockFree
  /\ previews' = previews \ {p}
  /\ UNCHANGED <<container, object, content, blobs, files, pc, job, gcpc, todo, current, faults>>

-----------------------------------------------------------------------------
(* Requests that drop references.                                           *)

(* POST /objects/{id}/attachments. *)
LinkAttachment(o, a) ==
  /\ WriteLockFree
  /\ a \in attachments /\ a.live /\ object[o] = "live" /\ home[o] = a.container
  /\ refs' = refs \cup {[object |-> o, digest |-> a.digest]}
  /\ UNCHANGED <<container, object, versions, conflicts, attachments, previews, blobs, files,
                 pc, job, gcpc, todo, current, faults>>

(* DELETE /objects/{id}/attachments/{attachmentId}. *)
UnlinkAttachment(r) ==
  /\ WriteLockFree
  /\ r \in refs
  /\ refs' = refs \ {r}
  /\ UNCHANGED <<container, object, versions, conflicts, attachments, previews, blobs, files,
                 pc, job, gcpc, todo, current, faults>>

(* POST /conflicts/{id}/resolve. *)
ResolveConflict(c) ==
  /\ WriteLockFree
  /\ c \in conflicts /\ c.open
  /\ conflicts' = (conflicts \ {c}) \cup {[c EXCEPT !.open = FALSE]}
  /\ UNCHANGED <<container, object, versions, attachments, refs, previews, blobs, files,
                 pc, job, gcpc, todo, current, faults>>

Tombstone(as) == {[a EXCEPT !.live = FALSE] : a \in as}

(* Attachments of o that no other page links.                               *)
OnlyLinkedBy(o) ==
  {a \in attachments :
     /\ a.container = home[o] /\ [object |-> o, digest |-> a.digest] \in refs
     /\ \A r \in refs : home[r.object] = a.container /\ r.digest = a.digest => r.object = o}

(* DELETE /objects/{id}. *)
DeleteObject(o) ==
  /\ WriteLockFree
  /\ object[o] = "live"
  /\ object' = [object EXCEPT ![o] = "deleted"]
  /\ attachments' = (attachments \ OnlyLinkedBy(o)) \cup Tombstone(OnlyLinkedBy(o))
  /\ refs' = {r \in refs : r.object # o}
  /\ conflicts' = {c \in conflicts : c.object # o}
  /\ versions' = {v \in versions : v.object # o}
  /\ UNCHANGED <<container, previews, blobs, files, pc, job, gcpc, todo, current, faults>>

InContainer(c) == {a \in attachments : a.container = c}

(* DELETE /containers/{id}: pending uploads fail in the same transaction,   *)
(* which their own re-check of the live container stands for here.          *)
DeleteContainer(c) ==
  /\ WriteLockFree
  /\ container[c] = "live"
  /\ container' = [container EXCEPT ![c] = "deleted"]
  /\ versions' = {v \in versions : home[v.object] # c}
  /\ refs' = {r \in refs : home[r.object] # c}
  /\ conflicts' = {x \in conflicts : home[x.object] # c}
  /\ object' = [o \in Objects |-> IF home[o] = c THEN "deleted" ELSE object[o]]
  /\ attachments' = (attachments \ InContainer(c)) \cup Tombstone(InContainer(c))
  /\ UNCHANGED <<previews, blobs, files, pc, job, gcpc, todo, current, faults>>

-----------------------------------------------------------------------------
(* RunGC, one pass.                                                         *)

Orphaned == {a \in attachments : container[a.container] = "deleted"}

(* Finish the deletions older releases left half done.                      *)
GCFinishDeletions(g) ==
  /\ gcpc[g] = "idle" /\ WriteLockFree
  /\ refs' = {r \in refs : container[home[r.object]] # "deleted"}
  /\ attachments' = (attachments \ Orphaned) \cup Tombstone(Orphaned)
  /\ gcpc' = [gcpc EXCEPT ![g] = "select"]
  /\ UNCHANGED <<container, object, versions, conflicts, previews, blobs, files, pc, job, todo, current, faults>>

(* The candidates are read with no lock, from the last committed state.     *)
GCSelect(g) ==
  /\ gcpc[g] = "select"
  /\ todo' = [todo EXCEPT ![g] = {d \in Digests : blobs[d] = "aged" /\ unreferenced(d)}]
  /\ gcpc' = [gcpc EXCEPT ![g] = "sweep"]
  /\ UNCHANGED <<container, object, content, previews, blobs, files, pc, job, current, faults>>

(* sweepBlob's re-check of a candidate inside its transaction.              *)
Sweepable(d) == blobs[d] = "aged" /\ unreferenced(d)

SweepSkip(g, d) ==
  /\ gcpc[g] = "sweep" /\ d \in todo[g] /\ WriteLockFree
  /\ ~Sweepable(d)
  /\ todo' = [todo EXCEPT ![g] = @ \ {d}]
  /\ UNCHANGED <<container, object, content, previews, blobs, files, pc, job, gcpc, current, faults>>

(* The rows are deleted in the open transaction and the file at once.       *)
SweepDeleteFile(g, d) ==
  /\ gcpc[g] = "sweep" /\ d \in todo[g] /\ WriteLockFree
  /\ Sweepable(d)
  /\ files' = files \ {d}
  /\ todo' = [todo EXCEPT ![g] = @ \ {d}]
  /\ current' = [current EXCEPT ![g] = d]
  /\ UNCHANGED <<container, object, content, previews, blobs, pc, job, gcpc, faults>>

SweepCommit(g) ==
  /\ current[g] # NoDigest
  /\ attachments' = {a \in attachments : ~(a.digest = current[g] /\ ~a.live)}
  /\ conflicts' = {c \in conflicts : ~(c.digest = current[g] /\ ~c.open)}
  /\ blobs' = [blobs EXCEPT ![current[g]] = "none"]
  /\ current' = [current EXCEPT ![g] = NoDigest]
  /\ UNCHANGED <<container, object, versions, refs, previews, files, pc, job, gcpc, todo, faults>>

(* The commit fails; the pass goes on with its next candidate.              *)
SweepRollback(g) ==
  /\ current[g] # NoDigest
  /\ faults < MaxFaults /\ faults' = faults + 1
  /\ current' = [current EXCEPT ![g] = NoDigest]
  /\ UNCHANGED <<container, object, content, previews, blobs, files, pc, job, gcpc, todo>>

(* A statement or the file removal fails: the candidate is left as it was   *)
(* and the pass goes on.                                                    *)
SweepFails(g, d) ==
  /\ gcpc[g] = "sweep" /\ d \in todo[g] /\ WriteLockFree
  /\ faults < MaxFaults /\ faults' = faults + 1
  /\ todo' = [todo EXCEPT ![g] = @ \ {d}]
  /\ UNCHANGED <<container, object, content, previews, blobs, files, pc, job, gcpc, current>>

(* Clear the marks of blobs that are referenced again.                      *)
GCClear(g) ==
  /\ gcpc[g] = "sweep" /\ todo[g] = {} /\ WriteLockFree
  /\ blobs' = [d \in Digests |->
       IF blobs[d] \in {"fresh", "aged"} /\ ~unreferenced(d) THEN "clear" ELSE blobs[d]]
  /\ gcpc' = [gcpc EXCEPT ![g] = "mark"]
  /\ UNCHANGED <<container, object, content, previews, files, pc, job, todo, current, faults>>

(* Mutant: nothing is marked. *)
GCMark_Never(g) ==
  /\ gcpc[g] = "mark" /\ WriteLockFree
  /\ gcpc' = [gcpc EXCEPT ![g] = "idle"]
  /\ UNCHANGED <<container, object, content, previews, blobs, files, pc, job, todo, current, faults>>

(* Mark the blobs nothing references.                                       *)
GCMark(g) ==
  /\ gcpc[g] = "mark" /\ WriteLockFree
  /\ blobs' = [d \in Digests |->
       IF blobs[d] = "clear" /\ unreferenced(d) THEN "fresh" ELSE blobs[d]]
  /\ gcpc' = [gcpc EXCEPT ![g] = "idle"]
  /\ UNCHANGED <<container, object, content, previews, files, pc, job, todo, current, faults>>

(* The retention period of d's mark elapses.                                *)
Retention(d) ==
  /\ blobs[d] = "fresh"
  /\ blobs' = [blobs EXCEPT ![d] = "aged"]
  /\ UNCHANGED <<container, object, content, previews, files, pc, job, gcpc, todo, current, faults>>

EndPass(g) ==
  /\ gcpc' = [gcpc EXCEPT ![g] = "idle"]
  /\ todo' = [todo EXCEPT ![g] = {}]
  /\ current' = [current EXCEPT ![g] = NoDigest]

(* A pass returns early with an error, or its gc command is killed: its     *)
(* open transaction is rolled back, a file it has removed stays removed.    *)
PassDies(g) ==
  /\ gcpc[g] # "idle"
  /\ faults < MaxFaults /\ faults' = faults + 1
  /\ EndPass(g)
  /\ UNCHANGED <<container, object, content, previews, blobs, files, pc, job>>

(* The server dies and starts again: every handler and its own pass are     *)
(* gone, their transactions rolled back, files stay as they are.            *)
Crash ==
  /\ faults < MaxFaults /\ faults' = faults + 1
  /\ pc' = [h \in Handlers |-> "idle"]
  /\ job' = [h \in Handlers |-> NoJob]
  /\ EndPass(Ticker)
  /\ UNCHANGED <<container, object, content, previews, blobs, files>>

-----------------------------------------------------------------------------
UploadJobs == {j \in PreviewJob \cup AttachmentJob : j.kind \in RequestKinds}

HandlerStep(h) ==
  \/ \E o \in Objects, d \in Digests : BeginSave(h, o, d)
  \/ \E j \in UploadJobs : BeginUpload(h, j)
  \/ MoveSave(h)
  \/ MoveUpload(h)
  \/ AbortBeforeMove(h)
  \/ CommitVersion(h)
  \/ \E id \in ConflictIds : CommitConflict(h, id)
  \/ CommitPreview(h)
  \/ CommitAttachment(h)
  \/ Refuse(h)
  \/ ClaimFails(h)
  \/ CommitFails(h)

UserStep ==
  \/ \E p \in previews : CancelPreview(p)
  \/ \E o \in Objects, a \in attachments : LinkAttachment(o, a)
  \/ \E r \in refs : UnlinkAttachment(r)
  \/ \E c \in conflicts : ResolveConflict(c)
  \/ \E o \in Objects : DeleteObject(o)
  \/ \E c \in Containers : DeleteContainer(c)

GCStep(g) ==
  \/ GCFinishDeletions(g)
  \/ GCSelect(g)
  \/ \E d \in Digests : SweepSkip(g, d)
  \/ \E d \in Digests : SweepDeleteFile(g, d)
  \/ SweepCommit(g)
  \/ GCClear(g)
  \/ GCMark(g)

FaultStep ==
  \/ \E g \in Collectors, d \in Digests : SweepFails(g, d)
  \/ \E g \in Collectors : SweepRollback(g)
  \/ \E g \in Collectors : PassDies(g)
  \/ Crash

Next ==
  \/ \E h \in Handlers : HandlerStep(h)
  \/ UserStep
  \/ \E g \in Collectors : GCStep(g)
  \/ \E d \in Digests : Retention(d)
  \/ FaultStep

Spec == Init /\ [][Next]_vars

-----------------------------------------------------------------------------
(* Every variable holds rows, marks and handler states of the schema's shape. *)
TypeOK ==
  /\ container \in [Containers -> {"live", "deleted"}]
  /\ object \in [Objects -> {"live", "deleted"}]
  /\ versions \subseteq Version
  /\ conflicts \subseteq Conflict
  /\ attachments \subseteq Attachment
  /\ refs \subseteq Ref
  /\ previews \subseteq Preview
  /\ blobs \in [Digests -> Row]
  /\ files \subseteq Digests
  /\ pc \in [Handlers -> {"idle", "checked", "moved"}]
  /\ job \in [Handlers -> SaveJob \cup PreviewJob \cup AttachmentJob \cup {NoJob}]
  /\ \A h \in Handlers : pc[h] # "idle" => job[h] # NoJob
  /\ gcpc \in [Collectors -> {"idle", "select", "sweep", "mark"}]
  /\ todo \in [Collectors -> SUBSET Digests]
  /\ current \in [Collectors -> Digests \cup {NoDigest}]
  /\ faults \in 0..MaxFaults

(* Whatever interleaving of saves, uploads, deletions, sweeps and crashes,  *)
(* the bytes of every version, open conflict and kept attachment have a     *)
(* file and a blobs row: claimBlob and sweepBlob never lose content that a  *)
(* committed row points to.                                                 *)
NeededHasFile == \A d \in Digests : Needed(d) => d \in files /\ blobs[d] # "none"

(* The foreign keys on blobs(digest) hold for tombstones too: sweepBlob     *)
(* removes each resolved conflict and deleted attachment with the row they  *)
(* reference, so its DELETE can never be refused and no row is orphaned.    *)
ForeignKeys ==
  /\ \A v \in versions : blobs[v.digest] # "none"
  /\ \A c \in conflicts : blobs[c.digest] # "none"
  /\ \A a \in attachments : blobs[a.digest] # "none"

(* While the sweep's transaction is open nothing can start to need the blob *)
(* whose file it has already removed.                                       *)
SweptIsUnneeded ==
  \A g \in Collectors : current[g] # NoDigest => unreferenced(current[g])

(* The inductive invariant behind NeededHasFile and ForeignKeys.            *)
BlobInv == TypeOK /\ NeededHasFile /\ ForeignKeys /\ SweptIsUnneeded

(* A blob that nothing references and no request is bringing back does not  *)
(* stay forever: a pass marks it, the retention period elapses and a later  *)
(* pass sweeps it, also after a crash in the middle of a sweep.             *)
Reclaimed ==
  \A d \in Digests :
    []<>(\/ blobs[d] = "none"
         \/ ~unreferenced(d)
         \/ \E h \in Handlers : pc[h] # "idle" /\ job[h].digest = d)
=============================================================================
