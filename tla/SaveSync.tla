------------------------------ MODULE SaveSync ------------------------------
(***************************************************************************)
(* One page of one notebook, edited in the tabs of one browser and on      *)
(* another device.  The tabs share the browser's IndexedDB: a cached copy  *)
(* of the page and at most one queued save of it (web/src/storage.ts).  A  *)
(* tab runs one task of its save chain at a time: a live save, a write of  *)
(* a page that is not open, or a drain of the queue (web/src/main.tsx).    *)
(*                                                                         *)
(* A text is the set of edits it contains: typing adds an edit, nothing    *)
(* removes one.  Sealing draws a new number from the clock, which stands   *)
(* for the ciphertext's digest and, for a new draft, for its updatedAt.    *)
(* Generation 0 is the waiting generation (keyring.ts).                    *)
(***************************************************************************)
EXTENDS Integers, Sequences, FiniteSets

CONSTANTS
    Tabs,           \* the browser's open tabs
    MaxEdits,       \* bound on the edits typed anywhere
    MaxSeals,       \* bound on the drafts sealed for edits
    MaxGen,         \* bound on the notebook's key generations
    Moves,          \* whether the page is also moved while it is not open
    FaultKinds,     \* what may go wrong, of AllFaults
    MaxFaults       \* bound on the faults in one behaviour

ASSUME BoundsAreNaturals ==
    /\ {MaxEdits, MaxSeals, MaxGen, MaxFaults} \subseteq Nat
    /\ MaxGen > 0 /\ Moves \in BOOLEAN

(* A tab closed with work in memory, a lost request or answer, a failed    *)
(* IndexedDB write, the page deleted, the writer demoted, the key rotated, *)
(* the server's day-old request keys dropped, saves refused for another    *)
(* reason.                                                                 *)
AllFaults == {"crash", "lose", "storage", "delete", "demote", "rotate", "forget", "refuse"}

(* Why the server refuses a save that it would otherwise take: no session, *)
(* or no room for it (a full quota; a page too large is refused alike).    *)
Bars == {"unauthenticated", "quota_exceeded"}

ASSUME KnownFaults == FaultKinds \subseteq AllFaults

VARIABLES
    srv,        \* the server's page: versions, conflicts, keys of answered saves
    db,         \* the browser's IndexedDB: cache and pending
    tab,        \* what each tab holds in memory
    clock,      \* seals drawn so far
    edits,      \* edits typed so far
    faults,     \* faults so far
    durable,    \* edits that reached IndexedDB or the server
    discarded,  \* edits the user discarded in Settings
    overlooked  \* queued edits a conflict recovery reloaded the page over, and
                \* moves without a local copy

vars == <<srv, db, tab, clock, edits, faults, durable, discarded, overlooked>>

(* No copy: seal 0 is never drawn.  Marks are "previousKey", "gone" and     *)
(* "conflicted".                                                           *)
NoDraft == [seal |-> 0, at |-> 0, base |-> 0, gen |-> 0,
            text |-> {}, unsent |-> FALSE, marks |-> {}]

Has(draft) == draft.seal > 0

Idle == [kind |-> "idle", phase |-> "none", item |-> NoDraft, ans |-> "none", ver |-> 0]

NoLoad == [on |-> FALSE, ver |-> 0, text |-> {}, carried |-> 0]

Closed == [open |-> FALSE, listed |-> FALSE, text |-> {}, base |-> 0,
           dirty |-> FALSE, flushed |-> TRUE, writer |-> FALSE, key |-> 1,
           held |-> NoDraft, conflicted |-> FALSE,
           recovering |-> FALSE, todo |-> {}, failed |-> FALSE, job |-> Idle,
           move |-> Idle, load |-> NoLoad]

Higher(a, b) == IF a > b THEN a ELSE b

Version == Len(srv.log)
HeadText == srv.log[Version].text

-----------------------------------------------------------------------------
(* storage.ts: one IndexedDB transaction each. *)

SameDraft(current, expected) ==
    /\ Has(current)
    /\ <<current.at, current.base, current.gen, current.seal>>
         = <<expected.at, expected.base, expected.gen, expected.seal>>

(* Mutant: a new draft keeps the marks of the one it replaces. *)
PutKeepingMarks(item) ==
    [cache |-> [item EXCEPT !.unsent = TRUE], pending |-> [item EXCEPT !.marks = db.pending.marks]]

AfterPutDraft(item) ==
    [cache |-> [item EXCEPT !.unsent = TRUE], pending |-> item]

(* Mutants: settling whatever is queued or cached under the page's id. *)
SettleAnyEntry(expected, ver) ==
    [pending |-> NoDraft,
     cache   |-> IF ~SameDraft(db.cache, expected) THEN db.cache
                 ELSE IF ver = 0 THEN NoDraft
                 ELSE [db.cache EXCEPT !.unsent = FALSE, !.base = ver]]

SettleAnyCache(expected, ver) ==
    [pending |-> IF SameDraft(db.pending, expected) THEN NoDraft ELSE db.pending,
     cache   |-> IF ver = 0 THEN NoDraft
                 ELSE [db.cache EXCEPT !.unsent = FALSE, !.base = ver]]

AfterSettle(expected, ver) ==
    [pending |-> IF SameDraft(db.pending, expected) THEN NoDraft ELSE db.pending,
     cache   |-> IF ~SameDraft(db.cache, expected) THEN db.cache
                 ELSE IF ver = 0 THEN NoDraft
                 ELSE [db.cache EXCEPT !.unsent = FALSE, !.base = ver]]

AfterReplace(expected, next) ==
    IF ~SameDraft(db.pending, expected) THEN db
    ELSE [pending |-> next,
          cache   |-> IF Has(next) /\ SameDraft(db.cache, expected)
                      THEN [next EXCEPT !.unsent = db.cache.unsent] ELSE db.cache]

Unsendable(draft) == draft.marks \cap {"gone", "previousKey"} # {}

(* recoverDraft: an unsent cache at least as new as the queue is queued. *)
AfterRecover(cache) ==
    [cache   |-> cache,
     pending |-> IF \/ ~cache.unsent
                    \/ Unsendable(db.pending)
                    \/ db.pending.at > cache.at
                    \/ db.pending.seal = cache.seal
                 THEN db.pending ELSE cache]

-----------------------------------------------------------------------------
(* drafts.ts: the exact sealed edit is reused when it holds this text for  *)
(* this base and key; otherwise the text is sealed anew.                   *)

Newest == IF db.cache.unsent /\ db.cache.at >= db.pending.at THEN db.cache ELSE db.pending

(* Mutant: every attempt is sealed anew. *)
NeverReusable(text, base, gen) == FALSE

Reusable(text, base, gen) ==
    /\ Has(Newest)
    /\ ~Unsendable(Newest)
    /\ <<Newest.base, Newest.gen, Newest.text>> = <<base, gen, text>>

Prepared(text, base, gen) ==
    IF Reusable(text, base, gen) THEN Newest
    ELSE [NoDraft EXCEPT !.seal = clock + 1, !.at = clock + 1,
                         !.base = base, !.gen = gen, !.text = text]

(* localDraft: an unmarked cache of the server's own version with another  *)
(* text is an older build's unsent edit.                                   *)
LegacyUnsent(ver, text) ==
    /\ Has(db.cache) /\ ~db.cache.unsent /\ db.cache.base = ver
    /\ ~Unsendable(db.pending)
    /\ db.cache.at >= db.pending.at
    /\ db.cache.text # text

RecoveredDB(ver, text) ==
    AfterRecover(IF LegacyUnsent(ver, text) THEN [db.cache EXCEPT !.unsent = TRUE] ELSE db.cache)

(* The copy a load shows: the newer of the unsent cache and the queue, an  *)
(* acknowledged cache not behind the server, or none (the server's copy).  *)
(* Mutant: a recovered draft is shown as an edit of the server's version. *)
ShownAtServerVersion(store, ver) ==
    IF Has(store.pending) THEN [store.pending EXCEPT !.base = ver] ELSE NoDraft

ShownCopy(store, ver) ==
    LET draft == IF Unsendable(store.pending) THEN NoDraft ELSE store.pending
        copy  == IF store.cache.unsent /\ store.cache.at >= draft.at THEN store.cache
                 ELSE IF Has(draft) THEN draft ELSE store.cache
    IN  IF Has(copy) /\ (copy.unsent \/ copy = draft \/ copy.base >= ver)
        THEN copy ELSE NoDraft

-----------------------------------------------------------------------------
(* The server (object_routes.go): a key that already has an answer replays *)
(* it; a save without room is refused; a stale base is kept as a conflict; *)
(* otherwise the next version.                                             *)

Key(item) == <<item.base, item.gen, item.seal>>

SignedIn == srv.bar # "unauthenticated"

Replayed(item) == {answer \in srv.idem : answer.key = Key(item)}

Answer(item) ==
    IF ~SignedIn THEN [code |-> "unauthenticated", ver |-> 0]
    ELSE IF srv.gone THEN [code |-> "not_found", ver |-> 0]
    ELSE IF ~srv.writer THEN [code |-> "forbidden", ver |-> 0]
    ELSE IF item.gen # srv.gen THEN [code |-> "already_exists", ver |-> 0]
    ELSE IF Replayed(item) # {}
         THEN LET a == CHOOSE a \in Replayed(item) : TRUE IN [code |-> a.code, ver |-> a.ver]
    ELSE IF srv.bar = "quota_exceeded" THEN [code |-> "quota_exceeded", ver |-> 0]
    ELSE IF item.base # Version THEN [code |-> "version_conflict", ver |-> Version]
    ELSE [code |-> "ok", ver |-> Version + 1]

AfterSave(item) ==
    LET a == Answer(item)
        fresh == a.code \in {"ok", "version_conflict"} /\ Replayed(item) = {}
        kept == [seal |-> item.seal, base |-> item.base, gen |-> item.gen, text |-> item.text]
    IN  IF ~fresh THEN srv
        ELSE [srv EXCEPT
               !.idem = @ \cup {[key |-> Key(item), code |-> a.code, ver |-> a.ver]},
               !.log = IF a.code = "ok" THEN Append(@, kept) ELSE @,
               !.conflicts = IF a.code = "ok" THEN @ ELSE @ \cup {kept},
               !.unresolved = IF a.code = "ok" THEN @ ELSE @ \cup {kept.seal}]

-----------------------------------------------------------------------------
(* What the history variables record. *)

ServerHeld(s) ==
    s.log[Len(s.log)].text \cup s.copies
      \cup UNION {c.text : c \in {c \in s.conflicts : c.seal \in s.unresolved}}

Kept(s, store) ==
    ServerHeld(s) \cup store.pending.text
      \cup (IF store.cache.unsent THEN store.cache.text ELSE {})

Remember == durable' = durable \cup Kept(srv, db')

Fault(kind) ==
    /\ kind \in FaultKinds /\ faults < MaxFaults
    /\ faults' = faults + 1

(* An IndexedDB write commits, or fails as a whole. *)
Stored(kept) ==
    \/ kept /\ UNCHANGED faults
    \/ ~kept /\ Fault("storage")

-----------------------------------------------------------------------------
(* Loading the page and typing. *)

(* The notebook's keys first, then the server's copy of the page. *)
BeginLoad(t) ==
    /\ ~tab[t].open /\ ~tab[t].load.on /\ ~srv.gone /\ SignedIn
    /\ tab' = [tab EXCEPT ![t].key = srv.gen, ![t].listed = FALSE,
                          ![t].load = [on |-> TRUE, ver |-> Version, text |-> HeadText, carried |-> 0]]
    /\ UNCHANGED <<srv, db, clock, edits, faults, durable, discarded, overlooked>>

(* Then this browser's copies, with the version of a save answered         *)
(* meanwhile (carryAll); a recovered draft makes the page dirty.           *)
FinishLoad(t) ==
    LET load  == tab[t].load
        dirty == Has(db'.pending) /\ db'.pending.marks = {} /\ srv.writer
    IN  /\ load.on
        /\ db' = RecoveredDB(load.ver, load.text)
        /\ \E copy \in {ShownCopy(db', load.ver)} :
             tab' = [tab EXCEPT
               ![t].open = TRUE, ![t].listed = TRUE,
               ![t].text = IF Has(copy) THEN copy.text ELSE load.text,
               ![t].base = Higher(IF Has(copy) THEN copy.base ELSE load.ver, load.carried),
               ![t].dirty = dirty, ![t].flushed = ~dirty, ![t].writer = srv.writer,
               ![t].conflicted = srv.unresolved # {}, ![t].load = NoLoad]
        /\ Remember
        /\ UNCHANGED <<srv, clock, edits, faults, discarded, overlooked>>

(* editOpen changes the open page and queues the write of its cached copy  *)
(* (persistDraft), whose failure is ignored.                               *)
EditOpen(t) ==
    LET text == tab[t].text \cup {edits + 1}
        item == Prepared(text, tab[t].base, tab[t].key)
    IN  /\ tab[t].open /\ ~tab[t].recovering /\ tab[t].writer
        /\ edits < MaxEdits /\ item.seal <= MaxSeals
        /\ edits' = edits + 1
        /\ clock' = Higher(clock, item.seal)
        /\ tab' = [tab EXCEPT ![t].text = text, ![t].dirty = TRUE, ![t].flushed = FALSE]
        /\ \E kept \in BOOLEAN :
             /\ Stored(kept)
             /\ db' = IF kept THEN [db EXCEPT !.cache = [item EXCEPT !.unsent = TRUE]] ELSE db
        /\ Remember
        /\ UNCHANGED <<srv, discarded, overlooked>>

(* Leaving the page: only once what was last sent is what it shows. *)
ClosePage(t) ==
    /\ tab[t].open /\ ~tab[t].recovering /\ tab[t].job = Idle
    /\ tab[t].dirty => tab[t].flushed
    /\ tab' = [tab EXCEPT ![t].open = FALSE, ![t].dirty = FALSE]
    /\ UNCHANGED <<srv, db, clock, edits, faults, durable, discarded, overlooked>>

(* A closed or crashed tab keeps nothing of its own. *)
Crash(t) ==
    /\ Fault("crash")
    /\ tab[t] # Closed
    /\ tab' = [tab EXCEPT ![t] = Closed]
    /\ UNCHANGED <<srv, db, clock, edits, durable, discarded, overlooked>>

-----------------------------------------------------------------------------
(* Live saves (saveNow) and writes of a page that is not open             *)
(* (writeObject), which do not wait for the save chain.                    *)

(* carrySaved and carryDuringLoad: the version only, never backwards. *)
Carried(tb, ver) ==
    [tb EXCEPT !.base = IF tb.listed THEN Higher(@, ver) ELSE @,
               !.load.carried = IF tb.load.on THEN ver ELSE @]

Sending(kind, item) == [Idle EXCEPT !.kind = kind, !.phase = "sent", !.item = item]

SaveStart(t) ==
    LET item == Prepared(tab[t].text, tab[t].base, tab[t].key)
    IN  /\ tab[t].open /\ tab[t].writer /\ tab[t].job = Idle
        /\ item.seal <= MaxSeals
        /\ clock' = Higher(clock, item.seal)
        /\ \E kept \in BOOLEAN :
             /\ Stored(kept)
             /\ IF item.gen = 0
                THEN /\ db' = IF kept THEN [AfterPutDraft(item) EXCEPT !.pending.marks = {}] ELSE db
                     /\ tab' = [tab EXCEPT ![t].flushed = kept]
                ELSE /\ db' = IF kept THEN AfterPutDraft(item) ELSE db
                     /\ tab' = [tab EXCEPT ![t].job = Sending("save", item)]
        /\ Remember
        /\ UNCHANGED <<srv, edits, discarded, overlooked>>

(* newestCopy: another tab may have cached a newer text of this version. *)
MoveText(t) ==
    (IF Has(db.cache) /\ db.cache.base >= tab[t].base THEN db.cache.text ELSE tab[t].text)
      \cup {edits + 1}

MoveStart(t) ==
    LET item == Prepared(MoveText(t), tab[t].base, tab[t].key)
    IN  /\ Moves /\ tab[t].listed /\ ~tab[t].open /\ tab[t].writer /\ tab[t].key > 0
        /\ tab[t].move = Idle
        /\ edits < MaxEdits /\ item.seal <= MaxSeals
        /\ edits' = edits + 1
        /\ clock' = Higher(clock, item.seal)
        /\ \E kept \in BOOLEAN :
             /\ Stored(kept)
             /\ db' = IF kept THEN AfterPutDraft(item) ELSE db
             /\ overlooked' = IF kept THEN overlooked ELSE overlooked \cup {edits'}
        /\ tab' = [tab EXCEPT ![t].text = item.text, ![t].move = Sending("move", item)]
        /\ Remember
        /\ UNCHANGED <<srv, discarded>>

(* The outbound gate re-checks the key; then the server answers. *)
Deliver(t, slot) ==
    LET job == tab[t][slot]
    IN  /\ job.phase = "sent"
        /\ IF tab[t].key # job.item.gen
           THEN /\ tab' = [tab EXCEPT ![t][slot].phase = "answered", ![t][slot].ans = "keys"]
                /\ UNCHANGED <<srv, durable>>
           ELSE /\ tab' = [tab EXCEPT ![t][slot].phase = "answered",
                                      ![t][slot].ans = Answer(job.item).code,
                                      ![t][slot].ver = Answer(job.item).ver]
                /\ srv' = AfterSave(job.item)
                /\ durable' = durable \cup Kept(srv', db)
        /\ UNCHANGED <<db, clock, edits, faults, discarded, overlooked>>

(* The request or its answer is lost: the tab sees a network error. *)
Lose(t, slot) ==
    /\ tab[t][slot].phase \in {"sent", "answered"} /\ tab[t][slot].ans # "network"
    /\ Fault("lose")
    /\ tab' = [tab EXCEPT ![t][slot].phase = "answered", ![t][slot].ans = "network"]
    /\ UNCHANGED <<srv, db, clock, edits, durable, discarded, overlooked>>

Marked(item, mark) == [item EXCEPT !.marks = @ \cup {mark}]

(* The answer to a live save or a move.  A conflict stops this exact entry; *)
(* any other refusal queues it, for good when the page is gone.            *)
Answered(t, slot) ==
    LET job == tab[t][slot]
        item == job.item
        same == tab[t].text = item.text
        queued == IF job.ans = "not_found" /\ job.kind = "save" THEN Marked(item, "gone") ELSE item
    IN  /\ job.kind \in {"save", "move"} /\ job.phase = "answered"
        /\ \E kept \in BOOLEAN : Stored(kept) /\
             CASE job.ans = "ok" ->
                    /\ db' = IF kept THEN AfterSettle(item, job.ver) ELSE db
                    /\ tab' = [tab EXCEPT ![t] = [Carried(tab[t], job.ver) EXCEPT ![slot] = Idle,
                         !.held = NoDraft, !.conflicted = tab[t].conflicted /\ job.kind = "move",
                         !.dirty = tab[t].dirty /\ (job.kind = "move" \/ ~same),
                         !.flushed = IF job.kind = "save" THEN same ELSE tab[t].flushed]]
               [] job.ans = "version_conflict" ->
                    /\ db' = IF kept THEN AfterReplace(item, Marked(item, "conflicted")) ELSE db
                    /\ tab' = [tab EXCEPT ![t][slot] = Idle, ![t].held = item,
                         ![t].conflicted = TRUE,
                         ![t].flushed = IF job.kind = "save" THEN same ELSE @]
               [] OTHER ->
                    /\ db' = IF kept THEN [db EXCEPT !.pending = queued] ELSE db
                    /\ tab' = [tab EXCEPT ![t][slot] = Idle,
                         ![t].flushed = IF job.kind = "save" THEN same /\ kept ELSE @]
        /\ Remember
        /\ UNCHANGED <<srv, clock, edits, discarded, overlooked>>

-----------------------------------------------------------------------------
(* The queue drain: this tab sends the browser's queued save, re-sealed    *)
(* for the current key when it was sealed for another one.                 *)

(* Mutant: an entry sealed for another generation is never picked up. *)
DrainStartCurrent(t) ==
    /\ tab[t].job = Idle
    /\ Has(db.pending) /\ db.pending.marks = {} /\ db.pending.gen = tab[t].key
    /\ ~SameDraft(tab[t].held, db.pending)
    /\ tab' = [tab EXCEPT ![t].job = [Idle EXCEPT !.kind = "drain", !.phase = "sync", !.item = db.pending]]
    /\ UNCHANGED <<srv, db, clock, edits, faults, durable, discarded, overlooked>>

DrainStart(t) ==
    /\ tab[t].job = Idle
    /\ Has(db.pending) /\ db.pending.marks = {}
    /\ ~SameDraft(tab[t].held, db.pending)
    /\ tab' = [tab EXCEPT ![t].job = [Idle EXCEPT !.kind = "drain", !.phase = "sync", !.item = db.pending]]
    /\ UNCHANGED <<srv, db, clock, edits, faults, durable, discarded, overlooked>>

(* Offline, signed out, no writer's role, or no key for the current        *)
(* generation.                                                             *)
DrainWait(t) ==
    /\ tab[t].job.phase = "sync"
    /\ tab' = [tab EXCEPT ![t].job = Idle]
    /\ UNCHANGED <<srv, db, clock, edits, faults, durable, discarded, overlooked>>

Resealed(item) == [item EXCEPT !.seal = clock + 1, !.gen = srv.gen]

(* A re-seal replaces the entry only while it is still the one read. *)
DrainSend(t) ==
    LET item == tab[t].job.item
        next == IF item.gen = srv.gen THEN item ELSE Resealed(item)
        mine == next = item \/ SameDraft(db.pending, item)
    IN  /\ tab[t].job.phase = "sync" /\ srv.writer /\ SignedIn
        /\ clock' = Higher(clock, next.seal)
        /\ db' = IF next = item THEN db ELSE AfterReplace(item, next)
        /\ tab' = [tab EXCEPT ![t].key = srv.gen,
                              ![t].job = IF mine THEN Sending("drain", next) ELSE Idle]
        /\ UNCHANGED <<srv, edits, faults, durable, discarded, overlooked>>

DrainAnswered(t) ==
    LET job == tab[t].job
    IN  /\ job.kind = "drain" /\ job.phase = "answered"
        /\ CASE job.ans = "ok" ->
                  /\ db' = AfterSettle(job.item, job.ver)
                  /\ tab' = [tab EXCEPT ![t] = [Carried(@, job.ver) EXCEPT !.job = Idle],
                                        ![t].held = NoDraft]
             [] job.ans = "version_conflict" ->
                  /\ db' = AfterReplace(job.item, Marked(job.item, "conflicted"))
                  /\ tab' = [tab EXCEPT ![t].job = Idle, ![t].held = job.item, ![t].conflicted = TRUE]
             [] job.ans \in {"not_found", "forbidden"} ->
                  /\ db' = AfterReplace(job.item, Marked(job.item, "gone"))
                  /\ tab' = [tab EXCEPT ![t].job = Idle]
             [] OTHER ->
                  /\ tab' = [tab EXCEPT ![t].job = Idle]
                  /\ UNCHANGED db
        /\ UNCHANGED <<srv, clock, edits, faults, durable, discarded, overlooked>>

-----------------------------------------------------------------------------
(* Keeping both versions of a page in conflict (keepConflictCopies). *)

(* After the open edits were saved, the page goes back to the server's     *)
(* copy; the queue's rejected entry and the open conflicts are remembered. *)
RecoverReload(t) ==
    /\ tab[t].open /\ tab[t].conflicted /\ ~tab[t].recovering
    /\ tab[t].writer /\ tab[t].key > 0
    /\ tab[t].job = Idle /\ (tab[t].dirty => tab[t].flushed)
    /\ ~srv.gone /\ SignedIn
    /\ tab' = [tab EXCEPT
         ![t].recovering = TRUE, ![t].text = HeadText, ![t].base = Version,
         ![t].dirty = FALSE, ![t].flushed = TRUE,
         ![t].todo = srv.unresolved, ![t].failed = FALSE,
         ![t].job = [Idle EXCEPT !.kind = "recover",
                       !.item = IF "conflicted" \in db.pending.marks THEN db.pending ELSE NoDraft]]
    /\ overlooked' = overlooked \cup
         UNION {d.text : d \in {d \in {db.pending, db.cache} :
                                  "conflicted" \notin d.marks /\ ~SameDraft(d, tab[t].held)}}
    /\ UNCHANGED <<srv, db, clock, edits, faults, durable, discarded>>

(* One rejected version: copied unless the page already shows it, then     *)
(* resolved.                                                               *)
RecoverCopy(t) ==
    \E c \in srv.conflicts :
        /\ tab[t].recovering /\ c.seal \in tab[t].todo /\ srv.writer /\ SignedIn
        /\ c.text # tab[t].text => srv.bar = "none"
        /\ tab' = [tab EXCEPT ![t].todo = @ \ {c.seal}]
        /\ srv' = [srv EXCEPT !.unresolved = @ \ {c.seal},
                              !.copies = IF c.text = tab[t].text THEN @ ELSE @ \cup c.text]
        /\ UNCHANGED <<db, clock, edits, faults, durable, discarded, overlooked>>

(* It could not be copied and stays unresolved. *)
RecoverSkip(t) ==
    \E c \in tab[t].todo :
        /\ tab[t].recovering
        /\ IF srv.writer /\ srv.bar = "none" THEN Fault("lose") ELSE UNCHANGED faults
        /\ tab' = [tab EXCEPT ![t].todo = @ \ {c}, ![t].failed = TRUE]
        /\ UNCHANGED <<srv, db, clock, edits, durable, discarded, overlooked>>

RecoverEnd(t) ==
    LET entry == tab[t].job.item
        store == IF tab[t].failed \/ ~Has(entry) THEN db ELSE AfterSettle(entry, 0)
        clean == ~tab[t].failed /\ ~Has(store.pending)
    IN  /\ tab[t].recovering /\ tab[t].todo = {}
        /\ db' = store
        /\ tab' = [tab EXCEPT ![t].recovering = FALSE, ![t].failed = FALSE, ![t].job = Idle,
             ![t].held = IF clean THEN NoDraft ELSE @, ![t].conflicted = @ /\ ~clean]
        /\ UNCHANGED <<srv, clock, edits, faults, durable, discarded, overlooked>>

-----------------------------------------------------------------------------
(* Settings: edits that will never be sent, and a reset identity. *)

SeeUnsent(t) ==
    /\ tab[t].job = Idle /\ Has(db.pending) /\ Unsendable(db.pending)
    /\ tab' = [tab EXCEPT ![t].job = [Idle EXCEPT !.kind = "discard", !.item = db.pending]]
    /\ UNCHANGED <<srv, db, clock, edits, faults, durable, discarded, overlooked>>

(* Only the entry the user saw; the page's cached copy goes with it. *)
Discard(t) ==
    LET item == tab[t].job.item
        same == SameDraft(db.pending, item) /\ Unsendable(db.pending)
    IN  /\ tab[t].job.kind = "discard"
        /\ db' = IF same THEN [cache |-> NoDraft, pending |-> NoDraft] ELSE db
        /\ discarded' = IF same THEN discarded \cup item.text \cup db.cache.text ELSE discarded
        /\ tab' = [tab EXCEPT ![t].job = Idle]
        /\ UNCHANGED <<srv, clock, edits, faults, durable, overlooked>>

(* retireWaiting: an edit waiting under the replaced key is re-sealed to   *)
(* stay exportable and is never sent.                                      *)
ResetIdentity ==
    /\ Has(db.pending) /\ db.pending.gen = 0 /\ "previousKey" \notin db.pending.marks
    /\ clock < MaxSeals
    /\ clock' = clock + 1
    /\ db' = AfterReplace(db.pending, [Marked(db.pending, "previousKey") EXCEPT !.seal = clock + 1])
    /\ UNCHANGED <<srv, tab, edits, faults, durable, discarded, overlooked>>

(* The user deletes the page here: its cached copy goes too. *)
RemovePage(t) ==
    /\ tab[t].open /\ tab[t].writer /\ tab[t].key > 0 /\ tab[t].job = Idle /\ ~srv.gone
    /\ ~tab[t].recovering /\ SignedIn
    /\ Fault("delete")
    /\ srv' = [srv EXCEPT !.gone = TRUE]
    /\ db' = [db EXCEPT !.cache = NoDraft]
    /\ discarded' = discarded \cup db.cache.text \cup tab[t].text
    /\ tab' = [tab EXCEPT ![t].open = FALSE, ![t].listed = FALSE, ![t].dirty = FALSE]
    /\ UNCHANGED <<clock, edits, durable, overlooked>>

-----------------------------------------------------------------------------
(* Everyone else. *)

(* Another device edits the newest version it has loaded. *)
OtherSave ==
    /\ ~srv.gone /\ edits < MaxEdits
    /\ edits' = edits + 1
    /\ srv' = [srv EXCEPT !.log = Append(@, [seal |-> 0, base |-> Version, gen |-> srv.gen,
                                             text |-> HeadText \cup {edits + 1}])]
    /\ durable' = durable \cup {edits + 1}
    /\ UNCHANGED <<db, tab, clock, faults, discarded, overlooked>>

OtherDelete ==
    /\ ~srv.gone /\ Fault("delete")
    /\ srv' = [srv EXCEPT !.gone = TRUE]
    /\ UNCHANGED <<db, tab, clock, edits, durable, discarded, overlooked>>

ChangeRole ==
    /\ srv.writer /\ Fault("demote")
    /\ srv' = [srv EXCEPT !.writer = FALSE]
    /\ UNCHANGED <<db, tab, clock, edits, durable, discarded, overlooked>>

Rotate ==
    /\ srv.gen < MaxGen /\ Fault("rotate")
    /\ srv' = [srv EXCEPT !.gen = @ + 1]
    /\ UNCHANGED <<db, tab, clock, edits, durable, discarded, overlooked>>

(* A key pass: this tab has the current key, or learns that it has not. *)
KeyPass(t) ==
    /\ tab[t].key # srv.gen /\ SignedIn
    /\ \E key \in {0, srv.gen} : tab' = [tab EXCEPT ![t].key = key]
    /\ UNCHANGED <<srv, db, clock, edits, faults, durable, discarded, overlooked>>

(* The server keeps an answered save's key for a day. *)
ForgetKeys ==
    /\ srv.idem # {} /\ Fault("forget")
    /\ srv' = [srv EXCEPT !.idem = {}, !.forgot = TRUE]
    /\ UNCHANGED <<db, tab, clock, edits, durable, discarded, overlooked>>

(* The session ends, or the quota is used up by other pages; then the user *)
(* signs in again or makes room.                                           *)
Refuse ==
    /\ srv.bar = "none" /\ Fault("refuse")
    /\ \E bar \in Bars : srv' = [srv EXCEPT !.bar = bar]
    /\ UNCHANGED <<db, tab, clock, edits, durable, discarded, overlooked>>

Admit ==
    /\ srv.bar # "none"
    /\ srv' = [srv EXCEPT !.bar = "none"]
    /\ UNCHANGED <<db, tab, clock, edits, faults, durable, discarded, overlooked>>

(* The page's first version; an older build may have left an unmarked      *)
(* cache of it that holds an edit the server never got.                    *)
LegacyCache == [NoDraft EXCEPT !.seal = 1, !.at = 1, !.base = 1, !.gen = 1, !.text = {1}]

Init ==
    /\ srv = [log |-> <<[seal |-> 0, base |-> 0, gen |-> 1, text |-> {}]>>, gen |-> 1,
              conflicts |-> {}, unresolved |-> {}, copies |-> {}, idem |-> {},
              gone |-> FALSE, writer |-> TRUE, forgot |-> FALSE, bar |-> "none"]
    /\ \E cache \in {NoDraft, LegacyCache} :
         /\ db = [cache |-> cache, pending |-> NoDraft]
         /\ clock = cache.seal
         /\ edits = cache.seal
    /\ tab = [t \in Tabs |-> Closed]
    /\ faults = 0
    /\ durable = {}
    /\ discarded = {}
    /\ overlooked = {}

Slots == {"job", "move"}

Next ==
    \/ \E t \in Tabs :
         \/ BeginLoad(t) \/ FinishLoad(t) \/ EditOpen(t)
         \/ ClosePage(t) \/ Crash(t) \/ RemovePage(t) \/ KeyPass(t)
         \/ SaveStart(t) \/ MoveStart(t)
         \/ \E slot \in Slots : Deliver(t, slot) \/ Lose(t, slot) \/ Answered(t, slot)
         \/ DrainStart(t) \/ DrainWait(t) \/ DrainSend(t) \/ DrainAnswered(t)
         \/ RecoverReload(t) \/ RecoverCopy(t) \/ RecoverSkip(t) \/ RecoverEnd(t)
         \/ SeeUnsent(t) \/ Discard(t)
    \/ ResetIdentity \/ OtherSave \/ OtherDelete \/ ChangeRole \/ Rotate \/ ForgetKeys
    \/ Refuse \/ Admit

(* The drain runs every 15 s and on every reconnect, so it starts again    *)
(* and again, and with the network and the keys back it sends; the answer  *)
(* of a request arrives.  A load or a recovery, once begun, ends.            *)
Fairness ==
    \A t \in Tabs :
        /\ WF_vars(FinishLoad(t)) /\ WF_vars(RecoverCopy(t) \/ RecoverSkip(t)) /\ WF_vars(RecoverEnd(t))
        /\ WF_vars(Discard(t))
        /\ SF_vars(DrainStart(t)) /\ SF_vars(DrainSend(t)) /\ WF_vars(DrainAnswered(t))
        /\ \A slot \in Slots : WF_vars(Deliver(t, slot)) /\ WF_vars(Answered(t, slot))

Spec == Init /\ [][Next]_vars /\ Fairness

-----------------------------------------------------------------------------
(* No edit that once reached this browser's store or the server is lost by *)
(* saves, drains, reloads, conflict recovery or crashes of the tab: the    *)
(* server, one of its conflict records or copies, the queue or the unsent  *)
(* cache still holds it unless the user discarded it (settleDraft,         *)
(* recoverDraft, replaceQueuedSave).                                       *)
NoEditLost == durable \ discarded \subseteq Kept(srv, db)

(* As NoEditLost, but for a queued edit that conflict recovery reloaded    *)
(* the page over (keepConflictCopies): the next save replaces it; and for  *)
(* a move that writeObject sent without a local copy, having told the user *)
(* so: a load that overlaps it may show the old text as the new version.   *)
NoOtherEditLost == durable \ (discarded \cup overlooked) \subseteq Kept(srv, db)

(* A lost answer never turns an accepted save into a conflict with itself: *)
(* the retry sends the exact sealed edit under the same key                *)
(* (prepareObjectDraft, sendObject, replayObjectSave), while the server    *)
(* still remembers the key and no rotation made the queue re-seal it.      *)
RetryIsQuiet ==
    ~srv.forgot /\ srv.gen = 1 => \A c \in srv.conflicts, i \in 2..Version :
        srv.log[i].text # srv.log[i - 1].text =>
            <<c.text, c.gen, c.base>> # <<srv.log[i].text, srv.log[i].gen, i - 1>>

(* A save replaces only text its author had before him: the new version    *)
(* holds every edit of the one it replaces (compareAndSetObject, cached and *)
(* queued versions), but for those overlooked edits.                       *)
EditedFromKnownHead ==
    [][Version' > Version => HeadText \subseteq HeadText' \cup overlooked']_vars

(* An entry leaves the queue only when the server has its text or the user *)
(* discarded it: a late acknowledgement never removes another tab's draft. *)
AckedIsHeld ==
    [][Has(db.pending) /\ ~Has(db'.pending) =>
         db.pending.text \subseteq discarded'
           \cup UNION ({c.text : c \in srv'.conflicts} \cup {srv'.log[i].text : i \in DOMAIN srv'.log})]_vars

(* The cached copy a load may show as the server's version is that         *)
(* version: an acknowledged cache holds exactly the text the server has    *)
(* under its number (settleDraft with a version).                          *)
AckedCacheIsVersion ==
    LET cache == db.cache
    IN  Has(cache) /\ ~cache.unsent /\ cache.seal # LegacyCache.seal =>
          cache.base \in 1..Version /\ cache.text = srv.log[cache.base].text

(* A queue entry marked conflicted is never sent again, so the server must *)
(* already hold its text as a conflict record.                             *)
ConflictedIsRecorded ==
    "conflicted" \in db.pending.marks =>
        \E c \in srv.conflicts : c.text = db.pending.text

(* Every queued save is eventually acknowledged, or stopped for a reason   *)
(* the user is shown (a conflict, a lost page or role, a replaced key), or *)
(* the server refuses it for want of a session or of room; once there is   *)
(* room again it is sent (saveRefusal).                                    *)
QueueDrains ==
    Has(db.pending) ~>
        \/ ~Has(db.pending) \/ db.pending.marks # {} \/ ~srv.writer \/ srv.bar # "none"
        \/ \E t \in Tabs : SameDraft(tab[t].held, db.pending)
=============================================================================
