----------------------------- MODULE NotebookNav -----------------------------
(***************************************************************************)
(* One browser tab moving between notebooks and pages (web/src/main.tsx,   *)
(* loadGate.ts, migrate.ts).  Every operation is an asynchronous function  *)
(* that reads the tab's newest state through references, but the notebook  *)
(* it saves under (`selected`) is the one of the render that started it.   *)
(* Another click may run between any two of its awaits.  A page sealed     *)
(* under another notebook's key cannot be opened in its own any more.      *)
(*                                                                         *)
(* `calls` holds the operations under way, `chain` the order in which the  *)
(* ones that save take their turn (saveChain).  Bounds: Slots operations   *)
(* at once, MaxCalls in all, MaxRounds for FLUSH_ROUNDS.  Texts, versions  *)
(* and keys are SaveSync's and KeyVault's; lists are shown up to date when *)
(* the user clicks them.                                                   *)
(***************************************************************************)
EXTENDS Naturals, Sequences

CONSTANTS Books, Pages, Home, Slots, MaxCalls, MaxRounds, NoBook, NoPage,
          FirstBooks, FirstPages, FirstMarked     \* what exists, and is migrated, when the tab opens

ASSUME NavBounds ==
    /\ Home \in [Pages -> Books] /\ FirstBooks \subseteq Books /\ FirstMarked \subseteq FirstBooks
    /\ FirstPages \subseteq {p \in Pages : Home[p] \in FirstBooks}
    /\ NoBook \notin Books /\ NoPage \notin Pages
    /\ MaxRounds \in Nat \ {0} /\ MaxCalls \in Nat

VARIABLES
    tab,        \* sel, loading, latest, list, open, dirty, writer, items
    calls,      \* the operation of each slot
    chain,      \* slots waiting for their turn to save
    srv,        \* books and pages that exist, pages saved with pins, books marked migrated
    started,    \* operations started so far
    want,       \* history: the notebook the user last asked for and was not refused
    hist        \* history: origins of saves sealed under another notebook, pages opened before theirs

vars == <<tab, calls, chain, srv, started, want, hist>>

Idle == [op |-> "none", by |-> "click", pc |-> "", nb |-> NoBook, cap |-> NoBook, page |-> NoPage,
         ticket |-> 0, rounds |-> 0, flag |-> FALSE, got |-> {}]

Init ==
    /\ tab = [sel |-> NoBook, loading |-> NoBook, latest |-> 0, list |-> {}, open |-> NoPage,
              dirty |-> FALSE, writer |-> FALSE, items |-> {}]
    /\ calls = [s \in Slots |-> IF s = 1 THEN [Idle EXCEPT !.op = "list", !.by = "start", !.pc = "fetch", !.flag = TRUE] ELSE Idle]
    /\ chain = <<>> /\ started = 0 /\ want = NoBook /\ hist = [missealed |-> {}, early |-> {}]
    /\ srv = [books |-> FirstBooks, pages |-> FirstPages,
              pinned |-> {p \in FirstPages : Home[p] \in FirstMarked}, marked |-> FirstMarked]

-----------------------------------------------------------------------------
(* Operations in slots *)

Goes(s, pc) == calls' = [calls EXCEPT ![s].pc = pc]
Ends(s) == calls' = [calls EXCEPT ![s] = Idle]

(* An operation that must save takes its place in the chain at once. *)
Enters(s, call) ==
    /\ calls' = [calls EXCEPT ![s] = call]
    /\ chain' = IF call.pc = "flush" THEN Append(chain, s) ELSE chain

Starts(call) ==
    /\ started < MaxCalls /\ started' = started + 1
    /\ \E s \in Slots : calls[s] = Idle /\ (\A t \in Slots : calls[t] = Idle => s <= t) /\ Enters(s, call)

(* flushOpenPage: only a page with unsaved edits is waited for. *)
Leaving(call, t) ==
    IF t.dirty /\ t.open # NoPage THEN [call EXCEPT !.pc = "flush", !.rounds = 1, !.got = {t.open}]
    ELSE [call EXCEPT !.pc = "left"]

Free == \A s \in Slots : calls[s].op \notin {"create", "delete", "rename", "comment", "new"}      \* `busy`

(* The notebook the tab shows or is about to show. *)
Here == IF tab.loading # NoBook THEN tab.loading ELSE tab.sel

(* loads.begin: this load supersedes every earlier one. *)
Begun(nb) == [tab EXCEPT !.latest = @ + 1, !.loading = nb]

Load(nb, cap, page, by, t) ==
    Leaving([Idle EXCEPT !.op = "load", !.by = by, !.nb = nb, !.cap = cap, !.page = page, !.ticket = tab.latest + 1], t)

(* selectNote inside a load or after it: the load's own, older render      *)
(* flushes a page opened meanwhile.                                        *)
Routed(call, t) == Leaving([call EXCEPT !.by = "routed", !.flag = TRUE], t)

(* Mutant: a load never looks whether a newer one has begun. *)
supersededNever(c) == FALSE
superseded(c) == tab.latest # c.ticket

(* The finally of selectContainer. *)
Finished(c) == IF superseded(c) THEN tab ELSE [tab EXCEPT !.loading = NoBook]

-----------------------------------------------------------------------------
(* Saving the open page: flushOpenPage, save, saveNow *)

(* Mutant: whatever page is open when the turn comes is saved. *)
StillOpenAny(c) == tab.open # NoPage

(* save: the page must still be the open one when its turn comes. *)
StillOpen(c) == tab.open \in c.got

Origin(page, c) == IF page \in hist.early THEN "early" ELSE c.by
Sealed(page, c) ==
    hist' = IF c.cap = Home[page] THEN hist ELSE [hist EXCEPT !.missealed = @ \cup {Origin(page, c)}]

(* A page shown while its notebook is on the way but another is still shown. *)
Shown ==
    hist' = IF tab'.open \notin {NoPage, tab.open} /\ tab.sel # Home[tab'.open] /\ tab.loading = Home[tab'.open]
            THEN [hist EXCEPT !.early = @ \cup {tab'.open}] ELSE hist

(* saveNow under the operation's notebook: saved, kept here, or nothing    *)
(* sent; edits typed meanwhile ask for another round.                      *)
SaveTurn(s) ==
    LET c == calls[s]
        Rest == Tail(chain)
    IN  /\ chain # <<>> /\ s = Head(chain) /\ c.pc = "flush" /\ c.op # "migrate"
        /\ UNCHANGED <<srv, started, want>>
        /\ IF ~StillOpen(c)
           THEN /\ Goes(s, "left") /\ chain' = Rest /\ UNCHANGED <<tab, hist>>
           ELSE IF c.cap = NoBook \/ ~tab.writer
           THEN /\ Goes(s, "refused") /\ chain' = Rest /\ UNCHANGED <<tab, hist>>
           ELSE \/ /\ Sealed(tab.open, c)                       \* sent; or kept here and still dirty
                   /\ \E dirty \in BOOLEAN : tab' = [tab EXCEPT !.dirty = dirty]
                   /\ Goes(s, "left") /\ chain' = Rest
                \/ /\ Sealed(tab.open, c)                       \* edits landed during the save
                   /\ c.rounds < MaxRounds
                   /\ calls' = [calls EXCEPT ![s].rounds = @ + 1]
                   /\ chain' = Append(Rest, s) /\ UNCHANGED tab
                \/ /\ Goes(s, "refused") /\ chain' = Rest /\ UNCHANGED <<tab, hist>>

(* Autosave, the shortcut and a hidden tab save the open page. *)
autosave ==
    /\ tab.open # NoPage /\ tab.dirty
    /\ Starts([Idle EXCEPT !.op = "save", !.by = "timer", !.pc = "flush", !.cap = tab.sel, !.rounds = MaxRounds, !.got = {tab.open}])
    /\ UNCHANGED <<tab, srv, want, hist>>

edit ==
    /\ tab.open # NoPage /\ tab.writer /\ ~tab.dirty
    /\ tab' = [tab EXCEPT !.dirty = TRUE]
    /\ UNCHANGED <<calls, chain, srv, started, want, hist>>

saved(s) ==
    /\ calls[s].op = "save" /\ calls[s].pc \in {"left", "refused"}
    /\ Ends(s) /\ UNCHANGED <<tab, chain, srv, started, want, hist>>

-----------------------------------------------------------------------------
(* Opening a notebook: selectContainer and loadContainer *)

chooseNotebook(nb) ==
    /\ nb \in tab.items
    /\ Starts(Load(nb, tab.sel, NoPage, "click", tab)) /\ tab' = Begun(nb) /\ want' = nb
    /\ UNCHANGED <<srv, hist>>

(* A route of another notebook names the page to open. *)
followRoute(page) ==
    /\ page \in srv.pages /\ Home[page] \in tab.items \ {tab.loading, tab.sel}
    /\ Starts(Load(Home[page], tab.sel, page, "route", tab)) /\ tab' = Begun(Home[page]) /\ want' = Home[page]
    /\ UNCHANGED <<srv, hist>>

(* selectQueueNote: the task's notebook is loaded, the open one too; its   *)
(* page is opened once the load is over.                                   *)
selectQueueNote(page) ==
    /\ page \in srv.pages /\ Home[page] \in tab.items
    /\ Starts(Load(Home[page], tab.sel, page, "queue", tab)) /\ tab' = Begun(Home[page]) /\ want' = Home[page]
    /\ UNCHANGED <<srv, hist>>

loadRefused(s) ==
    /\ calls[s].op = "load" /\ ~calls[s].flag /\ calls[s].pc = "refused"
    /\ tab' = Finished(calls[s])
    /\ want' = IF superseded(calls[s]) THEN want ELSE tab.sel
    /\ Ends(s) /\ UNCHANGED <<chain, srv, started, hist>>

(* "Nothing from the previous notebook may stay editable under this one's key." *)
loadCleared(s) ==
    LET c == calls[s]
    IN  /\ c.op = "load" /\ ~c.flag /\ c.pc = "left"
        /\ IF superseded(c) THEN Ends(s) /\ UNCHANGED tab
           ELSE /\ Goes(s, "keys")
                /\ tab' = [tab EXCEPT !.sel = c.nb, !.writer = FALSE, !.open = NoPage, !.list = {}]
        /\ UNCHANGED <<chain, srv, started, want, hist>>

loadKeyed(s) ==
    LET c == calls[s]
    IN  /\ c.op = "load" /\ c.pc = "keys"
        /\ IF superseded(c) THEN Ends(s) /\ UNCHANGED tab
           ELSE Goes(s, "read") /\ tab' = [tab EXCEPT !.sel = c.nb]
        /\ UNCHANGED <<chain, srv, started, want, hist>>

Held(nb) == {p \in srv.pages : Home[p] = nb}

(* The list, then the page the route asked for; or the read failed. *)
loadRead(s) ==
    LET c == calls[s]
        listed == [tab EXCEPT !.list = Held(c.nb)]
        route == c.by # "queue" /\ c.page \in Held(c.nb) /\ c.page # tab.open /\ Here = c.nb
        opens == Routed(c, tab)
    IN  /\ c.op = "load" /\ c.pc = "read"
        /\ UNCHANGED <<srv, started, want, hist>>
        /\ \/ superseded(c) /\ Ends(s) /\ UNCHANGED <<tab, chain>>
           \/ ~superseded(c) /\ ~route /\ Goes(s, "role") /\ tab' = listed /\ UNCHANGED chain
           \/ ~superseded(c) /\ route /\ Enters(s, opens) /\ tab' = listed
           \/ ~superseded(c) /\ Ends(s) /\ tab' = Finished(c) /\ UNCHANGED chain

(* selectNote looks again after its flush; the load goes on either way. *)
routeOpened(s) ==
    LET c == calls[s]
    IN  /\ c.op = "load" /\ c.flag /\ c.pc \in {"left", "refused"}
        /\ Goes(s, "role")
        /\ tab' = IF c.pc = "refused" \/ Here # c.nb THEN tab ELSE [tab EXCEPT !.open = c.page, !.dirty = FALSE]
        /\ Shown /\ UNCHANGED <<chain, srv, started, want>>

(* migrationDue: one pass at a time, on the notebook just loaded. *)
MigrationDue(nb) == nb \notin srv.marked /\ \A t \in Slots : calls[t].op # "migrate"

Migration(nb) ==
    [Idle EXCEPT !.op = "migrate", !.by = "migrate", !.pc = "next", !.cap = nb, !.flag = TRUE,
                 !.got = {p \in Held(nb) : p \notin srv.pinned}]

(* A writer's pass over the notebook just loaded, unless it is left already. *)
AfterLoad(c) ==
    IF tab.writer /\ tab.sel = c.nb /\ MigrationDue(c.nb) THEN Migration(c.nb) ELSE Idle

(* The role last: writers may edit, an unsent draft of the open page makes *)
(* it dirty (markRecoveredDraftDirty), and the notebook is migrated in the *)
(* background.  The page of the work queue is opened then.                 *)
loadRole(s) ==
    LET c == calls[s]
        queued == c.by = "queue" /\ c.page \in tab.list \ {tab.open}
        opens(t) == Routed([Idle EXCEPT !.op = "note", !.nb = c.nb, !.cap = c.cap, !.page = c.page], t)
    IN  /\ c.op = "load" /\ c.pc = "role"
        /\ UNCHANGED <<srv, started, want, hist>>
        /\ IF superseded(c) THEN Ends(s) /\ UNCHANGED <<tab, chain>>
           ELSE \E writer, dirty \in BOOLEAN :
                  /\ dirty => tab.dirty \/ (writer /\ tab.open # NoPage)
                  /\ tab.dirty => dirty
                  /\ tab' = [Finished(c) EXCEPT !.writer = writer, !.dirty = dirty]
                  /\ \/ queued /\ Enters(s, opens(tab'))
                     \/ /\ ~queued /\ UNCHANGED chain
                        /\ calls' = [calls EXCEPT ![s] = IF writer /\ MigrationDue(c.nb) THEN Migration(c.nb) ELSE Idle]

-----------------------------------------------------------------------------
(* Opening a page: selectNote; and a new one: newNote *)

(* Mutant: not looked at again after the flush. *)
StayedHereBefore(c) == TRUE
StayedHere(c) == Here = c.nb

(* A late caller must not reopen a page under another notebook. *)
selectNote(page) ==
    /\ page \in tab.list /\ page # tab.open /\ Here = tab.sel
    /\ Starts(Leaving([Idle EXCEPT !.op = "note", !.by = "page", !.nb = tab.sel, !.cap = tab.sel, !.page = page], tab))
    /\ UNCHANGED <<tab, srv, want, hist>>

noteOpened(s) ==
    LET c == calls[s]
    IN  /\ c.op = "note" /\ c.pc \in {"left", "refused"}
        /\ calls' = [calls EXCEPT ![s] = IF c.by = "routed" THEN AfterLoad(c) ELSE Idle]
        /\ tab' = IF c.pc = "refused" \/ ~StayedHere(c) \/ tab.open = c.page THEN tab
                  ELSE [tab EXCEPT !.open = c.page, !.dirty = FALSE]
        /\ Shown /\ UNCHANGED <<chain, srv, started, want>>

(* selectSection and openGroup: the page closes, a section's first one opens. *)
selectSection(page) ==
    /\ Here = tab.sel /\ tab.sel # NoBook /\ page \in tab.list \cup {NoPage}
    /\ Starts(Leaving([Idle EXCEPT !.op = "section", !.by = "page", !.nb = tab.sel, !.cap = tab.sel, !.page = page], tab))
    /\ UNCHANGED <<tab, srv, want, hist>>

sectionShown(s) ==
    LET c == calls[s]
    IN  /\ c.op = "section" /\ c.pc \in {"left", "refused"}
        /\ Ends(s)
        /\ tab' = IF c.pc = "refused" THEN tab
                  ELSE IF c.page \in tab.list /\ StayedHere(c) THEN [tab EXCEPT !.open = c.page, !.dirty = FALSE]
                  ELSE [tab EXCEPT !.open = NoPage]
        /\ Shown /\ UNCHANGED <<chain, srv, started, want>>

newNote(page) ==
    /\ tab.sel = Home[page] /\ tab.writer /\ page \notin srv.pages /\ Free
    /\ Starts(Leaving([Idle EXCEPT !.op = "new", !.by = "new", !.nb = tab.sel, !.cap = tab.sel, !.page = page], tab))
    /\ UNCHANGED <<tab, srv, want, hist>>

(* createObject; then the page is listed, opened and saved, or deleted     *)
(* again when the user left the notebook meanwhile.                        *)
newCreated(s) ==
    LET c == calls[s]
    IN  /\ c.op = "new" /\ c.pc \in {"left", "refused"}
        /\ \/ Ends(s) /\ UNCHANGED srv                           \* the page stayed, or no row was made
           \/ c.pc = "left" /\ c.cap \in srv.books /\ Goes(s, "created")
              /\ srv' = [srv EXCEPT !.pages = @ \cup {c.page}, !.pinned = @ \cup {c.page}]   \* nothing old in it
        /\ UNCHANGED <<tab, chain, started, want, hist>>

newListed(s) ==
    LET c == calls[s]
    IN  /\ c.op = "new" /\ c.pc = "created"
        /\ UNCHANGED <<started, want>>
        /\ IF StayedHere(c)
           THEN /\ tab' = [tab EXCEPT !.list = @ \cup {c.page}, !.open = c.page, !.dirty = TRUE]
                /\ Shown
                /\ Enters(s, [Idle EXCEPT !.op = "save", !.by = "new", !.pc = "flush", !.cap = c.cap,
                                          !.rounds = MaxRounds, !.got = {c.page}])
                /\ UNCHANGED srv
           ELSE \E gone \in BOOLEAN :
                  /\ srv' = IF gone THEN [srv EXCEPT !.pages = @ \ {c.page}] ELSE srv
                  /\ Ends(s) /\ UNCHANGED <<tab, chain, hist>>

(* A comment or an attachment is sealed for the open page under the open notebook. *)
SealedChild ==
    /\ tab.open # NoPage /\ Free
    /\ Starts([Idle EXCEPT !.op = "comment", !.by = "child", !.pc = "sent", !.nb = tab.sel, !.cap = tab.sel, !.page = tab.open])
    /\ Sealed(tab.open, [Idle EXCEPT !.by = "child", !.cap = tab.sel])
    /\ UNCHANGED <<tab, srv, want>>

addComment == SealedChild
addAttachment == tab.writer /\ SealedChild

(* A late reply never pulls the user back to the page. *)
childSent(s) ==
    LET c == calls[s]
    IN  /\ c.op = "comment" /\ c.pc = "sent"
        /\ Ends(s)
        /\ tab' = IF tab.open = c.page /\ StayedHere(c) THEN [tab EXCEPT !.open = c.page] ELSE tab
        /\ UNCHANGED <<chain, srv, started, want, hist>>

-----------------------------------------------------------------------------
(* The list of notebooks: loadContainers, joinTeam, newWorkspace, rename, delete *)

(* The list is read again after a wait, and a notebook opened by then. *)
Listing ==
    /\ Starts([Idle EXCEPT !.op = "list", !.by = "list", !.pc = "accept", !.cap = tab.sel, !.flag = TRUE])
    /\ UNCHANGED <<tab, srv, want, hist>>

joinTeam == Listing
afterIdentityChange == Listing      \* a key created, restored, linked or reset

(* The invitation is accepted, or the identity read; or that failed. *)
listAccepted(s) ==
    /\ calls[s].op = "list" /\ calls[s].pc = "accept" /\ (Goes(s, "fetch") \/ Ends(s))
    /\ UNCHANGED <<tab, chain, srv, started, want, hist>>

(* mark: any load begun after this outranks the pick below. *)
listFetched(s) ==
    /\ calls[s].op = "list" /\ calls[s].pc = "fetch"
    /\ calls' = [calls EXCEPT ![s].pc = "names", ![s].ticket = tab.latest, ![s].got = srv.books]
    /\ UNCHANGED <<tab, chain, srv, started, want, hist>>

listNamed(s) ==
    LET c == calls[s]
    IN  /\ c.op = "list" /\ c.pc = "names"
        /\ UNCHANGED <<srv, started, hist>>
        /\ IF superseded(c)
           THEN calls' = [calls EXCEPT ![s].pc = "fetch", ![s].flag = FALSE] /\ UNCHANGED <<tab, chain, want>>
           ELSE \/ /\ ~c.flag \/ c.got = {}
                   /\ tab' = [tab EXCEPT !.items = c.got] /\ Ends(s) /\ UNCHANGED <<chain, want>>
                \/ /\ c.flag
                   /\ \E nb \in c.got : \E page \in Held(nb) \cup {NoPage} :
                        /\ tab' = [Begun(nb) EXCEPT !.items = c.got]
                        /\ Enters(s, Load(nb, c.cap, page, c.by, tab))
                        /\ want' = nb

(* createNamed: created, keyed and named; removed again when that fails.   *)
(* The new notebook is opened by the function the click started.           *)
newWorkspace(nb) ==
    /\ nb \notin srv.books /\ Free
    /\ Starts([Idle EXCEPT !.op = "create", !.by = "create", !.pc = "create", !.nb = nb, !.cap = tab.sel])
    /\ UNCHANGED <<tab, srv, want, hist>>

created(s) ==
    LET c == calls[s]
    IN  /\ c.op = "create" /\ c.pc = "create"
        /\ UNCHANGED <<started, hist>>
        /\ \/ /\ srv' = [srv EXCEPT !.books = @ \cup {c.nb}, !.marked = @ \cup {c.nb}]
              /\ tab' = [Begun(c.nb) EXCEPT !.items = @ \cup {c.nb}]
              /\ Enters(s, Load(c.nb, c.cap, NoPage, "create", tab))
              /\ want' = c.nb
           \/ Ends(s) /\ UNCHANGED <<tab, chain, srv, want>>

renameWorkspace ==
    /\ tab.sel # NoBook /\ Free
    /\ Starts([Idle EXCEPT !.op = "rename", !.pc = "rename", !.nb = tab.sel])
    /\ UNCHANGED <<tab, srv, want, hist>>

(* Only if it is still open: a late rename must not switch the workspace back. *)
renamed(s) ==
    /\ calls[s].op = "rename" /\ Ends(s)
    /\ tab' = IF tab.sel = calls[s].nb THEN [tab EXCEPT !.sel = calls[s].nb] ELSE tab
    /\ UNCHANGED <<chain, srv, started, want, hist>>

deleteWorkspace ==
    /\ tab.sel # NoBook /\ tab.writer /\ Free
    /\ Starts([Idle EXCEPT !.op = "delete", !.by = "delete", !.pc = "delete", !.nb = tab.sel, !.cap = tab.sel, !.got = tab.items])
    /\ UNCHANGED <<tab, srv, want, hist>>

(* The user may have opened another notebook while the delete ran: that one stays. *)
deleted(s) ==
    LET c    == calls[s]
        rest == [tab EXCEPT !.items = @ \ {c.nb}]
        out  == [rest EXCEPT !.dirty = FALSE, !.open = NoPage]
    IN  /\ c.op = "delete" /\ c.pc = "delete"
        /\ UNCHANGED <<started, hist>>
        /\ \/ /\ c.nb \in srv.books
              /\ srv' = [srv EXCEPT !.books = @ \ {c.nb}, !.pages = @ \ Held(c.nb)]
              /\ IF Here # c.nb THEN tab' = rest /\ Ends(s) /\ UNCHANGED <<chain, want>>
                 ELSE IF c.got \ {c.nb} = {}
                 THEN /\ tab' = [out EXCEPT !.sel = NoBook, !.list = {}]
                      /\ Ends(s) /\ want' = NoBook /\ UNCHANGED chain
                 ELSE \E next \in c.got \ {c.nb} :
                        /\ tab' = [out EXCEPT !.latest = @ + 1, !.loading = next]
                        /\ Enters(s, Load(next, c.cap, NoPage, "delete", out))
                        /\ want' = next
           \/ Ends(s) /\ UNCHANGED <<tab, chain, srv, want>>

-----------------------------------------------------------------------------
(* migrate.ts, in the background on the open notebook *)

(* here(): nothing more is written once the user left. *)
StillHere(c) == tab.sel = c.cap

migrateNext(s) ==
    LET c == calls[s]
    IN  /\ c.op = "migrate" /\ c.pc = "next" /\ c.got # {}
        /\ \E page \in c.got :
             IF StillHere(c)
             THEN /\ calls' = [calls EXCEPT ![s].pc = "flush", ![s].page = page, ![s].got = @ \ {page}]
                  /\ chain' = Append(chain, s)
             ELSE /\ calls' = [calls EXCEPT ![s].got = @ \ {page}, ![s].flag = FALSE]
                  /\ UNCHANGED chain
        /\ UNCHANGED <<tab, srv, started, want, hist>>

(* Mutant: a page that was not saved does not hold the marker back. *)
CompleteAnyway(c, done) == c.flag
Complete(c, done) == c.flag /\ done

(* pinPage, in its turn: an open page carries its pins with its own save,  *)
(* which this pass does not count; another one is written from the list.   *)
pinPage(s) ==
    LET c == calls[s]
        Back(done) == calls' = [calls EXCEPT ![s].pc = "next", ![s].flag = Complete(c, done)]
    IN  /\ chain # <<>> /\ s = Head(chain) /\ c.op = "migrate" /\ c.pc = "flush"
        /\ chain' = Tail(chain)
        /\ UNCHANGED <<tab, started, want>>
        /\ IF tab.open = c.page /\ tab.writer
           THEN /\ Sealed(c.page, c) /\ Back(FALSE)
                /\ \E done \in BOOLEAN : srv' = IF done /\ c.page \in srv.pages THEN [srv EXCEPT !.pinned = @ \cup {c.page}] ELSE srv
           ELSE IF tab.open # c.page /\ c.page \in tab.list
           THEN /\ Sealed(c.page, c)
                /\ \E done \in BOOLEAN :
                     /\ done => c.page \in srv.pages
                     /\ Back(done)
                     /\ srv' = IF done THEN [srv EXCEPT !.pinned = @ \cup {c.page}] ELSE srv
           ELSE Back(FALSE) /\ UNCHANGED <<srv, hist>>

(* Sealed into the notebook's name, under its own key. *)
Marks(c) == IF StillHere(c) /\ c.cap \in srv.books THEN [srv EXCEPT !.marked = @ \cup {c.cap}] ELSE srv

(* The marker, after every page: the commit point. *)
migrated(s) ==
    LET c == calls[s]
    IN  /\ c.op = "migrate" /\ c.pc = "next" /\ c.got = {}
        /\ Ends(s)
        /\ \E done \in BOOLEAN :
             srv' = IF done /\ c.flag THEN Marks(c) ELSE srv
        /\ UNCHANGED <<tab, chain, started, want, hist>>

-----------------------------------------------------------------------------
(* What follows a flush at once, before any click or answer. *)
Urgent == \E s \in Slots : calls[s].op \in {"load", "note", "section", "save"} /\ calls[s].pc \in {"left", "refused"}
Continue(s) == saved(s) \/ loadRefused(s) \/ loadCleared(s) \/ routeOpened(s) \/ noteOpened(s) \/ sectionShown(s)

Answered(s) ==
    \/ SaveTurn(s) \/ loadKeyed(s) \/ loadRead(s) \/ loadRole(s)
    \/ newCreated(s) \/ newListed(s) \/ childSent(s)
    \/ listAccepted(s) \/ listFetched(s) \/ listNamed(s) \/ created(s) \/ renamed(s) \/ deleted(s)
    \/ migrateNext(s) \/ pinPage(s) \/ migrated(s)

Step(s) == (Urgent /\ Continue(s)) \/ (~Urgent /\ Answered(s))

User ==
    \/ edit \/ autosave \/ addComment \/ addAttachment \/ joinTeam \/ afterIdentityChange \/ renameWorkspace \/ deleteWorkspace
    \/ \E nb \in Books : chooseNotebook(nb) \/ newWorkspace(nb)
    \/ \E page \in Pages : selectNote(page) \/ newNote(page) \/ followRoute(page) \/ selectQueueNote(page)
    \/ \E page \in Pages \cup {NoPage} : selectSection(page)

(* Every operation done and nothing more to ask for: the only rest. *)
Rest == (\A s \in Slots : calls[s] = Idle) /\ UNCHANGED vars

Next == (~Urgent /\ User) \/ (\E s \in Slots : Step(s)) \/ Rest

Spec == Init /\ [][Next]_vars

-----------------------------------------------------------------------------
(* "Nothing from the previous notebook may stay editable under this one's  *)
(* key": whatever clicks overlap, the pages listed and the page open are   *)
(* of the notebook the tab shows (loadContainer, selectNote, newNote).     *)
(* Left out is a page opened for a user who left and is on the way back:   *)
(* its notebook is the one being loaded, not yet the one shown.            *)
OnlyItsOwn == \A p \in (tab.list \cup {tab.open}) \ (hist.early \cup {NoPage}) : Home[p] = tab.sel

(* A save is sealed under its page's own notebook, although it uses the    *)
(* notebook of the render that started it (flushOpenPage, save, pinPage).  *)
(* Left out are those pages opened early, the functions that open a        *)
(* notebook after a long wait, and the page a load opens at its end; the   *)
(* next property includes them.                                            *)
SealedUnderOwn == hist.missealed \subseteq {"create", "list", "routed", "early"}

(* deleteWorkspace: "a switch the user makes meanwhile is never flushed or *)
(* reloaded through this (stale) closure".  The same of every operation.   *)
NeverThroughStaleClosure == hist.missealed = {}

(* Only the newest load finishes: with no load under way the tab shows the *)
(* notebook asked for last, unless leaving the open page was refused, and  *)
(* no loading flag is left behind (loadGate, selectContainer).  Deleting   *)
(* the last notebook asks for none: a reload of it under way then is not   *)
(* superseded and shows it again.                                          *)
LastChoiceShown ==
    (\A s \in Slots : calls[s].op # "load") => tab.loading = NoBook /\ (want # NoBook => tab.sel = want)

(* The migration marker, after which old forms are refused, is written     *)
(* only when every page of the notebook carries its pins (migrateNotebook). *)
MarkedIsPinned == \A nb \in srv.marked : Held(nb) \subseteq srv.pinned

=============================================================================
