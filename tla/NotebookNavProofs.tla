--------------------------- MODULE NotebookNavProofs ---------------------------
(***************************************************************************)
(* Proofs about NotebookNav, for any number of notebooks, pages and        *)
(* operations at once.                                                     *)
(***************************************************************************)
EXTENDS NotebookNav, TLAPS

NotebookOrNone == Books \cup {NoBook}
PageOrNone == Pages \cup {NoPage}

Ops == {"none", "list", "load", "note", "section", "new", "save", "comment", "create", "rename", "delete", "migrate"}
Origins == {"click", "start", "list", "route", "queue", "routed", "page", "new", "timer", "child", "create", "delete", "migrate",
            "early"}
Places == {"", "flush", "left", "refused", "keys", "read", "role", "accept", "fetch", "names", "create", "created",
           "sent", "rename", "delete", "next"}

TabType == [sel : NotebookOrNone, loading : NotebookOrNone, latest : Nat, list : SUBSET Pages,
            open : PageOrNone, dirty : BOOLEAN, writer : BOOLEAN, items : SUBSET Books]

CallType == [op : Ops, by : Origins, pc : Places, nb : NotebookOrNone, cap : NotebookOrNone,
             page : PageOrNone, ticket : Nat, rounds : Nat, flag : BOOLEAN, got : SUBSET (Pages \cup Books)]

SrvType == [books : SUBSET Books, pages : SUBSET Pages, pinned : SUBSET Pages, marked : SUBSET Books]
HistType == [missealed : SUBSET Origins, early : SUBSET Pages]

(* What an operation may hold, whatever the rest of the state. *)
Shape(c) ==
    /\ c.pc = "flush" => c.got \subseteq Pages /\ c.op # "list"
    /\ c.op = "list" => c.got \subseteq Books /\ c.by \in {"start", "list"} /\ (c.by = "start" => c.cap = NoBook)
    /\ c.op = "delete" => c.pc = "delete" /\ c.got \subseteq Books
    /\ c.op = "create" => c.pc = "create" /\ c.by = "create" /\ c.nb \in Books
    /\ c.op = "load" => c.nb \in Books /\ (c.flag => c.page \in Pages /\ Home[c.page] = c.nb)
    /\ c.op = "note" => c.page \in Pages /\ (c.by = "routed" => c.nb \in Books)
    /\ c.op = "new" => c.page \in Pages /\ c.cap = Home[c.page] /\ c.nb = c.cap
    /\ c.op = "migrate" => /\ c.cap \in Books /\ \A p \in c.got : p \in Pages /\ Home[p] = c.cap
                           /\ c.pc = "flush" => c.page \in Pages /\ Home[c.page] = c.cap

StateTyped == tab \in TabType /\ srv \in SrvType /\ hist \in HistType /\ want \in NotebookOrNone
CallsTyped == calls \in [Slots -> CallType] /\ \A s \in Slots : Shape(calls[s])
Types == StateTyped /\ CallsTyped

LEMMA IdleIsCall == Idle \in CallType /\ Shape(Idle)
  BY DEF Idle, CallType, Shape, Ops, Origins, Places, NotebookOrNone, PageOrNone

(* A flush is entered with the open page, of any operation but a list. *)
LEMMA LeavingIsCall ==
  ASSUME NEW call \in CallType, Shape(call), call.op \notin {"list", "delete", "create", "migrate"}, NEW t \in TabType
  PROVE  Leaving(call, t) \in CallType /\ Shape(Leaving(call, t))
  BY ZenonT(40) DEF Leaving, CallType, Shape, TabType, PageOrNone, Places

(* The operations of the other slots are untouched. *)
LEMMA CallReplaced ==
  ASSUME CallsTyped, NEW s \in Slots, NEW d \in CallType, Shape(d), calls' = [calls EXCEPT ![s] = d]
  PROVE  CallsTyped'
  BY DEF CallsTyped

LEMMA GoesTyped ==
  ASSUME CallsTyped, NEW s \in Slots, NEW pc \in Places \ {"flush"}, Goes(s, pc),
         calls[s].op \notin {"delete", "create"}
  PROVE  CallsTyped'
  <1> DEFINE d == [calls[s] EXCEPT !.pc = pc]
  <1>1. calls' = [calls EXCEPT ![s] = d] /\ d \in CallType
    BY DEF Goes, CallsTyped, CallType
  <1>2. Shape(d)
    BY DEF CallsTyped, CallType, Shape
  <1> QED BY <1>1, <1>2, CallReplaced

LEMMA EndsTyped ==
  ASSUME CallsTyped, NEW s \in Slots, Ends(s)
  PROVE  CallsTyped'
  BY IdleIsCall, CallReplaced DEF Ends

LEMMA EntersTyped ==
  ASSUME CallsTyped, NEW s \in Slots, NEW d \in CallType, Shape(d), Enters(s, d)
  PROVE  CallsTyped'
  BY CallReplaced DEF Enters

LEMMA StartsTyped ==
  ASSUME CallsTyped, NEW d \in CallType, Shape(d), Starts(d)
  PROVE  CallsTyped'
  BY EntersTyped DEF Starts

LEMMA BegunTyped ==
  ASSUME StateTyped, NEW nb \in Books
  PROVE  Begun(nb) \in TabType /\ tab.latest + 1 \in Nat
  <1>1. tab \in TabType /\ tab.latest \in Nat
    BY DEF StateTyped, TabType
  <1>2. tab.latest + 1 \in Nat
    BY <1>1
  <1> DEFINE n == tab.latest + 1
  <1>3. Begun(nb) = [tab EXCEPT !.latest = n, !.loading = nb]
    BY DEF Begun
  <1> HIDE DEF n
  <1>4. [tab EXCEPT !.latest = n, !.loading = nb] \in TabType
    BY <1>1, <1>2 DEF TabType, NotebookOrNone, n
  <1> QED BY <1>2, <1>3, <1>4

LEMMA FinishedTyped ==
  ASSUME StateTyped, NEW c
  PROVE  Finished(c) \in TabType
  BY DEF StateTyped, TabType, Finished, NotebookOrNone

LEMMA LoadTyped ==
  ASSUME StateTyped, NEW nb \in Books, NEW cap \in NotebookOrNone, NEW page \in PageOrNone,
         NEW by \in Origins, NEW t \in TabType
  PROVE  Load(nb, cap, page, by, t) \in CallType /\ Shape(Load(nb, cap, page, by, t))
  <1> DEFINE n == tab.latest + 1
             d == [Idle EXCEPT !.op = "load", !.by = by, !.nb = nb, !.cap = cap, !.page = page, !.ticket = n]
  <1> n \in Nat
    BY BegunTyped
  <1> HIDE DEF n
  <1>1. d \in CallType
    BY IdleIsCall DEF CallType, Ops, NotebookOrNone
  <1>2. Shape(d) /\ d.op = "load"
    BY DEF Idle, Shape
  <1> QED BY <1>1, <1>2, LeavingIsCall DEF Load, n

LEMMA SealedTyped ==
  ASSUME StateTyped, NEW page, NEW c, c.by \in Origins, Sealed(page, c)
  PROVE  hist' \in HistType
  BY DEF StateTyped, HistType, Sealed, Origin, Origins

LEMMA ShownTyped ==
  ASSUME StateTyped, tab' \in TabType, Shown
  PROVE  hist' \in HistType
  BY DEF StateTyped, HistType, Shown, TabType, PageOrNone

LEMMA InitTypes == Init => Types
  <1> SUFFICES ASSUME Init PROVE Types
    OBVIOUS
  <1> DEFINE d == [Idle EXCEPT !.op = "list", !.by = "start", !.pc = "fetch", !.flag = TRUE]
  <1>1. d \in CallType
    BY IdleIsCall DEF CallType, Ops, Origins, Places
  <1>2. Shape(d)
    BY DEF Idle, Shape
  <1>3. CallsTyped
    BY <1>1, <1>2, IdleIsCall DEF Init, CallsTyped
  <1>4. StateTyped
    BY NavBounds DEF Init, StateTyped, TabType, SrvType, HistType, NotebookOrNone, PageOrNone
  <1> QED BY <1>3, <1>4 DEF Types

-----------------------------------------------------------------------------
(* What one step does to the slots *)

Others(s) == \A t \in Slots : t # s => calls'[t] = calls[t]

LEMMA GoesAt ==
  ASSUME CallsTyped, NEW s \in Slots, NEW pc, Goes(s, pc)
  PROVE  /\ Others(s) /\ calls'[s] = [calls[s] EXCEPT !.pc = pc] /\ calls'[s].flag = calls[s].flag
         /\ calls'[s].op = calls[s].op /\ calls'[s].nb = calls[s].nb /\ calls'[s].ticket = calls[s].ticket /\ calls'[s].pc = pc
         /\ calls'[s].page = calls[s].page /\ calls'[s].cap = calls[s].cap
  BY DEF CallsTyped, CallType, Goes, Others

LEMMA EndsAt ==
  ASSUME CallsTyped, NEW s \in Slots, Ends(s)
  PROVE  Others(s) /\ calls'[s] = Idle
  BY DEF CallsTyped, Ends, Others

LEMMA EntersAt ==
  ASSUME CallsTyped, NEW s \in Slots, NEW d, Enters(s, d)
  PROVE  Others(s) /\ calls'[s] = d
  BY DEF CallsTyped, Enters, Others

LEMMA StartsAt ==
  ASSUME CallsTyped, NEW d, Starts(d)
  PROVE  \E s \in Slots : calls[s] = Idle /\ Others(s) /\ calls'[s] = d
  BY EntersAt DEF Starts

LEMMA IdleIs == Idle.op = "none" /\ Idle.pc = "" /\ Idle.by = "click"
  BY DEF Idle

LEMMA LeavingIs ==
  ASSUME NEW call \in CallType, NEW t
  PROVE  LET d == Leaving(call, t)
         IN  /\ d.op = call.op /\ d.by = call.by /\ d.nb = call.nb /\ d.cap = call.cap /\ d.page = call.page /\ d.ticket = call.ticket
             /\ d.flag = call.flag
             /\ \/ d.pc = "flush" /\ d.got = {t.open} /\ t.open # NoPage
                \/ d.pc = "left"
  BY DEF Leaving, CallType

LEMMA LoadIs ==
  ASSUME StateTyped, NEW nb \in Books, NEW cap \in NotebookOrNone, NEW page \in PageOrNone,
         NEW by \in Origins, NEW t \in TabType
  PROVE  LET d == Load(nb, cap, page, by, t)
         IN  /\ d.op = "load" /\ d.by = by /\ d.nb = nb /\ d.cap = cap /\ d.ticket = tab.latest + 1 /\ ~d.flag
             /\ \/ d.pc = "flush" /\ d.got = {t.open} /\ t.open # NoPage
                \/ d.pc = "left"
  <1> DEFINE n == tab.latest + 1
             d == [Idle EXCEPT !.op = "load", !.by = by, !.nb = nb, !.cap = cap, !.page = page, !.ticket = n]
  <1> n \in Nat
    BY BegunTyped
  <1> HIDE DEF n
  <1>1. d \in CallType
    BY IdleIsCall DEF CallType, Ops, NotebookOrNone
  <1>2. d.op = "load" /\ d.by = by /\ d.nb = nb /\ d.cap = cap /\ d.ticket = n /\ ~d.flag
    BY DEF Idle
  <1> HIDE DEF d
  <1>3. Load(nb, cap, page, by, t) = Leaving(d, t)
    BY DEF Load, d, n
  <1> QED BY <1>1, <1>2, <1>3, LeavingIs DEF n

(* What selectNote flushes with when a load calls it. *)
LEMMA RoutedIs ==
  ASSUME NEW call \in CallType, Shape(call), call.op \in {"load", "note"}, call.nb \in Books, call.page \in Pages,
         call.op = "load" => Home[call.page] = call.nb, NEW t \in TabType
  PROVE  LET d == Routed(call, t)
         IN  /\ d \in CallType /\ Shape(d)
             /\ d.op = call.op /\ d.by = "routed" /\ d.nb = call.nb /\ d.page = call.page /\ d.ticket = call.ticket /\ d.flag
  <1> DEFINE e == [call EXCEPT !.by = "routed", !.flag = TRUE]
  <1>1. e \in CallType /\ e.op = call.op /\ e.by = "routed" /\ e.nb = call.nb /\ e.page = call.page
        /\ e.ticket = call.ticket /\ e.flag /\ e.pc = call.pc /\ e.got = call.got
    BY DEF CallType, Origins
  <1>2. Routed(call, t) = Leaving(e, t)
    BY DEF Routed
  <1> HIDE DEF e
  <1>3. Shape(e)
    BY <1>1 DEF Shape
  <1> DEFINE d == Leaving(e, t)
  <1>4. d \in CallType /\ Shape(d)
    BY <1>1, <1>3, LeavingIsCall
  <1>5. d.op = call.op /\ d.by = "routed" /\ d.nb = call.nb /\ d.page = call.page /\ d.ticket = call.ticket /\ d.flag
    BY <1>1, LeavingIs
  <1> QED BY <1>2, <1>4, <1>5

(* The pass a load ends with. *)
LEMMA MigrationIs ==
  ASSUME StateTyped, NEW nb \in Books
  PROVE  LET d == Migration(nb)
         IN  /\ d \in CallType /\ Shape(d)
             /\ d.op = "migrate" /\ d.cap = nb /\ d.pc = "next" /\ d.got = {p \in Held(nb) : p \notin srv.pinned}
  <1>1. Held(nb) \subseteq Pages /\ \A p \in Held(nb) : Home[p] = nb
    BY DEF Held, StateTyped, SrvType
  <1>2. Migration(nb) \in CallType
    BY <1>1, IdleIsCall DEF Migration, CallType, Ops, Origins, Places, NotebookOrNone
  <1>3. Shape(Migration(nb))
    BY <1>1 DEF Migration, Idle, Shape
  <1>4. Migration(nb).op = "migrate" /\ Migration(nb).cap = nb /\ Migration(nb).pc = "next"
        /\ Migration(nb).got = {p \in Held(nb) : p \notin srv.pinned}
    BY DEF Migration, Idle
  <1> QED BY <1>2, <1>3, <1>4

-----------------------------------------------------------------------------
(* The user's clicks *)

LEMMA UserTypes ==
  ASSUME Types, User
  PROVE  Types'
  <1> USE DEF Types
  <1>t. /\ tab \in TabType /\ srv \in SrvType /\ hist \in HistType /\ want \in NotebookOrNone
        /\ tab.sel \in NotebookOrNone /\ tab.open \in PageOrNone /\ tab.items \in SUBSET Books /\ tab.list \in SUBSET Pages
        /\ MaxRounds \in Nat
    BY NavBounds DEF StateTyped, TabType
  <1> USE <1>t
  <1>1. CASE edit
    BY <1>1 DEF edit, StateTyped, CallsTyped, TabType
  <1>2. CASE autosave
    <2> DEFINE d == [Idle EXCEPT !.op = "save", !.by = "timer", !.pc = "flush", !.cap = tab.sel, !.rounds = MaxRounds, !.got = {tab.open}]
    <2>1. d \in CallType
      BY <1>2, IdleIsCall DEF autosave, CallType, Ops, Origins, Places, PageOrNone
    <2>2. Shape(d)
      BY <1>2 DEF Idle, Shape, autosave, PageOrNone
    <2>3. CallsTyped'
      BY <1>2, <2>1, <2>2, StartsTyped DEF autosave
    <2> QED BY <1>2, <2>3 DEF autosave, StateTyped
  <1>3. CASE SealedChild
    <2> DEFINE d == [Idle EXCEPT !.op = "comment", !.by = "child", !.pc = "sent", !.nb = tab.sel, !.cap = tab.sel, !.page = tab.open]
               e == [Idle EXCEPT !.by = "child", !.cap = tab.sel]
    <2>1. d \in CallType
      BY IdleIsCall DEF CallType, Ops, Origins, Places
    <2>2. Shape(d) /\ e.by \in Origins
      BY DEF Idle, Shape, Origins
    <2>3. CallsTyped'
      BY <1>3, <2>1, <2>2, StartsTyped DEF SealedChild
    <2>4. hist' \in HistType
      BY <1>3, <2>2, SealedTyped DEF SealedChild
    <2> QED BY <1>3, <2>3, <2>4 DEF SealedChild, StateTyped
  <1>4. CASE Listing
    <2> DEFINE d == [Idle EXCEPT !.op = "list", !.by = "list", !.pc = "accept", !.cap = tab.sel, !.flag = TRUE]
    <2>1. d \in CallType
      BY IdleIsCall DEF CallType, Ops, Origins, Places
    <2>2. Shape(d)
      BY DEF Idle, Shape
    <2>3. CallsTyped'
      BY <1>4, <2>1, <2>2, StartsTyped DEF Listing
    <2> QED BY <1>4, <2>3 DEF Listing, StateTyped
  <1>5. CASE renameWorkspace
    <2> DEFINE d == [Idle EXCEPT !.op = "rename", !.pc = "rename", !.nb = tab.sel]
    <2>1. d \in CallType
      BY IdleIsCall DEF CallType, Ops, Origins, Places
    <2>2. Shape(d)
      BY DEF Idle, Shape
    <2>3. CallsTyped'
      BY <1>5, <2>1, <2>2, StartsTyped DEF renameWorkspace
    <2> QED BY <1>5, <2>3 DEF renameWorkspace, StateTyped
  <1>6. CASE deleteWorkspace
    <2> DEFINE d == [Idle EXCEPT !.op = "delete", !.by = "delete", !.pc = "delete", !.nb = tab.sel, !.cap = tab.sel, !.got = tab.items]
    <2>1. d \in CallType
      BY IdleIsCall DEF CallType, Ops, Origins, Places
    <2>2. Shape(d)
      BY DEF Idle, Shape
    <2>3. CallsTyped'
      BY <1>6, <2>1, <2>2, StartsTyped DEF deleteWorkspace
    <2> QED BY <1>6, <2>3 DEF deleteWorkspace, StateTyped
  <1>7. ASSUME NEW nb \in Books, chooseNotebook(nb)
        PROVE  Types'
    <2>1. CallsTyped'
      BY <1>7, LoadTyped, StartsTyped DEF chooseNotebook, Origins, PageOrNone
    <2> QED BY <1>7, <2>1, BegunTyped DEF chooseNotebook, StateTyped, NotebookOrNone
  <1>8. ASSUME NEW nb \in Books, newWorkspace(nb)
        PROVE  Types'
    <2> DEFINE d == [Idle EXCEPT !.op = "create", !.by = "create", !.pc = "create", !.nb = nb, !.cap = tab.sel]
    <2>1. d \in CallType
      BY IdleIsCall DEF CallType, Ops, Origins, Places, NotebookOrNone
    <2>2. Shape(d)
      BY DEF Idle, Shape
    <2>3. CallsTyped'
      BY <1>8, <2>1, <2>2, StartsTyped DEF newWorkspace
    <2> QED BY <1>8, <2>3 DEF newWorkspace, StateTyped
  <1>9. ASSUME NEW page \in Pages, selectNote(page)
        PROVE  Types'
    <2> DEFINE d == [Idle EXCEPT !.op = "note", !.by = "page", !.nb = tab.sel, !.cap = tab.sel, !.page = page]
    <2>1. d \in CallType
      BY IdleIsCall DEF CallType, Ops, Origins, PageOrNone
    <2>2. Shape(d) /\ d.op = "note"
      BY DEF Idle, Shape
    <2>3. CallsTyped'
      BY <1>9, <2>1, <2>2, LeavingIsCall, StartsTyped DEF selectNote
    <2> QED BY <1>9, <2>3 DEF selectNote, StateTyped
  <1>10. ASSUME NEW page \in Pages, newNote(page)
         PROVE  Types'
    <2> DEFINE d == [Idle EXCEPT !.op = "new", !.by = "new", !.nb = tab.sel, !.cap = tab.sel, !.page = page]
    <2>1. d \in CallType
      BY IdleIsCall DEF CallType, Ops, Origins, PageOrNone
    <2>2. Shape(d) /\ d.op = "new"
      BY <1>10 DEF Idle, Shape, newNote
    <2>3. CallsTyped'
      BY <1>10, <2>1, <2>2, LeavingIsCall, StartsTyped DEF newNote
    <2> QED BY <1>10, <2>3 DEF newNote, StateTyped
  <1>11. ASSUME NEW page \in Pages, followRoute(page) \/ selectQueueNote(page)
         PROVE  Types'
    <2>1. Home[page] \in Books
      BY NavBounds
    <2>2. CallsTyped'
      BY <1>11, <2>1, LoadTyped, StartsTyped DEF followRoute, selectQueueNote, Origins, PageOrNone
    <2> QED BY <1>11, <2>1, <2>2, BegunTyped DEF followRoute, selectQueueNote, StateTyped, NotebookOrNone
  <1>12. ASSUME NEW page \in PageOrNone, selectSection(page)
         PROVE  Types'
    <2> DEFINE d == [Idle EXCEPT !.op = "section", !.by = "page", !.nb = tab.sel, !.cap = tab.sel, !.page = page]
    <2>1. d \in CallType
      BY IdleIsCall DEF CallType, Ops, Origins
    <2>2. Shape(d) /\ d.op = "section"
      BY DEF Idle, Shape
    <2>3. CallsTyped'
      BY <1>12, <2>1, <2>2, LeavingIsCall, StartsTyped DEF selectSection
    <2> QED BY <1>12, <2>3 DEF selectSection, StateTyped
  <1> QED
    BY <1>1, <1>2, <1>3, <1>4, <1>5, <1>6, <1>7, <1>8, <1>9, <1>10, <1>11, <1>12
    DEF User, addComment, addAttachment, joinTeam, afterIdentityChange, PageOrNone

-----------------------------------------------------------------------------
(* The steps of an operation *)

LEMMA StepTypes ==
  ASSUME Types, NEW s \in Slots, Continue(s) \/ Answered(s)
  PROVE  Types'
  <1> USE DEF Types
  <1> DEFINE c == calls[s]
  <1>t. /\ tab \in TabType /\ srv \in SrvType /\ hist \in HistType /\ want \in NotebookOrNone
        /\ tab.sel \in NotebookOrNone /\ tab.open \in PageOrNone /\ tab.items \in SUBSET Books /\ tab.list \in SUBSET Pages
        /\ MaxRounds \in Nat /\ NoBook \in NotebookOrNone
    BY NavBounds DEF StateTyped, TabType, NotebookOrNone
  <1>c. /\ c \in CallType /\ Shape(c) /\ c.nb \in NotebookOrNone /\ c.cap \in NotebookOrNone /\ c.page \in PageOrNone
        /\ c.by \in Origins /\ c.rounds \in Nat
    BY DEF CallsTyped, CallType
  <1> USE <1>t, <1>c
  <1>m. ASSUME c.nb \in Books, calls' = [calls EXCEPT ![s] = Migration(c.nb)]
        PROVE  CallsTyped'
    <2> DEFINE d == Migration(c.nb)
    <2>1. d \in CallType /\ Shape(d)
      BY <1>m, MigrationIs
    <2> HIDE DEF d
    <2> QED BY <1>m, <2>1, CallReplaced DEF d
  <1>1. CASE saved(s)
    BY <1>1, EndsTyped DEF saved, StateTyped
  <1>2. CASE loadRefused(s)
    BY <1>2, EndsTyped, FinishedTyped DEF loadRefused, StateTyped
  <1>3. CASE loadCleared(s)
    <2>1. CallsTyped'
      BY <1>3, EndsTyped, GoesTyped DEF loadCleared, Places
    <2>2. tab' \in TabType
      BY <1>3 DEF loadCleared, TabType, PageOrNone
    <2> QED BY <1>3, <2>1, <2>2 DEF loadCleared, StateTyped
  <1>4. CASE noteOpened(s)
    <2>1. ASSUME calls' = [calls EXCEPT ![s] = Idle] PROVE CallsTyped'
      BY <2>1, EndsTyped DEF Ends
    <2>2. ASSUME c.by = "routed", calls' = [calls EXCEPT ![s] = Migration(c.nb)] PROVE CallsTyped'
      <3>1. c.nb \in Books
        BY <1>4, <2>2 DEF noteOpened, Shape
      <3> QED BY <2>2, <3>1, <1>m
    <2>3. CallsTyped'
      BY <1>4, <2>1, <2>2 DEF noteOpened, AfterLoad
    <2>4. tab' \in TabType
      BY <1>4 DEF noteOpened, TabType
    <2> QED BY <1>4, <2>3, <2>4, ShownTyped DEF noteOpened, StateTyped
  <1>5. CASE sectionShown(s)
    <2>1. CallsTyped'
      BY <1>5, EndsTyped DEF sectionShown
    <2>2. tab' \in TabType
      BY <1>5 DEF sectionShown, TabType, PageOrNone
    <2> QED BY <1>5, <2>1, <2>2, ShownTyped DEF sectionShown, StateTyped
  <1>6. CASE SaveTurn(s)
    <2>1. tab' \in TabType
      BY <1>6 DEF SaveTurn, TabType
    <2>2. hist' \in HistType
      BY <1>6, SealedTyped DEF SaveTurn
    <2>3. CASE Goes(s, "left") \/ Goes(s, "refused")
      <3>1. c.op \notin {"delete", "create"}
        BY <1>6 DEF SaveTurn, Shape
      <3>2. CallsTyped'
        BY <2>3, <3>1, GoesTyped DEF Places
      <3> QED BY <1>6, <2>1, <2>2, <3>2 DEF SaveTurn, StateTyped
    <2>4. CASE calls' = [calls EXCEPT ![s].rounds = @ + 1]
      <3> DEFINE n == c.rounds + 1
                 d == [c EXCEPT !.rounds = n]
      <3>1. n \in Nat /\ calls' = [calls EXCEPT ![s] = d]
        BY <2>4 DEF CallsTyped
      <3> HIDE DEF n
      <3>2. d \in CallType /\ Shape(d)
        BY <3>1 DEF CallType, Shape
      <3>3. CallsTyped'
        BY <3>1, <3>2, CallReplaced
      <3> QED BY <1>6, <2>1, <2>2, <3>3 DEF SaveTurn, StateTyped
    <2> QED BY <1>6, <2>3, <2>4 DEF SaveTurn
  <1>7. CASE loadKeyed(s)
    <2>1. CallsTyped'
      BY <1>7, EndsTyped, GoesTyped DEF loadKeyed, Places
    <2>2. tab' \in TabType
      BY <1>7 DEF loadKeyed, TabType
    <2> QED BY <1>7, <2>1, <2>2 DEF loadKeyed, StateTyped
  <1>8. CASE loadRead(s)
    <2>1. Held(c.nb) \subseteq Pages
      BY DEF Held, SrvType
    <2>2. tab' \in TabType
      <3> DEFINE ps == Held(c.nb)
      <3>1. [tab EXCEPT !.list = ps] \in TabType
        BY <2>1 DEF TabType
      <3> QED BY <1>8, <3>1, FinishedTyped DEF loadRead
    <2>3. ASSUME Enters(s, Routed(c, tab)), c.page \in Held(c.nb)
          PROVE  CallsTyped'
      <3>1. c.op = "load" /\ c.nb \in Books /\ c.page \in Pages /\ Home[c.page] = c.nb
        BY <1>8, <2>1, <2>3 DEF loadRead, Shape, Held
      <3>2. Routed(c, tab) \in CallType /\ Shape(Routed(c, tab))
        BY <3>1, RoutedIs
      <3> QED BY <2>3, <3>2, EntersTyped
    <2>4. CallsTyped'
      BY <1>8, <2>3, EndsTyped, GoesTyped DEF loadRead, Places
    <2> QED BY <1>8, <2>2, <2>4 DEF loadRead, StateTyped
  <1>9. CASE loadRole(s)
    <2>0. c.nb \in Books
      BY <1>9 DEF loadRole, Shape
    <2>t. \/ tab' = tab
          \/ \E writer, dirty \in BOOLEAN : tab' = [Finished(c) EXCEPT !.writer = writer, !.dirty = dirty]
      BY <1>9, ZenonT(40) DEF loadRole
    <2>1. tab' \in TabType
      BY <2>t, FinishedTyped, ZenonT(40) DEF TabType
    <2> DEFINE d == [Idle EXCEPT !.op = "note", !.nb = c.nb, !.cap = c.cap, !.page = c.page]
    <2>2. ASSUME c.page \in tab.list, Enters(s, Routed(d, tab'))
          PROVE  CallsTyped'
      <3>1. d \in CallType
        BY IdleIsCall DEF CallType, Ops
      <3>2. Shape(d) /\ d.op = "note" /\ d.nb \in Books /\ d.page \in Pages
        BY <2>0, <2>2 DEF Idle, Shape
      <3> HIDE DEF d
      <3>3. Routed(d, tab') \in CallType /\ Shape(Routed(d, tab'))
        BY <2>1, <3>1, <3>2, RoutedIs
      <3> QED BY <2>2, <3>3, EntersTyped DEF d
    <2>3. ASSUME calls' = [calls EXCEPT ![s] = Migration(c.nb)] PROVE CallsTyped'
      BY <2>0, <2>3, <1>m
    <2>4. ASSUME calls' = [calls EXCEPT ![s] = Idle] PROVE CallsTyped'
      BY <2>4, EndsTyped DEF Ends
    <2>5. CallsTyped'
      BY <1>9, <2>2, <2>3, <2>4, EndsTyped DEF loadRole
    <2> QED BY <1>9, <2>1, <2>5 DEF loadRole, StateTyped
  <1>10. CASE newCreated(s)
    <2>1. CallsTyped'
      BY <1>10, EndsTyped, GoesTyped DEF newCreated, Places
    <2>a. c.page \in Pages
      BY <1>10 DEF newCreated, Shape
    <2>b. [srv EXCEPT !.pages = @ \cup {c.page}, !.pinned = @ \cup {c.page}] \in SrvType
      BY <2>a DEF SrvType
    <2>2. srv' \in SrvType
      BY <1>10, <2>b DEF newCreated
    <2> QED BY <1>10, <2>1, <2>2 DEF newCreated, StateTyped
  <1>11. CASE newListed(s)
    <2> DEFINE d == [Idle EXCEPT !.op = "save", !.by = "new", !.pc = "flush", !.cap = c.cap, !.rounds = MaxRounds, !.got = {c.page}]
    <2>1. c.page \in Pages
      BY <1>11 DEF newListed, Shape
    <2>2. d \in CallType
      BY <2>1, IdleIsCall DEF CallType, Ops, Origins, Places
    <2>3. Shape(d)
      BY <2>1 DEF Idle, Shape
    <2>4. CallsTyped'
      BY <1>11, <2>2, <2>3, EntersTyped, EndsTyped DEF newListed
    <2>a. [tab EXCEPT !.list = @ \cup {c.page}, !.open = c.page, !.dirty = TRUE] \in TabType
      BY <2>1 DEF TabType, PageOrNone
    <2>b. [srv EXCEPT !.pages = @ \ {c.page}] \in SrvType
      BY DEF SrvType
    <2>5. tab' \in TabType /\ srv' \in SrvType
      BY <1>11, <2>a, <2>b DEF newListed
    <2>6. hist' \in HistType
      BY <1>11, <2>5, ShownTyped DEF newListed
    <2> QED BY <1>11, <2>4, <2>5, <2>6 DEF newListed, StateTyped
  <1>12. CASE childSent(s)
    <2>1. tab' \in TabType
      BY <1>12 DEF childSent, TabType
    <2> QED BY <1>12, <2>1, EndsTyped DEF childSent, StateTyped
  <1>13. CASE listAccepted(s)
    BY <1>13, GoesTyped, EndsTyped DEF listAccepted, Places, StateTyped
  <1>14. CASE listFetched(s)
    <2> DEFINE d == [c EXCEPT !.pc = "names", !.ticket = tab.latest, !.got = srv.books]
    <2>1. calls' = [calls EXCEPT ![s] = d]
      BY <1>14 DEF listFetched, CallsTyped
    <2>2. d \in CallType
      BY DEF CallType, Places, TabType, SrvType
    <2>3. Shape(d)
      BY <1>14 DEF listFetched, Shape, CallType, SrvType
    <2> QED BY <1>14, <2>1, <2>2, <2>3, CallReplaced DEF listFetched, StateTyped
  <1>15. CASE listNamed(s)
    <2> DEFINE d == [c EXCEPT !.pc = "fetch", !.flag = FALSE]
    <2>1. c.got \subseteq Books
      BY <1>15 DEF listNamed, Shape
    <2>2. CASE calls' = [calls EXCEPT ![s].pc = "fetch", ![s].flag = FALSE] /\ UNCHANGED <<tab, want>>
      <3>1. calls' = [calls EXCEPT ![s] = d]
        BY <2>2 DEF CallsTyped
      <3>2. d \in CallType
        BY DEF CallType, Places
      <3>3. Shape(d)
        BY <1>15 DEF listNamed, Shape, CallType
      <3> QED BY <1>15, <2>2, <3>1, <3>2, <3>3, CallReplaced DEF listNamed, StateTyped
    <2>3. CASE tab' = [tab EXCEPT !.items = c.got] /\ Ends(s) /\ UNCHANGED want
      <3>1. tab' \in TabType
        BY <2>1, <2>3 DEF TabType
      <3> QED BY <1>15, <2>3, <3>1, EndsTyped DEF listNamed, StateTyped
    <2>4. ASSUME NEW nb \in c.got, NEW page \in Held(nb) \cup {NoPage},
                 tab' = [Begun(nb) EXCEPT !.items = c.got], Enters(s, Load(nb, c.cap, page, c.by, tab)), want' = nb
          PROVE  Types'
      <3>1. nb \in Books /\ page \in PageOrNone
        BY <2>1 DEF Held, SrvType, PageOrNone
      <3>2. tab' \in TabType
        BY <2>1, <2>4, <3>1, BegunTyped DEF TabType
      <3>3. CallsTyped'
        BY <2>4, <3>1, LoadTyped, EntersTyped
      <3> QED BY <1>15, <2>4, <3>1, <3>2, <3>3 DEF listNamed, StateTyped, NotebookOrNone
    <2> QED BY <1>15, <2>2, <2>3, <2>4 DEF listNamed
  <1>16. CASE created(s)
    <2>1. c.nb \in Books
      BY <1>16 DEF created, Shape
    <2>2. CallsTyped'
      BY <1>16, <2>1, LoadTyped, EntersTyped, EndsTyped DEF created, Origins, PageOrNone
    <2>3. tab' \in TabType
      BY <1>16, <2>1, BegunTyped DEF created, TabType
    <2>a. [srv EXCEPT !.books = @ \cup {c.nb}, !.marked = @ \cup {c.nb}] \in SrvType
      BY <2>1 DEF SrvType
    <2>4. srv' \in SrvType
      BY <1>16, <2>a DEF created
    <2> QED BY <1>16, <2>1, <2>2, <2>3, <2>4 DEF created, StateTyped, NotebookOrNone
  <1>17. CASE renamed(s)
    <2>1. tab' \in TabType
      BY <1>17 DEF renamed, TabType
    <2> QED BY <1>17, <2>1, EndsTyped DEF renamed, StateTyped
  <1>18. CASE deleted(s)
    <2> DEFINE rest == [tab EXCEPT !.items = @ \ {c.nb}]
               out == [rest EXCEPT !.dirty = FALSE, !.open = NoPage]
    <2>1. rest \in TabType
      BY DEF TabType
    <2>2. out \in TabType /\ out.latest = tab.latest
      BY <2>1 DEF TabType, PageOrNone
    <2>3. srv' \in SrvType
      BY <1>18, ZenonT(40) DEF deleted, SrvType
    <2>4. CASE tab' = rest /\ Ends(s) /\ UNCHANGED <<chain, want>>
      BY <1>18, <2>1, <2>3, <2>4, EndsTyped DEF deleted, StateTyped
    <2>5. CASE tab' = [out EXCEPT !.sel = NoBook, !.list = {}] /\ Ends(s) /\ want' = NoBook
      <3>1. tab' \in TabType
        BY <2>2, <2>5 DEF TabType
      <3> QED BY <1>18, <2>3, <2>5, <3>1, EndsTyped DEF deleted, StateTyped
    <2>6. ASSUME NEW next \in c.got \ {c.nb}, tab' = [out EXCEPT !.latest = @ + 1, !.loading = next],
                 Enters(s, Load(next, c.cap, NoPage, "delete", out)), want' = next
          PROVE  Types'
      <3>1. next \in Books /\ NoPage \in PageOrNone /\ "delete" \in Origins
        BY <1>18 DEF deleted, Shape, PageOrNone, Origins
      <3> DEFINE n == tab.latest + 1
      <3>2. n \in Nat /\ tab' = [out EXCEPT !.latest = n, !.loading = next]
        BY <2>2, <2>6, <3>1, BegunTyped
      <3> HIDE DEF n
      <3>3. tab' \in TabType
        BY <2>2, <3>1, <3>2 DEF TabType, NotebookOrNone
      <3>4. CallsTyped'
        BY <2>2, <2>6, <3>1, LoadTyped, EntersTyped
      <3> QED BY <1>18, <2>3, <2>6, <3>1, <3>3, <3>4 DEF deleted, StateTyped, NotebookOrNone
    <2>7. CASE Ends(s) /\ UNCHANGED <<tab, chain, srv, want>>
      BY <1>18, <2>7, EndsTyped DEF deleted, StateTyped
    <2> QED BY <1>18, <2>4, <2>5, <2>6, <2>7 DEF deleted
  <1>19. CASE migrateNext(s)
    <2>1. PICK page \in c.got :
             IF StillHere(c)
             THEN calls' = [calls EXCEPT ![s].pc = "flush", ![s].page = page, ![s].got = @ \ {page}]
             ELSE calls' = [calls EXCEPT ![s].got = @ \ {page}, ![s].flag = FALSE]
      BY <1>19 DEF migrateNext
    <2> DEFINE d == [c EXCEPT !.pc = "flush", !.page = page, !.got = @ \ {page}]
               e == [c EXCEPT !.got = @ \ {page}, !.flag = FALSE]
    <2>2. page \in Pages /\ Home[page] = c.cap /\ c.op = "migrate"
      BY <1>19 DEF migrateNext, Shape
    <2>3. d \in CallType /\ e \in CallType
      BY <2>2 DEF CallType, PageOrNone, Places
    <2>4. Shape(d) /\ Shape(e)
      BY <1>19, <2>2 DEF migrateNext, CallType, Shape
    <2>5. calls' = [calls EXCEPT ![s] = d] \/ calls' = [calls EXCEPT ![s] = e]
      BY <2>1 DEF CallsTyped
    <2> QED BY <1>19, <2>3, <2>4, <2>5, CallReplaced DEF migrateNext, StateTyped
  <1>20. CASE pinPage(s)
    <2>1. \E flag \in BOOLEAN : calls' = [calls EXCEPT ![s].pc = "next", ![s].flag = flag]
      BY <1>20 DEF pinPage, Complete, CallType
    <2>2. PICK flag \in BOOLEAN : calls' = [calls EXCEPT ![s].pc = "next", ![s].flag = flag]
      BY <2>1
    <2> DEFINE d == [c EXCEPT !.pc = "next", !.flag = flag]
    <2>3. calls' = [calls EXCEPT ![s] = d]
      BY <2>2 DEF CallsTyped
    <2>4. d \in CallType
      BY DEF CallType, Places
    <2>5. Shape(d)
      BY <1>20 DEF pinPage, CallType, Shape
    <2>6. CallsTyped'
      BY <2>3, <2>4, <2>5, CallReplaced
    <2>a. c.page \in Pages
      BY <1>20 DEF pinPage, Shape
    <2>b. [srv EXCEPT !.pinned = @ \cup {c.page}] \in SrvType
      BY <2>a DEF SrvType
    <2>7. srv' \in SrvType
      BY <1>20, <2>b DEF pinPage
    <2>8. hist' \in HistType
      BY <1>20, SealedTyped DEF pinPage
    <2> QED BY <1>20, <2>6, <2>7, <2>8 DEF pinPage, StateTyped
  <1>21. CASE migrated(s)
    <2>1. srv' \in SrvType
      BY <1>21 DEF migrated, Marks, Shape, SrvType
    <2> QED BY <1>21, <2>1, EndsTyped DEF migrated, StateTyped
  <1>22. CASE routeOpened(s)
    <2>1. CallsTyped'
      BY <1>22, GoesTyped DEF routeOpened, Places
    <2>2. tab' \in TabType
      BY <1>22 DEF routeOpened, TabType
    <2> QED BY <1>22, <2>1, <2>2, ShownTyped DEF routeOpened, StateTyped
  <1> QED
    BY <1>1, <1>2, <1>3, <1>4, <1>5, <1>6, <1>7, <1>8, <1>9, <1>10, <1>11, <1>12, <1>13, <1>14, <1>15, <1>16,
       <1>17, <1>18, <1>19, <1>20, <1>21, <1>22
    DEF Continue, Answered

LEMMA NextTypes == Types /\ [Next]_vars => Types'
  <1> SUFFICES ASSUME Types, [Next]_vars PROVE Types'
    OBVIOUS
  <1>1. CASE UNCHANGED vars
    BY <1>1 DEF vars, Types, StateTyped, CallsTyped
  <1> QED BY <1>1, UserTypes, StepTypes DEF Next, Step, Rest

-----------------------------------------------------------------------------
(* The newest load *)

IsLoad(s) == calls[s].op = "load"
Newest(s) == IsLoad(s) /\ calls[s].ticket = tab.latest
InLoad == {"keys", "read", "role"}
Reading(c) == c.pc \in InLoad \/ c.flag       \* past the flush that left the old page

(* Every load has its own ticket, and the tab knows no later one than the  *)
(* newest load's.  That load is the one the tab waits for; once it cleared *)
(* the tab it is shown, unless it was deleted while it was read again.     *)
Loads ==
    /\ \A s \in Slots : IsLoad(s) => calls[s].ticket <= tab.latest
    /\ \A s, t \in Slots : IsLoad(s) /\ IsLoad(t) /\ calls[s].ticket = calls[t].ticket => s = t
    /\ \A s \in Slots : Newest(s) =>
         /\ tab.loading = calls[s].nb /\ (want # NoBook => want = calls[s].nb)
         /\ Reading(calls[s]) => \/ tab.sel = calls[s].nb
                                 \/ tab.sel = NoBook /\ want = NoBook /\ calls[s].nb \notin srv.books
    /\ (\A s \in Slots : ~Newest(s)) => tab.loading = NoBook /\ (want # NoBook => tab.sel = want)

SameView == tab'.sel = tab.sel /\ tab'.loading = tab.loading /\ tab'.latest = tab.latest /\ want' = want

(* A step that neither starts, moves nor ends a load. *)
LEMMA QuietLoads ==
  ASSUME Types, Loads, NEW s \in Slots, Others(s), calls[s].op # "load", calls'[s].op # "load",
         SameView, srv'.books \subseteq srv.books
  PROVE  Loads'
  BY DEF Loads, Others, SameView, IsLoad, Newest

LEMMA BegunLoads ==
  ASSUME Types, Loads, NEW s \in Slots, Others(s), calls[s].op # "load", calls'[s].op = "load",
         calls'[s].ticket = tab.latest + 1, calls'[s].pc \in {"flush", "left"}, ~calls'[s].flag,
         tab'.latest = tab.latest + 1, tab'.loading = calls'[s].nb, want' = calls'[s].nb
  PROVE  Loads'
  <1>1. tab.latest \in Nat /\ \A t \in Slots : calls[t].ticket \in Nat
    BY DEF Types, StateTyped, CallsTyped, TabType, CallType
  <1>2. \A t \in Slots : t # s /\ IsLoad(t)' =>
          calls'[t].ticket \in Nat /\ calls'[t].ticket <= tab.latest /\ calls'[t].ticket # calls'[s].ticket
    <2> SUFFICES ASSUME NEW t \in Slots, t # s, IsLoad(t)'
                 PROVE  calls'[t].ticket \in Nat /\ calls'[t].ticket <= tab.latest /\ calls'[t].ticket # calls'[s].ticket
      OBVIOUS
    <2>1. calls'[t].ticket = calls[t].ticket /\ calls[t].ticket <= tab.latest
      BY DEF Loads, Others, IsLoad
    <2> QED BY <1>1, <2>1
  <1>3. \A t \in Slots : Newest(t)' => t = s
    BY <1>1, <1>2 DEF Newest, IsLoad
  <1>4. Newest(s)'
    BY DEF Newest, IsLoad
  <1>5. \A t \in Slots : IsLoad(t)' => calls'[t].ticket <= tab'.latest
    BY <1>1, <1>2
  <1>6. \A t, u \in Slots : IsLoad(t)' /\ IsLoad(u)' /\ calls'[t].ticket = calls'[u].ticket => t = u
    BY <1>2 DEF Loads, Others, IsLoad
  <1> QED BY <1>3, <1>4, <1>5, <1>6 DEF Loads, InLoad, Reading

(* A load that a newer one superseded ends without a trace. *)
LEMMA SupersededLoads ==
  ASSUME Types, Loads, NEW s \in Slots, Ends(s), ~Newest(s), SameView, srv' = srv
  PROVE  Loads'
  <1>1. Others(s) /\ calls'[s].op # "load"
    BY EndsAt, IdleIs DEF Types
  <1> QED BY <1>1 DEF Loads, Others, SameView, IsLoad, Newest

(* The newest load ends: nothing is waited for any more. *)
LEMMA FinishedLoads ==
  ASSUME Types, Loads, NEW s \in Slots, Others(s), calls'[s].op # "load", Newest(s), tab'.sel = tab.sel,
         tab'.latest = tab.latest, tab'.loading = NoBook, srv' = srv, want' # NoBook => tab'.sel = want'
  PROVE  Loads'
  <1>1. \A t \in Slots : ~Newest(t)'
    BY DEF Loads, Others, IsLoad, Newest
  <1>2. \A t \in Slots : IsLoad(t)' => IsLoad(t) /\ calls'[t] = calls[t]
    BY DEF Others, IsLoad
  <1> QED BY <1>1, <1>2 DEF Loads, IsLoad

(* A load moves on; when it is the newest, the tab shows its notebook. *)
LEMMA MovedLoads ==
  ASSUME Types, Loads, NEW s \in Slots, Others(s), calls[s].op = "load", calls'[s].op = "load",
         calls'[s].nb = calls[s].nb, calls'[s].ticket = calls[s].ticket,
         tab'.latest = tab.latest, tab'.loading = tab.loading, want' = want, srv' = srv,
         \/ tab'.sel = tab.sel /\ (Reading(calls'[s]) => Reading(calls[s]))
         \/ tab'.sel = calls[s].nb /\ Newest(s)
  PROVE  Loads'
  <1>1. \A t \in Slots : (IsLoad(t)' <=> IsLoad(t)) /\ (Newest(t)' <=> Newest(t))
    BY DEF Others, IsLoad, Newest
  <1>2. \A t \in Slots : IsLoad(t) => calls'[t].nb = calls[t].nb /\ calls'[t].ticket = calls[t].ticket
    BY DEF Others, IsLoad
  <1>3. ASSUME NEW t \in Slots, Newest(t), Reading(calls'[t])
        PROVE  tab'.sel = calls[t].nb \/ (tab'.sel = NoBook /\ want = NoBook /\ calls[t].nb \notin srv.books)
    <2>1. CASE t = s
      BY <1>3, <2>1 DEF Loads
    <2>2. CASE t # s
      <3>1. ~Newest(s) /\ calls'[t] = calls[t]
        BY <1>3, <2>2 DEF Loads, Newest, Others
      <3> QED BY <1>3, <3>1 DEF Loads
    <2> QED BY <2>1, <2>2
  <1>4. /\ \A t \in Slots : IsLoad(t)' => calls'[t].ticket <= tab'.latest
        /\ \A t, u \in Slots : IsLoad(t)' /\ IsLoad(u)' /\ calls'[t].ticket = calls'[u].ticket => t = u
    BY <1>1, <1>2 DEF Loads
  <1>5. \A t \in Slots : Newest(t)' => tab'.loading = calls'[t].nb /\ (want' # NoBook => want' = calls'[t].nb)
    BY <1>1, <1>2 DEF Loads, Newest
  <1>6. \A t \in Slots : Newest(t)' /\ Reading(calls[t])' =>
          tab'.sel = calls'[t].nb \/ (tab'.sel = NoBook /\ want' = NoBook /\ calls'[t].nb \notin srv'.books)
    BY <1>1, <1>2, <1>3 DEF Newest, Reading
  <1>7. (\A t \in Slots : ~Newest(t)') => tab'.loading = NoBook /\ (want' # NoBook => tab'.sel = want')
    BY <1>1 DEF Loads
  <1> QED BY <1>4, <1>5, <1>6, <1>7 DEF Loads

LEMMA BegunIs ==
  ASSUME StateTyped, NEW nb
  PROVE  Begun(nb).latest = tab.latest + 1 /\ Begun(nb).loading = nb /\ Begun(nb).sel = tab.sel
         /\ Begun(nb).open = tab.open /\ Begun(nb).list = tab.list
  BY DEF StateTyped, TabType, Begun

LEMMA UserLoads ==
  ASSUME Types, Loads, User
  PROVE  Loads'
  <1> USE DEF Types
  <1>1. CASE edit
    BY <1>1 DEF edit, StateTyped, TabType, Loads, IsLoad, Newest
  <1>2. ASSUME NEW d, d.op # "load", Starts(d), SameView, srv' = srv
        PROVE  Loads'
    <2>1. PICK s \in Slots : calls[s] = Idle /\ Others(s) /\ calls'[s] = d
      BY <1>2, StartsAt
    <2> QED BY <1>2, <2>1, IdleIs, QuietLoads
  <1>3. ASSUME NEW nb \in Books, NEW page \in PageOrNone, NEW by \in Origins,
               Starts(Load(nb, tab.sel, page, by, tab)), tab' = Begun(nb), want' = nb
        PROVE  Loads'
    <2> DEFINE d == Load(nb, tab.sel, page, by, tab)
    <2>1. PICK s \in Slots : calls[s] = Idle /\ Others(s) /\ calls'[s] = d
      BY <1>3, StartsAt
    <2>2. d.op = "load" /\ d.nb = nb /\ d.ticket = tab.latest + 1 /\ d.pc \in {"flush", "left"} /\ ~d.flag
      BY LoadIs DEF StateTyped, TabType
    <2>3. tab'.latest = tab.latest + 1 /\ tab'.loading = nb
      BY <1>3, BegunIs
    <2> HIDE DEF d
    <2> QED BY <1>3, <2>1, <2>2, <2>3, IdleIs, BegunLoads
  <1>4. CASE autosave
    BY <1>2, <1>4 DEF autosave, Idle, SameView
  <1>5. CASE SealedChild
    BY <1>2, <1>5 DEF SealedChild, Idle, SameView
  <1>6. CASE Listing
    BY <1>2, <1>6 DEF Listing, Idle, SameView
  <1>7. CASE renameWorkspace
    BY <1>2, <1>7 DEF renameWorkspace, Idle, SameView
  <1>8. CASE deleteWorkspace
    BY <1>2, <1>8 DEF deleteWorkspace, Idle, SameView
  <1>9. ASSUME NEW nb \in Books, newWorkspace(nb)
        PROVE  Loads'
    BY <1>2, <1>9 DEF newWorkspace, Idle, SameView
  <1>10. ASSUME NEW page \in PageOrNone, selectNote(page) \/ newNote(page) \/ selectSection(page)
         PROVE  Loads'
    <2>1. ASSUME NEW op \in {"note", "new", "section"}, NEW by
          PROVE  Leaving([Idle EXCEPT !.op = op, !.by = by, !.nb = tab.sel, !.cap = tab.sel, !.page = page], tab).op # "load"
      BY DEF Leaving, Idle
    <2> QED BY <1>2, <1>10, <2>1 DEF selectNote, newNote, selectSection, SameView
  <1>11. ASSUME NEW nb \in Books, chooseNotebook(nb)
         PROVE  Loads'
    BY <1>3, <1>11 DEF chooseNotebook, PageOrNone, Origins
  <1>12. ASSUME NEW page \in Pages, followRoute(page) \/ selectQueueNote(page)
         PROVE  Loads'
    BY <1>3, <1>12, NavBounds DEF followRoute, selectQueueNote, PageOrNone, Origins
  <1> QED
    BY <1>1, <1>4, <1>5, <1>6, <1>7, <1>8, <1>9, <1>10, <1>11, <1>12 DEF User, addComment, addAttachment, joinTeam, afterIdentityChange, PageOrNone

LEMMA StepLoads ==
  ASSUME Types, Loads, NEW s \in Slots, Continue(s) \/ Answered(s)
  PROVE  Loads'
  <1> USE DEF Types
  <1> DEFINE c == calls[s]
  <1>t. tab \in TabType /\ c \in CallType /\ Shape(c)
    BY DEF StateTyped, CallsTyped
  <1>n. calls[s].op = "load" => (Newest(s) <=> ~superseded(c))
    BY DEF Newest, IsLoad, superseded
  <1>q. ASSUME c.op # "load", Ends(s), SameView, srv'.books \subseteq srv.books
        PROVE  Loads'
    BY <1>q, EndsAt, IdleIs, QuietLoads
  <1>g. ASSUME c.op # "load", NEW pc, Goes(s, pc), SameView, srv'.books \subseteq srv.books
        PROVE  Loads'
    BY <1>g, GoesAt, QuietLoads
  <1>f. ASSUME c.op = "load", Newest(s), Others(s), calls'[s].op # "load",
               tab' = Finished(c) \/ (\E w, x : tab' = [Finished(c) EXCEPT !.writer = w, !.dirty = x]),
               srv' = srv, want' # NoBook => tab.sel = want'
        PROVE  Loads'
    <2>1. tab'.sel = tab.sel /\ tab'.latest = tab.latest /\ tab'.loading = NoBook
      BY <1>f, <1>n, <1>t DEF Finished, TabType
    <2> QED BY <1>f, <2>1, FinishedLoads
  <1>1. CASE saved(s)
    BY <1>1, <1>q DEF saved, SameView
  <1>2. CASE loadRefused(s)
    <2>1. CASE Newest(s)
      BY <1>2, <2>1, <1>n, <1>f, EndsAt, IdleIs DEF loadRefused
    <2>2. CASE ~Newest(s)
      BY <1>2, <2>2, <1>n, SupersededLoads DEF loadRefused, Finished, SameView
    <2> QED BY <2>1, <2>2
  <1>3. CASE loadCleared(s)
    <2>1. CASE Newest(s)
      <3>1. Goes(s, "keys") /\ tab' = [tab EXCEPT !.sel = c.nb, !.writer = FALSE, !.open = NoPage, !.list = {}]
        BY <1>3, <2>1, <1>n DEF loadCleared
      <3>2. tab'.sel = c.nb /\ tab'.latest = tab.latest /\ tab'.loading = tab.loading
        BY <3>1, <1>t DEF TabType
      <3> QED BY <1>3, <2>1, <3>1, <3>2, GoesAt, MovedLoads DEF loadCleared
    <2>2. CASE ~Newest(s)
      BY <1>3, <2>2, <1>n, SupersededLoads DEF loadCleared, SameView
    <2> QED BY <2>1, <2>2
  <1>4. CASE noteOpened(s)
    <2>1. SameView /\ srv' = srv
      BY <1>4, <1>t DEF noteOpened, SameView, TabType
    <2>2. Migration(c.nb).op # "load"
      BY DEF Migration, Idle
    <2>3. Others(s) /\ calls'[s].op # "load"
      BY <1>4, <2>2, IdleIs DEF noteOpened, AfterLoad, CallsTyped, Others
    <2> QED BY <1>4, <2>1, <2>3, QuietLoads DEF noteOpened
  <1>5. CASE sectionShown(s)
    BY <1>5, <1>q, <1>t DEF sectionShown, SameView, TabType
  <1>6. CASE SaveTurn(s)
    <2>1. SameView /\ srv' = srv
      BY <1>6, <1>t DEF SaveTurn, SameView, TabType
    <2>2. ASSUME NEW pc \in {"left", "refused"}, Goes(s, pc)
          PROVE  Loads'
      <3>1. CASE c.op # "load"
        BY <2>1, <2>2, <3>1, <1>g
      <3>2. CASE c.op = "load"
        BY <2>1, <2>2, <3>2, GoesAt, MovedLoads, ZenonT(40) DEF SameView, InLoad, Reading
      <3> QED BY <3>1, <3>2
    <2>3. CASE calls' = [calls EXCEPT ![s].rounds = @ + 1]
      <3>1. Others(s)
        BY <2>3 DEF CallsTyped, Others
      <3>2. /\ calls'[s].op = c.op /\ calls'[s].nb = c.nb /\ calls'[s].ticket = c.ticket /\ calls'[s].pc = c.pc
            /\ calls'[s].flag = c.flag
        BY <2>3, <1>t DEF CallsTyped, CallType
      <3>3. CASE c.op # "load"
        BY <2>1, <3>1, <3>2, <3>3, QuietLoads
      <3>4. CASE c.op = "load"
        BY <2>1, <3>1, <3>2, <3>4, MovedLoads DEF Reading, SameView
      <3> QED BY <3>3, <3>4
    <2> QED BY <1>6, <2>2, <2>3 DEF SaveTurn
  <1>7. CASE loadKeyed(s)
    <2>1. CASE Newest(s)
      <3>1. Goes(s, "read") /\ tab'.sel = c.nb /\ tab'.latest = tab.latest /\ tab'.loading = tab.loading
        BY <1>7, <2>1, <1>n, <1>t DEF loadKeyed, TabType
      <3> QED BY <1>7, <2>1, <3>1, GoesAt, MovedLoads DEF loadKeyed
    <2>2. CASE ~Newest(s)
      BY <1>7, <2>2, <1>n, SupersededLoads DEF loadKeyed, SameView
    <2> QED BY <2>1, <2>2
  <1>8. CASE loadRead(s)
    <2>0. c.op = "load" /\ Reading(c) /\ srv' = srv /\ want' = want
      BY <1>8 DEF loadRead, Reading, InLoad
    <2>1. ASSUME Newest(s), tab' = [tab EXCEPT !.list = Held(c.nb)], Others(s), calls'[s].op = "load",
                 calls'[s].nb = c.nb, calls'[s].ticket = c.ticket
          PROVE  Loads'
      <3>1. tab'.sel = tab.sel /\ tab'.latest = tab.latest /\ tab'.loading = tab.loading
        BY <2>1, <1>t DEF TabType
      <3> QED BY <2>0, <2>1, <3>1, MovedLoads
    <2>2. CASE Newest(s) /\ Goes(s, "role") /\ tab' = [tab EXCEPT !.list = Held(c.nb)]
      BY <2>0, <2>1, <2>2, GoesAt
    <2>3. CASE /\ Newest(s) /\ Enters(s, Routed(c, tab)) /\ tab' = [tab EXCEPT !.list = Held(c.nb)]
               /\ c.page \in Held(c.nb)
      <3>1. c.nb \in Books /\ c.page \in Pages /\ Home[c.page] = c.nb
        BY <2>0, <2>3, <1>t DEF Shape, Held, StateTyped, SrvType
      <3> DEFINE d == Routed(c, tab)
      <3>2. d.op = "load" /\ d.nb = c.nb /\ d.ticket = c.ticket
        BY <2>0, <3>1, <1>t, RoutedIs
      <3> HIDE DEF d
      <3>3. Others(s) /\ calls'[s] = d
        BY <2>3, EntersAt DEF d
      <3> QED BY <2>1, <2>3, <3>2, <3>3
    <2>4. CASE Newest(s) /\ Ends(s) /\ tab' = Finished(c)
      <3>1. want # NoBook => tab.sel = want
        BY <2>0, <2>4 DEF Loads, Newest
      <3> QED BY <2>0, <2>4, <3>1, <1>f, EndsAt, IdleIs
    <2>5. CASE ~Newest(s)
      BY <1>8, <2>5, <1>n, SupersededLoads DEF loadRead, SameView
    <2> QED BY <1>8, <2>2, <2>3, <2>4, <2>5, <1>n DEF loadRead
  <1>9. CASE loadRole(s)
    <2>1. CASE Newest(s)
      <3>1. want # NoBook => tab.sel = want
        BY <1>9, <2>1 DEF Loads, loadRole, InLoad, Reading, Newest
      <3>2. Migration(c.nb).op # "load"
        BY DEF Migration, Idle
      <3> DEFINE d == [Idle EXCEPT !.op = "note", !.nb = c.nb, !.cap = c.cap, !.page = c.page]
      <3>3. Routed(d, tab').op # "load"
        BY DEF Routed, Leaving, Idle
      <3>4. Others(s) /\ calls'[s].op # "load"
        BY <1>9, <2>1, <3>2, <3>3, <1>n, IdleIs, EntersAt DEF loadRole, CallsTyped, Others
      <3>5. \E w, x : tab' = [Finished(c) EXCEPT !.writer = w, !.dirty = x]
        BY <1>9, <2>1, <1>n DEF loadRole
      <3> QED BY <1>9, <2>1, <3>1, <3>4, <3>5, <1>f DEF loadRole
    <2>2. CASE ~Newest(s)
      BY <1>9, <2>2, <1>n, SupersededLoads DEF loadRole, SameView
    <2> QED BY <2>1, <2>2
  <1>10. CASE newCreated(s)
    <2>1. srv'.books = srv.books
      BY <1>10 DEF newCreated, StateTyped, SrvType
    <2> QED BY <1>10, <2>1, <1>q, <1>g DEF newCreated, SameView
  <1>11. CASE newListed(s)
    <2>1. srv'.books = srv.books /\ SameView
      BY <1>11, <1>t DEF newListed, StateTyped, SrvType, TabType, SameView
    <2> DEFINE d == [Idle EXCEPT !.op = "save", !.by = "new", !.pc = "flush", !.cap = c.cap, !.rounds = MaxRounds, !.got = {c.page}]
    <2>2. d.op # "load"
      BY DEF Idle
    <2>3. Ends(s) \/ Enters(s, d)
      BY <1>11 DEF newListed
    <2> HIDE DEF d
    <2> QED BY <1>11, <2>1, <2>2, <2>3, <1>q, EntersAt, QuietLoads DEF newListed
  <1>12. CASE childSent(s)
    BY <1>12, <1>q, <1>t DEF childSent, SameView, TabType
  <1>13. CASE listAccepted(s)
    BY <1>13, <1>g, <1>q DEF listAccepted, SameView
  <1>14. CASE listFetched(s)
    <2>1. Others(s) /\ calls'[s].op = c.op
      BY <1>14, <1>t DEF listFetched, CallsTyped, CallType, Others
    <2> QED BY <1>14, <2>1, QuietLoads DEF listFetched, SameView
  <1>15. CASE listNamed(s)
    <2>1. CASE calls' = [calls EXCEPT ![s].pc = "fetch", ![s].flag = FALSE] /\ UNCHANGED <<tab, want>>
      <3>1. Others(s) /\ calls'[s].op = c.op
        BY <2>1, <1>t DEF CallsTyped, CallType, Others
      <3> QED BY <1>15, <2>1, <3>1, QuietLoads DEF listNamed, SameView
    <2>2. CASE tab' = [tab EXCEPT !.items = c.got] /\ Ends(s) /\ UNCHANGED want
      BY <1>15, <2>2, <1>q, <1>t DEF listNamed, SameView, TabType
    <2>3. ASSUME NEW nb \in c.got, NEW page \in Held(nb) \cup {NoPage},
                 tab' = [Begun(nb) EXCEPT !.items = c.got], Enters(s, Load(nb, c.cap, page, c.by, tab)), want' = nb
          PROVE  Loads'
      <3> DEFINE d == Load(nb, c.cap, page, c.by, tab)
      <3>1. nb \in Books /\ page \in PageOrNone /\ c.cap \in NotebookOrNone /\ c.by \in Origins
        BY <1>15, <1>t DEF listNamed, Shape, Held, StateTyped, SrvType, PageOrNone, CallType
      <3>2. d.op = "load" /\ d.nb = nb /\ d.ticket = tab.latest + 1 /\ d.pc \in {"flush", "left"} /\ ~d.flag
        BY <3>1, <1>t, LoadIs
      <3>3. tab'.latest = tab.latest + 1 /\ tab'.loading = nb
        BY <2>3, <3>1, BegunIs, BegunTyped DEF TabType
      <3> HIDE DEF d
      <3>4. Others(s) /\ calls'[s] = d
        BY <2>3, EntersAt DEF d
      <3> QED BY <1>15, <2>3, <3>2, <3>3, <3>4, BegunLoads DEF listNamed
    <2> QED BY <1>15, <2>1, <2>2, <2>3 DEF listNamed
  <1>16. CASE created(s)
    <2>1. CASE Ends(s) /\ UNCHANGED <<tab, chain, srv, want>>
      BY <1>16, <2>1, <1>q DEF created, SameView
    <2>2. CASE /\ tab' = [Begun(c.nb) EXCEPT !.items = @ \cup {c.nb}] /\ Enters(s, Load(c.nb, c.cap, NoPage, "create", tab))
               /\ want' = c.nb
      <3> DEFINE d == Load(c.nb, c.cap, NoPage, "create", tab)
      <3>1. c.nb \in Books /\ NoPage \in PageOrNone /\ c.cap \in NotebookOrNone /\ "create" \in Origins
        BY <1>16, <1>t DEF created, Shape, PageOrNone, Origins, CallType
      <3>2. d.op = "load" /\ d.nb = c.nb /\ d.ticket = tab.latest + 1 /\ d.pc \in {"flush", "left"} /\ ~d.flag
        BY <3>1, <1>t, LoadIs
      <3>3. tab'.latest = tab.latest + 1 /\ tab'.loading = c.nb
        BY <2>2, <3>1, BegunIs, BegunTyped DEF TabType
      <3> HIDE DEF d
      <3>4. Others(s) /\ calls'[s] = d
        BY <2>2, EntersAt DEF d
      <3> QED BY <1>16, <2>2, <3>2, <3>3, <3>4, BegunLoads DEF created
    <2> QED BY <1>16, <2>1, <2>2 DEF created
  <1>17. CASE renamed(s)
    BY <1>17, <1>q, <1>t DEF renamed, SameView, TabType
  <1>18. CASE deleted(s)
    <2> DEFINE rest == [tab EXCEPT !.items = @ \ {c.nb}]
               out == [rest EXCEPT !.dirty = FALSE, !.open = NoPage]
    <2>1. CASE Ends(s) /\ UNCHANGED <<tab, chain, srv, want>>
      BY <1>18, <2>1, <1>q DEF deleted, SameView
    <2>2. CASE srv' = [srv EXCEPT !.books = @ \ {c.nb}, !.pages = @ \ Held(c.nb)]
      <3>1. srv'.books = srv.books \ {c.nb}
        BY <2>2 DEF StateTyped, SrvType
      <3>2. CASE tab' = rest /\ Ends(s) /\ UNCHANGED <<chain, want>>
        BY <1>18, <3>1, <3>2, <1>q, <1>t DEF deleted, SameView, TabType
      <3>3. CASE Here = c.nb /\ tab' = [out EXCEPT !.sel = NoBook, !.list = {}] /\ Ends(s) /\ want' = NoBook
        <4>1. tab'.sel = NoBook /\ tab'.latest = tab.latest /\ tab'.loading = tab.loading
          BY <3>3, <1>t DEF TabType
        <4>2. Others(s) /\ calls'[s].op # "load"
          BY <3>3, EndsAt, IdleIs
        <4>3. \A t \in Slots : (IsLoad(t)' <=> IsLoad(t)) /\ (Newest(t)' <=> Newest(t)) /\ (IsLoad(t) => calls'[t] = calls[t])
          BY <1>18, <4>1, <4>2 DEF deleted, Others, IsLoad, Newest
        <4>4. \A t \in Slots : Newest(t) => calls[t].nb = c.nb
          BY <3>3, NavBounds DEF Loads, Here, Newest, IsLoad, CallsTyped, Shape
        <4> QED BY <3>1, <3>3, <4>1, <4>3, <4>4 DEF Loads, Newest
      <3>4. ASSUME NEW next \in c.got \ {c.nb}, tab' = [out EXCEPT !.latest = @ + 1, !.loading = next],
                   Enters(s, Load(next, c.cap, NoPage, "delete", out)), want' = next
            PROVE  Loads'
        <4> DEFINE d == Load(next, c.cap, NoPage, "delete", out)
        <4>1. next \in Books /\ NoPage \in PageOrNone /\ c.cap \in NotebookOrNone /\ "delete" \in Origins /\ out \in TabType
          BY <1>18, <1>t DEF deleted, Shape, PageOrNone, Origins, CallType, TabType
        <4>2. d.op = "load" /\ d.nb = next /\ d.ticket = tab.latest + 1 /\ d.pc \in {"flush", "left"} /\ ~d.flag
          BY <4>1, <1>t, LoadIs
        <4>3. tab'.latest = tab.latest + 1 /\ tab'.loading = next
          BY <3>4, <4>1, <1>t DEF TabType
        <4> HIDE DEF d
        <4>4. Others(s) /\ calls'[s] = d
          BY <3>4, EntersAt DEF d
        <4> QED BY <1>18, <3>4, <4>2, <4>3, <4>4, BegunLoads DEF deleted
      <3> QED BY <1>18, <2>1, <2>2, <3>2, <3>3, <3>4 DEF deleted
    <2> QED BY <1>18, <2>1, <2>2 DEF deleted
  <1>19. CASE migrateNext(s)
    <2>1. Others(s) /\ calls'[s].op = c.op
      BY <1>19, <1>t DEF migrateNext, CallsTyped, CallType, Others
    <2> QED BY <1>19, <2>1, QuietLoads DEF migrateNext, SameView
  <1>20. CASE pinPage(s)
    <2>1. Others(s) /\ calls'[s].op = c.op
      <3>1. \E flag : calls' = [calls EXCEPT ![s].pc = "next", ![s].flag = flag]
        BY <1>20 DEF pinPage
      <3> QED BY <3>1, <1>t DEF CallsTyped, CallType, Others
    <2>2. srv'.books = srv.books
      BY <1>20 DEF pinPage, StateTyped, SrvType
    <2> QED BY <1>20, <2>1, <2>2, QuietLoads DEF pinPage, SameView
  <1>21. CASE migrated(s)
    <2>1. srv'.books = srv.books
      BY <1>21 DEF migrated, Marks, StateTyped, SrvType
    <2> QED BY <1>21, <2>1, <1>q DEF migrated, SameView
  <1>22. CASE routeOpened(s)
    <2>1. tab'.sel = tab.sel /\ tab'.latest = tab.latest /\ tab'.loading = tab.loading
      BY <1>22, <1>t DEF routeOpened, TabType
    <2> QED BY <1>22, <2>1, GoesAt, MovedLoads DEF routeOpened, Reading
  <1> QED
    BY <1>1, <1>2, <1>3, <1>4, <1>5, <1>6, <1>7, <1>8, <1>9, <1>10, <1>11, <1>12, <1>13, <1>14, <1>15, <1>16,
       <1>17, <1>18, <1>19, <1>20, <1>21, <1>22
    DEF Continue, Answered

LEMMA NextLoads == Types /\ Loads /\ [Next]_vars => Loads'
  <1> SUFFICES ASSUME Types, Loads, [Next]_vars PROVE Loads'
    OBVIOUS
  <1>1. CASE UNCHANGED vars
    BY <1>1 DEF vars, Loads, IsLoad, Newest
  <1> QED BY <1>1, UserLoads, StepLoads DEF Next, Step, Rest

-----------------------------------------------------------------------------
(* What the server holds *)

(* What a pass that missed no page so far still has to write. *)
Pinning(c) ==
    c.op = "migrate" /\ c.flag =>
        \A p \in srv.pages : Home[p] = c.cap => p \in srv.pinned \/ p \in c.got \/ (c.pc = "flush" /\ p = c.page)

(* Pages live in notebooks that exist; the one notebook being created does *)
(* not exist yet, so it holds none; a complete pass has written the rest.  *)
Stored ==
    /\ \A p \in srv.pages : Home[p] \in srv.books
    /\ \A s \in Slots : calls[s].op = "create" => calls[s].nb \notin srv.books
    /\ \A s, t \in Slots : calls[s].op = "create" /\ calls[t].op = "create" => s = t
    /\ \A s \in Slots : Pinning(calls[s])
    /\ MarkedIsPinned

LEMMA QuietStored ==
  ASSUME Stored, NEW s \in Slots, Others(s), calls'[s].op \notin {"create", "migrate"}, srv' = srv
  PROVE  Stored'
  BY DEF Stored, Others, Pinning, MarkedIsPinned, Held

LEMMA UserStored ==
  ASSUME Types, Stored, User
  PROVE  Stored'
  <1> USE DEF Types
  <1>1. CASE edit
    BY <1>1 DEF edit, Stored, Pinning, MarkedIsPinned, Held
  <1>2. ASSUME NEW d, d.op \notin {"create", "migrate"}, Starts(d), srv' = srv
        PROVE  Stored'
    <2>1. PICK s \in Slots : calls[s] = Idle /\ Others(s) /\ calls'[s] = d
      BY <1>2, StartsAt
    <2> QED BY <1>2, <2>1, QuietStored
  <1>4. CASE autosave
    BY <1>2, <1>4 DEF autosave, Idle
  <1>5. CASE SealedChild
    BY <1>2, <1>5 DEF SealedChild, Idle
  <1>6. CASE Listing
    BY <1>2, <1>6 DEF Listing, Idle
  <1>7. CASE renameWorkspace
    BY <1>2, <1>7 DEF renameWorkspace, Idle
  <1>8. CASE deleteWorkspace
    BY <1>2, <1>8 DEF deleteWorkspace, Idle
  <1>9. ASSUME NEW nb \in Books, newWorkspace(nb)
        PROVE  Stored'
    <2> DEFINE d == [Idle EXCEPT !.op = "create", !.by = "create", !.pc = "create", !.nb = nb, !.cap = tab.sel]
    <2>1. d.op = "create" /\ d.nb = nb
      BY DEF Idle
    <2>2. PICK s \in Slots : calls[s] = Idle /\ Others(s) /\ calls'[s] = d
      BY <1>9, StartsAt DEF newWorkspace
    <2> HIDE DEF d
    <2>3. \A t \in Slots : calls'[t].op = "create" => t = s
      BY <1>9, <2>2 DEF newWorkspace, Free, Others
    <2> QED BY <1>9, <2>1, <2>2, <2>3 DEF newWorkspace, Stored, Others, Pinning, MarkedIsPinned, Held
  <1>10. ASSUME NEW page \in PageOrNone, selectNote(page) \/ newNote(page) \/ selectSection(page)
         PROVE  Stored'
    <2>1. ASSUME NEW op \in {"note", "new", "section"}, NEW by
          PROVE  Leaving([Idle EXCEPT !.op = op, !.by = by, !.nb = tab.sel, !.cap = tab.sel, !.page = page], tab).op \notin {"create", "migrate"}
      BY DEF Leaving, Idle
    <2> QED BY <1>2, <1>10, <2>1 DEF selectNote, newNote, selectSection
  <1>11. ASSUME NEW nb \in Books, NEW page \in PageOrNone, NEW by \in Origins, Starts(Load(nb, tab.sel, page, by, tab)), srv' = srv
         PROVE  Stored'
    BY <1>2, <1>11, LoadIs DEF StateTyped, TabType
  <1>12. ASSUME NEW nb \in Books, chooseNotebook(nb)
         PROVE  Stored'
    BY <1>11, <1>12 DEF chooseNotebook, PageOrNone, Origins
  <1>13. ASSUME NEW page \in Pages, followRoute(page) \/ selectQueueNote(page)
         PROVE  Stored'
    BY <1>11, <1>13, NavBounds DEF followRoute, selectQueueNote, PageOrNone, Origins
  <1> QED
    BY <1>1, <1>4, <1>5, <1>6, <1>7, <1>8, <1>9, <1>10, <1>12, <1>13 DEF User, addComment, addAttachment, joinTeam, afterIdentityChange, PageOrNone

LEMMA StepStored ==
  ASSUME Types, Stored, NEW s \in Slots, Continue(s) \/ Answered(s)
  PROVE  Stored'
  <1> USE DEF Types
  <1> DEFINE c == calls[s]
  <1>t. tab \in TabType /\ c \in CallType /\ Shape(c) /\ srv \in SrvType
    BY DEF StateTyped, CallsTyped
  <1>q. ASSUME Ends(s), srv' = srv
        PROVE  Stored'
    BY <1>q, EndsAt, IdleIs, QuietStored
  <1>g. ASSUME NEW pc, Goes(s, pc), srv' = srv, c.op \notin {"create", "migrate"}
        PROVE  Stored'
    BY <1>g, GoesAt, QuietStored
  <1>l. ASSUME NEW nb \in Books, NEW page \in PageOrNone, NEW t \in TabType, NEW by \in Origins,
               Enters(s, Load(nb, c.cap, page, by, t))
        PROVE  Others(s) /\ calls'[s].op = "load"
    <2>1. c.cap \in NotebookOrNone
      BY <1>t DEF CallType
    <2> QED BY <1>l, <2>1, LoadIs, EntersAt
  <1>m. ASSUME c.nb \in Books, calls' = [calls EXCEPT ![s] = Migration(c.nb)], srv' = srv
        PROVE  Stored'
    <2> DEFINE d == Migration(c.nb)
    <2>1. d.op = "migrate" /\ d.cap = c.nb /\ d.got = {p \in Held(c.nb) : p \notin srv.pinned}
      BY <1>m, MigrationIs
    <2>2. Others(s) /\ calls'[s] = d
      BY <1>m DEF CallsTyped, Others
    <2>3. Pinning(d)
      BY <2>1 DEF Pinning, Held
    <2> HIDE DEF d
    <2>4. \A t \in Slots : Pinning(calls'[t])
      BY <2>2, <2>3 DEF Stored, Others
    <2>5. \A t \in Slots : Pinning(calls[t])'
      BY <1>m, <2>4 DEF Pinning
    <2> QED BY <1>m, <2>1, <2>2, <2>5 DEF Stored, Others, MarkedIsPinned, Held
  <1>1. CASE saved(s)
    BY <1>1, <1>q DEF saved
  <1>2. CASE loadRefused(s)
    BY <1>2, <1>q DEF loadRefused
  <1>3. CASE loadCleared(s)
    BY <1>3, <1>q, <1>g DEF loadCleared
  <1>4. CASE noteOpened(s)
    <2>1. CASE calls' = [calls EXCEPT ![s] = Idle]
      BY <1>4, <2>1, <1>q DEF noteOpened, Ends
    <2>2. CASE c.by = "routed" /\ calls' = [calls EXCEPT ![s] = Migration(c.nb)]
      <3>1. c.nb \in Books
        BY <1>4, <2>2, <1>t DEF noteOpened, Shape
      <3> QED BY <1>4, <2>2, <3>1, <1>m DEF noteOpened
    <2> QED BY <1>4, <2>1, <2>2 DEF noteOpened, AfterLoad
  <1>5. CASE sectionShown(s)
    BY <1>5, <1>q DEF sectionShown
  <1>6. CASE SaveTurn(s)
    <2>1. CASE Goes(s, "left") \/ Goes(s, "refused")
      BY <1>6, <2>1, <1>g, <1>t DEF SaveTurn, Shape
    <2>2. CASE calls' = [calls EXCEPT ![s].rounds = @ + 1]
      <3>1. Others(s) /\ calls'[s].op = c.op
        BY <2>2, <1>t DEF CallsTyped, Others, CallType
      <3> QED BY <1>6, <3>1, <1>t, QuietStored DEF SaveTurn, Shape
    <2> QED BY <1>6, <2>1, <2>2 DEF SaveTurn
  <1>7. CASE loadKeyed(s)
    BY <1>7, <1>q, <1>g DEF loadKeyed
  <1>8. CASE loadRead(s)
    <2>1. CASE Enters(s, Routed(c, tab)) /\ c.op = "load"
      <3>1. Routed(c, tab).op = "load"
        BY <2>1, <1>t DEF Routed, Leaving, CallType
      <3> QED BY <1>8, <2>1, <3>1, EntersAt, QuietStored DEF loadRead
    <2> QED BY <1>8, <2>1, <1>q, <1>g DEF loadRead
  <1>9. CASE loadRole(s)
    <2>1. c.nb \in Books /\ srv' = srv
      BY <1>9, <1>t DEF loadRole, Shape
    <2> DEFINE d == [Idle EXCEPT !.op = "note", !.nb = c.nb, !.cap = c.cap, !.page = c.page]
    <2>2. CASE Enters(s, Routed(d, tab'))
      <3>1. Routed(d, tab').op = "note"
        BY DEF Routed, Leaving, Idle
      <3> QED BY <2>1, <2>2, <3>1, EntersAt, QuietStored
    <2>3. CASE calls' = [calls EXCEPT ![s] = Migration(c.nb)]
      BY <2>1, <2>3, <1>m
    <2>4. CASE calls' = [calls EXCEPT ![s] = Idle]
      BY <2>1, <2>4, <1>q DEF Ends
    <2> QED BY <1>9, <2>1, <2>2, <2>3, <2>4, <1>q DEF loadRole
  <1>10. CASE newCreated(s)
    <2>1. CASE Ends(s) /\ UNCHANGED srv
      BY <2>1, <1>q
    <2>2. CASE /\ c.cap \in srv.books /\ Goes(s, "created")
               /\ srv' = [srv EXCEPT !.pages = @ \cup {c.page}, !.pinned = @ \cup {c.page}]
      <3>1. /\ srv'.pages = srv.pages \cup {c.page} /\ srv'.pinned = srv.pinned \cup {c.page}
            /\ srv'.books = srv.books /\ srv'.marked = srv.marked
        BY <2>2, <1>t DEF SrvType
      <3>2. Others(s) /\ calls'[s].op = "new" /\ c.cap = Home[c.page]
        BY <1>10, <2>2, <1>t, GoesAt DEF newCreated, Shape
      <3> QED BY <2>2, <3>1, <3>2 DEF Stored, Others, Pinning, MarkedIsPinned, Held
    <2> QED BY <1>10, <2>1, <2>2 DEF newCreated
  <1>11. CASE newListed(s)
    <2> DEFINE d == [Idle EXCEPT !.op = "save", !.by = "new", !.pc = "flush", !.cap = c.cap, !.rounds = MaxRounds, !.got = {c.page}]
    <2>1. d.op = "save"
      BY DEF Idle
    <2>2. Ends(s) \/ Enters(s, d)
      BY <1>11 DEF newListed
    <2> HIDE DEF d
    <2>3. Others(s) /\ calls'[s].op \notin {"create", "migrate"}
      BY <2>1, <2>2, EndsAt, EntersAt, IdleIs
    <2>4. srv'.pages \subseteq srv.pages /\ srv'.pinned = srv.pinned /\ srv'.books = srv.books /\ srv'.marked = srv.marked
      BY <1>11, <1>t DEF newListed, SrvType
    <2> QED BY <2>3, <2>4 DEF Stored, Others, Pinning, MarkedIsPinned, Held
  <1>12. CASE childSent(s)
    BY <1>12, <1>q DEF childSent
  <1>13. CASE listAccepted(s)
    BY <1>13, <1>g, <1>q DEF listAccepted
  <1>14. CASE listFetched(s)
    <2>1. Others(s) /\ calls'[s].op = c.op
      BY <1>14, <1>t DEF listFetched, CallsTyped, CallType, Others
    <2> QED BY <1>14, <2>1, QuietStored DEF listFetched
  <1>15. CASE listNamed(s)
    <2>1. CASE calls' = [calls EXCEPT ![s].pc = "fetch", ![s].flag = FALSE]
      <3>1. Others(s) /\ calls'[s].op = c.op
        BY <2>1, <1>t DEF CallsTyped, CallType, Others
      <3> QED BY <1>15, <3>1, QuietStored DEF listNamed
    <2>2. CASE Ends(s)
      BY <1>15, <2>2, <1>q DEF listNamed
    <2>3. ASSUME NEW nb \in c.got, NEW page \in Held(nb) \cup {NoPage}, Enters(s, Load(nb, c.cap, page, c.by, tab))
          PROVE  Stored'
      <3>1. nb \in Books /\ page \in PageOrNone /\ c.by \in Origins
        BY <1>15, <1>t DEF listNamed, Shape, Held, SrvType, PageOrNone, CallType
      <3>2. Others(s) /\ calls'[s].op = "load"
        BY <2>3, <3>1, <1>l, <1>t
      <3> QED BY <1>15, <3>2, QuietStored DEF listNamed
    <2> QED BY <1>15, <2>1, <2>2, <2>3 DEF listNamed
  <1>16. CASE created(s)
    <2>1. CASE Ends(s) /\ UNCHANGED srv
      BY <2>1, <1>q
    <2>2. CASE /\ srv' = [srv EXCEPT !.books = @ \cup {c.nb}, !.marked = @ \cup {c.nb}]
               /\ Enters(s, Load(c.nb, c.cap, NoPage, "create", tab))
      <3>1. /\ srv'.books = srv.books \cup {c.nb} /\ srv'.marked = srv.marked \cup {c.nb}
            /\ srv'.pages = srv.pages /\ srv'.pinned = srv.pinned
        BY <2>2, <1>t DEF SrvType
      <3>2. c.op = "create" /\ c.nb \in Books
        BY <1>16, <1>t DEF created, Shape
      <3>3. Others(s) /\ calls'[s].op = "load"
        BY <2>2, <3>2, <1>l, <1>t DEF PageOrNone, Origins
      <3>4. \A p \in srv.pages : Home[p] # c.nb
        BY <3>2 DEF Stored
      <3>5. \A t \in Slots : calls'[t].op # "create"
        BY <3>2, <3>3 DEF Stored, Others
      <3> QED BY <3>1, <3>3, <3>4, <3>5 DEF Stored, Others, Pinning, MarkedIsPinned, Held
    <2> QED BY <1>16, <2>1, <2>2 DEF created
  <1>17. CASE renamed(s)
    BY <1>17, <1>q DEF renamed
  <1>18. CASE deleted(s)
    <2>1. CASE Ends(s) /\ UNCHANGED srv
      BY <2>1, <1>q
    <2>2. CASE srv' = [srv EXCEPT !.books = @ \ {c.nb}, !.pages = @ \ Held(c.nb)]
      <3>1. /\ srv'.books = srv.books \ {c.nb} /\ srv'.pages = srv.pages \ Held(c.nb)
            /\ srv'.pinned = srv.pinned /\ srv'.marked = srv.marked
        BY <2>2, <1>t DEF SrvType
      <3>2. Others(s) /\ calls'[s].op \in {"none", "load"}
        <4>1. CASE Ends(s)
          BY <4>1, EndsAt, IdleIs
        <4> DEFINE out == [[tab EXCEPT !.items = @ \ {c.nb}] EXCEPT !.dirty = FALSE, !.open = NoPage]
        <4>2. out \in TabType
          BY <1>t DEF TabType, PageOrNone
        <4>3. CASE \E next \in c.got \ {c.nb} : Enters(s, Load(next, c.cap, NoPage, "delete", out))
          <5>1. \A next \in c.got : next \in Books
            BY <1>18, <1>t DEF deleted, Shape
          <5> HIDE DEF out
          <5> QED BY <4>2, <4>3, <5>1, <1>l DEF PageOrNone, Origins
        <4> QED BY <1>18, <4>1, <4>3 DEF deleted
      <3> QED BY <3>1, <3>2 DEF Stored, Others, Pinning, MarkedIsPinned, Held
    <2> QED BY <1>18, <2>1, <2>2 DEF deleted
  <1>19. CASE migrateNext(s)
    <2>1. PICK page \in c.got :
             IF StillHere(c)
             THEN calls' = [calls EXCEPT ![s].pc = "flush", ![s].page = page, ![s].got = @ \ {page}]
             ELSE calls' = [calls EXCEPT ![s].got = @ \ {page}, ![s].flag = FALSE]
      BY <1>19 DEF migrateNext
    <2>2. /\ Others(s) /\ calls'[s].op = c.op /\ calls'[s].cap = c.cap /\ calls'[s].got = c.got \ {page}
          /\ \/ calls'[s].flag = c.flag /\ calls'[s].pc = "flush" /\ calls'[s].page = page
             \/ calls'[s].flag = FALSE
      BY <2>1, <1>t DEF CallsTyped, CallType, Others
    <2> QED BY <1>19, <2>2 DEF migrateNext, Stored, Others, Pinning, MarkedIsPinned, Held
  <1>20. CASE pinPage(s)
    <2>1. PICK done \in BOOLEAN :
            /\ calls' = [calls EXCEPT ![s].pc = "next", ![s].flag = Complete(c, done)]
            /\ done => srv' = [srv EXCEPT !.pinned = @ \cup {c.page}]
            /\ srv' \in {srv, [srv EXCEPT !.pinned = @ \cup {c.page}]}
      BY <1>20 DEF pinPage
    <2>2. /\ Others(s) /\ calls'[s].op = c.op /\ calls'[s].cap = c.cap /\ calls'[s].got = c.got
          /\ calls'[s].flag = Complete(c, done)
      BY <2>1, <1>t DEF CallsTyped, CallType, Others
    <2>3. /\ srv'.books = srv.books /\ srv'.marked = srv.marked /\ srv'.pages = srv.pages /\ srv.pinned \subseteq srv'.pinned
          /\ done => c.page \in srv'.pinned
      BY <2>1, <1>t DEF SrvType
    <2>4. Pinning(calls[s])'
      BY <2>2, <2>3, ZenonT(40) DEF Stored, Pinning, Complete
    <2>5. c.op = "migrate"
      BY <1>20 DEF pinPage
    <2> QED BY <2>2, <2>3, <2>4, <2>5 DEF Stored, Others, Pinning, MarkedIsPinned, Held
  <1>21. CASE migrated(s)
    <2>1. Others(s) /\ calls'[s].op = "none"
      BY <1>21, EndsAt, IdleIs DEF migrated
    <2>2. /\ srv'.books = srv.books /\ srv'.pages = srv.pages /\ srv'.pinned = srv.pinned
          /\ srv'.marked = srv.marked \/ (srv'.marked = srv.marked \cup {c.cap} /\ c.flag)
      BY <1>21, <1>t DEF migrated, Marks, SrvType
    <2>3. c.flag => Held(c.cap) \subseteq srv.pinned
      BY <1>21 DEF migrated, Stored, Pinning, Held
    <2> QED BY <2>1, <2>2, <2>3 DEF Stored, Others, Pinning, MarkedIsPinned, Held
  <1>22. CASE routeOpened(s)
    BY <1>22, <1>g DEF routeOpened
  <1> QED
    BY <1>1, <1>2, <1>3, <1>4, <1>5, <1>6, <1>7, <1>8, <1>9, <1>10, <1>11, <1>12, <1>13, <1>14, <1>15, <1>16,
       <1>17, <1>18, <1>19, <1>20, <1>21, <1>22
    DEF Continue, Answered

LEMMA NextStored == Types /\ Stored /\ [Next]_vars => Stored'
  <1> SUFFICES ASSUME Types, Stored, [Next]_vars PROVE Stored'
    OBVIOUS
  <1>1. CASE UNCHANGED vars
    BY <1>1 DEF vars, Stored, Pinning, MarkedIsPinned, Held
  <1> QED BY <1>1, UserStored, StepStored DEF Next, Step, Rest

-----------------------------------------------------------------------------
(* Pages and the keys they are sealed with *)

OfItsOwn(p, nb) == p \in hist.early \/ Home[p] = nb

(* A save waits with a page of the notebook it will be sealed under, and a *)
(* page about to be opened is of the notebook the user was in.             *)
Own(c) ==
    /\ c.pc = "flush" /\ c.op # "migrate" /\ c.by \notin {"create", "list", "routed"} =>
          c.cap = NoBook \/ \A p \in c.got : OfItsOwn(p, c.cap)
    /\ c.op = "note" => OfItsOwn(c.page, c.nb)

Sealing == OnlyItsOwn /\ SealedUnderOwn /\ \A s \in Slots : Own(calls[s])

(* The page and the list stay, or go. *)
SameShown == tab'.sel = tab.sel /\ tab'.list = tab.list /\ tab'.open \in {tab.open, NoPage}

LEMMA QuietSealing ==
  ASSUME Sealing, NEW s \in Slots, Others(s), Own(calls'[s]), SameShown, hist' = hist
  PROVE  Sealing'
  <1>1. \A t \in Slots : Own(calls'[t])
    BY DEF Sealing, Others
  <1>2. \A t \in Slots : Own(calls[t])'
    BY <1>1 DEF Own, OfItsOwn
  <1> QED BY <1>2 DEF Sealing, SameShown, OnlyItsOwn, SealedUnderOwn

LEMMA OpenIsOwn ==
  ASSUME Sealing, StateTyped
  PROVE  /\ tab.open # NoPage => OfItsOwn(tab.open, tab.sel)
         /\ \A p \in tab.list : OfItsOwn(p, tab.sel)
  BY NavBounds DEF Sealing, OnlyItsOwn, OfItsOwn, StateTyped, TabType

LEMMA LeavingOwn ==
  ASSUME Sealing, StateTyped, NEW call \in CallType,
         call.cap \in {NoBook, tab.sel} \/ call.by \in {"create", "list", "routed"},
         call.op = "note" => OfItsOwn(call.page, call.nb)
  PROVE  Own(Leaving(call, tab))
  <1> DEFINE d == Leaving(call, tab)
  <1>1. d.op = call.op /\ d.by = call.by /\ d.nb = call.nb /\ d.cap = call.cap /\ d.page = call.page
    BY LeavingIs
  <1>2. d.pc = "flush" => d.got = {tab.open} /\ tab.open # NoPage
    BY LeavingIs
  <1> HIDE DEF d
  <1>3. Own(d)
    BY <1>1, <1>2, OpenIsOwn DEF Own
  <1> QED BY <1>3 DEF d

LEMMA LoadOwn ==
  ASSUME Sealing, StateTyped, NEW nb \in Books, NEW cap \in NotebookOrNone, NEW page \in PageOrNone, NEW by \in Origins,
         cap \in {NoBook, tab.sel} \/ by \in {"create", "list", "routed"}
  PROVE  Own(Load(nb, cap, page, by, tab))
  <1> DEFINE n == tab.latest + 1
             d == [Idle EXCEPT !.op = "load", !.by = by, !.nb = nb, !.cap = cap, !.page = page, !.ticket = n]
  <1> n \in Nat
    BY BegunTyped
  <1> HIDE DEF n
  <1>1. d \in CallType
    BY IdleIsCall DEF CallType, Ops, NotebookOrNone
  <1>2. d.op = "load" /\ d.by = by /\ d.cap = cap
    BY IdleIsCall DEF CallType
  <1>3. Load(nb, cap, page, by, tab) = Leaving(d, tab)
    BY DEF Load, n
  <1> HIDE DEF d
  <1> QED BY <1>1, <1>2, <1>3, LeavingOwn

LEMMA UserSealing ==
  ASSUME Types, Sealing, User
  PROVE  Sealing'
  <1> USE DEF Types
  <1>t. tab \in TabType /\ tab.sel \in NotebookOrNone /\ tab.open \in PageOrNone /\ tab.list \subseteq Pages
    BY DEF StateTyped, TabType
  <1>1. CASE edit
    <2>1. SameShown
      BY <1>1, <1>t DEF edit, SameShown, TabType
    <2>2. \A s \in Slots : Own(calls[s])'
      BY <1>1 DEF edit, Sealing, Own, OfItsOwn
    <2> QED BY <1>1, <2>1, <2>2 DEF edit, Sealing, SameShown, OnlyItsOwn, SealedUnderOwn
  <1>2. ASSUME NEW d, Own(d), Starts(d), SameShown, hist' = hist
        PROVE  Sealing'
    <2>1. PICK s \in Slots : calls[s] = Idle /\ Others(s) /\ calls'[s] = d
      BY <1>2, StartsAt
    <2> QED BY <1>2, <2>1, QuietSealing
  <1>3. ASSUME NEW d, d.pc # "flush", d.op # "note"
        PROVE  Own(d)
    BY <1>3 DEF Own
  <1>4. CASE autosave
    <2> DEFINE d == [Idle EXCEPT !.op = "save", !.by = "timer", !.pc = "flush", !.cap = tab.sel, !.rounds = MaxRounds, !.got = {tab.open}]
    <2>1. d.op = "save" /\ d.cap = tab.sel /\ d.got = {tab.open}
      BY DEF Idle
    <2> HIDE DEF d
    <2>2. Own(d)
      BY <1>4, <2>1, OpenIsOwn DEF Own, autosave
    <2> QED BY <1>2, <1>4, <2>2 DEF autosave, SameShown, d
  <1>5. CASE SealedChild
    <2> DEFINE d == [Idle EXCEPT !.op = "comment", !.by = "child", !.pc = "sent", !.nb = tab.sel, !.cap = tab.sel, !.page = tab.open]
               e == [Idle EXCEPT !.by = "child", !.cap = tab.sel]
    <2>1. d.op = "comment" /\ d.pc = "sent" /\ e.cap = tab.sel
      BY DEF Idle
    <2>2. PICK s \in Slots : Others(s) /\ calls'[s] = d
      BY <1>5, StartsAt DEF SealedChild
    <2>3. Sealed(tab.open, e) /\ UNCHANGED tab
      BY <1>5 DEF SealedChild
    <2> HIDE DEF d, e
    <2>4. tab.open \in hist.early \/ Home[tab.open] = tab.sel
      BY <1>5, OpenIsOwn DEF SealedChild, OfItsOwn
    <2>5. hist' = hist \/ hist' = [hist EXCEPT !.missealed = @ \cup {"early"}]
      BY <2>1, <2>3, <2>4 DEF Sealed, Origin
    <2>6. hist'.early = hist.early /\ hist'.missealed \subseteq hist.missealed \cup {"early"}
      BY <2>5 DEF StateTyped, HistType
    <2>7. \A t \in Slots : Own(calls[t])'
      BY <2>1, <2>2, <2>6 DEF Sealing, Others, Own, OfItsOwn
    <2> QED BY <2>3, <2>6, <2>7 DEF Sealing, OnlyItsOwn, SealedUnderOwn
  <1>6. CASE Listing
    BY <1>2, <1>3, <1>6 DEF Listing, Idle, SameShown
  <1>7. CASE renameWorkspace
    BY <1>2, <1>3, <1>7 DEF renameWorkspace, Idle, SameShown
  <1>8. CASE deleteWorkspace
    BY <1>2, <1>3, <1>8 DEF deleteWorkspace, Idle, SameShown
  <1>9. ASSUME NEW nb \in Books, newWorkspace(nb)
        PROVE  Sealing'
    BY <1>2, <1>3, <1>9 DEF newWorkspace, Idle, SameShown
  <1>10. ASSUME NEW page \in PageOrNone, NEW op \in {"note", "new", "section"}, NEW by \in {"page", "new"},
                Starts(Leaving([Idle EXCEPT !.op = op, !.by = by, !.nb = tab.sel, !.cap = tab.sel, !.page = page], tab)),
                op = "note" => page \in tab.list, UNCHANGED <<tab, hist>>
         PROVE  Sealing'
    <2> DEFINE d == [Idle EXCEPT !.op = op, !.by = by, !.nb = tab.sel, !.cap = tab.sel, !.page = page]
    <2>1. d \in CallType
      BY <1>t, IdleIsCall DEF CallType, Ops, Origins
    <2>2. d.op = op /\ d.nb = tab.sel /\ d.cap = tab.sel /\ d.page = page
      BY DEF Idle
    <2>3. Starts(Leaving(d, tab))
      BY <1>10
    <2> HIDE DEF d
    <2>4. Own(Leaving(d, tab))
      BY <1>10, <2>1, <2>2, LeavingOwn, OpenIsOwn
    <2> QED BY <1>2, <1>10, <2>3, <2>4 DEF SameShown
  <1>11. ASSUME NEW page \in PageOrNone, selectNote(page) \/ newNote(page) \/ selectSection(page)
         PROVE  Sealing'
    BY <1>10, <1>11 DEF selectNote, newNote, selectSection
  <1>12. ASSUME NEW nb \in Books, NEW page \in PageOrNone, NEW by \in Origins,
                Starts(Load(nb, tab.sel, page, by, tab)), tab' = Begun(nb), hist' = hist
         PROVE  Sealing'
    BY <1>2, <1>12, <1>t, LoadOwn, BegunIs DEF SameShown
  <1>13. ASSUME NEW nb \in Books, chooseNotebook(nb)
         PROVE  Sealing'
    BY <1>12, <1>13 DEF chooseNotebook, PageOrNone, Origins
  <1>14. ASSUME NEW page \in Pages, followRoute(page) \/ selectQueueNote(page)
         PROVE  Sealing'
    BY <1>12, <1>14, NavBounds DEF followRoute, selectQueueNote, PageOrNone, Origins
  <1> QED
    BY <1>1, <1>4, <1>5, <1>6, <1>7, <1>8, <1>9, <1>11, <1>13, <1>14 DEF User, addComment, addAttachment, joinTeam, afterIdentityChange, PageOrNone

(* A page of the notebook the tab shows or waits for is opened. *)
LEMMA ShownSealing ==
  ASSUME Types, Sealing, tab' \in TabType, Shown, NEW s \in Slots, Others(s), Own(calls'[s]), tab'.sel = tab.sel,
         tab'.list \subseteq tab.list \cup {tab'.open},
         tab'.open \in {tab.open, NoPage} \/ OfItsOwn(tab'.open, Here)
  PROVE  Sealing'
  <1>1. hist.early \subseteq hist'.early /\ hist'.missealed = hist.missealed
    BY DEF Types, StateTyped, HistType, Shown
  <1>2. \A t \in Slots : Own(calls'[t])
    BY DEF Sealing, Others
  <1>3. \A t \in Slots : Own(calls[t])'
    BY <1>1, <1>2 DEF Own, OfItsOwn
  <1>4. tab'.open \notin {tab.open, NoPage} => tab'.open \in hist'.early \/ Home[tab'.open] = tab.sel
    <2> SUFFICES ASSUME tab'.open \notin {tab.open, NoPage}, tab'.open \notin hist.early, Home[tab'.open] # tab.sel
                 PROVE  tab'.open \in hist'.early
      BY <1>1
    <2>1. tab.loading = Home[tab'.open]
      BY DEF OfItsOwn, Here
    <2>2. hist' = [hist EXCEPT !.early = @ \cup {tab'.open}]
      BY <2>1 DEF Shown
    <2> QED BY <2>2 DEF Types, StateTyped, HistType
  <1>5. tab'.open # NoPage => tab'.open \in hist'.early \/ Home[tab'.open] = tab.sel
    BY <1>1, <1>4, OpenIsOwn DEF OfItsOwn, Types
  <1>6. OnlyItsOwn'
    BY <1>1, <1>5, OpenIsOwn DEF OnlyItsOwn, OfItsOwn, Types
  <1> QED BY <1>1, <1>3, <1>6 DEF Sealing, SealedUnderOwn

LEMMA StepSealing ==
  ASSUME Types, Loads, Stored, Sealing, NEW s \in Slots, Continue(s) \/ Answered(s)
  PROVE  Sealing'
  <1> USE DEF Types
  <1> DEFINE c == calls[s]
  <1>t. /\ tab \in TabType /\ c \in CallType /\ Shape(c) /\ c.cap \in NotebookOrNone /\ c.by \in Origins
        /\ tab' \in TabType
    BY StepTypes DEF StateTyped, CallsTyped, CallType
  <1>o. Own(c) /\ Own(Idle)
    BY IdleIs DEF Sealing, Own
  <1>q. ASSUME Ends(s), SameShown, hist' = hist
        PROVE  Sealing'
    BY <1>q, <1>o, EndsAt, QuietSealing
  <1>g. ASSUME NEW pc, pc # "flush", Goes(s, pc), SameShown, hist' = hist
        PROVE  Sealing'
    <2>0. Others(s) /\ calls'[s].pc = pc /\ calls'[s].op = c.op /\ calls'[s].page = c.page /\ calls'[s].nb = c.nb
      BY <1>g, GoesAt
    <2>1. Others(s) /\ calls'[s].pc # "flush" /\ calls'[s].op = c.op /\ calls'[s].page = c.page /\ calls'[s].nb = c.nb
      BY <1>g, <2>0
    <2>2. Own(calls'[s])
      BY <2>1, <1>o DEF Own
    <2> QED BY <1>g, <2>1, <2>2, QuietSealing
  <1>r. ASSUME Others(s), Own(calls'[s]), hist'.early = hist.early, SameShown, hist'.missealed \subseteq hist.missealed \cup {"create", "list", "routed", "early"}
        PROVE  Sealing'
    <2>1. \A t \in Slots : Own(calls'[t])
      BY <1>r DEF Sealing, Others
    <2>2. \A t \in Slots : Own(calls[t])'
      BY <1>r, <2>1 DEF Own, OfItsOwn
    <2> QED BY <1>r, <2>2 DEF Sealing, SameShown, OnlyItsOwn, SealedUnderOwn
  <1>1. CASE saved(s)
    BY <1>1, <1>q DEF saved, SameShown
  <1>2. CASE loadRefused(s)
    BY <1>2, <1>q, <1>t DEF loadRefused, Finished, SameShown, TabType
  <1>3. CASE loadCleared(s)
    <2>1. CASE Ends(s) /\ UNCHANGED tab
      BY <1>3, <2>1, <1>q DEF loadCleared, SameShown
    <2>2. CASE Goes(s, "keys") /\ tab' = [tab EXCEPT !.sel = c.nb, !.writer = FALSE, !.open = NoPage, !.list = {}]
      <3>1. tab'.open = NoPage /\ tab'.list = {} /\ hist' = hist
        BY <1>3, <2>2, <1>t DEF loadCleared, TabType
      <3>2. Others(s) /\ calls'[s].pc = "keys" /\ calls'[s].op = "load"
        BY <1>3, <2>2, GoesAt DEF loadCleared
      <3>3. \A t \in Slots : Own(calls[t])'
        BY <3>1, <3>2 DEF Sealing, Others, Own, OfItsOwn
      <3> QED BY <3>1, <3>3 DEF Sealing, OnlyItsOwn, SealedUnderOwn
    <2> QED BY <1>3, <2>1, <2>2 DEF loadCleared
  <1>4. CASE noteOpened(s)
    <2>1. tab'.sel = tab.sel /\ tab'.list = tab.list
      BY <1>4, <1>t DEF noteOpened, TabType
    <2>2. tab'.open = tab.open \/ (tab'.open = c.page /\ Here = c.nb)
      BY <1>4, <1>t DEF noteOpened, StayedHere, TabType
    <2>3. OfItsOwn(c.page, c.nb)
      BY <1>4, <1>o DEF noteOpened, Own
    <2>4. Own(Migration(c.nb))
      BY DEF Migration, Idle, Own
    <2>5. Others(s) /\ Own(calls'[s])
      BY <1>4, <2>4, <1>o DEF noteOpened, AfterLoad, CallsTyped, Others
    <2> QED BY <1>4, <2>1, <2>2, <2>3, <2>5, <1>t, ShownSealing DEF noteOpened
  <1>5. CASE sectionShown(s)
    <2>1. tab'.sel = tab.sel /\ tab'.list = tab.list
      BY <1>5, <1>t DEF sectionShown, TabType
    <2>2. tab'.open \in {tab.open, NoPage} \/ (tab'.open = c.page /\ c.page \in tab.list)
      BY <1>5, <1>t DEF sectionShown, StayedHere, TabType
    <2>3. c.page \in tab.list => c.page \in hist.early \/ Home[c.page] = tab.sel
      BY OpenIsOwn DEF OfItsOwn
    <2>4. Others(s) /\ Own(calls'[s])
      BY <1>5, <1>o, EndsAt DEF sectionShown
    <2>5. hist.early \subseteq hist'.early /\ hist'.missealed = hist.missealed
      BY <1>5 DEF sectionShown, Shown, StateTyped, HistType
    <2>6. \A t \in Slots : Own(calls'[t])
      BY <2>4 DEF Sealing, Others
    <2>7. \A t \in Slots : Own(calls[t])'
      BY <2>5, <2>6 DEF Own, OfItsOwn
    <2>8. OnlyItsOwn'
      BY <2>1, <2>2, <2>3, <2>5, OpenIsOwn DEF OnlyItsOwn, OfItsOwn
    <2> QED BY <2>5, <2>7, <2>8 DEF Sealing, SealedUnderOwn
  <1>6. CASE SaveTurn(s)
    <2>1. SameShown
      BY <1>6, <1>t DEF SaveTurn, SameShown, TabType
    <2>2. hist' = hist \/ (StillOpen(c) /\ c.cap # NoBook /\ Sealed(tab.open, c))
      BY <1>6 DEF SaveTurn
    <2>3. hist'.early = hist.early /\ hist'.missealed \subseteq hist.missealed \cup {"create", "list", "routed", "early"}
      <3>1. CASE hist' = hist
        BY <3>1
      <3>2. CASE StillOpen(c) /\ c.cap # NoBook /\ Sealed(tab.open, c)
        <4>1. c.by \in {"create", "list", "routed"} \/ tab.open \in hist.early \/ Home[tab.open] = c.cap
          BY <1>6, <3>2, <1>o DEF SaveTurn, StillOpen, Own, OfItsOwn
        <4>2. hist' = hist \/ hist' = [hist EXCEPT !.missealed = @ \cup {"early"}]
              \/ (c.by \in {"create", "list", "routed"} /\ hist' = [hist EXCEPT !.missealed = @ \cup {c.by}])
          BY <3>2, <4>1 DEF Sealed, Origin
        <4> QED BY <4>2 DEF StateTyped, HistType
      <3> QED BY <2>2, <3>1, <3>2
    <2>4. Others(s) /\ Own(calls'[s])
      <3>1. ASSUME NEW pc \in {"left", "refused"}, Goes(s, pc)
            PROVE  Others(s) /\ Own(calls'[s])
        BY <3>1, GoesAt, <1>o DEF Own
      <3>2. CASE calls' = [calls EXCEPT ![s].rounds = @ + 1]
        <4>1. /\ Others(s) /\ calls'[s].op = c.op /\ calls'[s].by = c.by /\ calls'[s].pc = c.pc /\ calls'[s].cap = c.cap
              /\ calls'[s].got = c.got /\ calls'[s].page = c.page /\ calls'[s].nb = c.nb
          BY <3>2, <1>t DEF CallsTyped, Others, CallType
        <4> QED BY <4>1, <1>o DEF Own
      <3> QED BY <1>6, <3>1, <3>2 DEF SaveTurn
    <2> QED BY <2>1, <2>3, <2>4, <1>r
  <1>7. CASE loadKeyed(s)
    <2>1. CASE Ends(s) /\ UNCHANGED tab
      BY <1>7, <2>1, <1>q DEF loadKeyed, SameShown
    <2>2. CASE ~superseded(c) /\ Goes(s, "read") /\ tab' = [tab EXCEPT !.sel = c.nb]
      <3>1. tab.sel = c.nb \/ (tab.sel = NoBook /\ c.nb \notin srv.books)
        BY <1>7, <2>2 DEF loadKeyed, superseded, Loads, Newest, IsLoad, InLoad, Reading
      <3>2. tab'.sel = c.nb /\ tab'.open = tab.open /\ tab'.list = tab.list
        BY <2>2, <1>t DEF TabType
      <3>3. \A p \in Pages : Home[p] # NoBook
        BY NavBounds
      <3>4. \A p \in (tab.list \cup {tab.open}) \ {NoPage} : p \in hist.early \/ Home[p] = c.nb
        BY <3>1, <3>3, <1>t, OpenIsOwn DEF OfItsOwn, TabType, PageOrNone
      <3>5. OnlyItsOwn'
        BY <1>7, <3>2, <3>4 DEF loadKeyed, OnlyItsOwn
      <3>6. Others(s) /\ calls'[s].pc = "read" /\ calls'[s].op = "load"
        BY <1>7, <2>2, GoesAt DEF loadKeyed
      <3>7. \A t \in Slots : Own(calls[t])'
        BY <1>7, <3>6 DEF loadKeyed, Sealing, Others, Own, OfItsOwn
      <3> QED BY <1>7, <3>5, <3>7 DEF loadKeyed, Sealing, SealedUnderOwn
    <2> QED BY <1>7, <2>1, <2>2 DEF loadKeyed
  <1>8. CASE loadRead(s)
    <2>1. CASE Ends(s) /\ UNCHANGED tab
      BY <1>8, <2>1, <1>q DEF loadRead, SameShown
    <2>2. CASE Ends(s) /\ tab' = Finished(c)
      BY <1>8, <2>2, <1>q, <1>t DEF loadRead, Finished, SameShown, TabType
    <2>3. ASSUME ~superseded(c), tab' = [tab EXCEPT !.list = Held(c.nb)], Others(s), Own(calls'[s])
          PROVE  Sealing'
      <3>1. tab.sel = c.nb \/ (tab.sel = NoBook /\ c.nb \notin srv.books)
        BY <1>8, <2>3 DEF loadRead, superseded, Loads, Newest, IsLoad, InLoad, Reading
      <3>2. \A p \in Held(c.nb) : Home[p] = tab.sel
        BY <3>1 DEF Held, Stored
      <3>3. tab'.sel = tab.sel /\ tab'.list = Held(c.nb) /\ tab'.open = tab.open
        BY <2>3, <1>t DEF TabType
      <3>4. OnlyItsOwn'
        BY <1>8, <3>2, <3>3 DEF loadRead, Sealing, OnlyItsOwn
      <3>5. \A t \in Slots : Own(calls'[t])
        BY <2>3 DEF Sealing, Others
      <3>6. \A t \in Slots : Own(calls[t])'
        BY <1>8, <3>5 DEF loadRead, Own, OfItsOwn
      <3> QED BY <1>8, <3>4, <3>6 DEF loadRead, Sealing, SealedUnderOwn
    <2>4. ASSUME Goes(s, "role") PROVE Others(s) /\ Own(calls'[s])
      <3>1. Others(s) /\ calls'[s].pc = "role" /\ calls'[s].op = "load"
        BY <1>8, <2>4, GoesAt DEF loadRead
      <3> QED BY <3>1 DEF Own
    <2>5. ASSUME Enters(s, Routed(c, tab)), c.page \in Held(c.nb) PROVE Others(s) /\ Own(calls'[s])
      <3>1. c.op = "load" /\ c.nb \in Books /\ c.page \in Pages /\ Home[c.page] = c.nb
        BY <1>8, <2>5, <1>t DEF loadRead, Shape, Held, StateTyped, SrvType
      <3> DEFINE d == Routed(c, tab)
      <3>2. d.op = "load" /\ d.by = "routed"
        BY <3>1, <1>t, RoutedIs
      <3> HIDE DEF d
      <3>3. Others(s) /\ calls'[s] = d
        BY <2>5, EntersAt DEF d
      <3> QED BY <3>2, <3>3 DEF Own
    <2> QED BY <1>8, <2>1, <2>2, <2>3, <2>4, <2>5 DEF loadRead
  <1>9. CASE loadRole(s)
    <2>1. Own(Migration(c.nb))
      BY DEF Migration, Idle, Own
    <2>2. SameShown /\ hist' = hist
      BY <1>9, <1>t DEF loadRole, Finished, SameShown, TabType
    <2> DEFINE d == [Idle EXCEPT !.op = "note", !.nb = c.nb, !.cap = c.cap, !.page = c.page]
    <2>3. ASSUME ~superseded(c), c.page \in tab.list, Enters(s, Routed(d, tab'))
          PROVE  Sealing'
      <3>1. c.nb \in Books /\ c.page \in Pages
        BY <1>9, <2>3, <1>t DEF loadRole, Shape, TabType
      <3>2. d \in CallType
        BY <3>1, <1>t, IdleIsCall DEF CallType, Ops, NotebookOrNone, PageOrNone
      <3>3. Shape(d) /\ d.op = "note" /\ d.nb = c.nb /\ d.page = c.page
        BY <3>1 DEF Idle, Shape
      <3> HIDE DEF d
      <3> DEFINE e == Routed(d, tab')
      <3>4. e.op = "note" /\ e.by = "routed" /\ e.nb = c.nb /\ e.page = c.page
        BY <3>1, <3>2, <3>3, <1>t, RoutedIs
      <3> HIDE DEF e
      <3>5. Others(s) /\ calls'[s] = e
        BY <2>3, EntersAt DEF d, e
      <3>6. tab.sel = c.nb \/ tab.sel = NoBook
        BY <1>9, <2>3 DEF loadRole, superseded, Loads, Newest, IsLoad, InLoad, Reading
      <3>7. OfItsOwn(c.page, c.nb)
        BY <2>3, <3>1, <3>6, OpenIsOwn, NavBounds DEF OfItsOwn
      <3>8. Own(calls'[s])
        BY <3>4, <3>5, <3>7 DEF Own
      <3> QED BY <2>2, <3>5, <3>8, QuietSealing
    <2>4. CASE calls' = [calls EXCEPT ![s] = Migration(c.nb)] \/ calls' = [calls EXCEPT ![s] = Idle]
      <3>1. Others(s) /\ calls'[s] \in {Idle, Migration(c.nb)}
        BY <2>4 DEF CallsTyped, Others
      <3> QED BY <2>1, <2>2, <3>1, <1>o, QuietSealing
    <2> QED BY <1>9, <2>3, <2>4 DEF loadRole, Ends
  <1>10. CASE newCreated(s)
    BY <1>10, <1>q, <1>g DEF newCreated, SameShown
  <1>11. CASE newListed(s)
    <2> DEFINE d == [Idle EXCEPT !.op = "save", !.by = "new", !.pc = "flush", !.cap = c.cap, !.rounds = MaxRounds, !.got = {c.page}]
    <2>1. CASE Ends(s) /\ UNCHANGED <<tab, chain, hist>>
      BY <2>1, <1>q DEF SameShown
    <2>2. CASE /\ Here = c.nb /\ tab' = [tab EXCEPT !.list = @ \cup {c.page}, !.open = c.page, !.dirty = TRUE]
               /\ Shown /\ Enters(s, d)
      <3>1. Home[c.page] = c.cap /\ c.nb = c.cap
        BY <1>11, <1>t DEF newListed, Shape
      <3>2. d.op = "save" /\ d.cap = c.cap /\ d.got = {c.page}
        BY DEF Idle
      <3>3. Others(s) /\ calls'[s] = d
        BY <2>2, EntersAt
      <3> HIDE DEF d
      <3>4. Own(calls'[s])
        BY <3>1, <3>2, <3>3 DEF Own, OfItsOwn
      <3>5. tab'.sel = tab.sel /\ tab'.list = tab.list \cup {c.page} /\ tab'.open = c.page
        BY <2>2, <1>t DEF TabType
      <3> QED BY <2>2, <3>1, <3>3, <3>4, <3>5, <1>t, ShownSealing DEF OfItsOwn
    <2> QED BY <1>11, <2>1, <2>2 DEF newListed, StayedHere
  <1>12. CASE childSent(s)
    BY <1>12, <1>q, <1>t DEF childSent, SameShown, TabType
  <1>13. CASE listAccepted(s)
    BY <1>13, <1>g, <1>q DEF listAccepted, SameShown
  <1>14. CASE listFetched(s)
    <2>1. Others(s) /\ calls'[s].op = c.op /\ calls'[s].pc = "names"
      BY <1>14, <1>t DEF listFetched, CallsTyped, CallType, Others
    <2>2. Own(calls'[s])
      BY <1>14, <2>1 DEF listFetched, Own
    <2> QED BY <1>14, <2>1, <2>2, QuietSealing DEF listFetched, SameShown
  <1>15. CASE listNamed(s)
    <2>1. CASE calls' = [calls EXCEPT ![s].pc = "fetch", ![s].flag = FALSE] /\ UNCHANGED <<tab, want>>
      <3>1. Others(s) /\ calls'[s].op = c.op /\ calls'[s].pc = "fetch"
        BY <2>1, <1>t DEF CallsTyped, CallType, Others
      <3>2. Own(calls'[s])
        BY <1>15, <3>1 DEF listNamed, Own
      <3> QED BY <1>15, <2>1, <3>1, <3>2, QuietSealing DEF listNamed, SameShown
    <2>2. CASE tab' = [tab EXCEPT !.items = c.got] /\ Ends(s)
      BY <1>15, <2>2, <1>q, <1>t DEF listNamed, SameShown, TabType
    <2>3. ASSUME NEW nb \in c.got, NEW page \in Held(nb) \cup {NoPage},
                 tab' = [Begun(nb) EXCEPT !.items = c.got], Enters(s, Load(nb, c.cap, page, c.by, tab))
          PROVE  Sealing'
      <3>1. nb \in Books /\ page \in PageOrNone
        BY <1>15, <1>t DEF listNamed, Shape, Held, StateTyped, SrvType, PageOrNone
      <3>2. c.cap = NoBook \/ c.by = "list"
        BY <1>15, <1>t DEF listNamed, Shape
      <3>3. Own(Load(nb, c.cap, page, c.by, tab))
        BY <3>1, <3>2, <1>t, LoadOwn
      <3>4. Others(s) /\ Own(calls'[s])
        BY <2>3, <3>3, EntersAt
      <3>5. SameShown
        BY <2>3, <3>1, BegunIs, BegunTyped DEF SameShown, TabType
      <3> QED BY <1>15, <3>4, <3>5, QuietSealing DEF listNamed
    <2> QED BY <1>15, <2>1, <2>2, <2>3 DEF listNamed
  <1>16. CASE created(s)
    <2>1. CASE Ends(s) /\ UNCHANGED <<tab, chain, srv, want>>
      BY <1>16, <2>1, <1>q DEF created, SameShown
    <2>2. CASE tab' = [Begun(c.nb) EXCEPT !.items = @ \cup {c.nb}] /\ Enters(s, Load(c.nb, c.cap, NoPage, "create", tab))
      <3>1. c.nb \in Books /\ NoPage \in PageOrNone /\ "create" \in Origins
        BY <1>16, <1>t DEF created, Shape, PageOrNone, Origins
      <3>2. Own(Load(c.nb, c.cap, NoPage, "create", tab))
        BY <3>1, <1>t, LoadOwn
      <3>3. Others(s) /\ Own(calls'[s])
        BY <2>2, <3>2, EntersAt
      <3>4. SameShown
        BY <2>2, <3>1, BegunIs, BegunTyped DEF SameShown, TabType
      <3> QED BY <1>16, <3>3, <3>4, QuietSealing DEF created
    <2> QED BY <1>16, <2>1, <2>2 DEF created
  <1>17. CASE renamed(s)
    BY <1>17, <1>q, <1>t DEF renamed, SameShown, TabType
  <1>18. CASE deleted(s)
    <2> DEFINE rest == [tab EXCEPT !.items = @ \ {c.nb}]
               out == [rest EXCEPT !.dirty = FALSE, !.open = NoPage]
    <2>1. hist' = hist
      BY <1>18 DEF deleted
    <2>2. CASE Ends(s) /\ (UNCHANGED tab \/ tab' = rest)
      BY <2>1, <2>2, <1>q, <1>t DEF SameShown, TabType
    <2>3. CASE tab' = [out EXCEPT !.sel = NoBook, !.list = {}] /\ Ends(s)
      <3>1. tab'.open = NoPage /\ tab'.list = {}
        BY <2>3, <1>t DEF TabType
      <3>2. Others(s) /\ calls'[s] = Idle
        BY <2>3, EndsAt
      <3>3. \A t \in Slots : Own(calls'[t])
        BY <3>2, <1>o DEF Sealing, Others
      <3>4. \A t \in Slots : Own(calls[t])'
        BY <2>1, <3>3 DEF Own, OfItsOwn
      <3> QED BY <2>1, <3>1, <3>4 DEF Sealing, OnlyItsOwn, SealedUnderOwn
    <2>4. ASSUME NEW next \in c.got \ {c.nb}, tab' = [out EXCEPT !.latest = @ + 1, !.loading = next],
                 Enters(s, Load(next, c.cap, NoPage, "delete", out))
          PROVE  Sealing'
      <3>1. next \in Books /\ NoPage \in PageOrNone /\ "delete" \in Origins /\ out \in TabType /\ out.open = NoPage
        BY <1>18, <1>t DEF deleted, Shape, PageOrNone, Origins, TabType
      <3>2. SameShown
        BY <2>4, <1>t DEF SameShown, TabType
      <3> DEFINE d == Load(next, c.cap, NoPage, "delete", out)
      <3> HIDE DEF out
      <3>3. d.op = "load" /\ d.pc = "left"
        BY <3>1, <1>t, LoadIs
      <3>4. Others(s) /\ calls'[s] = d
        BY <2>4, EntersAt DEF out
      <3> HIDE DEF d
      <3>5. Own(calls'[s])
        BY <3>3, <3>4 DEF Own
      <3> QED BY <2>1, <3>2, <3>4, <3>5, QuietSealing
    <2> QED BY <1>18, <2>2, <2>3, <2>4 DEF deleted
  <1>19. CASE migrateNext(s)
    <2>1. Others(s) /\ calls'[s].op = c.op
      BY <1>19, <1>t DEF migrateNext, CallsTyped, CallType, Others
    <2>2. Own(calls'[s])
      BY <1>19, <2>1, <1>t DEF migrateNext, Own
    <2> QED BY <1>19, <2>1, <2>2, QuietSealing DEF migrateNext, SameShown
  <1>20. CASE pinPage(s)
    <2>1. \E flag : calls' = [calls EXCEPT ![s].pc = "next", ![s].flag = flag]
      BY <1>20 DEF pinPage
    <2>2. Others(s) /\ calls'[s].op = "migrate"
      BY <1>20, <2>1, <1>t DEF pinPage, CallsTyped, CallType, Others
    <2>3. Own(calls'[s])
      BY <2>2 DEF Own
    <2>4. c.cap = Home[c.page]
      BY <1>20, <1>t DEF pinPage, Shape
    <2>5. hist' = hist /\ UNCHANGED tab
      BY <1>20, <2>4 DEF pinPage, Sealed
    <2> QED BY <2>2, <2>3, <2>5, QuietSealing DEF SameShown
  <1>21. CASE migrated(s)
    BY <1>21, <1>q DEF migrated, SameShown
  <1>22. CASE routeOpened(s)
    <2>1. tab'.sel = tab.sel /\ tab'.list = tab.list
      BY <1>22, <1>t DEF routeOpened, TabType
    <2>2. tab'.open = tab.open \/ (tab'.open = c.page /\ Here = c.nb)
      BY <1>22, <1>t DEF routeOpened, TabType
    <2>3. OfItsOwn(c.page, c.nb)
      BY <1>22, <1>t DEF routeOpened, Shape, OfItsOwn
    <2>4. Others(s) /\ Own(calls'[s])
      <3>1. Others(s) /\ calls'[s].pc = "role" /\ calls'[s].op = "load"
        BY <1>22, GoesAt DEF routeOpened
      <3> QED BY <3>1 DEF Own
    <2> QED BY <1>22, <2>1, <2>2, <2>3, <2>4, <1>t, ShownSealing DEF routeOpened
  <1> QED
    BY <1>1, <1>2, <1>3, <1>4, <1>5, <1>6, <1>7, <1>8, <1>9, <1>10, <1>11, <1>12, <1>13, <1>14, <1>15, <1>16,
       <1>17, <1>18, <1>19, <1>20, <1>21, <1>22
    DEF Continue, Answered

LEMMA NextSealing == Types /\ Loads /\ Stored /\ Sealing /\ [Next]_vars => Sealing'
  <1> SUFFICES ASSUME Types, Loads, Stored, Sealing, [Next]_vars PROVE Sealing'
    OBVIOUS
  <1>1. CASE UNCHANGED vars
    BY <1>1 DEF vars, Sealing, OnlyItsOwn, SealedUnderOwn, Own, OfItsOwn
  <1> QED BY <1>1, UserSealing, StepSealing DEF Next, Step, Rest

-----------------------------------------------------------------------------
(* The theorems *)

LEMMA InitInvariants == Init => Loads /\ Stored /\ Sealing
  <1> SUFFICES ASSUME Init PROVE Loads /\ Stored /\ Sealing
    OBVIOUS
  <1>1. \A s \in Slots : calls[s].op \in {"none", "list"} /\ calls[s].pc # "flush"
    BY DEF Init, Idle
  <1>2. Loads
    BY <1>1 DEF Init, Loads, IsLoad, Newest
  <1>3. Stored
    BY <1>1, NavBounds DEF Init, Stored, Pinning, MarkedIsPinned, Held
  <1>4. Sealing
    BY <1>1 DEF Init, Sealing, OnlyItsOwn, SealedUnderOwn, Own
  <1> QED BY <1>2, <1>3, <1>4

(* The parts hold together: each step keeps all four. *)
LEMMA NavInvariant == Spec => [](Types /\ Loads /\ Stored /\ Sealing)
  <1>1. Init => Types /\ Loads /\ Stored /\ Sealing
    BY InitTypes, InitInvariants
  <1>2. Types /\ Loads /\ Stored /\ Sealing /\ [Next]_vars => (Types /\ Loads /\ Stored /\ Sealing)'
    BY NextTypes, NextLoads, NextStored, NextSealing
  <1> QED BY <1>1, <1>2, PTL DEF Spec

(* However the clicks of one tab overlap, the pages it lists and the page  *)
(* it lets the user edit are of the notebook it shows.                     *)
THEOREM TabShowsItsOwn == Spec => []OnlyItsOwn
  BY NavInvariant, PTL DEF Sealing

(* Saves seal a page under its own notebook's key, except those of the     *)
(* functions that open a notebook after a wait (newWorkspace, joinTeam,    *)
(* afterIdentityChange), of selectNote at the end of a load, and of pages  *)
(* opened before their notebook was shown.                                 *)
THEOREM SavesSealUnderOwn == Spec => []SealedUnderOwn
  BY NavInvariant, PTL DEF Sealing

(* With no load under way the tab shows the notebook asked for last.       *)
THEOREM LastClickWins == Spec => []LastChoiceShown
  <1>1. Loads => LastChoiceShown
    BY DEF Loads, Newest, IsLoad, LastChoiceShown
  <1> QED BY <1>1, NavInvariant, PTL

(* The migration marker stands only on a notebook whose pages all carry    *)
(* their pins, however the pass was interrupted.                           *)
THEOREM MarkerIsCommitPoint == Spec => []MarkedIsPinned
  BY NavInvariant, PTL DEF Stored
================================================================================
