------------------------------- MODULE Outline -------------------------------
(***************************************************************************)
(* The outline of one notebook (web/src/outline.ts, order.ts, pages.ts and *)
(* the moves of main.tsx): pages in sections, sections and groups in       *)
(* groups, ordered by fractional keys and indented by levels.  Several     *)
(* tabs edit it, each from the copy it loaded; tabs of one browser share   *)
(* its queue.  A move is one write per object, each checked against the    *)
(* version it was made from, so a move may be stored in part; a write is   *)
(* kept as a draft and stored in one step and answered in another.  The    *)
(* order, the levels and the group tree shown are computed from whatever   *)
(* was stored.                                                             *)
(*                                                                         *)
(* Bounds: Base and MaxKey stand for the 36 digits and the 512 characters  *)
(* of an order key, MaxDepth for MAX_GROUP_DEPTH, MaxOps for the user's    *)
(* operations, opening the notebook again among them, MaxFaults for        *)
(* requests or answers that are lost, MaxDrains for passes over a queue.   *)
(* A tab runs one page move and one change of sections or groups at a time.*)
(***************************************************************************)
EXTENDS Integers, Sequences, FiniteSets, SequencesExt, FiniteSetsExt

CONSTANTS Tabs, Browsers, Pages, Sections, Groups, Base, MaxKey, MaxDepth, MaxOps, MaxFaults, MaxDrains,
          OpenPages,      \* the pages a tab has open when they are moved
          Starts          \* notebooks to start from: [Objects -> entry, Unborn or None]

ASSUME OutlineBounds ==
    /\ Base \in Nat \ {0, 1, 2} /\ MaxKey \in Nat \ {0} /\ MaxDepth \in Nat \ {0}
    /\ Pages \cap Sections = {} /\ Sections \cap Groups = {} /\ Pages \cap Groups = {}
    /\ Pages \cup Sections \cup Groups \subseteq Nat \ {0}

VARIABLES
    browser,    \* the browser each tab runs in
    srv,        \* the server's newest version of every object
    seal,       \* whose bytes that version holds: the browser and the user's operation
    live,       \* objects that exist on the server
    view,       \* each tab's loaded list: [known, e]
    loading,    \* the objects a tab has read and not yet shown
    move,       \* each tab's page move: the updates left, and what was asked
    work,       \* each tab's change of sections and groups
    drains,     \* drafts each tab's drain has read and not yet sent
    sent,       \* the write in flight on each tab's moveChain and saveChain
    queue,      \* each browser's unsent drafts
    ops, faults, passes

vars == <<browser, srv, seal, live, view, loading, move, work, drains, sent, queue, ops, faults, passes>>

server == <<srv, seal, live>>
chains == <<drains, sent, passes>>

MaxLevel == 2
Top == 0                \* Quick Notes for a page, the notebook's root for a section or group
Folders == Sections \cup Groups
Objects == Pages \cup Folders
NoOrder == <<>>
NoKey == <<0>>          \* keyBetween threw: no key ends in the digit 0
Unborn == [ver |-> -1, in |-> Top, order |-> NoOrder, level |-> 0]
None == [Unborn EXCEPT !.ver = -2]

-----------------------------------------------------------------------------
(* order.ts *)

Less(a, b) ==
    \E i \in 1..Len(b) :
        /\ \A j \in 1..(i - 1) : j <= Len(a) /\ a[j] = b[j]
        /\ i > Len(a) \/ a[i] < b[i]

RECURSIVE KeyFrom(_, _, _, _)
KeyFrom(before, after, open, out) ==
    LET i    == Len(out) + 1
        low  == IF i <= Len(before) THEN before[i] ELSE 0
        high == IF open THEN Base ELSE after[i]
        pick == IF before # NoOrder /\ after = NoOrder THEN low + 1
                ELSE IF before = NoOrder /\ after # NoOrder THEN high - 1
                ELSE (low + high) \div 2
    IN  IF low = high THEN KeyFrom(before, after, open, Append(out, low))
        ELSE IF low < pick /\ pick < high THEN Append(out, pick)
        ELSE KeyFrom(before, after, TRUE, Append(out, low))

(* Strictly between the two, or NoKey: out of order, or too long. *)
keyBetween(before, after) ==
    IF after # NoOrder /\ ~Less(before, after) THEN NoKey
    ELSE LET key == KeyFrom(before, after, after = NoOrder, <<>>)
         IN  IF Len(key) > MaxKey THEN NoKey ELSE key

Renumbered(list) ==
    LET R[i \in 1..Len(list)] == keyBetween(IF i = 1 THEN NoOrder ELSE R[i - 1], NoOrder)
    IN  SubSeq(R, 1, Len(list))

-----------------------------------------------------------------------------
(* pages.ts *)

(* compareOrdered: by key, then by id; objects without a key come last. *)
Precedes(e, a, b) ==
    IF e[a].order # NoOrder /\ e[b].order # NoOrder /\ e[a].order # e[b].order
    THEN Less(e[a].order, e[b].order)
    ELSE IF (e[a].order = NoOrder) # (e[b].order = NoOrder) THEN e[a].order # NoOrder
    ELSE a < b

Sorted(e, set) ==
    LET n == Cardinality(set)
    IN  SubSeq([i \in 1..n |-> CHOOSE o \in set : Cardinality({a \in set : Precedes(e, a, o)}) = i - 1], 1, n)

IndexIn(list, o) == CHOOSE i \in DOMAIN list : list[i] = o

(* Quick Notes holds pages with no section or one that no longer exists. *)
pageSection(v, p) == IF v.e[p].in \in Sections \cap v.known THEN v.e[p].in ELSE Top

pagesInSection(v, section) ==
    Sorted(v.e, {p \in Pages \cap v.known : pageSection(v, p) = section})

endOrder(e, set) ==
    LET keys == {e[o].order : o \in set} \ {NoOrder}
        last == IF keys = {} THEN NoOrder ELSE CHOOSE k \in keys : \A j \in keys \ {k} : Less(j, k)
    IN  keyBetween(last, NoOrder)

Update(id, order, level) == [id |-> id, order |-> order, level |-> level]
Keep == -1              \* an update that leaves the level alone
Written(list, updates) == SubSeq(updates, 1, Len(list))     \* one update per entry, in order

InsertedAt(list, at, block) == SubSeq(list, 1, at) \o block \o SubSeq(list, at + 1, Len(list))

(* One key between the new neighbours, or the whole list numbered again. *)
reorder(e, list, moved, at) ==
    LET rest   == SelectSeq(list, LAMBDA o : o # moved)
        before == IF at = 0 THEN NoOrder ELSE e[rest[at]].order
        after  == IF at = Len(rest) THEN NoOrder ELSE e[rest[at + 1]].order
        key    == IF \A o \in Range(rest) : e[o].order # NoOrder THEN keyBetween(before, after) ELSE NoKey
        all    == InsertedAt(rest, at, <<moved>>)
        new    == Renumbered(all)
    IN  IF key # NoKey THEN <<Update(moved, key, Keep)>>
        ELSE Written(all, [i \in 1..Len(all) |-> Update(all[i], new[i], Keep)])

-----------------------------------------------------------------------------
(* outline.ts: levels and blocks *)

nests(e, list, i) == i > 1 /\ e[list[i]].in = e[list[i - 1]].in

displayLevels(e, list) ==
    LET L[i \in 1..Len(list)] == IF nests(e, list, i) THEN Min({e[list[i]].level, MaxLevel, L[i - 1] + 1}) ELSE 0
    IN  SubSeq(L, 1, Len(list))

(* The last index of the block headed by i. *)
blockEnd(levels, i) ==
    Max({j \in i..Len(levels) : \A k \in (i + 1)..j : levels[k] > levels[i]})

shiftAllowed(e, list, i, delta) ==
    LET levels == displayLevels(e, list)
        next   == levels[i] + delta
    IN  next \in 0..MaxLevel /\ (delta = 1 => nests(e, list, i) /\ next <= levels[i - 1] + 1)

(* Mutant: neighbours with the same key are not noticed. *)
placeBlockTied(e, target, block, blockLevels, at) ==
    LET prev == IF at = 0 THEN NoOrder ELSE e[target[at]].order
        key  == keyBetween(prev, NoOrder)
    IN  [i \in 1..Len(block) |-> Update(block[i], key, blockLevels[i])]

(* Mutant: every page of the block takes its head's new level. *)
placeBlockFlat(e, target, block, blockLevels, at) ==
    LET head == Min({blockLevels[1], IF at = 0 THEN 0 ELSE displayLevels(e, target)[at] + 1})
        all  == InsertedAt(target, at, block)
    IN  [i \in 1..Len(all) |->
           Update(all[i], Renumbered(all)[i], IF i \in (at + 1)..(at + Len(block)) THEN head ELSE Keep)]

(* The block keeps its relative levels, its head clamped to the new spot;  *)
(* its keys go between the neighbours, or the list is numbered again.      *)
placeBlock(e, target, block, blockLevels, at) ==
    LET head == Min({blockLevels[1], IF at = 0 THEN 0 ELSE displayLevels(e, target)[at] + 1})
        level(i) == Min({MaxLevel, Max({0, blockLevels[i] - blockLevels[1] + head})})
        prev == IF at = 0 THEN NoOrder ELSE e[target[at]].order
        next == IF at = Len(target) THEN NoOrder ELSE e[target[at + 1]].order
        K[i \in 1..Len(block)] ==
            LET low == IF i = 1 THEN prev ELSE K[i - 1]
            IN  IF low = NoKey THEN NoKey ELSE keyBetween(low, next)
        fits == (\A o \in Range(target) : e[o].order # NoOrder) /\ K[Len(block)] # NoKey
        all  == InsertedAt(target, at, block)
        new  == Renumbered(all)
    IN  IF fits THEN Written(block, [i \in 1..Len(block) |-> Update(block[i], K[i], level(i))])
        ELSE Written(all, [i \in 1..Len(all) |->
               Update(all[i], new[i], IF i \in (at + 1)..(at + Len(block)) THEN level(i - at) ELSE Keep)])

-----------------------------------------------------------------------------
(* outline.ts: the group tree *)

RECURSIVE Walk(_, _, _)
Walk(raw, current, seen) ==
    IF current \notin DOMAIN raw \/ current \in seen \/ Cardinality(seen) > MaxDepth
    THEN [current |-> current, seen |-> seen]
    ELSE Walk(raw, raw[current], seen \cup {current})

(* Mutant: the depth of a chain is not looked at. *)
groupParentsDeep(v) ==
    LET raw == [g \in Groups \cap v.known |-> v.e[g].in]
    IN  [g \in DOMAIN raw |->
           LET end == Walk(raw, raw[g], {g})
           IN  IF raw[g] \in DOMAIN raw /\ end.current \notin end.seen THEN raw[g] ELSE Top]

(* A missing parent, a cycle or too deep a chain puts the group at the root. *)
groupParents(v) ==
    LET raw == [g \in Groups \cap v.known |-> v.e[g].in]
    IN  [g \in DOMAIN raw |->
           LET end == Walk(raw, raw[g], {g})
           IN  IF /\ raw[g] \in DOMAIN raw
                  /\ end.current \notin end.seen
                  /\ Cardinality(end.seen) <= MaxDepth
               THEN raw[g] ELSE Top]

sectionGroup(v, s) == IF v.e[s].in \in Groups \cap v.known THEN v.e[s].in ELSE Top

RECURSIVE Above(_, _, _)
Above(parents, g, path) ==
    IF g \notin DOMAIN parents \/ Cardinality(path) > MaxDepth THEN path
    ELSE Above(parents, parents[g], path \cup {g})

groupPath(parents, g) == Above(parents, g, {})

RECURSIVE subtreeHeight(_, _)
subtreeHeight(parents, g) ==
    1 + Max({0} \cup {subtreeHeight(parents, h) : h \in {h \in DOMAIN parents : parents[h] = g}})

(* Mutant: the groups below the moved one are not counted. *)
groupMoveAllowedAlone(g, target, parents) ==
    g \notin groupPath(parents, target) /\ Cardinality(groupPath(parents, target)) + 1 <= MaxDepth

groupMoveAllowed(g, target, parents) ==
    /\ g \notin groupPath(parents, target)
    /\ Cardinality(groupPath(parents, target)) + subtreeHeight(parents, g) <= MaxDepth

(* Sections or groups shown directly inside a group, in order. *)
siblings(v, kind, parent) ==
    Sorted(v.e, {o \in kind \cap v.known :
                   parent = IF kind = Groups THEN groupParents(v)[o] ELSE sectionGroup(v, o)})

KindOf(o) == CHOOSE kind \in {Pages, Sections, Groups} : o \in kind
ParentOf(v, o) == IF o \in Groups THEN groupParents(v)[o] ELSE sectionGroup(v, o)

-----------------------------------------------------------------------------
(* Writing one object *)

Lanes == {"move", "save"}
NoMove == [todo |-> <<>>, no |-> 0, in |-> Top, list |-> <<>>, as |-> <<>>, block |-> {}, shape |-> <<>>, shifts |-> {}, open |-> FALSE]
NoWork == [todo |-> <<>>, no |-> 0, kind |-> "none", g |-> Top, up |-> Top, held |-> {}, left |-> {}]
NoSeal == <<>>
NoDraft == [e |-> None, seal |-> NoSeal, mark |-> "none"]
NoSend == [id |-> Top, draft |-> NoDraft, by |-> "none", answer |-> "none"]

Init ==
    /\ browser \in [Tabs -> Browsers]
    /\ srv \in Starts /\ live = {o \in Objects : srv[o].ver >= 0} /\ seal = [o \in Objects |-> NoSeal]
    /\ view = [t \in Tabs |-> [known |-> {o \in live : srv[o].ver > 0}, e |-> srv]]
    /\ loading = [t \in Tabs |-> {}]
    /\ move = [t \in Tabs |-> NoMove] /\ work = [t \in Tabs |-> NoWork]
    /\ drains = [t \in Tabs |-> <<>>] /\ sent = [t \in Tabs |-> [l \in Lanes |-> NoSend]]
    /\ queue = [b \in Browsers |-> [o \in Objects |-> NoDraft]]
    /\ ops = 0 /\ faults = 0 /\ passes = 0

Queued(t, o) == queue[browser[t]][o]
sameDraft(a, b) == a.e # None /\ a.seal = b.seal /\ a.e.ver = b.e.ver

(* Bytes already queued for this version and these contents are sent again. *)
prepareObjectDraft(t, o, e, no) ==
    IF Queued(t, o).e = e /\ Queued(t, o).mark # "gone" THEN Queued(t, o)
    ELSE [e |-> e, seal |-> <<browser[t], no>>, mark |-> "none"]

Idle(t, lane) == sent[t][lane] = NoSend /\ (lane = "save" => drains[t] = <<>>)

(* The server takes a version only from the one before it; the bytes it    *)
(* holds already are answered as saved.                                    *)
Answer(o, draft) ==
    IF o \notin live THEN "gone"
    ELSE IF srv[o].ver = draft.e.ver \/ (srv[o].ver = draft.e.ver + 1 /\ seal[o] = draft.seal) THEN "saved"
    ELSE "version_conflict"

Stored(e) == [e EXCEPT !.ver = @ + 1]

(* A request the server handles, or that never reaches it; its answer is   *)
(* still to come.                                                          *)
sendObject(t, lane, o, by, draft) ==
    \E answer \in {Answer(o, draft), "offline"} :
        /\ answer = "offline" => faults < MaxFaults
        /\ faults' = IF answer = "offline" THEN faults + 1 ELSE faults
        /\ sent' = [sent EXCEPT ![t][lane] = [id |-> o, draft |-> draft, by |-> by, answer |-> answer]]
        /\ srv' = IF answer = "saved" THEN [srv EXCEPT ![o] = Stored(draft.e)] ELSE srv
        /\ seal' = IF answer = "saved" THEN [seal EXCEPT ![o] = draft.seal] ELSE seal

(* writeObject and saveNow: the draft is queued before it is sent. *)
writeObject(t, lane, o, by, draft) ==
    /\ queue' = [queue EXCEPT ![browser[t]][o] = draft]
    /\ sendObject(t, lane, o, by, draft)

(* The answer of a request the server handled is lost. *)
Lose(t, lane) ==
    /\ sent[t][lane] # NoSend /\ sent[t][lane].answer # "offline" /\ faults < MaxFaults
    /\ sent' = [sent EXCEPT ![t][lane].answer = "offline"]
    /\ faults' = faults + 1
    /\ UNCHANGED <<browser, server, view, loading, move, work, drains, queue, ops, passes>>

(* Mutant: after a conflict the entry takes the server's version and keeps its own placement. *)
CarriedAdopting(t, s) ==
    [view EXCEPT ![t].e[s.id].ver = IF s.answer \in {"saved", "version_conflict"} THEN srv[s.id].ver ELSE @]

(* carrySaved, carryVersions: a saved version is carried onto the listed   *)
(* entry, or onto the one a load has read; a folder's is set as answered.  *)
Carried(t, s) ==
    [view EXCEPT ![t].e[s.id].ver =
       IF s.answer # "saved" THEN @
       ELSE IF s.id \in Folders \cap view[t].known THEN s.draft.e.ver + 1 ELSE Max({@, s.draft.e.ver + 1})]

(* An accepted draft leaves the queue and a refused one is marked, both    *)
(* only while it is the one queued; any other failed write is queued again *)
(* (queueSave) whatever another tab queued meanwhile.                      *)
Settled(t, s) ==
    LET same == sameDraft(Queued(t, s.id), s.draft)
        next == CASE s.answer = "saved" -> IF same THEN NoDraft ELSE Queued(t, s.id)
                  [] s.answer = "version_conflict" \/ (s.answer = "gone" /\ s.by = "drain") ->
                       IF same THEN [s.draft EXCEPT !.mark = IF s.answer = "gone" THEN "gone" ELSE "conflicted"]
                       ELSE Queued(t, s.id)
                  [] OTHER -> IF s.by = "drain" THEN Queued(t, s.id) ELSE s.draft
    IN  [queue EXCEPT ![browser[t]][s.id] = next]

-----------------------------------------------------------------------------
(* Moving pages *)

(* Alt+Arrow and drag: before which row of its list a block may go. *)
siblingMove(levels, i, delta) ==
    LET up   == {j \in 1..(i - 1) : \A k \in (j + 1)..(i - 1) : levels[k] > levels[i]}
        next == blockEnd(levels, i) + 1
    IN  IF delta = -1 THEN {j \in up : levels[j] = levels[i] /\ \A k \in up : k >= j \/ levels[k] > levels[i]}
        ELSE {blockEnd(levels, j) + 1 : j \in {next} \cap {j \in DOMAIN levels : levels[j] = levels[i]}}

dropBefore(levels, from, at) ==
    IF at \in from..blockEnd(levels, from) THEN {}
    ELSE IF at < from THEN {at} ELSE {blockEnd(levels, at) + 1}

Spots(levels, i) ==
    UNION ({siblingMove(levels, i, delta) : delta \in {-1, 1}} \cup {dropBefore(levels, i, at) : at \in DOMAIN levels})

(* What a move asks for: its writes, and the list and placements they make. *)
Asked(v, target, list, at, block, shape, todo) ==
    LET of(o)  == CHOOSE i \in DOMAIN todo : todo[i].id = o
        placed == {todo[i].id : i \in DOMAIN todo}
    IN  [NoMove EXCEPT !.todo = todo, !.no = ops + 1, !.in = target, !.list = InsertedAt(list, at, block), !.block = Range(block),
         !.as = [o \in Range(list) \cup Range(block) |->
                   [in    |-> IF o \in Range(block) THEN target ELSE v.e[o].in,
                    order |-> IF o \in placed THEN todo[of(o)].order ELSE v.e[o].order,
                    level |-> IF o \in placed /\ todo[of(o)].level # Keep THEN todo[of(o)].level ELSE v.e[o].level]],
         !.shape = shape, !.shifts = -MaxLevel..0]

(* movePage: the page and its subpages, before a row or at a section's end. *)
MoveTo(v, p, target, source, levels, spot) ==
    LET start  == IndexIn(source, p)
        end    == blockEnd(levels, start)
        block  == SubSeq(source, start, end)
        list   == SelectSeq(pagesInSection(v, target), LAMBDA o : o \notin Range(block))
        at     == IF spot \in DOMAIN source THEN IndexIn(list, source[spot]) - 1 ELSE Len(list)
    IN  Asked(v, target, list, at, block, SubSeq(levels, start, end),
              placeBlock(v.e, list, block, SubSeq(levels, start, end), at))

movePage(t, p, target) ==
    /\ p \in view[t].known /\ move[t] = NoMove /\ ops < MaxOps
    /\ target \in (Sections \cap view[t].known) \cup {Top}
    /\ \E source \in {pagesInSection(view[t], pageSection(view[t], p))} :
       \E levels \in {displayLevels(view[t].e, source)} :
       \E spot \in IF target = pageSection(view[t], p) THEN Spots(levels, IndexIn(source, p)) ELSE {0} :
         move' = [move EXCEPT ![t] = MoveTo(view[t], p, target, source, levels, spot)]
    /\ ops' = ops + 1
    /\ UNCHANGED <<browser, server, view, loading, work, chains, queue, faults>>

indentPage(t, p, delta) ==
    LET e == view[t].e
    IN  /\ p \in view[t].known /\ move[t] = NoMove /\ ops < MaxOps
        /\ \E list \in {pagesInSection(view[t], pageSection(view[t], p))} :
           \E next \in {displayLevels(e, list)[IndexIn(list, p)] + delta} :
             /\ shiftAllowed(e, list, IndexIn(list, p), delta)
             /\ move' = [move EXCEPT ![t] =
                  [NoMove EXCEPT !.todo = <<Update(p, e[p].order, next)>>, !.no = ops + 1, !.in = e[p].in, !.list = list, !.block = {p},
                   !.as = [o \in Range(list) |-> [in |-> e[o].in, order |-> e[o].order, level |-> IF o = p THEN next ELSE e[o].level]],
                   !.shape = <<next>>, !.shifts = {0}]]
        /\ ops' = ops + 1
        /\ UNCHANGED <<browser, server, view, loading, work, chains, queue, faults>>

(* placePage: the next update of the move is shown and sent at once, next  *)
(* to whatever runs on saveChain; the open page's goes through save, behind *)
(* it.  A failed write does not stop the move, a page not listed is passed. *)
Placed(t) ==
    LET u == Head(move[t].todo)
    IN  [view EXCEPT ![t].e[u.id].order = u.order, ![t].e[u.id].level = IF u.level = Keep THEN @ ELSE u.level,
                     ![t].e[u.id].in = IF u.id \in move[t].block THEN move[t].in ELSE @]

RestOf(m) == IF Len(m.todo) = 1 THEN NoMove ELSE [m EXCEPT !.todo = Tail(@), !.open = FALSE]
Sending(t, by) == \E l \in Lanes : sent[t][l].by = by
Placing(t) == move[t] # NoMove /\ ~move[t].open /\ ~Sending(t, "move")

placePage(t) ==
    LET o == Head(move[t].todo).id
    IN  /\ Placing(t) /\ o \in view[t].known \ OpenPages
        /\ view' = Placed(t)
        /\ \E draft \in {prepareObjectDraft(t, o, view'[t].e[o], move[t].no)} : writeObject(t, "move", o, "move", draft)
        /\ UNCHANGED <<browser, live, loading, move, work, drains, ops, passes>>

placeOpenPage(t) ==
    /\ Placing(t) /\ Head(move[t].todo).id \in view[t].known \cap OpenPages
    /\ view' = Placed(t)
    /\ move' = [move EXCEPT ![t].open = TRUE]
    /\ UNCHANGED <<browser, server, loading, work, chains, queue, ops, faults>>

saveOpenPage(t) ==
    LET o == Head(move[t].todo).id
    IN  /\ move[t].open /\ ~Sending(t, "move") /\ Idle(t, "save")
        /\ writeObject(t, "save", o, "move", prepareObjectDraft(t, o, view[t].e[o], move[t].no))
        /\ UNCHANGED <<browser, live, view, loading, move, work, drains, ops, passes>>

passPage(t) ==
    /\ Placing(t) /\ Head(move[t].todo).id \notin view[t].known
    /\ move' = [move EXCEPT ![t] = RestOf(@)]
    /\ UNCHANGED <<browser, server, view, loading, work, chains, queue, ops, faults>>

-----------------------------------------------------------------------------
(* Sections and groups *)

Change(o, in, order) == [id |-> o, in |-> in, order |-> order]
Same == <<-1>>          \* a change that leaves the order alone

Changed(e, c) ==
    [e EXCEPT !.in = IF c.in = Keep THEN @ ELSE c.in, !.order = IF c.order = Same THEN @ ELSE c.order]

(* updateStructure shows a change when it is asked, before its write runs. *)
Patched(v, todo) ==
    IF todo = <<>> \/ Head(todo).id \notin v.known THEN v
    ELSE [v EXCEPT !.e[Head(todo).id] = Changed(@, Head(todo))]

Ready(t) == work[t] = NoWork /\ loading[t] = {} /\ ops < MaxOps
StartWork(t, v, w) ==
    /\ ops' = ops + 1
    /\ work' = [work EXCEPT ![t] = [w EXCEPT !.no = ops + 1]]
    /\ view' = [view EXCEPT ![t] = Patched(v, w.todo)]

Parents(t) == groupParents(view[t])
Rooms(t, o) == ((Groups \cap view[t].known) \ {o}) \cup {Top}

(* newNote and newStructure: the row is created before anything is listed. *)
newObject(t, o, in) ==
    LET peers == IF o \in Pages THEN Range(pagesInSection(view[t], in)) ELSE Range(siblings(view[t], KindOf(o), in))
        order == endOrder(view[t].e, peers)
        e     == [ver |-> 0, in |-> in, order |-> order, level |-> 0]
    IN  /\ srv[o] = Unborn /\ Ready(t)
        /\ in \in IF o \in Pages THEN (Sections \cap view[t].known) \cup {Top} ELSE Rooms(t, o)
        /\ order # NoKey
        /\ StartWork(t, [view[t] EXCEPT !.known = @ \cup {o}, !.e[o] = e],
                     [NoWork EXCEPT !.todo = <<Change(o, Keep, Same)>>, !.kind = "new"])
        /\ srv' = [srv EXCEPT ![o] = [Unborn EXCEPT !.ver = 0]] /\ live' = live \cup {o}
        /\ UNCHANGED <<browser, seal, loading, move, chains, queue, faults>>

(* removeSection: its pages keep naming it and show under Quick Notes. *)
removeSection(t, s) ==
    /\ s \in view[t].known /\ ops < MaxOps /\ ops' = ops + 1
    /\ s \in live /\ live' = live \ {s}
    /\ view' = [view EXCEPT ![t].known = @ \ {s}]
    /\ queue' = [queue EXCEPT ![browser[t]][s] = NoDraft]
    /\ UNCHANGED <<browser, srv, seal, loading, move, work, chains, faults>>

moveIntoGroup(t, o, target) ==
    LET order == endOrder(view[t].e, Range(siblings(view[t], KindOf(o), target)) \ {o})
    IN  /\ Ready(t) /\ o \in view[t].known /\ target \in Rooms(t, o) /\ target # ParentOf(view[t], o)
        /\ o \in Groups => groupMoveAllowed(o, target, Parents(t))
        /\ order # NoKey
        /\ StartWork(t, view[t], [NoWork EXCEPT !.todo = <<Change(o, target, order)>>, !.kind = "into"])
        /\ UNCHANGED <<browser, server, loading, move, chains, queue, faults>>

moveStructure(t, o) ==
    /\ Ready(t) /\ o \in view[t].known
    /\ \E list \in {siblings(view[t], KindOf(o), ParentOf(view[t], o))} :
       \E at \in {i \in 1..Len(list) : list[i] # o} :
       \E updates \in {reorder(view[t].e, list, o, at - 1)} :
         StartWork(t, view[t], [NoWork EXCEPT !.todo = [i \in DOMAIN updates |-> Change(updates[i].id, Keep, updates[i].order)],
                                     !.kind = "order"])
    /\ UNCHANGED <<browser, server, loading, move, chains, queue, faults>>

(* Each child moves up one level: sections, then groups, then the delete. *)
Children(v, kind, g, up) ==
    LET list == siblings(v, kind, g) IN [i \in DOMAIN list |-> Change(list[i], up, Same)]

removeGroup(t, g) ==
    /\ Ready(t) /\ g \in view[t].known
    /\ StartWork(t, view[t],
                 [NoWork EXCEPT !.todo = Children(view[t], Sections, g, Parents(t)[g]), !.kind = "sections", !.g = g,
                                !.up = Parents(t)[g], !.held = {o \in Folders \cap view[t].known : ParentOf(view[t], o) = g}])
    /\ UNCHANGED <<browser, server, loading, move, chains, queue, faults>>

(* Mutant: the removal goes on after a child's write failed. *)
GoesOnAnyway(w, answer) == TRUE

(* A new order's writes go on; a removal stops at a write that was not saved. *)
GoesOn(w, answer) == w.kind = "order" \/ answer = "saved"

(* The change after a write: its next one is shown, or it is over. *)
Continued(w, answer) ==
    IF ~GoesOn(w, answer) \/ (Len(w.todo) = 1 /\ w.g = Top) THEN NoWork
    ELSE [w EXCEPT !.todo = Tail(@), !.left = IF answer = "saved" THEN @ \cup {Head(w.todo).id} ELSE @]

(* updateStructure: the write behind saveChain, from the newest local copy. *)
updateStructure(t) ==
    LET o == Head(work[t].todo).id
    IN  /\ work[t].todo # <<>> /\ o \in view[t].known /\ Idle(t, "save")
        /\ writeObject(t, "save", o, "work", prepareObjectDraft(t, o, view[t].e[o], work[t].no))
        /\ UNCHANGED <<browser, live, view, loading, move, work, drains, ops, passes>>

passStructure(t) ==
    /\ work[t].todo # <<>> /\ Head(work[t].todo).id \notin view[t].known /\ Idle(t, "save")
    /\ work' = [work EXCEPT ![t] = Continued(@, "missing")]
    /\ view' = [view EXCEPT ![t] = Patched(@, work'[t].todo)]
    /\ UNCHANGED <<browser, server, loading, move, chains, queue, ops, faults>>

removeGroups(t) ==
    /\ work[t].kind = "sections" /\ work[t].todo = <<>>
    /\ work' = [work EXCEPT ![t].kind = "groups", ![t].todo = Children(view[t], Groups, work[t].g, work[t].up)]
    /\ view' = [view EXCEPT ![t] = Patched(@, work'[t].todo)]
    /\ UNCHANGED <<browser, server, loading, move, chains, queue, ops, faults>>

removeEmptied(t) ==
    LET g == work[t].g
    IN  /\ work[t].kind = "groups" /\ work[t].todo = <<>>
        /\ work' = [work EXCEPT ![t] = NoWork]
        /\ live' = live \ {g}
        /\ IF g \in live THEN /\ view' = [view EXCEPT ![t].known = @ \ {g}]
                               /\ queue' = [queue EXCEPT ![browser[t]][g] = NoDraft]
           ELSE UNCHANGED <<view, queue>>
        /\ UNCHANGED <<browser, srv, seal, loading, move, chains, ops, faults>>

-----------------------------------------------------------------------------
(* Background work *)

(* drainNow: the browser's drafts, read once; marked ones are not sent. *)
drainQueue(t) ==
    LET due == {o \in Objects : Queued(t, o).e # None /\ Queued(t, o).mark = "none"}
    IN  /\ due # {} /\ Idle(t, "save") /\ passes < MaxDrains /\ passes' = passes + 1
        /\ drains' = [drains EXCEPT ![t] = LET list == SetToSortSeq(due, <) IN [i \in DOMAIN list |-> [id |-> list[i], draft |-> Queued(t, list[i])]]]
        /\ UNCHANGED <<browser, server, view, loading, move, work, sent, queue, ops, faults>>

drainNow(t) ==
    LET next == Head(drains[t])
    IN  /\ drains[t] # <<>> /\ sent[t]["save"] = NoSend
        /\ sendObject(t, "save", next.id, "drain", next.draft)
        /\ drains' = [drains EXCEPT ![t] = Tail(@)]
        /\ UNCHANGED <<browser, live, view, loading, move, work, queue, ops, passes>>

(* The answer reaches the tab: the queue, the version shown, what comes next. *)
Answered(t, lane) ==
    LET s == sent[t][lane]
    IN  /\ s # NoSend
        /\ sent' = [sent EXCEPT ![t][lane] = NoSend]
        /\ queue' = Settled(t, s)
        /\ move' = IF s.by = "move" THEN [move EXCEPT ![t] = RestOf(@)] ELSE move
        /\ work' = IF s.by = "work" THEN [work EXCEPT ![t] = Continued(@, s.answer)] ELSE work
        /\ view' = IF s.by = "work" THEN [Carried(t, s) EXCEPT ![t] = Patched(@, work'[t].todo)] ELSE Carried(t, s)
        /\ UNCHANGED <<browser, server, loading, drains, ops, faults, passes>>

(* Opening the notebook again, once the open page is saved: the list is    *)
(* emptied and read, an unsent draft of this browser before the server's   *)
(* copy; what was read is shown with the versions saved since.             *)
Shown(t) == [o \in Objects |-> IF Queued(t, o).e # None THEN Queued(t, o).e ELSE srv[o]]

leaveNotebook(t) ==
    /\ loading[t] = {} /\ ~move[t].open /\ ops < MaxOps /\ ops' = ops + 1
    /\ loading' = [loading EXCEPT ![t] = {o \in live : Shown(t)[o].ver > 0 \/ Queued(t, o).e # None}]
    /\ view' = [view EXCEPT ![t] = [known |-> {}, e |-> Shown(t)]]
    /\ UNCHANGED <<browser, server, move, work, chains, queue, faults>>

loadContainer(t) ==
    /\ loading[t] # {}
    /\ view' = [view EXCEPT ![t].known = loading[t]]
    /\ loading' = [loading EXCEPT ![t] = {}]
    /\ UNCHANGED <<browser, server, move, work, chains, queue, ops, faults>>

Next ==
    \E t \in Tabs :
        \/ \E p \in Pages, target \in Sections \cup {Top} : movePage(t, p, target)
        \/ \E p \in Pages, delta \in {-1, 1} : indentPage(t, p, delta)
        \/ placePage(t) \/ placeOpenPage(t) \/ saveOpenPage(t) \/ passPage(t)
        \/ \E o \in Objects, in \in Folders \cup {Top} : newObject(t, o, in)
        \/ \E s \in Sections : removeSection(t, s)
        \/ \E o \in Folders, target \in Groups \cup {Top} : moveIntoGroup(t, o, target)
        \/ \E o \in Folders : moveStructure(t, o)
        \/ \E g \in Groups : removeGroup(t, g)
        \/ updateStructure(t) \/ passStructure(t) \/ removeGroups(t) \/ removeEmptied(t)
        \/ drainQueue(t) \/ drainNow(t)
        \/ \E lane \in Lanes : Lose(t, lane) \/ Answered(t, lane)
        \/ leaveNotebook(t) \/ loadContainer(t)

Spec == Init /\ [][Next]_vars

-----------------------------------------------------------------------------
Underway(t) ==
    {move[t].todo[i].id : i \in DOMAIN move[t].todo} \cup {work[t].todo[i].id : i \in DOMAIN work[t].todo}

(* A version number names one placement: a tab that holds the server's     *)
(* version of an object, stored by another browser, and has no change of   *)
(* it under way or waiting to be sent, shows it where the server has it.   *)
(* Otherwise its next write is accepted over a placement it never showed.  *)
(* (A version this browser stored may be carried onto another placement:   *)
(* carrySaved, with a move next to a drain or two tabs on one queue.)      *)
VersionNamesPlacement ==
    \A t \in Tabs : \A o \in (live \cap view[t].known) \ Underway(t) :
        /\ view[t].e[o].ver = srv[o].ver
        /\ seal[o] = NoSeal \/ seal[o][1] # browser[t]
        /\ Queued(t, o).e = None \/ Queued(t, o).mark # "none"
        => view[t].e[o] = srv[o]

Ends(t) == move[t] # NoMove /\ move'[t] = NoMove
AsAsked(m, o) == m.as[o].in = srv'[o].in /\ m.as[o].order = srv'[o].order
Landed(m) == {o \in Range(m.list) : AsAsked(m, o)}

(* When a move's last write is done, the pages whose placement the server  *)
(* has as the move left it stand in the order the user asked for, however  *)
(* many of the move's writes were refused or found no network (placeBlock, *)
(* keyBetween: distinct keys between the neighbours, or the list numbered  *)
(* again).                                                                 *)
MovedInOrder ==
    [][\A t \in Tabs : Ends(t) =>
         LET m == move[t] IN Sorted(srv', Landed(m)) = SelectSeq(m.list, LAMBDA o : o \in Landed(m))]_vars

(* A block that landed whole keeps its outline: its subpages show at the   *)
(* same depth below its head as before, and an indented page shows one     *)
(* level deeper or shallower.  (Below a page of a deleted section nothing  *)
(* nests, so a block dropped there starts at level 0.)                     *)
BlockKeepsShape ==
    [][\A t \in Tabs : Ends(t) =>
         LET m      == move[t]
             levels == displayLevels(srv', m.list)
             first  == Min({i \in DOMAIN m.list : m.list[i] \in m.block})
             whole  == /\ Landed(m) = Range(m.list)
                       /\ \A o \in Range(m.list) : m.as[o].level = srv'[o].level
                       /\ first > 1 => nests(srv', m.list, first)
         IN  whole => \E shift \in m.shifts : \A i \in DOMAIN m.shape : levels[first + i - 1] = m.shape[i] + shift]_vars

Hangs(v) ==
    LET parents == groupParents(v)
    IN  \A g \in DOMAIN parents :
          LET path == groupPath(parents, g)
          IN  Cardinality(path) <= MaxDepth /\ \E top \in path : parents[top] = Top

(* Whatever groups two devices moved into each other, every group shown    *)
(* hangs off the root within MaxDepth levels, on each device and on one    *)
(* that loads now (groupParents).                                          *)
GroupTreeSound ==
    /\ Hangs([known |-> {o \in live : srv[o].ver > 0}, e |-> srv])
    /\ \A t \in Tabs : Hangs(view[t])

(* A group move the device admits shows the group where it was put, and    *)
(* every other group where it was (groupMoveAllowed against groupParents), *)
(* when the stored tree was shown as it is.                                *)
GroupMoveShows ==
    [][\A t \in Tabs : work[t] = NoWork /\ work'[t].kind = "into" =>
         LET before == groupParents(view[t])
             after  == groupParents(view'[t])
             o      == Head(work'[t].todo).id
         IN  (\A g \in DOMAIN before : before[g] = view[t].e[g].in) =>
             \A g \in DOMAIN after : after[g] = IF g = o THEN view'[t].e[o].in ELSE before[g]]_vars

(* "a failed write stops before the delete, so nothing is lost": when a    *)
(* tab deletes a group, the server has taken out all the tab showed inside *)
(* since the removal began, or the tab itself has loaded it back into the  *)
(* group.                                                                  *)
EmptiedBeforeDelete ==
    [][\A t \in Tabs, g \in Groups :
         (work[t].g = g /\ work[t].kind = "groups" /\ g \in live \ live') =>
             \A o \in live \cap work[t].held : srv[o].in = g => o \in work[t].left \/ view[t].e[o].in = g]_vars

=============================================================================
