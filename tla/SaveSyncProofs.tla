--------------------------- MODULE SaveSyncProofs ---------------------------
(***************************************************************************)
(* TLAPS proofs about SaveSync, for any tabs, edits, faults and bounds.    *)
(*                                                                         *)
(* What ties the browser's store, the requests under way and the server    *)
(* together is that a seal names one text for ever.  A world records that  *)
(* text for every seal drawn, next to the parts of the state that only     *)
(* grow: the clock, the server's versions and its conflict records.  The   *)
(* inductive invariant says that some world fits every draft wherever it   *)
(* is kept, every answer a tab still has to handle and every answer the    *)
(* server would replay.                                                    *)
(***************************************************************************)
EXTENDS SaveSync, TLAPS

Texts == SUBSET Nat
Drafts == [seal : Nat, at : Nat, base : Nat, gen : Nat, text : Texts, unsent : BOOLEAN,
           marks : SUBSET {"previousKey", "gone", "conflicted"}]
Answers == {"none", "ok", "version_conflict", "not_found", "forbidden", "already_exists",
            "keys", "network", "unauthenticated", "quota_exceeded"}
Jobs == [kind : {"idle", "save", "move", "drain", "recover", "discard"},
         phase : {"none", "sync", "sent", "answered"}, item : Drafts, ans : Answers, ver : Nat]
Loads == [on : BOOLEAN, ver : Nat, text : Texts, carried : Nat]
TabStates == [open : BOOLEAN, listed : BOOLEAN, text : Texts, base : Nat, dirty : BOOLEAN, flushed : BOOLEAN,
              writer : BOOLEAN, key : Nat, held : Drafts, conflicted : BOOLEAN, recovering : BOOLEAN,
              todo : SUBSET Nat, failed : BOOLEAN, job : Jobs, move : Jobs, load : Loads]
Entries == [seal : Nat, base : Nat, gen : Nat, text : Texts]
Idems == [key : Nat \X Nat \X Nat, code : {"ok", "version_conflict"}, ver : Nat]
Servers == [log : Seq(Entries), gen : Nat, conflicts : SUBSET Entries, unresolved : SUBSET Nat, copies : Texts,
            idem : SUBSET Idems, gone : BOOLEAN, writer : BOOLEAN, forgot : BOOLEAN, bar : Bars \cup {"none"}]
Stores == [cache : Drafts, pending : Drafts]

SaveTyped ==
    /\ srv \in Servers /\ srv.log # << >> /\ db \in Stores /\ tab \in [Tabs -> TabStates]
    /\ clock \in Nat /\ edits \in Nat /\ discarded \subseteq Nat

-----------------------------------------------------------------------------
(* of[s] is the text sealed as s; legacy is the seal of the unmarked cache *)
(* of an older build while it is nowhere else.                             *)
Worlds == [of : [Nat -> Texts], legacy : SUBSET {1}, clk : Nat, conflicts : SUBSET Entries, log : Seq(Entries)]

InLog(ver, text, w) == ver \in 1..Len(w.log) /\ w.log[ver].text = text
Recorded(text, w) == \E c \in w.conflicts : c.text = text

SealOK(d, w) == /\ d \in Drafts /\ d.seal <= w.clk /\ d.text = w.of[d.seal]
                /\ "conflicted" \in d.marks => Recorded(d.text, w)
DraftOK(d, w) == SealOK(d, w) /\ d.seal \notin w.legacy
CacheOK(d, w) ==
    /\ SealOK(d, w)
    /\ d.unsent => Has(d) /\ d.seal \notin w.legacy
    /\ Has(d) /\ ~d.unsent => d.seal \in w.legacy \/ InLog(d.base, d.text, w)
JobOK(j, w) ==
    /\ j \in Jobs /\ DraftOK(j.item, w)
    /\ j.ans = "ok" => InLog(j.ver, j.item.text, w)
    /\ j.ans = "version_conflict" => Recorded(j.item.text, w)
    /\ j.kind = "recover" => j.phase = "none" /\ (Has(j.item) => "conflicted" \in j.item.marks)
    /\ j.kind \in {"save", "move"} => Has(j.item)
TabOK(x, w) ==
    /\ x \in TabStates /\ DraftOK(x.held, w) /\ JobOK(x.job, w) /\ JobOK(x.move, w)
    /\ x.recovering => x.job.kind = "recover"
IdemOK(a, w) ==
    /\ a \in Idems /\ a.key[3] <= w.clk
    /\ a.code = "ok" => InLog(a.ver, w.of[a.key[3]], w)
    /\ a.code = "version_conflict" => Recorded(w.of[a.key[3]], w)

Fits(w) ==
    /\ w.clk = clock /\ w.conflicts = srv.conflicts /\ w.log = srv.log
    /\ CacheOK(db.cache, w) /\ DraftOK(db.pending, w)
    /\ \A t \in Tabs : TabOK(tab[t], w)
    /\ \A a \in srv.idem : IdemOK(a, w)
RecordsSealed(w) == \A c \in w.conflicts : c.seal <= w.clk /\ c.text = w.of[c.seal]
GoodWorld(w) ==
    w \in Worlds /\ w.of[0] = {} /\ RecordsSealed(w) /\ \A s \in w.legacy : s <= w.clk
SaveInv == SaveTyped /\ \E w : GoodWorld(w) /\ Fits(w)

-----------------------------------------------------------------------------
(* Worlds grow, and what fits one fits every later one.                    *)

Grows(w, w2) ==
    /\ w.clk <= w2.clk /\ w2.legacy \subseteq w.legacy /\ w.conflicts \subseteq w2.conflicts
    /\ \A s \in Nat : s <= w.clk => w2.of[s] = w.of[s]
    /\ Len(w.log) <= Len(w2.log) /\ \A i \in 1..Len(w.log) : w2.log[i] = w.log[i]

LEMMA WorldFacts ==
  ASSUME NEW w, GoodWorld(w)
  PROVE  /\ w \in Worlds /\ w.clk \in Nat /\ Len(w.log) \in Nat /\ w.of \in [Nat -> Texts] /\ w.of[0] = {}
         /\ 0 \notin w.legacy /\ w.legacy \subseteq {1} /\ \A s \in w.legacy : s <= w.clk
         /\ w.log \in Seq(Entries) /\ w.conflicts \subseteq Entries /\ RecordsSealed(w)
  BY DEF GoodWorld, Worlds

LEMMA RecordsGrow ==
  ASSUME NEW w \in Worlds, RecordsSealed(w), NEW w2, w2.conflicts = w.conflicts, w2.clk \in Nat, w.clk <= w2.clk,
         \A s \in Nat : s <= w.clk => w2.of[s] = w.of[s]
  PROVE  RecordsSealed(w2)
  <1>1. \A c \in w.conflicts : c.seal \in Nat
    BY DEF Worlds, Entries
  <1>2. w.clk \in Nat
    BY DEF Worlds
  <1> QED BY <1>1, <1>2 DEF RecordsSealed

LEMMA GrowsSelf == ASSUME NEW w, GoodWorld(w) PROVE Grows(w, w)
  BY WorldFacts DEF Grows

LEMMA SealGrows ==
  ASSUME NEW w, NEW w2, GoodWorld(w), GoodWorld(w2), Grows(w, w2), NEW d, SealOK(d, w)
  PROVE  SealOK(d, w2)
  BY WorldFacts DEF Grows, SealOK, Recorded, Drafts

LEMMA DraftGrows ==
  ASSUME NEW w, NEW w2, GoodWorld(w), GoodWorld(w2), Grows(w, w2), NEW d, DraftOK(d, w)
  PROVE  DraftOK(d, w2)
  BY SealGrows DEF Grows, DraftOK

LEMMA InLogGrows ==
  ASSUME NEW w, NEW w2, GoodWorld(w), GoodWorld(w2), Grows(w, w2), NEW ver, NEW text, InLog(ver, text, w)
  PROVE  InLog(ver, text, w2)
  BY WorldFacts DEF Grows, InLog

LEMMA RecordedGrows ==
  ASSUME NEW w, NEW w2, Grows(w, w2), NEW text, Recorded(text, w)
  PROVE  Recorded(text, w2)
  BY DEF Grows, Recorded

LEMMA CacheGrows ==
  ASSUME NEW w, NEW w2, GoodWorld(w), GoodWorld(w2), Grows(w, w2), w2.legacy = w.legacy, NEW d, CacheOK(d, w)
  PROVE  CacheOK(d, w2)
  BY SealGrows, InLogGrows DEF CacheOK

LEMMA JobGrows ==
  ASSUME NEW w, NEW w2, GoodWorld(w), GoodWorld(w2), Grows(w, w2), NEW j, JobOK(j, w)
  PROVE  JobOK(j, w2)
  BY DraftGrows, InLogGrows, RecordedGrows DEF JobOK

LEMMA TabGrows ==
  ASSUME NEW w, NEW w2, GoodWorld(w), GoodWorld(w2), Grows(w, w2), NEW x, TabOK(x, w)
  PROVE  TabOK(x, w2)
  BY DraftGrows, JobGrows DEF TabOK

LEMMA IdemGrows ==
  ASSUME NEW w, NEW w2, GoodWorld(w), GoodWorld(w2), Grows(w, w2), NEW a, IdemOK(a, w)
  PROVE  IdemOK(a, w2)
  <1>1. a.key[3] \in Nat /\ a.key[3] <= w.clk /\ w.clk <= w2.clk /\ w.clk \in Nat /\ w2.clk \in Nat
    BY WorldFacts DEF IdemOK, Idems, Grows
  <1>2. a.key[3] <= w2.clk /\ w2.of[a.key[3]] = w.of[a.key[3]]
    BY <1>1 DEF Grows
  <1> QED BY <1>2, InLogGrows, RecordedGrows DEF IdemOK

(* A store fits a world. *)
StoreOK(s, w) == s \in Stores /\ CacheOK(s.cache, w) /\ DraftOK(s.pending, w)

LEMMA StoreGrows ==
  ASSUME NEW w, NEW w2, GoodWorld(w), GoodWorld(w2), Grows(w, w2), w2.legacy = w.legacy, NEW s, StoreOK(s, w)
  PROVE  StoreOK(s, w2)
  BY CacheGrows, DraftGrows DEF StoreOK

(* A step that leaves every part in a shape that fits a later world keeps  *)
(* the invariant.                                                          *)
LEMMA Rebuilt ==
  ASSUME SaveTyped, NEW w, GoodWorld(w), Fits(w), NEW w2, GoodWorld(w2), Grows(w, w2),
         w2.clk = clock', w2.conflicts = srv'.conflicts, w2.log = srv'.log,
         srv' \in Servers, srv'.log # << >>, edits' \in Nat, discarded' \subseteq Nat,
         StoreOK(db', w2), tab' \in [Tabs -> TabStates],
         \A t \in Tabs : tab'[t] = tab[t] \/ TabOK(tab'[t], w2),
         \A a \in srv'.idem : a \in srv.idem \/ IdemOK(a, w2)
  PROVE  SaveInv'
  <1>1. \A t \in Tabs : TabOK(tab'[t], w2)
    BY TabGrows DEF Fits
  <1>2. \A a \in srv'.idem : IdemOK(a, w2)
    BY IdemGrows DEF Fits
  <1>3. Fits(w2)'
    BY <1>1, <1>2 DEF Fits, StoreOK
  <1>4. SaveTyped'
    BY WorldFacts DEF SaveTyped, StoreOK
  <1> QED BY <1>3, <1>4 DEF SaveInv

-----------------------------------------------------------------------------
(* storage.ts keeps the store in a world. *)

LEMMA NoDraftOK == ASSUME NEW w, GoodWorld(w) PROVE DraftOK(NoDraft, w) /\ CacheOK(NoDraft, w) /\ NoDraft \in Drafts
  <1>1. NoDraft \in Drafts /\ NoDraft.seal = 0 /\ NoDraft.text = {} /\ NoDraft.marks = {} /\ NoDraft.unsent = FALSE
    BY DEF NoDraft, Drafts, Texts
  <1> QED BY <1>1, WorldFacts DEF DraftOK, CacheOK, SealOK, Has

(* The marks of the store's own copies change nothing a world knows. *)
LEMMA UnsentOK ==
  ASSUME NEW w, GoodWorld(w), NEW d, DraftOK(d, w), Has(d), NEW b \in BOOLEAN,
         ~b => InLog(d.base, d.text, w)
  PROVE  CacheOK([d EXCEPT !.unsent = b], w)
  <1> DEFINE e == [d EXCEPT !.unsent = b]
  <1>1. d \in Drafts
    BY DEF DraftOK, SealOK
  <1>2. e \in Drafts /\ e.seal = d.seal /\ e.text = d.text /\ e.marks = d.marks /\ e.base = d.base /\ e.unsent = b
    BY <1>1 DEF Drafts
  <1> HIDE DEF e
  <1>3. CacheOK(e, w)
    <2>1. SealOK(e, w) /\ Has(e) /\ e.seal \notin w.legacy
      BY <1>2 DEF DraftOK, SealOK, Has
    <2>2. CASE e.unsent
      BY <2>1, <2>2 DEF CacheOK
    <2>3. CASE ~e.unsent
      BY <1>2, <2>1, <2>3 DEF CacheOK
    <2> QED BY <2>2, <2>3
  <1> QED BY <1>3 DEF e

LEMMA SameText ==
  ASSUME NEW w, NEW d, NEW e, SealOK(d, w), SealOK(e, w), SameDraft(d, e)
  PROVE  d.text = e.text /\ d.seal = e.seal /\ d.base = e.base /\ Has(d) /\ Has(e)
  BY DEF SealOK, SameDraft, Has

LEMMA PutOK ==
  ASSUME NEW w, GoodWorld(w), NEW item, DraftOK(item, w), Has(item)
  PROVE  StoreOK(AfterPutDraft(item), w) /\ StoreOK([AfterPutDraft(item) EXCEPT !.pending.marks = {}], w)
  <1> DEFINE c == [item EXCEPT !.unsent = TRUE]
             p == [item EXCEPT !.marks = {}]
  <1>1. CacheOK(c, w)
    BY UnsentOK
  <1>2. item \in Drafts /\ c \in Drafts
    BY <1>1 DEF DraftOK, SealOK, CacheOK
  <1>3. p \in Drafts /\ p.seal = item.seal /\ p.text = item.text /\ p.marks = {}
    BY <1>2 DEF Drafts
  <1>4. DraftOK(p, w)
    BY <1>3 DEF DraftOK, SealOK
  <1>5. AfterPutDraft(item) = [cache |-> c, pending |-> item]
    BY DEF AfterPutDraft
  <1> HIDE DEF c
  <1>6. [AfterPutDraft(item) EXCEPT !.pending.marks = {}] = [cache |-> c, pending |-> p]
    BY <1>5
  <1> HIDE DEF p
  <1> QED BY <1>1, <1>2, <1>3, <1>4, <1>5, <1>6 DEF StoreOK, Stores

LEMMA SettleOK ==
  ASSUME NEW w, GoodWorld(w), StoreOK(db, w), NEW item, DraftOK(item, w), NEW ver \in Nat,
         ver # 0 => InLog(ver, item.text, w)
  PROVE  StoreOK(AfterSettle(item, ver), w)
  <1> DEFINE acked == [db.cache EXCEPT !.unsent = FALSE, !.base = ver]
             p == IF SameDraft(db.pending, item) THEN NoDraft ELSE db.pending
             c == IF ~SameDraft(db.cache, item) THEN db.cache ELSE IF ver = 0 THEN NoDraft ELSE acked
  <1>1. DraftOK(p, w) /\ p \in Drafts
    BY NoDraftOK DEF StoreOK, Stores
  <1>2. ASSUME SameDraft(db.cache, item), ver # 0 PROVE CacheOK(acked, w) /\ acked \in Drafts
    <2>1. db.cache.text = item.text /\ db.cache.seal = item.seal /\ Has(db.cache) /\ SealOK(db.cache, w)
      BY <1>2, SameText DEF StoreOK, CacheOK, DraftOK
    <2>2. db.cache \in Drafts
      BY <2>1 DEF SealOK
    <2>3. acked \in Drafts /\ acked.seal = db.cache.seal /\ acked.text = db.cache.text
          /\ acked.marks = db.cache.marks /\ acked.base = ver /\ acked.unsent = FALSE
      BY <2>2 DEF Drafts
    <2> HIDE DEF acked
    <2> QED BY <1>2, <2>1, <2>3 DEF CacheOK, SealOK, Has
  <1>3. CacheOK(c, w) /\ c \in Drafts
    BY <1>2, NoDraftOK DEF StoreOK, Stores
  <1>4. AfterSettle(item, ver) = [pending |-> p, cache |-> c]
    BY DEF AfterSettle
  <1> HIDE DEF p, c
  <1> QED BY <1>1, <1>3, <1>4 DEF StoreOK, Stores

(* next is item itself, marked or sealed again. *)
LEMMA ReplaceOK ==
  ASSUME NEW w, GoodWorld(w), StoreOK(db, w), NEW item, DraftOK(item, w), NEW next, DraftOK(next, w),
         next.text = item.text, next.base = item.base, Has(item) => Has(next)
  PROVE  StoreOK(AfterReplace(item, next), w)
  <1> DEFINE c == [next EXCEPT !.unsent = db.cache.unsent]
             c2 == IF Has(next) /\ SameDraft(db.cache, item) THEN c ELSE db.cache
  <1>1. CASE ~SameDraft(db.pending, item)
    BY <1>1 DEF AfterReplace
  <1>2. CASE SameDraft(db.pending, item)
    <2>1. ASSUME SameDraft(db.cache, item), Has(next) PROVE CacheOK(c, w) /\ c \in Drafts
      <3>1. db.cache.text = item.text /\ db.cache.base = item.base /\ db.cache.seal = item.seal /\ Has(db.cache)
        BY <2>1, SameText DEF StoreOK, CacheOK, DraftOK
      <3>2. db.cache.unsent \in BOOLEAN
        BY DEF StoreOK, Stores, Drafts
      <3>3. ~db.cache.unsent => InLog(next.base, next.text, w)
        BY <3>1 DEF StoreOK, CacheOK, DraftOK
      <3>4. CacheOK(c, w)
        BY <2>1, <3>2, <3>3, UnsentOK
      <3> QED BY <3>4 DEF CacheOK, SealOK
    <2>2. CacheOK(c2, w) /\ c2 \in Drafts
      BY <2>1 DEF StoreOK, Stores
    <2>3. AfterReplace(item, next) = [pending |-> next, cache |-> c2]
      BY <1>2 DEF AfterReplace
    <2>4. next \in Drafts
      BY DEF DraftOK, SealOK
    <2> HIDE DEF c2
    <2> QED BY <2>2, <2>3, <2>4 DEF StoreOK, Stores
  <1> QED BY <1>1, <1>2

(* recoverDraft, and the older build's edit that it may mark as unsent. *)
LEMMA RecoverOK ==
  ASSUME NEW w, GoodWorld(w), db \in Stores, DraftOK(db.pending, w), NEW cache, CacheOK(cache, w)
  PROVE  StoreOK(AfterRecover(cache), w)
  <1> DEFINE p == IF \/ ~cache.unsent
                     \/ Unsendable(db.pending)
                     \/ db.pending.at > cache.at
                     \/ db.pending.seal = cache.seal
                  THEN db.pending ELSE cache
  <1>1. cache \in Drafts
    BY DEF CacheOK, SealOK
  <1>2. DraftOK(p, w) /\ p \in Drafts
    BY <1>1 DEF StoreOK, Stores, CacheOK, DraftOK
  <1>3. AfterRecover(cache) = [cache |-> cache, pending |-> p]
    BY DEF AfterRecover
  <1> HIDE DEF p
  <1> QED BY <1>1, <1>2, <1>3 DEF StoreOK, Stores

-----------------------------------------------------------------------------
(* Sealing: a new seal is given its text, the rest of the world stays.     *)

Fresh(w, text) == [w EXCEPT !.of = [w.of EXCEPT ![w.clk + 1] = text], !.clk = w.clk + 1]
OnlySeals(w, w2) ==
    GoodWorld(w2) /\ Grows(w, w2) /\ w2.legacy = w.legacy /\ w2.conflicts = w.conflicts /\ w2.log = w.log

LEMMA FreshOK ==
  ASSUME NEW w, GoodWorld(w), NEW text \in Texts
  PROVE  /\ OnlySeals(w, Fresh(w, text)) /\ Fresh(w, text).clk = w.clk + 1
         /\ Fresh(w, text).of[w.clk + 1] = text /\ w.clk + 1 \notin w.legacy
  <1> DEFINE of == [w.of EXCEPT ![w.clk + 1] = text]
             w2 == Fresh(w, text)
  <1>1. w \in Worlds /\ w.clk \in Nat /\ w.of \in [Nat -> Texts] /\ w.of[0] = {} /\ Len(w.log) \in Nat
        /\ \A s \in w.legacy : s <= w.clk
    BY WorldFacts
  <1>2. of \in [Nat -> Texts] /\ of[0] = {} /\ of[w.clk + 1] = text /\ \A s \in Nat : s <= w.clk => of[s] = w.of[s]
    BY <1>1
  <1>3. w2 = [w EXCEPT !.of = of, !.clk = w.clk + 1]
    BY DEF Fresh
  <1> HIDE DEF of, w2
  <1>4. w2 \in Worlds /\ w2.of = of /\ w2.clk = w.clk + 1 /\ w2.legacy = w.legacy
        /\ w2.conflicts = w.conflicts /\ w2.log = w.log
    <2>1. of \in [Nat -> Texts] /\ w.clk + 1 \in Nat /\ w \in Worlds
      BY <1>1, <1>2
    <2> QED BY <2>1, <1>3 DEF Worlds
  <1>5. w.legacy \subseteq {1}
    BY WorldFacts
  <1>8. RecordsSealed(w2)
    BY <1>1, <1>2, <1>4, WorldFacts, RecordsGrow
  <1>6. GoodWorld(w2) /\ Grows(w, w2)
    BY <1>1, <1>2, <1>4, <1>5, <1>8 DEF GoodWorld, Grows
  <1>7. w.clk + 1 \notin w.legacy
    BY <1>1
  <1> QED BY <1>2, <1>4, <1>6, <1>7 DEF OnlySeals, w2

LEMMA SelfSeals == ASSUME NEW w, GoodWorld(w) PROVE OnlySeals(w, w)
  BY GrowsSelf DEF OnlySeals

LEMMA SealedOK ==
  ASSUME NEW w, GoodWorld(w), NEW d, d \in Drafts, d.seal = w.clk + 1,
         "conflicted" \in d.marks => Recorded(d.text, w)
  PROVE  DraftOK(d, Fresh(w, d.text)) /\ Has(d)
  <1> DEFINE w2 == Fresh(w, d.text)
  <1>1. d.text \in Texts /\ w.clk \in Nat
    BY WorldFacts DEF Drafts
  <1>2. /\ OnlySeals(w, w2) /\ w2.clk = w.clk + 1
        /\ w2.of[w.clk + 1] = d.text /\ w.clk + 1 \notin w.legacy
    BY <1>1, FreshOK
  <1> HIDE DEF w2
  <1>3. DraftOK(d, w2) /\ Has(d)
    BY <1>1, <1>2 DEF DraftOK, SealOK, Has, OnlySeals, Recorded
  <1> QED BY <1>3 DEF w2

LEMMA FitsStore == ASSUME SaveTyped, NEW w, Fits(w) PROVE StoreOK(db, w) /\ clock = w.clk /\ db.cache \in Drafts /\ db.pending \in Drafts
  BY DEF SaveTyped, Fits, StoreOK, Stores

(* prepareObjectDraft *)
LEMMA PreparedOK ==
  ASSUME SaveTyped, NEW w, GoodWorld(w), Fits(w), NEW text \in Texts, NEW base \in Nat, NEW gen \in Nat,
         NEW item, item = Prepared(text, base, gen)
  PROVE  /\ Has(item) /\ item.text = text
         /\ \E w2 : OnlySeals(w, w2) /\ DraftOK(item, w2) /\ w2.clk = Higher(clock, item.seal)
  <1>1. w.clk \in Nat /\ w.clk = clock
    BY WorldFacts DEF Fits
  <1>2. CASE Reusable(text, base, gen)
    <2>1. item = Newest /\ Has(item) /\ item.text = text
      BY <1>2 DEF Prepared, Reusable
    <2>2. DraftOK(item, w)
      BY <2>1, FitsStore DEF Newest, StoreOK, CacheOK, DraftOK
    <2>3. item.seal \in Nat /\ item.seal <= w.clk
      BY <2>2 DEF DraftOK, SealOK, Drafts
    <2>4. w.clk = Higher(clock, item.seal)
      BY <1>1, <2>3 DEF Higher
    <2> QED BY <2>1, <2>2, <2>4, SelfSeals
  <1>3. CASE ~Reusable(text, base, gen)
    <2>1. item = [NoDraft EXCEPT !.seal = clock + 1, !.at = clock + 1, !.base = base, !.gen = gen, !.text = text]
      BY <1>3 DEF Prepared
    <2>2. item \in Drafts /\ item.seal = w.clk + 1 /\ item.marks = {} /\ item.text = text
      <3>1. NoDraft \in Drafts /\ NoDraft.marks = {} /\ clock + 1 \in Nat
        BY <1>1, NoDraftOK DEF NoDraft
      <3> QED BY <1>1, <2>1, <3>1 DEF Drafts
    <2>3. DraftOK(item, Fresh(w, text)) /\ Has(item)
      BY <2>2, SealedOK
    <2>4. OnlySeals(w, Fresh(w, text)) /\ Fresh(w, text).clk = Higher(clock, item.seal)
      BY <1>1, <2>2, FreshOK DEF Higher
    <2> QED BY <2>2, <2>3, <2>4
  <1> QED BY <1>2, <1>3

-----------------------------------------------------------------------------
(* object_routes.go: what a save leaves on the server, and what it answers. *)

LEMMA ServerFacts ==
  ASSUME SaveTyped
  PROVE  /\ srv \in Servers /\ srv.log \in Seq(Entries) /\ Version \in Nat /\ Version > 0 /\ HeadText \in Texts
         /\ srv.gen \in Nat /\ srv.conflicts \subseteq Entries /\ srv.unresolved \subseteq Nat
         /\ srv.idem \subseteq Idems /\ srv.writer \in BOOLEAN /\ srv.gone \in BOOLEAN /\ srv.copies \in Texts
  <1>1. /\ srv \in Servers /\ srv.log \in Seq(Entries) /\ srv.log # << >>
        /\ srv.gen \in Nat /\ srv.conflicts \subseteq Entries /\ srv.unresolved \subseteq Nat
        /\ srv.idem \subseteq Idems /\ srv.writer \in BOOLEAN /\ srv.gone \in BOOLEAN /\ srv.copies \in Texts
    BY DEF SaveTyped, Servers
  <1>2. Version \in Nat /\ Version > 0
    BY <1>1 DEF Version
  <1>3. srv.log[Version] \in Entries
    BY <1>1, <1>2 DEF Version
  <1> QED BY <1>1, <1>2, <1>3 DEF HeadText, Entries

(* What a save is refused for before its key is looked up. *)
Turned(item) == ~SignedIn \/ srv.gone \/ ~srv.writer \/ item.gen # srv.gen

LEMMA BarStep ==
  ASSUME SaveTyped, Refuse \/ Admit
  PROVE  /\ srv' \in Servers /\ srv'.log = srv.log /\ srv'.gen = srv.gen /\ srv'.gone = srv.gone
         /\ srv'.conflicts = srv.conflicts /\ srv'.unresolved = srv.unresolved /\ srv'.copies = srv.copies
         /\ srv'.idem = srv.idem
  <1>1. PICK b \in Bars \cup {"none"} : srv' = [srv EXCEPT !.bar = b]
    <2>1. CASE Refuse
      <3>1. PICK b \in Bars : srv' = [srv EXCEPT !.bar = b]
        BY <2>1, Zenon DEF Refuse
      <3> QED BY <3>1
    <2>2. CASE Admit
      BY <2>2 DEF Admit
    <2> QED BY <2>1, <2>2
  <1>2. srv \in Servers
    BY DEF SaveTyped
  <1> HIDE DEF Bars
  <1> QED BY <1>1, <1>2 DEF Servers

(* A world in which item's text was filed at the end of the versions or    *)
(* among the conflicts.                                                    *)
Filed(w, e) == [w EXCEPT !.log = Append(w.log, e)]
Rejected(w, e) == [w EXCEPT !.conflicts = w.conflicts \cup {e}]

LEMMA AppendedWorld ==
  ASSUME NEW w, GoodWorld(w), NEW e \in Entries
  PROVE  /\ GoodWorld(Filed(w, e)) /\ Grows(w, Filed(w, e)) /\ InLog(Len(w.log) + 1, e.text, Filed(w, e))
         /\ Filed(w, e).legacy = w.legacy /\ Filed(w, e).clk = w.clk /\ Filed(w, e).of = w.of
         /\ Filed(w, e).conflicts = w.conflicts /\ Filed(w, e).log = Append(w.log, e)
  <1> DEFINE log == Append(w.log, e)
             w2 == [w EXCEPT !.log = log]
  <1>1. w \in Worlds /\ w.log \in Seq(Entries) /\ w.of[0] = {} /\ w.clk \in Nat /\ \A s \in w.legacy : s <= w.clk
    BY WorldFacts
  <1>2. log \in Seq(Entries) /\ Len(log) = Len(w.log) + 1 /\ Len(w.log) \in Nat /\ log[Len(w.log) + 1] = e
        /\ \A i \in 1..Len(w.log) : log[i] = w.log[i]
    BY <1>1
  <1> HIDE DEF log
  <1>3. w2 \in Worlds /\ w2.of = w.of /\ w2.clk = w.clk /\ w2.legacy = w.legacy
        /\ w2.conflicts = w.conflicts /\ w2.log = log
    BY <1>1, <1>2 DEF Worlds
  <1> HIDE DEF w2
  <1>5. RecordsSealed(w2)
    BY <1>3, WorldFacts DEF RecordsSealed
  <1>4. GoodWorld(w2) /\ Grows(w, w2) /\ InLog(Len(w.log) + 1, e.text, w2)
    BY <1>1, <1>2, <1>3, <1>5 DEF GoodWorld, Grows, InLog
  <1> QED BY <1>3, <1>4 DEF log, w2, Filed

LEMMA ConflictWorld ==
  ASSUME NEW w, GoodWorld(w), NEW e \in Entries, e.seal <= w.clk, e.text = w.of[e.seal]
  PROVE  /\ GoodWorld(Rejected(w, e)) /\ Grows(w, Rejected(w, e)) /\ Recorded(e.text, Rejected(w, e))
         /\ Rejected(w, e).legacy = w.legacy /\ Rejected(w, e).clk = w.clk /\ Rejected(w, e).of = w.of
         /\ Rejected(w, e).conflicts = w.conflicts \cup {e} /\ Rejected(w, e).log = w.log
  <1> DEFINE w2 == [w EXCEPT !.conflicts = w.conflicts \cup {e}]
  <1>1. w \in Worlds /\ w.conflicts \subseteq Entries /\ w.of[0] = {} /\ w.clk \in Nat /\ Len(w.log) \in Nat
        /\ \A s \in w.legacy : s <= w.clk
    BY WorldFacts
  <1>3. w2 \in Worlds /\ w2.of = w.of /\ w2.clk = w.clk /\ w2.legacy = w.legacy
        /\ w2.conflicts = w.conflicts \cup {e} /\ w2.log = w.log
    BY <1>1 DEF Worlds
  <1> HIDE DEF w2
  <1>2. RecordsSealed(w2)
    BY <1>3, WorldFacts DEF RecordsSealed
  <1>4. GoodWorld(w2) /\ Grows(w, w2) /\ Recorded(e.text, w2)
    BY <1>1, <1>2, <1>3 DEF GoodWorld, Grows, Recorded
  <1> QED BY <1>3, <1>4 DEF w2, Rejected

(* What a save's answer and the server after it are in a world. *)
Served(item, w, w2) ==
    /\ GoodWorld(w2) /\ Grows(w, w2) /\ w2.legacy = w.legacy /\ w2.clk = w.clk
    /\ w2.conflicts = AfterSave(item).conflicts /\ w2.log = AfterSave(item).log
    /\ AfterSave(item) \in Servers /\ AfterSave(item).log # << >>
    /\ \A a \in AfterSave(item).idem : a \in srv.idem \/ IdemOK(a, w2)
    /\ Answer(item).code \in Answers /\ Answer(item).ver \in Nat
    /\ Answer(item).code = "ok" => InLog(Answer(item).ver, item.text, w2)
    /\ Answer(item).code = "version_conflict" => Recorded(item.text, w2)

LEMMA ServedOK ==
  ASSUME SaveTyped, NEW w, GoodWorld(w), Fits(w), NEW item, DraftOK(item, w)
  PROVE  \E w2 : Served(item, w, w2)
  <1> DEFINE a == Answer(item)
             kept == [seal |-> item.seal, base |-> item.base, gen |-> item.gen, text |-> item.text]
             new == [key |-> Key(item), code |-> a.code, ver |-> a.ver]
  <1>1. /\ item \in Drafts /\ item.seal \in Nat /\ item.base \in Nat /\ item.gen \in Nat /\ item.text \in Texts
        /\ item.seal <= w.clk /\ item.text = w.of[item.seal]
    BY DEF DraftOK, SealOK, Drafts
  <1>2. kept \in Entries /\ kept.text = item.text /\ kept.seal \in Nat
    BY <1>1 DEF Entries
  <1>3. Key(item) \in Nat \X Nat \X Nat /\ Key(item)[3] = item.seal
    BY <1>1 DEF Key
  <1>4. w.conflicts = srv.conflicts /\ w.log = srv.log /\ w.clk = clock /\ Version = Len(w.log)
        /\ Version \in Nat /\ srv \in Servers /\ srv.log # << >> /\ \A x \in srv.idem : IdemOK(x, w)
    BY ServerFacts DEF Fits, Version, SaveTyped
  <1>5. ASSUME a.code \in Answers \ {"ok", "version_conflict"}, a.ver = 0 PROVE Served(item, w, w)
    <2>1. AfterSave(item) = srv
      BY <1>5 DEF AfterSave
    <2> QED BY <1>4, <1>5, <2>1, GrowsSelf DEF Served
  <1>6. CASE Turned(item)
    <2>1. a.code \in {"unauthenticated", "not_found", "forbidden", "already_exists"} /\ a.ver = 0
      BY <1>6 DEF Answer, Turned
    <2> QED BY <1>5, <2>1 DEF Answers
  <1>a. CASE ~Turned(item) /\ Replayed(item) = {} /\ srv.bar = "quota_exceeded"
    <2>1. a.code = "quota_exceeded" /\ a.ver = 0
      BY <1>a DEF Answer, Turned
    <2> QED BY <1>5, <2>1 DEF Answers
  <1>7. CASE ~Turned(item) /\ Replayed(item) # {}
    <2>1. PICK x \in Replayed(item) : a = [code |-> x.code, ver |-> x.ver]
      BY <1>7 DEF Answer, Turned
    <2>2. x \in srv.idem /\ x.key = Key(item) /\ a.code = x.code /\ a.ver = x.ver
      BY <2>1 DEF Replayed
    <2>3. IdemOK(x, w) /\ x \in Idems /\ x.key[3] = item.seal
      BY <1>3, <1>4, <2>2 DEF IdemOK
    <2>4. x.code \in {"ok", "version_conflict"} /\ x.ver \in Nat
      BY <2>3 DEF Idems
    <2>5. AfterSave(item) = srv
      BY <1>7 DEF AfterSave
    <2>6. a.code \in Answers /\ a.ver \in Nat
      BY <2>2, <2>4 DEF Answers
    <2> HIDE DEF a
    <2>7. (a.code = "ok" => InLog(a.ver, item.text, w)) /\ (a.code = "version_conflict" => Recorded(item.text, w))
      BY <1>1, <2>2, <2>3 DEF IdemOK
    <2>8. Served(item, w, w)
      BY <1>4, <2>5, <2>6, <2>7, GrowsSelf DEF Served, a
    <2> QED BY <2>8
  <1>8. CASE ~Turned(item) /\ Replayed(item) = {} /\ srv.bar # "quota_exceeded" /\ item.base # Version
    <2> DEFINE w2 == Rejected(w, kept)
    <2>1. a = [code |-> "version_conflict", ver |-> Version]
      BY <1>8 DEF Answer, Turned
    <2>2. a.code = "version_conflict" /\ a.ver = Version /\ a.ver \in Nat
      BY <1>4, <2>1
    <2>3. AfterSave(item) = [srv EXCEPT !.idem = srv.idem \cup {new}, !.log = srv.log,
                               !.conflicts = srv.conflicts \cup {kept},
                               !.unresolved = srv.unresolved \cup {kept.seal}]
      BY <1>8, <2>2, Zenon DEF AfterSave
    <2>4. /\ GoodWorld(w2) /\ Grows(w, w2) /\ Recorded(kept.text, w2) /\ w2.legacy = w.legacy
          /\ w2.clk = w.clk /\ w2.of = w.of /\ w2.conflicts = w.conflicts \cup {kept} /\ w2.log = w.log
      <3>1. kept.seal = item.seal
        OBVIOUS
      <3> QED BY <1>1, <1>2, <3>1, ConflictWorld
    <2>5. new \in Idems /\ new.key[3] = item.seal /\ new.code = "version_conflict"
      BY <1>3, <2>2 DEF Idems
    <2> HIDE DEF new, a, kept, w2
    <2>6. IdemOK(new, w2)
      BY <1>1, <1>2, <2>4, <2>5 DEF IdemOK
    <2>7. /\ AfterSave(item) \in Servers /\ AfterSave(item).log = srv.log
          /\ AfterSave(item).conflicts = srv.conflicts \cup {kept} /\ AfterSave(item).idem = srv.idem \cup {new}
      <3> DEFINE idem == srv.idem \cup {new}
                 log == srv.log
                 conflicts == srv.conflicts \cup {kept}
                 unresolved == srv.unresolved \cup {kept.seal}
                 y == AfterSave(item)
      <3>1. /\ idem \in SUBSET Idems /\ log \in Seq(Entries)
            /\ conflicts \in SUBSET Entries /\ unresolved \in SUBSET Nat /\ srv \in Servers
        BY <1>2, <2>5, ServerFacts
      <3>2. y = [srv EXCEPT !.idem = idem, !.log = log, !.conflicts = conflicts, !.unresolved = unresolved]
        BY <2>3
      <3> HIDE DEF idem, log, conflicts, unresolved, y
      <3>3. y \in Servers /\ y.idem = idem /\ y.log = log /\ y.conflicts = conflicts
        BY <3>1, <3>2 DEF Servers
      <3> QED BY <3>3 DEF idem, log, conflicts, y
    <2>8. Served(item, w, w2)
      BY <1>2, <1>4, <2>2, <2>4, <2>6, <2>7 DEF Served, Answers, a
    <2> QED BY <2>8
  <1>9. CASE ~Turned(item) /\ Replayed(item) = {} /\ srv.bar # "quota_exceeded" /\ item.base = Version
    <2> DEFINE w2 == Filed(w, kept)
    <2>1. a = [code |-> "ok", ver |-> Version + 1]
      BY <1>9 DEF Answer, Turned
    <2>2. a.code = "ok" /\ a.ver = Version + 1 /\ a.ver \in Nat
      BY <1>4, <2>1
    <2>3. AfterSave(item) = [srv EXCEPT !.idem = srv.idem \cup {new}, !.log = Append(srv.log, kept),
                               !.conflicts = srv.conflicts, !.unresolved = srv.unresolved]
      BY <1>9, <2>2, Zenon DEF AfterSave
    <2>4. /\ GoodWorld(w2) /\ Grows(w, w2) /\ InLog(Len(w.log) + 1, kept.text, w2) /\ w2.legacy = w.legacy
          /\ w2.clk = w.clk /\ w2.of = w.of /\ w2.conflicts = w.conflicts /\ w2.log = Append(w.log, kept)
      BY <1>2, AppendedWorld
    <2>5. new \in Idems /\ new.key[3] = item.seal /\ new.code = "ok" /\ new.ver = a.ver
      BY <1>3, <2>2 DEF Idems
    <2> HIDE DEF new, a, kept, w2
    <2>6. IdemOK(new, w2)
      BY <1>1, <1>2, <1>4, <2>2, <2>4, <2>5 DEF IdemOK
    <2>7. /\ AfterSave(item) \in Servers /\ AfterSave(item).log = Append(srv.log, kept)
          /\ AfterSave(item).conflicts = srv.conflicts /\ AfterSave(item).idem = srv.idem \cup {new}
      <3> DEFINE idem == srv.idem \cup {new}
                 log == Append(srv.log, kept)
                 conflicts == srv.conflicts
                 unresolved == srv.unresolved
                 y == AfterSave(item)
      <3>1. /\ idem \in SUBSET Idems /\ log \in Seq(Entries)
            /\ conflicts \in SUBSET Entries /\ unresolved \in SUBSET Nat /\ srv \in Servers
        BY <1>2, <2>5, ServerFacts
      <3>2. y = [srv EXCEPT !.idem = idem, !.log = log, !.conflicts = conflicts, !.unresolved = unresolved]
        BY <2>3
      <3> HIDE DEF idem, log, conflicts, unresolved, y
      <3>3. y \in Servers /\ y.idem = idem /\ y.log = log /\ y.conflicts = conflicts
        BY <3>1, <3>2 DEF Servers
      <3> QED BY <3>3 DEF idem, log, conflicts, y
    <2>8. Append(srv.log, kept) # << >>
      BY <1>2, ServerFacts
    <2>9. Served(item, w, w2)
      BY <1>2, <1>4, <2>2, <2>4, <2>6, <2>7, <2>8 DEF Served, Answers, a
    <2> QED BY <2>9
  <1> QED BY <1>6, <1>7, <1>8, <1>9, <1>a

-----------------------------------------------------------------------------
(* Steps of one tab. *)

LEMMA TabFacts ==
  ASSUME SaveTyped, NEW w, Fits(w), NEW t \in Tabs
  PROVE  /\ tab[t] \in TabStates /\ TabOK(tab[t], w) /\ DraftOK(tab[t].held, w)
         /\ JobOK(tab[t].job, w) /\ JobOK(tab[t].move, w) /\ tab[t].job \in Jobs /\ tab[t].move \in Jobs
         /\ DraftOK(tab[t].job.item, w) /\ DraftOK(tab[t].move.item, w)
         /\ tab[t].text \in Texts /\ tab[t].base \in Nat /\ tab[t].key \in Nat
  BY DEF SaveTyped, Fits, TabOK, JobOK, TabStates

LEMMA IdleOK == ASSUME NEW w, GoodWorld(w) PROVE JobOK(Idle, w) /\ Idle \in Jobs /\ Idle.kind = "idle" /\ Idle.ans = "none"
                                                     /\ Idle.phase = "none"
  <1>1. Idle \in Jobs /\ Idle.item = NoDraft /\ Idle.ans = "none" /\ Idle.kind = "idle" /\ Idle.phase = "none"
    BY NoDraftOK DEF Idle, Jobs, Answers
  <1> QED BY <1>1, NoDraftOK DEF JobOK

(* What the invariant knows of a tab: its drafts, its requests and whether *)
(* it recovers a conflict.                                                 *)
SameCore(x, y) == y.held = x.held /\ y.job = x.job /\ y.move = x.move /\ y.recovering = x.recovering

LEMMA CoreOK == ASSUME NEW w, NEW x, TabOK(x, w), NEW y \in TabStates, SameCore(x, y) PROVE TabOK(y, w)
  BY DEF TabOK, SameCore

LEMMA TabStep ==
  ASSUME SaveTyped, NEW w, GoodWorld(w), Fits(w), NEW t \in Tabs, NEW y, TabOK(y, w),
         tab' = [tab EXCEPT ![t] = y], StoreOK(db', w),
         srv' = srv, clock' = clock, edits' = edits, discarded' \subseteq Nat
  PROVE  SaveInv'
  <1>1. y \in TabStates
    BY DEF TabOK
  <1>2. tab' \in [Tabs -> TabStates] /\ \A u \in Tabs : tab'[u] = tab[u] \/ TabOK(tab'[u], w)
    BY <1>1 DEF SaveTyped
  <1>3. w.clk = clock' /\ w.conflicts = srv'.conflicts /\ w.log = srv'.log /\ srv' \in Servers
        /\ srv'.log # << >> /\ edits' \in Nat /\ discarded' \subseteq Nat
    BY DEF Fits, SaveTyped
  <1> QED BY <1>2, <1>3, GrowsSelf, Rebuilt

LEMMA BeginLoadKeeps ==
  ASSUME SaveTyped, NEW w, GoodWorld(w), Fits(w), NEW t \in Tabs, BeginLoad(t)
  PROVE  SaveInv'
  <1> DEFINE load == [on |-> TRUE, ver |-> Version, text |-> HeadText, carried |-> 0]
             y == [tab[t] EXCEPT !.key = srv.gen, !.listed = FALSE, !.load = load]
  <1>1. load \in Loads /\ srv.gen \in Nat
    BY ServerFacts DEF Loads
  <1>2. tab[t] \in TabStates /\ TabOK(tab[t], w)
    BY TabFacts
  <1>3. tab' = [tab EXCEPT ![t] = y] /\ UNCHANGED <<srv, clock, edits, db, discarded>>
    BY DEF BeginLoad, SaveTyped
  <1> HIDE DEF load
  <1>4. y \in TabStates /\ SameCore(tab[t], y)
    BY <1>1, <1>2 DEF TabStates, SameCore
  <1> HIDE DEF y
  <1>5. TabOK(y, w)
    BY <1>2, <1>4, CoreOK
  <1>6. StoreOK(db', w) /\ discarded' \subseteq Nat
    BY <1>3, FitsStore DEF SaveTyped
  <1> QED BY <1>3, <1>5, <1>6, TabStep

LEMMA ClosePageKeeps ==
  ASSUME SaveTyped, NEW w, GoodWorld(w), Fits(w), NEW t \in Tabs, ClosePage(t)
  PROVE  SaveInv'
  <1> DEFINE y == [tab[t] EXCEPT !.open = FALSE, !.dirty = FALSE]
  <1>1. tab[t] \in TabStates /\ TabOK(tab[t], w)
    BY TabFacts
  <1>2. tab' = [tab EXCEPT ![t] = y] /\ UNCHANGED <<srv, clock, edits, db, discarded>>
    BY DEF ClosePage, SaveTyped
  <1>3. y \in TabStates /\ SameCore(tab[t], y)
    BY <1>1 DEF TabStates, SameCore
  <1> HIDE DEF y
  <1>4. TabOK(y, w) /\ StoreOK(db', w) /\ discarded' \subseteq Nat
    BY <1>1, <1>2, <1>3, CoreOK, FitsStore DEF SaveTyped
  <1> QED BY <1>2, <1>4, TabStep

LEMMA KeyPassKeeps ==
  ASSUME SaveTyped, NEW w, GoodWorld(w), Fits(w), NEW t \in Tabs, KeyPass(t)
  PROVE  SaveInv'
  <1>1. tab[t] \in TabStates /\ TabOK(tab[t], w) /\ srv.gen \in Nat
    BY TabFacts, ServerFacts
  <1>2. PICK key \in {0, srv.gen} : tab' = [tab EXCEPT ![t].key = key]
    BY DEF KeyPass
  <1> DEFINE y == [tab[t] EXCEPT !.key = key]
  <1>3. tab' = [tab EXCEPT ![t] = y] /\ UNCHANGED <<srv, clock, edits, db, discarded>>
    BY <1>2 DEF KeyPass, SaveTyped
  <1>4. y \in TabStates /\ SameCore(tab[t], y)
    BY <1>1 DEF TabStates, SameCore
  <1> HIDE DEF y
  <1>5. TabOK(y, w) /\ StoreOK(db', w) /\ discarded' \subseteq Nat
    BY <1>1, <1>3, <1>4, CoreOK, FitsStore DEF SaveTyped
  <1> QED BY <1>3, <1>5, TabStep

LEMMA ClosedOK == ASSUME NEW w, GoodWorld(w) PROVE TabOK(Closed, w)
  <1>1. Idle \in Jobs /\ NoDraft \in Drafts /\ JobOK(Idle, w) /\ DraftOK(NoDraft, w)
    BY IdleOK, NoDraftOK
  <1>2. NoLoad \in Loads /\ {} \in Texts
    BY DEF NoLoad, Loads, Texts
  <1>3. Closed \in TabStates /\ Closed.held = NoDraft /\ Closed.job = Idle /\ Closed.move = Idle
        /\ Closed.recovering = FALSE
    BY <1>1, <1>2 DEF Closed, TabStates
  <1> QED BY <1>1, <1>3 DEF TabOK

LEMMA CrashKeeps ==
  ASSUME SaveTyped, NEW w, GoodWorld(w), Fits(w), NEW t \in Tabs, Crash(t)
  PROVE  SaveInv'
  <1>1. tab' = [tab EXCEPT ![t] = Closed] /\ UNCHANGED <<srv, clock, edits, db, discarded>>
    BY DEF Crash
  <1>2. StoreOK(db', w) /\ discarded' \subseteq Nat
    BY <1>1, FitsStore DEF SaveTyped
  <1> QED BY <1>1, <1>2, ClosedOK, TabStep

(* A tab whose job slot changes while it recovers no conflict. *)
LEMMA JobPut ==
  ASSUME NEW w, NEW x, TabOK(x, w), ~x.recovering, NEW j, JobOK(j, w)
  PROVE  TabOK([x EXCEPT !.job = j], w)
  <1> DEFINE y == [x EXCEPT !.job = j]
  <1>1. x \in TabStates /\ j \in Jobs
    BY DEF TabOK, JobOK
  <1>2. y \in TabStates /\ y.held = x.held /\ y.job = j /\ y.move = x.move /\ y.recovering = x.recovering
    BY <1>1 DEF TabStates
  <1> HIDE DEF y
  <1>3. TabOK(y, w)
    BY <1>2 DEF TabOK
  <1> QED BY <1>3 DEF y

(* ... which it does not while its job is another one. *)
LEMMA NotRecovering ==
  ASSUME NEW w, NEW x, TabOK(x, w), x.job.kind # "recover" \/ x.job.phase # "none"
  PROVE  ~x.recovering
  BY DEF TabOK, JobOK

LEMMA JobStep ==
  ASSUME SaveTyped, NEW w, GoodWorld(w), Fits(w), NEW t \in Tabs, ~tab[t].recovering, NEW j, JobOK(j, w),
         tab' = [tab EXCEPT ![t].job = j], UNCHANGED <<srv, clock, edits, db, discarded>>
  PROVE  SaveInv'
  <1> DEFINE y == [tab[t] EXCEPT !.job = j]
  <1>1. TabOK(y, w)
    BY TabFacts, JobPut
  <1>2. tab' = [tab EXCEPT ![t] = y]
    BY DEF SaveTyped
  <1>3. StoreOK(db', w) /\ discarded' \subseteq Nat
    BY FitsStore DEF SaveTyped
  <1> HIDE DEF y
  <1> QED BY <1>1, <1>2, <1>3, TabStep

LEMMA DrainWaitKeeps ==
  ASSUME SaveTyped, NEW w, GoodWorld(w), Fits(w), NEW t \in Tabs, DrainWait(t)
  PROVE  SaveInv'
  <1>1. ~tab[t].recovering
    BY TabFacts, NotRecovering DEF DrainWait
  <1> QED BY <1>1, IdleOK, JobStep DEF DrainWait

LEMMA DrainStartKeeps ==
  ASSUME SaveTyped, NEW w, GoodWorld(w), Fits(w), NEW t \in Tabs, DrainStart(t) \/ SeeUnsent(t)
  PROVE  SaveInv'
  <1>1. tab[t].job.kind = "idle"
    BY IdleOK DEF DrainStart, SeeUnsent
  <1>2. ~tab[t].recovering
    BY <1>1, TabFacts, NotRecovering
  <1>3. DraftOK(db.pending, w) /\ db.pending \in Drafts
    BY FitsStore DEF StoreOK
  <1>4. PICK j : /\ \/ j = [Idle EXCEPT !.kind = "drain", !.phase = "sync", !.item = db.pending]
                    \/ j = [Idle EXCEPT !.kind = "discard", !.item = db.pending]
                 /\ tab' = [tab EXCEPT ![t].job = j] /\ UNCHANGED <<srv, clock, edits, db, discarded>>
    BY Zenon DEF DrainStart, SeeUnsent
  <1>5. j \in Jobs /\ j.item = db.pending /\ j.ans = "none" /\ j.kind \in {"drain", "discard"}
    BY <1>3, <1>4, IdleOK DEF Jobs
  <1>6. JobOK(j, w)
    BY <1>3, <1>5 DEF JobOK
  <1> QED BY <1>2, <1>4, <1>6, JobStep

(* A change of a request's phase and answer, in either slot. *)
LEMMA SlotOK ==
  ASSUME NEW w, NEW x, TabOK(x, w), NEW slot \in Slots, NEW ans \in Answers, NEW ver \in Nat,
         x[slot].phase # "none",
         ans = "ok" => InLog(ver, x[slot].item.text, w),
         ans = "version_conflict" => Recorded(x[slot].item.text, w)
  PROVE  TabOK([x EXCEPT ![slot].phase = "answered", ![slot].ans = ans, ![slot].ver = ver], w)
  <1> DEFINE j == [x[slot] EXCEPT !.phase = "answered", !.ans = ans, !.ver = ver]
             y == [x EXCEPT ![slot].phase = "answered", ![slot].ans = ans, ![slot].ver = ver]
  <1>1. x \in TabStates /\ slot \in {"job", "move"} /\ x[slot] \in Jobs /\ JobOK(x[slot], w)
    BY DEF TabOK, Slots, TabStates
  <1>2. j \in Jobs /\ j.item = x[slot].item /\ j.kind = x[slot].kind /\ j.ans = ans /\ j.ver = ver
    BY <1>1 DEF Jobs
  <1>3. y = [x EXCEPT ![slot] = j]
    BY <1>1 DEF TabStates, Jobs
  <1> HIDE DEF j
  <1>4. JobOK(j, w)
    BY <1>1, <1>2 DEF JobOK
  <1>5. y \in TabStates /\ y.held = x.held /\ y.recovering = x.recovering
        /\ (slot = "job" => y.job = j /\ y.move = x.move) /\ (slot = "move" => y.move = j /\ y.job = x.job)
    BY <1>1, <1>2, <1>3 DEF TabStates
  <1> HIDE DEF y
  <1>6. slot = "job" => j.kind = x.job.kind
    BY <1>2
  <1>7. TabOK(y, w)
    BY <1>1, <1>4, <1>5, <1>6 DEF TabOK
  <1> QED BY <1>7 DEF y

LEMMA SlotFailed ==
  ASSUME NEW w, NEW x, TabOK(x, w), NEW slot \in Slots, NEW ans \in {"keys", "network"},
         x[slot].phase # "none"
  PROVE  TabOK([x EXCEPT ![slot].phase = "answered", ![slot].ans = ans], w)
  <1> DEFINE j == [x[slot] EXCEPT !.phase = "answered", !.ans = ans]
             y == [x EXCEPT ![slot].phase = "answered", ![slot].ans = ans]
  <1>1. x \in TabStates /\ slot \in {"job", "move"} /\ x[slot] \in Jobs /\ JobOK(x[slot], w)
    BY DEF TabOK, Slots, TabStates
  <1>2. j \in Jobs /\ j.item = x[slot].item /\ j.kind = x[slot].kind /\ j.ans = ans
    BY <1>1 DEF Jobs, Answers
  <1>3. y = [x EXCEPT ![slot] = j]
    BY <1>1 DEF TabStates, Jobs
  <1> HIDE DEF j
  <1>4. JobOK(j, w)
    BY <1>1, <1>2 DEF JobOK
  <1>5. y \in TabStates /\ y.held = x.held /\ y.recovering = x.recovering
        /\ (slot = "job" => y.job = j /\ y.move = x.move) /\ (slot = "move" => y.move = j /\ y.job = x.job)
    BY <1>1, <1>2, <1>3 DEF TabStates
  <1> HIDE DEF y
  <1>6. slot = "job" => j.kind = x.job.kind
    BY <1>2
  <1>7. TabOK(y, w)
    BY <1>1, <1>4, <1>5, <1>6 DEF TabOK
  <1> QED BY <1>7 DEF y

LEMMA LoseKeeps ==
  ASSUME SaveTyped, NEW w, GoodWorld(w), Fits(w), NEW t \in Tabs, NEW slot \in Slots, Lose(t, slot)
  PROVE  SaveInv'
  <1> DEFINE x == tab[t]
             y == [x EXCEPT ![slot].phase = "answered", ![slot].ans = "network"]
  <1>1. x \in TabStates /\ slot \in {"job", "move"} /\ TabOK(x, w) /\ x[slot].ver \in Nat /\ tab \in [Tabs -> TabStates]
    BY TabFacts DEF Slots, TabStates, Jobs, SaveTyped
  <1>2. tab' = [tab EXCEPT ![t][slot].phase = "answered", ![t][slot].ans = "network"]
        /\ UNCHANGED <<srv, clock, edits, db, discarded>> /\ x[slot].phase \in {"sent", "answered"}
    BY DEF Lose
  <1>3. tab' = [tab EXCEPT ![t] = y]
    BY <1>1, <1>2 DEF TabStates, Jobs
  <1> HIDE DEF x
  <1>4. TabOK(y, w)
    BY <1>1, <1>2, SlotFailed
  <1>5. StoreOK(db', w) /\ discarded' \subseteq Nat
    BY <1>2, FitsStore DEF SaveTyped
  <1> HIDE DEF y
  <1> QED BY <1>2, <1>3, <1>4, <1>5, TabStep

(* A request reaches the server, or is stopped by the outbound gate. *)
LEMMA DeliverKeeps ==
  ASSUME SaveTyped, NEW w, GoodWorld(w), Fits(w), NEW t \in Tabs, NEW slot \in Slots, Deliver(t, slot)
  PROVE  SaveInv'
  <1> DEFINE x == tab[t]
             item == x[slot].item
             y(ans, ver) == [x EXCEPT ![slot].phase = "answered", ![slot].ans = ans, ![slot].ver = ver]
  <1>1. x \in TabStates /\ slot \in {"job", "move"} /\ TabOK(x, w) /\ x[slot].ver \in Nat /\ tab \in [Tabs -> TabStates]
        /\ DraftOK(item, w)
    BY TabFacts DEF Slots, TabStates, Jobs, SaveTyped
  <1>2. x[slot].phase = "sent" /\ UNCHANGED <<clock, edits, db, discarded>>
    BY DEF Deliver
  <1>3. CASE tab[t].key # item.gen
    <2>1. tab' = [tab EXCEPT ![t][slot].phase = "answered", ![t][slot].ans = "keys"] /\ srv' = srv
      BY <1>3 DEF Deliver
    <2> DEFINE z == [x EXCEPT ![slot].phase = "answered", ![slot].ans = "keys"]
    <2>2. tab' = [tab EXCEPT ![t] = z]
      BY <1>1, <2>1 DEF TabStates, Jobs
    <2> HIDE DEF x
    <2>3. TabOK(z, w)
      BY <1>1, <1>2, SlotFailed
    <2>4. StoreOK(db', w) /\ discarded' \subseteq Nat
      BY <1>2, FitsStore DEF SaveTyped
    <2> HIDE DEF z
    <2> QED BY <1>2, <2>1, <2>2, <2>3, <2>4, TabStep
  <1>4. CASE tab[t].key = item.gen
    <2> DEFINE a == Answer(item)
    <2>1. /\ tab' = [tab EXCEPT ![t][slot].phase = "answered", ![t][slot].ans = a.code, ![t][slot].ver = a.ver]
          /\ srv' = AfterSave(item)
      BY <1>4 DEF Deliver
    <2>2. tab' = [tab EXCEPT ![t] = y(a.code, a.ver)]
      <3> HIDE DEF a
      <3> QED BY <1>1, <2>1 DEF TabStates, Jobs
    <2>3. PICK w2 : Served(item, w, w2)
      BY <1>1, ServedOK
    <2>4. /\ GoodWorld(w2) /\ Grows(w, w2) /\ w2.legacy = w.legacy /\ w2.clk = w.clk
          /\ w2.conflicts = srv'.conflicts /\ w2.log = srv'.log
          /\ srv' \in Servers /\ srv'.log # << >> /\ a.code \in Answers /\ a.ver \in Nat
          /\ \A i \in srv'.idem : i \in srv.idem \/ IdemOK(i, w2)
          /\ a.code = "ok" => InLog(a.ver, item.text, w2)
          /\ a.code = "version_conflict" => Recorded(item.text, w2)
      BY <2>1, <2>3 DEF Served
    <2> HIDE DEF a, x
    <2>5. TabOK(x, w2)
      BY <1>1, <2>4, TabGrows
    <2>6. TabOK(y(a.code, a.ver), w2)
      BY <1>1, <1>2, <2>4, <2>5, SlotOK
    <2>7. StoreOK(db', w2)
      <3>1. StoreOK(db, w)
        BY FitsStore
      <3> QED BY <1>2, <2>4, <3>1, StoreGrows
    <2>8. y(a.code, a.ver) \in TabStates
      BY <2>6 DEF TabOK
    <2> HIDE DEF y
    <2>9. tab' \in [Tabs -> TabStates] /\ \A u \in Tabs : tab'[u] = tab[u] \/ TabOK(tab'[u], w2)
      BY <1>1, <2>2, <2>6, <2>8
    <2>10. w2.clk = clock' /\ edits' \in Nat /\ discarded' \subseteq Nat
      BY <1>2, <2>4 DEF Fits, SaveTyped
    <2> QED BY <2>4, <2>7, <2>9, <2>10, Rebuilt
  <1> QED BY <1>3, <1>4

LEMMA MarkedOK ==
  ASSUME NEW w, NEW item, DraftOK(item, w), NEW mark \in {"previousKey", "gone", "conflicted"},
         mark = "conflicted" => Recorded(item.text, w)
  PROVE  /\ DraftOK(Marked(item, mark), w) /\ Marked(item, mark).text = item.text
         /\ Marked(item, mark).base = item.base /\ Marked(item, mark).seal = item.seal
  <1> DEFINE m == Marked(item, mark)
  <1>1. item \in Drafts
    BY DEF DraftOK, SealOK
  <1>2. m \in Drafts /\ m.text = item.text /\ m.base = item.base /\ m.seal = item.seal
        /\ m.marks = item.marks \cup {mark}
    BY <1>1 DEF Marked, Drafts
  <1> HIDE DEF m
  <1>3. DraftOK(m, w)
    BY <1>2 DEF DraftOK, SealOK
  <1> QED BY <1>2, <1>3 DEF m

-----------------------------------------------------------------------------
(* Conflict recovery and the Settings screen. *)

LEMMA RecoverReloadKeeps ==
  ASSUME SaveTyped, NEW w, GoodWorld(w), Fits(w), NEW t \in Tabs, RecoverReload(t)
  PROVE  SaveInv'
  <1> DEFINE x == tab[t]
             entry == IF "conflicted" \in db.pending.marks THEN db.pending ELSE NoDraft
             j == [Idle EXCEPT !.kind = "recover", !.item = entry]
             y == [x EXCEPT !.recovering = TRUE, !.text = HeadText, !.base = Version,
                            !.dirty = FALSE, !.flushed = TRUE, !.todo = srv.unresolved, !.failed = FALSE, !.job = j]
  <1>1. x \in TabStates /\ TabOK(x, w) /\ tab \in [Tabs -> TabStates]
    BY TabFacts DEF SaveTyped
  <1>2. HeadText \in Texts /\ Version \in Nat /\ srv.unresolved \in SUBSET Nat
    BY ServerFacts
  <1>3. DraftOK(entry, w) /\ entry \in Drafts /\ (Has(entry) => "conflicted" \in entry.marks)
    <2>1. ~Has(NoDraft) /\ DraftOK(NoDraft, w) /\ NoDraft \in Drafts
      BY NoDraftOK DEF Has, NoDraft
    <2> QED BY <2>1, FitsStore DEF StoreOK
  <1> HIDE DEF entry
  <1>4. j \in Jobs /\ j.item = entry /\ j.kind = "recover" /\ j.ans = "none" /\ j.phase = "none"
    BY <1>3, IdleOK DEF Jobs
  <1>5. tab' = [tab EXCEPT ![t] = y] /\ UNCHANGED <<srv, clock, edits, db, discarded>>
    <2> HIDE DEF j
    <2>1. tab' = [tab EXCEPT ![t].recovering = TRUE, ![t].text = HeadText, ![t].base = Version,
                             ![t].dirty = FALSE, ![t].flushed = TRUE, ![t].todo = srv.unresolved,
                             ![t].failed = FALSE, ![t].job = j]
      BY Zenon DEF RecoverReload, j, entry
    <2>2. UNCHANGED <<srv, clock, edits, db, discarded>>
      BY Zenon DEF RecoverReload
    <2> QED BY <1>1, <2>1, <2>2 DEF TabStates
  <1> HIDE DEF j
  <1>6. JobOK(j, w)
    BY <1>3, <1>4 DEF JobOK
  <1>7. y \in TabStates /\ y.held = x.held /\ y.job = j /\ y.move = x.move
    BY <1>1, <1>2, <1>4 DEF TabStates
  <1> HIDE DEF y
  <1>8. TabOK(y, w)
    BY <1>1, <1>4, <1>6, <1>7 DEF TabOK
  <1>9. StoreOK(db', w) /\ discarded' \subseteq Nat
    BY <1>5, FitsStore DEF SaveTyped
  <1> QED BY <1>5, <1>8, <1>9, TabStep

LEMMA RecoverSkipKeeps ==
  ASSUME SaveTyped, NEW w, GoodWorld(w), Fits(w), NEW t \in Tabs, RecoverSkip(t)
  PROVE  SaveInv'
  <1>1. tab[t] \in TabStates /\ TabOK(tab[t], w)
    BY TabFacts
  <1>2. PICK c \in tab[t].todo : tab' = [tab EXCEPT ![t].todo = @ \ {c}, ![t].failed = TRUE]
                                 /\ UNCHANGED <<srv, clock, edits, db, discarded>>
    BY Zenon DEF RecoverSkip
  <1> DEFINE y == [tab[t] EXCEPT !.todo = @ \ {c}, !.failed = TRUE]
  <1>3. tab' = [tab EXCEPT ![t] = y]
    BY <1>1, <1>2 DEF TabStates, SaveTyped
  <1>4. y \in TabStates /\ SameCore(tab[t], y)
    BY <1>1 DEF TabStates, SameCore
  <1> HIDE DEF y
  <1>5. TabOK(y, w) /\ StoreOK(db', w) /\ discarded' \subseteq Nat
    BY <1>1, <1>2, <1>4, CoreOK, FitsStore DEF SaveTyped
  <1> QED BY <1>2, <1>3, <1>5, TabStep

LEMMA RecoverCopyKeeps ==
  ASSUME SaveTyped, NEW w, GoodWorld(w), Fits(w), NEW t \in Tabs, RecoverCopy(t)
  PROVE  SaveInv'
  <1>1. tab[t] \in TabStates /\ TabOK(tab[t], w) /\ tab \in [Tabs -> TabStates]
    BY TabFacts DEF SaveTyped
  <1>2. PICK c \in srv.conflicts :
          /\ tab' = [tab EXCEPT ![t].todo = @ \ {c.seal}]
          /\ srv' = [srv EXCEPT !.unresolved = @ \ {c.seal},
                                !.copies = IF c.text = tab[t].text THEN @ ELSE @ \cup c.text]
          /\ UNCHANGED <<clock, edits, db, discarded>>
    BY Zenon DEF RecoverCopy
  <1> DEFINE y == [tab[t] EXCEPT !.todo = @ \ {c.seal}]
             unresolved == srv.unresolved \ {c.seal}
             copies == IF c.text = tab[t].text THEN srv.copies ELSE srv.copies \cup c.text
  <1>3. unresolved \in SUBSET Nat /\ copies \in Texts
    BY ServerFacts DEF Entries, Texts
  <1>4. srv' = [srv EXCEPT !.unresolved = unresolved, !.copies = copies]
    BY <1>2
  <1>5. tab' = [tab EXCEPT ![t] = y]
    BY <1>1, <1>2 DEF TabStates
  <1> HIDE DEF unresolved, copies
  <1>6. srv' \in Servers /\ srv'.log = srv.log /\ srv'.conflicts = srv.conflicts /\ srv'.idem = srv.idem
    BY <1>3, <1>4, ServerFacts DEF Servers
  <1>7. y \in TabStates /\ SameCore(tab[t], y)
    BY <1>1 DEF TabStates, SameCore
  <1> HIDE DEF y
  <1>8. TabOK(y, w) /\ StoreOK(db', w) /\ edits' \in Nat /\ discarded' \subseteq Nat
    BY <1>1, <1>2, <1>7, CoreOK, FitsStore DEF SaveTyped
  <1>9. tab' \in [Tabs -> TabStates] /\ \A u \in Tabs : tab'[u] = tab[u] \/ TabOK(tab'[u], w)
    BY <1>1, <1>5, <1>7, <1>8
  <1>10. w.clk = clock' /\ w.conflicts = srv'.conflicts /\ w.log = srv'.log /\ srv'.log # << >>
    BY <1>2, <1>6 DEF Fits, SaveTyped
  <1> QED BY <1>6, <1>8, <1>9, <1>10, GrowsSelf, Rebuilt

LEMMA RecoverEndKeeps ==
  ASSUME SaveTyped, NEW w, GoodWorld(w), Fits(w), NEW t \in Tabs, RecoverEnd(t)
  PROVE  SaveInv'
  <1> DEFINE x == tab[t]
             entry == tab[t].job.item
  <1>1. x \in TabStates /\ TabOK(x, w) /\ DraftOK(entry, w) /\ StoreOK(db, w) /\ tab \in [Tabs -> TabStates]
    BY TabFacts, FitsStore DEF SaveTyped
  <1>2. StoreOK(AfterSettle(entry, 0), w)
    BY <1>1, SettleOK
  <1>3. StoreOK(db', w)
    BY <1>1, <1>2 DEF RecoverEnd
  <1>4. PICK held \in {NoDraft, x.held}, conflicted \in BOOLEAN :
          tab' = [tab EXCEPT ![t].recovering = FALSE, ![t].failed = FALSE, ![t].job = Idle,
                             ![t].held = held, ![t].conflicted = conflicted]
    <2> DEFINE clean == /\ ~tab[t].failed
                        /\ ~Has((IF tab[t].failed \/ ~Has(entry) THEN db ELSE AfterSettle(entry, 0)).pending)
    <2>1. tab' = [tab EXCEPT ![t].recovering = FALSE, ![t].failed = FALSE, ![t].job = Idle,
                             ![t].held = IF clean THEN NoDraft ELSE @, ![t].conflicted = @ /\ ~clean]
      BY Zenon DEF RecoverEnd
    <2> HIDE DEF clean
    <2>2. PICK b \in BOOLEAN : b = (tab[t].conflicted /\ ~clean)
      BY Zenon
    <2>3. tab' = [tab EXCEPT ![t].recovering = FALSE, ![t].failed = FALSE, ![t].job = Idle,
                             ![t].held = IF clean THEN NoDraft ELSE x.held, ![t].conflicted = b]
      BY <1>1, <2>1, <2>2 DEF TabStates
    <2> QED BY <2>3
  <1> DEFINE y == [x EXCEPT !.recovering = FALSE, !.failed = FALSE, !.job = Idle,
                            !.held = held, !.conflicted = conflicted]
  <1>5. tab' = [tab EXCEPT ![t] = y]
    BY <1>1, <1>4 DEF TabStates
  <1>6. DraftOK(held, w) /\ held \in Drafts /\ Idle \in Jobs /\ JobOK(Idle, w)
    BY <1>1, <1>4, NoDraftOK, IdleOK DEF TabOK, DraftOK, SealOK
  <1>7. y \in TabStates /\ y.held = held /\ y.job = Idle /\ y.move = x.move /\ ~y.recovering
    BY <1>1, <1>4, <1>6 DEF TabStates
  <1> HIDE DEF y
  <1>8. TabOK(y, w)
    BY <1>1, <1>6, <1>7 DEF TabOK
  <1>9. UNCHANGED <<srv, clock, edits, discarded>> /\ discarded' \subseteq Nat
    BY DEF RecoverEnd, SaveTyped
  <1> QED BY <1>3, <1>5, <1>8, <1>9, TabStep

LEMMA DiscardKeeps ==
  ASSUME SaveTyped, NEW w, GoodWorld(w), Fits(w), NEW t \in Tabs, Discard(t)
  PROVE  SaveInv'
  <1> DEFINE item == tab[t].job.item
  <1>1. tab[t] \in TabStates /\ TabOK(tab[t], w) /\ DraftOK(item, w) /\ StoreOK(db, w)
    BY TabFacts, FitsStore
  <1>2. ~tab[t].recovering
    BY <1>1, NotRecovering DEF Discard
  <1>3. item.text \subseteq Nat /\ db.cache.text \subseteq Nat
    BY <1>1, FitsStore DEF DraftOK, SealOK, Drafts, Texts
  <1>4. tab' = [tab EXCEPT ![t].job = Idle] /\ UNCHANGED <<srv, clock, edits>> /\ discarded' \subseteq Nat
        /\ (db' = db \/ db' = [cache |-> NoDraft, pending |-> NoDraft])
    BY <1>3 DEF Discard, SaveTyped
  <1>5. StoreOK(db', w)
    BY <1>1, <1>4, NoDraftOK DEF StoreOK, Stores
  <1> DEFINE y == [tab[t] EXCEPT !.job = Idle]
  <1>6. TabOK(y, w)
    BY <1>1, <1>2, IdleOK, JobPut
  <1>7. tab' = [tab EXCEPT ![t] = y]
    BY <1>1, <1>4 DEF SaveTyped, TabStates
  <1> HIDE DEF y
  <1> QED BY <1>4, <1>5, <1>6, <1>7, TabStep

LEMMA RemovePageKeeps ==
  ASSUME SaveTyped, NEW w, GoodWorld(w), Fits(w), NEW t \in Tabs, RemovePage(t)
  PROVE  SaveInv'
  <1> DEFINE y == [tab[t] EXCEPT !.open = FALSE, !.listed = FALSE, !.dirty = FALSE]
  <1>1. tab[t] \in TabStates /\ TabOK(tab[t], w) /\ StoreOK(db, w) /\ tab \in [Tabs -> TabStates]
        /\ tab[t].text \subseteq Nat /\ db.cache.text \subseteq Nat
    BY TabFacts, FitsStore DEF SaveTyped, Texts, Drafts
  <1>2. tab' = [tab EXCEPT ![t] = y]
    BY <1>1 DEF RemovePage, TabStates
  <1>3. y \in TabStates /\ SameCore(tab[t], y)
    BY <1>1 DEF TabStates, SameCore
  <1> HIDE DEF y
  <1>4. TabOK(y, w)
    BY <1>1, <1>3, CoreOK
  <1>5. srv' = [srv EXCEPT !.gone = TRUE] /\ db' = [db EXCEPT !.cache = NoDraft] /\ UNCHANGED <<clock, edits>>
        /\ discarded' \subseteq Nat
    BY <1>1 DEF RemovePage, SaveTyped
  <1>6. srv' \in Servers /\ srv'.log = srv.log /\ srv'.conflicts = srv.conflicts /\ srv'.idem = srv.idem
    BY <1>5, ServerFacts DEF Servers
  <1>7. StoreOK(db', w)
    BY <1>1, <1>5, NoDraftOK DEF StoreOK, Stores
  <1>8. tab' \in [Tabs -> TabStates] /\ \A u \in Tabs : tab'[u] = tab[u] \/ TabOK(tab'[u], w)
    BY <1>1, <1>2, <1>3, <1>4
  <1>9. w.clk = clock' /\ w.conflicts = srv'.conflicts /\ w.log = srv'.log /\ srv'.log # << >> /\ edits' \in Nat
    BY <1>5, <1>6 DEF Fits, SaveTyped
  <1> QED BY <1>5, <1>6, <1>7, <1>8, <1>9, GrowsSelf, Rebuilt

-----------------------------------------------------------------------------
(* Answers. *)

LEMMA CarriedOK ==
  ASSUME NEW w, NEW x, TabOK(x, w), NEW ver \in Nat
  PROVE  Carried(x, ver) \in TabStates /\ SameCore(x, Carried(x, ver)) /\ TabOK(Carried(x, ver), w)
  <1> DEFINE base == IF x.listed THEN Higher(x.base, ver) ELSE x.base
             load == [x.load EXCEPT !.carried = IF x.load.on THEN ver ELSE x.load.carried]
             y == [x EXCEPT !.base = base, !.load = load]
  <1>1. x \in TabStates /\ x.load \in Loads /\ x.base \in Nat
    BY DEF TabOK, TabStates
  <1>2. base \in Nat /\ load \in Loads
    BY <1>1 DEF Higher, Loads
  <1>3. Carried(x, ver) = y
    BY <1>1 DEF Carried, TabStates, Loads
  <1> HIDE DEF base, load
  <1>4. y \in TabStates /\ SameCore(x, y)
    BY <1>1, <1>2 DEF TabStates, SameCore
  <1> HIDE DEF y
  <1> QED BY <1>3, <1>4, CoreOK

(* What the answer of a request does to the store and to the drafts. *)
LEMMA AnswerStores ==
  ASSUME SaveTyped, NEW w, GoodWorld(w), Fits(w), NEW j, JobOK(j, w)
  PROVE  /\ j.ver \in Nat /\ StoreOK(db, w)
         /\ j.ans = "ok" => StoreOK(AfterSettle(j.item, j.ver), w)
         /\ j.ans = "version_conflict" => StoreOK(AfterReplace(j.item, Marked(j.item, "conflicted")), w)
         /\ StoreOK(AfterReplace(j.item, Marked(j.item, "gone")), w)
         /\ StoreOK([db EXCEPT !.pending = j.item], w)
         /\ StoreOK([db EXCEPT !.pending = Marked(j.item, "gone")], w)
  <1>1. j.ver \in Nat /\ StoreOK(db, w) /\ DraftOK(j.item, w) /\ db \in Stores
    BY FitsStore DEF JobOK, Jobs, StoreOK
  <1>2. j.ans = "ok" => StoreOK(AfterSettle(j.item, j.ver), w)
    BY <1>1, SettleOK DEF JobOK
  <1>3. ASSUME NEW mark \in {"gone", "conflicted"}, mark = "conflicted" => Recorded(j.item.text, w)
        PROVE  /\ StoreOK(AfterReplace(j.item, Marked(j.item, mark)), w)
               /\ DraftOK(Marked(j.item, mark), w)
    <2> DEFINE m == Marked(j.item, mark)
    <2>1. DraftOK(m, w) /\ m.text = j.item.text /\ m.base = j.item.base /\ m.seal = j.item.seal
      BY <1>1, <1>3, MarkedOK
    <2> HIDE DEF m
    <2>2. StoreOK(AfterReplace(j.item, m), w)
      BY <1>1, <2>1, ReplaceOK DEF Has
    <2> QED BY <2>1, <2>2 DEF m
  <1>4. ASSUME NEW d, DraftOK(d, w) PROVE StoreOK([db EXCEPT !.pending = d], w)
    <2> DEFINE s == [db EXCEPT !.pending = d]
    <2>1. d \in Drafts
      BY <1>4 DEF DraftOK, SealOK
    <2>2. s \in Stores /\ s.cache = db.cache /\ s.pending = d
      BY <1>1, <2>1 DEF Stores
    <2> HIDE DEF s
    <2>3. StoreOK(s, w)
      BY <1>1, <1>4, <2>2 DEF StoreOK
    <2> QED BY <2>3 DEF s
  <1>5. j.ans = "version_conflict" => Recorded(j.item.text, w)
    BY DEF JobOK
  <1> QED BY <1>1, <1>2, <1>3, <1>4, <1>5

LEMMA DrainAnsweredKeeps ==
  ASSUME SaveTyped, NEW w, GoodWorld(w), Fits(w), NEW t \in Tabs, DrainAnswered(t)
  PROVE  SaveInv'
  <1> DEFINE x == tab[t]
             j == tab[t].job
  <1>1. /\ x \in TabStates /\ TabOK(x, w) /\ JobOK(j, w) /\ j \in Jobs /\ tab \in [Tabs -> TabStates]
        /\ DraftOK(j.item, w) /\ j.item \in Drafts
    BY TabFacts DEF SaveTyped, DraftOK, SealOK
  <1>2. j.kind = "drain" /\ j.phase = "answered" /\ UNCHANGED <<srv, clock, edits, discarded>> /\ discarded' \subseteq Nat
    BY DEF DrainAnswered, SaveTyped
  <1>3. ~x.recovering
    BY <1>1, <1>2, NotRecovering
  <1>4. /\ Idle \in Jobs /\ JobOK(Idle, w) /\ NoDraft \in Drafts /\ DraftOK(NoDraft, w)
    BY IdleOK, NoDraftOK
  <1>5. ASSUME NEW y, TabOK(y, w), tab' = [tab EXCEPT ![t] = y], StoreOK(db', w) PROVE SaveInv'
    BY <1>2, <1>5, TabStep
  <1>6. CASE j.ans = "ok"
    <2> DEFINE c == Carried(x, j.ver)
               y == [c EXCEPT !.job = Idle, !.held = NoDraft]
    <2>1. c \in TabStates /\ SameCore(x, c) /\ TabOK(c, w)
      BY <1>1, AnswerStores, CarriedOK
    <2>2. db' = AfterSettle(j.item, j.ver) /\ tab' = [tab EXCEPT ![t] = [c EXCEPT !.job = Idle], ![t].held = NoDraft]
      BY <1>6, Zenon DEF DrainAnswered
    <2> HIDE DEF c
    <2>3. tab' = [tab EXCEPT ![t] = y]
      BY <1>1, <2>1, <2>2 DEF TabStates
    <2>4. y \in TabStates /\ y.job = Idle /\ y.held = NoDraft /\ y.move = c.move /\ y.recovering = c.recovering
      BY <1>4, <2>1 DEF TabStates
    <2> HIDE DEF y
    <2>5. TabOK(y, w)
      BY <1>3, <1>4, <2>1, <2>4 DEF TabOK, SameCore
    <2>6. StoreOK(db', w)
      BY <1>1, <1>6, <2>2, AnswerStores
    <2> QED BY <1>5, <2>3, <2>5, <2>6
  <1>7. CASE j.ans = "version_conflict"
    <2> DEFINE y == [x EXCEPT !.job = Idle, !.held = j.item, !.conflicted = TRUE]
    <2>1. /\ db' = AfterReplace(j.item, Marked(j.item, "conflicted"))
          /\ tab' = [tab EXCEPT ![t].job = Idle, ![t].held = j.item, ![t].conflicted = TRUE]
      <3>1. j.ans # "ok"
        BY <1>7
      <3> QED BY <1>7, <3>1, Zenon DEF DrainAnswered
    <2>2. tab' = [tab EXCEPT ![t] = y]
      BY <1>1, <2>1 DEF TabStates
    <2>3. y \in TabStates /\ y.job = Idle /\ y.held = j.item /\ y.move = x.move /\ y.recovering = x.recovering
      BY <1>1, <1>4 DEF TabStates
    <2> HIDE DEF y
    <2>4. TabOK(y, w)
      BY <1>1, <1>3, <1>4, <2>3 DEF TabOK
    <2>5. StoreOK(db', w)
      BY <1>1, <1>7, <2>1, AnswerStores
    <2> QED BY <1>5, <2>2, <2>4, <2>5
  <1>8. CASE j.ans \notin {"ok", "version_conflict"}
    <2> DEFINE y == [x EXCEPT !.job = Idle]
    <2>1. /\ db' = AfterReplace(j.item, Marked(j.item, "gone")) \/ db' = db
          /\ tab' = [tab EXCEPT ![t].job = Idle]
      <3>1. CASE j.ans \in {"not_found", "forbidden"}
        <4>1. j.ans # "ok" /\ j.ans # "version_conflict"
          BY <1>8
        <4> QED BY <3>1, <4>1, Zenon DEF DrainAnswered
      <3>2. CASE j.ans \notin {"not_found", "forbidden"}
        <4>1. j.ans # "ok" /\ j.ans # "version_conflict"
          BY <1>8
        <4> QED BY <3>2, <4>1 DEF DrainAnswered
      <3> QED BY <3>1, <3>2
    <2>2. tab' = [tab EXCEPT ![t] = y] /\ TabOK(y, w)
      BY <1>1, <1>3, <1>4, <2>1, JobPut DEF TabStates
    <2>3. StoreOK(db', w)
      BY <1>1, <2>1, AnswerStores
    <2> HIDE DEF y
    <2> QED BY <1>5, <2>2, <2>3
  <1> QED BY <1>6, <1>7, <1>8

(* A request's slot is free again. *)
LEMMA SlotFreed ==
  ASSUME NEW w, GoodWorld(w), NEW x, TabOK(x, w), NEW slot \in Slots, slot = "job" => ~x.recovering,
         NEW held, DraftOK(held, w), NEW conflicted \in BOOLEAN, NEW dirty \in BOOLEAN, NEW flushed \in BOOLEAN
  PROVE  TabOK([x EXCEPT ![slot] = Idle, !.held = held, !.conflicted = conflicted,
                         !.dirty = dirty, !.flushed = flushed], w)
  <1> DEFINE y == [x EXCEPT ![slot] = Idle, !.held = held, !.conflicted = conflicted,
                            !.dirty = dirty, !.flushed = flushed]
  <1>1. x \in TabStates /\ slot \in {"job", "move"} /\ held \in Drafts
    BY DEF TabOK, Slots, DraftOK, SealOK
  <1>2. Idle \in Jobs /\ JobOK(Idle, w)
    BY IdleOK
  <1>3. y \in TabStates /\ y.held = held /\ y.recovering = x.recovering
        /\ (slot = "job" => y.job = Idle /\ y.move = x.move) /\ (slot = "move" => y.move = Idle /\ y.job = x.job)
    BY <1>1, <1>2, ZenonT(40) DEF TabStates
  <1> HIDE DEF y
  <1>4. TabOK(y, w)
    BY <1>1, <1>2, <1>3 DEF TabOK
  <1> QED BY <1>4 DEF y

LEMMA AnsweredKeeps ==
  ASSUME SaveTyped, NEW w, GoodWorld(w), Fits(w), NEW t \in Tabs, NEW slot \in Slots, Answered(t, slot)
  PROVE  SaveInv'
  <1> DEFINE x == tab[t]
             j == tab[t][slot]
             same == tab[t].text = j.item.text
  <1>1. /\ x \in TabStates /\ TabOK(x, w) /\ slot \in {"job", "move"} /\ tab \in [Tabs -> TabStates]
        /\ x.conflicted \in BOOLEAN /\ x.dirty \in BOOLEAN /\ x.flushed \in BOOLEAN
    BY TabFacts DEF SaveTyped, Slots, TabStates
  <1>2. JobOK(j, w) /\ j \in Jobs /\ DraftOK(j.item, w) /\ DraftOK(x.held, w)
    BY <1>1 DEF TabOK, JobOK
  <1>3. j.kind \in {"save", "move"} /\ UNCHANGED <<srv, clock, edits, discarded>> /\ discarded' \subseteq Nat
    BY DEF Answered, SaveTyped
  <1>4. slot = "job" => ~x.recovering
    BY <1>1, <1>3, NotRecovering
  <1>5. ASSUME NEW y, TabOK(y, w), tab' = [tab EXCEPT ![t] = y], StoreOK(db', w) PROVE SaveInv'
    BY <1>3, <1>5, TabStep
  <1>6. CASE j.ans = "ok"
    <2> DEFINE c == Carried(x, j.ver)
    <2>1. c \in TabStates /\ SameCore(x, c) /\ TabOK(c, w)
      BY <1>1, <1>2, AnswerStores, CarriedOK
    <2>2. /\ db' = AfterSettle(j.item, j.ver) \/ db' = db
          /\ tab' = [tab EXCEPT ![t] = [c EXCEPT ![slot] = Idle, !.held = NoDraft,
                       !.conflicted = x.conflicted /\ j.kind = "move",
                       !.dirty = x.dirty /\ (j.kind = "move" \/ ~same),
                       !.flushed = IF j.kind = "save" THEN same ELSE x.flushed]]
      BY <1>6, Zenon DEF Answered
    <2>4. PICK b1 \in BOOLEAN : b1 = (x.conflicted /\ j.kind = "move")
      BY Zenon
    <2>5. PICK b2 \in BOOLEAN : b2 = (x.dirty /\ (j.kind = "move" \/ ~same))
      BY Zenon
    <2>6. PICK b3 \in BOOLEAN : b3 = (IF j.kind = "save" THEN same ELSE x.flushed)
      BY <1>1, Zenon
    <2> DEFINE y == [c EXCEPT ![slot] = Idle, !.held = NoDraft, !.conflicted = b1, !.dirty = b2, !.flushed = b3]
    <2>8. tab' = [tab EXCEPT ![t] = y]
      BY <2>2, <2>4, <2>5, <2>6, Zenon
    <2>9. slot = "job" => ~c.recovering
      BY <1>4, <2>1 DEF SameCore
    <2> HIDE DEF c
    <2>10. TabOK(y, w)
      BY <2>1, <2>9, NoDraftOK, SlotFreed
    <2>11. StoreOK(db', w)
      BY <1>2, <1>6, <2>2, AnswerStores
    <2> HIDE DEF y
    <2> QED BY <1>5, <2>8, <2>10, <2>11
  <1>7. CASE j.ans = "version_conflict"
    <2>1. /\ db' = AfterReplace(j.item, Marked(j.item, "conflicted")) \/ db' = db
          /\ tab' = [tab EXCEPT ![t][slot] = Idle, ![t].held = j.item, ![t].conflicted = TRUE,
                                ![t].flushed = IF j.kind = "save" THEN same ELSE @]
      <3>1. j.ans # "ok"
        BY <1>7
      <3> QED BY <1>7, <3>1, Zenon DEF Answered
    <2>2. PICK b3 \in BOOLEAN : b3 = (IF j.kind = "save" THEN same ELSE x.flushed)
      BY <1>1, Zenon
    <2> HIDE DEF same
    <2> DEFINE y == [x EXCEPT ![slot] = Idle, !.held = j.item, !.conflicted = TRUE, !.dirty = x.dirty, !.flushed = b3]
    <2>3. tab' = [tab EXCEPT ![t] = y]
      BY <1>1, <2>1, <2>2, ZenonT(40) DEF TabStates
    <2>4. TabOK(y, w)
      BY <1>1, <1>2, <1>4, SlotFreed, ZenonT(40)
    <2>5. StoreOK(db', w)
      BY <1>2, <1>7, <2>1, AnswerStores
    <2> HIDE DEF y
    <2> QED BY <1>5, <2>3, <2>4, <2>5
  <1>8. CASE j.ans \notin {"ok", "version_conflict"}
    <2>1. PICK kept \in BOOLEAN :
            /\ \/ db' = db \/ db' = [db EXCEPT !.pending = j.item]
               \/ db' = [db EXCEPT !.pending = Marked(j.item, "gone")]
            /\ tab' = [tab EXCEPT ![t][slot] = Idle, ![t].flushed = IF j.kind = "save" THEN same /\ kept ELSE @]
      <3>1. j.ans # "ok" /\ j.ans # "version_conflict"
        BY <1>8
      <3> QED BY <3>1, Zenon DEF Answered
    <2>2. PICK b3 \in BOOLEAN : b3 = (IF j.kind = "save" THEN same /\ kept ELSE x.flushed)
      BY <1>1, Zenon
    <2> HIDE DEF same
    <2> DEFINE y == [x EXCEPT ![slot] = Idle, !.held = x.held, !.conflicted = x.conflicted,
                              !.dirty = x.dirty, !.flushed = b3]
    <2>3. tab' = [tab EXCEPT ![t] = y]
      BY <1>1, <2>1, <2>2 DEF TabStates
    <2>4. TabOK(y, w)
      BY <1>1, <1>2, <1>4, SlotFreed, ZenonT(40)
    <2>5. StoreOK(db', w)
      BY <1>2, <2>1, AnswerStores
    <2> HIDE DEF y
    <2> QED BY <1>5, <2>3, <2>4, <2>5
  <1> QED BY <1>6, <1>7, <1>8

-----------------------------------------------------------------------------
(* Steps that may seal a draft anew. *)

LEMMA SealStep ==
  ASSUME SaveTyped, NEW w, GoodWorld(w), Fits(w), NEW w2, OnlySeals(w, w2), w2.clk = clock',
         NEW t \in Tabs, NEW y, TabOK(y, w2), tab' = [tab EXCEPT ![t] = y], StoreOK(db', w2),
         srv' = srv, discarded' = discarded, edits' \in Nat
  PROVE  SaveInv'
  <1>1. y \in TabStates
    BY DEF TabOK
  <1>2. tab' \in [Tabs -> TabStates] /\ \A u \in Tabs : tab'[u] = tab[u] \/ TabOK(tab'[u], w2)
    BY <1>1 DEF SaveTyped
  <1>3. GoodWorld(w2) /\ Grows(w, w2) /\ w2.conflicts = srv'.conflicts /\ w2.log = srv'.log /\ srv' \in Servers
        /\ srv'.log # << >> /\ discarded' \subseteq Nat
    BY DEF Fits, SaveTyped, OnlySeals
  <1> QED BY <1>2, <1>3, Rebuilt

LEMMA SendingOK ==
  ASSUME NEW w, GoodWorld(w), NEW item, DraftOK(item, w), NEW kind \in {"save", "move", "drain"},
         kind \in {"save", "move"} => Has(item)
  PROVE  JobOK(Sending(kind, item), w)
  <1> DEFINE j == Sending(kind, item)
  <1>1. item \in Drafts
    BY DEF DraftOK, SealOK
  <1>2. j \in Jobs /\ j.item = item /\ j.ans = "none" /\ j.kind = kind
    BY <1>1, IdleOK DEF Sending, Jobs
  <1> HIDE DEF j
  <1>3. JobOK(j, w)
    BY <1>2 DEF JobOK
  <1> QED BY <1>3 DEF j

LEMMA SaveStartKeeps ==
  ASSUME SaveTyped, NEW w, GoodWorld(w), Fits(w), NEW t \in Tabs, SaveStart(t)
  PROVE  SaveInv'
  <1> DEFINE x == tab[t]
             item == Prepared(tab[t].text, tab[t].base, tab[t].key)
  <1>1. /\ x \in TabStates /\ TabOK(x, w) /\ tab \in [Tabs -> TabStates]
        /\ x.text \in Texts /\ x.base \in Nat /\ x.key \in Nat
    BY TabFacts DEF SaveTyped
  <1>2. x.job.kind = "idle"
    BY IdleOK DEF SaveStart
  <1>3. ~x.recovering
    BY <1>1, <1>2, NotRecovering
  <1>4. PICK w2 : OnlySeals(w, w2) /\ DraftOK(item, w2) /\ w2.clk = Higher(clock, item.seal) /\ Has(item)
    BY <1>1, PreparedOK
  <1>5. PICK kept \in BOOLEAN :
          /\ \/ db' = db \/ db' = AfterPutDraft(item) \/ db' = [AfterPutDraft(item) EXCEPT !.pending.marks = {}]
          /\ \/ tab' = [tab EXCEPT ![t].flushed = kept]
             \/ tab' = [tab EXCEPT ![t].job = Sending("save", item)]
    BY Zenon DEF SaveStart
  <1>6. clock' = Higher(clock, item.seal) /\ UNCHANGED <<srv, edits, discarded>> /\ edits' \in Nat
    BY DEF SaveStart, SaveTyped
  <1> HIDE DEF item
  <1>7. GoodWorld(w2) /\ Grows(w, w2) /\ w2.legacy = w.legacy
    BY <1>4 DEF OnlySeals
  <1>8. StoreOK(db', w2)
    <2>1. StoreOK(db, w2)
      BY <1>7, FitsStore, StoreGrows
    <2> QED BY <1>4, <1>5, <1>7, <2>1, PutOK
  <1>9. TabOK(x, w2) /\ JobOK(Sending("save", item), w2)
    BY <1>1, <1>4, <1>7, TabGrows, SendingOK
  <1>10. CASE tab' = [tab EXCEPT ![t].flushed = kept]
    <2> DEFINE y == [x EXCEPT !.flushed = kept]
    <2>1. y \in TabStates /\ SameCore(x, y) /\ tab' = [tab EXCEPT ![t] = y]
      BY <1>1, <1>10 DEF TabStates, SameCore
    <2> HIDE DEF y
    <2>2. TabOK(y, w2)
      BY <1>9, <2>1, CoreOK
    <2> QED BY <1>4, <1>6, <1>8, <2>1, <2>2, SealStep
  <1>11. CASE tab' = [tab EXCEPT ![t].job = Sending("save", item)]
    <2> DEFINE y == [x EXCEPT !.job = Sending("save", item)]
    <2>1. TabOK(y, w2)
      BY <1>3, <1>9, JobPut
    <2>2. tab' = [tab EXCEPT ![t] = y]
      BY <1>1, <1>11
    <2> HIDE DEF y
    <2> QED BY <1>4, <1>6, <1>8, <2>1, <2>2, SealStep
  <1> QED BY <1>5, <1>10, <1>11

LEMMA EditOpenKeeps ==
  ASSUME SaveTyped, NEW w, GoodWorld(w), Fits(w), NEW t \in Tabs, EditOpen(t)
  PROVE  SaveInv'
  <1> DEFINE x == tab[t]
             text == tab[t].text \cup {edits + 1}
             item == Prepared(text, tab[t].base, tab[t].key)
             y == [x EXCEPT !.text = text, !.dirty = TRUE, !.flushed = FALSE]
  <1>1. /\ x \in TabStates /\ TabOK(x, w) /\ tab \in [Tabs -> TabStates] /\ edits + 1 \in Nat
        /\ text \in Texts /\ x.base \in Nat /\ x.key \in Nat
    BY TabFacts DEF SaveTyped, Texts
  <1>2. PICK w2 : OnlySeals(w, w2) /\ DraftOK(item, w2) /\ w2.clk = Higher(clock, item.seal) /\ Has(item)
    <2> HIDE DEF text
    <2> QED BY <1>1, PreparedOK
  <1>3. /\ db' = db \/ db' = [db EXCEPT !.cache = [item EXCEPT !.unsent = TRUE]]
        /\ tab' = [tab EXCEPT ![t].text = text, ![t].dirty = TRUE, ![t].flushed = FALSE]
    BY Zenon DEF EditOpen
  <1>4. clock' = Higher(clock, item.seal) /\ UNCHANGED <<srv, discarded>> /\ edits' \in Nat
    BY <1>1 DEF EditOpen
  <1> HIDE DEF item, text
  <1>5. GoodWorld(w2) /\ Grows(w, w2) /\ w2.legacy = w.legacy
    BY <1>2 DEF OnlySeals
  <1>6. StoreOK(db', w2)
    <2> DEFINE c == [item EXCEPT !.unsent = TRUE]
    <2>1. StoreOK(db, w2)
      BY <1>5, FitsStore, StoreGrows
    <2>2. CacheOK(c, w2)
      BY <1>2, <1>5, UnsentOK
    <2>3. db' = db \/ db' = [db EXCEPT !.cache = c]
      BY <1>3
    <2> HIDE DEF c
    <2>4. c \in Drafts
      BY <2>2 DEF CacheOK, SealOK
    <2> QED BY <2>1, <2>2, <2>3, <2>4 DEF StoreOK, Stores
  <1>7. y \in TabStates /\ SameCore(x, y) /\ tab' = [tab EXCEPT ![t] = y]
    BY <1>1, <1>3 DEF TabStates, SameCore
  <1> HIDE DEF y
  <1>8. TabOK(y, w2)
    BY <1>1, <1>5, <1>7, TabGrows, CoreOK
  <1> QED BY <1>2, <1>4, <1>6, <1>7, <1>8, SealStep

LEMMA MoveStartKeeps ==
  ASSUME SaveTyped, NEW w, GoodWorld(w), Fits(w), NEW t \in Tabs, MoveStart(t)
  PROVE  SaveInv'
  <1> DEFINE x == tab[t]
             item == Prepared(MoveText(t), tab[t].base, tab[t].key)
             j == Sending("move", item)
             y == [x EXCEPT !.text = item.text, !.move = j]
  <1>1. /\ x \in TabStates /\ TabOK(x, w) /\ tab \in [Tabs -> TabStates] /\ edits + 1 \in Nat
        /\ x.text \in Texts /\ x.base \in Nat /\ x.key \in Nat
    BY TabFacts DEF SaveTyped
  <1>2. MoveText(t) \in Texts
    <2>1. db.cache.text \in Texts
      BY FitsStore DEF Drafts
    <2> QED BY <1>1, <2>1 DEF MoveText, Texts
  <1>3. PICK w2 : OnlySeals(w, w2) /\ DraftOK(item, w2) /\ w2.clk = Higher(clock, item.seal) /\ Has(item)
    BY <1>1, <1>2, PreparedOK
  <1>4. /\ db' = db \/ db' = AfterPutDraft(item)
        /\ tab' = [tab EXCEPT ![t].text = item.text, ![t].move = j]
    BY Zenon DEF MoveStart
  <1>5. clock' = Higher(clock, item.seal) /\ UNCHANGED <<srv, discarded>> /\ edits' \in Nat
    BY <1>1 DEF MoveStart
  <1> HIDE DEF item
  <1>6. GoodWorld(w2) /\ Grows(w, w2) /\ w2.legacy = w.legacy
    BY <1>3 DEF OnlySeals
  <1>7. StoreOK(db', w2)
    <2>1. StoreOK(db, w2)
      BY <1>6, FitsStore, StoreGrows
    <2> QED BY <1>3, <1>4, <1>6, <2>1, PutOK
  <1>8. TabOK(x, w2) /\ JobOK(j, w2) /\ j \in Jobs /\ item.text \in Texts
    <2>1. item.text \in Texts
      BY <1>3 DEF DraftOK, SealOK, Drafts
    <2> QED BY <1>1, <1>3, <1>6, <2>1, TabGrows, SendingOK DEF JobOK
  <1> HIDE DEF j
  <1>9. /\ y \in TabStates /\ y.held = x.held /\ y.job = x.job /\ y.move = j /\ y.recovering = x.recovering
        /\ tab' = [tab EXCEPT ![t] = y]
    BY <1>1, <1>4, <1>8 DEF TabStates
  <1> HIDE DEF y
  <1>10. TabOK(y, w2)
    BY <1>8, <1>9 DEF TabOK
  <1> QED BY <1>3, <1>5, <1>7, <1>9, <1>10, SealStep

(* A draft sealed again keeps its text, its base and what is known of it. *)
LEMMA ResealedOK ==
  ASSUME SaveTyped, NEW w, GoodWorld(w), Fits(w), NEW item, DraftOK(item, w),
         NEW next, next \in Drafts, next.seal = w.clk + 1, next.text = item.text, next.base = item.base,
         "conflicted" \in next.marks => "conflicted" \in item.marks
  PROVE  \E w2 : /\ OnlySeals(w, w2) /\ DraftOK(next, w2) /\ w2.clk = w.clk + 1
                 /\ StoreOK(AfterReplace(item, next), w2)
  <1> DEFINE w2 == Fresh(w, next.text)
  <1>1. "conflicted" \in next.marks => Recorded(next.text, w)
    BY DEF DraftOK, SealOK
  <1>2. DraftOK(next, w2) /\ Has(next)
    BY <1>1, SealedOK
  <1>3. next.text \in Texts
    BY DEF Drafts
  <1>4. OnlySeals(w, w2) /\ w2.clk = w.clk + 1
    BY <1>3, FreshOK
  <1> HIDE DEF w2
  <1>5. GoodWorld(w2) /\ Grows(w, w2) /\ w2.legacy = w.legacy
    BY <1>4 DEF OnlySeals
  <1>6. StoreOK(db, w2) /\ DraftOK(item, w2)
    BY <1>5, FitsStore, StoreGrows, DraftGrows
  <1>7. StoreOK(AfterReplace(item, next), w2)
    BY <1>2, <1>5, <1>6, ReplaceOK
  <1> QED BY <1>2, <1>4, <1>7

LEMMA DrainSendKeeps ==
  ASSUME SaveTyped, NEW w, GoodWorld(w), Fits(w), NEW t \in Tabs, DrainSend(t)
  PROVE  SaveInv'
  <1> DEFINE x == tab[t]
             item == tab[t].job.item
             next == IF item.gen = srv.gen THEN item ELSE Resealed(item)
  <1>1. /\ x \in TabStates /\ TabOK(x, w) /\ tab \in [Tabs -> TabStates] /\ DraftOK(item, w)
        /\ item \in Drafts /\ srv.gen \in Nat /\ w.clk = clock /\ clock \in Nat /\ StoreOK(db, w)
    BY TabFacts, ServerFacts, FitsStore DEF SaveTyped, DraftOK, SealOK
  <1>2. ~x.recovering
    BY <1>1, NotRecovering DEF DrainSend
  <1>3. PICK j \in {Sending("drain", next), Idle} :
          tab' = [tab EXCEPT ![t].key = srv.gen, ![t].job = j]
    BY Zenon DEF DrainSend
  <1>4. clock' = Higher(clock, next.seal) /\ UNCHANGED <<srv, edits, discarded>> /\ edits' \in Nat
        /\ db' = (IF next = item THEN db ELSE AfterReplace(item, next))
    BY DEF DrainSend, SaveTyped
  <1>5. PICK w2 : OnlySeals(w, w2) /\ DraftOK(next, w2) /\ w2.clk = clock' /\ StoreOK(db', w2)
    <2>1. CASE item.gen = srv.gen
      <3>1. next = item
        BY <2>1
      <3>2. item.seal \in Nat /\ item.seal <= w.clk
        BY <1>1 DEF DraftOK, SealOK, Drafts
      <3>3. clock' = w.clk /\ db' = db
        BY <1>1, <1>4, <3>1, <3>2 DEF Higher
      <3> QED BY <1>1, <3>1, <3>3, SelfSeals
    <2>2. CASE item.gen # srv.gen
      <3>1. next = Resealed(item)
        BY <2>2
      <3> HIDE DEF next
      <3>2. next \in Drafts /\ next.seal = w.clk + 1 /\ next.text = item.text /\ next.base = item.base
            /\ next.marks = item.marks
        <4>1. item \in Drafts /\ clock + 1 \in Nat /\ srv.gen \in Nat /\ clock = w.clk
          BY <1>1
        <4>2. next = [item EXCEPT !.seal = clock + 1, !.gen = srv.gen]
          BY <3>1 DEF Resealed
        <4> HIDE DEF item
        <4> QED BY <4>1, <4>2 DEF Drafts
      <3>3. item.seal \in Nat /\ item.seal <= w.clk
        BY <1>1 DEF DraftOK, SealOK, Drafts
      <3>4. clock' = w.clk + 1 /\ db' = AfterReplace(item, next)
        <4>1. next # item
          BY <1>1, <3>2, <3>3
        <4> QED BY <1>1, <1>4, <3>2, <4>1 DEF Higher
      <3> QED BY <1>1, <3>2, <3>4, ResealedOK
    <2> QED BY <2>1, <2>2
  <1> HIDE DEF next
  <1>6. GoodWorld(w2) /\ Grows(w, w2)
    BY <1>5 DEF OnlySeals
  <1>7. TabOK(x, w2) /\ JobOK(j, w2) /\ j \in Jobs
    BY <1>1, <1>3, <1>5, <1>6, TabGrows, SendingOK, IdleOK DEF JobOK
  <1> DEFINE y == [x EXCEPT !.key = srv.gen, !.job = j]
  <1>8. /\ y \in TabStates /\ y.held = x.held /\ y.job = j /\ y.move = x.move /\ y.recovering = x.recovering
        /\ tab' = [tab EXCEPT ![t] = y]
    BY <1>1, <1>3, <1>7 DEF TabStates
  <1> HIDE DEF y
  <1>9. TabOK(y, w2)
    BY <1>2, <1>7, <1>8 DEF TabOK
  <1> QED BY <1>4, <1>5, <1>8, <1>9, SealStep

LEMMA ResetIdentityKeeps ==
  ASSUME SaveTyped, NEW w, GoodWorld(w), Fits(w), ResetIdentity
  PROVE  SaveInv'
  <1> DEFINE item == db.pending
             marked == Marked(item, "previousKey")
             next == [marked EXCEPT !.seal = clock + 1]
  <1>1. item \in Drafts /\ DraftOK(item, w) /\ w.clk = clock /\ clock \in Nat
    BY FitsStore DEF StoreOK, SaveTyped
  <1>2. marked \in Drafts /\ marked.text = item.text /\ marked.base = item.base
        /\ marked.marks = item.marks \cup {"previousKey"}
    BY <1>1 DEF Marked, Drafts
  <1>3. clock' = clock + 1 /\ UNCHANGED <<srv, tab, edits, discarded>> /\ db' = AfterReplace(item, next)
    BY DEF ResetIdentity
  <1> HIDE DEF marked
  <1>4. next \in Drafts /\ next.seal = w.clk + 1 /\ next.text = item.text /\ next.base = item.base
        /\ next.marks = item.marks \cup {"previousKey"}
    BY <1>1, <1>2 DEF Drafts
  <1> HIDE DEF next
  <1>5. PICK w2 : OnlySeals(w, w2) /\ w2.clk = w.clk + 1 /\ StoreOK(AfterReplace(item, next), w2)
    BY <1>1, <1>4, ResealedOK
  <1>6. GoodWorld(w2) /\ Grows(w, w2) /\ w2.conflicts = w.conflicts /\ w2.log = w.log
    BY <1>5 DEF OnlySeals
  <1>7. /\ w2.clk = clock' /\ w2.conflicts = srv'.conflicts /\ w2.log = srv'.log /\ StoreOK(db', w2)
        /\ srv' \in Servers /\ srv'.log # << >> /\ edits' \in Nat /\ discarded' \subseteq Nat
        /\ tab' \in [Tabs -> TabStates]
    BY <1>1, <1>3, <1>5, <1>6 DEF Fits, SaveTyped
  <1>8. (\A t \in Tabs : tab'[t] = tab[t]) /\ (\A a \in srv'.idem : a \in srv.idem)
    BY <1>3
  <1> QED BY <1>6, <1>7, <1>8, Rebuilt

(* The older build's unmarked cache is no longer alone once it is queued. *)
Adopted(w) == [w EXCEPT !.legacy = {}]

LEMMA AdoptedOK ==
  ASSUME NEW w, GoodWorld(w)
  PROVE  /\ GoodWorld(Adopted(w)) /\ Grows(w, Adopted(w)) /\ Adopted(w).legacy = {} /\ Adopted(w).clk = w.clk
         /\ Adopted(w).conflicts = w.conflicts /\ Adopted(w).log = w.log
  <1> DEFINE w2 == [w EXCEPT !.legacy = {}]
  <1>1. w \in Worlds /\ w.of[0] = {} /\ w.clk \in Nat /\ Len(w.log) \in Nat
    BY WorldFacts
  <1>2. w2 \in Worlds /\ w2.of = w.of /\ w2.clk = w.clk /\ w2.legacy = {}
        /\ w2.conflicts = w.conflicts /\ w2.log = w.log
    BY <1>1 DEF Worlds
  <1> HIDE DEF w2
  <1>4. RecordsSealed(w2)
    BY <1>2, WorldFacts DEF RecordsSealed
  <1>3. GoodWorld(w2) /\ Grows(w, w2)
    BY <1>1, <1>2, <1>4 DEF GoodWorld, Grows
  <1> QED BY <1>2, <1>3 DEF w2, Adopted

LEMMA RecoveredOK ==
  ASSUME SaveTyped, NEW w, GoodWorld(w), Fits(w), NEW ver, NEW text
  PROVE  \E w2 : /\ GoodWorld(w2) /\ Grows(w, w2) /\ w2.clk = w.clk /\ w2.conflicts = w.conflicts
                 /\ w2.log = w.log /\ StoreOK(RecoveredDB(ver, text), w2)
  <1>1. StoreOK(db, w) /\ db \in Stores /\ CacheOK(db.cache, w) /\ DraftOK(db.pending, w) /\ db.cache \in Drafts
    BY FitsStore DEF StoreOK
  <1>2. CASE ~LegacyUnsent(ver, text)
    <2>1. RecoveredDB(ver, text) = AfterRecover(db.cache)
      BY <1>2 DEF RecoveredDB
    <2>2. StoreOK(AfterRecover(db.cache), w)
      BY <1>1, RecoverOK
    <2> QED BY <2>1, <2>2, GrowsSelf
  <1>3. CASE LegacyUnsent(ver, text)
    <2> DEFINE c == [db.cache EXCEPT !.unsent = TRUE]
               w2 == Adopted(w)
    <2>1. RecoveredDB(ver, text) = AfterRecover(c)
      BY <1>3 DEF RecoveredDB
    <2>2. GoodWorld(w2) /\ Grows(w, w2) /\ w2.legacy = {} /\ w2.clk = w.clk
          /\ w2.conflicts = w.conflicts /\ w2.log = w.log
      BY AdoptedOK
    <2> HIDE DEF w2
    <2>3. SealOK(db.cache, w2) /\ DraftOK(db.pending, w2) /\ Has(db.cache)
      BY <1>1, <1>3, <2>2, SealGrows, DraftGrows DEF CacheOK, LegacyUnsent
    <2>4. c \in Drafts /\ c.seal = db.cache.seal /\ c.text = db.cache.text /\ c.marks = db.cache.marks
          /\ c.unsent = TRUE
      BY <1>1 DEF Drafts
    <2> HIDE DEF c
    <2>5. CacheOK(c, w2)
      BY <2>2, <2>3, <2>4 DEF CacheOK, SealOK, Has
    <2>6. StoreOK(AfterRecover(c), w2)
      BY <1>1, <2>2, <2>3, <2>5, RecoverOK
    <2> QED BY <2>1, <2>2, <2>6
  <1> QED BY <1>2, <1>3

LEMMA FinishLoadKeeps ==
  ASSUME SaveTyped, NEW w, GoodWorld(w), Fits(w), NEW t \in Tabs, FinishLoad(t)
  PROVE  SaveInv'
  <1> DEFINE x == tab[t]
             load == tab[t].load
             dirty == Has(db'.pending) /\ db'.pending.marks = {} /\ srv.writer
  <1>1. /\ x \in TabStates /\ TabOK(x, w) /\ tab \in [Tabs -> TabStates] /\ load \in Loads
        /\ srv.writer \in BOOLEAN
    BY TabFacts, ServerFacts DEF SaveTyped, TabStates
  <1>2. db' = RecoveredDB(load.ver, load.text) /\ UNCHANGED <<srv, clock, edits, discarded>>
    BY Zenon DEF FinishLoad
  <1>15. PICK copy \in {ShownCopy(db', load.ver)} :
          tab' = [tab EXCEPT
               ![t].open = TRUE, ![t].listed = TRUE,
               ![t].text = IF Has(copy) THEN copy.text ELSE load.text,
               ![t].base = Higher(IF Has(copy) THEN copy.base ELSE load.ver, load.carried),
               ![t].dirty = dirty, ![t].flushed = ~dirty, ![t].writer = srv.writer,
               ![t].conflicted = srv.unresolved # {}, ![t].load = NoLoad]
    BY Zenon DEF FinishLoad
  <1> DEFINE text == IF Has(copy) THEN copy.text ELSE load.text
             base == Higher(IF Has(copy) THEN copy.base ELSE load.ver, load.carried)
             writer == srv.writer
  <1>3. PICK w2 : /\ GoodWorld(w2) /\ Grows(w, w2) /\ w2.clk = w.clk /\ w2.conflicts = w.conflicts
                  /\ w2.log = w.log /\ StoreOK(db', w2)
    BY <1>2, RecoveredOK
  <1>4. copy \in Drafts
    <2>1. db'.cache \in Drafts /\ db'.pending \in Drafts /\ NoDraft \in Drafts
      BY <1>3, NoDraftOK DEF StoreOK, Stores
    <2> QED BY <1>15, <2>1 DEF ShownCopy
  <1>5. text \in Texts /\ base \in Nat
    BY <1>1, <1>4 DEF Drafts, Loads, Higher
  <1>6. PICK b1 \in BOOLEAN : b1 = dirty
    BY Zenon
  <1>7. PICK b2 \in BOOLEAN : b2 = ~dirty
    BY Zenon
  <1>8. PICK b3 \in BOOLEAN : b3 = (srv.unresolved # {})
    BY Zenon
  <1> DEFINE y == [x EXCEPT !.open = TRUE, !.listed = TRUE, !.text = text, !.base = base,
                            !.dirty = b1, !.flushed = b2, !.writer = writer,
                            !.conflicted = b3, !.load = NoLoad]
  <1>9. tab' = [tab EXCEPT ![t] = y]
    <2>1. tab' = [tab EXCEPT
               ![t].open = TRUE, ![t].listed = TRUE, ![t].text = text, ![t].base = base,
               ![t].dirty = b1, ![t].flushed = b2, ![t].writer = writer,
               ![t].conflicted = b3, ![t].load = NoLoad]
      BY <1>15, <1>6, <1>7, <1>8, Zenon
    <2> HIDE DEF text, base, writer
    <2> QED BY <1>1, <2>1 DEF TabStates
  <1> HIDE DEF text, base, dirty
  <1>10. NoLoad \in Loads
    BY DEF NoLoad, Loads, Texts
  <1>11. y \in TabStates /\ SameCore(x, y)
    <2>1. writer \in BOOLEAN /\ x \in TabStates
      BY <1>1
    <2> HIDE DEF x, writer
    <2> DEFINE z == [x EXCEPT !.open = TRUE, !.listed = TRUE, !.text = text, !.base = base]
    <2>2. z \in TabStates /\ SameCore(x, z)
      BY <1>5, <2>1 DEF TabStates, SameCore
    <2>3. y = [z EXCEPT !.dirty = b1, !.flushed = b2, !.writer = writer, !.conflicted = b3, !.load = NoLoad]
      BY Zenon
    <2> HIDE DEF z, y
    <2>4. b1 \in BOOLEAN /\ b2 \in BOOLEAN /\ b3 \in BOOLEAN
      BY <1>6, <1>7, <1>8
    <2>5. y \in TabStates
      <3> DEFINE z1 == [z EXCEPT !.dirty = b1, !.flushed = b2]
                 z2 == [z1 EXCEPT !.writer = writer, !.conflicted = b3]
      <3>1. z1 \in TabStates
        BY <2>2, <2>4 DEF TabStates
      <3>2. y = [z2 EXCEPT !.load = NoLoad]
        BY <2>3, Zenon
      <3> HIDE DEF z1
      <3>3. z2 \in TabStates
        BY <2>1, <2>4, <3>1 DEF TabStates
      <3> HIDE DEF z2
      <3> QED BY <1>10, <3>2, <3>3 DEF TabStates
    <2>6. y.held = z.held /\ y.job = z.job /\ y.move = z.move
      BY <2>2, <2>3 DEF TabStates
    <2>7. y.recovering = z.recovering
      BY <2>2, <2>3 DEF TabStates
    <2> QED BY <2>2, <2>5, <2>6, <2>7 DEF SameCore
  <1> HIDE DEF y
  <1>12. TabOK(y, w2)
    BY <1>1, <1>3, <1>11, TabGrows, CoreOK
  <1>13. tab' \in [Tabs -> TabStates] /\ \A u \in Tabs : tab'[u] = tab[u] \/ TabOK(tab'[u], w2)
    BY <1>1, <1>9, <1>11, <1>12
  <1>14. /\ w2.clk = clock' /\ w2.conflicts = srv'.conflicts /\ w2.log = srv'.log /\ srv' \in Servers
         /\ srv'.log # << >> /\ edits' \in Nat /\ discarded' \subseteq Nat /\ \A a \in srv'.idem : a \in srv.idem
    BY <1>2, <1>3 DEF Fits, SaveTyped
  <1> QED BY <1>3, <1>13, <1>14, Rebuilt

-----------------------------------------------------------------------------
(* Everyone else: the browser keeps what it has. *)

LEMMA ServerStep ==
  ASSUME SaveTyped, NEW w, GoodWorld(w), Fits(w), NEW w2, GoodWorld(w2), Grows(w, w2), w2.legacy = w.legacy,
         w2.clk = w.clk, w2.conflicts = srv'.conflicts, w2.log = srv'.log, srv' \in Servers, srv'.log # << >>,
         srv'.idem \subseteq srv.idem, UNCHANGED <<db, tab, clock, discarded>>, edits' \in Nat
  PROVE  SaveInv'
  <1>1. StoreOK(db', w2)
    BY FitsStore, StoreGrows
  <1>2. w2.clk = clock' /\ discarded' \subseteq Nat /\ tab' \in [Tabs -> TabStates]
        /\ (\A t \in Tabs : tab'[t] = tab[t]) /\ \A a \in srv'.idem : a \in srv.idem
    BY DEF Fits, SaveTyped
  <1> QED BY <1>1, <1>2, Rebuilt

LEMMA OtherSaveKeeps ==
  ASSUME SaveTyped, NEW w, GoodWorld(w), Fits(w), OtherSave
  PROVE  SaveInv'
  <1> DEFINE e == [seal |-> 0, base |-> Version, gen |-> srv.gen, text |-> HeadText \cup {edits + 1}]
             log == Append(srv.log, e)
             w2 == Filed(w, e)
  <1>1. e \in Entries /\ edits' \in Nat
    BY ServerFacts, SMTT(30) DEF Entries, OtherSave, SaveTyped, Texts
  <1>2. srv' = [srv EXCEPT !.log = log] /\ UNCHANGED <<db, tab, clock, discarded>>
    BY DEF OtherSave
  <1> HIDE DEF e
  <1>3. log \in Seq(Entries) /\ log # << >>
    BY <1>1, ServerFacts
  <1>4. GoodWorld(w2) /\ Grows(w, w2) /\ w2.legacy = w.legacy /\ w2.clk = w.clk
        /\ w2.conflicts = w.conflicts /\ w2.log = Append(w.log, e)
    BY <1>1, AppendedWorld
  <1>5. w.log = srv.log /\ w.conflicts = srv.conflicts
    BY DEF Fits
  <1>6. w2.log = log
    BY <1>4, <1>5
  <1> HIDE DEF log, w2
  <1>7. srv' \in Servers /\ srv'.log = log /\ srv'.conflicts = srv.conflicts /\ srv'.idem = srv.idem
    BY <1>2, <1>3, ServerFacts DEF Servers
  <1> QED BY <1>1, <1>2, <1>3, <1>4, <1>5, <1>6, <1>7, ServerStep

LEMMA OthersKeep ==
  ASSUME SaveTyped, NEW w, GoodWorld(w), Fits(w), OtherDelete \/ ChangeRole \/ Rotate \/ ForgetKeys \/ Refuse \/ Admit
  PROVE  SaveInv'
  <1>1. \/ srv' = [srv EXCEPT !.gone = TRUE] \/ srv' = [srv EXCEPT !.writer = FALSE]
        \/ srv' = [srv EXCEPT !.gen = srv.gen + 1] \/ srv' = [srv EXCEPT !.idem = {}, !.forgot = TRUE]
        \/ Refuse \/ Admit
    BY Zenon DEF OtherDelete, ChangeRole, Rotate, ForgetKeys, Refuse, Admit
  <1>2. UNCHANGED <<db, tab, clock, discarded, edits>>
    BY Zenon DEF OtherDelete, ChangeRole, Rotate, ForgetKeys, Refuse, Admit
  <1>3. srv' \in Servers /\ srv'.log = srv.log /\ srv'.conflicts = srv.conflicts /\ srv'.idem \subseteq srv.idem
    <2>1. srv \in Servers /\ srv.gen + 1 \in Nat /\ {} \in SUBSET Idems
      BY ServerFacts
    <2>2. CASE srv' = [srv EXCEPT !.gone = TRUE]
      BY <2>1, <2>2 DEF Servers
    <2>3. CASE srv' = [srv EXCEPT !.writer = FALSE]
      BY <2>1, <2>3 DEF Servers
    <2>4. CASE srv' = [srv EXCEPT !.gen = srv.gen + 1]
      BY <2>1, <2>4 DEF Servers
    <2>5. CASE srv' = [srv EXCEPT !.idem = {}, !.forgot = TRUE]
      BY <2>1, <2>5 DEF Servers
    <2>6. CASE Refuse \/ Admit
      BY <2>6, BarStep
    <2> QED BY <1>1, <2>2, <2>3, <2>4, <2>5, <2>6
  <1>4. w.conflicts = srv'.conflicts /\ w.log = srv'.log /\ srv'.log # << >> /\ edits' \in Nat
    BY <1>2, <1>3 DEF Fits, SaveTyped
  <1> QED BY <1>2, <1>3, <1>4, GrowsSelf, ServerStep

-----------------------------------------------------------------------------
(* The invariant. *)

LEMMA SaveInit == Init => SaveInv
  <1> SUFFICES ASSUME Init PROVE SaveInv
    OBVIOUS
  <1> DEFINE first == [seal |-> 0, base |-> 0, gen |-> 1, text |-> {}]
             log == <<first>>
  <1>1. PICK cache \in {NoDraft, LegacyCache} :
          db = [cache |-> cache, pending |-> NoDraft] /\ clock = cache.seal /\ edits = cache.seal
    BY DEF Init
  <1>2. NoDraft \in Drafts /\ NoDraft.seal = 0 /\ NoDraft.text = {} /\ NoDraft.marks = {} /\ NoDraft.unsent = FALSE
    BY DEF NoDraft, Drafts, Texts
  <1>3. LegacyCache \in Drafts /\ LegacyCache.seal = 1 /\ LegacyCache.text = {1} /\ LegacyCache.marks = {}
        /\ LegacyCache.unsent = FALSE
    <2> DEFINE one == {1}
    <2>1. one \in Texts
      BY DEF Texts
    <2>2. LegacyCache = [NoDraft EXCEPT !.seal = 1, !.at = 1, !.base = 1, !.gen = 1, !.text = one]
      BY DEF LegacyCache
    <2> HIDE DEF one
    <2>3. LegacyCache \in Drafts /\ LegacyCache.seal = 1 /\ LegacyCache.text = one /\ LegacyCache.marks = {}
          /\ LegacyCache.unsent = FALSE
      BY <1>2, <2>1, <2>2 DEF Drafts
    <2> QED BY <2>3 DEF one
  <1>4. /\ cache \in Drafts /\ cache.seal \in {0, 1} /\ cache.text \in Texts /\ (cache.seal = 0 => cache.text = {})
        /\ cache.marks = {} /\ ~cache.unsent
    BY <1>1, <1>2, <1>3 DEF Texts
  <1>5. first \in Entries
    BY DEF Entries, Texts
  <1>6. /\ srv = [log |-> log, gen |-> 1, conflicts |-> {}, unresolved |-> {}, copies |-> {}, idem |-> {},
                  gone |-> FALSE, writer |-> TRUE, forgot |-> FALSE, bar |-> "none"]
        /\ tab = [t \in Tabs |-> Closed] /\ discarded = {}
    BY DEF Init
  <1> HIDE DEF first
  <1>7. log \in Seq(Entries) /\ log # << >>
    BY <1>5
  <1> HIDE DEF log
  <1> DEFINE of == [s \in Nat |-> IF s = cache.seal THEN cache.text ELSE {}]
             w == [of |-> of, legacy |-> {cache.seal} \ {0}, clk |-> cache.seal, conflicts |-> {}, log |-> log]
  <1>8. of \in [Nat -> Texts] /\ of[0] = {} /\ of[cache.seal] = cache.text
    BY <1>4 DEF Texts
  <1> HIDE DEF of
  <1>9. w \in Worlds /\ w.of = of /\ w.legacy = {cache.seal} \ {0} /\ w.clk = cache.seal /\ w.conflicts = {}
        /\ w.log = log
    BY <1>4, <1>7, <1>8 DEF Worlds
  <1> HIDE DEF w
  <1>10. GoodWorld(w)
    BY <1>4, <1>8, <1>9 DEF GoodWorld, RecordsSealed
  <1>11. CacheOK(cache, w)
    BY <1>4, <1>8, <1>9 DEF CacheOK, SealOK, Has
  <1>12. srv \in Servers /\ srv.log = log /\ srv.conflicts = {} /\ srv.idem = {}
    <2>1. {} \in Texts
      BY DEF Texts
    <2> QED BY <1>6, <1>7, <2>1 DEF Servers
  <1>13. TabOK(Closed, w) /\ Closed \in TabStates /\ DraftOK(NoDraft, w)
    BY <1>10, ClosedOK, NoDraftOK DEF TabOK
  <1>14. SaveTyped
    BY <1>1, <1>2, <1>4, <1>6, <1>7, <1>12, <1>13 DEF SaveTyped, Stores
  <1>15. Fits(w)
    BY <1>1, <1>6, <1>9, <1>11, <1>12, <1>13 DEF Fits
  <1> QED BY <1>10, <1>14, <1>15 DEF SaveInv

LEMMA SaveStep == SaveInv /\ [Next]_vars => SaveInv'
  <1> SUFFICES ASSUME SaveInv, [Next]_vars PROVE SaveInv'
    OBVIOUS
  <1>1. SaveTyped
    BY DEF SaveInv
  <1>2. PICK w : GoodWorld(w) /\ Fits(w)
    BY DEF SaveInv
  <1>3. CASE UNCHANGED vars
    BY <1>3 DEF vars, SaveInv, SaveTyped, Fits
  <1>4. ASSUME NEW t \in Tabs,
               \/ BeginLoad(t) \/ FinishLoad(t) \/ EditOpen(t)
               \/ ClosePage(t) \/ Crash(t) \/ RemovePage(t) \/ KeyPass(t)
               \/ SaveStart(t) \/ MoveStart(t)
        PROVE  SaveInv'
    <2>1. CASE BeginLoad(t) BY <1>1, <1>2, <2>1, BeginLoadKeeps
    <2>2. CASE FinishLoad(t) BY <1>1, <1>2, <2>2, FinishLoadKeeps
    <2>3. CASE EditOpen(t) BY <1>1, <1>2, <2>3, EditOpenKeeps
    <2>4. CASE ClosePage(t) BY <1>1, <1>2, <2>4, ClosePageKeeps
    <2>5. CASE Crash(t) BY <1>1, <1>2, <2>5, CrashKeeps
    <2>6. CASE RemovePage(t) BY <1>1, <1>2, <2>6, RemovePageKeeps
    <2>7. CASE KeyPass(t) BY <1>1, <1>2, <2>7, KeyPassKeeps
    <2>8. CASE SaveStart(t) BY <1>1, <1>2, <2>8, SaveStartKeeps
    <2>9. CASE MoveStart(t) BY <1>1, <1>2, <2>9, MoveStartKeeps
    <2> QED BY <1>4, <2>1, <2>2, <2>3, <2>4, <2>5, <2>6, <2>7, <2>8, <2>9
  <1>5. ASSUME NEW t \in Tabs, NEW slot \in Slots, Deliver(t, slot) \/ Lose(t, slot) \/ Answered(t, slot)
        PROVE  SaveInv'
    <2>1. CASE Deliver(t, slot) BY <1>1, <1>2, <2>1, DeliverKeeps
    <2>2. CASE Lose(t, slot) BY <1>1, <1>2, <2>2, LoseKeeps
    <2>3. CASE Answered(t, slot) BY <1>1, <1>2, <2>3, AnsweredKeeps
    <2> QED BY <1>5, <2>1, <2>2, <2>3
  <1>6. ASSUME NEW t \in Tabs,
               \/ DrainStart(t) \/ DrainWait(t) \/ DrainSend(t) \/ DrainAnswered(t)
               \/ RecoverReload(t) \/ RecoverCopy(t) \/ RecoverSkip(t) \/ RecoverEnd(t)
               \/ SeeUnsent(t) \/ Discard(t)
        PROVE  SaveInv'
    <2>1. CASE DrainStart(t) \/ SeeUnsent(t) BY <1>1, <1>2, <2>1, DrainStartKeeps
    <2>2. CASE DrainWait(t) BY <1>1, <1>2, <2>2, DrainWaitKeeps
    <2>3. CASE DrainSend(t) BY <1>1, <1>2, <2>3, DrainSendKeeps
    <2>4. CASE DrainAnswered(t) BY <1>1, <1>2, <2>4, DrainAnsweredKeeps
    <2>5. CASE RecoverReload(t) BY <1>1, <1>2, <2>5, RecoverReloadKeeps
    <2>6. CASE RecoverCopy(t) BY <1>1, <1>2, <2>6, RecoverCopyKeeps
    <2>7. CASE RecoverSkip(t) BY <1>1, <1>2, <2>7, RecoverSkipKeeps
    <2>8. CASE RecoverEnd(t) BY <1>1, <1>2, <2>8, RecoverEndKeeps
    <2>9. CASE Discard(t) BY <1>1, <1>2, <2>9, DiscardKeeps
    <2> QED BY <1>6, <2>1, <2>2, <2>3, <2>4, <2>5, <2>6, <2>7, <2>8, <2>9
  <1>7. CASE ResetIdentity BY <1>1, <1>2, <1>7, ResetIdentityKeeps
  <1>8. CASE OtherSave BY <1>1, <1>2, <1>8, OtherSaveKeeps
  <1>9. CASE OtherDelete \/ ChangeRole \/ Rotate \/ ForgetKeys \/ Refuse \/ Admit BY <1>1, <1>2, <1>9, OthersKeep
  <1> QED BY <1>3, <1>4, <1>5, <1>6, <1>7, <1>8, <1>9, Zenon DEF Next

(* A seal names one text for ever: the inductive invariant holds of every  *)
(* reachable state.                                                        *)
THEOREM SealsNameTexts == Spec => []SaveInv
  <1> QED BY SaveInit, SaveStep, PTL DEF Spec

(* Type correctness of the server's page, the browser's store and the      *)
(* tabs.                                                                   *)
THEOREM SaveTypes == Spec => []SaveTyped
  <1>1. SaveInv => SaveTyped
    BY DEF SaveInv
  <1> QED BY <1>1, SealsNameTexts, PTL

(* settleDraft: the cached copy that a load shows as the server's version  *)
(* is that version.                                                        *)
THEOREM AckedCacheHolds == Spec => []AckedCacheIsVersion
  <1>1. SaveInv => AckedCacheIsVersion
    <2> SUFFICES ASSUME SaveInv, Has(db.cache), ~db.cache.unsent, db.cache.seal # LegacyCache.seal
                 PROVE  db.cache.base \in 1..Version /\ db.cache.text = srv.log[db.cache.base].text
      BY DEF AckedCacheIsVersion
    <2>1. PICK w : GoodWorld(w) /\ Fits(w)
      BY DEF SaveInv
    <2>2. LegacyCache.seal = 1
      BY DEF LegacyCache, NoDraft
    <2>3. db.cache.seal \notin w.legacy
      BY <2>1, <2>2, WorldFacts
    <2>4. InLog(db.cache.base, db.cache.text, w) /\ w.log = srv.log
      BY <2>1, <2>3 DEF Fits, CacheOK
    <2> QED BY <2>4 DEF InLog, Version
  <1> QED BY <1>1, SealsNameTexts, PTL

(* replaceQueuedSave marks an entry conflicted only when the server holds  *)
(* its text as a conflict record, which it never drops.                    *)
THEOREM ConflictedEntryIsKept == Spec => []ConflictedIsRecorded
  <1>1. SaveInv => ConflictedIsRecorded
    BY DEF SaveInv, Fits, DraftOK, SealOK, Recorded, ConflictedIsRecorded
  <1> QED BY <1>1, SealsNameTexts, PTL

-----------------------------------------------------------------------------
(* What leaves the queue. *)

Leaves == Has(db.pending) /\ ~Has(db'.pending)
Covered(text) ==
    text \subseteq discarded'
      \cup UNION ({c.text : c \in srv'.conflicts} \cup {srv'.log[i].text : i \in DOMAIN srv'.log})

LEMMA FiledIsCovered ==
  ASSUME NEW w, w.log = srv'.log, w.conflicts = srv'.conflicts, w.log \in Seq(Entries),
         NEW text, (\E ver : InLog(ver, text, w)) \/ Recorded(text, w)
  PROVE  Covered(text)
  <1>1. CASE \E ver : InLog(ver, text, w)
    <2>1. PICK ver : InLog(ver, text, w)
      BY <1>1
    <2>2. ver \in DOMAIN srv'.log /\ srv'.log[ver].text = text
      BY <2>1 DEF InLog
    <2> QED BY <2>2, Zenon DEF Covered
  <1>2. CASE Recorded(text, w)
    BY <1>2, Zenon DEF Recorded, Covered
  <1> QED BY <1>1, <1>2

(* settleDraft removes the entry it was given, replaceQueuedSave none. *)
LEMMA SettledIsCovered ==
  ASSUME SaveTyped, NEW w, GoodWorld(w), Fits(w), NEW item, DraftOK(item, w), NEW ver,
         (\E v : InLog(v, item.text, w)) \/ Recorded(item.text, w), srv' = srv,
         db'.pending = AfterSettle(item, ver).pending, Leaves
  PROVE  Covered(db.pending.text)
  <1>1. DraftOK(db.pending, w)
    BY DEF Fits
  <1>2. SameDraft(db.pending, item)
    BY DEF AfterSettle, Leaves
  <1>3. db.pending.text = item.text
    BY <1>1, <1>2, SameText DEF DraftOK
  <1>4. w.log = srv'.log /\ w.conflicts = srv'.conflicts /\ w.log \in Seq(Entries)
    BY WorldFacts DEF Fits
  <1> QED BY <1>3, <1>4, FiledIsCovered

LEMMA ReplacedStays ==
  ASSUME NEW item, NEW next, Has(item) => Has(next), db' = AfterReplace(item, next)
  PROVE  ~Leaves
  <1>1. CASE SameDraft(db.pending, item)
    <2>1. Has(db.pending) => Has(item)
      BY <1>1 DEF SameDraft, Has
    <2>2. db'.pending = next
      BY <1>1 DEF AfterReplace
    <2> QED BY <2>1, <2>2 DEF Leaves
  <1>2. CASE ~SameDraft(db.pending, item)
    BY <1>2 DEF AfterReplace, Leaves
  <1> QED BY <1>1, <1>2

LEMMA MarkedHas == ASSUME NEW item \in Drafts, NEW mark PROVE Has(item) => Has(Marked(item, mark))
  BY DEF Marked, Has, Drafts

LEMMA AnsweredCovers ==
  ASSUME SaveTyped, NEW w, GoodWorld(w), Fits(w), NEW t \in Tabs, NEW slot \in Slots, Answered(t, slot), Leaves
  PROVE  Covered(db.pending.text)
  <1> DEFINE j == tab[t][slot]
  <1>1. JobOK(j, w)
    BY TabFacts DEF Slots, TabOK
  <1>2. /\ DraftOK(j.item, w) /\ j.item \in Drafts /\ j.kind \in {"save", "move"} /\ srv' = srv /\ Has(j.item)
    BY <1>1 DEF JobOK, DraftOK, SealOK, Answered
  <1>3. db' # db
    BY DEF Leaves
  <1>4. CASE j.ans = "ok"
    <2>1. db' = AfterSettle(j.item, j.ver)
      BY <1>3, <1>4, Zenon DEF Answered
    <2>2. InLog(j.ver, j.item.text, w)
      BY <1>1, <1>4 DEF JobOK
    <2> QED BY <1>2, <2>1, <2>2, SettledIsCovered
  <1>5. CASE j.ans = "version_conflict"
    <2>1. db' = AfterReplace(j.item, Marked(j.item, "conflicted"))
      <3>1. j.ans # "ok"
        BY <1>5
      <3> QED BY <1>3, <1>5, <3>1, Zenon DEF Answered
    <2> QED BY <1>2, <2>1, MarkedHas, ReplacedStays
  <1>6. CASE j.ans \notin {"ok", "version_conflict"}
    <2>1. db' = [db EXCEPT !.pending = j.item] \/ db' = [db EXCEPT !.pending = Marked(j.item, "gone")]
      <3>1. j.ans # "ok" /\ j.ans # "version_conflict"
        BY <1>6
      <3> QED BY <1>3, <3>1, Zenon DEF Answered
    <2>2. Has(Marked(j.item, "gone"))
      BY <1>2, MarkedHas
    <2>3. db \in Stores
      BY DEF SaveTyped
    <2>4. db'.pending = j.item \/ db'.pending = Marked(j.item, "gone")
      BY <2>1, <2>3 DEF Stores
    <2> QED BY <1>2, <2>2, <2>4 DEF Leaves
  <1> QED BY <1>4, <1>5, <1>6

LEMMA DrainAnsweredCovers ==
  ASSUME SaveTyped, NEW w, GoodWorld(w), Fits(w), NEW t \in Tabs, DrainAnswered(t), Leaves
  PROVE  Covered(db.pending.text)
  <1> DEFINE j == tab[t].job
  <1>1. JobOK(j, w) /\ DraftOK(j.item, w) /\ j.item \in Drafts /\ srv' = srv
    BY TabFacts DEF DraftOK, SealOK, DrainAnswered
  <1>2. db' # db
    BY DEF Leaves
  <1>3. CASE j.ans = "ok"
    <2>1. db' = AfterSettle(j.item, j.ver)
      BY <1>3, Zenon DEF DrainAnswered
    <2>2. InLog(j.ver, j.item.text, w)
      BY <1>1, <1>3 DEF JobOK
    <2> QED BY <1>1, <2>1, <2>2, SettledIsCovered
  <1>4. CASE j.ans # "ok"
    <2>1. PICK mark : db' = AfterReplace(j.item, Marked(j.item, mark))
      BY <1>2, <1>4, Zenon DEF DrainAnswered
    <2> QED BY <1>1, <2>1, MarkedHas, ReplacedStays
  <1> QED BY <1>3, <1>4

LEMMA RecoverEndCovers ==
  ASSUME SaveTyped, NEW w, GoodWorld(w), Fits(w), NEW t \in Tabs, RecoverEnd(t), Leaves
  PROVE  Covered(db.pending.text)
  <1> DEFINE entry == tab[t].job.item
  <1>1. TabOK(tab[t], w) /\ JobOK(tab[t].job, w) /\ DraftOK(entry, w) /\ srv' = srv
    BY TabFacts DEF RecoverEnd
  <1>2. Has(entry) /\ db' = AfterSettle(entry, 0) /\ tab[t].recovering
    BY Zenon DEF Leaves, RecoverEnd
  <1>3. Recorded(entry.text, w)
    BY <1>1, <1>2 DEF TabOK, JobOK, DraftOK, SealOK
  <1> QED BY <1>1, <1>2, <1>3, SettledIsCovered

LEMMA DiscardCovers ==
  ASSUME SaveTyped, NEW w, GoodWorld(w), Fits(w), NEW t \in Tabs, Discard(t), Leaves
  PROVE  Covered(db.pending.text)
  <1> DEFINE item == tab[t].job.item
  <1>1. DraftOK(item, w) /\ DraftOK(db.pending, w)
    BY TabFacts DEF Fits
  <1>2. SameDraft(db.pending, item) /\ discarded' = discarded \cup item.text \cup db.cache.text
    BY Zenon DEF Discard, Leaves
  <1>3. db.pending.text = item.text
    BY <1>1, <1>2, SameText DEF DraftOK
  <1> QED BY <1>2, <1>3 DEF Covered

(* A draft is put in the queue for another, never none. *)
LEMMA PutStays ==
  ASSUME SaveTyped, NEW w, GoodWorld(w), Fits(w), NEW t \in Tabs,
         EditOpen(t) \/ SaveStart(t) \/ MoveStart(t) \/ FinishLoad(t) \/ RemovePage(t)
  PROVE  ~Leaves
  <1>1. /\ tab[t].text \in Texts /\ tab[t].base \in Nat /\ tab[t].key \in Nat /\ edits + 1 \in Nat /\ db \in Stores
        /\ db.cache.text \in Texts /\ db.cache \in Drafts
    BY TabFacts, FitsStore DEF SaveTyped, Drafts
  <1>2. CASE EditOpen(t) \/ RemovePage(t)
    <2>1. PICK c : db' = db \/ db' = [db EXCEPT !.cache = c]
      BY <1>2, Zenon DEF EditOpen, RemovePage
    <2> QED BY <1>1, <2>1 DEF Leaves, Stores
  <1>3. CASE SaveStart(t) \/ MoveStart(t)
    <2>1. PICK text, item : /\ text \in Texts /\ item = Prepared(text, tab[t].base, tab[t].key)
                            /\ \/ db' = db \/ db' = AfterPutDraft(item)
                               \/ db' = [AfterPutDraft(item) EXCEPT !.pending.marks = {}]
      <3>1. MoveText(t) \in Texts
        BY <1>1 DEF MoveText, Texts
      <3>2. CASE SaveStart(t)
        BY <1>1, <3>2, Zenon DEF SaveStart
      <3>3. CASE MoveStart(t)
        BY <3>1, <3>3, Zenon DEF MoveStart
      <3> QED BY <1>3, <3>2, <3>3
    <2>2. PICK w2 : GoodWorld(w2) /\ DraftOK(item, w2) /\ Has(item)
      BY <1>1, <2>1, PreparedOK DEF OnlySeals
    <2>3. item \in Drafts
      BY <2>2 DEF DraftOK, SealOK
    <2>4. db' = db \/ db'.pending.seal = item.seal
      BY <2>1, <2>3 DEF AfterPutDraft, Drafts
    <2> QED BY <2>2, <2>4 DEF Leaves, Has
  <1>4. CASE FinishLoad(t)
    <2>1. PICK ver, text : db' = RecoveredDB(ver, text)
      BY <1>4, Zenon DEF FinishLoad
    <2> DEFINE c == IF LegacyUnsent(ver, text) THEN [db.cache EXCEPT !.unsent = TRUE] ELSE db.cache
    <2>2. c.unsent => Has(c)
      <3>1. CASE LegacyUnsent(ver, text)
        BY <1>1, <3>1 DEF LegacyUnsent, Has, Drafts
      <3>2. CASE ~LegacyUnsent(ver, text)
        BY <3>2 DEF Fits, CacheOK
      <3> QED BY <3>1, <3>2
    <2>3. db' = AfterRecover(c)
      BY <2>1 DEF RecoveredDB
    <2> HIDE DEF c
    <2>4. db'.pending = db.pending \/ (c.unsent /\ db'.pending = c)
      BY <2>3 DEF AfterRecover
    <2> QED BY <2>2, <2>4 DEF Leaves
  <1> QED BY <1>2, <1>3, <1>4

LEMMA ResealStays ==
  ASSUME SaveTyped, NEW w, GoodWorld(w), Fits(w), ResetIdentity \/ \E t \in Tabs : DrainSend(t)
  PROVE  ~Leaves
  <1>1. clock + 1 \in Nat /\ clock + 1 > 0 /\ srv.gen \in Nat /\ db.pending \in Drafts
    BY ServerFacts, FitsStore DEF SaveTyped
  <1>2. CASE ResetIdentity
    <2> DEFINE m == Marked(db.pending, "previousKey")
               next == [m EXCEPT !.seal = clock + 1]
    <2>1. m \in Drafts
      BY <1>1 DEF Marked, Drafts
    <2>2. db' = AfterReplace(db.pending, next)
      BY <1>2 DEF ResetIdentity
    <2> HIDE DEF m
    <2>3. Has(next)
      BY <1>1, <2>1 DEF Has, Drafts
    <2> QED BY <2>2, <2>3, ReplacedStays
  <1>3. ASSUME NEW t \in Tabs, DrainSend(t) PROVE ~Leaves
    <2> DEFINE item == tab[t].job.item
               next == IF item.gen = srv.gen THEN item ELSE Resealed(item)
    <2>1. item \in Drafts
      BY TabFacts DEF DraftOK, SealOK
    <2>2. db' = db \/ db' = AfterReplace(item, next)
      BY <1>3, Zenon DEF DrainSend
    <2>3. Has(item) => Has(next)
      <3> HIDE DEF item
      <3> QED BY <1>1, <2>1 DEF Resealed, Has, Drafts
    <2>4. db' = db => ~Leaves
      BY DEF Leaves
    <2> HIDE DEF next, item
    <2> QED BY <2>2, <2>3, <2>4, ReplacedStays
  <1> QED BY <1>2, <1>3

LEMMA QueueStep == SaveInv /\ [Next]_vars /\ Leaves => Covered(db.pending.text)
  <1> SUFFICES ASSUME SaveInv, [Next]_vars, Leaves PROVE Covered(db.pending.text)
    OBVIOUS
  <1>1. SaveTyped
    BY DEF SaveInv
  <1>2. PICK w : GoodWorld(w) /\ Fits(w)
    BY DEF SaveInv
  <1>3. db' # db
    BY DEF Leaves
  <1>4. ASSUME NEW t \in Tabs,
               \/ BeginLoad(t) \/ FinishLoad(t) \/ EditOpen(t)
               \/ ClosePage(t) \/ Crash(t) \/ RemovePage(t) \/ KeyPass(t)
               \/ SaveStart(t) \/ MoveStart(t)
        PROVE  FALSE
    <2>1. ~(BeginLoad(t) \/ ClosePage(t) \/ Crash(t) \/ KeyPass(t))
      BY <1>3, Zenon DEF BeginLoad, ClosePage, Crash, KeyPass
    <2>2. ~(EditOpen(t) \/ SaveStart(t) \/ MoveStart(t) \/ FinishLoad(t) \/ RemovePage(t))
      BY <1>1, <1>2, PutStays
    <2> QED BY <1>4, <2>1, <2>2, Zenon
  <1>5. ASSUME NEW t \in Tabs, NEW slot \in Slots, Deliver(t, slot) \/ Lose(t, slot) \/ Answered(t, slot)
        PROVE  Covered(db.pending.text)
    <2>1. ~(Deliver(t, slot) \/ Lose(t, slot))
      BY <1>3, Zenon DEF Deliver, Lose
    <2> QED BY <1>1, <1>2, <1>5, <2>1, AnsweredCovers
  <1>6. ASSUME NEW t \in Tabs,
               \/ DrainStart(t) \/ DrainWait(t) \/ DrainSend(t) \/ DrainAnswered(t)
               \/ RecoverReload(t) \/ RecoverCopy(t) \/ RecoverSkip(t) \/ RecoverEnd(t)
               \/ SeeUnsent(t) \/ Discard(t)
        PROVE  Covered(db.pending.text)
    <2>1. ~(DrainStart(t) \/ DrainWait(t) \/ SeeUnsent(t))
      BY <1>3, Zenon DEF DrainStart, DrainWait, SeeUnsent
    <2>2. ~(RecoverReload(t) \/ RecoverCopy(t) \/ RecoverSkip(t))
      BY <1>3, Zenon DEF RecoverReload, RecoverCopy, RecoverSkip
    <2>3. CASE DrainSend(t) BY <1>1, <1>2, <2>3, ResealStays
    <2>4. CASE DrainAnswered(t) BY <1>1, <1>2, <2>4, DrainAnsweredCovers
    <2>5. CASE RecoverEnd(t) BY <1>1, <1>2, <2>5, RecoverEndCovers
    <2>6. CASE Discard(t) BY <1>1, <1>2, <2>6, DiscardCovers
    <2> QED BY <1>6, <2>1, <2>2, <2>3, <2>4, <2>5, <2>6, Zenon
  <1>7. CASE ResetIdentity BY <1>1, <1>2, <1>7, ResealStays
  <1>8. ~(UNCHANGED vars \/ OtherSave \/ OtherDelete \/ ChangeRole \/ Rotate \/ ForgetKeys \/ Refuse \/ Admit)
    BY <1>3, Zenon DEF vars, OtherSave, OtherDelete, ChangeRole, Rotate, ForgetKeys, Refuse, Admit
  <1> QED BY <1>4, <1>5, <1>6, <1>7, <1>8, Zenon DEF Next

(* A late acknowledgement never removes another tab's draft: an entry      *)
(* leaves the queue only when the server holds its text as a version or a  *)
(* conflict, or the user discarded it (settleDraft, replaceQueuedSave, discard).        *)
THEOREM QueueKeepsUntilHeld == Spec => AckedIsHeld
  <1>1. SaveInv /\ [Next]_vars =>
          [Has(db.pending) /\ ~Has(db'.pending) =>
             db.pending.text \subseteq discarded'
               \cup UNION ({c.text : c \in srv'.conflicts} \cup {srv'.log[i].text : i \in DOMAIN srv'.log})]_vars
    BY QueueStep DEF Leaves, Covered
  <1> QED BY <1>1, SealsNameTexts, PTL DEF Spec, AckedIsHeld

-----------------------------------------------------------------------------
(* A user who works in one tab, whose browser stores what it is told to    *)
(* and who moves no page that is not open.  Then the page in the tab, the  *)
(* queue, the cache and the request under way follow one another, and what *)
(* a save replaces is what the user had before him.                        *)

Alone == (\E t : Tabs = {t}) /\ ~Moves /\ "storage" \notin FaultKinds

(* Text x was made from version v: it lacks nothing of it but what conflict *)
(* recovery reloaded the page over.                                        *)
Seen(v, x, log, over) == v <= Len(log) /\ (v > 0 => log[v].text \subseteq x \cup over)
Clear(d) == "conflicted" \notin d.marks

(* The cache is never behind the queue. *)
Shelf(s, log, over, clk, gone) ==
    /\ Seen(s.pending.base, s.pending.text, log, over) /\ Seen(s.cache.base, s.cache.text, log, over)
    /\ s.pending.at <= clk /\ s.cache.at <= clk
    /\ ~Clear(s.pending) => s.pending.gen # 0
    /\ ~Clear(s.cache) => s.cache.gen # 0
    /\ Has(s.cache) => s.pending.at <= s.cache.at
    /\ Has(s.pending) /\ Has(s.cache) => s.cache.unsent
    /\ Has(s.pending) /\ Has(s.cache) /\ Clear(s.pending) => s.pending.text \subseteq s.cache.text \cup over
    /\ Has(s.pending) /\ ~Has(s.cache) => gone

(* What the open page shows. *)
PageLone(x, s, log, over) ==
    /\ x.open => ~x.load.on /\ Seen(x.base, x.text, log, over)
    /\ x.open /\ Clear(s.pending) => s.pending.text \subseteq x.text \cup over
    /\ Has(s.pending) /\ ~Has(s.cache) => ~x.open /\ ~x.load.on

(* A draft the tab holds back is marked in the store. *)
HeldLone(h, s) ==
    /\ Has(h) => h.gen # 0
    /\ SameDraft(s.pending, h) => ~Clear(s.pending)
    /\ SameDraft(s.cache, h) => ~Clear(s.cache)

(* The entry a drain has read is the queue's, or is nowhere any more. *)
Current(item, s) == s.pending = item \/ (~SameDraft(s.pending, item) /\ ~SameDraft(s.cache, item))

JobLone(j, open, text, s, log, over) ==
    /\ Seen(j.item.base, j.item.text, log, over)
    /\ j.phase \in {"sent", "answered"} => j.item.gen # 0 /\ j.kind \in {"save", "drain"}
    /\ j.phase = "sync" => j.kind = "drain"
    /\ j.kind = "save" => j.item.gen # 0 /\ open /\ s.pending = j.item /\ j.item.text \subseteq text
    /\ j.kind = "drain" => j.phase # "none" /\ Has(j.item) /\ j.item.marks = {} /\ Current(j.item, s)
    /\ j.kind = "drain" /\ j.item.gen # 0 /\ open => j.item.text \subseteq text \cup over
    /\ j.kind = "drain" /\ j.item.gen # 0 /\ ~open => s.pending = j.item
    /\ j.kind = "recover" => open
    /\ j.kind = "recover" /\ Has(j.item) => s.pending = j.item

(* The version of a save answered during a load is one the cache holds. *)
LoadLone(ld, s, log, over) ==
    /\ ld.on => ld.ver \in 1..Len(log) /\ ld.text = log[ld.ver].text
    /\ ld.on /\ ld.carried > 0 =>
         /\ ~Has(s.pending) /\ Has(s.cache) /\ ld.carried <= Len(log)
         /\ log[ld.carried].text \subseteq s.cache.text \cup over
         /\ s.cache.unsent \/ ld.carried <= s.cache.base

TabLone(x, s, log, over) ==
    /\ x.move = Idle
    /\ PageLone(x, s, log, over) /\ HeldLone(x.held, s)
    /\ JobLone(x.job, x.open, x.text, s, log, over) /\ LoadLone(x.load, s, log, over)

LoneInv ==
    /\ Alone /\ srv.gen # 0
    /\ Shelf(db, srv.log, overlooked, clock, srv.gone)
    /\ \A t \in Tabs : TabLone(tab[t], db, srv.log, overlooked)

-----------------------------------------------------------------------------
(* Versions and overlooked edits only grow, and what was seen stays seen.  *)

Later(log, over, log2, over2) ==
    /\ log \in Seq(Entries) /\ log2 \in Seq(Entries)
    /\ Len(log) <= Len(log2) /\ \A i \in 1..Len(log) : log2[i] = log[i]
    /\ over \subseteq over2

LEMMA LaterSelf == ASSUME NEW log \in Seq(Entries), NEW over, NEW over2, over \subseteq over2 PROVE Later(log, over, log, over2)
  BY DEF Later

LEMMA SeenLater ==
  ASSUME NEW log, NEW over, NEW log2, NEW over2, Later(log, over, log2, over2), NEW v \in Nat, NEW x, NEW y,
         Seen(v, x, log, over), x \subseteq y
  PROVE  Seen(v, y, log2, over2)
  <1>1. Len(log) \in Nat /\ Len(log2) \in Nat
    BY DEF Later
  <1>2. CASE v = 0
    BY <1>1, <1>2 DEF Seen
  <1>3. CASE v > 0
    <2>1. v \in 1..Len(log)
      BY <1>1, <1>3 DEF Seen
    <2>2. log2[v] = log[v] /\ log[v].text \subseteq x \cup over /\ over \subseteq over2
      BY <1>3, <2>1 DEF Seen, Later
    <2>3. v <= Len(log2)
      BY <1>1, <2>1 DEF Later
    <2> QED BY <2>2, <2>3 DEF Seen
  <1> QED BY <1>2, <1>3

LEMMA ShelfLater ==
  ASSUME NEW log, NEW over, NEW log2, NEW over2, Later(log, over, log2, over2), NEW s \in Stores,
         NEW clk \in Nat, NEW clk2 \in Nat, clk <= clk2, NEW gone, NEW gone2, gone => gone2,
         Shelf(s, log, over, clk, gone)
  PROVE  Shelf(s, log2, over2, clk2, gone2)
  <1>1. s.pending.base \in Nat /\ s.cache.base \in Nat /\ s.pending.at \in Nat /\ s.cache.at \in Nat
    BY DEF Stores, Drafts
  <1>2. Seen(s.pending.base, s.pending.text, log2, over2) /\ Seen(s.cache.base, s.cache.text, log2, over2)
    BY <1>1, SeenLater DEF Shelf
  <1>3. over \subseteq over2
    BY DEF Later
  <1>4. s.pending.at <= clk2 /\ s.cache.at <= clk2
    BY <1>1 DEF Shelf
  <1> QED BY <1>2, <1>3, <1>4 DEF Shelf

LEMMA TabLater ==
  ASSUME NEW log, NEW over, NEW log2, NEW over2, Later(log, over, log2, over2), NEW s \in Stores,
         NEW x \in TabStates, TabLone(x, s, log, over)
  PROVE  TabLone(x, s, log2, over2)
  <1>1. x.base \in Nat /\ x.job.item.base \in Nat /\ x.load.ver \in Nat /\ x.load.carried \in Nat
    BY DEF TabStates, Jobs, Drafts, Loads
  <1>2. over \subseteq over2 /\ Len(log) \in Nat /\ Len(log2) \in Nat /\ Len(log) <= Len(log2)
        /\ \A i \in 1..Len(log) : log2[i] = log[i]
    BY DEF Later
  <1>3. PageLone(x, s, log2, over2)
    BY <1>1, <1>2, SeenLater DEF TabLone, PageLone
  <1>4. JobLone(x.job, x.open, x.text, s, log2, over2)
    <2>1. Seen(x.job.item.base, x.job.item.text, log2, over2)
      BY <1>1, SeenLater DEF TabLone, JobLone
    <2> QED BY <1>2, <2>1 DEF TabLone, JobLone
  <1>5. LoadLone(x.load, s, log2, over2)
    <2>1. LoadLone(x.load, s, log, over)
      BY DEF TabLone
    <2>2. ASSUME x.load.on PROVE x.load.ver \in 1..Len(log2) /\ x.load.text = log2[x.load.ver].text
      BY <1>1, <1>2, <2>1, <2>2 DEF LoadLone
    <2>3. ASSUME x.load.on, x.load.carried > 0
          PROVE  x.load.carried <= Len(log2) /\ log2[x.load.carried] = log[x.load.carried]
      BY <1>1, <1>2, <2>1, <2>3 DEF LoadLone
    <2> QED BY <1>2, <2>1, <2>2, <2>3 DEF LoadLone
  <1> QED BY <1>3, <1>4, <1>5 DEF TabLone

(* There is one tab, so a step is judged by it and by the store. *)
LEMMA LoneAgain ==
  ASSUME LoneInv, NEW t \in Tabs, srv'.gen # 0,
         Shelf(db', srv'.log, overlooked', clock', srv'.gone), TabLone(tab'[t], db', srv'.log, overlooked')
  PROVE  LoneInv'
  <1>1. \A u \in Tabs : u = t
    BY DEF LoneInv, Alone
  <1>2. \A u \in Tabs : TabLone(tab'[u], db', srv'.log, overlooked')
    BY <1>1
  <1> QED BY <1>2 DEF LoneInv, Alone

(* What the code keeps at hand whenever a step begins. *)
LEMMA LoneFacts ==
  ASSUME SaveTyped, LoneInv, NEW t \in Tabs
  PROVE  /\ db \in Stores /\ db.cache \in Drafts /\ db.pending \in Drafts /\ clock \in Nat /\ srv.log \in Seq(Entries)
         /\ tab[t] \in TabStates /\ tab[t].job \in Jobs /\ tab[t].load \in Loads /\ tab[t].held \in Drafts
         /\ tab[t].job.item \in Drafts
         /\ Shelf(db, srv.log, overlooked, clock, srv.gone) /\ TabLone(tab[t], db, srv.log, overlooked)
         /\ PageLone(tab[t], db, srv.log, overlooked) /\ HeldLone(tab[t].held, db)
         /\ JobLone(tab[t].job, tab[t].open, tab[t].text, db, srv.log, overlooked)
         /\ LoadLone(tab[t].load, db, srv.log, overlooked) /\ tab[t].move = Idle
  <1>1. db \in Stores /\ tab[t] \in TabStates /\ clock \in Nat
    BY DEF SaveTyped
  <1>2. db.cache \in Drafts /\ db.pending \in Drafts /\ tab[t].job \in Jobs /\ tab[t].load \in Loads /\ tab[t].held \in Drafts
    BY <1>1 DEF Stores, TabStates
  <1>3. tab[t].job.item \in Drafts
    BY <1>2 DEF Jobs
  <1> QED BY <1>1, <1>2, <1>3, ServerFacts DEF LoneInv, TabLone

LEMMA NoStorageFault ==
  ASSUME Alone, NEW kept \in BOOLEAN, Stored(kept)
  PROVE  kept
  BY DEF Alone, Stored, Fault

(* Steps that leave the store, the page and the request alone. *)
SameView(x, y) ==
    /\ y.move = x.move /\ y.open = x.open /\ y.text = x.text /\ y.base = x.base
    /\ y.held = x.held /\ y.job = x.job /\ y.load = x.load

LEMMA QuietLone ==
  ASSUME SaveTyped, LoneInv, NEW t \in Tabs, SameView(tab[t], tab'[t]), tab'[t] \in TabStates, db' = db, clock' = clock,
         Later(srv.log, overlooked, srv'.log, overlooked'), srv'.gen # 0, srv.gone => srv'.gone
  PROVE  LoneInv'
  <1>1. TabLone(tab'[t], db, srv.log, overlooked)
    BY LoneFacts DEF SameView, TabLone, PageLone
  <1>2. TabLone(tab'[t], db', srv'.log, overlooked')
    BY <1>1, LoneFacts, TabLater
  <1>3. Shelf(db', srv'.log, overlooked', clock', srv'.gone)
    BY LoneFacts, ShelfLater
  <1> QED BY <1>2, <1>3, LoneAgain

(* The other device, the server's owner and its clock. *)
LEMMA OthersLone ==
  ASSUME SaveTyped, SaveTyped', LoneInv, NEW t \in Tabs,
         OtherSave \/ OtherDelete \/ ChangeRole \/ Rotate \/ ForgetKeys \/ Refuse \/ Admit
  PROVE  LoneInv'
  <1>1. db' = db /\ tab' = tab /\ clock' = clock /\ overlooked' = overlooked
    BY Zenon DEF OtherSave, OtherDelete, ChangeRole, Rotate, ForgetKeys, Refuse, Admit
  <1>2. srv \in Servers /\ srv.log \in Seq(Entries) /\ srv.gen \in Nat /\ srv.gen # 0
    BY ServerFacts DEF LoneInv
  <1>3. srv'.log \in Seq(Entries)
    BY DEF SaveTyped, Servers
  <1>4. CASE OtherSave
    <2> DEFINE e == [seal |-> 0, base |-> Version, gen |-> srv.gen, text |-> HeadText \cup {edits + 1}]
    <2>1. srv' = [srv EXCEPT !.log = Append(srv.log, e)]
      BY <1>4 DEF OtherSave
    <2>2. e \in Entries
      BY ServerFacts DEF Entries, Texts, SaveTyped
    <2> HIDE DEF e
    <2>3. srv'.log = Append(srv.log, e) /\ srv'.gen = srv.gen /\ srv'.gone = srv.gone
      BY <1>2, <2>1 DEF Servers
    <2>4. Later(srv.log, overlooked, srv'.log, overlooked')
      BY <1>1, <1>2, <1>3, <2>2, <2>3 DEF Later
    <2>5. SameView(tab[t], tab'[t]) /\ tab'[t] \in TabStates
      BY <1>1, LoneFacts DEF SameView
    <2> QED BY <1>1, <1>2, <2>3, <2>4, <2>5, QuietLone
  <1>5. CASE OtherDelete \/ ChangeRole \/ Rotate \/ ForgetKeys \/ Refuse \/ Admit
    <2>1. srv'.log = srv.log /\ srv'.gen # 0 /\ (srv.gone => srv'.gone)
      <3>1. CASE OtherDelete
        BY <1>2, <3>1 DEF OtherDelete, Servers
      <3>2. CASE ChangeRole
        BY <1>2, <3>2 DEF ChangeRole, Servers
      <3>3. CASE Rotate
        BY <1>2, <3>3 DEF Rotate, Servers
      <3>4. CASE ForgetKeys
        BY <1>2, <3>4 DEF ForgetKeys, Servers
      <3>5. CASE Refuse \/ Admit
        BY <1>2, <3>5, BarStep
      <3> QED BY <1>5, <3>1, <3>2, <3>3, <3>4, <3>5
    <2>2. Later(srv.log, overlooked, srv'.log, overlooked')
      BY <1>1, <1>2, <2>1, LaterSelf
    <2>3. SameView(tab[t], tab'[t]) /\ tab'[t] \in TabStates
      BY <1>1, LoneFacts DEF SameView
    <2> QED BY <1>1, <2>1, <2>2, <2>3, QuietLone
  <1> QED BY <1>4, <1>5

LEMMA KeyPassLone ==
  ASSUME SaveTyped, SaveTyped', LoneInv, NEW t \in Tabs, KeyPass(t) \/ RecoverCopy(t) \/ RecoverSkip(t)
  PROVE  LoneInv'
  <1>1. db' = db /\ clock' = clock /\ overlooked' = overlooked
    BY Zenon DEF KeyPass, RecoverCopy, RecoverSkip
  <1>2. srv \in Servers /\ srv.log \in Seq(Entries) /\ srv.gen # 0 /\ tab[t] \in TabStates /\ tab'[t] \in TabStates
        /\ tab \in [Tabs -> TabStates]
    BY ServerFacts DEF LoneInv, SaveTyped
  <1>3. srv'.log = srv.log /\ srv'.gen = srv.gen /\ srv'.gone = srv.gone
    <2>1. CASE KeyPass(t) \/ RecoverSkip(t)
      BY <2>1, Zenon DEF KeyPass, RecoverSkip
    <2>2. CASE RecoverCopy(t)
      <3>1. PICK u, c : srv' = [srv EXCEPT !.unresolved = u, !.copies = c]
        BY <2>2, Zenon DEF RecoverCopy
      <3> QED BY <1>2, <3>1 DEF Servers
    <2> QED BY <2>1, <2>2
  <1>4. SameView(tab[t], tab'[t])
    <2>1. CASE KeyPass(t)
      <3>1. PICK k : tab' = [tab EXCEPT ![t].key = k]
        BY <2>1 DEF KeyPass
      <3>2. tab'[t] = [tab[t] EXCEPT !.key = k]
        BY <1>2, <3>1
      <3> QED BY <1>2, <3>2 DEF SameView, TabStates
    <2>2. CASE RecoverCopy(t)
      <3>1. PICK c \in srv.conflicts : tab' = [tab EXCEPT ![t].todo = @ \ {c.seal}]
        BY <2>2 DEF RecoverCopy
      <3>2. tab'[t] = [tab[t] EXCEPT !.todo = tab[t].todo \ {c.seal}]
        BY <1>2, <3>1
      <3> QED BY <1>2, <3>2 DEF SameView, TabStates
    <2>3. CASE RecoverSkip(t)
      <3>1. PICK c \in tab[t].todo : tab' = [tab EXCEPT ![t].todo = @ \ {c}, ![t].failed = TRUE]
        BY <2>3 DEF RecoverSkip
      <3>2. tab'[t] = [tab[t] EXCEPT !.todo = tab[t].todo \ {c}, !.failed = TRUE]
        BY <1>2, <3>1
      <3> QED BY <1>2, <3>2 DEF SameView, TabStates
    <2> QED BY <2>1, <2>2, <2>3
  <1>5. Later(srv.log, overlooked, srv'.log, overlooked')
    BY <1>1, <1>2, <1>3, LaterSelf
  <1> QED BY <1>1, <1>2, <1>3, <1>4, <1>5, QuietLone

(* Steps of the tab that leave the server and the store alone. *)
LEMMA TabOnlyLone ==
  ASSUME SaveTyped, LoneInv, NEW t \in Tabs, db' = db, srv' = srv, clock' = clock, overlooked' = overlooked,
         TabLone(tab'[t], db, srv.log, overlooked)
  PROVE  LoneInv'
  <1>1. Shelf(db', srv'.log, overlooked', clock', srv'.gone)
    BY LoneFacts
  <1>2. srv'.gen # 0
    BY DEF LoneInv
  <1> QED BY <1>1, <1>2, LoneAgain

LEMMA NoDraftFields ==
  /\ NoDraft.seal = 0 /\ NoDraft.at = 0 /\ NoDraft.base = 0 /\ NoDraft.gen = 0 /\ NoDraft.text = {}
  /\ NoDraft.unsent = FALSE /\ NoDraft.marks = {} /\ ~Has(NoDraft) /\ Clear(NoDraft) /\ NoDraft \in Drafts
  BY DEF NoDraft, Has, Clear, Drafts, Texts

LEMMA IdleFields ==
  /\ Idle.kind = "idle" /\ Idle.phase = "none" /\ Idle.item = NoDraft /\ Idle.ans = "none" /\ Idle.ver = 0 /\ Idle \in Jobs
  BY NoDraftFields DEF Idle, Jobs, Answers

LEMMA IdleLone ==
  ASSUME NEW log \in Seq(Entries), NEW over, NEW s, NEW open, NEW text
  PROVE  JobLone(Idle, open, text, s, log, over)
  <1>1. 0 <= Len(log)
    OBVIOUS
  <1>2. Seen(NoDraft.base, NoDraft.text, log, over)
    BY <1>1, NoDraftFields DEF Seen
  <1> QED BY <1>2, IdleFields DEF JobLone

LEMMA NothingHeld ==
  ASSUME NEW s
  PROVE  HeldLone(NoDraft, s)
  BY NoDraftFields DEF HeldLone, SameDraft, Has

LEMMA CrashLone ==
  ASSUME SaveTyped, LoneInv, NEW t \in Tabs, Crash(t)
  PROVE  LoneInv'
  <1>1. tab'[t] = Closed /\ db' = db /\ srv' = srv /\ clock' = clock /\ overlooked' = overlooked
    BY DEF Crash, SaveTyped
  <1>2. Closed.move = Idle /\ Closed.job = Idle /\ Closed.held = NoDraft /\ ~Closed.open /\ Closed.load = NoLoad /\ ~NoLoad.on
    BY DEF Closed, NoLoad
  <1>3. TabLone(Closed, db, srv.log, overlooked)
    BY <1>2, IdleLone, NothingHeld, LoneFacts DEF TabLone, PageLone, LoadLone
  <1> QED BY <1>1, <1>3, TabOnlyLone

LEMMA ClosePageLone ==
  ASSUME SaveTyped, LoneInv, NEW t \in Tabs, ClosePage(t)
  PROVE  LoneInv'
  <1>1. /\ tab'[t] = [tab[t] EXCEPT !.open = FALSE, !.dirty = FALSE] /\ tab[t].job = Idle /\ tab[t].open
        /\ db' = db /\ srv' = srv /\ clock' = clock /\ overlooked' = overlooked
    BY DEF ClosePage, SaveTyped
  <1>2. tab'[t].move = tab[t].move /\ tab'[t].job = Idle /\ tab'[t].held = tab[t].held /\ ~tab'[t].open
        /\ tab'[t].load = tab[t].load
    BY <1>1, LoneFacts DEF TabStates
  <1>3. TabLone(tab'[t], db, srv.log, overlooked)
    <2>1. PageLone(tab'[t], db, srv.log, overlooked)
      BY <1>1, <1>2, LoneFacts DEF PageLone
    <2>2. JobLone(tab'[t].job, tab'[t].open, tab'[t].text, db, srv.log, overlooked)
      BY <1>2, IdleLone, LoneFacts
    <2> QED BY <1>2, <2>1, <2>2, LoneFacts DEF TabLone
  <1> QED BY <1>1, <1>3, TabOnlyLone

LEMMA BeginLoadLone ==
  ASSUME SaveTyped, LoneInv, NEW t \in Tabs, BeginLoad(t)
  PROVE  LoneInv'
  <1> DEFINE load == [on |-> TRUE, ver |-> Version, text |-> HeadText, carried |-> 0]
  <1>1. /\ tab'[t] = [tab[t] EXCEPT !.key = srv.gen, !.listed = FALSE, !.load = load]
        /\ ~tab[t].open /\ ~srv.gone
        /\ db' = db /\ srv' = srv /\ clock' = clock /\ overlooked' = overlooked
    BY DEF BeginLoad, SaveTyped
  <1>2. load.on /\ load.ver = Len(srv.log) /\ load.text = srv.log[Len(srv.log)].text /\ load.carried = 0
    BY DEF Version, HeadText
  <1> HIDE DEF load
  <1>3. tab'[t].move = tab[t].move /\ tab'[t].job = tab[t].job /\ tab'[t].held = tab[t].held /\ ~tab'[t].open
        /\ tab'[t].text = tab[t].text /\ tab'[t].load = load
    BY <1>1, LoneFacts DEF TabStates
  <1>4. LoadLone(load, db, srv.log, overlooked)
    BY <1>2, ServerFacts DEF LoadLone, Version
  <1>5. PageLone(tab'[t], db, srv.log, overlooked)
    BY <1>1, <1>3, LoneFacts DEF PageLone, Shelf
  <1>6. JobLone(tab'[t].job, tab'[t].open, tab'[t].text, db, srv.log, overlooked)
    BY <1>1, <1>3, LoneFacts
  <1>7. TabLone(tab'[t], db, srv.log, overlooked)
    BY <1>3, <1>4, <1>5, <1>6, LoneFacts DEF TabLone
  <1> QED BY <1>1, <1>7, TabOnlyLone

(* A step that only changes the tab's task. *)
LEMMA JobOnlyLone ==
  ASSUME SaveTyped, LoneInv, NEW t \in Tabs, NEW j, tab' = [tab EXCEPT ![t].job = j],
         db' = db, srv' = srv, clock' = clock, overlooked' = overlooked,
         JobLone(j, tab[t].open, tab[t].text, db, srv.log, overlooked)
  PROVE  LoneInv'
  <1>1. tab'[t] = [tab[t] EXCEPT !.job = j] /\ tab[t] \in TabStates
    BY DEF SaveTyped
  <1>2. /\ tab'[t].move = tab[t].move /\ tab'[t].job = j /\ tab'[t].held = tab[t].held /\ tab'[t].open = tab[t].open
        /\ tab'[t].load = tab[t].load /\ tab'[t].text = tab[t].text /\ tab'[t].base = tab[t].base
    BY <1>1 DEF TabStates
  <1>3. PageLone(tab'[t], db, srv.log, overlooked)
    BY <1>2, LoneFacts DEF PageLone
  <1>4. TabLone(tab'[t], db, srv.log, overlooked)
    BY <1>2, <1>3, LoneFacts DEF TabLone
  <1> QED BY <1>4, TabOnlyLone

LEMMA DrainStartLone ==
  ASSUME SaveTyped, LoneInv, NEW t \in Tabs, DrainStart(t)
  PROVE  LoneInv'
  <1> DEFINE j == [Idle EXCEPT !.kind = "drain", !.phase = "sync", !.item = db.pending]
  <1>1. /\ tab' = [tab EXCEPT ![t].job = j] /\ db' = db /\ srv' = srv /\ clock' = clock /\ overlooked' = overlooked
        /\ db.pending.marks = {} /\ Has(db.pending)
    BY DEF DrainStart
  <1>2. j.kind = "drain" /\ j.phase = "sync" /\ j.item = db.pending
    BY IdleFields DEF Jobs
  <1> HIDE DEF j
  <1>3. Clear(db.pending)
    BY <1>1 DEF Clear
  <1>4. JobLone(j, tab[t].open, tab[t].text, db, srv.log, overlooked)
    BY <1>1, <1>2, <1>3, LoneFacts DEF JobLone, Shelf, PageLone, Current
  <1> QED BY <1>1, <1>4, JobOnlyLone

LEMMA SeeUnsentLone ==
  ASSUME SaveTyped, LoneInv, NEW t \in Tabs, SeeUnsent(t)
  PROVE  LoneInv'
  <1> DEFINE j == [Idle EXCEPT !.kind = "discard", !.item = db.pending]
  <1>1. tab' = [tab EXCEPT ![t].job = j] /\ db' = db /\ srv' = srv /\ clock' = clock /\ overlooked' = overlooked
    BY DEF SeeUnsent
  <1>2. j.kind = "discard" /\ j.phase = "none" /\ j.item = db.pending
    BY IdleFields DEF Jobs
  <1> HIDE DEF j
  <1>4. JobLone(j, tab[t].open, tab[t].text, db, srv.log, overlooked)
    BY <1>2, LoneFacts DEF JobLone, Shelf
  <1> QED BY <1>1, <1>4, JobOnlyLone

LEMMA DrainWaitLone ==
  ASSUME SaveTyped, LoneInv, NEW t \in Tabs, DrainWait(t)
  PROVE  LoneInv'
  <1>1. tab' = [tab EXCEPT ![t].job = Idle] /\ db' = db /\ srv' = srv /\ clock' = clock /\ overlooked' = overlooked
    BY DEF DrainWait
  <1>2. JobLone(Idle, tab[t].open, tab[t].text, db, srv.log, overlooked)
    BY IdleLone, LoneFacts
  <1> QED BY <1>1, <1>2, JobOnlyLone

(* The server's log after a save: as it was, or one version longer, and    *)
(* that version was made from the one it follows.                          *)
LEMMA SavedLog ==
  ASSUME SaveTyped, NEW item \in Drafts
  PROVE  /\ AfterSave(item).gen = srv.gen /\ AfterSave(item).gone = srv.gone
         /\ \/ AfterSave(item).log = srv.log
            \/ /\ item.base = Version
               /\ \E e \in Entries : e.text = item.text /\ AfterSave(item).log = Append(srv.log, e)
  <1> DEFINE a == Answer(item)
             e == [seal |-> item.seal, base |-> item.base, gen |-> item.gen, text |-> item.text]
             new == [key |-> Key(item), code |-> a.code, ver |-> a.ver]
             fresh == a.code \in {"ok", "version_conflict"} /\ Replayed(item) = {}
  <1>1. e \in Entries /\ e.text = item.text
    BY DEF Drafts, Entries
  <1>2. srv \in Servers
    BY ServerFacts
  <1>3. CASE ~fresh
    <2>1. AfterSave(item) = srv
      BY <1>3, Zenon DEF AfterSave
    <2> QED BY <2>1
  <1>4. CASE fresh
    <2>1. PICK conflicts, unresolved, idem, log :
            /\ AfterSave(item) = [srv EXCEPT !.idem = idem, !.log = log, !.conflicts = conflicts, !.unresolved = unresolved]
            /\ log = IF a.code = "ok" THEN Append(srv.log, e) ELSE srv.log
      BY <1>4, Zenon DEF AfterSave
    <2> HIDE DEF e
    <2>2. AfterSave(item).log = log /\ AfterSave(item).gen = srv.gen /\ AfterSave(item).gone = srv.gone
      <3> HIDE DEF a
      <3>1. AfterSave(item) = [srv EXCEPT !.idem = idem, !.log = log, !.conflicts = conflicts, !.unresolved = unresolved]
        BY <2>1
      <3> QED BY <1>2, <3>1 DEF Servers
    <2>3. a.code = "ok" => item.base = Version
      <3>1. Replayed(item) = {}
        BY <1>4
      <3> QED BY <3>1 DEF Answer
    <2> HIDE DEF a
    <2> QED BY <1>1, <2>1, <2>2, <2>3
  <1> QED BY <1>3, <1>4

LEMMA SavedLater ==
  ASSUME SaveTyped, SaveTyped', NEW item \in Drafts, srv' = AfterSave(item), overlooked' = overlooked
  PROVE  Later(srv.log, overlooked, srv'.log, overlooked') /\ srv'.gen = srv.gen /\ srv'.gone = srv.gone
  <1>1. srv.log \in Seq(Entries) /\ srv'.log \in Seq(Entries)
    BY DEF SaveTyped, Servers
  <1>2. CASE srv'.log = srv.log
    BY <1>1, <1>2, SavedLog, LaterSelf
  <1>3. CASE \E e \in Entries : srv'.log = Append(srv.log, e)
    BY <1>1, <1>3, SavedLog DEF Later
  <1> QED BY <1>2, <1>3, SavedLog

(* A request is delivered, answered or lost. *)
LEMMA DeliverLone ==
  ASSUME SaveTyped, SaveTyped', LoneInv, NEW t \in Tabs, NEW slot \in Slots, Deliver(t, slot) \/ Lose(t, slot)
  PROVE  LoneInv' /\ slot = "job" /\ tab[t].job.phase \in {"sent", "answered"}
  <1>1. slot = "job" /\ tab[t].job.phase \in {"sent", "answered"}
    <2>1. tab[t][slot].phase \in {"sent", "answered"}
      BY DEF Deliver, Lose
    <2>2. tab[t].move.phase = "none"
      BY LoneFacts, IdleFields
    <2> QED BY <2>1, <2>2 DEF Slots
  <1>2. db' = db /\ clock' = clock /\ overlooked' = overlooked
    BY Zenon DEF Deliver, Lose
  <1>3. PICK j : tab'[t] = [tab[t] EXCEPT !.job = j] /\ j.item = tab[t].job.item /\ j.kind = tab[t].job.kind /\ j.phase = "answered"
    <2>1. CASE Lose(t, slot)
      <3> DEFINE j == [tab[t].job EXCEPT !.phase = "answered", !.ans = "network"]
      <3>1. tab'[t] = [tab[t] EXCEPT !.job = j]
        BY <1>1, <2>1 DEF Lose, SaveTyped, TabStates, Jobs
      <3>2. j.item = tab[t].job.item /\ j.kind = tab[t].job.kind /\ j.phase = "answered"
        BY LoneFacts DEF Jobs
      <3> QED BY <3>1, <3>2
    <2>2. CASE Deliver(t, slot) /\ tab[t].key # tab[t].job.item.gen
      <3> DEFINE j == [tab[t].job EXCEPT !.phase = "answered", !.ans = "keys"]
      <3>1. tab' = [tab EXCEPT ![t].job.phase = "answered", ![t].job.ans = "keys"]
        BY <1>1, <2>2 DEF Deliver
      <3>2. tab'[t] = [tab[t] EXCEPT !.job = j]
        BY <3>1 DEF SaveTyped, TabStates, Jobs
      <3>3. j.item = tab[t].job.item /\ j.kind = tab[t].job.kind /\ j.phase = "answered"
        BY LoneFacts DEF Jobs
      <3> QED BY <3>2, <3>3
    <2>3. CASE Deliver(t, slot) /\ tab[t].key = tab[t].job.item.gen
      <3> DEFINE ans == Answer(tab[t].job.item).code
                 ver == Answer(tab[t].job.item).ver
                 j == [tab[t].job EXCEPT !.phase = "answered", !.ans = ans, !.ver = ver]
      <3>1. tab' = [tab EXCEPT ![t].job.phase = "answered", ![t].job.ans = ans, ![t].job.ver = ver]
        BY <1>1, <2>3 DEF Deliver
      <3> HIDE DEF ans, ver
      <3>2. tab'[t] = [tab[t] EXCEPT !.job = j]
        BY <3>1 DEF SaveTyped, TabStates, Jobs
      <3>3. j.item = tab[t].job.item /\ j.kind = tab[t].job.kind /\ j.phase = "answered"
        BY LoneFacts DEF Jobs
      <3> QED BY <3>2, <3>3
    <2> QED BY <2>1, <2>2, <2>3
  <1>4. tab'[t] = [tab[t] EXCEPT !.job = j]
    BY <1>3
  <1>5. j.item = tab[t].job.item /\ j.kind = tab[t].job.kind /\ j.phase = "answered"
    BY <1>3
  <1>6. JobLone(j, tab[t].open, tab[t].text, db, srv.log, overlooked)
    BY <1>1, <1>5, LoneFacts DEF JobLone
  <1>7. /\ tab'[t].move = tab[t].move /\ tab'[t].job = j /\ tab'[t].held = tab[t].held /\ tab'[t].open = tab[t].open
        /\ tab'[t].load = tab[t].load /\ tab'[t].text = tab[t].text /\ tab'[t].base = tab[t].base
    BY <1>4, LoneFacts DEF TabStates
  <1>8. TabLone(tab'[t], db, srv.log, overlooked)
    <2>1. PageLone(tab'[t], db, srv.log, overlooked)
      BY <1>7, LoneFacts DEF PageLone
    <2> QED BY <1>6, <1>7, <2>1, LoneFacts DEF TabLone
  <1>9. Later(srv.log, overlooked, srv'.log, overlooked') /\ srv'.gen = srv.gen /\ srv'.gone = srv.gone
    <2>1. CASE srv' = srv
      BY <1>2, <2>1, LoneFacts, LaterSelf
    <2>2. CASE srv' # srv
      <3>1. srv' = AfterSave(tab[t].job.item)
        BY <1>1, <2>2, Zenon DEF Deliver, Lose
      <3> QED BY <1>2, <3>1, LoneFacts, SavedLater
    <2> QED BY <2>1, <2>2
  <1>10. tab'[t] \in TabStates
    BY DEF SaveTyped
  <1>11. TabLone(tab'[t], db', srv'.log, overlooked') /\ Shelf(db', srv'.log, overlooked', clock', srv'.gone)
    BY <1>2, <1>8, <1>9, <1>10, LoneFacts, TabLater, ShelfLater
  <1>12. srv'.gen # 0
    BY <1>9 DEF LoneInv
  <1> QED BY <1>1, <1>11, <1>12, LoneAgain

LEMMA RecoverReloadLone ==
  ASSUME SaveTyped, SaveTyped', LoneInv, NEW t \in Tabs, RecoverReload(t)
  PROVE  LoneInv'
  <1> DEFINE entry == IF "conflicted" \in db.pending.marks THEN db.pending ELSE NoDraft
             j == [Idle EXCEPT !.kind = "recover", !.item = entry]
             y == [tab[t] EXCEPT !.recovering = TRUE, !.text = HeadText, !.base = Version,
                     !.dirty = FALSE, !.flushed = TRUE, !.todo = srv.unresolved, !.failed = FALSE, !.job = j]
  <1>1. tab'[t] = y /\ db' = db /\ srv' = srv /\ clock' = clock /\ tab[t].open
    BY DEF RecoverReload, SaveTyped
  <1>2. overlooked' = overlooked \cup
         UNION {d.text : d \in {d \in {db.pending, db.cache} :
                                  "conflicted" \notin d.marks /\ ~SameDraft(d, tab[t].held)}}
    BY DEF RecoverReload
  <1>3. j.kind = "recover" /\ j.phase = "none" /\ j.item = entry
    BY IdleFields DEF Jobs
  <1>4. entry = db.pending \/ entry = NoDraft
    OBVIOUS
  <1> HIDE DEF j, entry
  <1>5. /\ y.move = tab[t].move /\ y.job = j /\ y.held = tab[t].held /\ y.open = tab[t].open
        /\ y.load = tab[t].load /\ y.text = HeadText /\ y.base = Version
    BY LoneFacts DEF TabStates
  <1> HIDE DEF y
  <1>6. overlooked \subseteq overlooked' /\ (Clear(db.pending) => db.pending.text \subseteq overlooked')
    <2>1. Clear(db.pending) => db.pending \in {d \in {db.pending, db.cache} :
                                  "conflicted" \notin d.marks /\ ~SameDraft(d, tab[t].held)}
      BY LoneFacts DEF Clear, HeldLone
    <2> QED BY <1>2, <2>1, Zenon
  <1>7. Later(srv.log, overlooked, srv.log, overlooked')
    BY <1>6, LoneFacts, LaterSelf
  <1>8. Shelf(db, srv.log, overlooked', clock, srv.gone) /\ TabLone(tab[t], db, srv.log, overlooked')
    BY <1>7, LoneFacts, ShelfLater, TabLater
  <1>9. Seen(Version, HeadText, srv.log, overlooked')
    BY ServerFacts DEF Seen, Version, HeadText
  <1>10. PageLone(y, db, srv.log, overlooked')
    BY <1>1, <1>5, <1>6, <1>8, <1>9 DEF PageLone, TabLone
  <1>11. JobLone(j, y.open, y.text, db, srv.log, overlooked')
    <2>1. Seen(entry.base, entry.text, srv.log, overlooked')
      <3>1. CASE entry = db.pending
        BY <1>8, <3>1 DEF Shelf
      <3>2. CASE entry = NoDraft
        BY <3>2, NoDraftFields, ServerFacts DEF Seen, Version
      <3> QED BY <1>4, <3>1, <3>2
    <2> QED BY <1>1, <1>3, <1>4, <1>5, <2>1, NoDraftFields DEF JobLone
  <1>12. TabLone(y, db, srv.log, overlooked')
    BY <1>5, <1>8, <1>10, <1>11 DEF TabLone
  <1>13. srv'.gen # 0
    BY <1>1 DEF LoneInv
  <1> QED BY <1>1, <1>8, <1>12, <1>13, LoneAgain

(* settleDraft of an entry that is the queue's or nowhere. *)
LEMMA SettleLone ==
  ASSUME NEW w, GoodWorld(w), StoreOK(db, w), NEW over, NEW clk \in Nat, NEW gone, Shelf(db, w.log, over, clk, gone),
         NEW item, DraftOK(item, w), Current(item, db), NEW ver \in Nat, ver # 0 => InLog(ver, item.text, w),
         NEW s, s = AfterSettle(item, ver)
  PROVE  /\ s \in Stores /\ Shelf(s, w.log, over, clk, gone)
         /\ \/ s = db
            \/ db.pending = item /\ Has(item) /\ s.pending = NoDraft
         /\ \/ s.cache = db.cache
            \/ ver = 0 /\ s.cache = NoDraft
            \/ /\ ver # 0 /\ Has(s.cache) /\ s.cache.base = ver /\ s.cache.text = item.text /\ ~s.cache.unsent
               /\ db.cache.unsent /\ db.cache.text = item.text
  <1>1. db \in Stores /\ db.pending \in Drafts /\ db.cache \in Drafts /\ SealOK(db.pending, w) /\ SealOK(db.cache, w)
        /\ item \in Drafts /\ SealOK(item, w) /\ w.log \in Seq(Entries)
    BY WorldFacts DEF StoreOK, Stores, DraftOK, CacheOK, SealOK
  <1>2. CASE ~Has(item) \/ db.pending # item
    <2>1. ~SameDraft(db.pending, item) /\ ~SameDraft(db.cache, item)
      BY <1>2 DEF SameDraft, Has, Current
    <2>2. s = db
      BY <1>1, <2>1 DEF AfterSettle, Stores
    <2> QED BY <1>1, <2>2
  <1>3. CASE Has(item) /\ db.pending = item /\ ~SameDraft(db.cache, item)
    <2>1. SameDraft(db.pending, item)
      BY <1>3 DEF SameDraft
    <2>2. s = [pending |-> NoDraft, cache |-> db.cache]
      BY <1>3, <2>1 DEF AfterSettle
    <2>3. s.pending = NoDraft /\ s.cache = db.cache /\ s \in Stores
      BY <1>1, <2>2, NoDraftFields DEF Stores
    <2>4. Seen(NoDraft.base, NoDraft.text, w.log, over)
      BY <1>1, NoDraftFields DEF Seen
    <2>5. NoDraft.at <= clk /\ NoDraft.at <= db.cache.at
      BY <1>1, NoDraftFields DEF Drafts, Shelf
    <2>6. Shelf(s, w.log, over, clk, gone)
      BY <2>3, <2>4, <2>5, NoDraftFields DEF Shelf
    <2> QED BY <1>3, <2>3, <2>6
  <1>4. CASE Has(item) /\ db.pending = item /\ SameDraft(db.cache, item)
    <2>1. SameDraft(db.pending, item)
      BY <1>4 DEF SameDraft
    <2>2. db.cache.text = item.text /\ Has(db.cache) /\ db.cache.unsent
      BY <1>1, <1>4, SameText DEF Shelf
    <2> DEFINE c == [db.cache EXCEPT !.unsent = FALSE, !.base = ver]
               d == IF ver = 0 THEN NoDraft ELSE c
    <2>3. s = [pending |-> NoDraft, cache |-> d]
      BY <1>4, <2>1 DEF AfterSettle
    <2>4. c \in Drafts /\ c.seal = db.cache.seal /\ c.at = db.cache.at /\ c.base = ver /\ c.text = db.cache.text /\ ~c.unsent
          /\ c.marks = db.cache.marks /\ c.gen = db.cache.gen
      BY <1>1 DEF Drafts
    <2> HIDE DEF c
    <2>5. NoDraft.at <= clk /\ NoDraft.at <= c.at /\ Seen(NoDraft.base, NoDraft.text, w.log, over)
      BY <1>1, <2>4, NoDraftFields, SMTT(30) DEF Drafts, Shelf, Seen
    <2>6. CASE ver = 0
      <3>1. s.pending = NoDraft /\ s.cache = NoDraft /\ s \in Stores
        BY <2>3, <2>6, NoDraftFields DEF Stores
      <3>2. Shelf(s, w.log, over, clk, gone)
        BY <2>5, <3>1, NoDraftFields DEF Shelf
      <3> QED BY <1>4, <2>6, <3>1, <3>2
    <2>7. CASE ver # 0
      <3>1. s.pending = NoDraft /\ s.cache = c /\ s \in Stores
        BY <2>3, <2>4, <2>7, NoDraftFields DEF Stores
      <3>2. Seen(ver, c.text, w.log, over)
        BY <2>2, <2>4, <2>7 DEF InLog, Seen
      <3>3. c.at <= clk /\ (~Clear(c) => c.gen # 0) /\ Has(c)
        BY <2>2, <2>4 DEF Shelf, Clear, Has
      <3>4. Shelf(s, w.log, over, clk, gone)
        BY <2>4, <2>5, <3>1, <3>2, <3>3, NoDraftFields DEF Shelf
      <3> QED BY <1>4, <2>2, <2>4, <2>7, <3>1, <3>3, <3>4
    <2> QED BY <2>6, <2>7
  <1> QED BY <1>2, <1>3, <1>4

LEMMA RecoverEndLone ==
  ASSUME SaveTyped, SaveTyped', LoneInv, NEW w, GoodWorld(w), Fits(w), NEW t \in Tabs, RecoverEnd(t)
  PROVE  LoneInv'
  <1> DEFINE entry == tab[t].job.item
             x == tab[t]
  <1>1. db' = db \/ (Has(entry) /\ db' = AfterSettle(entry, 0))
    BY Zenon DEF RecoverEnd
  <1>2. PICK held, conflicted :
          /\ tab' = [tab EXCEPT ![t].recovering = FALSE, ![t].failed = FALSE, ![t].job = Idle,
                                ![t].held = held, ![t].conflicted = conflicted]
          /\ held \in {NoDraft, x.held}
    BY Zenon DEF RecoverEnd
  <1>3. srv' = srv /\ clock' = clock /\ overlooked' = overlooked /\ x.recovering
    BY DEF RecoverEnd
  <1>4. tab'[t] = [x EXCEPT !.recovering = FALSE, !.failed = FALSE, !.job = Idle, !.held = held, !.conflicted = conflicted]
    BY <1>2 DEF SaveTyped
  <1>5. /\ tab'[t].move = x.move /\ tab'[t].job = Idle /\ tab'[t].held = held /\ tab'[t].open = x.open
        /\ tab'[t].load = x.load /\ tab'[t].text = x.text /\ tab'[t].base = x.base
    BY <1>4, LoneFacts DEF TabStates
  <1>6. x.job.kind = "recover" /\ DraftOK(entry, w) /\ StoreOK(db, w) /\ w.log = srv.log
    BY <1>3, TabFacts, FitsStore DEF TabOK, Fits
  <1>7. Has(entry) => db.pending = entry
    BY <1>6, LoneFacts DEF JobLone
  <1>8. /\ Shelf(db', srv.log, overlooked, clock, srv.gone)
        /\ \/ db' = db
           \/ Has(db.pending) /\ db'.pending = NoDraft /\ (db'.cache = db.cache \/ db'.cache = NoDraft)
    <2>1. CASE db' = db
      BY <2>1, LoneFacts
    <2>2. CASE Has(entry) /\ db' = AfterSettle(entry, 0)
      <3>1. Current(entry, db) /\ Shelf(db, w.log, overlooked, clock, srv.gone) /\ 0 \in Nat /\ clock \in Nat
        BY <1>6, <1>7, <2>2, LoneFacts DEF Current
      <3> QED BY <1>6, <1>7, <2>2, <3>1, SettleLone
    <2> QED BY <1>1, <2>1, <2>2
  <1>9. TabLone(tab'[t], db', srv.log, overlooked)
    <2>1. JobLone(tab'[t].job, tab'[t].open, tab'[t].text, db', srv.log, overlooked)
      BY <1>5, IdleLone, LoneFacts
    <2>2. HeldLone(held, db')
      <3>1. CASE held = NoDraft
        BY <3>1, NothingHeld
      <3>2. CASE held = x.held
        BY <1>8, <3>2, LoneFacts, NoDraftFields DEF HeldLone, SameDraft
      <3> QED BY <1>2, <3>1, <3>2
    <2>3. PageLone(tab'[t], db', srv.log, overlooked)
      BY <1>5, <1>8, LoneFacts, NoDraftFields DEF PageLone
    <2>4. LoadLone(tab'[t].load, db', srv.log, overlooked)
      <3>1. CASE db' = db
        BY <1>5, <3>1, LoneFacts
      <3>2. CASE Has(db.pending)
        <4>1. x.load.on => x.load.carried = 0 /\ x.load.ver > 0 /\ x.load.carried \in Nat /\ x.load.ver \in Nat
          BY <3>2, LoneFacts DEF LoadLone, Loads
        <4> QED BY <1>5, <4>1, LoneFacts DEF LoadLone
      <3> QED BY <1>8, <3>1, <3>2
    <2> QED BY <1>5, <2>1, <2>2, <2>3, <2>4, LoneFacts DEF TabLone
  <1>10. srv'.gen # 0
    BY <1>3 DEF LoneInv
  <1> QED BY <1>3, <1>8, <1>9, <1>10, LoneAgain

LEMMA DiscardLone ==
  ASSUME SaveTyped, SaveTyped', LoneInv, NEW t \in Tabs, Discard(t)
  PROVE  LoneInv'
  <1>1. /\ db' = db \/ (Has(db.pending) /\ db' = [cache |-> NoDraft, pending |-> NoDraft])
        /\ tab' = [tab EXCEPT ![t].job = Idle] /\ srv' = srv /\ clock' = clock /\ overlooked' = overlooked
    BY DEF Discard, SameDraft
  <1>2. CASE db' = db
    BY <1>1, <1>2, IdleLone, LoneFacts, JobOnlyLone
  <1>3. CASE Has(db.pending) /\ db' = [cache |-> NoDraft, pending |-> NoDraft]
    <2>1. db'.cache = NoDraft /\ db'.pending = NoDraft
      BY <1>3
    <2>2. tab'[t] = [tab[t] EXCEPT !.job = Idle]
      BY <1>1 DEF SaveTyped
    <2>3. /\ tab'[t].move = tab[t].move /\ tab'[t].job = Idle /\ tab'[t].held = tab[t].held /\ tab'[t].open = tab[t].open
          /\ tab'[t].load = tab[t].load /\ tab'[t].text = tab[t].text /\ tab'[t].base = tab[t].base
      BY <2>2, LoneFacts DEF TabStates
    <2>4. Shelf(db', srv.log, overlooked, clock, srv.gone)
      <3>1. Seen(NoDraft.base, NoDraft.text, srv.log, overlooked) /\ NoDraft.at <= clock
        BY NoDraftFields, LoneFacts DEF Seen
      <3> QED BY <2>1, <3>1, NoDraftFields DEF Shelf
    <2>5. TabLone(tab'[t], db', srv.log, overlooked)
      <3>1. JobLone(tab'[t].job, tab'[t].open, tab'[t].text, db', srv.log, overlooked)
        BY <2>3, IdleLone, LoneFacts
      <3>2. HeldLone(tab'[t].held, db')
        BY <2>1, <2>3, LoneFacts, NoDraftFields DEF HeldLone, SameDraft
      <3>3. PageLone(tab'[t], db', srv.log, overlooked)
        BY <2>1, <2>3, LoneFacts, NoDraftFields DEF PageLone
      <3>4. LoadLone(tab'[t].load, db', srv.log, overlooked)
        <4>1. tab[t].load.on => /\ tab[t].load.carried = 0 /\ tab[t].load.ver > 0
                                /\ tab[t].load.carried \in Nat /\ tab[t].load.ver \in Nat
          BY <1>3, LoneFacts DEF LoadLone, Loads
        <4> QED BY <2>3, <4>1, LoneFacts DEF LoadLone
      <3> QED BY <2>3, <3>1, <3>2, <3>3, <3>4, LoneFacts DEF TabLone
    <2>6. srv'.gen # 0
      BY <1>1 DEF LoneInv
    <2> QED BY <1>1, <2>4, <2>5, <2>6, LoneAgain
  <1> QED BY <1>1, <1>2, <1>3

LEMMA RemovePageLone ==
  ASSUME SaveTyped, SaveTyped', LoneInv, NEW t \in Tabs, RemovePage(t)
  PROVE  LoneInv'
  <1>1. /\ srv' = [srv EXCEPT !.gone = TRUE] /\ db' = [db EXCEPT !.cache = NoDraft] /\ clock' = clock /\ overlooked' = overlooked
        /\ tab[t].open /\ tab[t].job = Idle
    BY DEF RemovePage
  <1>2. tab'[t] = [tab[t] EXCEPT !.open = FALSE, !.listed = FALSE, !.dirty = FALSE]
    BY DEF RemovePage, SaveTyped
  <1>3. srv'.log = srv.log /\ srv'.gen = srv.gen /\ srv'.gone = TRUE
    BY <1>1, ServerFacts DEF Servers
  <1>4. db'.cache = NoDraft /\ db'.pending = db.pending
    BY <1>1, LoneFacts DEF Stores
  <1>5. tab'[t].move = tab[t].move /\ tab'[t].job = Idle /\ tab'[t].held = tab[t].held /\ ~tab'[t].open
        /\ tab'[t].load = tab[t].load /\ ~tab[t].load.on
    BY <1>1, <1>2, LoneFacts DEF TabStates, PageLone
  <1>6. Shelf(db', srv'.log, overlooked', clock', srv'.gone)
    <2>1. Seen(NoDraft.base, NoDraft.text, srv.log, overlooked) /\ NoDraft.at <= clock
      BY NoDraftFields, LoneFacts DEF Seen
    <2> QED BY <1>1, <1>3, <1>4, <2>1, NoDraftFields, LoneFacts DEF Shelf
  <1>7. TabLone(tab'[t], db', srv'.log, overlooked')
    <2>1. JobLone(tab'[t].job, tab'[t].open, tab'[t].text, db', srv'.log, overlooked')
      BY <1>3, <1>5, IdleLone, LoneFacts
    <2>2. HeldLone(tab'[t].held, db')
      BY <1>4, <1>5, LoneFacts, NoDraftFields DEF HeldLone, SameDraft
    <2>3. PageLone(tab'[t], db', srv'.log, overlooked') /\ LoadLone(tab'[t].load, db', srv'.log, overlooked')
      BY <1>5 DEF PageLone, LoadLone
    <2> QED BY <1>5, <2>1, <2>2, <2>3, LoneFacts DEF TabLone
  <1>8. srv'.gen # 0
    BY <1>3 DEF LoneInv
  <1> QED BY <1>6, <1>7, <1>8, LoneAgain

(* prepareObjectDraft: a draft of the store, or one with a new seal, in    *)
(* either case at least as new as the queue.                               *)
PreparedFor(item, text, base, gen) ==
    /\ item \in Drafts /\ Has(item) /\ item.text = text /\ item.base = base /\ item.gen = gen
    /\ \/ item \in {db.pending, db.cache}
       \/ item.seal = clock + 1 /\ item.marks = {}
    /\ db.pending.at <= item.at /\ item.at <= Higher(clock, item.seal) /\ clock <= Higher(clock, item.seal)
    /\ Higher(clock, item.seal) \in Nat
    /\ ~Clear(item) => item.gen # 0

LEMMA PreparedLone ==
  ASSUME SaveTyped, LoneInv, NEW w, GoodWorld(w), Fits(w), NEW text \in Texts, NEW base \in Nat, NEW gen \in Nat
  PROVE  PreparedFor(Prepared(text, base, gen), text, base, gen)
  <1> DEFINE item == Prepared(text, base, gen)
  <1> SUFFICES PreparedFor(item, text, base, gen)
    OBVIOUS
  <1>1. /\ db.pending \in Drafts /\ db.cache \in Drafts /\ clock \in Nat /\ Shelf(db, srv.log, overlooked, clock, srv.gone)
        /\ db.pending.at \in Nat /\ db.cache.at \in Nat
    BY DEF SaveTyped, Stores, Drafts, LoneInv
  <1>2. db.pending.seal <= clock /\ db.cache.seal <= clock /\ db.pending.seal \in Nat /\ db.cache.seal \in Nat
    BY <1>1, FitsStore DEF StoreOK, CacheOK, DraftOK, SealOK, Drafts
  <1>3. CASE Reusable(text, base, gen)
    <2>1. item = Newest /\ Has(item) /\ item.text = text /\ item.base = base /\ item.gen = gen
      BY <1>3 DEF Prepared, Reusable
    <2>2. (item = db.cache /\ db.pending.at <= db.cache.at) \/ item = db.pending
      BY <1>1, <2>1 DEF Newest
    <2> HIDE DEF item
    <2>3. Higher(clock, item.seal) = clock
      BY <1>1, <1>2, <2>2 DEF Higher
    <2> QED BY <1>1, <2>1, <2>2, <2>3 DEF Shelf, PreparedFor
  <1>4. CASE ~Reusable(text, base, gen)
    <2>1. item = [NoDraft EXCEPT !.seal = clock + 1, !.at = clock + 1, !.base = base, !.gen = gen, !.text = text]
      BY <1>4 DEF Prepared
    <2> HIDE DEF item
    <2>2. item \in Drafts /\ item.seal = clock + 1 /\ item.at = clock + 1 /\ item.marks = {} /\ item.text = text
          /\ item.base = base /\ item.gen = gen
      <3>1. NoDraft \in Drafts /\ NoDraft.marks = {} /\ clock + 1 \in Nat
        BY <1>1, NoDraftFields
      <3> QED BY <2>1, <3>1 DEF Drafts
    <2>3. Higher(clock, item.seal) = clock + 1 /\ Has(item)
      BY <1>1, <2>2 DEF Higher, Has
    <2>4. db.pending.at <= item.at
      BY <1>1, <2>2 DEF Shelf
    <2> QED BY <1>1, <2>2, <2>3, <2>4 DEF Clear, PreparedFor
  <1> QED BY <1>3, <1>4

(* It is not a draft the tab holds back, unless it is marked. *)
LEMMA PreparedNotHeld ==
  ASSUME SaveTyped, LoneInv, NEW t \in Tabs, NEW w, GoodWorld(w), Fits(w), NEW item,
         \/ item \in {db.pending, db.cache}
         \/ item.seal = clock + 1 /\ item.marks = {},
         SameDraft(item, tab[t].held)
  PROVE  ~Clear(item) /\ item.gen # 0
  <1>1. tab[t].held.seal \in Nat /\ tab[t].held.seal <= clock /\ clock \in Nat
    <2>1. DraftOK(tab[t].held, w) /\ clock = w.clk /\ clock \in Nat
      BY TabFacts, FitsStore, LoneFacts
    <2> QED BY <2>1 DEF DraftOK, SealOK, Drafts
  <1>2. item.seal # clock + 1
    BY <1>1 DEF SameDraft
  <1> QED BY <1>2, LoneFacts DEF HeldLone, SameDraft, Has

LEMMA EditOpenLone ==
  ASSUME SaveTyped, SaveTyped', LoneInv, NEW w, GoodWorld(w), Fits(w), NEW t \in Tabs, EditOpen(t)
  PROVE  LoneInv'
  <1> DEFINE x == tab[t]
             text == x.text \cup {edits + 1}
             item == Prepared(text, x.base, x.key)
             c == [item EXCEPT !.unsent = TRUE]
  <1>1. text \in Texts /\ x.base \in Nat /\ x.key \in Nat /\ x.text \in Texts
    BY TabFacts DEF Texts, SaveTyped
  <1>2. /\ srv' = srv /\ overlooked' = overlooked /\ clock' = Higher(clock, item.seal) /\ x.open
        /\ tab' = [tab EXCEPT ![t].text = text, ![t].dirty = TRUE, ![t].flushed = FALSE]
    BY Zenon DEF EditOpen
  <1>3. db' = [db EXCEPT !.cache = c]
    <2>1. PICK kept \in BOOLEAN : Stored(kept) /\ db' = IF kept THEN [db EXCEPT !.cache = c] ELSE db
      BY DEF EditOpen
    <2>2. kept
      BY <2>1, NoStorageFault DEF LoneInv
    <2> QED BY <2>1, <2>2
  <1>4. x.text \subseteq text
    OBVIOUS
  <1>5. /\ item \in Drafts /\ Has(item) /\ item.text = text /\ item.base = x.base /\ item.gen = x.key
        /\ \/ item \in {db.pending, db.cache}
           \/ item.seal = clock + 1 /\ item.marks = {}
        /\ db.pending.at <= item.at /\ item.at <= clock' /\ clock <= clock' /\ clock' \in Nat
        /\ ~Clear(item) => item.gen # 0
    <2>1. PreparedFor(item, text, x.base, x.key)
      BY <1>1, PreparedLone
    <2> HIDE DEF item
    <2> QED BY <1>2, <2>1 DEF PreparedFor
  <1> HIDE DEF text, item
  <1>6. /\ c \in Drafts /\ c.seal = item.seal /\ c.at = item.at /\ c.base = item.base /\ c.gen = item.gen
        /\ c.text = item.text /\ c.unsent /\ c.marks = item.marks
    BY <1>5 DEF Drafts
  <1> HIDE DEF c
  <1>7. db'.cache = c /\ db'.pending = db.pending
    BY <1>3, LoneFacts DEF Stores
  <1>8. tab'[t] = [x EXCEPT !.text = text, !.dirty = TRUE, !.flushed = FALSE]
    BY <1>2 DEF SaveTyped
  <1>9. /\ tab'[t].move = x.move /\ tab'[t].job = x.job /\ tab'[t].held = x.held /\ tab'[t].open = x.open
        /\ tab'[t].load = x.load /\ tab'[t].text = text /\ tab'[t].base = x.base
    BY <1>8, LoneFacts DEF TabStates
  <1>10. Seen(x.base, text, srv.log, overlooked)
    <2>1. Later(srv.log, overlooked, srv.log, overlooked)
      BY LaterSelf, LoneFacts
    <2> QED BY <1>1, <1>2, <1>4, <2>1, SeenLater, LoneFacts DEF PageLone
  <1>11. Has(c) /\ (~Clear(c) => c.gen # 0)
    BY <1>5, <1>6 DEF Has, Clear
  <1>12. Clear(db.pending) => db.pending.text \subseteq text \cup overlooked
    BY <1>2, <1>4, LoneFacts DEF PageLone
  <1>13. Shelf(db', srv'.log, overlooked', clock', srv'.gone)
    <2>1. db.pending.at <= clock'
      BY <1>5, LoneFacts DEF Shelf, Drafts
    <2> QED BY <1>2, <1>5, <1>6, <1>7, <1>10, <1>11, <1>12, <2>1, LoneFacts DEF Shelf
  <1>14. PageLone(tab'[t], db', srv.log, overlooked)
    BY <1>2, <1>7, <1>9, <1>10, <1>11, <1>12, LoneFacts DEF PageLone
  <1>15. HeldLone(tab'[t].held, db')
    <2>1. SameDraft(c, x.held) => SameDraft(item, x.held)
      BY <1>6 DEF SameDraft, Has
    <2>2. SameDraft(c, x.held) => ~Clear(c)
      BY <1>5, <1>6, <2>1, PreparedNotHeld DEF Clear
    <2> QED BY <1>7, <1>9, <2>2, LoneFacts DEF HeldLone
  <1>16. JobLone(tab'[t].job, tab'[t].open, tab'[t].text, db', srv.log, overlooked)
    <2>1. x.job.item.seal \in Nat /\ x.job.item.seal <= clock /\ clock \in Nat
      BY TabFacts, FitsStore, LoneFacts DEF DraftOK, SealOK, Drafts
    <2>2. Current(x.job.item, db) => Current(x.job.item, db')
      BY <1>5, <1>6, <1>7, <2>1 DEF Current, SameDraft, Has
    <2>3. JobLone(x.job, TRUE, x.text, db, srv.log, overlooked)
      BY <1>2, LoneFacts
    <2>4. JobLone(x.job, TRUE, text, db', srv.log, overlooked)
      <3>1. \A i : i \subseteq x.text => i \subseteq text
        BY <1>4
      <3>2. \A i : i \subseteq x.text \cup overlooked => i \subseteq text \cup overlooked
        BY <1>4
      <3> QED BY <1>7, <2>2, <2>3, <3>1, <3>2 DEF JobLone
    <2> QED BY <1>2, <1>9, <2>4
  <1>17. LoadLone(tab'[t].load, db', srv.log, overlooked)
    BY <1>2, <1>9, LoneFacts DEF LoadLone, PageLone
  <1>18. TabLone(tab'[t], db', srv'.log, overlooked')
    BY <1>2, <1>9, <1>14, <1>15, <1>16, <1>17, LoneFacts DEF TabLone
  <1>19. srv'.gen # 0
    BY <1>2 DEF LoneInv
  <1> QED BY <1>13, <1>18, <1>19, LoneAgain

LEMMA SaveStartLone ==
  ASSUME SaveTyped, SaveTyped', LoneInv, NEW w, GoodWorld(w), Fits(w), NEW t \in Tabs, SaveStart(t)
  PROVE  LoneInv'
  <1> DEFINE x == tab[t]
             item == Prepared(x.text, x.base, x.key)
             c == [item EXCEPT !.unsent = TRUE]
             p == IF item.gen = 0 THEN [item EXCEPT !.marks = {}] ELSE item
  <1>1. x.base \in Nat /\ x.key \in Nat /\ x.text \in Texts
    BY TabFacts
  <1>2. srv' = srv /\ overlooked' = overlooked /\ clock' = Higher(clock, item.seal) /\ x.open /\ x.job = Idle
    BY Zenon DEF SaveStart
  <1>5. /\ item \in Drafts /\ Has(item) /\ item.text = x.text /\ item.base = x.base /\ item.gen = x.key
        /\ \/ item \in {db.pending, db.cache}
           \/ item.seal = clock + 1 /\ item.marks = {}
        /\ db.pending.at <= item.at /\ item.at <= clock' /\ clock <= clock' /\ clock' \in Nat
        /\ ~Clear(item) => item.gen # 0
    <2>1. PreparedFor(item, x.text, x.base, x.key)
      BY <1>1, PreparedLone
    <2> HIDE DEF item
    <2> QED BY <1>2, <2>1 DEF PreparedFor
  <1>3. PICK kept \in BOOLEAN :
          /\ Stored(kept)
          /\ IF item.gen = 0
             THEN /\ db' = IF kept THEN [AfterPutDraft(item) EXCEPT !.pending.marks = {}] ELSE db
                  /\ tab' = [tab EXCEPT ![t].flushed = kept]
             ELSE /\ db' = IF kept THEN AfterPutDraft(item) ELSE db
                  /\ tab' = [tab EXCEPT ![t].job = Sending("save", item)]
    BY DEF SaveStart
  <1>4. kept
    BY <1>3, NoStorageFault DEF LoneInv
  <1> HIDE DEF item
  <1>6. /\ c \in Drafts /\ c.seal = item.seal /\ c.at = item.at /\ c.base = item.base /\ c.gen = item.gen
        /\ c.text = item.text /\ c.unsent /\ c.marks = item.marks
    BY <1>5 DEF Drafts
  <1>7. /\ p \in Drafts /\ p.seal = item.seal /\ p.at = item.at /\ p.base = item.base /\ p.gen = item.gen
        /\ p.text = item.text /\ (p.gen # 0 => p = item) /\ (p.gen = 0 => p.marks = {})
    BY <1>5 DEF Drafts
  <1>8. db'.cache = c /\ db'.pending = p
    <2>1. AfterPutDraft(item) = [cache |-> c, pending |-> item]
      BY DEF AfterPutDraft
    <2>2. CASE item.gen = 0
      <3>1. db' = [[cache |-> c, pending |-> item] EXCEPT !.pending.marks = {}]
        BY <1>3, <1>4, <2>1, <2>2
      <3> HIDE DEF c
      <3> QED BY <2>2, <3>1
    <2>3. CASE item.gen # 0
      BY <1>3, <1>4, <2>1, <2>3
    <2> QED BY <2>2, <2>3
  <1> HIDE DEF c, p
  <1>9. PICK j : /\ tab'[t].job = j /\ tab'[t].move = x.move /\ tab'[t].held = x.held /\ tab'[t].open = x.open
                 /\ tab'[t].load = x.load /\ tab'[t].text = x.text /\ tab'[t].base = x.base
                 /\ j = Idle \/ (item.gen # 0 /\ j = Sending("save", item))
    <2>1. CASE item.gen = 0
      <3>1. tab'[t] = [x EXCEPT !.flushed = kept]
        BY <1>3, <2>1 DEF SaveTyped
      <3>2. /\ tab'[t].job = x.job /\ tab'[t].move = x.move /\ tab'[t].held = x.held /\ tab'[t].open = x.open
            /\ tab'[t].load = x.load /\ tab'[t].text = x.text /\ tab'[t].base = x.base
        BY <3>1, LoneFacts DEF TabStates
      <3> QED BY <1>2, <3>2
    <2>2. CASE item.gen # 0
      <3> DEFINE j == Sending("save", item)
      <3>1. tab'[t] = [x EXCEPT !.job = j]
        BY <1>3, <2>2 DEF SaveTyped
      <3> HIDE DEF j
      <3>2. /\ tab'[t].job = j /\ tab'[t].move = x.move /\ tab'[t].held = x.held /\ tab'[t].open = x.open
            /\ tab'[t].load = x.load /\ tab'[t].text = x.text /\ tab'[t].base = x.base
        BY <3>1, LoneFacts DEF TabStates
      <3> QED BY <2>2, <3>2 DEF j
    <2> QED BY <2>1, <2>2
  <1>10. Seen(x.base, x.text, srv.log, overlooked)
    BY <1>2, LoneFacts DEF PageLone
  <1>11. Has(c) /\ Has(p) /\ (~Clear(c) => c.gen # 0) /\ (~Clear(p) => p.gen # 0)
    BY <1>5, <1>6, <1>7 DEF Has, Clear
  <1>12. Shelf(db', srv'.log, overlooked', clock', srv'.gone)
    <2>1. item.at \in Nat
      BY <1>5 DEF Drafts
    <2> QED BY <1>2, <1>5, <1>6, <1>7, <1>8, <1>10, <1>11, <2>1 DEF Shelf
  <1>13. PageLone(tab'[t], db', srv.log, overlooked)
    BY <1>2, <1>5, <1>7, <1>8, <1>9, <1>10, <1>11, LoneFacts DEF PageLone
  <1>14. HeldLone(tab'[t].held, db')
    <2>1. (SameDraft(c, x.held) \/ SameDraft(p, x.held)) => SameDraft(item, x.held)
      BY <1>6, <1>7 DEF SameDraft, Has
    <2>2. SameDraft(item, x.held) => ~Clear(item) /\ item.gen # 0
      BY <1>5, PreparedNotHeld
    <2>3. (SameDraft(c, x.held) => ~Clear(c)) /\ (SameDraft(p, x.held) => ~Clear(p))
      BY <1>6, <1>7, <2>1, <2>2 DEF Clear
    <2> QED BY <1>8, <1>9, <2>3, LoneFacts DEF HeldLone
  <1>15. JobLone(tab'[t].job, tab'[t].open, tab'[t].text, db', srv.log, overlooked)
    <2>1. CASE j = Idle
      BY <1>9, <2>1, IdleLone, LoneFacts
    <2>2. CASE item.gen # 0 /\ j = Sending("save", item)
      <3>1. j.kind = "save" /\ j.phase = "sent" /\ j.item = item
        BY <2>2, IdleFields DEF Sending, Jobs
      <3>2. db'.pending = item
        BY <1>7, <1>8, <2>2
      <3> QED BY <1>2, <1>5, <1>9, <1>10, <2>2, <3>1, <3>2 DEF JobLone
    <2> QED BY <1>9, <2>1, <2>2
  <1>16. LoadLone(tab'[t].load, db', srv.log, overlooked)
    BY <1>2, <1>9, LoneFacts DEF LoadLone, PageLone
  <1>17. TabLone(tab'[t], db', srv'.log, overlooked')
    BY <1>2, <1>9, <1>13, <1>14, <1>15, <1>16, LoneFacts DEF TabLone
  <1>18. srv'.gen # 0
    BY <1>2 DEF LoneInv
  <1> QED BY <1>12, <1>17, <1>18, LoneAgain

(* replaceQueuedSave, of the queue's own entry and of its cached copy.     *)
CopyOf(c, next) ==
    /\ c.seal = next.seal /\ c.at = next.at /\ c.base = next.base /\ c.gen = next.gen
    /\ c.text = next.text /\ c.marks = next.marks
Replaced(s, item, next) ==
    /\ s.pending = next /\ db.pending = item /\ Has(item) /\ Has(next)
    /\ \/ s.cache = db.cache /\ ~SameDraft(db.cache, item)
       \/ CopyOf(s.cache, next) /\ SameDraft(db.cache, item) /\ s.cache.unsent = db.cache.unsent

LEMMA ReplaceLone ==
  ASSUME NEW w, GoodWorld(w), StoreOK(db, w), NEW over, NEW clk, NEW gone, Shelf(db, w.log, over, clk, gone),
         NEW item, DraftOK(item, w), Current(item, db), NEW next \in Drafts, Has(item) => Has(next),
         next.text = item.text, next.at = item.at, next.base = item.base,
         Clear(next) => Clear(item), ~Clear(next) => next.gen # 0,
         NEW s, s = AfterReplace(item, next)
  PROVE  /\ s \in Stores /\ Shelf(s, w.log, over, clk, gone)
         /\ \/ Replaced(s, item, next)
            \/ s = db /\ (~Has(item) \/ db.pending # item)
  <1>1. db \in Stores /\ db.pending \in Drafts /\ db.cache \in Drafts /\ SealOK(db.pending, w) /\ SealOK(db.cache, w)
        /\ item \in Drafts /\ SealOK(item, w)
    BY DEF StoreOK, Stores, DraftOK, CacheOK, SealOK
  <1>2. CASE ~Has(item) \/ db.pending # item
    <2>1. ~SameDraft(db.pending, item)
      BY <1>2 DEF SameDraft, Has, Current
    <2>2. s = db
      BY <2>1 DEF AfterReplace
    <2> QED BY <1>1, <1>2, <2>2
  <1>3. CASE Has(item) /\ db.pending = item
    <2> DEFINE c == [next EXCEPT !.unsent = db.cache.unsent]
               d == IF Has(next) /\ SameDraft(db.cache, item) THEN c ELSE db.cache
    <2>1. SameDraft(db.pending, item)
      BY <1>3 DEF SameDraft
    <2>2. s = [pending |-> next, cache |-> d]
      BY <2>1 DEF AfterReplace
    <2>3. c \in Drafts /\ CopyOf(c, next) /\ c.unsent = db.cache.unsent
      BY <1>1 DEF Drafts, CopyOf
    <2> HIDE DEF c
    <2>4. s.pending = next /\ s.cache = d /\ d \in Drafts
      BY <1>1, <2>2, <2>3
    <2>5. s \in Stores
      BY <2>2, <2>4 DEF Stores
    <2>6. CASE ~SameDraft(db.cache, item)
      <3>1. s.cache = db.cache
        BY <2>4, <2>6
      <3>2. Shelf(s, w.log, over, clk, gone)
        BY <1>3, <2>4, <3>1 DEF Shelf
      <3> QED BY <1>3, <2>4, <2>5, <2>6, <3>1, <3>2 DEF Replaced
    <2>7. CASE SameDraft(db.cache, item)
      <3>1. s.cache = c
        BY <1>3, <2>4, <2>7
      <3>2. Has(db.cache) /\ Has(c) /\ c.text = next.text
        BY <1>3, <2>3, <2>7 DEF SameDraft, CopyOf, Has
      <3>3. next.at \in Nat
        BY DEF Drafts
      <3>4. Shelf(s, w.log, over, clk, gone)
        BY <1>3, <2>3, <2>4, <3>1, <3>2, <3>3 DEF Shelf, CopyOf, Clear
      <3> QED BY <1>3, <2>3, <2>4, <2>5, <2>7, <3>1, <3>4 DEF Replaced
    <2> QED BY <2>6, <2>7
  <1> QED BY <1>2, <1>3

(* The page and the load of the tab do not mind. *)
LEMMA ReplacedPage ==
  ASSUME NEW log, NEW over, NEW x \in TabStates, PageLone(x, db, log, over), LoadLone(x.load, db, log, over),
         NEW s, NEW item, NEW next, Replaced(s, item, next), next.text = item.text, Clear(next) => Clear(item)
  PROVE  PageLone(x, s, log, over) /\ LoadLone(x.load, s, log, over)
  <1>1. Has(s.cache) <=> Has(db.cache)
    BY DEF Replaced, CopyOf, SameDraft, Has
  <1>2. PageLone(x, s, log, over)
    BY <1>1 DEF PageLone, Replaced
  <1>3. LoadLone(x.load, s, log, over)
    BY DEF LoadLone, Replaced
  <1> QED BY <1>2, <1>3

LEMMA MarkedFields ==
  ASSUME NEW item \in Drafts, NEW mark \in {"previousKey", "gone", "conflicted"}
  PROVE  LET next == Marked(item, mark) IN
         /\ next \in Drafts /\ next.seal = item.seal /\ next.at = item.at /\ next.base = item.base /\ next.gen = item.gen
         /\ next.text = item.text /\ next.unsent = item.unsent /\ next.marks = item.marks \cup {mark}
  BY DEF Marked, Drafts

(* The version of an answered save reaches the page or the load. *)
LEMMA CarriedFields ==
  ASSUME NEW x \in TabStates, NEW ver \in Nat, NEW y, y = Carried(x, ver)
  PROVE  /\ y \in TabStates /\ y.move = x.move /\ y.job = x.job /\ y.held = x.held /\ y.open = x.open /\ y.text = x.text
         /\ y.base = x.base \/ (y.base = ver /\ x.base <= ver)
         /\ y.load.on = x.load.on /\ y.load.ver = x.load.ver /\ y.load.text = x.load.text
         /\ y.load.carried = IF x.load.on THEN ver ELSE x.load.carried
         /\ y.load \in Loads
  <1> DEFINE b == IF x.listed THEN Higher(x.base, ver) ELSE x.base
             c == IF x.load.on THEN ver ELSE x.load.carried
             ld == [x.load EXCEPT !.carried = c]
  <1>1. x.base \in Nat /\ x.load \in Loads /\ x.load.carried \in Nat
    BY DEF TabStates, Loads
  <1>2. b \in Nat /\ (b = x.base \/ (b = ver /\ x.base <= ver)) /\ c \in Nat
    BY <1>1 DEF Higher
  <1>3. y = [x EXCEPT !.base = b, !.load = ld]
    BY <1>1 DEF Carried, TabStates
  <1> HIDE DEF b, c
  <1>4. ld \in Loads /\ ld.on = x.load.on /\ ld.ver = x.load.ver /\ ld.text = x.load.text /\ ld.carried = c
    BY <1>1, <1>2 DEF Loads
  <1> HIDE DEF ld
  <1>5. /\ y \in TabStates /\ y.move = x.move /\ y.job = x.job /\ y.held = x.held /\ y.open = x.open /\ y.text = x.text
        /\ y.base = b /\ y.load = ld
    BY <1>2, <1>3, <1>4 DEF TabStates
  <1> QED BY <1>2, <1>4, <1>5 DEF c

(* An accepted save or drain. *)
LEMMA AcceptedLone ==
  ASSUME SaveTyped, LoneInv, NEW w, GoodWorld(w), Fits(w), NEW t \in Tabs,
         tab[t].job.kind \in {"save", "drain"}, tab[t].job.phase = "answered", tab[t].job.ans = "ok",
         db' = AfterSettle(tab[t].job.item, tab[t].job.ver), srv' = srv, clock' = clock, overlooked' = overlooked,
         NEW y, y = Carried(tab[t], tab[t].job.ver),
         tab'[t].move = y.move, tab'[t].job = Idle, tab'[t].held = NoDraft, tab'[t].open = y.open, tab'[t].text = y.text,
         tab'[t].base = y.base, tab'[t].load = y.load
  PROVE  LoneInv'
  <1> DEFINE x == tab[t]
             item == x.job.item
             ver == x.job.ver
  <1>1. InLog(ver, item.text, w) /\ DraftOK(item, w) /\ StoreOK(db, w) /\ w.log = srv.log /\ Has(item) /\ ver \in Nat
    <2>1. JobOK(x.job, w) /\ x.job \in Jobs
      BY TabFacts
    <2>2. Has(item)
      BY <2>1, LoneFacts DEF JobOK, JobLone
    <2> QED BY <2>1, <2>2, FitsStore DEF JobOK, Jobs, Fits
  <1>2. ver \in 1..Len(srv.log) /\ srv.log[ver].text = item.text
    BY <1>1 DEF InLog
  <1>3. /\ x.job.kind = "save" => x.open /\ db.pending = item /\ item.text \subseteq x.text
        /\ x.job.kind = "drain" => Current(item, db) /\ item.marks = {}
        /\ x.job.kind = "drain" /\ x.open => item.text \subseteq x.text \cup overlooked
        /\ x.job.kind = "drain" /\ ~x.open => db.pending = item
    BY LoneFacts DEF JobLone
  <1>4. /\ Current(item, db) /\ Shelf(db, w.log, overlooked, clock, srv.gone) /\ clock \in Nat /\ x \in TabStates
        /\ PageLone(x, db, srv.log, overlooked) /\ LoadLone(x.load, db, srv.log, overlooked) /\ db.cache \in Drafts
    BY <1>1, <1>3, LoneFacts DEF Current
  <1>5. /\ Shelf(db', srv.log, overlooked, clock, srv.gone)
        /\ \/ db' = db
           \/ db.pending = item /\ db'.pending = NoDraft
        /\ \/ db'.cache = db.cache
           \/ /\ Has(db'.cache) /\ db'.cache.base = ver /\ db'.cache.text = item.text
    <2>1. db' = AfterSettle(item, ver) /\ ver # 0
      BY <1>1, <1>2
    <2> HIDE DEF item, ver
    <2>2. /\ Shelf(db', w.log, overlooked, clock, srv.gone)
          /\ \/ db' = db
             \/ db.pending = item /\ Has(item) /\ db'.pending = NoDraft
          /\ \/ db'.cache = db.cache
             \/ /\ ver # 0 /\ Has(db'.cache) /\ db'.cache.base = ver /\ db'.cache.text = item.text /\ ~db'.cache.unsent
                /\ db.cache.unsent /\ db.cache.text = item.text
      BY <1>1, <1>4, <2>1, SettleLone
    <2> QED BY <1>1, <2>2
  <1>6. /\ y.move = x.move /\ y.open = x.open /\ y.text = x.text
        /\ y.base = x.base \/ y.base = ver
        /\ y.load.on = x.load.on /\ y.load.ver = x.load.ver /\ y.load.text = x.load.text
        /\ y.load.carried = IF x.load.on THEN ver ELSE x.load.carried
    <2>1. y = Carried(x, ver)
      OBVIOUS
    <2> HIDE DEF x, ver
    <2> QED BY <1>1, <1>4, <2>1, CarriedFields, SMTT(30)
  <1>7. PageLone(tab'[t], db', srv.log, overlooked)
    <2>1. ASSUME x.open PROVE Seen(y.base, y.text, srv.log, overlooked)
      <3>1. Seen(x.base, x.text, srv.log, overlooked)
        BY <1>4, <2>1 DEF PageLone
      <3>2. Seen(ver, x.text, srv.log, overlooked)
        BY <1>2, <1>3, <2>1 DEF Seen
      <3> QED BY <1>6, <3>1, <3>2
    <2> QED BY <1>4, <1>5, <1>6, <2>1, NoDraftFields DEF PageLone
  <1>8. LoadLone(tab'[t].load, db', srv.log, overlooked)
    <2>1. CASE ~x.load.on
      BY <1>6, <2>1 DEF LoadLone
    <2>2. CASE x.load.on
      <3>1. ~x.open /\ x.job.kind = "drain" /\ db.pending = item /\ Clear(db.pending)
        BY <1>3, <1>4, <2>2 DEF PageLone, Clear
      <3>2. Has(db.cache) /\ db.cache.unsent /\ item.text \subseteq db.cache.text \cup overlooked
        BY <1>1, <1>4, <2>2, <3>1 DEF PageLone, Shelf
      <3>3. db'.pending = NoDraft
        <4>1. SameDraft(db.pending, item)
          BY <1>1, <3>1 DEF SameDraft
        <4> QED BY <4>1 DEF AfterSettle
      <3>4. y.load.carried = ver /\ ver <= Len(srv.log) /\ ver > 0
        BY <1>1, <1>2, <1>6, <2>2
      <3>5. Has(db'.cache) /\ srv.log[ver].text \subseteq db'.cache.text \cup overlooked /\ (db'.cache.unsent \/ ver <= db'.cache.base)
        <4>1. ver \in Nat /\ srv.log[ver].text = item.text
          BY <1>1, <1>2
        <4> HIDE DEF item, ver
        <4>2. CASE db'.cache = db.cache
          BY <3>2, <4>1, <4>2
        <4>3. CASE Has(db'.cache) /\ db'.cache.base = ver /\ db'.cache.text = item.text
          BY <4>1, <4>3
        <4> QED BY <1>5, <4>2, <4>3
      <3>6. y.load.on /\ y.load.ver \in 1..Len(srv.log) /\ y.load.text = srv.log[y.load.ver].text
        BY <1>4, <1>6, <2>2 DEF LoadLone
      <3> HIDE DEF ver
      <3>7. LoadLone(y.load, db', srv.log, overlooked)
        BY <3>3, <3>4, <3>5, <3>6, NoDraftFields DEF LoadLone
      <3> QED BY <3>7
    <2> QED BY <2>1, <2>2
  <1>9. TabLone(tab'[t], db', srv.log, overlooked)
    BY <1>6, <1>7, <1>8, IdleLone, NothingHeld, LoneFacts DEF TabLone
  <1>10. srv'.gen # 0
    BY DEF LoneInv
  <1> QED BY <1>5, <1>9, <1>10, LoneAgain

(* A rejected one, of whichever kind, leaves its mark on the queue.        *)
LEMMA RefusedLone ==
  ASSUME SaveTyped, LoneInv, NEW w, GoodWorld(w), Fits(w), NEW t \in Tabs,
         tab[t].job.kind \in {"save", "drain"}, tab[t].job.phase = "answered",
         NEW mark \in {"gone", "conflicted"},
         db' = AfterReplace(tab[t].job.item, Marked(tab[t].job.item, mark)),
         srv' = srv, clock' = clock, overlooked' = overlooked,
         tab'[t].move = tab[t].move, tab'[t].job = Idle, tab'[t].open = tab[t].open, tab'[t].text = tab[t].text,
         tab'[t].base = tab[t].base, tab'[t].load = tab[t].load,
         tab'[t].held = IF mark = "conflicted" THEN tab[t].job.item ELSE tab[t].held
  PROVE  LoneInv'
  <1> DEFINE x == tab[t]
             item == x.job.item
             next == Marked(item, mark)
  <1>1. DraftOK(item, w) /\ StoreOK(db, w) /\ w.log = srv.log /\ Has(item) /\ item \in Drafts
    <2>1. JobOK(x.job, w) /\ x.job \in Jobs
      BY TabFacts
    <2>2. Has(item)
      BY <2>1, LoneFacts DEF JobOK, JobLone
    <2> QED BY <2>1, <2>2, FitsStore DEF JobOK, Jobs, Fits
  <1>2. Current(item, db) /\ item.gen # 0
    BY LoneFacts DEF JobLone, Current
  <1>3. /\ next \in Drafts /\ next.seal = item.seal /\ next.at = item.at /\ next.base = item.base /\ next.gen = item.gen
        /\ next.text = item.text /\ next.marks = item.marks \cup {mark}
    BY <1>1, MarkedFields
  <1>4. db' = AfterReplace(item, next)
    OBVIOUS
  <1> HIDE DEF next
  <1>5. Has(next) /\ (Clear(next) => Clear(item)) /\ (mark = "conflicted" => ~Clear(next)) /\ (~Clear(next) => next.gen # 0)
    BY <1>1, <1>2, <1>3 DEF Has, Clear
  <1>6. /\ Shelf(db', srv.log, overlooked, clock, srv.gone)
        /\ \/ Replaced(db', item, next)
           \/ db' = db /\ db.pending # item
    <2>1. Shelf(db, w.log, overlooked, clock, srv.gone)
      BY <1>1, LoneFacts
    <2> QED BY <1>1, <1>2, <1>3, <1>4, <1>5, <2>1, ReplaceLone
  <1>7. PageLone(x, db', srv.log, overlooked) /\ LoadLone(x.load, db', srv.log, overlooked)
    <2>1. CASE db' = db
      BY <2>1, LoneFacts
    <2>2. CASE Replaced(db', item, next)
      BY <1>3, <1>5, <2>2, LoneFacts, ReplacedPage
    <2> QED BY <1>6, <2>1, <2>2
  <1>8. HeldLone(tab'[t].held, db')
    <2>1. CASE mark = "conflicted"
      <3>1. CASE db' = db /\ db.pending # item
        <4>1. ~SameDraft(db.pending, item) /\ ~SameDraft(db.cache, item)
          BY <1>2, <3>1 DEF Current
        <4> QED BY <1>2, <2>1, <3>1, <4>1 DEF HeldLone
      <3>2. CASE Replaced(db', item, next)
        <4>1. ~Clear(db'.pending)
          BY <1>5, <2>1, <3>2 DEF Replaced
        <4>2. SameDraft(db'.cache, item) => ~Clear(db'.cache)
          BY <1>5, <2>1, <3>2 DEF Replaced, CopyOf, Clear
        <4> QED BY <1>2, <2>1, <4>1, <4>2 DEF HeldLone
      <3> QED BY <1>6, <3>1, <3>2
    <2>2. CASE mark = "gone"
      <3>1. HeldLone(x.held, db) /\ tab'[t].held = x.held
        BY <2>2, LoneFacts
      <3>2. CASE Replaced(db', item, next)
        <4>1. SameDraft(db'.pending, x.held) => SameDraft(db.pending, x.held) /\ (~Clear(item) => ~Clear(next))
          BY <1>3, <3>2 DEF Replaced, SameDraft, Has, Clear
        <4>2. SameDraft(db'.pending, x.held) => ~Clear(db'.pending)
          BY <3>1, <3>2, <4>1 DEF HeldLone, Replaced
        <4>3. SameDraft(db'.cache, x.held) => ~Clear(db'.cache)
          <5>1. CASE db'.cache = db.cache
            BY <3>1, <5>1 DEF HeldLone
          <5>2. CASE CopyOf(db'.cache, next)
            BY <3>2, <4>2, <5>2 DEF Replaced, CopyOf, SameDraft, Has, Clear
          <5> QED BY <3>2, <5>1, <5>2 DEF Replaced
        <4> QED BY <3>1, <4>2, <4>3 DEF HeldLone
      <3> QED BY <1>6, <3>1, <3>2
    <2> QED BY <2>1, <2>2
  <1>9. TabLone(tab'[t], db', srv.log, overlooked)
    <2>1. PageLone(tab'[t], db', srv.log, overlooked)
      BY <1>7 DEF PageLone
    <2> QED BY <1>7, <1>8, <2>1, IdleLone, LoneFacts DEF TabLone
  <1>10. srv'.gen # 0
    BY DEF LoneInv
  <1> QED BY <1>6, <1>9, <1>10, LoneAgain

(* Any other refusal of a live save puts the queue's entry back, for good  *)
(* when the page is gone.                                                  *)
LEMMA QueuedLone ==
  ASSUME SaveTyped, LoneInv, NEW w, GoodWorld(w), Fits(w), NEW t \in Tabs,
         tab[t].job.kind = "save", NEW queued, queued = tab[t].job.item \/ queued = Marked(tab[t].job.item, "gone"),
         db' = [db EXCEPT !.pending = queued], srv' = srv, clock' = clock, overlooked' = overlooked,
         tab'[t].move = tab[t].move, tab'[t].job = Idle, tab'[t].open = tab[t].open, tab'[t].text = tab[t].text,
         tab'[t].base = tab[t].base, tab'[t].load = tab[t].load, tab'[t].held = tab[t].held
  PROVE  LoneInv'
  <1> DEFINE x == tab[t]
             item == x.job.item
  <1>1. item \in Drafts /\ db.pending = item
    BY LoneFacts DEF JobLone
  <1>2. /\ queued \in Drafts /\ queued.seal = item.seal /\ queued.at = item.at /\ queued.base = item.base
        /\ queued.gen = item.gen /\ queued.text = item.text /\ (Clear(queued) <=> Clear(item))
    <2>1. CASE queued = item
      BY <1>1, <2>1
    <2>2. CASE queued = Marked(item, "gone")
      <3>1. queued \in Drafts /\ queued.marks = item.marks \cup {"gone"}
            /\ queued.seal = item.seal /\ queued.at = item.at /\ queued.base = item.base
            /\ queued.gen = item.gen /\ queued.text = item.text
        BY <1>1, <2>2, MarkedFields
      <3> QED BY <3>1 DEF Clear
    <2> QED BY <2>1, <2>2
  <1>3. db'.pending = queued /\ db'.cache = db.cache
    BY LoneFacts DEF Stores
  <1>4. Has(queued) <=> Has(item)
    BY <1>2 DEF Has
  <1>5. Shelf(db', srv.log, overlooked, clock, srv.gone)
    BY <1>1, <1>2, <1>3, <1>4, LoneFacts DEF Shelf
  <1>6. PageLone(tab'[t], db', srv.log, overlooked) /\ LoadLone(tab'[t].load, db', srv.log, overlooked)
    BY <1>1, <1>2, <1>3, <1>4, LoneFacts, SMTT(30) DEF PageLone, LoadLone
  <1>7. HeldLone(tab'[t].held, db')
    <2>1. SameDraft(queued, x.held) => SameDraft(item, x.held)
      BY <1>2 DEF SameDraft, Has
    <2> QED BY <1>1, <1>2, <1>3, <2>1, LoneFacts DEF HeldLone
  <1>8. TabLone(tab'[t], db', srv.log, overlooked)
    BY <1>6, <1>7, IdleLone, LoneFacts DEF TabLone
  <1>9. srv'.gen # 0
    BY DEF LoneInv
  <1> QED BY <1>5, <1>8, <1>9, LoneAgain

LEMMA AnsweredLone ==
  ASSUME SaveTyped, SaveTyped', LoneInv, NEW w, GoodWorld(w), Fits(w), NEW t \in Tabs, NEW slot \in Slots, Answered(t, slot)
  PROVE  LoneInv'
  <1> DEFINE x == tab[t]
             j == x.job
             item == j.item
             same == x.text = item.text
  <1>1. slot = "job" /\ j.kind = "save" /\ j.phase = "answered" /\ x \in TabStates /\ tab \in [Tabs -> TabStates]
    <2>1. x[slot].kind \in {"save", "move"} /\ x[slot].phase = "answered"
      BY DEF Answered
    <2>2. x.move.kind = "idle"
      BY LoneFacts, IdleFields
    <2>3. slot = "job"
      BY <2>1, <2>2 DEF Slots
    <2>4. j.kind = "save"
      BY <2>1, <2>3, LoneFacts DEF JobLone
    <2> QED BY <2>1, <2>3, <2>4 DEF SaveTyped
  <1>2. srv' = srv /\ clock' = clock /\ overlooked' = overlooked
    BY DEF Answered
  <1> DEFINE queued == IF j.ans = "not_found" /\ j.kind = "save" THEN Marked(item, "gone") ELSE item
             OkTab == [tab EXCEPT ![t] = [Carried(x, j.ver) EXCEPT !.job = Idle,
                         !.held = NoDraft, !.conflicted = x.conflicted /\ j.kind = "move",
                         !.dirty = x.dirty /\ (j.kind = "move" \/ ~same),
                         !.flushed = IF j.kind = "save" THEN same ELSE x.flushed]]
             ConflictTab == [tab EXCEPT ![t].job = Idle, ![t].held = item, ![t].conflicted = TRUE,
                               ![t].flushed = IF j.kind = "save" THEN same ELSE @]
  <1>3. PICK kept \in BOOLEAN : Stored(kept) /\
          CASE j.ans = "ok" -> db' = (IF kept THEN AfterSettle(item, j.ver) ELSE db) /\ tab' = OkTab
            [] j.ans = "version_conflict" ->
                 db' = (IF kept THEN AfterReplace(item, Marked(item, "conflicted")) ELSE db) /\ tab' = ConflictTab
            [] OTHER -> /\ db' = IF kept THEN [db EXCEPT !.pending = queued] ELSE db
                        /\ tab' = [tab EXCEPT ![t].job = Idle,
                                     ![t].flushed = IF j.kind = "save" THEN same /\ kept ELSE @]
    BY <1>1 DEF Answered
  <1>4. kept
    BY <1>3, NoStorageFault DEF LoneInv
  <1>5. CASE j.ans = "ok"
    <2> DEFINE y == Carried(x, j.ver)
               a == x.conflicted /\ j.kind = "move"
               b == x.dirty /\ (j.kind = "move" \/ ~same)
               c == IF j.kind = "save" THEN same ELSE x.flushed
    <2>1. db' = AfterSettle(item, j.ver) /\ tab' = OkTab
      BY <1>3, <1>4, <1>5
    <2>2. y \in TabStates
      BY <1>1, LoneFacts, CarriedFields DEF Jobs
    <2>3. tab'[t] = [y EXCEPT !.job = Idle, !.held = NoDraft, !.conflicted = a, !.dirty = b, !.flushed = c]
      BY <1>1, <2>1
    <2> HIDE DEF a, b, c, y
    <2>4. /\ tab'[t].move = y.move /\ tab'[t].job = Idle /\ tab'[t].held = NoDraft /\ tab'[t].open = y.open
          /\ tab'[t].text = y.text /\ tab'[t].base = y.base /\ tab'[t].load = y.load
      BY <2>2, <2>3 DEF TabStates
    <2> QED BY <1>1, <1>2, <1>5, <2>1, <2>4, AcceptedLone DEF y
  <1>6. CASE j.ans = "version_conflict"
    <2> DEFINE c == IF j.kind = "save" THEN same ELSE x.flushed
    <2>1. db' = AfterReplace(item, Marked(item, "conflicted")) /\ tab' = ConflictTab
      BY <1>3, <1>4, <1>6
    <2>2. tab'[t] = [x EXCEPT !.job = Idle, !.held = item, !.conflicted = TRUE, !.flushed = c]
      BY <1>1, <2>1
    <2> HIDE DEF c, item
    <2>3. /\ tab'[t].move = x.move /\ tab'[t].job = Idle /\ tab'[t].held = item /\ tab'[t].open = x.open
          /\ tab'[t].text = x.text /\ tab'[t].base = x.base /\ tab'[t].load = x.load
      BY <1>1, <2>2 DEF TabStates
    <2> QED BY <1>1, <1>2, <2>1, <2>3, RefusedLone DEF item
  <1>7. CASE j.ans \notin {"ok", "version_conflict"}
    <2> DEFINE c == IF j.kind = "save" THEN same /\ kept ELSE x.flushed
    <2>1. db' = [db EXCEPT !.pending = queued]
          /\ tab' = [tab EXCEPT ![t].job = Idle, ![t].flushed = IF j.kind = "save" THEN same /\ kept ELSE @]
      BY <1>3, <1>4, <1>7
    <2>2. tab'[t] = [x EXCEPT !.job = Idle, !.flushed = c]
      BY <1>1, <2>1
    <2>3. queued = item \/ queued = Marked(item, "gone")
      OBVIOUS
    <2> HIDE DEF c, queued
    <2>4. /\ tab'[t].move = x.move /\ tab'[t].job = Idle /\ tab'[t].held = x.held /\ tab'[t].open = x.open
          /\ tab'[t].text = x.text /\ tab'[t].base = x.base /\ tab'[t].load = x.load
      BY <1>1, <2>2 DEF TabStates
    <2> QED BY <1>1, <1>2, <2>1, <2>3, <2>4, QueuedLone
  <1> QED BY <1>5, <1>6, <1>7

LEMMA DrainAnsweredLone ==
  ASSUME SaveTyped, SaveTyped', LoneInv, NEW w, GoodWorld(w), Fits(w), NEW t \in Tabs, DrainAnswered(t)
  PROVE  LoneInv'
  <1> DEFINE x == tab[t]
             j == x.job
             item == j.item
  <1>1. j.kind = "drain" /\ j.phase = "answered" /\ x \in TabStates /\ tab \in [Tabs -> TabStates]
    BY DEF DrainAnswered, SaveTyped
  <1>2. srv' = srv /\ clock' = clock /\ overlooked' = overlooked
    BY DEF DrainAnswered
  <1>3. CASE j.ans = "ok"
    <2> DEFINE y == Carried(x, j.ver)
    <2>1. db' = AfterSettle(item, j.ver) /\ tab' = [tab EXCEPT ![t] = [Carried(@, j.ver) EXCEPT !.job = Idle], ![t].held = NoDraft]
      BY <1>3 DEF DrainAnswered
    <2>2. y \in TabStates
      BY <1>1, LoneFacts, CarriedFields DEF Jobs
    <2>3. tab'[t] = [y EXCEPT !.job = Idle, !.held = NoDraft]
      BY <1>1, <2>1
    <2> HIDE DEF y
    <2>4. /\ tab'[t].move = y.move /\ tab'[t].job = Idle /\ tab'[t].held = NoDraft /\ tab'[t].open = y.open
          /\ tab'[t].text = y.text /\ tab'[t].base = y.base /\ tab'[t].load = y.load
      BY <2>2, <2>3 DEF TabStates
    <2> QED BY <1>1, <1>2, <1>3, <2>1, <2>4, AcceptedLone DEF y
  <1>4. CASE j.ans = "version_conflict"
    <2>1. db' = AfterReplace(item, Marked(item, "conflicted"))
          /\ tab' = [tab EXCEPT ![t].job = Idle, ![t].held = item, ![t].conflicted = TRUE]
      BY <1>4 DEF DrainAnswered
    <2>2. tab'[t] = [x EXCEPT !.job = Idle, !.held = item, !.conflicted = TRUE]
      BY <1>1, <2>1
    <2> HIDE DEF item
    <2>3. /\ tab'[t].move = x.move /\ tab'[t].job = Idle /\ tab'[t].held = item /\ tab'[t].open = x.open
          /\ tab'[t].text = x.text /\ tab'[t].base = x.base /\ tab'[t].load = x.load
      BY <1>1, <2>2 DEF TabStates
    <2> QED BY <1>1, <1>2, <2>1, <2>3, RefusedLone DEF item
  <1>5. CASE j.ans \in {"not_found", "forbidden"}
    <2>1. db' = AfterReplace(item, Marked(item, "gone")) /\ tab' = [tab EXCEPT ![t].job = Idle]
      BY <1>5 DEF DrainAnswered
    <2>2. tab'[t] = [x EXCEPT !.job = Idle]
      BY <1>1, <2>1
    <2> HIDE DEF item
    <2>3. /\ tab'[t].move = x.move /\ tab'[t].job = Idle /\ tab'[t].held = x.held /\ tab'[t].open = x.open
          /\ tab'[t].text = x.text /\ tab'[t].base = x.base /\ tab'[t].load = x.load
      BY <1>1, <2>2 DEF TabStates
    <2> QED BY <1>1, <1>2, <2>1, <2>3, RefusedLone DEF item
  <1>6. CASE j.ans \notin {"ok", "version_conflict", "not_found", "forbidden"}
    <2>1. db' = db /\ tab' = [tab EXCEPT ![t].job = Idle]
      BY <1>6 DEF DrainAnswered
    <2> QED BY <1>2, <2>1, IdleLone, LoneFacts, JobOnlyLone
  <1> QED BY <1>3, <1>4, <1>5, <1>6

(* Sealing the queue's entry again. *)
LEMMA ReplacedHeld ==
  ASSUME SaveTyped, LoneInv, NEW w, GoodWorld(w), Fits(w), NEW t \in Tabs, NEW s, NEW item, NEW next,
         Replaced(s, item, next), next.seal = clock + 1
  PROVE  HeldLone(tab[t].held, s)
  <1>1. tab[t].held.seal \in Nat /\ tab[t].held.seal <= clock /\ clock \in Nat
    <2>1. DraftOK(tab[t].held, w) /\ clock = w.clk /\ clock \in Nat
      BY TabFacts, FitsStore, LoneFacts
    <2> QED BY <2>1 DEF DraftOK, SealOK, Drafts
  <1>2. ~SameDraft(next, tab[t].held)
    BY <1>1 DEF SameDraft
  <1>3. CopyOf(s.cache, next) => ~SameDraft(s.cache, tab[t].held)
    BY <1>1 DEF SameDraft, CopyOf
  <1> QED BY <1>2, <1>3, LoneFacts DEF HeldLone, Replaced

LEMMA DrainSendLone ==
  ASSUME SaveTyped, SaveTyped', LoneInv, NEW w, GoodWorld(w), Fits(w), NEW t \in Tabs, DrainSend(t)
  PROVE  LoneInv'
  <1> DEFINE x == tab[t]
             item == x.job.item
             next == IF item.gen = srv.gen THEN item ELSE Resealed(item)
             mine == next = item \/ SameDraft(db.pending, item)
             j == IF mine THEN Sending("drain", next) ELSE Idle
  <1>1. /\ x.job.phase = "sync" /\ clock' = Higher(clock, next.seal)
        /\ db' = IF next = item THEN db ELSE AfterReplace(item, next)
        /\ tab' = [tab EXCEPT ![t].key = srv.gen, ![t].job = j]
        /\ srv' = srv /\ overlooked' = overlooked
    BY DEF DrainSend
  <1>2. /\ x.job.kind = "drain" /\ Has(item) /\ item.marks = {} /\ Current(item, db) /\ item \in Drafts
        /\ Seen(item.base, item.text, srv.log, overlooked) /\ x \in TabStates /\ clock \in Nat
        /\ srv.gen # 0 /\ srv.gen \in Nat
    BY <1>1, LoneFacts, ServerFacts DEF JobLone, LoneInv
  <1>3. DraftOK(item, w) /\ StoreOK(db, w) /\ w.log = srv.log /\ item.seal <= clock /\ item.seal \in Nat
    <2>1. DraftOK(item, w) /\ StoreOK(db, w) /\ clock = w.clk
      BY TabFacts, FitsStore
    <2>2. w.log = srv.log
      BY DEF Fits
    <2> HIDE DEF item
    <2> QED BY <1>2, <2>1, <2>2 DEF DraftOK, SealOK, Drafts
  <1>4. /\ next \in Drafts /\ Has(next) /\ next.text = item.text /\ next.at = item.at /\ next.base = item.base
        /\ next.marks = {} /\ next.gen = srv.gen /\ (next # item => next.seal = clock + 1)
        /\ clock <= clock' /\ clock' \in Nat
    <2>1. CASE item.gen = srv.gen
      <3>1. next = item
        BY <2>1
      <3>2. clock' = clock
        BY <1>1, <1>2, <1>3, <3>1 DEF Higher
      <3> QED BY <1>2, <2>1, <3>1, <3>2
    <2>2. CASE item.gen # srv.gen
      <3>1. next = [item EXCEPT !.seal = clock + 1, !.gen = srv.gen]
        BY <2>2 DEF Resealed
      <3>a. clock + 1 \in Nat /\ srv.gen \in Nat
        BY <1>2
      <3> HIDE DEF next, item
      <3>2. next \in Drafts /\ next.seal = clock + 1 /\ next.text = item.text /\ next.at = item.at /\ next.base = item.base
            /\ next.marks = item.marks /\ next.gen = srv.gen
        BY <1>2, <3>a, <3>1 DEF Drafts
      <3>3. Has(next) /\ clock' = clock + 1
        BY <1>1, <1>2, <3>2 DEF Has, Higher
      <3> QED BY <1>2, <3>2, <3>3
    <2> QED BY <2>1, <2>2
  <1>5. Clear(next) /\ Clear(item)
    BY <1>2, <1>4 DEF Clear
  <1> HIDE DEF next
  <1>6. tab'[t] = [x EXCEPT !.key = srv.gen, !.job = j]
    BY <1>1 DEF SaveTyped
  <1>7. mine => j.kind = "drain" /\ j.phase = "sent" /\ j.item = next
    BY IdleFields DEF Sending, Jobs
  <1>8. ~mine => j = Idle
    OBVIOUS
  <1> HIDE DEF j
  <1>9. /\ tab'[t].move = x.move /\ tab'[t].job = j /\ tab'[t].held = x.held /\ tab'[t].open = x.open
        /\ tab'[t].load = x.load /\ tab'[t].text = x.text /\ tab'[t].base = x.base
    BY <1>2, <1>6 DEF TabStates
  <1>10. /\ Shelf(db', srv.log, overlooked, clock, srv.gone) /\ PageLone(x, db', srv.log, overlooked)
         /\ LoadLone(x.load, db', srv.log, overlooked) /\ HeldLone(x.held, db') /\ db' \in Stores
    <2>1. CASE db' = db
      BY <2>1, LoneFacts
    <2>2. CASE next # item
      <3>1. db' = AfterReplace(item, next) /\ Shelf(db, w.log, overlooked, clock, srv.gone)
        BY <1>1, <1>3, <2>2, LoneFacts
      <3>2. /\ db' \in Stores /\ Shelf(db', w.log, overlooked, clock, srv.gone)
            /\ Replaced(db', item, next) \/ db' = db
        BY <1>2, <1>3, <1>4, <1>5, <3>1, ReplaceLone
      <3>3. CASE Replaced(db', item, next)
        BY <1>3, <1>4, <1>5, <2>2, <3>2, <3>3, LoneFacts, ReplacedPage, ReplacedHeld
      <3> QED BY <2>1, <3>2, <3>3
    <2> QED BY <1>1, <2>1, <2>2
  <1>11. JobLone(j, x.open, x.text, db', srv.log, overlooked)
    <2>1. CASE ~mine
      BY <1>8, <2>1, IdleLone, LoneFacts
    <2>2. CASE next = item
      <3>1. mine /\ db' = db
        BY <1>1, <2>2
      <3> QED BY <1>2, <1>4, <1>7, <2>2, <3>1, LoneFacts DEF JobLone
    <2>3. CASE next # item /\ mine
      <3>1. db' = AfterReplace(item, next) /\ SameDraft(db.pending, item)
        BY <1>1, <2>3
      <3>2. db'.pending = next
        BY <3>1 DEF AfterReplace
      <3>3. x.open => next.text \subseteq x.text \cup overlooked
        BY <1>5, <1>10, <3>2 DEF PageLone
      <3> QED BY <1>2, <1>4, <1>7, <2>3, <3>2, <3>3 DEF JobLone, Current
    <2> QED BY <2>1, <2>2, <2>3
  <1>12. TabLone(tab'[t], db', srv.log, overlooked)
    <2>1. PageLone(tab'[t], db', srv.log, overlooked)
      BY <1>9, <1>10 DEF PageLone
    <2> QED BY <1>9, <1>10, <1>11, <2>1, LoneFacts DEF TabLone
  <1>13. Shelf(db', srv.log, overlooked, clock', srv.gone)
    <2>1. Later(srv.log, overlooked, srv.log, overlooked)
      BY LaterSelf, LoneFacts
    <2> QED BY <1>2, <1>4, <1>10, <2>1, ShelfLater
  <1>14. srv'.gen # 0
    BY <1>1, <1>2
  <1> QED BY <1>1, <1>12, <1>13, <1>14, LoneAgain

LEMMA ResetIdentityLone ==
  ASSUME SaveTyped, SaveTyped', LoneInv, NEW w, GoodWorld(w), Fits(w), NEW t \in Tabs, ResetIdentity
  PROVE  LoneInv'
  <1> DEFINE x == tab[t]
             item == db.pending
             m == Marked(item, "previousKey")
             next == [m EXCEPT !.seal = clock + 1]
  <1>1. /\ Has(item) /\ item.gen = 0 /\ clock' = clock + 1 /\ db' = AfterReplace(item, next)
        /\ srv' = srv /\ tab' = tab /\ overlooked' = overlooked
    BY DEF ResetIdentity
  <1>2. item \in Drafts /\ clock \in Nat /\ clock' \in Nat /\ clock <= clock' /\ x \in TabStates
    BY <1>1, LoneFacts
  <1>3. m \in Drafts /\ m.at = item.at /\ m.base = item.base /\ m.gen = item.gen /\ m.text = item.text
        /\ m.marks = item.marks \cup {"previousKey"}
    BY <1>2, MarkedFields
  <1> HIDE DEF m
  <1>4. next \in Drafts /\ next.seal = clock + 1 /\ next.at = item.at /\ next.base = item.base /\ next.gen = item.gen
        /\ next.text = item.text /\ next.marks = item.marks \cup {"previousKey"}
    BY <1>2, <1>3 DEF Drafts
  <1> HIDE DEF next
  <1>5. Clear(item)
    BY <1>1, LoneFacts DEF Shelf
  <1>6. Has(next) /\ Clear(next)
    BY <1>2, <1>4, <1>5 DEF Has, Clear
  <1>7. DraftOK(item, w) /\ StoreOK(db, w) /\ w.log = srv.log /\ Current(item, db)
    BY FitsStore DEF Fits, StoreOK, Current
  <1>8. Shelf(db', srv.log, overlooked, clock, srv.gone) /\ Replaced(db', item, next) /\ db' \in Stores
    <2>1. Shelf(db, w.log, overlooked, clock, srv.gone)
      BY <1>7, LoneFacts
    <2> QED BY <1>1, <1>4, <1>5, <1>6, <1>7, <2>1, ReplaceLone
  <1>9. PageLone(x, db', srv.log, overlooked) /\ LoadLone(x.load, db', srv.log, overlooked) /\ HeldLone(x.held, db')
    BY <1>4, <1>5, <1>8, LoneFacts, ReplacedPage, ReplacedHeld
  <1>10. JobLone(x.job, x.open, x.text, db', srv.log, overlooked)
    <2>1. x.job.kind # "save"
      BY <1>1, LoneFacts DEF JobLone
    <2>2. x.job.kind = "recover" => ~Has(x.job.item)
      <3>1. x.job.kind = "recover" /\ Has(x.job.item) => "conflicted" \in x.job.item.marks /\ x.job.item = item
        BY TabFacts, LoneFacts DEF JobOK, JobLone
      <3> QED BY <1>5, <3>1 DEF Clear
    <2>3. x.job.item.seal \in Nat /\ x.job.item.seal <= clock
      BY TabFacts, FitsStore DEF DraftOK, SealOK, Drafts
    <2>4. Current(x.job.item, db) => Current(x.job.item, db')
      <3>1. ~SameDraft(db'.pending, x.job.item)
        BY <1>2, <1>4, <1>8, <2>3 DEF Replaced, SameDraft
      <3>2. ASSUME Current(x.job.item, db), SameDraft(db'.cache, x.job.item) PROVE FALSE
        <4>1. db'.cache = db.cache /\ ~SameDraft(db.cache, item)
          BY <1>2, <1>4, <1>8, <2>3, <3>2 DEF Replaced, CopyOf, SameDraft
        <4> QED BY <3>2, <4>1 DEF Current
      <3> QED BY <3>1, <3>2 DEF Current
    <2>5. ~(x.job.kind = "drain" /\ x.job.item.gen # 0 /\ ~x.open)
      BY <1>1, LoneFacts DEF JobLone
    <2> QED BY <2>1, <2>2, <2>4, <2>5, LoneFacts DEF JobLone
  <1>11. TabLone(x, db', srv.log, overlooked)
    BY <1>9, <1>10, LoneFacts DEF TabLone
  <1>12. Shelf(db', srv.log, overlooked, clock', srv.gone)
    <2>1. Later(srv.log, overlooked, srv.log, overlooked)
      BY LaterSelf, LoneFacts
    <2> QED BY <1>2, <1>8, <2>1, ShelfLater
  <1>13. srv'.gen # 0
    BY <1>1 DEF LoneInv
  <1> QED BY <1>1, <1>11, <1>12, <1>13, LoneAgain

(* A load puts an unsent cache into the queue, and nothing else. *)
Recovers(s, s2) ==
    LET c == s2.cache
    IN  /\ s2 \in Stores /\ c.seal = s.cache.seal /\ c.at = s.cache.at /\ c.base = s.cache.base
        /\ c.gen = s.cache.gen /\ c.text = s.cache.text /\ c.marks = s.cache.marks
        /\ s.cache.unsent => c.unsent
        /\ c.unsent => Has(c)
        /\ s2.pending = s.pending \/ (s2.pending = c /\ c.unsent /\ s.pending.seal # c.seal)

LEMMA RecoverLone ==
  ASSUME SaveTyped, LoneInv, NEW w, GoodWorld(w), Fits(w), NEW ver, NEW text
  PROVE  Recovers(db, RecoveredDB(ver, text))
  <1> DEFINE c == IF LegacyUnsent(ver, text) THEN [db.cache EXCEPT !.unsent = TRUE] ELSE db.cache
             s2 == RecoveredDB(ver, text)
  <1>1. db.cache \in Drafts /\ db.pending \in Drafts /\ CacheOK(db.cache, w)
    BY FitsStore DEF Fits
  <1>2. /\ c \in Drafts /\ c.seal = db.cache.seal /\ c.at = db.cache.at /\ c.base = db.cache.base
        /\ c.gen = db.cache.gen /\ c.text = db.cache.text /\ c.marks = db.cache.marks
        /\ db.cache.unsent => c.unsent
        /\ c.unsent => Has(c)
    <2>1. CASE LegacyUnsent(ver, text)
      <3>1. c = [db.cache EXCEPT !.unsent = TRUE] /\ Has(db.cache)
        BY <2>1 DEF LegacyUnsent
      <3> HIDE DEF c
      <3> QED BY <1>1, <3>1 DEF Drafts, Has
    <2>2. CASE ~LegacyUnsent(ver, text)
      <3>1. c = db.cache
        BY <2>2
      <3> HIDE DEF c
      <3> QED BY <1>1, <3>1 DEF CacheOK
    <2> QED BY <2>1, <2>2
  <1>3. s2 = AfterRecover(c)
    BY DEF RecoveredDB
  <1> HIDE DEF c, s2
  <1>4. s2.cache = c /\ s2 = [cache |-> c, pending |-> s2.pending]
        /\ (s2.pending = db.pending \/ (s2.pending = c /\ c.unsent /\ db.pending.seal # c.seal))
    BY <1>3 DEF AfterRecover
  <1>5. s2 \in Stores
    BY <1>1, <1>2, <1>4 DEF Stores
  <1>6. Recovers(db, s2)
    BY <1>2, <1>4, <1>5 DEF Recovers
  <1> QED BY <1>6 DEF s2

LEMMA RecoversShelf ==
  ASSUME SaveTyped, LoneInv, NEW t \in Tabs, NEW s, Recovers(db, s)
  PROVE  /\ Shelf(s, srv.log, overlooked, clock, srv.gone)
         /\ HeldLone(tab[t].held, s)
         /\ \A item : Current(item, db) => Current(item, s)
         /\ Has(s.pending) /\ ~Has(s.cache) => Has(db.pending) /\ ~Has(db.cache)
  <1> DEFINE c == s.cache
             p == s.pending
  <1>1. /\ c \in Drafts /\ p \in Drafts /\ db.cache \in Drafts /\ db.pending \in Drafts /\ clock \in Nat
        /\ Shelf(db, srv.log, overlooked, clock, srv.gone)
    BY LoneFacts DEF Recovers, Stores
  <1>2. /\ c.seal = db.cache.seal /\ c.at = db.cache.at /\ c.base = db.cache.base
        /\ c.gen = db.cache.gen /\ c.text = db.cache.text /\ c.marks = db.cache.marks
        /\ db.cache.unsent => c.unsent
        /\ c.unsent => Has(c)
        /\ p = db.pending \/ (p = c /\ c.unsent /\ db.pending.seal # c.seal)
    BY DEF Recovers
  <1>3. Has(c) = Has(db.cache) /\ Clear(c) = Clear(db.cache)
    BY <1>2 DEF Has, Clear
  <1>4. \A item : SameDraft(c, item) = SameDraft(db.cache, item)
    BY <1>2 DEF SameDraft, Has
  <1> HIDE DEF c, p
  <1>5. CASE p = db.pending
    <2>1. Shelf(s, srv.log, overlooked, clock, srv.gone)
      BY <1>1, <1>2, <1>3, <1>5 DEF Shelf, c, p
    <2>2. HeldLone(tab[t].held, s)
      BY <1>3, <1>4, <1>5, LoneFacts DEF HeldLone, c, p
    <2>3. \A item : Current(item, db) => Current(item, s)
      BY <1>4, <1>5 DEF Current, c, p
    <2> QED BY <1>3, <1>5, <2>1, <2>2, <2>3 DEF c, p
  <1>6. CASE p = c /\ c.unsent /\ db.pending.seal # c.seal
    <2>1. Shelf(s, srv.log, overlooked, clock, srv.gone)
      <3>1. c.at <= c.at
        BY <1>1 DEF Drafts
      <3> QED BY <1>1, <1>2, <1>3, <1>6, <3>1 DEF Shelf, c, p
    <2>2. HeldLone(tab[t].held, s)
      BY <1>3, <1>4, <1>6, LoneFacts DEF HeldLone, c, p
    <2>3. ASSUME NEW item, Current(item, db) PROVE Current(item, s)
      <3>1. ~SameDraft(c, item)
        <4>1. CASE db.pending = item
          BY <1>6, <4>1 DEF SameDraft
        <4>2. CASE ~SameDraft(db.cache, item)
          BY <1>4, <4>2
        <4> QED BY <2>3, <4>1, <4>2 DEF Current
      <3> QED BY <1>6, <3>1 DEF Current, c, p
    <2> QED BY <1>2, <1>6, <2>1, <2>2, <2>3 DEF c, p
  <1> QED BY <1>2, <1>5, <1>6

(* What the finished load shows, and as which version. *)
LEMMA ShownLone ==
  ASSUME SaveTyped, LoneInv, NEW w, GoodWorld(w), Fits(w), NEW t \in Tabs, tab[t].load.on, NEW s, Recovers(db, s),
         NEW text, text = (IF Has(ShownCopy(s, tab[t].load.ver)) THEN ShownCopy(s, tab[t].load.ver).text ELSE tab[t].load.text),
         NEW base, base = Higher(IF Has(ShownCopy(s, tab[t].load.ver)) THEN ShownCopy(s, tab[t].load.ver).base ELSE tab[t].load.ver,
                                 tab[t].load.carried)
  PROVE  /\ Seen(base, text, srv.log, overlooked)
         /\ Has(s.pending) => s.cache.unsent
         /\ s.cache.unsent => text = s.cache.text
         /\ Has(s.cache) \/ ~Has(s.pending)
  <1> DEFINE c == s.cache
             p == s.pending
             load == tab[t].load
             log == srv.log
             draft == IF Unsendable(p) THEN NoDraft ELSE p
             copy == IF c.unsent /\ c.at >= draft.at THEN c
                     ELSE IF Has(draft) THEN draft ELSE c
             shown == IF Has(copy) /\ (copy.unsent \/ copy = draft \/ copy.base >= load.ver) THEN copy ELSE NoDraft
  <1>1. /\ c \in Drafts /\ p \in Drafts /\ load \in Loads /\ log \in Seq(Entries) /\ NoDraft \in Drafts
        /\ Shelf(s, log, overlooked, clock, srv.gone) /\ LoadLone(load, db, log, overlooked)
        /\ Has(p) /\ ~Has(c) => Has(db.pending) /\ ~Has(db.cache)
    BY LoneFacts, RecoversShelf, NoDraftFields DEF Recovers, Stores
  <1>2. Has(c) \/ ~Has(p)
    BY <1>1, LoneFacts DEF PageLone
  <1>3. Has(p) => c.unsent
    BY <1>1, <1>2 DEF Shelf
  <1>4. (c.unsent => Has(c)) /\ c.base = db.cache.base /\ c.text = db.cache.text /\ (db.cache.unsent => c.unsent)
        /\ Has(c) = Has(db.cache)
    BY DEF Recovers, Has
  <1>5. ShownCopy(s, load.ver) = shown
    BY DEF ShownCopy
  <1>6. draft \in {NoDraft, p}
    OBVIOUS
  <1>7. draft \in Drafts /\ (Has(c) => draft.at <= c.at)
    <2>1. c.at \in Nat /\ NoDraft.at <= c.at
      BY <1>1, NoDraftFields DEF Drafts
    <2> QED BY <1>1, <1>6, <2>1 DEF Shelf
  <1> HIDE DEF draft, c, p, load, log
  <1>8. shown \in {c, NoDraft} /\ (c.unsent => shown = c) /\ (shown = NoDraft /\ Has(c) => ~c.unsent /\ c.base < load.ver)
    <2>1. CASE c.unsent
      <3>1. c.at >= draft.at
        BY <1>1, <1>4, <1>7, <2>1 DEF Drafts
      <3>2. copy = c /\ Has(c)
        BY <1>4, <2>1, <3>1
      <3> HIDE DEF copy
      <3> QED BY <2>1, <3>2, NoDraftFields
    <2>2. CASE ~c.unsent
      <3>1. ~Has(draft)
        BY <1>3, <1>6, <2>2, NoDraftFields
      <3>2. copy = c
        BY <2>2, <3>1
      <3> HIDE DEF copy
      <3>3. c.base \in Nat /\ load.ver \in Nat
        BY <1>1 DEF Drafts, Loads
      <3> QED BY <2>2, <3>1, <3>2, <3>3, NoDraftFields
    <2> QED BY <2>1, <2>2
  <1>9. text = (IF Has(shown) THEN shown.text ELSE load.text)
        /\ base = Higher(IF Has(shown) THEN shown.base ELSE load.ver, load.carried)
    BY <1>5 DEF load
  <1> HIDE DEF shown
  <1>10. /\ load.ver \in 1..Len(log) /\ load.text = log[load.ver].text /\ load.carried \in Nat /\ Len(log) \in Nat
         /\ load.carried > 0 => /\ Has(c) /\ load.carried <= Len(log)
                                /\ log[load.carried].text \subseteq c.text \cup overlooked
                                /\ c.unsent \/ load.carried <= c.base
    BY <1>1, <1>4 DEF LoadLone, load, Loads
  <1>11. c.base \in Nat /\ Seen(c.base, c.text, log, overlooked)
    BY <1>1 DEF Shelf, c, Drafts
  <1>12. CASE Has(shown)
    <2>1. shown = c /\ text = c.text /\ base = Higher(c.base, load.carried)
      BY <1>8, <1>9, <1>12, NoDraftFields
    <2>2. Seen(base, text, log, overlooked)
      <3>1. CASE load.carried > c.base
        <4>1. base = load.carried /\ load.carried > 0
          BY <1>10, <1>11, <2>1, <3>1 DEF Higher
        <4> QED BY <1>10, <2>1, <4>1 DEF Seen
      <3>2. CASE ~(load.carried > c.base)
        <4>1. base = c.base
          BY <1>10, <1>11, <2>1, <3>2 DEF Higher
        <4> QED BY <1>11, <2>1, <4>1
      <3> QED BY <3>1, <3>2
    <2> QED BY <1>2, <1>3, <2>1, <2>2 DEF c, p, log
  <1>13. CASE ~Has(shown)
    <2>1. text = load.text /\ base = Higher(load.ver, load.carried) /\ ~c.unsent
      BY <1>4, <1>8, <1>9, <1>13
    <2>2. load.carried > 0 => load.carried < load.ver
      <3>1. ASSUME load.carried > 0 PROVE load.carried < load.ver
        <4>1. Has(c) /\ load.carried <= c.base
          BY <1>10, <2>1, <3>1
        <4>2. shown = NoDraft
          BY <1>8, <1>13, <4>1
        <4>3. c.base < load.ver /\ load.ver \in Nat
          BY <1>8, <1>10, <4>1, <4>2
        <4> QED BY <1>10, <1>11, <4>1, <4>3
      <3> QED BY <3>1
    <2>3. base = load.ver
      BY <1>10, <2>1, <2>2 DEF Higher
    <2>4. Seen(base, text, log, overlooked)
      BY <1>10, <2>1, <2>3 DEF Seen
    <2> QED BY <1>2, <1>3, <2>1, <2>4 DEF c, p, log
  <1> QED BY <1>12, <1>13

LEMMA FinishLoadLone ==
  ASSUME SaveTyped, SaveTyped', LoneInv, NEW w, GoodWorld(w), Fits(w), NEW t \in Tabs, FinishLoad(t)
  PROVE  LoneInv'
  <1> DEFINE x == tab[t]
             load == tab[t].load
             copy == ShownCopy(db', load.ver)
             text == IF Has(copy) THEN copy.text ELSE load.text
             base == Higher(IF Has(copy) THEN copy.base ELSE load.ver, load.carried)
  <1>1. /\ load.on /\ db' = RecoveredDB(load.ver, load.text) /\ srv' = srv /\ clock' = clock /\ overlooked' = overlooked
    BY Zenon DEF FinishLoad
  <1>2. PICK b1, b2, b3, b4 : tab' = [tab EXCEPT
               ![t].open = TRUE, ![t].listed = TRUE, ![t].text = text, ![t].base = base,
               ![t].dirty = b1, ![t].flushed = b2, ![t].writer = b3, ![t].conflicted = b4, ![t].load = NoLoad]
    <2> DEFINE dirty == Has(db'.pending) /\ db'.pending.marks = {} /\ srv.writer
    <2>1. PICK cp \in {copy} :
          tab' = [tab EXCEPT
               ![t].open = TRUE, ![t].listed = TRUE,
               ![t].text = IF Has(cp) THEN cp.text ELSE load.text,
               ![t].base = Higher(IF Has(cp) THEN cp.base ELSE load.ver, load.carried),
               ![t].dirty = dirty, ![t].flushed = ~dirty, ![t].writer = srv.writer,
               ![t].conflicted = srv.unresolved # {}, ![t].load = NoLoad]
      BY Zenon DEF FinishLoad
    <2>2. cp = copy
      BY <2>1
    <2> HIDE DEF copy, dirty
    <2>3. tab' = [tab EXCEPT
               ![t].open = TRUE, ![t].listed = TRUE, ![t].text = text, ![t].base = base,
               ![t].dirty = dirty, ![t].flushed = ~dirty, ![t].writer = srv.writer,
               ![t].conflicted = srv.unresolved # {}, ![t].load = NoLoad]
      BY <2>1, <2>2
    <2> HIDE DEF text, base
    <2> QED BY <2>3, Zenon
  <1>3. Recovers(db, db')
    BY <1>1, RecoverLone
  <1>4. /\ Seen(base, text, srv.log, overlooked)
        /\ Has(db'.pending) => db'.cache.unsent
        /\ db'.cache.unsent => text = db'.cache.text
        /\ Has(db'.cache) \/ ~Has(db'.pending)
    BY <1>1, <1>3, ShownLone
  <1> HIDE DEF copy, text, base
  <1>5. /\ tab'[t].open = TRUE /\ tab'[t].text = text /\ tab'[t].base = base /\ tab'[t].load = NoLoad
        /\ tab'[t].move = x.move /\ tab'[t].job = x.job /\ tab'[t].held = x.held
    <2>1. tab \in [Tabs -> TabStates]
      BY DEF SaveTyped
    <2>2. tab'[t] = [x EXCEPT !.open = TRUE, !.listed = TRUE, !.text = text, !.base = base, !.dirty = b1,
                              !.flushed = b2, !.writer = b3, !.conflicted = b4, !.load = NoLoad]
      BY <1>2, <2>1
    <2>3. x \in TabStates
      BY <2>1
    <2> HIDE DEF x
    <2> QED BY <2>2, <2>3 DEF TabStates
  <1>6. /\ Shelf(db', srv.log, overlooked, clock, srv.gone) /\ HeldLone(x.held, db')
        /\ \A item : Current(item, db) => Current(item, db')
    BY <1>3, RecoversShelf
  <1>7. ~NoLoad.on /\ ~x.open
    BY <1>1, LoneFacts DEF NoLoad, PageLone
  <1>8. Clear(db'.pending) => db'.pending.text \subseteq text \cup overlooked
    <2>1. CASE Has(db'.pending)
      BY <1>4, <1>6, <2>1 DEF Shelf
    <2>2. CASE ~Has(db'.pending)
      <3>1. db'.pending = db.pending
        BY <1>3, <2>2 DEF Recovers
      <3>2. db.pending.seal \in Nat /\ db.pending.text = w.of[db.pending.seal] /\ w.of[0] = {}
        BY FitsStore DEF StoreOK, DraftOK, SealOK, GoodWorld, Drafts
      <3>3. db.pending.seal = 0
        BY <2>2, <3>1, <3>2 DEF Has
      <3> QED BY <3>1, <3>2, <3>3
    <2> QED BY <2>1, <2>2
  <1>9. PageLone(tab'[t], db', srv.log, overlooked)
    BY <1>4, <1>5, <1>7, <1>8 DEF PageLone
  <1>10. JobLone(x.job, TRUE, text, db', srv.log, overlooked)
    <2>1. JobLone(x.job, FALSE, x.text, db, srv.log, overlooked)
      BY <1>7, LoneFacts DEF TabStates
    <2>2. ASSUME x.job.kind = "drain", x.job.item.gen # 0 PROVE x.job.item.text \subseteq text \cup overlooked
      <3>1. db.pending = x.job.item /\ Has(db.pending) /\ Clear(db.pending)
        BY <2>1, <2>2 DEF JobLone, Clear
      <3>2. Has(db.cache)
        BY <1>1, <3>1, LoneFacts DEF PageLone
      <3>3. db.cache.unsent /\ db.pending.text \subseteq db.cache.text \cup overlooked
        BY <3>1, <3>2, LoneFacts DEF Shelf
      <3>4. text = db.cache.text
        BY <1>3, <1>4, <3>3 DEF Recovers
      <3> QED BY <3>1, <3>3, <3>4
    <2> QED BY <1>6, <2>1, <2>2 DEF JobLone
  <1>11. LoadLone(NoLoad, db', srv.log, overlooked)
    BY <1>7 DEF LoadLone
  <1>12. TabLone(tab'[t], db', srv.log, overlooked)
    BY <1>5, <1>6, <1>9, <1>10, <1>11, LoneFacts DEF TabLone
  <1>13. srv'.gen # 0
    BY <1>1 DEF LoneInv
  <1> QED BY <1>1, <1>6, <1>12, <1>13, LoneAgain

LEMMA LoneInit == Alone /\ Init => LoneInv
  <1> SUFFICES ASSUME Alone, Init PROVE LoneInv
    OBVIOUS
  <1>1. PICK cache \in {NoDraft, LegacyCache} : db = [cache |-> cache, pending |-> NoDraft] /\ clock = cache.seal
    BY DEF Init
  <1>2. LegacyCache.seal = 1 /\ LegacyCache.at = 1 /\ LegacyCache.base = 1 /\ LegacyCache.marks = {}
    BY DEF LegacyCache, NoDraft
  <1>3. srv.gen = 1 /\ srv.log = <<[seal |-> 0, base |-> 0, gen |-> 1, text |-> {}]>> /\ tab = [t \in Tabs |-> Closed]
    BY DEF Init
  <1>4. Len(srv.log) = 1 /\ srv.log[1].text = {} /\ srv.log \in Seq(Entries)
    <2> DEFINE e == [seal |-> 0, base |-> 0, gen |-> 1, text |-> {}]
    <2>1. e.text = {} /\ e \in Entries
      BY DEF Entries, Texts
    <2> HIDE DEF e
    <2>2. srv.log = <<e>>
      BY <1>3 DEF e
    <2> QED BY <2>1, <2>2
  <1>5. db.cache = cache /\ db.pending = NoDraft /\ cache.base \in {0, 1} /\ cache.at \in {0, 1} /\ cache.at = clock
        /\ Clear(cache) /\ cache.seal = clock
    BY <1>1, <1>2, NoDraftFields DEF Clear
  <1>6. Shelf(db, srv.log, overlooked, clock, srv.gone)
    <2>1. Seen(NoDraft.base, NoDraft.text, srv.log, overlooked) /\ Seen(cache.base, cache.text, srv.log, overlooked)
      <3>1. NoDraft.base <= Len(srv.log) /\ ~(NoDraft.base > 0)
        BY <1>4, NoDraftFields
      <3>2. cache.base <= Len(srv.log) /\ (cache.base > 0 => srv.log[cache.base].text = {})
        BY <1>4, <1>5
      <3> QED BY <3>1, <3>2 DEF Seen
    <2> QED BY <1>5, <2>1, NoDraftFields DEF Shelf
  <1>7. ASSUME NEW t \in Tabs PROVE TabLone(tab[t], db, srv.log, overlooked)
    <2>1. tab[t] = Closed
      BY <1>3
    <2>2. Closed.move = Idle /\ Closed.job = Idle /\ Closed.held = NoDraft /\ ~Closed.open /\ Closed.load = NoLoad /\ ~NoLoad.on
      BY DEF Closed, NoLoad
    <2> QED BY <1>4, <2>1, <2>2, IdleLone, NothingHeld DEF TabLone, PageLone, LoadLone
  <1> QED BY <1>3, <1>6, <1>7 DEF LoneInv

LEMMA LoneStep == SaveInv /\ SaveInv' /\ LoneInv /\ [Next]_vars => LoneInv'
  <1> SUFFICES ASSUME SaveInv, SaveInv', LoneInv, [Next]_vars PROVE LoneInv'
    OBVIOUS
  <1>1. SaveTyped /\ SaveTyped'
    BY DEF SaveInv
  <1>2. PICK w : GoodWorld(w) /\ Fits(w)
    BY DEF SaveInv
  <1>a. PICK u : u \in Tabs
    BY DEF LoneInv, Alone
  <1>3. CASE UNCHANGED vars
    BY <1>3 DEF vars, LoneInv
  <1>4. ASSUME NEW t \in Tabs,
               \/ BeginLoad(t) \/ FinishLoad(t) \/ EditOpen(t)
               \/ ClosePage(t) \/ Crash(t) \/ RemovePage(t) \/ KeyPass(t)
               \/ SaveStart(t) \/ MoveStart(t)
        PROVE  LoneInv'
    <2>1. CASE BeginLoad(t) BY <1>1, <1>2, <2>1, BeginLoadLone
    <2>2. CASE FinishLoad(t) BY <1>1, <1>2, <2>2, FinishLoadLone
    <2>3. CASE EditOpen(t) BY <1>1, <1>2, <2>3, EditOpenLone
    <2>4. CASE ClosePage(t) BY <1>1, <1>2, <2>4, ClosePageLone
    <2>5. CASE Crash(t) BY <1>1, <1>2, <2>5, CrashLone
    <2>6. CASE RemovePage(t) BY <1>1, <1>2, <2>6, RemovePageLone
    <2>7. CASE KeyPass(t) BY <1>1, <1>2, <2>7, KeyPassLone
    <2>8. CASE SaveStart(t) BY <1>1, <1>2, <2>8, SaveStartLone
    <2>9. CASE MoveStart(t) BY <2>9 DEF MoveStart, LoneInv, Alone
    <2> QED BY <1>4, <2>1, <2>2, <2>3, <2>4, <2>5, <2>6, <2>7, <2>8, <2>9
  <1>5. ASSUME NEW t \in Tabs, NEW slot \in Slots, Deliver(t, slot) \/ Lose(t, slot) \/ Answered(t, slot)
        PROVE  LoneInv'
    <2>1. CASE Deliver(t, slot) \/ Lose(t, slot) BY <1>1, <1>2, <2>1, DeliverLone
    <2>3. CASE Answered(t, slot) BY <1>1, <1>2, <2>3, AnsweredLone
    <2> QED BY <1>5, <2>1, <2>3
  <1>6. ASSUME NEW t \in Tabs,
               \/ DrainStart(t) \/ DrainWait(t) \/ DrainSend(t) \/ DrainAnswered(t)
               \/ RecoverReload(t) \/ RecoverCopy(t) \/ RecoverSkip(t) \/ RecoverEnd(t)
               \/ SeeUnsent(t) \/ Discard(t)
        PROVE  LoneInv'
    <2>1. CASE DrainStart(t) BY <1>1, <1>2, <2>1, DrainStartLone
    <2>a. CASE SeeUnsent(t) BY <1>1, <1>2, <2>a, SeeUnsentLone
    <2>2. CASE DrainWait(t) BY <1>1, <1>2, <2>2, DrainWaitLone
    <2>3. CASE DrainSend(t) BY <1>1, <1>2, <2>3, DrainSendLone
    <2>4. CASE DrainAnswered(t) BY <1>1, <1>2, <2>4, DrainAnsweredLone
    <2>5. CASE RecoverReload(t) BY <1>1, <1>2, <2>5, RecoverReloadLone
    <2>6. CASE RecoverCopy(t) BY <1>1, <1>2, <2>6, KeyPassLone
    <2>7. CASE RecoverSkip(t) BY <1>1, <1>2, <2>7, KeyPassLone
    <2>8. CASE RecoverEnd(t) BY <1>1, <1>2, <2>8, RecoverEndLone
    <2>9. CASE Discard(t) BY <1>1, <1>2, <2>9, DiscardLone
    <2> QED BY <1>6, <2>a, <2>1, <2>2, <2>3, <2>4, <2>5, <2>6, <2>7, <2>8, <2>9
  <1>7. CASE ResetIdentity BY <1>1, <1>2, <1>a, <1>7, ResetIdentityLone
  <1>8. CASE OtherSave \/ OtherDelete \/ ChangeRole \/ Rotate \/ ForgetKeys \/ Refuse \/ Admit BY <1>1, <1>2, <1>a, <1>8, OthersLone
  <1> QED BY <1>3, <1>4, <1>5, <1>6, <1>7, <1>8, Zenon DEF Next

(* In one tab the store, the page and the request follow one another. *)
THEOREM OneTabFollows == Alone /\ Spec => []LoneInv
  <1> QED BY LoneInit, LoneStep, SealsNameTexts, PTL DEF Spec

(* The server's versions after a step of anyone: as they were, or one more, *)
(* made by another device from the newest or by a save of this tab.        *)
Extended(text) == \E e \in Entries : e.text = text /\ srv'.log = Append(srv.log, e)

LEMMA LogStep ==
  ASSUME SaveTyped, LoneInv, [Next]_vars
  PROVE  \/ srv'.log = srv.log
         \/ OtherSave /\ Extended(HeadText \cup {edits + 1})
         \/ \E t \in Tabs : /\ tab[t].job.phase = "sent" /\ tab[t].job.item.base = Version
                            /\ srv' = AfterSave(tab[t].job.item) /\ db' = db /\ overlooked' = overlooked /\ discarded' = discarded
                            /\ durable' = durable \cup Kept(srv', db)
                            /\ Extended(tab[t].job.item.text)
  <1>1. srv \in Servers
    BY ServerFacts
  <1>2. CASE OtherSave
    <2> DEFINE e == [seal |-> 0, base |-> Version, gen |-> srv.gen, text |-> HeadText \cup {edits + 1}]
    <2>1. srv' = [srv EXCEPT !.log = Append(srv.log, e)]
      BY <1>2 DEF OtherSave
    <2>2. e \in Entries /\ e.text = HeadText \cup {edits + 1}
      BY ServerFacts DEF Entries, Texts, SaveTyped
    <2> HIDE DEF e
    <2>3. srv'.log = Append(srv.log, e)
      BY <1>1, <2>1 DEF Servers
    <2> QED BY <1>2, <2>2, <2>3 DEF Extended
  <1>3. ASSUME NEW t \in Tabs, NEW slot \in Slots, Deliver(t, slot)
        PROVE  \/ srv'.log = srv.log
               \/ \E u \in Tabs : /\ tab[u].job.phase = "sent" /\ tab[u].job.item.base = Version
                            /\ srv' = AfterSave(tab[u].job.item) /\ db' = db /\ overlooked' = overlooked /\ discarded' = discarded
                            /\ durable' = durable \cup Kept(srv', db)
                            /\ Extended(tab[u].job.item.text)
    <2>1. tab[t][slot].phase = "sent" /\ db' = db /\ overlooked' = overlooked /\ discarded' = discarded
      BY <1>3, Zenon DEF Deliver
    <2>2. tab[t].move.phase = "none"
      BY LoneFacts, IdleFields
    <2>3. slot = "job"
      BY <2>1, <2>2 DEF Slots
    <2>4. srv' = srv \/ (srv' = AfterSave(tab[t].job.item) /\ durable' = durable \cup Kept(srv', db))
      BY <1>3, <2>3, Zenon DEF Deliver
    <2>5. CASE srv' = AfterSave(tab[t].job.item) /\ durable' = durable \cup Kept(srv', db)
      <3>1. tab[t].job.item \in Drafts
        BY LoneFacts
      <3>2. \/ srv'.log = srv.log
            \/ tab[t].job.item.base = Version /\ Extended(tab[t].job.item.text)
        BY <2>5, <3>1, SavedLog DEF Extended
      <3> QED BY <2>1, <2>3, <2>5, <3>2
    <2> QED BY <2>4, <2>5
  <1>4. ASSUME NEW t \in Tabs,
               \/ BeginLoad(t) \/ FinishLoad(t) \/ EditOpen(t)
               \/ ClosePage(t) \/ Crash(t) \/ KeyPass(t)
               \/ SaveStart(t) \/ MoveStart(t)
               \/ DrainStart(t) \/ DrainWait(t) \/ DrainSend(t) \/ DrainAnswered(t)
               \/ RecoverReload(t) \/ RecoverSkip(t) \/ RecoverEnd(t)
               \/ SeeUnsent(t) \/ Discard(t)
        PROVE  srv' = srv
    <2>1. CASE BeginLoad(t) \/ FinishLoad(t) \/ EditOpen(t) \/ ClosePage(t) \/ Crash(t) \/ KeyPass(t)
      BY <2>1, Zenon DEF BeginLoad, FinishLoad, EditOpen, ClosePage, Crash, KeyPass
    <2>2. CASE SaveStart(t) \/ MoveStart(t) \/ DrainStart(t) \/ DrainWait(t) \/ DrainSend(t) \/ DrainAnswered(t)
      BY <2>2, Zenon DEF SaveStart, MoveStart, DrainStart, DrainWait, DrainSend, DrainAnswered
    <2>3. CASE RecoverReload(t) \/ RecoverSkip(t) \/ RecoverEnd(t) \/ SeeUnsent(t) \/ Discard(t)
      BY <2>3, Zenon DEF RecoverReload, RecoverSkip, RecoverEnd, SeeUnsent, Discard
    <2> QED BY <1>4, <2>1, <2>2, <2>3
  <1>5. ASSUME NEW t \in Tabs, NEW slot \in Slots, Lose(t, slot) \/ Answered(t, slot) PROVE srv' = srv
    BY <1>5, Zenon DEF Lose, Answered
  <1>6. ASSUME NEW t \in Tabs, RemovePage(t) \/ RecoverCopy(t) PROVE srv'.log = srv.log
    <2>1. CASE RemovePage(t)
      BY <1>1, <2>1 DEF RemovePage, Servers
    <2>2. CASE RecoverCopy(t)
      <3>1. PICK u, c : srv' = [srv EXCEPT !.unresolved = u, !.copies = c]
        BY <2>2, Zenon DEF RecoverCopy
      <3> QED BY <1>1, <3>1 DEF Servers
    <2> QED BY <1>6, <2>1, <2>2
  <1>7. CASE ResetIdentity \/ OtherDelete \/ ChangeRole \/ Rotate \/ ForgetKeys \/ Refuse \/ Admit
    <2>1. CASE ResetIdentity
      BY <2>1, Zenon DEF ResetIdentity
    <2>2. CASE OtherDelete
      BY <1>1, <2>2 DEF OtherDelete, Servers
    <2>3. CASE ChangeRole
      BY <1>1, <2>3 DEF ChangeRole, Servers
    <2>4. CASE Rotate
      BY <1>1, <2>4 DEF Rotate, Servers
    <2>5. CASE ForgetKeys
      BY <1>1, <2>5 DEF ForgetKeys, Servers
    <2>6. CASE Refuse \/ Admit
      BY <2>6, BarStep
    <2> QED BY <1>7, <2>1, <2>2, <2>3, <2>4, <2>5, <2>6
  <1>8. CASE UNCHANGED vars
    BY <1>8 DEF vars
  <1> QED BY <1>2, <1>3, <1>4, <1>5, <1>6, <1>7, <1>8, Zenon DEF Next

LEMMA LastOfLonger ==
  ASSUME SaveTyped, NEW text, Extended(text)
  PROVE  /\ Version' = Version + 1 /\ HeadText' = text /\ srv'.log[Version + 1].text = text
         /\ \A i \in 1..Version : srv'.log[i] = srv.log[i]
  <1>1. PICK e \in Entries : e.text = text /\ srv'.log = Append(srv.log, e)
    BY DEF Extended
  <1>2. srv.log \in Seq(Entries)
    BY ServerFacts
  <1>3. Len(srv'.log) = Len(srv.log) + 1 /\ srv'.log[Len(srv.log) + 1] = e /\ \A i \in 1..Len(srv.log) : srv'.log[i] = srv.log[i]
    BY <1>1, <1>2
  <1> QED BY <1>1, <1>3 DEF Version, HeadText

(* One user's saves, with the other device's in between: with one tab and  *)
(* a store that keeps what it is given, a version that replaces another    *)
(* was made from it, however many requests, answers and tabs are lost.     *)
THEOREM EditsStartFromTheHead == Alone /\ Spec => EditedFromKnownHead
  <1> DEFINE A == Version' > Version => HeadText \subseteq HeadText' \cup overlooked'
  <1>1. SaveInv /\ LoneInv /\ [Next]_vars => [A]_vars
    <2> SUFFICES ASSUME SaveTyped, LoneInv, [Next]_vars, Version' > Version PROVE HeadText \subseteq HeadText' \cup overlooked'
      BY DEF SaveInv
    <2>1. Version \in Nat /\ Version > 0
      BY ServerFacts DEF Version
    <2>2. CASE srv'.log = srv.log
      BY <2>1, <2>2 DEF Version
    <2>3. CASE OtherSave /\ Extended(HeadText \cup {edits + 1})
      BY <2>3, LastOfLonger
    <2>4. ASSUME NEW t \in Tabs, tab[t].job.item.base = Version, Extended(tab[t].job.item.text), overlooked' = overlooked
          PROVE  HeadText \subseteq HeadText' \cup overlooked'
      <3>1. Seen(Version, tab[t].job.item.text, srv.log, overlooked)
        BY <2>4, LoneFacts DEF JobLone
      <3> QED BY <2>1, <2>4, <3>1, LastOfLonger DEF Seen, Version, HeadText
    <2> QED BY <2>2, <2>3, <2>4, LogStep
  <1> QED BY <1>1, SealsNameTexts, OneTabFollows, PTL DEF Spec, EditedFromKnownHead

-----------------------------------------------------------------------------
(* What is kept.  The newest version holds the earlier ones, a rejected    *)
(* version stays a conflict or is copied, and the open page shows what the *)
(* browser's drafts hold and the server does not.                          *)

Drafted(s) == s.pending.text \cup (IF s.cache.unsent THEN s.cache.text ELSE {})

VersionsKept == \A i \in 1..Version : srv.log[i].text \subseteq HeadText \cup overlooked
RecordsKept == \A c \in srv.conflicts : c.text \subseteq ServerHeld(srv) \cup overlooked
ReloadShown == \A t \in Tabs : tab[t].recovering => \E i \in 1..Version : tab[t].text = srv.log[i].text
PageKept == \A t \in Tabs : tab[t].open => Drafted(db) \subseteq tab[t].text \cup overlooked \cup ServerHeld(srv)
KeepInv == VersionsKept /\ RecordsKept /\ ReloadShown /\ PageKept /\ NoOtherEditLost

LEMMA KeptParts == ASSUME NEW s, NEW store PROVE Kept(s, store) = ServerHeld(s) \cup Drafted(store)
  BY DEF Kept, Drafted

(* A text the server answered for is kept. *)
LEMMA FiledKept ==
  ASSUME KeepInv, NEW w, Fits(w), NEW text, (\E ver : InLog(ver, text, w)) \/ Recorded(text, w)
  PROVE  text \subseteq ServerHeld(srv) \cup overlooked
  <1>1. w.log = srv.log /\ w.conflicts = srv.conflicts
    BY DEF Fits
  <1>2. CASE \E ver : InLog(ver, text, w)
    <2>1. text \subseteq HeadText \cup overlooked
      BY <1>1, <1>2 DEF InLog, KeepInv, VersionsKept, Version
    <2> QED BY <2>1 DEF ServerHeld, HeadText, Version
  <1>3. CASE Recorded(text, w)
    BY <1>1, <1>3 DEF Recorded, KeepInv, RecordsKept
  <1> QED BY <1>2, <1>3

(* A step that loses nothing keeps everything. *)
LEMMA KeepAgain ==
  ASSUME LoneInv, KeepInv, NEW t \in Tabs,
         overlooked \subseteq overlooked', discarded \subseteq discarded',
         ServerHeld(srv) \subseteq ServerHeld(srv') \cup overlooked',
         Drafted(db) \subseteq Drafted(db') \cup ServerHeld(srv') \cup discarded' \cup overlooked',
         durable' \subseteq durable \cup Kept(srv', db'),
         VersionsKept',
         \A c \in srv'.conflicts : c \in srv.conflicts \/ c.text \subseteq ServerHeld(srv'),
         tab'[t].recovering => \E i \in 1..Version' : tab'[t].text = srv'.log[i].text,
         tab'[t].open => Drafted(db') \subseteq tab'[t].text \cup overlooked' \cup ServerHeld(srv')
  PROVE  KeepInv'
  <1>1. \A u \in Tabs : u = t
    BY DEF LoneInv, Alone
  <1>2. RecordsKept'
    BY DEF KeepInv, RecordsKept
  <1>3. ReloadShown' /\ PageKept'
    BY <1>1 DEF ReloadShown, PageKept
  <1>4. NoOtherEditLost'
    <2>1. Kept(srv, db) \subseteq Kept(srv', db') \cup discarded' \cup overlooked'
      BY KeptParts
    <2>2. durable \subseteq Kept(srv, db) \cup discarded \cup overlooked
      BY DEF KeepInv, NoOtherEditLost
    <2>3. durable' \ (discarded' \cup overlooked') \subseteq Kept(srv', db')
      BY <2>1, <2>2
    <2> QED BY <2>3 DEF NoOtherEditLost
  <1> QED BY <1>2, <1>3, <1>4 DEF KeepInv

(* Steps that leave the server's texts alone. *)
SameHeld(s, s2) == s2.log = s.log /\ s2.copies = s.copies /\ s2.conflicts = s.conflicts /\ s2.unresolved = s.unresolved

LEMMA KeepStore ==
  ASSUME LoneInv, KeepInv, NEW t \in Tabs, SameHeld(srv, srv'),
         overlooked \subseteq overlooked', discarded \subseteq discarded',
         Drafted(db) \subseteq Drafted(db') \cup ServerHeld(srv) \cup discarded' \cup overlooked',
         durable' = durable \/ durable' = durable \cup Kept(srv, db'),
         tab'[t].recovering => \E i \in 1..Version : tab'[t].text = srv.log[i].text,
         tab'[t].open => Drafted(db') \subseteq tab'[t].text \cup overlooked' \cup ServerHeld(srv)
  PROVE  KeepInv'
  <1>1. ServerHeld(srv') = ServerHeld(srv) /\ Version' = Version /\ HeadText' = HeadText /\ srv'.log = srv.log
        /\ srv'.conflicts = srv.conflicts
    BY DEF SameHeld, ServerHeld, Version, HeadText
  <1>2. VersionsKept'
    BY <1>1 DEF KeepInv, VersionsKept
  <1>3. durable' \subseteq durable \cup Kept(srv', db')
    BY <1>1, KeptParts
  <1> QED BY <1>1, <1>2, <1>3, KeepAgain

(* Steps that change neither the store nor what the open page shows. *)
LEMMA KeepTab ==
  ASSUME LoneInv, KeepInv, NEW t \in Tabs, SameHeld(srv, srv'), db' = db,
         overlooked' = overlooked, discarded' = discarded, durable' = durable,
         tab'[t].recovering => tab[t].recovering /\ tab'[t].text = tab[t].text,
         tab'[t].open => tab[t].open /\ tab'[t].text = tab[t].text
  PROVE  KeepInv'
  <1>1. tab'[t].recovering => \E i \in 1..Version : tab'[t].text = srv.log[i].text
    BY DEF KeepInv, ReloadShown
  <1>2. tab'[t].open => Drafted(db') \subseteq tab'[t].text \cup overlooked' \cup ServerHeld(srv)
    BY DEF KeepInv, PageKept
  <1> QED BY <1>1, <1>2, KeepStore

SamePage(x, y) == y.open = x.open /\ y.text = x.text /\ y.recovering = x.recovering

LEMMA SameServer == ASSUME srv' = srv PROVE SameHeld(srv, srv')
  BY DEF SameHeld

(* A step that puts only a task into the tab. *)
LEMMA JobPage ==
  ASSUME SaveTyped, NEW t \in Tabs, NEW j, tab' = [tab EXCEPT ![t].job = j]
  PROVE  SamePage(tab[t], tab'[t])
  <1>1. tab'[t] = [tab[t] EXCEPT !.job = j] /\ tab[t] \in TabStates
    BY DEF SaveTyped
  <1> QED BY <1>1 DEF SamePage, TabStates

LEMMA QuietTabKeeps ==
  ASSUME SaveTyped, LoneInv, KeepInv, NEW t \in Tabs,
         BeginLoad(t) \/ ClosePage(t) \/ Crash(t) \/ KeyPass(t) \/ RecoverSkip(t)
  PROVE  KeepInv'
  <1>1. srv' = srv /\ db' = db /\ overlooked' = overlooked /\ discarded' = discarded /\ durable' = durable
    BY Zenon DEF BeginLoad, ClosePage, Crash, KeyPass, RecoverSkip
  <1>2. tab[t] \in TabStates
    BY DEF SaveTyped
  <1>3. /\ tab'[t].recovering => tab[t].recovering /\ tab'[t].text = tab[t].text
        /\ tab'[t].open => tab[t].open /\ tab'[t].text = tab[t].text
    <2>1. CASE BeginLoad(t)
      <3> DEFINE load == [on |-> TRUE, ver |-> Version, text |-> HeadText, carried |-> 0]
      <3>1. tab'[t] = [tab[t] EXCEPT !.key = srv.gen, !.listed = FALSE, !.load = load]
        BY <2>1 DEF BeginLoad, SaveTyped
      <3> HIDE DEF load
      <3> QED BY <1>2, <3>1 DEF TabStates
    <2>2. CASE ClosePage(t)
      <3>1. tab'[t] = [tab[t] EXCEPT !.open = FALSE, !.dirty = FALSE]
        BY <2>2 DEF ClosePage, SaveTyped
      <3> QED BY <1>2, <3>1 DEF TabStates
    <2>3. CASE Crash(t)
      <3>1. tab'[t] = Closed
        BY <2>3 DEF Crash, SaveTyped
      <3> QED BY <3>1 DEF Closed
    <2>4. CASE KeyPass(t)
      <3>1. PICK k : tab' = [tab EXCEPT ![t].key = k]
        BY <2>4 DEF KeyPass
      <3>2. tab'[t] = [tab[t] EXCEPT !.key = k]
        BY <3>1 DEF SaveTyped
      <3> QED BY <1>2, <3>2 DEF TabStates
    <2>5. CASE RecoverSkip(t)
      <3>1. PICK c \in tab[t].todo : tab' = [tab EXCEPT ![t].todo = @ \ {c}, ![t].failed = TRUE]
        BY <2>5 DEF RecoverSkip
      <3>2. tab'[t] = [tab[t] EXCEPT !.todo = tab[t].todo \ {c}, !.failed = TRUE]
        BY <3>1 DEF SaveTyped
      <3> QED BY <1>2, <3>2 DEF TabStates
    <2> QED BY <2>1, <2>2, <2>3, <2>4, <2>5
  <1> QED BY <1>1, <1>3, SameServer, KeepTab

LEMMA QuietJobKeeps ==
  ASSUME SaveTyped, LoneInv, KeepInv, NEW t \in Tabs, DrainStart(t) \/ DrainWait(t) \/ SeeUnsent(t)
  PROVE  KeepInv'
  <1>1. srv' = srv /\ db' = db /\ overlooked' = overlooked /\ discarded' = discarded /\ durable' = durable
    BY Zenon DEF DrainStart, DrainWait, SeeUnsent
  <1>2. \E j : tab' = [tab EXCEPT ![t].job = j]
    BY Zenon DEF DrainStart, DrainWait, SeeUnsent
  <1>3. SamePage(tab[t], tab'[t])
    BY <1>2, JobPage
  <1> QED BY <1>1, <1>3, SameServer, KeepTab DEF SamePage

LEMMA OthersKeepTexts ==
  ASSUME SaveTyped, LoneInv, KeepInv, NEW t \in Tabs, OtherDelete \/ ChangeRole \/ Rotate \/ ForgetKeys \/ Refuse \/ Admit
  PROVE  KeepInv'
  <1>1. db' = db /\ tab' = tab /\ overlooked' = overlooked /\ discarded' = discarded /\ durable' = durable
    BY Zenon DEF OtherDelete, ChangeRole, Rotate, ForgetKeys, Refuse, Admit
  <1>2. srv \in Servers
    BY ServerFacts
  <1>3. SameHeld(srv, srv')
    <2>1. CASE OtherDelete
      BY <1>2, <2>1 DEF OtherDelete, Servers, SameHeld
    <2>2. CASE ChangeRole
      BY <1>2, <2>2 DEF ChangeRole, Servers, SameHeld
    <2>3. CASE Rotate
      BY <1>2, <2>3 DEF Rotate, Servers, SameHeld
    <2>4. CASE ForgetKeys
      BY <1>2, <2>4 DEF ForgetKeys, Servers, SameHeld
    <2>5. CASE Refuse \/ Admit
      BY <2>5, BarStep DEF SameHeld
    <2> QED BY <2>1, <2>2, <2>3, <2>4, <2>5
  <1> QED BY <1>1, <1>3, KeepTab

(* What a save does to the server's texts. *)
LEMMA SavedTexts ==
  ASSUME SaveTyped, NEW item \in Drafts, NEW s, s = AfterSave(item)
  PROVE  \/ SameHeld(srv, s)
         \/ /\ s.log = srv.log /\ s.copies = srv.copies
            /\ \E e \in Entries : s.conflicts = srv.conflicts \cup {e} /\ s.unresolved = srv.unresolved \cup {e.seal}
         \/ /\ s.copies = srv.copies /\ s.conflicts = srv.conflicts /\ s.unresolved = srv.unresolved /\ item.base = Version
            /\ \E e \in Entries : e.text = item.text /\ s.log = Append(srv.log, e)
  <1> DEFINE a == Answer(item)
             e == [seal |-> item.seal, base |-> item.base, gen |-> item.gen, text |-> item.text]
             fresh == a.code \in {"ok", "version_conflict"} /\ Replayed(item) = {}
  <1>1. e \in Entries /\ e.text = item.text
    BY DEF Drafts, Entries
  <1>2. srv \in Servers
    BY ServerFacts
  <1>3. CASE ~fresh
    <2>1. s = srv
      BY <1>3, Zenon DEF AfterSave
    <2> QED BY <2>1 DEF SameHeld
  <1>4. CASE fresh
    <2>1. PICK conflicts, unresolved, idem, log :
            /\ s = [srv EXCEPT !.idem = idem, !.log = log, !.conflicts = conflicts, !.unresolved = unresolved]
            /\ log = IF a.code = "ok" THEN Append(srv.log, e) ELSE srv.log
            /\ conflicts = IF a.code = "ok" THEN srv.conflicts ELSE srv.conflicts \cup {e}
            /\ unresolved = IF a.code = "ok" THEN srv.unresolved ELSE srv.unresolved \cup {e.seal}
      BY <1>4, Zenon DEF AfterSave
    <2>2. a.code = "ok" => item.base = Version
      <3>1. Replayed(item) = {}
        BY <1>4
      <3> QED BY <3>1 DEF Answer
    <2> HIDE DEF e, a
    <2>3. s.log = log /\ s.conflicts = conflicts /\ s.unresolved = unresolved /\ s.copies = srv.copies
      <3>1. s = [srv EXCEPT !.idem = idem, !.log = log, !.conflicts = conflicts, !.unresolved = unresolved]
        BY <2>1
      <3> QED BY <1>2, <3>1 DEF Servers
    <2> QED BY <1>1, <2>1, <2>2, <2>3
  <1> QED BY <1>3, <1>4

LEMMA RequestPage ==
  ASSUME SaveTyped, LoneInv, NEW t \in Tabs, NEW slot \in Slots, Deliver(t, slot) \/ Lose(t, slot)
  PROVE  slot = "job" /\ SamePage(tab[t], tab'[t])
  <1>1. slot = "job"
    <2>1. tab[t][slot].phase \in {"sent", "answered"}
      BY DEF Deliver, Lose
    <2>2. tab[t].move.phase = "none"
      BY LoneFacts, IdleFields
    <2> QED BY <2>1, <2>2 DEF Slots
  <1>2. tab[t] \in TabStates /\ tab[t].job \in Jobs /\ tab \in [Tabs -> TabStates]
    BY LoneFacts DEF SaveTyped
  <1>3. CASE Lose(t, slot)
    <2>1. tab' = [tab EXCEPT ![t].job.phase = "answered", ![t].job.ans = "network"]
      BY <1>1, <1>3 DEF Lose
    <2> QED BY <1>1, <1>2, <2>1 DEF SamePage, TabStates, Jobs
  <1>4. CASE Deliver(t, slot) /\ tab[t].key # tab[t].job.item.gen
    <2>1. tab' = [tab EXCEPT ![t].job.phase = "answered", ![t].job.ans = "keys"]
      BY <1>1, <1>4 DEF Deliver
    <2> QED BY <1>1, <1>2, <2>1 DEF SamePage, TabStates, Jobs
  <1>5. CASE Deliver(t, slot) /\ tab[t].key = tab[t].job.item.gen
    <2> DEFINE ans == Answer(tab[t].job.item).code
               ver == Answer(tab[t].job.item).ver
    <2>1. tab' = [tab EXCEPT ![t].job.phase = "answered", ![t].job.ans = ans, ![t].job.ver = ver]
      BY <1>1, <1>5 DEF Deliver
    <2> HIDE DEF ans, ver
    <2> QED BY <1>1, <1>2, <2>1 DEF SamePage, TabStates, Jobs
  <1> QED BY <1>3, <1>4, <1>5

(* One more version, with the one before it in it. *)
LEMMA ExtendedKeeps ==
  ASSUME SaveTyped, LoneInv, KeepInv, NEW t \in Tabs, NEW text, Extended(text), HeadText \subseteq text \cup overlooked,
         srv'.copies = srv.copies, srv'.conflicts = srv.conflicts, srv'.unresolved = srv.unresolved,
         db' = db, overlooked' = overlooked, discarded' = discarded, durable' \subseteq durable \cup Kept(srv', db'),
         SamePage(tab[t], tab'[t])
  PROVE  KeepInv'
  <1>1. /\ Version' = Version + 1 /\ HeadText' = text /\ srv'.log[Version + 1].text = text
        /\ \A i \in 1..Version : srv'.log[i] = srv.log[i]
    BY LastOfLonger
  <1>2. Version \in Nat
    BY ServerFacts
  <1>3. VersionsKept'
    <2>1. ASSUME NEW i \in 1..Version' PROVE srv'.log[i].text \subseteq HeadText' \cup overlooked'
      <3>1. CASE i = Version + 1
        BY <1>1, <3>1
      <3>2. CASE i \in 1..Version
        BY <1>1, <3>2 DEF KeepInv, VersionsKept
      <3> QED BY <1>1, <1>2, <2>1, <3>1, <3>2
    <2> QED BY <2>1 DEF VersionsKept
  <1>4. ServerHeld(srv) \subseteq ServerHeld(srv') \cup overlooked'
    BY <1>1 DEF ServerHeld, HeadText, Version
  <1>5. tab'[t].recovering => \E i \in 1..Version' : tab'[t].text = srv'.log[i].text
    <2>1. ASSUME tab'[t].recovering PROVE \E i \in 1..Version' : tab'[t].text = srv'.log[i].text
      <3>1. PICK i \in 1..Version : tab[t].text = srv.log[i].text
        BY <2>1 DEF KeepInv, ReloadShown, SamePage
      <3>2. i \in 1..Version' /\ tab'[t].text = srv'.log[i].text
        BY <1>1, <1>2, <3>1 DEF SamePage
      <3> QED BY <3>2
    <2> QED BY <2>1
  <1>6. tab'[t].open => Drafted(db') \subseteq tab'[t].text \cup overlooked' \cup ServerHeld(srv')
    BY <1>4 DEF KeepInv, PageKept, SamePage
  <1> QED BY <1>3, <1>4, <1>5, <1>6, KeepAgain

LEMMA OtherSaveKeepsTexts ==
  ASSUME SaveTyped, LoneInv, KeepInv, NEW t \in Tabs, OtherSave
  PROVE  KeepInv'
  <1> DEFINE text == HeadText \cup {edits + 1}
             e == [seal |-> 0, base |-> Version, gen |-> srv.gen, text |-> text]
  <1>1. /\ srv' = [srv EXCEPT !.log = Append(srv.log, e)] /\ db' = db /\ tab' = tab /\ overlooked' = overlooked
        /\ discarded' = discarded /\ durable' = durable \cup {edits + 1}
    BY DEF OtherSave
  <1>2. e \in Entries /\ e.text = text
    BY ServerFacts DEF Entries, Texts, SaveTyped
  <1> HIDE DEF e
  <1>3. srv'.log = Append(srv.log, e) /\ srv'.copies = srv.copies /\ srv'.conflicts = srv.conflicts /\ srv'.unresolved = srv.unresolved
    BY <1>1, ServerFacts DEF Servers
  <1>4. Extended(text)
    BY <1>2, <1>3 DEF Extended
  <1>5. edits + 1 \in ServerHeld(srv')
    <2>1. HeadText' = text
      BY <1>4, LastOfLonger
    <2> QED BY <2>1 DEF ServerHeld, HeadText, Version
  <1>6. durable' \subseteq durable \cup Kept(srv', db')
    BY <1>1, <1>5, KeptParts
  <1>7. SamePage(tab[t], tab'[t])
    BY <1>1 DEF SamePage
  <1> QED BY <1>1, <1>3, <1>4, <1>6, <1>7, ExtendedKeeps

LEMMA DeliverKeepsTexts ==
  ASSUME SaveTyped, LoneInv, KeepInv, NEW t \in Tabs, NEW slot \in Slots, Deliver(t, slot) \/ Lose(t, slot)
  PROVE  KeepInv'
  <1> DEFINE item == tab[t].job.item
  <1>1. slot = "job" /\ SamePage(tab[t], tab'[t])
    BY RequestPage
  <1>2. db' = db /\ overlooked' = overlooked /\ discarded' = discarded
    BY Zenon DEF Deliver, Lose
  <1>3. (srv' = srv /\ durable' = durable) \/ (srv' = AfterSave(item) /\ durable' = durable \cup Kept(srv', db))
    BY <1>1, Zenon DEF Deliver, Lose
  <1>4. CASE srv' = srv /\ durable' = durable
    BY <1>1, <1>2, <1>4, SameServer, KeepTab DEF SamePage
  <1>5. CASE srv' = AfterSave(item) /\ durable' = durable \cup Kept(srv', db)
    <2>1. item \in Drafts
      BY LoneFacts
    <2>2. CASE SameHeld(srv, srv')
      <3>1. ServerHeld(srv') = ServerHeld(srv)
        BY <2>2 DEF SameHeld, ServerHeld
      <3>2. durable' = durable \cup Kept(srv, db')
        BY <1>2, <1>5, <3>1, KeptParts
      <3>3. tab'[t].recovering => \E i \in 1..Version : tab'[t].text = srv.log[i].text
        BY <1>1 DEF KeepInv, ReloadShown, SamePage
      <3>4. tab'[t].open => Drafted(db') \subseteq tab'[t].text \cup overlooked' \cup ServerHeld(srv)
        BY <1>1, <1>2 DEF KeepInv, PageKept, SamePage
      <3> QED BY <1>2, <2>2, <3>2, <3>3, <3>4, KeepStore
    <2>3. ASSUME srv'.log = srv.log, srv'.copies = srv.copies,
                 NEW e \in Entries, srv'.conflicts = srv.conflicts \cup {e}, srv'.unresolved = srv.unresolved \cup {e.seal}
          PROVE  KeepInv'
      <3>1. ServerHeld(srv) \subseteq ServerHeld(srv') /\ e.text \subseteq ServerHeld(srv')
        BY <2>3 DEF ServerHeld
      <3>2. Version' = Version /\ HeadText' = HeadText
        BY <2>3 DEF Version, HeadText
      <3>3. VersionsKept'
        BY <1>2, <2>3, <3>2 DEF KeepInv, VersionsKept
      <3>4. tab'[t].recovering => \E i \in 1..Version' : tab'[t].text = srv'.log[i].text
        BY <1>1, <2>3, <3>2 DEF KeepInv, ReloadShown, SamePage
      <3>5. tab'[t].open => Drafted(db') \subseteq tab'[t].text \cup overlooked' \cup ServerHeld(srv')
        BY <1>1, <1>2, <3>1 DEF KeepInv, PageKept, SamePage
      <3> QED BY <1>2, <1>5, <2>3, <3>1, <3>3, <3>4, <3>5, KeepAgain
    <2>4. ASSUME srv'.copies = srv.copies, srv'.conflicts = srv.conflicts, srv'.unresolved = srv.unresolved,
                 item.base = Version, Extended(item.text)
          PROVE  KeepInv'
      <3>1. Seen(Version, item.text, srv.log, overlooked)
        BY <2>4, LoneFacts DEF JobLone
      <3>2. HeadText \subseteq item.text \cup overlooked
        BY <3>1, ServerFacts DEF Seen, HeadText
      <3> QED BY <1>1, <1>2, <1>5, <2>4, <3>2, ExtendedKeeps
    <2> QED BY <1>5, <2>1, <2>2, <2>3, <2>4, SavedTexts DEF Extended
  <1> QED BY <1>3, <1>4, <1>5

(* A rejected version is resolved once it was copied, or shown already. *)
LEMMA RecoverCopyKeepsTexts ==
  ASSUME SaveTyped, LoneInv, KeepInv, NEW w, GoodWorld(w), Fits(w), NEW t \in Tabs, RecoverCopy(t)
  PROVE  KeepInv'
  <1>1. PICK c \in srv.conflicts :
          /\ tab[t].recovering
          /\ tab' = [tab EXCEPT ![t].todo = @ \ {c.seal}]
          /\ srv' = [srv EXCEPT !.unresolved = @ \ {c.seal}, !.copies = IF c.text = tab[t].text THEN @ ELSE @ \cup c.text]
          /\ db' = db /\ durable' = durable /\ discarded' = discarded /\ overlooked' = overlooked
    BY Zenon DEF RecoverCopy
  <1> DEFINE copies == IF c.text = tab[t].text THEN srv.copies ELSE srv.copies \cup c.text
  <1>2. srv'.log = srv.log /\ srv'.conflicts = srv.conflicts /\ srv'.unresolved = srv.unresolved \ {c.seal} /\ srv'.copies = copies
    <2>1. srv' = [srv EXCEPT !.unresolved = srv.unresolved \ {c.seal}, !.copies = copies]
      BY <1>1
    <2> HIDE DEF copies
    <2> QED BY <2>1, ServerFacts DEF Servers
  <1>3. SamePage(tab[t], tab'[t])
    <2>1. tab'[t] = [tab[t] EXCEPT !.todo = tab[t].todo \ {c.seal}]
      BY <1>1 DEF SaveTyped
    <2> QED BY <2>1, LoneFacts DEF SamePage, TabStates
  <1>4. Version' = Version /\ HeadText' = HeadText
    BY <1>2 DEF Version, HeadText
  <1>5. \A d \in srv.conflicts : d.seal = c.seal => d.text = c.text
    BY WorldFacts DEF RecordsSealed, Fits
  <1>6. c.text \subseteq ServerHeld(srv') \cup overlooked
    <2>1. CASE c.text = tab[t].text
      <3>1. PICK i \in 1..Version : tab[t].text = srv.log[i].text
        BY <1>1 DEF KeepInv, ReloadShown
      <3>2. c.text \subseteq HeadText \cup overlooked
        BY <2>1, <3>1 DEF KeepInv, VersionsKept
      <3> QED BY <1>2, <3>2 DEF ServerHeld, HeadText, Version
    <2>2. CASE c.text # tab[t].text
      BY <1>2, <2>2 DEF ServerHeld
    <2> QED BY <2>1, <2>2
  <1>7. ServerHeld(srv) \subseteq ServerHeld(srv') \cup overlooked
    <2>1. ASSUME NEW d \in srv.conflicts, d.seal \in srv.unresolved PROVE d.text \subseteq ServerHeld(srv') \cup overlooked
      <3>1. CASE d.seal = c.seal
        BY <1>5, <1>6, <3>1
      <3>2. CASE d.seal # c.seal
        BY <1>2, <2>1, <3>2 DEF ServerHeld
      <3> QED BY <3>1, <3>2
    <2>2. HeadText \cup srv.copies \subseteq ServerHeld(srv')
      BY <1>2 DEF ServerHeld, HeadText, Version
    <2> QED BY <2>1, <2>2 DEF ServerHeld, HeadText, Version
  <1>8. VersionsKept'
    BY <1>1, <1>2, <1>4 DEF KeepInv, VersionsKept
  <1>9. tab'[t].recovering => \E i \in 1..Version' : tab'[t].text = srv'.log[i].text
    BY <1>2, <1>3, <1>4 DEF KeepInv, ReloadShown, SamePage
  <1>10. tab'[t].open => Drafted(db') \subseteq tab'[t].text \cup overlooked' \cup ServerHeld(srv')
    BY <1>1, <1>3, <1>7 DEF KeepInv, PageKept, SamePage
  <1> QED BY <1>1, <1>2, <1>7, <1>8, <1>9, <1>10, KeepAgain

(* What storage.ts leaves of the drafts' texts. *)
LEMMA StoredFacts ==
  ASSUME SaveTyped, NEW w, GoodWorld(w), Fits(w)
  PROVE  /\ db \in Stores /\ db.cache \in Drafts /\ db.pending \in Drafts /\ SealOK(db.cache, w) /\ SealOK(db.pending, w)
         /\ db.cache.unsent \in BOOLEAN /\ (db.cache.unsent => Has(db.cache)) /\ (~Has(db.pending) => db.pending.text = {})
  <1>1. /\ db \in Stores /\ db.cache \in Drafts /\ db.pending \in Drafts /\ SealOK(db.cache, w) /\ SealOK(db.pending, w)
        /\ (db.cache.unsent => Has(db.cache))
    BY FitsStore DEF StoreOK, DraftOK, CacheOK
  <1>2. db.cache.unsent \in BOOLEAN /\ db.pending.seal \in Nat /\ db.pending.text = w.of[db.pending.seal] /\ w.of[0] = {}
    BY <1>1, WorldFacts DEF Drafts, SealOK
  <1>3. ~Has(db.pending) => db.pending.text = {}
    BY <1>2 DEF Has
  <1> QED BY <1>1, <1>2, <1>3

LEMMA SettledTexts ==
  ASSUME SaveTyped, NEW w, GoodWorld(w), Fits(w), NEW item, SealOK(item, w), NEW ver, NEW s, s = AfterSettle(item, ver)
  PROVE  Drafted(s) \subseteq Drafted(db) /\ Drafted(db) \subseteq Drafted(s) \cup item.text
  <1>1. /\ SameDraft(db.pending, item) => db.pending.text = item.text
        /\ SameDraft(db.cache, item) => db.cache.text = item.text
    BY StoredFacts, SameText
  <1>2. s.pending = IF SameDraft(db.pending, item) THEN NoDraft ELSE db.pending
    BY DEF AfterSettle
  <1>3. s.cache = IF ~SameDraft(db.cache, item) THEN db.cache
                  ELSE IF ver = 0 THEN NoDraft ELSE [db.cache EXCEPT !.unsent = FALSE, !.base = ver]
    BY DEF AfterSettle
  <1>4. s.pending = db.pending \/ (s.pending.text = {} /\ db.pending.text = item.text)
    BY <1>1, <1>2, NoDraftFields
  <1>5. s.cache = db.cache \/ (~s.cache.unsent /\ db.cache.text = item.text)
    <2>1. CASE SameDraft(db.cache, item) /\ ver # 0
      <3>1. s.cache = [db.cache EXCEPT !.unsent = FALSE, !.base = ver]
        BY <1>3, <2>1
      <3>2. ~s.cache.unsent
        BY <3>1, StoredFacts DEF Drafts
      <3> QED BY <1>1, <2>1, <3>2
    <2> QED BY <1>1, <1>3, <2>1, NoDraftFields
  <1> QED BY <1>4, <1>5 DEF Drafted

LEMMA ReplacedTexts ==
  ASSUME SaveTyped, NEW w, GoodWorld(w), Fits(w), NEW item, SealOK(item, w), NEW next \in Drafts, next.text = item.text,
         NEW s, s = AfterReplace(item, next)
  PROVE  Drafted(s) = Drafted(db)
  <1>1. CASE ~SameDraft(db.pending, item)
    BY <1>1 DEF AfterReplace
  <1>2. CASE SameDraft(db.pending, item)
    <2> DEFINE u == db.cache.unsent
               c == [next EXCEPT !.unsent = u]
    <2>1. db.pending.text = item.text /\ (SameDraft(db.cache, item) => db.cache.text = item.text)
      BY <1>2, StoredFacts, SameText
    <2>2. s = [pending |-> next, cache |-> IF Has(next) /\ SameDraft(db.cache, item) THEN c ELSE db.cache]
      BY <1>2 DEF AfterReplace
    <2>3. u \in BOOLEAN
      BY StoredFacts
    <2> HIDE DEF u
    <2>4. c.text = next.text /\ c.unsent = u
      BY <2>3 DEF Drafts
    <2> HIDE DEF c
    <2>5. s.pending.text = db.pending.text /\ s.cache.unsent = db.cache.unsent /\ s.cache.text = db.cache.text
      BY <2>1, <2>2, <2>4 DEF u
    <2> QED BY <2>5 DEF Drafted
  <1> QED BY <1>1, <1>2

(* The queue is behind the cache, or is kept by the server. *)
LEMMA PendingKept ==
  ASSUME SaveTyped, LoneInv, KeepInv, NEW t \in Tabs, NEW w, GoodWorld(w), Fits(w), Has(db.cache)
  PROVE  db.pending.text \subseteq db.cache.text \cup overlooked \cup ServerHeld(srv)
  <1>1. CASE ~Has(db.pending)
    BY <1>1, StoredFacts
  <1>2. CASE Has(db.pending) /\ Clear(db.pending)
    BY <1>2, LoneFacts DEF Shelf
  <1>3. CASE ~Clear(db.pending)
    <2>1. Recorded(db.pending.text, w)
      BY <1>3, StoredFacts DEF SealOK, Clear
    <2> QED BY <2>1, FiledKept
  <1> QED BY <1>1, <1>2, <1>3

(* Steps that only take drafts out of the store which the server has. *)
LEMMA ShrunkKeeps ==
  ASSUME LoneInv, KeepInv, NEW t \in Tabs, srv' = srv, overlooked' = overlooked, discarded' = discarded,
         durable' = durable \/ durable' = durable \cup Kept(srv, db'),
         Drafted(db') \subseteq Drafted(db), Drafted(db) \subseteq Drafted(db') \cup ServerHeld(srv) \cup overlooked,
         tab'[t].open = tab[t].open, tab'[t].text = tab[t].text, tab'[t].recovering => tab[t].recovering
  PROVE  KeepInv'
  <1>1. tab'[t].recovering => \E i \in 1..Version : tab'[t].text = srv.log[i].text
    BY DEF KeepInv, ReloadShown
  <1>2. tab'[t].open => Drafted(db') \subseteq tab'[t].text \cup overlooked' \cup ServerHeld(srv)
    BY DEF KeepInv, PageKept
  <1> QED BY <1>1, <1>2, SameServer, KeepStore

LEMMA RecoverReloadKeepsTexts ==
  ASSUME SaveTyped, LoneInv, KeepInv, NEW w, GoodWorld(w), Fits(w), NEW t \in Tabs, RecoverReload(t)
  PROVE  KeepInv'
  <1>1. /\ srv' = srv /\ db' = db /\ durable' = durable /\ discarded' = discarded
        /\ overlooked' = overlooked \cup
             UNION {d.text : d \in {d \in {db.pending, db.cache} :
                                      "conflicted" \notin d.marks /\ ~SameDraft(d, tab[t].held)}}
    BY DEF RecoverReload
  <1>2. tab'[t].text = HeadText
    <2>1. PICK j : tab' = [tab EXCEPT ![t].recovering = TRUE, ![t].text = HeadText, ![t].base = Version,
                             ![t].dirty = FALSE, ![t].flushed = TRUE, ![t].todo = srv.unresolved, ![t].failed = FALSE,
                             ![t].job = j]
      BY Zenon DEF RecoverReload
    <2> QED BY <2>1, LoneFacts DEF SaveTyped, TabStates
  <1>3. ASSUME NEW d \in {db.pending, db.cache} PROVE d.text \subseteq overlooked' \cup ServerHeld(srv)
    <2>1. CASE Clear(d)
      <3>1. ~SameDraft(d, tab[t].held)
        BY <1>3, <2>1, LoneFacts DEF HeldLone
      <3> QED BY <1>1, <1>3, <2>1, <3>1, Zenon DEF Clear
    <2>2. CASE ~Clear(d)
      <3>1. Recorded(d.text, w)
        BY <1>3, <2>2, StoredFacts DEF SealOK, Clear
      <3> QED BY <1>1, <3>1, FiledKept
    <2> QED BY <2>1, <2>2
  <1>4. Drafted(db) \subseteq overlooked' \cup ServerHeld(srv)
    BY <1>3 DEF Drafted
  <1>5. Version \in 1..Version /\ tab'[t].text = srv.log[Version].text
    BY <1>2, ServerFacts DEF HeadText
  <1> QED BY <1>1, <1>4, <1>5, SameServer, KeepStore

LEMMA RecoverEndKeepsTexts ==
  ASSUME SaveTyped, LoneInv, KeepInv, NEW w, GoodWorld(w), Fits(w), NEW t \in Tabs, RecoverEnd(t)
  PROVE  KeepInv'
  <1> DEFINE entry == tab[t].job.item
             x == tab[t]
  <1>1. /\ db' = db \/ (Has(entry) /\ db' = AfterSettle(entry, 0))
        /\ srv' = srv /\ overlooked' = overlooked /\ discarded' = discarded /\ durable' = durable /\ x.recovering
    BY Zenon DEF RecoverEnd
  <1>2. PICK held, conflicted :
          tab' = [tab EXCEPT ![t].recovering = FALSE, ![t].failed = FALSE, ![t].job = Idle,
                             ![t].held = held, ![t].conflicted = conflicted]
    BY Zenon DEF RecoverEnd
  <1>3. tab'[t].open = x.open /\ tab'[t].text = x.text /\ ~tab'[t].recovering
    BY <1>2, LoneFacts DEF SaveTyped, TabStates
  <1>4. SealOK(entry, w) /\ (Has(entry) => Recorded(entry.text, w))
    BY <1>1, TabFacts DEF TabOK, JobOK, DraftOK, SealOK
  <1>5. Has(entry) => entry.text \subseteq ServerHeld(srv) \cup overlooked
    BY <1>4, FiledKept
  <1>6. Drafted(db') \subseteq Drafted(db) /\ Drafted(db) \subseteq Drafted(db') \cup ServerHeld(srv) \cup overlooked
    <2>1. CASE db' = db
      BY <2>1
    <2>2. CASE Has(entry) /\ db' = AfterSettle(entry, 0)
      BY <1>4, <1>5, <2>2, SettledTexts
    <2> QED BY <1>1, <2>1, <2>2
  <1> QED BY <1>1, <1>3, <1>6, ShrunkKeeps

LEMMA RemovePageKeepsTexts ==
  ASSUME SaveTyped, LoneInv, KeepInv, NEW t \in Tabs, RemovePage(t)
  PROVE  KeepInv'
  <1>1. /\ srv' = [srv EXCEPT !.gone = TRUE] /\ db' = [db EXCEPT !.cache = NoDraft] /\ overlooked' = overlooked
        /\ durable' = durable /\ discarded' = discarded \cup db.cache.text \cup tab[t].text /\ ~tab[t].recovering
    BY DEF RemovePage
  <1>2. tab'[t] = [tab[t] EXCEPT !.open = FALSE, !.listed = FALSE, !.dirty = FALSE]
    BY DEF RemovePage, SaveTyped
  <1>3. ~tab'[t].open /\ ~tab'[t].recovering
    BY <1>1, <1>2, LoneFacts DEF TabStates
  <1>4. SameHeld(srv, srv')
    BY <1>1, ServerFacts DEF Servers, SameHeld
  <1>5. db'.pending = db.pending
    BY <1>1, LoneFacts DEF Stores
  <1>6. Drafted(db) \subseteq Drafted(db') \cup ServerHeld(srv) \cup discarded' \cup overlooked'
    BY <1>1, <1>5 DEF Drafted
  <1> QED BY <1>1, <1>3, <1>4, <1>6, KeepStore

LEMMA DiscardKeepsTexts ==
  ASSUME SaveTyped, LoneInv, KeepInv, NEW w, GoodWorld(w), Fits(w), NEW t \in Tabs, Discard(t)
  PROVE  KeepInv'
  <1> DEFINE item == tab[t].job.item
             same == SameDraft(db.pending, item) /\ Unsendable(db.pending)
  <1>1. /\ db' = IF same THEN [cache |-> NoDraft, pending |-> NoDraft] ELSE db
        /\ discarded' = IF same THEN discarded \cup item.text \cup db.cache.text ELSE discarded
        /\ tab' = [tab EXCEPT ![t].job = Idle] /\ srv' = srv /\ overlooked' = overlooked /\ durable' = durable
    BY DEF Discard
  <1>2. SamePage(tab[t], tab'[t])
    BY <1>1, JobPage
  <1>3. CASE ~same
    BY <1>1, <1>2, <1>3, SameServer, KeepTab DEF SamePage
  <1>4. CASE same
    <2>1. db'.pending = NoDraft /\ db'.cache = NoDraft
      BY <1>1, <1>4
    <2>2. db.pending.text = item.text
      <3>1. SealOK(item, w)
        BY TabFacts DEF JobOK, DraftOK
      <3> QED BY <1>4, <3>1, StoredFacts, SameText
    <2>3. Drafted(db') = {}
      BY <2>1, NoDraftFields DEF Drafted
    <2>4. Drafted(db) \subseteq discarded' /\ discarded \subseteq discarded'
      BY <1>1, <1>4, <2>2 DEF Drafted
    <2>5. tab'[t].recovering => \E i \in 1..Version : tab'[t].text = srv.log[i].text
      BY <1>2 DEF KeepInv, ReloadShown, SamePage
    <2> QED BY <1>1, <2>3, <2>4, <2>5, SameServer, KeepStore
  <1> QED BY <1>3, <1>4

LEMMA CarriedPage ==
  ASSUME NEW x \in TabStates, NEW ver \in Nat, NEW y, y = Carried(x, ver)
  PROVE  SamePage(x, y) /\ y \in TabStates
  <1> DEFINE b == IF x.listed THEN Higher(x.base, ver) ELSE x.base
             c == IF x.load.on THEN ver ELSE x.load.carried
             ld == [x.load EXCEPT !.carried = c]
  <1>1. y = [x EXCEPT !.base = b, !.load = ld]
    BY DEF Carried, TabStates
  <1> HIDE DEF b, ld
  <1> QED BY <1>1, CarriedFields DEF SamePage, TabStates

LEMMA AnsweredKeepsTexts ==
  ASSUME SaveTyped, LoneInv, KeepInv, NEW w, GoodWorld(w), Fits(w), NEW t \in Tabs, NEW slot \in Slots, Answered(t, slot)
  PROVE  KeepInv'
  <1> DEFINE x == tab[t]
             j == x.job
             item == j.item
             same == x.text = item.text
             queued == IF j.ans = "not_found" /\ j.kind = "save" THEN Marked(item, "gone") ELSE item
  <1>1. slot = "job" /\ j.kind = "save" /\ x \in TabStates /\ tab \in [Tabs -> TabStates] /\ j.ver \in Nat
    <2>1. x[slot].kind \in {"save", "move"} /\ x[slot].phase = "answered"
      BY DEF Answered
    <2>2. x.move.kind = "idle"
      BY LoneFacts, IdleFields
    <2>3. slot = "job"
      BY <2>1, <2>2 DEF Slots
    <2>4. j.kind = "save" /\ j.ver \in Nat
      BY <2>1, <2>3, LoneFacts DEF JobLone, Jobs
    <2> QED BY <2>1, <2>3, <2>4 DEF SaveTyped
  <1>2. srv' = srv /\ discarded' = discarded /\ overlooked' = overlooked /\ durable' = durable \cup Kept(srv, db')
    BY DEF Answered, Remember
  <1>3. PICK kept \in BOOLEAN : Stored(kept) /\
          CASE j.ans = "ok" ->
                 /\ db' = IF kept THEN AfterSettle(item, j.ver) ELSE db
                 /\ tab' = [tab EXCEPT ![t] = [Carried(x, j.ver) EXCEPT !.job = Idle,
                         !.held = NoDraft, !.conflicted = x.conflicted /\ j.kind = "move",
                         !.dirty = x.dirty /\ (j.kind = "move" \/ ~same),
                         !.flushed = IF j.kind = "save" THEN same ELSE x.flushed]]
            [] j.ans = "version_conflict" ->
                 /\ db' = IF kept THEN AfterReplace(item, Marked(item, "conflicted")) ELSE db
                 /\ tab' = [tab EXCEPT ![t].job = Idle, ![t].held = item, ![t].conflicted = TRUE,
                               ![t].flushed = IF j.kind = "save" THEN same ELSE @]
            [] OTHER -> /\ db' = IF kept THEN [db EXCEPT !.pending = queued] ELSE db
                        /\ tab' = [tab EXCEPT ![t].job = Idle,
                                     ![t].flushed = IF j.kind = "save" THEN same /\ kept ELSE @]
    BY <1>1 DEF Answered
  <1>4. kept
    BY <1>3, NoStorageFault DEF LoneInv
  <1>5. item \in Drafts /\ SealOK(item, w) /\ db.pending = item /\ (j.ans = "ok" => InLog(j.ver, item.text, w))
    BY <1>1, TabFacts, LoneFacts DEF JobLone, JobOK, DraftOK
  <1>6. CASE j.ans = "ok"
    <2> DEFINE y == Carried(x, j.ver)
               a == x.conflicted /\ j.kind = "move"
               b == x.dirty /\ (j.kind = "move" \/ ~same)
               c == IF j.kind = "save" THEN same ELSE x.flushed
    <2>1. db' = AfterSettle(item, j.ver)
          /\ tab' = [tab EXCEPT ![t] = [y EXCEPT !.job = Idle, !.held = NoDraft, !.conflicted = a, !.dirty = b, !.flushed = c]]
      BY <1>3, <1>4, <1>6
    <2>2. SamePage(x, y) /\ y \in TabStates
      BY <1>1, CarriedPage
    <2>3. tab'[t] = [y EXCEPT !.job = Idle, !.held = NoDraft, !.conflicted = a, !.dirty = b, !.flushed = c]
      BY <1>1, <2>1
    <2> HIDE DEF a, b, c, y
    <2>4. SamePage(x, tab'[t])
      BY <2>2, <2>3 DEF SamePage, TabStates
    <2>5. item.text \subseteq ServerHeld(srv) \cup overlooked
      BY <1>5, <1>6, FiledKept
    <2>6. Drafted(db') \subseteq Drafted(db) /\ Drafted(db) \subseteq Drafted(db') \cup item.text
      BY <1>5, <2>1, SettledTexts
    <2> QED BY <1>2, <2>4, <2>5, <2>6, ShrunkKeeps DEF SamePage
  <1>7. CASE j.ans = "version_conflict"
    <2> DEFINE c == IF j.kind = "save" THEN same ELSE x.flushed
               next == Marked(item, "conflicted")
    <2>1. db' = AfterReplace(item, next)
          /\ tab' = [tab EXCEPT ![t].job = Idle, ![t].held = item, ![t].conflicted = TRUE,
                               ![t].flushed = IF j.kind = "save" THEN same ELSE @]
      BY <1>3, <1>4, <1>7
    <2>2. tab'[t] = [x EXCEPT !.job = Idle, !.held = item, !.conflicted = TRUE, !.flushed = c]
      BY <1>1, <2>1
    <2>3. next \in Drafts /\ next.text = item.text
      BY <1>5, MarkedFields
    <2> HIDE DEF c, item, next
    <2>4. SamePage(x, tab'[t])
      BY <1>1, <2>2 DEF SamePage, TabStates
    <2>5. Drafted(db') = Drafted(db)
      BY <1>5, <2>1, <2>3, ReplacedTexts
    <2> QED BY <1>2, <2>4, <2>5, ShrunkKeeps DEF SamePage
  <1>8. CASE j.ans \notin {"ok", "version_conflict"}
    <2> DEFINE c == IF j.kind = "save" THEN same /\ kept ELSE x.flushed
    <2>1. db' = [db EXCEPT !.pending = queued]
          /\ tab' = [tab EXCEPT ![t].job = Idle, ![t].flushed = IF j.kind = "save" THEN same /\ kept ELSE @]
      BY <1>3, <1>4, <1>8
    <2>2. tab'[t] = [x EXCEPT !.job = Idle, !.flushed = c]
      BY <1>1, <2>1
    <2>3. queued.text = item.text
      BY <1>5, MarkedFields
    <2> HIDE DEF c, queued
    <2>4. SamePage(x, tab'[t])
      BY <1>1, <2>2 DEF SamePage, TabStates
    <2>5. db'.pending = queued /\ db'.cache = db.cache
      BY <2>1, LoneFacts DEF Stores
    <2>6. Drafted(db') = Drafted(db)
      BY <1>5, <2>3, <2>5 DEF Drafted
    <2> QED BY <1>2, <2>4, <2>6, ShrunkKeeps DEF SamePage
  <1> QED BY <1>6, <1>7, <1>8

LEMMA DrainAnsweredKeepsTexts ==
  ASSUME SaveTyped, LoneInv, KeepInv, NEW w, GoodWorld(w), Fits(w), NEW t \in Tabs, DrainAnswered(t)
  PROVE  KeepInv'
  <1> DEFINE x == tab[t]
             j == x.job
             item == j.item
  <1>1. x \in TabStates /\ tab \in [Tabs -> TabStates] /\ j.ver \in Nat
    BY LoneFacts DEF SaveTyped, Jobs
  <1>2. srv' = srv /\ discarded' = discarded /\ overlooked' = overlooked /\ durable' = durable
    BY DEF DrainAnswered
  <1>3. item \in Drafts /\ SealOK(item, w) /\ (j.ans = "ok" => InLog(j.ver, item.text, w))
    BY TabFacts, LoneFacts DEF JobOK, DraftOK
  <1>4. CASE j.ans = "ok"
    <2> DEFINE y == Carried(x, j.ver)
    <2>1. db' = AfterSettle(item, j.ver) /\ tab' = [tab EXCEPT ![t] = [Carried(@, j.ver) EXCEPT !.job = Idle], ![t].held = NoDraft]
      BY <1>4 DEF DrainAnswered
    <2>2. SamePage(x, y) /\ y \in TabStates
      BY <1>1, CarriedPage
    <2>3. tab'[t] = [y EXCEPT !.job = Idle, !.held = NoDraft]
      BY <1>1, <2>1
    <2> HIDE DEF y
    <2>4. SamePage(x, tab'[t])
      BY <2>2, <2>3 DEF SamePage, TabStates
    <2>5. item.text \subseteq ServerHeld(srv) \cup overlooked
      BY <1>3, <1>4, FiledKept
    <2>6. Drafted(db') \subseteq Drafted(db) /\ Drafted(db) \subseteq Drafted(db') \cup item.text
      BY <1>3, <2>1, SettledTexts
    <2> QED BY <1>2, <2>4, <2>5, <2>6, ShrunkKeeps DEF SamePage
  <1>5. CASE j.ans \in {"version_conflict", "not_found", "forbidden"}
    <2>1. \E mark \in {"conflicted", "gone"} : \E held, conflicted :
            /\ db' = AfterReplace(item, Marked(item, mark))
            /\ tab' = [tab EXCEPT ![t].job = Idle, ![t].held = held, ![t].conflicted = conflicted]
      <3>1. CASE j.ans = "version_conflict"
        <4>1. db' = AfterReplace(item, Marked(item, "conflicted"))
              /\ tab' = [tab EXCEPT ![t].job = Idle, ![t].held = item, ![t].conflicted = TRUE]
          BY <3>1 DEF DrainAnswered
        <4> QED BY <4>1, Zenon
      <3>2. CASE j.ans \in {"not_found", "forbidden"}
        <4>1. db' = AfterReplace(item, Marked(item, "gone")) /\ tab' = [tab EXCEPT ![t].job = Idle]
          BY <3>2 DEF DrainAnswered
        <4>2. tab' = [tab EXCEPT ![t].job = Idle, ![t].held = x.held, ![t].conflicted = x.conflicted]
          BY <1>1, <4>1 DEF TabStates
        <4> QED BY <4>1, <4>2, Zenon
      <3> QED BY <1>5, <3>1, <3>2
    <2>a. PICK mark \in {"conflicted", "gone"} : \E held, conflicted :
            /\ db' = AfterReplace(item, Marked(item, mark))
            /\ tab' = [tab EXCEPT ![t].job = Idle, ![t].held = held, ![t].conflicted = conflicted]
      BY <2>1, Zenon
    <2>b. PICK held, conflicted :
            /\ db' = AfterReplace(item, Marked(item, mark))
            /\ tab' = [tab EXCEPT ![t].job = Idle, ![t].held = held, ![t].conflicted = conflicted]
      BY <2>a, Zenon
    <2> DEFINE next == Marked(item, mark)
    <2>2. tab'[t] = [x EXCEPT !.job = Idle, !.held = held, !.conflicted = conflicted]
      BY <1>1, <2>a, <2>b
    <2>3. next \in Drafts /\ next.text = item.text
      BY <1>3, <2>a, <2>b, MarkedFields
    <2>4. SamePage(x, tab'[t])
      BY <1>1, <2>2 DEF SamePage, TabStates
    <2>5. db' = AfterReplace(item, next)
      BY <2>a, <2>b
    <2> HIDE DEF item, next
    <2>6. Drafted(db') = Drafted(db)
      BY <1>3, <2>3, <2>5, ReplacedTexts
    <2> QED BY <1>2, <2>4, <2>6, ShrunkKeeps DEF SamePage
  <1>6. CASE j.ans \notin {"ok", "version_conflict", "not_found", "forbidden"}
    <2>1. db' = db /\ tab' = [tab EXCEPT ![t].job = Idle]
      BY <1>6 DEF DrainAnswered
    <2>2. SamePage(x, tab'[t])
      BY <2>1, JobPage
    <2> QED BY <1>2, <2>1, <2>2, SameServer, KeepTab DEF SamePage
  <1> QED BY <1>4, <1>5, <1>6

LEMMA DrainSendKeepsTexts ==
  ASSUME SaveTyped, LoneInv, KeepInv, NEW w, GoodWorld(w), Fits(w), NEW t \in Tabs, DrainSend(t)
  PROVE  KeepInv'
  <1> DEFINE item == tab[t].job.item
             next == IF item.gen = srv.gen THEN item ELSE Resealed(item)
  <1>1. /\ srv' = srv /\ discarded' = discarded /\ overlooked' = overlooked /\ durable' = durable
        /\ db' = IF next = item THEN db ELSE AfterReplace(item, next)
        /\ \E j : tab' = [tab EXCEPT ![t].key = srv.gen, ![t].job = j]
    BY Zenon DEF DrainSend
  <1>2. item \in Drafts /\ SealOK(item, w) /\ clock + 1 \in Nat /\ srv.gen \in Nat
    BY TabFacts, LoneFacts, ServerFacts DEF JobOK, DraftOK
  <1>3. next \in Drafts /\ next.text = item.text
    <2>1. CASE item.gen = srv.gen
      BY <1>2, <2>1
    <2>2. CASE item.gen # srv.gen
      <3>1. next = [item EXCEPT !.seal = clock + 1, !.gen = srv.gen]
        BY <2>2 DEF Resealed
      <3> HIDE DEF next, item
      <3> QED BY <1>2, <3>1 DEF Drafts
    <2> QED BY <2>1, <2>2
  <1> HIDE DEF next
  <1>4. SamePage(tab[t], tab'[t])
    <2>1. PICK j : tab' = [tab EXCEPT ![t].key = srv.gen, ![t].job = j]
      BY <1>1
    <2>2. tab'[t] = [tab[t] EXCEPT !.key = srv.gen, !.job = j]
      BY <2>1 DEF SaveTyped
    <2> QED BY <2>2, LoneFacts DEF SamePage, TabStates
  <1>5. Drafted(db') = Drafted(db)
    <2>1. CASE db' = AfterReplace(item, next)
      BY <1>2, <1>3, <2>1, ReplacedTexts
    <2> QED BY <1>1, <2>1
  <1> QED BY <1>1, <1>4, <1>5, ShrunkKeeps DEF SamePage

LEMMA ResetIdentityKeepsTexts ==
  ASSUME SaveTyped, LoneInv, KeepInv, NEW w, GoodWorld(w), Fits(w), NEW t \in Tabs, ResetIdentity
  PROVE  KeepInv'
  <1> DEFINE item == db.pending
             m == Marked(item, "previousKey")
             next == [m EXCEPT !.seal = clock + 1]
  <1>1. /\ db' = AfterReplace(item, next) /\ srv' = srv /\ tab' = tab /\ overlooked' = overlooked
        /\ discarded' = discarded /\ durable' = durable
    BY DEF ResetIdentity
  <1>2. item \in Drafts /\ SealOK(item, w) /\ clock + 1 \in Nat
    BY StoredFacts, LoneFacts
  <1>3. m \in Drafts /\ m.text = item.text
    BY <1>2, MarkedFields
  <1> HIDE DEF m
  <1>4. next \in Drafts /\ next.text = item.text
    BY <1>2, <1>3 DEF Drafts
  <1> HIDE DEF next
  <1>5. Drafted(db') = Drafted(db)
    BY <1>1, <1>2, <1>4, ReplacedTexts
  <1> QED BY <1>1, <1>5, ShrunkKeeps

(* A draft written from the open page holds what the drafts before it held. *)
LEMMA WrittenKeeps ==
  ASSUME LoneInv, KeepInv, NEW t \in Tabs, tab[t].open, srv' = srv, overlooked' = overlooked, discarded' = discarded,
         durable' = durable \cup Kept(srv, db'),
         tab[t].text \subseteq tab'[t].text, tab'[t].recovering => tab[t].recovering /\ tab'[t].text = tab[t].text,
         tab'[t].text \subseteq Drafted(db'), Drafted(db') \subseteq Drafted(db) \cup tab'[t].text
  PROVE  KeepInv'
  <1>1. Drafted(db) \subseteq tab[t].text \cup overlooked \cup ServerHeld(srv)
    BY DEF KeepInv, PageKept
  <1>2. tab'[t].recovering => \E i \in 1..Version : tab'[t].text = srv.log[i].text
    BY DEF KeepInv, ReloadShown
  <1>3. Drafted(db) \subseteq Drafted(db') \cup ServerHeld(srv) \cup discarded' \cup overlooked'
    BY <1>1
  <1>4. Drafted(db') \subseteq tab'[t].text \cup overlooked' \cup ServerHeld(srv)
    BY <1>1
  <1> QED BY <1>2, <1>3, <1>4, SameServer, KeepStore

LEMMA EditOpenKeepsTexts ==
  ASSUME SaveTyped, LoneInv, KeepInv, NEW w, GoodWorld(w), Fits(w), NEW t \in Tabs, EditOpen(t)
  PROVE  KeepInv'
  <1> DEFINE x == tab[t]
             text == x.text \cup {edits + 1}
             item == Prepared(text, x.base, x.key)
             c == [item EXCEPT !.unsent = TRUE]
  <1>1. text \in Texts /\ x.base \in Nat /\ x.key \in Nat
    BY TabFacts DEF Texts, SaveTyped
  <1>2. /\ srv' = srv /\ overlooked' = overlooked /\ discarded' = discarded /\ durable' = durable \cup Kept(srv, db')
        /\ x.open /\ ~x.recovering
        /\ tab' = [tab EXCEPT ![t].text = text, ![t].dirty = TRUE, ![t].flushed = FALSE]
    BY Zenon DEF EditOpen, Remember
  <1>3. db' = [db EXCEPT !.cache = c]
    <2>1. PICK kept \in BOOLEAN : Stored(kept) /\ db' = IF kept THEN [db EXCEPT !.cache = c] ELSE db
      BY DEF EditOpen
    <2>2. kept
      BY <2>1, NoStorageFault DEF LoneInv
    <2> QED BY <2>1, <2>2
  <1>4. x.text \subseteq text
    OBVIOUS
  <1>5. item \in Drafts /\ item.text = text
    <2>1. PreparedFor(item, text, x.base, x.key)
      BY <1>1, PreparedLone
    <2> HIDE DEF item
    <2> QED BY <2>1 DEF PreparedFor
  <1> HIDE DEF text, item
  <1>6. c.text = text /\ c.unsent
    BY <1>5 DEF Drafts
  <1> HIDE DEF c
  <1>7. db'.cache = c /\ db'.pending = db.pending
    BY <1>3, LoneFacts DEF Stores
  <1>8. tab'[t].text = text /\ ~tab'[t].recovering
    <2>1. tab'[t] = [x EXCEPT !.text = text, !.dirty = TRUE, !.flushed = FALSE]
      BY <1>2 DEF SaveTyped
    <2>2. x \in TabStates /\ ~x.recovering
      BY <1>2, LoneFacts
    <2> QED BY <2>1, <2>2 DEF TabStates
  <1>9. text \subseteq Drafted(db') /\ Drafted(db') \subseteq Drafted(db) \cup text
    BY <1>6, <1>7 DEF Drafted
  <1> QED BY <1>2, <1>4, <1>8, <1>9, WrittenKeeps

LEMMA SaveStartKeepsTexts ==
  ASSUME SaveTyped, LoneInv, KeepInv, NEW w, GoodWorld(w), Fits(w), NEW t \in Tabs, SaveStart(t)
  PROVE  KeepInv'
  <1> DEFINE x == tab[t]
             item == Prepared(x.text, x.base, x.key)
             c == [item EXCEPT !.unsent = TRUE]
  <1>1. x.base \in Nat /\ x.key \in Nat /\ x.text \in Texts
    BY TabFacts
  <1>2. /\ srv' = srv /\ overlooked' = overlooked /\ discarded' = discarded /\ durable' = durable \cup Kept(srv, db') /\ x.open
    BY Zenon DEF SaveStart, Remember
  <1>3. PICK kept \in BOOLEAN :
          /\ Stored(kept)
          /\ IF item.gen = 0
             THEN /\ db' = IF kept THEN [AfterPutDraft(item) EXCEPT !.pending.marks = {}] ELSE db
                  /\ tab' = [tab EXCEPT ![t].flushed = kept]
             ELSE /\ db' = IF kept THEN AfterPutDraft(item) ELSE db
                  /\ tab' = [tab EXCEPT ![t].job = Sending("save", item)]
    BY DEF SaveStart
  <1>4. kept
    BY <1>3, NoStorageFault DEF LoneInv
  <1>5. item \in Drafts /\ item.text = x.text
    <2>1. PreparedFor(item, x.text, x.base, x.key)
      BY <1>1, PreparedLone
    <2> HIDE DEF item
    <2> QED BY <2>1 DEF PreparedFor
  <1> HIDE DEF item
  <1>6. c.text = item.text /\ c.unsent
    BY <1>5 DEF Drafts
  <1>7. db'.cache = c /\ db'.pending.text = item.text
    <2>1. AfterPutDraft(item) = [cache |-> c, pending |-> item]
      BY DEF AfterPutDraft
    <2>2. CASE item.gen = 0
      <3>1. db' = [[cache |-> c, pending |-> item] EXCEPT !.pending.marks = {}]
        BY <1>3, <1>4, <2>1, <2>2
      <3>2. [item EXCEPT !.marks = {}].text = item.text
        BY <1>5 DEF Drafts
      <3> HIDE DEF c
      <3>3. db'.cache = c /\ db'.pending = [item EXCEPT !.marks = {}]
        BY <3>1
      <3> QED BY <3>2, <3>3
    <2>3. CASE item.gen # 0
      BY <1>3, <1>4, <2>1, <2>3
    <2> QED BY <2>2, <2>3
  <1> HIDE DEF c
  <1>8. SamePage(x, tab'[t])
    <2>1. CASE item.gen = 0
      <3>1. tab'[t] = [x EXCEPT !.flushed = kept]
        BY <1>3, <2>1 DEF SaveTyped
      <3> QED BY <3>1, LoneFacts DEF SamePage, TabStates
    <2>2. CASE item.gen # 0
      <3> DEFINE j == Sending("save", item)
      <3>1. tab' = [tab EXCEPT ![t].job = j]
        BY <1>3, <2>2
      <3> QED BY <3>1, JobPage
    <2> QED BY <2>1, <2>2
  <1>9. Drafted(db') = x.text
    BY <1>5, <1>6, <1>7 DEF Drafted
  <1> QED BY <1>2, <1>8, <1>9, WrittenKeeps DEF SamePage

LEMMA FinishLoadKeepsTexts ==
  ASSUME SaveTyped, LoneInv, KeepInv, NEW w, GoodWorld(w), Fits(w), NEW t \in Tabs, FinishLoad(t)
  PROVE  KeepInv'
  <1> DEFINE x == tab[t]
             load == tab[t].load
             copy == ShownCopy(db', load.ver)
             text == IF Has(copy) THEN copy.text ELSE load.text
             base == Higher(IF Has(copy) THEN copy.base ELSE load.ver, load.carried)
  <1>1. /\ load.on /\ db' = RecoveredDB(load.ver, load.text) /\ srv' = srv /\ overlooked' = overlooked /\ discarded' = discarded
        /\ durable' = durable \cup Kept(srv, db')
    BY Zenon DEF FinishLoad, Remember
  <1>2. ~x.recovering
    BY <1>1, TabFacts, LoneFacts DEF TabOK, JobLone, PageLone
  <1>3. Recovers(db, db')
    BY <1>1, RecoverLone
  <1>4. (Has(db'.pending) => db'.cache.unsent) /\ (db'.cache.unsent => text = db'.cache.text)
    BY <1>1, <1>3, ShownLone
  <1>5. tab'[t].text = text /\ ~tab'[t].recovering
    <2>1. PICK b1, b2, b3, b4, b5, b6 : tab' = [tab EXCEPT
               ![t].open = TRUE, ![t].listed = TRUE, ![t].text = b5, ![t].base = b6,
               ![t].dirty = b1, ![t].flushed = b2, ![t].writer = b3, ![t].conflicted = b4, ![t].load = NoLoad] /\ b5 = text
      <3> DEFINE dirty == Has(db'.pending) /\ db'.pending.marks = {} /\ srv.writer
      <3>1. PICK cp \in {copy} :
            tab' = [tab EXCEPT
                 ![t].open = TRUE, ![t].listed = TRUE,
                 ![t].text = IF Has(cp) THEN cp.text ELSE load.text,
                 ![t].base = Higher(IF Has(cp) THEN cp.base ELSE load.ver, load.carried),
                 ![t].dirty = dirty, ![t].flushed = ~dirty, ![t].writer = srv.writer,
                 ![t].conflicted = srv.unresolved # {}, ![t].load = NoLoad]
        BY Zenon DEF FinishLoad
      <3>2. cp = copy
        BY <3>1
      <3> HIDE DEF copy, dirty
      <3>3. tab' = [tab EXCEPT
                 ![t].open = TRUE, ![t].listed = TRUE, ![t].text = text, ![t].base = base,
                 ![t].dirty = dirty, ![t].flushed = ~dirty, ![t].writer = srv.writer,
                 ![t].conflicted = srv.unresolved # {}, ![t].load = NoLoad]
        BY <3>1, <3>2
      <3> HIDE DEF text, base
      <3> QED BY <3>3, Zenon
    <2> HIDE DEF text
    <2> QED BY <1>2, <2>1, LoneFacts DEF SaveTyped, TabStates
  <1> HIDE DEF copy, text
  <1>6. /\ Has(db'.cache) = Has(db.cache) /\ db'.cache.text = db.cache.text /\ (db.cache.unsent => db'.cache.unsent)
        /\ (db'.cache.unsent => Has(db'.cache))
        /\ (db'.pending = db.pending \/ (db'.pending = db'.cache /\ db'.cache.unsent))
    BY <1>3 DEF Recovers, Has
  <1>7. Has(db.cache) => db.pending.text \subseteq db.cache.text \cup overlooked \cup ServerHeld(srv)
    BY PendingKept
  <1>8. Drafted(db) \subseteq Drafted(db') \cup ServerHeld(srv) \cup discarded' \cup overlooked'
    <2>1. CASE db'.pending = db.pending
      BY <1>6, <2>1 DEF Drafted
    <2>2. CASE db'.pending = db'.cache /\ db'.cache.unsent
      BY <1>1, <1>6, <1>7, <2>2 DEF Drafted
    <2> QED BY <1>6, <2>1, <2>2
  <1>9. Drafted(db') \subseteq text \cup overlooked' \cup ServerHeld(srv)
    <2>1. CASE db'.cache.unsent
      BY <1>1, <1>4, <1>6, <1>7, <2>1 DEF Drafted
    <2>2. CASE ~db'.cache.unsent
      <3>1. ~Has(db'.pending) /\ db'.pending = db.pending
        BY <1>4, <1>6, <2>2
      <3>2. db'.pending.text = {}
        BY <3>1, StoredFacts
      <3> QED BY <2>2, <3>2 DEF Drafted
    <2> QED BY <2>1, <2>2
  <1> QED BY <1>1, <1>5, <1>8, <1>9, SameServer, KeepStore

LEMMA KeepInit == Alone /\ Init => KeepInv
  <1> SUFFICES ASSUME Alone, Init PROVE KeepInv
    OBVIOUS
  <1> DEFINE e == [seal |-> 0, base |-> 0, gen |-> 1, text |-> {}]
  <1>1. srv.log = <<e>> /\ srv.conflicts = {} /\ tab = [t \in Tabs |-> Closed] /\ durable = {}
    BY DEF Init
  <1>2. e.text = {}
    OBVIOUS
  <1> HIDE DEF e
  <1>3. VersionsKept
    <2>1. Len(srv.log) = 1 /\ srv.log[1].text = {}
      BY <1>1, <1>2
    <2> QED BY <2>1 DEF VersionsKept, Version
  <1>4. ReloadShown /\ PageKept
    <2>1. ~Closed.open /\ ~Closed.recovering
      BY DEF Closed
    <2> QED BY <1>1, <2>1 DEF ReloadShown, PageKept
  <1>5. RecordsKept /\ NoOtherEditLost
    BY <1>1 DEF RecordsKept, NoOtherEditLost
  <1> QED BY <1>3, <1>4, <1>5 DEF KeepInv

LEMMA KeepStep == SaveInv /\ LoneInv /\ KeepInv /\ [Next]_vars => KeepInv'
  <1> SUFFICES ASSUME SaveInv, LoneInv, KeepInv, [Next]_vars PROVE KeepInv'
    OBVIOUS
  <1>1. SaveTyped
    BY DEF SaveInv
  <1>2. PICK w : GoodWorld(w) /\ Fits(w)
    BY DEF SaveInv
  <1>a. PICK u : u \in Tabs
    BY DEF LoneInv, Alone
  <1>3. CASE UNCHANGED vars
    <2>1. srv' = srv /\ db' = db /\ tab' = tab /\ overlooked' = overlooked /\ discarded' = discarded /\ durable' = durable
      BY <1>3 DEF vars
    <2> QED BY <1>a, <2>1, SameServer, KeepTab
  <1>4. ASSUME NEW t \in Tabs,
               \/ BeginLoad(t) \/ FinishLoad(t) \/ EditOpen(t)
               \/ ClosePage(t) \/ Crash(t) \/ RemovePage(t) \/ KeyPass(t)
               \/ SaveStart(t) \/ MoveStart(t)
        PROVE  KeepInv'
    <2>1. CASE BeginLoad(t) \/ ClosePage(t) \/ Crash(t) \/ KeyPass(t) BY <1>1, <2>1, QuietTabKeeps
    <2>2. CASE FinishLoad(t) BY <1>1, <1>2, <2>2, FinishLoadKeepsTexts
    <2>3. CASE EditOpen(t) BY <1>1, <1>2, <2>3, EditOpenKeepsTexts
    <2>4. CASE RemovePage(t) BY <1>1, <2>4, RemovePageKeepsTexts
    <2>5. CASE SaveStart(t) BY <1>1, <1>2, <2>5, SaveStartKeepsTexts
    <2>6. CASE MoveStart(t) BY <2>6 DEF MoveStart, LoneInv, Alone
    <2> QED BY <1>4, <2>1, <2>2, <2>3, <2>4, <2>5, <2>6
  <1>5. ASSUME NEW t \in Tabs, NEW slot \in Slots, Deliver(t, slot) \/ Lose(t, slot) \/ Answered(t, slot)
        PROVE  KeepInv'
    <2>1. CASE Deliver(t, slot) \/ Lose(t, slot) BY <1>1, <2>1, DeliverKeepsTexts
    <2>2. CASE Answered(t, slot) BY <1>1, <1>2, <2>2, AnsweredKeepsTexts
    <2> QED BY <1>5, <2>1, <2>2
  <1>6. ASSUME NEW t \in Tabs,
               \/ DrainStart(t) \/ DrainWait(t) \/ DrainSend(t) \/ DrainAnswered(t)
               \/ RecoverReload(t) \/ RecoverCopy(t) \/ RecoverSkip(t) \/ RecoverEnd(t)
               \/ SeeUnsent(t) \/ Discard(t)
        PROVE  KeepInv'
    <2>1. CASE DrainStart(t) \/ DrainWait(t) \/ SeeUnsent(t) BY <1>1, <2>1, QuietJobKeeps
    <2>2. CASE DrainSend(t) BY <1>1, <1>2, <2>2, DrainSendKeepsTexts
    <2>3. CASE DrainAnswered(t) BY <1>1, <1>2, <2>3, DrainAnsweredKeepsTexts
    <2>4. CASE RecoverReload(t) BY <1>1, <1>2, <2>4, RecoverReloadKeepsTexts
    <2>5. CASE RecoverCopy(t) BY <1>1, <1>2, <2>5, RecoverCopyKeepsTexts
    <2>6. CASE RecoverSkip(t) BY <1>1, <2>6, QuietTabKeeps
    <2>7. CASE RecoverEnd(t) BY <1>1, <1>2, <2>7, RecoverEndKeepsTexts
    <2>8. CASE Discard(t) BY <1>1, <1>2, <2>8, DiscardKeepsTexts
    <2> QED BY <1>6, <2>1, <2>2, <2>3, <2>4, <2>5, <2>6, <2>7, <2>8
  <1>7. CASE ResetIdentity BY <1>1, <1>2, <1>a, <1>7, ResetIdentityKeepsTexts
  <1>8. CASE OtherSave BY <1>1, <1>a, <1>8, OtherSaveKeepsTexts
  <1>9. CASE OtherDelete \/ ChangeRole \/ Rotate \/ ForgetKeys \/ Refuse \/ Admit BY <1>1, <1>a, <1>9, OthersKeepTexts
  <1> QED BY <1>3, <1>4, <1>5, <1>6, <1>7, <1>8, <1>9, Zenon DEF Next

(* No edit that reached the browser's store or the server is lost in one   *)
(* tab whose store keeps what it is given, whatever the other device, the  *)
(* network, crashes, key rotations and conflict recovery do in between:    *)
(* only what the user discarded and what a conflict recovery reloaded the  *)
(* page over may go.                                                       *)
THEOREM OneTabLosesNothing == Alone /\ Spec => []NoOtherEditLost
  <1>1. KeepInv => NoOtherEditLost
    BY DEF KeepInv
  <1> QED BY <1>1, KeepInit, KeepStep, SealsNameTexts, OneTabFollows, PTL DEF Spec
=============================================================================
