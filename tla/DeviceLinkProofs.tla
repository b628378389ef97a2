-------------------------- MODULE DeviceLinkProofs --------------------------
(***************************************************************************)
(* Proofs about DeviceLink, for any number of trusted tabs, requests,      *)
(* one-time keys, resets and faults.                                       *)
(***************************************************************************)
EXTENDS DeviceLink, TLAPS

IdOrNone == 0..MaxRequests
Bundles == [id : IdOrNone, ak : Keys, nk : Keys, identity : Nat]
Rows == [on : BOOLEAN, commit : Keys, ak : Keys, nk : Keys, bundle : Bundles]
Answers == [code : {"none", "ok", "gone", "lost"}, ak : Keys, bundle : Bundles]
NewPhases == {"off", "starting", "waiting", "polling", "polled", "revealing", "revealed", "keeping"}
Links == [phase : NewPhases, id : IdOrNone, key : Keys, pin : Keys, shown : BOOLEAN, confirmed : BOOLEAN,
          bundle : Bundles, ans : Answers, read : [listed : Nat, store : Nat]]
Listings == [id : Ids, commit : Keys, claimed : BOOLEAN]
Claims == [mounted : BOOLEAN, list : SUBSET Listings, phase : {"none", "claiming", "claimed", "open"},
           id : IdOrNone, key : Keys, commit : Keys, nk : Keys, entered : BOOLEAN,
           send : {"none", "stepup", "sent", "stored", "refused", "lost"}, ok : BOOLEAN, bundle : Bundles]

(* What the relay keeps, what the newcomer's side is, what a tab is. *)
RowsTyped == rows \in [Ids -> Rows]
NewTyped == new \in Links /\ (new.phase \notin {"off", "starting"} => new.id \in Ids)
TabTyped == tab \in [Tabs -> Claims] /\ \A t \in Tabs : tab[t].phase # "none" => tab[t].id \in Ids
RestTyped ==
    /\ late \subseteq Keys /\ drawn \in 0..MaxKeys /\ listed \in 1..(1 + MaxResets)
    /\ store \in Nat /\ holder \in Nat /\ faults \in Nat /\ live \subseteq {"new", "trusted"}
    /\ sealed \subseteq Bundles

(* Types of the link's state (link_routes.go's rows, linkFlow.ts and        *)
(* DeviceLink.tsx's screens): a screen that works on a request names one.  *)
LinkTyped == RowsTyped /\ NewTyped /\ TabTyped /\ RestTyped

-----------------------------------------------------------------------------
(* The values of the model have their types. *)

LEMMA Bounds == MaxRequests \in Nat /\ MaxKeys \in Nat /\ MaxResets \in Nat /\ MaxFaults \in Nat
  BY LinkBounds

LEMMA KeyFacts ==
  /\ NoKey \in Keys /\ RelayKey \in Keys /\ NoKey # RelayKey
  /\ \A n \in 0..MaxKeys : n \in Keys /\ n # RelayKey
  /\ \A n \in 0..MaxKeys : n < MaxKeys => n + 1 \in 1..MaxKeys
  /\ Ids \subseteq IdOrNone /\ 0 \in IdOrNone
  BY Bounds DEF NoKey, RelayKey, Keys, Ids, IdOrNone

LEMMA ConstantsTyped ==
  /\ NoBundle \in Bundles /\ NoRow \in Rows /\ Unmade \in Rows /\ NoAnswer \in Answers
  /\ NoLink \in Links /\ NoLink.phase = "off" /\ NoLink.key = NoKey
  /\ NoClaim \in Claims /\ NoClaim.phase = "none" /\ NoClaim.send = "none" /\ ~NoClaim.entered
  <1>1. NoBundle \in Bundles
    BY KeyFacts DEF NoBundle, Bundles
  <1>2. NoRow \in Rows /\ Unmade \in Rows
    BY KeyFacts, <1>1 DEF NoRow, Unmade, Rows
  <1>3. NoAnswer \in Answers
    BY KeyFacts, <1>1 DEF NoAnswer, Answers
  <1>4. NoLink \in Links /\ NoLink.phase = "off" /\ NoLink.key = NoKey
    BY KeyFacts, <1>1, <1>3 DEF NoLink, Links, NewPhases
  <1>5. NoClaim \in Claims /\ NoClaim.phase = "none" /\ NoClaim.send = "none" /\ ~NoClaim.entered
    BY KeyFacts, <1>1 DEF NoClaim, Claims
  <1> QED BY <1>1, <1>2, <1>3, <1>4, <1>5

LEMMA InitTyped == Init => LinkTyped
  <1> SUFFICES ASSUME Init PROVE LinkTyped
    OBVIOUS
  <1>1. RowsTyped /\ NewTyped /\ TabTyped
    BY ConstantsTyped DEF Init, RowsTyped, NewTyped, TabTyped
  <1>2. RestTyped
    BY Bounds DEF Init, RestTyped
  <1> QED BY <1>1, <1>2 DEF LinkTyped

-----------------------------------------------------------------------------
(* Types are kept: the relay's rows, the newcomer, the trusted tabs. *)

LEMMA RemovedTyped ==
  ASSUME RowsTyped, NEW id \in IdOrNone, Cancelled(id)
  PROVE  RowsTyped'
  BY ConstantsTyped DEF RowsTyped, Cancelled, Removed

LEMMA CreatedTyped ==
  ASSUME RowsTyped, NEW id \in Ids, NEW key \in Keys
  PROVE  Created(id, key) \in [Ids -> Rows] /\ [Created(id, key) EXCEPT ![id] = NoRow] \in [Ids -> Rows]
  <1>1. [NoRow EXCEPT !.on = TRUE, !.commit = key] \in Rows
    BY ConstantsTyped DEF Rows
  <1>2. Created(id, key) \in [Ids -> Rows]
    BY <1>1, ConstantsTyped DEF Created, RowsTyped
  <1> QED BY <1>2, ConstantsTyped

LEMMA FaultTyped ==
  ASSUME RestTyped, NEW kind, Fault(kind)
  PROVE  faults' \in Nat
  BY DEF RestTyped, Fault

LEMMA PassedOnTyped ==
  ASSUME RestTyped, NEW key, NEW seen, PassedOn(key, seen)
  PROVE  faults' \in Nat
  BY DEF RestTyped, Fault, PassedOn

LEMMA BeginTyped == ASSUME LinkTyped, Begin PROVE LinkTyped'
  <1>1. drawn + 1 \in 1..MaxKeys /\ drawn + 1 \in Keys
    BY KeyFacts DEF LinkTyped, RestTyped, Begin
  <1>2. NewTyped'
    <2> DEFINE k == drawn + 1
    <2>1. k \in Keys
      BY <1>1
    <2> HIDE DEF k
    <2>2. [NoLink EXCEPT !.phase = "starting", !.key = k] \in Links
      BY <2>1, ConstantsTyped DEF Links, NewPhases
    <2>3. new' = [NoLink EXCEPT !.phase = "starting", !.key = k]
      BY DEF Begin, k
    <2> QED BY <2>2, <2>3, ConstantsTyped DEF NewTyped, Links
  <1>3. late' \subseteq Keys
    BY DEF LinkTyped, RestTyped, NewTyped, Links, Begin, InFlight
  <1>4. drawn' \in 0..MaxKeys
    BY <1>1 DEF Begin
  <1>5. RestTyped'
    BY <1>3, <1>4 DEF LinkTyped, RestTyped, Begin
  <1> QED BY <1>2, <1>5 DEF LinkTyped, RowsTyped, TabTyped, Begin

LEMMA CreateRequestTyped == ASSUME LinkTyped, CreateRequest PROVE LinkTyped'
  <1>1. NewTyped'
    BY ConstantsTyped, KeyFacts, ZenonT(40) DEF LinkTyped, NewTyped, Links, NewPhases, CreateRequest
  <1>2. RowsTyped'
    <2>1. new.key \in Keys /\ RowsTyped
      BY DEF LinkTyped, NewTyped, Links
    <2>2. rows' = rows \/ \E id \in Ids : rows' = Created(id, new.key)
      BY DEF CreateRequest
    <2> QED BY <2>1, <2>2, CreatedTyped DEF RowsTyped
  <1> QED BY <1>1, <1>2 DEF LinkTyped, TabTyped, RestTyped, CreateRequest

LEMMA LateCreateTyped == ASSUME LinkTyped, LateCreate PROVE LinkTyped'
  <1>1. RowsTyped'
    BY CreatedTyped DEF LinkTyped, RowsTyped, RestTyped, LateCreate
  <1> QED BY <1>1 DEF LinkTyped, NewTyped, TabTyped, RestTyped, LateCreate

LEMMA PollTyped == ASSUME LinkTyped, Poll PROVE LinkTyped'
  BY DEF LinkTyped, RowsTyped, NewTyped, TabTyped, RestTyped, Links, NewPhases, Poll

LEMMA CollectTyped == ASSUME LinkTyped, Collect PROVE LinkTyped'
  <1>1. new.id \in Ids /\ rows[new.id] \in Rows
    BY DEF LinkTyped, NewTyped, RowsTyped, Collect
  <1>2. NewTyped'
    <2>1. \/ new' = [new EXCEPT !.phase = "polled", !.ans = [NoAnswer EXCEPT !.code = "gone"]]
          \/ \E seen \in {rows[new.id].ak, RelayKey} :
               new' = [new EXCEPT !.phase = "polled", !.ans = [code |-> "ok", ak |-> seen, bundle |-> rows[new.id].bundle]]
      BY DEF Collect
    <2>2. [NoAnswer EXCEPT !.code = "gone"] \in Answers
      BY ConstantsTyped DEF Answers
    <2>3. \A seen \in {rows[new.id].ak, RelayKey} : [code |-> "ok", ak |-> seen, bundle |-> rows[new.id].bundle] \in Answers
      BY <1>1, KeyFacts DEF Answers, Rows
    <2>4. \E ans \in Answers : new' = [new EXCEPT !.phase = "polled", !.ans = ans]
      BY <2>1, <2>2, <2>3
    <2> QED BY <1>1, <2>4 DEF LinkTyped, NewTyped, Links, NewPhases
  <1>3. RowsTyped'
    BY <1>1, ConstantsTyped DEF LinkTyped, RowsTyped, Removed, Collect
  <1>4. faults' \in Nat
    BY PassedOnTyped DEF LinkTyped, RestTyped, Collect
  <1> QED BY <1>2, <1>3, <1>4 DEF LinkTyped, TabTyped, RestTyped, Collect

LEMMA PollAnsweredTyped == ASSUME LinkTyped, PollAnswered PROVE LinkTyped'
  <1>1. new.id \in Ids /\ new.id \in IdOrNone /\ new.ans \in Answers
    BY KeyFacts DEF LinkTyped, NewTyped, Links, PollAnswered
  <1>2. rows' = rows \/ Cancelled(new.id)
    BY DEF PollAnswered
  <1>3. RowsTyped'
    BY <1>1, <1>2, RemovedTyped DEF LinkTyped, RowsTyped
  <1>4. \/ new' = Stopped
        \/ new' = [new EXCEPT !.phase = "waiting", !.ans = NoAnswer]
        \/ new' = [new EXCEPT !.phase = "waiting", !.ans = NoAnswer, !.bundle = new.ans.bundle]
        \/ new' = [new EXCEPT !.phase = "revealing", !.ans = NoAnswer, !.pin = new.ans.ak]
    BY DEF PollAnswered
  <1>5. NewTyped'
    BY <1>1, <1>4, ConstantsTyped, ZenonT(40) DEF LinkTyped, NewTyped, Links, NewPhases, Answers, Stopped
  <1> QED BY <1>3, <1>5 DEF LinkTyped, TabTyped, RestTyped, PollAnswered

LEMMA RevealTyped == ASSUME LinkTyped, Reveal PROVE LinkTyped'
  <1>1. new.id \in Ids /\ rows[new.id] \in Rows /\ new.key \in Keys
    BY DEF LinkTyped, NewTyped, RowsTyped, Links, Reveal
  <1>2. NewTyped'
    BY <1>1 DEF LinkTyped, NewTyped, Links, NewPhases, Answers, Reveal
  <1>3. rows' = rows \/ rows' = [rows EXCEPT ![new.id].nk = new.key] \/ rows' = Removed(new.id)
    BY DEF Reveal
  <1>4. RowsTyped'
    BY <1>1, <1>3, ConstantsTyped DEF LinkTyped, RowsTyped, Rows, Removed
  <1> QED BY <1>2, <1>4 DEF LinkTyped, TabTyped, RestTyped, Reveal

LEMMA RevealAnsweredTyped == ASSUME LinkTyped, RevealAnswered PROVE LinkTyped'
  <1>1. new.id \in IdOrNone /\ (rows' = rows \/ Cancelled(new.id))
    BY DEF LinkTyped, NewTyped, Links, RevealAnswered
  <1>2. RowsTyped'
    BY <1>1, RemovedTyped DEF LinkTyped, RowsTyped
  <1>3. NewTyped'
    BY ConstantsTyped, ZenonT(40) DEF LinkTyped, NewTyped, Links, NewPhases, Stopped, RevealAnswered
  <1> QED BY <1>2, <1>3 DEF LinkTyped, TabTyped, RestTyped, RevealAnswered

LEMMA CodesMatchTyped == ASSUME LinkTyped, CodesMatch PROVE LinkTyped'
  BY DEF LinkTyped, RowsTyped, NewTyped, TabTyped, RestTyped, Links, CodesMatch

LEMMA StopTyped == ASSUME LinkTyped, Stop PROVE LinkTyped'
  <1>1. new.id \in IdOrNone /\ (rows' = rows \/ Cancelled(new.id))
    BY DEF LinkTyped, NewTyped, Links, Stop
  <1>2. RowsTyped'
    BY <1>1, RemovedTyped DEF LinkTyped, RowsTyped
  <1>3. NewTyped'
    BY ConstantsTyped DEF NewTyped, Stopped, Stop
  <1>4. RestTyped'
    BY DEF LinkTyped, RestTyped, NewTyped, Links, InFlight, Stop
  <1> QED BY <1>2, <1>3, <1>4 DEF LinkTyped, TabTyped, Stop

LEMMA FinishReadTyped == ASSUME LinkTyped, FinishRead PROVE LinkTyped'
  <1>1. NewTyped'
    <2>1. CASE new' = Stopped
      BY <2>1, ConstantsTyped DEF NewTyped, Stopped
    <2>2. CASE new' = [new EXCEPT !.phase = "keeping", !.read = [listed |-> listed, store |-> store]]
      <3>1. listed \in Nat /\ store \in Nat
        BY Bounds DEF LinkTyped, RestTyped
      <3>2. new.id \in Ids
        BY DEF LinkTyped, NewTyped, FinishRead
      <3> QED BY <2>2, <3>1, <3>2 DEF LinkTyped, NewTyped, Links, NewPhases
    <2> QED BY <2>1, <2>2 DEF FinishRead
  <1> QED BY <1>1 DEF LinkTyped, RowsTyped, TabTyped, RestTyped, FinishRead

LEMMA FinishKeepTyped == ASSUME LinkTyped, FinishKeep PROVE LinkTyped'
  <1>1. NewTyped'
    BY ConstantsTyped DEF NewTyped, Stopped, FinishKeep
  <1>2. store' \in Nat
    BY DEF LinkTyped, NewTyped, RestTyped, Links, FinishKeep
  <1> QED BY <1>1, <1>2 DEF LinkTyped, RowsTyped, TabTyped, RestTyped, FinishKeep

-----------------------------------------------------------------------------
(* The trusted tabs. *)

LEMMA DroppedTyped ==
  ASSUME TabTyped, NEW t \in Tabs
  PROVE  Dropped(t) \in Claims /\ Dropped(t).phase = "none" /\ Dropped(t).send = "none" /\ ~Dropped(t).entered
  BY ConstantsTyped DEF TabTyped, Claims, Dropped

LEMMA ClaimReplaced ==
  ASSUME TabTyped, NEW t \in Tabs, NEW c \in Claims, c.phase # "none" => c.id \in Ids,
         tab' = [tab EXCEPT ![t] = c]
  PROVE  TabTyped'
  BY DEF TabTyped

(* A claim whose flags change is one still. *)
LEMMA FlagsTyped ==
  ASSUME NEW c \in Claims, NEW b \in BOOLEAN
  PROVE  /\ [c EXCEPT !.entered = b] \in Claims /\ [c EXCEPT !.mounted = b] \in Claims
         /\ [c EXCEPT !.phase = "claimed", !.ok = b] \in Claims
         /\ [c EXCEPT !.mounted = b, !.list = {}] \in Claims
  BY DEF Claims

LEMMA TickTyped == ASSUME LinkTyped, NEW t \in Tabs, Tick(t) PROVE LinkTyped'
  <1> DEFINE id == tab[t].id
             open == tab[t].phase = "open" /\ tab[t].send = "none"
             Listing(commit) == {[id |-> r, commit |-> IF commit = NoKey THEN rows[r].commit ELSE commit,
                                  claimed |-> rows[r].ak # NoKey] : r \in {r \in Ids : Visible(r)}}
  <1>1. PICK commit \in {NoKey, RelayKey}, nk \in {NoKey, RelayKey, IF open THEN rows[id].nk ELSE NoKey} :
          /\ \/ tab' = [[tab EXCEPT ![t].list = Listing(commit)] EXCEPT ![t] = [Dropped(t) EXCEPT !.list = Listing(commit)]]
             \/ tab' = [[tab EXCEPT ![t].list = Listing(commit)] EXCEPT ![t].nk = nk]
             \/ tab' = [tab EXCEPT ![t].list = Listing(commit)]
          /\ rows' = rows \/ Cancelled(id)
          /\ UNCHANGED faults \/ Fault("alter")
    BY ZenonT(40) DEF Tick, PassedOn
  <1>2. id \in IdOrNone /\ (open => id \in Ids)
    BY DEF LinkTyped, TabTyped, Claims
  <1>3. commit \in Keys /\ nk \in Keys
    BY <1>2, KeyFacts DEF LinkTyped, RowsTyped, Rows
  <1>4. Listing(commit) \subseteq Listings
    <2>1. ASSUME NEW r \in Ids
          PROVE  [id |-> r, commit |-> IF commit = NoKey THEN rows[r].commit ELSE commit,
                  claimed |-> rows[r].ak # NoKey] \in Listings
      <3>1. (IF commit = NoKey THEN rows[r].commit ELSE commit) \in Keys
        BY <1>3 DEF LinkTyped, RowsTyped, Rows
      <3>2. (rows[r].ak # NoKey) \in BOOLEAN
        OBVIOUS
      <3> QED BY <3>1, <3>2, Zenon DEF Listings
    <2> QED BY <2>1
  <1> HIDE DEF Listing, id, open
  <1>5. TabTyped'
    <2>1. PICK c \in {[Dropped(t) EXCEPT !.list = Listing(commit)], [tab[t] EXCEPT !.list = Listing(commit)],
                      [tab[t] EXCEPT !.list = Listing(commit), !.nk = nk]} : tab' = [tab EXCEPT ![t] = c]
      BY <1>1 DEF LinkTyped, TabTyped, Claims
    <2>2. c \in Claims /\ (c.phase # "none" => c.id \in Ids)
      BY <1>3, <1>4, DroppedTyped, ZenonT(40) DEF LinkTyped, TabTyped, Claims
    <2> QED BY <2>1, <2>2, ClaimReplaced DEF LinkTyped
  <1>6. RowsTyped'
    BY <1>1, <1>2, RemovedTyped DEF LinkTyped, RowsTyped
  <1>7. faults' \in Nat
    BY <1>1, FaultTyped DEF LinkTyped, RestTyped
  <1> QED BY <1>5, <1>6, <1>7 DEF LinkTyped, NewTyped, RestTyped, Tick

LEMMA ClaimTyped == ASSUME LinkTyped, NEW t \in Tabs, Claim(t) PROVE LinkTyped'
  <1>1. PICK row \in tab[t].list :
          /\ drawn < MaxKeys /\ drawn' = drawn + 1
          /\ tab' = [tab EXCEPT ![t].phase = "claiming", ![t].id = row.id,
                                ![t].commit = row.commit, ![t].key = drawn + 1]
    BY DEF Claim
  <1> DEFINE k == drawn + 1
             c == [tab[t] EXCEPT !.phase = "claiming", !.id = row.id, !.commit = row.commit, !.key = k]
  <1>2. row \in Listings /\ row.id \in Ids /\ row.id \in IdOrNone /\ row.commit \in Keys
    BY KeyFacts DEF LinkTyped, TabTyped, Claims, Listings
  <1>3. k \in 0..MaxKeys /\ k \in Keys
    BY <1>1, KeyFacts, Bounds DEF LinkTyped, RestTyped
  <1> HIDE DEF k
  <1>4. c \in Claims /\ c.id \in Ids
    BY <1>2, <1>3, ZenonT(40) DEF LinkTyped, TabTyped, Claims
  <1>5. tab' = [tab EXCEPT ![t] = c]
    BY <1>1 DEF LinkTyped, TabTyped, Claims, k
  <1>6. TabTyped'
    BY <1>4, <1>5, ClaimReplaced DEF LinkTyped
  <1>7. drawn' \in 0..MaxKeys
    BY <1>1, <1>3 DEF k
  <1> QED BY <1>6, <1>7 DEF LinkTyped, RowsTyped, NewTyped, RestTyped, Claim

LEMMA ClaimRequestTyped == ASSUME LinkTyped, NEW t \in Tabs, ClaimRequest(t) PROVE LinkTyped'
  <1>1. tab[t].id \in Ids /\ tab[t].key \in Keys
    BY DEF LinkTyped, TabTyped, Claims, ClaimRequest
  <1>2. rows' = rows \/ rows' = [rows EXCEPT ![tab[t].id].ak = tab[t].key]
    BY DEF ClaimRequest
  <1>3. RowsTyped'
    BY <1>1, <1>2 DEF LinkTyped, RowsTyped, Rows
  <1>4. PICK ok \in BOOLEAN : tab' = [tab EXCEPT ![t].phase = "claimed", ![t].ok = ok]
    BY Zenon DEF ClaimRequest
  <1> DEFINE c == [tab[t] EXCEPT !.phase = "claimed", !.ok = ok]
  <1>5. tab[t] \in Claims /\ c \in Claims
    BY FlagsTyped DEF LinkTyped, TabTyped
  <1>6. tab' = [tab EXCEPT ![t] = c] /\ c.id = tab[t].id
    BY <1>4, <1>5 DEF LinkTyped, TabTyped, Claims
  <1>7. TabTyped'
    BY <1>1, <1>5, <1>6, ClaimReplaced DEF LinkTyped
  <1> QED BY <1>3, <1>7 DEF LinkTyped, NewTyped, RestTyped, ClaimRequest

LEMMA ClaimAnsweredTyped == ASSUME LinkTyped, NEW t \in Tabs, ClaimAnswered(t) PROVE LinkTyped'
  <1>1. tab[t].id \in Ids /\ tab[t].id \in IdOrNone
    BY KeyFacts DEF LinkTyped, TabTyped, ClaimAnswered
  <1>2. RowsTyped'
    BY <1>1, RemovedTyped DEF LinkTyped, RowsTyped, ClaimAnswered
  <1>3. TabTyped'
    BY <1>1, DroppedTyped DEF LinkTyped, TabTyped, Claims, ClaimAnswered
  <1> QED BY <1>2, <1>3 DEF LinkTyped, NewTyped, RestTyped, ClaimAnswered

LEMMA TypeCodeTyped == ASSUME LinkTyped, NEW t \in Tabs, TypeCode(t) PROVE LinkTyped'
  <1> DEFINE c == [tab[t] EXCEPT !.entered = TRUE]
  <1>1. tab[t] \in Claims /\ c \in Claims
    BY FlagsTyped DEF LinkTyped, TabTyped
  <1>2. tab' = [tab EXCEPT ![t] = c] /\ c.id = tab[t].id /\ c.phase = tab[t].phase
    BY <1>1 DEF LinkTyped, TabTyped, Claims, TypeCode
  <1>3. TabTyped'
    BY <1>1, <1>2, ClaimReplaced DEF LinkTyped, TabTyped
  <1> QED BY <1>3 DEF LinkTyped, RowsTyped, NewTyped, RestTyped, TypeCode

(* What a tab seals: for the request and the keys of its own attempt. *)
SealedBy(t) == [id |-> tab[t].id, ak |-> tab[t].key, nk |-> tab[t].nk, identity |-> holder]

LEMMA SendTyped == ASSUME LinkTyped, NEW t \in Tabs, Send(t) PROVE LinkTyped'
  <1>1. tab[t].id \in Ids /\ tab[t].id \in IdOrNone
    BY KeyFacts DEF LinkTyped, TabTyped, Send
  <1>2. RowsTyped'
    BY <1>1, RemovedTyped DEF LinkTyped, RowsTyped, Send
  <1>3. SealedBy(t) \in Bundles
    BY <1>1 DEF LinkTyped, TabTyped, RestTyped, Claims, Bundles, SealedBy
  <1>4. tab' = [tab EXCEPT ![t] = Dropped(t)] \/ tab' = [tab EXCEPT ![t].send = "stepup", ![t].bundle = SealedBy(t)]
    BY DEF Send, SealedBy
  <1>5. TabTyped'
    BY <1>1, <1>3, <1>4, DroppedTyped DEF LinkTyped, TabTyped, Claims
  <1> QED BY <1>2, <1>5 DEF LinkTyped, NewTyped, RestTyped, Send

LEMMA StepUpTyped == ASSUME LinkTyped, NEW t \in Tabs, StepUp(t) PROVE LinkTyped'
  <1>1. TabTyped'
    BY DroppedTyped DEF LinkTyped, TabTyped, Claims, StepUp
  <1> QED BY <1>1 DEF LinkTyped, RowsTyped, NewTyped, RestTyped, StepUp

LEMMA ApproveTyped == ASSUME LinkTyped, NEW t \in Tabs, Approve(t) PROVE LinkTyped'
  <1>1. tab[t].bundle \in Bundles
    BY DEF LinkTyped, TabTyped, Claims
  <1>2. RowsTyped'
    BY <1>1 DEF LinkTyped, RowsTyped, Rows, Approve
  <1>3. TabTyped'
    BY DEF LinkTyped, TabTyped, Claims, Approve
  <1> QED BY <1>1, <1>2, <1>3 DEF LinkTyped, NewTyped, RestTyped, Approve

LEMMA ApprovedTyped == ASSUME LinkTyped, NEW t \in Tabs, Approved(t) PROVE LinkTyped'
  <1>1. tab[t].id \in IdOrNone /\ (rows' = rows \/ Cancelled(tab[t].id))
    BY DEF LinkTyped, TabTyped, Claims, Approved
  <1>2. RowsTyped'
    BY <1>1, RemovedTyped DEF LinkTyped, RowsTyped
  <1>3. tab' = [tab EXCEPT ![t] = Dropped(t)] \/ tab' = [tab EXCEPT ![t].send = "none"]
    BY DEF Approved
  <1>4. TabTyped'
    BY <1>3, DroppedTyped DEF LinkTyped, TabTyped, Claims
  <1> QED BY <1>2, <1>4 DEF LinkTyped, NewTyped, RestTyped, Approved

LEMMA DropTyped == ASSUME LinkTyped, NEW t \in Tabs, Drop(t) PROVE LinkTyped'
  <1>1. RowsTyped'
    BY RemovedTyped DEF LinkTyped, TabTyped, Claims, Drop
  <1>2. TabTyped'
    BY DroppedTyped DEF LinkTyped, TabTyped, Drop
  <1> QED BY <1>1, <1>2 DEF LinkTyped, NewTyped, RestTyped, Drop

LEMMA NotMeTyped == ASSUME LinkTyped, NEW t \in Tabs, NotMe(t) PROVE LinkTyped'
  <1>1. PICK row \in tab[t].list : Cancelled(row.id) /\ tab' = [tab EXCEPT ![t].list = @ \ {row}]
    BY DEF NotMe
  <1>2. row.id \in IdOrNone
    BY KeyFacts DEF LinkTyped, TabTyped, Claims, Listings
  <1>3. RowsTyped'
    BY <1>1, <1>2, RemovedTyped DEF LinkTyped
  <1>4. TabTyped'
    BY <1>1 DEF LinkTyped, TabTyped, Claims
  <1> QED BY <1>3, <1>4 DEF LinkTyped, NewTyped, RestTyped, NotMe

LEMMA LeaveTyped == ASSUME LinkTyped, NEW t \in Tabs, Leave(t) PROVE LinkTyped'
  <1>1. RowsTyped'
    BY RemovedTyped DEF LinkTyped, RowsTyped, TabTyped, Claims, Leave
  <1> DEFINE gone == [NoClaim EXCEPT !.mounted = FALSE]
             left == [tab[t] EXCEPT !.mounted = FALSE, !.list = {}]
  <1>2. TabTyped'
    <2>1. tab[t] \in Claims /\ gone \in Claims /\ left \in Claims
      BY FlagsTyped, ConstantsTyped DEF LinkTyped, TabTyped
    <2>2. tab' = [tab EXCEPT ![t] = gone] \/ tab' = [tab EXCEPT ![t] = left]
      BY <2>1 DEF LinkTyped, TabTyped, Claims, Leave
    <2>3. gone.phase = "none" /\ left.id = tab[t].id /\ left.phase = tab[t].phase
      BY <2>1, ConstantsTyped DEF Claims
    <2> QED BY <2>1, <2>2, <2>3, ClaimReplaced DEF LinkTyped, TabTyped
  <1> QED BY <1>1, <1>2 DEF LinkTyped, NewTyped, RestTyped, Leave

LEMMA ReturnTyped == ASSUME LinkTyped, NEW t \in Tabs, Return(t) PROVE LinkTyped'
  <1> DEFINE c == [tab[t] EXCEPT !.mounted = TRUE]
  <1>1. tab[t] \in Claims /\ c \in Claims
    BY FlagsTyped DEF LinkTyped, TabTyped
  <1>2. tab' = [tab EXCEPT ![t] = c] /\ c.id = tab[t].id /\ c.phase = tab[t].phase
    BY <1>1 DEF LinkTyped, TabTyped, Claims, Return
  <1>3. TabTyped'
    BY <1>1, <1>2, ClaimReplaced DEF LinkTyped, TabTyped
  <1> QED BY <1>3 DEF LinkTyped, RowsTyped, NewTyped, RestTyped, Return

LEMMA LoseTabTyped == ASSUME LinkTyped, NEW t \in Tabs, LoseTab(t) PROVE LinkTyped'
  <1>1. TabTyped'
    BY DEF LinkTyped, TabTyped, Claims, LoseTab
  <1>2. faults' \in Nat
    BY FaultTyped DEF LinkTyped, LoseTab
  <1> QED BY <1>1, <1>2 DEF LinkTyped, RowsTyped, NewTyped, RestTyped, LoseTab

-----------------------------------------------------------------------------
(* Everything else. *)

LEMMA ExpireTyped == ASSUME LinkTyped, NEW id \in Ids, Expire(id) PROVE LinkTyped'
  <1>1. RowsTyped'
    BY RemovedTyped, KeyFacts DEF LinkTyped, Cancelled, Expire
  <1> QED BY <1>1 DEF LinkTyped, NewTyped, TabTyped, RestTyped, Expire

LEMMA LoseNewTyped == ASSUME LinkTyped, LoseNew PROVE LinkTyped'
  <1>1. [NoAnswer EXCEPT !.code = "lost"] \in Answers
    BY ConstantsTyped DEF Answers
  <1>2. NewTyped'
    BY <1>1 DEF LinkTyped, NewTyped, Links, NewPhases, LoseNew
  <1>3. faults' \in Nat
    BY FaultTyped DEF LinkTyped, LoseNew
  <1> QED BY <1>2, <1>3 DEF LinkTyped, RowsTyped, TabTyped, RestTyped, LoseNew

LEMMA OthersTyped ==
  ASSUME LinkTyped, (\E s \in {"new", "trusted"} : Revoke(s)) \/ ResetIdentity \/ ForgetHere \/ OtherTabSetsUp
  PROVE  LinkTyped'
  <1>1. faults' \in Nat
    BY FaultTyped DEF LinkTyped, RestTyped, Revoke, ResetIdentity, ForgetHere, OtherTabSetsUp
  <1>2. listed' \in 1..(1 + MaxResets) /\ store' \in Nat /\ holder' \in Nat
    BY Bounds DEF LinkTyped, RestTyped, Revoke, ResetIdentity, ForgetHere, OtherTabSetsUp
  <1>3. live' \subseteq {"new", "trusted"}
    BY DEF LinkTyped, RestTyped, Revoke, ResetIdentity, ForgetHere, OtherTabSetsUp
  <1>4. UNCHANGED <<rows, new, late, tab, drawn, sealed>>
    BY DEF Revoke, ResetIdentity, ForgetHere, OtherTabSetsUp
  <1> QED BY <1>1, <1>2, <1>3, <1>4 DEF LinkTyped, RowsTyped, NewTyped, TabTyped, RestTyped

LEMMA StepTyped == LinkTyped /\ [Next]_vars => LinkTyped'
  <1> SUFFICES ASSUME LinkTyped, [Next]_vars PROVE LinkTyped'
    OBVIOUS
  <1>1. CASE UNCHANGED vars
    BY <1>1 DEF LinkTyped, RowsTyped, NewTyped, TabTyped, RestTyped, vars
  <1>2. CASE Next
    BY <1>2, BeginTyped, CreateRequestTyped, LateCreateTyped, PollTyped, CollectTyped, PollAnsweredTyped, RevealTyped,
       RevealAnsweredTyped, CodesMatchTyped, StopTyped, FinishReadTyped, FinishKeepTyped, TickTyped, ClaimTyped,
       ClaimRequestTyped, ClaimAnsweredTyped, TypeCodeTyped, SendTyped, StepUpTyped, ApproveTyped, ApprovedTyped,
       DropTyped, NotMeTyped, LeaveTyped, ReturnTyped, LoseTabTyped, ExpireTyped, LoseNewTyped, OthersTyped DEF Next
  <1> QED BY <1>1, <1>2

(* The state of a link keeps its types, and every screen that works on a   *)
(* request names one the relay could have issued.                          *)
THEOREM LinkTypes == Spec => []LinkTyped
  BY InitTyped, StepTyped, PTL DEF Spec

-----------------------------------------------------------------------------
(* Where bundles come from, and what a typed code stands for. *)

Sent(bundle) == bundle \in sealed \cup {NoBundle}

RowsSafe == \A id \in Ids : Sent(rows[id].bundle)

NewSafe ==
    /\ new.key # RelayKey /\ Sent(new.bundle) /\ Sent(new.ans.bundle)
    /\ new.phase = "keeping" => /\ new.read.store \in {0, new.read.listed}
                                /\ \E b \in sealed : b.identity = new.read.listed

(* A typed code was the tab's own and the newcomer's, so neither of its    *)
(* keys is the relay's; what is being sent was sealed under such a code.   *)
ClaimSafe(c) ==
    /\ c.key # RelayKey
    /\ c.entered => c.phase = "open" /\ c.nk \notin {NoKey, RelayKey} /\ Code(c.id, c.key, c.nk) \in typed
    /\ c.send # "none" => /\ c.phase = "open" /\ RelayKey \notin {c.bundle.ak, c.bundle.nk}
                          /\ Code(c.bundle.id, c.bundle.ak, c.bundle.nk) \in typed

TabSafe == \A t \in Tabs : ClaimSafe(tab[t])

(* The inductive invariant of a link: every bundle the relay or the        *)
(* newcomer has was sent by a trusted tab, which sealed it under a code    *)
(* its user typed.                                                         *)
LinkSafe == RowsSafe /\ NewSafe /\ TabSafe /\ SealedForTyped /\ KeptIsSent

LEMMA InitSafe == Init => LinkSafe
  <1> SUFFICES ASSUME Init PROVE LinkSafe
    OBVIOUS
  <1>1. RowsSafe
    BY DEF Init, RowsSafe, Sent, Unmade, NoRow
  <1>2. NewSafe
    BY KeyFacts, ConstantsTyped DEF Init, NewSafe, Sent, NoLink, NoAnswer
  <1>3. TabSafe
    BY KeyFacts, ConstantsTyped DEF Init, TabSafe, ClaimSafe, NoClaim
  <1>4. SealedForTyped /\ KeptIsSent
    BY Bounds DEF Init, SealedForTyped, KeptIsSent
  <1> QED BY <1>1, <1>2, <1>3, <1>4 DEF LinkSafe

LEMMA StoppedSafe == new' = Stopped => NewSafe'
  BY KeyFacts, ConstantsTyped DEF NewSafe, Sent, NoLink, NoAnswer, Stopped

LEMMA CancelledSafe ==
  ASSUME RowsTyped, RowsSafe, NEW id \in IdOrNone, rows' = rows \/ Cancelled(id), sealed' = sealed
  PROVE  RowsSafe'
  BY DEF RowsTyped, RowsSafe, Sent, Cancelled, Removed, NoRow

LEMMA CreatedSafe ==
  ASSUME RowsTyped, RowsSafe, NEW id \in Ids, NEW key, sealed' = sealed,
         rows' \in {Created(id, key), [Created(id, key) EXCEPT ![id] = NoRow]}
  PROVE  RowsSafe'
  <1>1. [NoRow EXCEPT !.on = TRUE, !.commit = key].bundle = NoBundle /\ NoRow.bundle = NoBundle
    BY DEF NoRow
  <1>2. \A other \in Ids : rows'[other].bundle \in {NoBundle, rows[other].bundle}
    BY <1>1 DEF Created
  <1> QED BY <1>2 DEF RowsSafe, Sent

LEMMA ClaimKept ==
  ASSUME TabTyped, TabSafe, NEW t \in Tabs, NEW c, ClaimSafe(c), tab' = [tab EXCEPT ![t] = c], typed' = typed
  PROVE  TabSafe'
  BY DEF TabTyped, TabSafe, ClaimSafe

LEMMA DroppedSafe ==
  ASSUME TabTyped, NEW t \in Tabs
  PROVE  ClaimSafe(Dropped(t))
  BY KeyFacts, DroppedTyped, ConstantsTyped DEF ClaimSafe, Dropped, NoClaim

(* What an action leaves alone stays safe. *)
LEMMA RowsFrame == RowsSafe /\ UNCHANGED <<rows, sealed>> => RowsSafe'
  BY DEF RowsSafe, Sent
LEMMA NewFrame == NewSafe /\ UNCHANGED <<new, sealed>> => NewSafe'
  BY DEF NewSafe, Sent
LEMMA TabFrame == TabSafe /\ UNCHANGED <<tab, typed>> => TabSafe'
  BY DEF TabSafe, ClaimSafe
LEMMA RestFrame == SealedForTyped /\ KeptIsSent /\ UNCHANGED <<typed, sealed, store>> => SealedForTyped' /\ KeptIsSent'
  BY DEF SealedForTyped, KeptIsSent

-----------------------------------------------------------------------------
(* The newcomer's steps. *)

LEMMA BeginSafe == ASSUME LinkTyped, LinkSafe, Begin PROVE LinkSafe'
  <1>1. new'.key = drawn + 1 /\ new'.bundle = NoBundle /\ new'.ans.bundle = NoBundle /\ new'.phase = "starting"
    BY DEF Begin, NoLink, NoAnswer
  <1>2. drawn + 1 # RelayKey
    BY KeyFacts, Bounds DEF LinkTyped, RestTyped, RelayKey, Begin
  <1>3. NewSafe'
    BY <1>1, <1>2, Zenon DEF NewSafe, Sent, RelayKey
  <1> QED BY <1>3, RowsFrame, TabFrame, RestFrame DEF LinkSafe, Begin

LEMMA CreateRequestSafe == ASSUME LinkTyped, LinkSafe, CreateRequest PROVE LinkSafe'
  <1>1. NewSafe'
    BY StoppedSafe DEF LinkTyped, NewTyped, Links, LinkSafe, NewSafe, Sent, Stopped, CreateRequest
  <1>2. RowsSafe'
    BY CreatedSafe, RowsFrame DEF LinkTyped, LinkSafe, CreateRequest
  <1> QED BY <1>1, <1>2, TabFrame, RestFrame DEF LinkSafe, CreateRequest

LEMMA LateCreateSafe == ASSUME LinkTyped, LinkSafe, LateCreate PROVE LinkSafe'
  <1>1. RowsSafe'
    BY CreatedSafe, RowsFrame DEF LinkTyped, LinkSafe, LateCreate
  <1> QED BY <1>1, NewFrame, TabFrame, RestFrame DEF LinkSafe, LateCreate

LEMMA CollectSafe == ASSUME LinkTyped, LinkSafe, Collect PROVE LinkSafe'
  <1>1. new.id \in Ids /\ new.id \in IdOrNone
    BY KeyFacts DEF LinkTyped, NewTyped, Collect
  <1>2. rows' = rows \/ rows' = Removed(new.id)
    BY DEF Collect
  <1>3. RowsSafe'
    BY <1>1, <1>2, CancelledSafe DEF LinkTyped, LinkSafe, Cancelled, Collect
  <1>4. NewSafe'
    <2>1. new'.phase = "polled" /\ new'.key = new.key /\ new'.bundle = new.bundle
      BY DEF LinkTyped, NewTyped, Links, Collect
    <2>2. new'.ans.bundle \in {NoBundle, rows[new.id].bundle}
      <3>1. CASE new' = [new EXCEPT !.phase = "polled", !.ans = [NoAnswer EXCEPT !.code = "gone"]]
        BY <3>1 DEF LinkTyped, NewTyped, Links, NoAnswer
      <3>2. ASSUME NEW seen, new' = [new EXCEPT !.phase = "polled",
                                        !.ans = [code |-> "ok", ak |-> seen, bundle |-> rows[new.id].bundle]]
            PROVE  new'.ans.bundle = rows[new.id].bundle
        BY <3>2 DEF LinkTyped, NewTyped, Links
      <3> QED BY <3>1, <3>2 DEF Collect
    <2> QED BY <1>1, <2>1, <2>2 DEF LinkSafe, RowsSafe, NewSafe, Sent, Collect
  <1> QED BY <1>3, <1>4, TabFrame, RestFrame DEF LinkSafe, Collect

LEMMA PollAnsweredSafe == ASSUME LinkTyped, LinkSafe, PollAnswered PROVE LinkSafe'
  <1>1. new.id \in IdOrNone /\ (rows' = rows \/ Cancelled(new.id))
    BY DEF LinkTyped, NewTyped, Links, PollAnswered
  <1>2. RowsSafe'
    BY <1>1, CancelledSafe DEF LinkTyped, LinkSafe, PollAnswered
  <1>3. \/ new' = Stopped
        \/ /\ new'.phase \in {"waiting", "revealing"} /\ new'.key = new.key /\ new'.ans = NoAnswer
           /\ new'.bundle \in {new.bundle, new.ans.bundle}
    BY DEF LinkTyped, NewTyped, Links, PollAnswered
  <1>4. NewSafe'
    BY <1>3, StoppedSafe DEF LinkSafe, NewSafe, Sent, NoAnswer, PollAnswered
  <1> QED BY <1>2, <1>4, TabFrame, RestFrame DEF LinkSafe, PollAnswered

LEMMA RevealSafe == ASSUME LinkTyped, LinkSafe, Reveal PROVE LinkSafe'
  <1>1. new.id \in Ids
    BY DEF LinkTyped, NewTyped, Reveal
  <1>2. rows' = rows \/ rows' = [rows EXCEPT ![new.id].nk = new.key] \/ rows' = Removed(new.id)
    BY DEF Reveal
  <1>3. RowsSafe'
    BY <1>1, <1>2 DEF LinkTyped, RowsTyped, Rows, LinkSafe, RowsSafe, Sent, Removed, NoRow, Reveal
  <1>4. new'.phase = "revealed" /\ new'.key = new.key /\ new'.bundle = new.bundle /\ new'.ans.bundle = new.ans.bundle
    BY DEF LinkTyped, NewTyped, Links, Answers, Reveal
  <1>5. NewSafe'
    BY <1>4 DEF LinkSafe, NewSafe, Sent, Reveal
  <1> QED BY <1>3, <1>5, TabFrame, RestFrame DEF LinkSafe, Reveal

LEMMA RevealAnsweredSafe == ASSUME LinkTyped, LinkSafe, RevealAnswered PROVE LinkSafe'
  <1>1. new.id \in IdOrNone /\ (rows' = rows \/ Cancelled(new.id))
    BY DEF LinkTyped, NewTyped, Links, RevealAnswered
  <1>2. RowsSafe'
    BY <1>1, CancelledSafe DEF LinkTyped, LinkSafe, RevealAnswered
  <1>3. \/ new' = Stopped
        \/ new'.phase = "waiting" /\ new'.key = new.key /\ new'.bundle = new.bundle /\ new'.ans = NoAnswer
    BY DEF LinkTyped, NewTyped, Links, RevealAnswered
  <1>4. NewSafe'
    BY <1>3, StoppedSafe DEF LinkSafe, NewSafe, Sent, NoAnswer, RevealAnswered
  <1> QED BY <1>2, <1>4, TabFrame, RestFrame DEF LinkSafe, RevealAnswered

LEMMA PollSafe == ASSUME LinkTyped, LinkSafe, Poll \/ CodesMatch \/ LoseNew PROVE LinkSafe'
  <1>1. /\ new'.key = new.key /\ new'.bundle = new.bundle /\ new'.ans.bundle \in {new.ans.bundle, NoBundle}
        /\ new'.read = new.read /\ (new'.phase = "keeping" => new.phase = "keeping")
    <2>1. CASE Poll
      BY <2>1 DEF LinkTyped, NewTyped, Links, Poll
    <2>2. CASE CodesMatch
      BY <2>2 DEF LinkTyped, NewTyped, Links, CodesMatch
    <2>3. CASE LoseNew
      <3>1. [NoAnswer EXCEPT !.code = "lost"].bundle = NoBundle
        BY DEF NoAnswer
      <3> QED BY <2>3, <3>1 DEF LinkTyped, NewTyped, Links, LoseNew
    <2> QED BY <2>1, <2>2, <2>3
  <1>2. UNCHANGED <<rows, tab, typed, sealed, store>>
    BY DEF Poll, CodesMatch, LoseNew
  <1>3. NewSafe'
    BY <1>1, <1>2 DEF LinkSafe, NewSafe, Sent
  <1> QED BY <1>2, <1>3, RowsFrame, TabFrame, RestFrame DEF LinkSafe

LEMMA StopSafe == ASSUME LinkTyped, LinkSafe, Stop PROVE LinkSafe'
  <1>1. new.id \in IdOrNone /\ (rows' = rows \/ Cancelled(new.id))
    BY DEF LinkTyped, NewTyped, Links, Stop
  <1>2. RowsSafe'
    BY <1>1, CancelledSafe DEF LinkTyped, LinkSafe, Stop
  <1> QED BY <1>2, StoppedSafe, TabFrame, RestFrame DEF LinkSafe, Stop

(* The bundle is not empty, so a tab sent it; it opens only for the listed *)
(* identity, so that is the one it was sealed with.                        *)
LEMMA FinishReadSafe == ASSUME LinkTyped, LinkSafe, FinishRead PROVE LinkSafe'
  <1>1. ASSUME Opens(new.bundle, listed), store \in {0, listed}
        PROVE  NewSafe'
    <2>1. new' = [new EXCEPT !.phase = "keeping", !.read = [listed |-> listed, store |-> store]]
      BY <1>1 DEF FinishRead
    <2>2. /\ new'.key = new.key /\ new'.bundle = new.bundle /\ new'.ans = new.ans
          /\ new'.read.listed = listed /\ new'.read.store = store
      BY <2>1 DEF LinkTyped, NewTyped, Links
    <2>3. new.bundle \in sealed /\ new.bundle.identity = listed
      BY <1>1 DEF LinkSafe, NewSafe, Sent, Opens, FinishRead
    <2> QED BY <1>1, <2>2, <2>3 DEF LinkSafe, NewSafe, Sent, FinishRead
  <1>3. NewSafe'
    BY <1>1, StoppedSafe DEF FinishRead
  <1> QED BY <1>3, RowsFrame, TabFrame, RestFrame DEF LinkSafe, FinishRead

LEMMA FinishKeepSafe == ASSUME LinkTyped, LinkSafe, FinishKeep PROVE LinkSafe'
  <1>1. KeptIsSent'
    BY DEF LinkSafe, NewSafe, KeptIsSent, FinishKeep
  <1>2. SealedForTyped'
    BY DEF LinkSafe, SealedForTyped, FinishKeep
  <1> QED BY <1>1, <1>2, StoppedSafe, RowsFrame, TabFrame DEF LinkSafe, FinishKeep

-----------------------------------------------------------------------------
(* The trusted tabs' steps. *)

LEMMA TickSafe == ASSUME LinkTyped, LinkSafe, NEW t \in Tabs, Tick(t) PROVE LinkSafe'
  <1> DEFINE id == tab[t].id
             open == tab[t].phase = "open" /\ tab[t].send = "none"
             Listing(commit) == {[id |-> r, commit |-> IF commit = NoKey THEN rows[r].commit ELSE commit,
                                  claimed |-> rows[r].ak # NoKey] : r \in {r \in Ids : Visible(r)}}
             Taken(list, nk) ==
               \/ /\ tab' = [[tab EXCEPT ![t].list = list] EXCEPT ![t] = [Dropped(t) EXCEPT !.list = list]]
                  /\ rows' = rows \/ Cancelled(id)
               \/ nk # NoKey /\ tab' = [[tab EXCEPT ![t].list = list] EXCEPT ![t].nk = nk] /\ rows' = rows
               \/ tab' = [tab EXCEPT ![t].list = list] /\ rows' = rows
  <1>0. PICK commit \in {NoKey, RelayKey}, nk \in {NoKey, RelayKey, IF open THEN rows[id].nk ELSE NoKey} :
          /\ IF open /\ Visible(id) /\ tab[t].nk = NoKey
             THEN nk \in {rows[id].nk, RelayKey} /\ commit = NoKey /\ PassedOn(rows[id].nk, nk)
             ELSE nk = NoKey /\ IF commit = NoKey THEN UNCHANGED faults ELSE Fault("alter")
          /\ Taken(Listing(commit), nk)
    BY ZenonT(40) DEF Tick
  <1> DEFINE list == Listing(commit)
  <1>1. /\ \/ tab' = [[tab EXCEPT ![t].list = list] EXCEPT ![t] = [Dropped(t) EXCEPT !.list = list]]
           \/ nk # NoKey /\ tab' = [[tab EXCEPT ![t].list = list] EXCEPT ![t].nk = nk]
           \/ tab' = [tab EXCEPT ![t].list = list]
        /\ tab[t].nk = NoKey \/ nk = NoKey
        /\ rows' = rows \/ Cancelled(id)
    BY <1>0, Zenon
  <1> HIDE DEF Listing, list
  <1>2. id \in IdOrNone
    BY DEF LinkTyped, TabTyped, Claims
  <1>3. RowsSafe'
    BY <1>1, <1>2, CancelledSafe DEF LinkTyped, LinkSafe, Tick
  <1>4. PICK c : /\ tab' = [tab EXCEPT ![t] = c]
                 /\ \/ c = [Dropped(t) EXCEPT !.list = list]
                    \/ c = [tab[t] EXCEPT !.list = list]
                    \/ tab[t].nk = NoKey /\ c = [tab[t] EXCEPT !.list = list, !.nk = nk]
    BY <1>1 DEF LinkTyped, TabTyped, Claims
  <1>5. ClaimSafe(c)
    <2>1. ClaimSafe(tab[t]) /\ ClaimSafe(Dropped(t)) /\ tab[t] \in Claims /\ Dropped(t) \in Claims
      BY DroppedSafe, DroppedTyped DEF LinkTyped, TabTyped, LinkSafe, TabSafe
    <2> QED BY <1>4, <2>1, ZenonT(40) DEF ClaimSafe, Claims
  <1>6. TabSafe'
    BY <1>4, <1>5, ClaimKept DEF LinkTyped, LinkSafe, Tick
  <1> QED BY <1>3, <1>6, NewFrame, RestFrame DEF LinkSafe, Tick

LEMMA ClaimStepSafe == ASSUME LinkTyped, LinkSafe, NEW t \in Tabs, Claim(t) PROVE LinkSafe'
  <1>1. PICK row : tab' = [tab EXCEPT ![t].phase = "claiming", ![t].id = row.id,
                                      ![t].commit = row.commit, ![t].key = drawn + 1]
    BY DEF Claim
  <1> DEFINE k == drawn + 1
             c == [tab[t] EXCEPT !.phase = "claiming", !.id = row.id, !.commit = row.commit, !.key = k]
  <1>2. k # RelayKey
    BY KeyFacts, Bounds DEF LinkTyped, RestTyped, RelayKey, Claim
  <1>3. tab[t].phase = "none" /\ tab[t] \in Claims /\ ClaimSafe(tab[t])
    BY DEF LinkTyped, TabTyped, LinkSafe, TabSafe, Claim
  <1>4. tab' = [tab EXCEPT ![t] = c]
    BY <1>1, <1>3 DEF LinkTyped, TabTyped, Claims
  <1> HIDE DEF k
  <1>5. c.key = k /\ c.entered = tab[t].entered /\ c.send = tab[t].send
    BY <1>3 DEF Claims
  <1>6. ~tab[t].entered /\ tab[t].send = "none"
    BY <1>3 DEF ClaimSafe
  <1> HIDE DEF c
  <1>7. ClaimSafe(c)
    BY <1>2, <1>5, <1>6 DEF ClaimSafe
  <1>8. TabSafe'
    BY <1>4, <1>7, ClaimKept DEF LinkTyped, LinkSafe, Claim
  <1> QED BY <1>8, RowsFrame, NewFrame, RestFrame DEF LinkSafe, Claim

LEMMA ClaimRequestSafe == ASSUME LinkTyped, LinkSafe, NEW t \in Tabs, ClaimRequest(t) PROVE LinkSafe'
  <1>1. tab[t].id \in Ids
    BY DEF LinkTyped, TabTyped, ClaimRequest
  <1>2. rows' = rows \/ rows' = [rows EXCEPT ![tab[t].id].ak = tab[t].key]
    BY DEF ClaimRequest
  <1>3. RowsSafe'
    BY <1>1, <1>2 DEF LinkTyped, RowsTyped, Rows, LinkSafe, RowsSafe, Sent, ClaimRequest
  <1>4. PICK ok \in BOOLEAN : tab' = [tab EXCEPT ![t].phase = "claimed", ![t].ok = ok]
    BY Zenon DEF ClaimRequest
  <1> DEFINE c == [tab[t] EXCEPT !.phase = "claimed", !.ok = ok]
  <1>5. tab[t].phase = "claiming" /\ tab[t] \in Claims /\ ClaimSafe(tab[t])
    BY DEF LinkTyped, TabTyped, LinkSafe, TabSafe, ClaimRequest
  <1>6. tab' = [tab EXCEPT ![t] = c] /\ c.key = tab[t].key /\ c.entered = tab[t].entered /\ c.send = tab[t].send
    BY <1>4, <1>5 DEF LinkTyped, TabTyped, Claims
  <1> HIDE DEF c
  <1>7. TabSafe'
    BY <1>5, <1>6, ClaimKept DEF LinkTyped, LinkSafe, ClaimSafe, ClaimRequest
  <1> QED BY <1>3, <1>7, NewFrame, RestFrame DEF LinkSafe, ClaimRequest

(* A tab's claim is dropped, or keeps its keys, code and bundle. *)
LEMMA ClaimSettled ==
  ASSUME TabTyped, TabSafe, NEW t \in Tabs, typed' = typed, NEW c, tab' = [tab EXCEPT ![t] = c],
         \/ c = Dropped(t) \/ c = [NoClaim EXCEPT !.mounted = FALSE]
         \/ /\ c.key = tab[t].key /\ c.nk = tab[t].nk /\ c.id = tab[t].id /\ c.entered = tab[t].entered
            /\ c.phase \in {tab[t].phase, "open"}
            /\ c.send # "none" => tab[t].send # "none" /\ c.bundle = tab[t].bundle
  PROVE  TabSafe'
  <1>1. ClaimSafe(tab[t])
    BY DEF TabSafe
  <1>2. ClaimSafe([NoClaim EXCEPT !.mounted = FALSE])
    BY KeyFacts DEF ClaimSafe, NoClaim
  <1>3. ClaimSafe(c)
    BY <1>1, <1>2, DroppedSafe DEF ClaimSafe
  <1> QED BY <1>3, ClaimKept

LEMMA ClaimAnsweredSafe == ASSUME LinkTyped, LinkSafe, NEW t \in Tabs, ClaimAnswered(t) PROVE LinkSafe'
  <1>1. tab[t].id \in IdOrNone /\ (rows' = rows \/ Cancelled(tab[t].id)) /\ tab[t] \in Claims
    BY DEF LinkTyped, TabTyped, Claims, ClaimAnswered
  <1>2. RowsSafe'
    BY <1>1, CancelledSafe DEF LinkTyped, LinkSafe, ClaimAnswered
  <1>3. CASE tab' = [tab EXCEPT ![t] = Dropped(t)]
    <2>1. TabSafe'
      BY <1>3, ClaimSettled DEF LinkTyped, LinkSafe, ClaimAnswered
    <2> QED BY <1>2, <2>1, NewFrame, RestFrame DEF LinkSafe, ClaimAnswered
  <1>4. CASE tab' = [tab EXCEPT ![t].phase = "open"]
    <2> DEFINE c == [tab[t] EXCEPT !.phase = "open"]
    <2>1. /\ tab' = [tab EXCEPT ![t] = c] /\ c.key = tab[t].key /\ c.nk = tab[t].nk /\ c.id = tab[t].id
          /\ c.entered = tab[t].entered /\ c.phase = "open" /\ c.send = tab[t].send /\ c.bundle = tab[t].bundle
      BY <1>1, <1>4 DEF LinkTyped, TabTyped, Claims
    <2> HIDE DEF c
    <2>2. TabSafe'
      BY <2>1, ClaimSettled DEF LinkTyped, LinkSafe, ClaimAnswered
    <2> QED BY <1>2, <2>2, NewFrame, RestFrame DEF LinkSafe, ClaimAnswered
  <1> QED BY <1>3, <1>4 DEF ClaimAnswered

(* The code the user types is the newcomer's own, and this tab's. *)
LEMMA TypeCodeSafe == ASSUME LinkTyped, LinkSafe, NEW t \in Tabs, TypeCode(t) PROVE LinkSafe'
  <1>1. tab[t].key = new.pin /\ tab[t].nk = new.key /\ tab[t].id = new.id
    BY DEF TypeCode, ShownCode, TabCode, Code
  <1>2. tab[t].nk \notin {NoKey, RelayKey}
    BY <1>1 DEF LinkSafe, NewSafe, TypeCode
  <1> DEFINE c == [tab[t] EXCEPT !.entered = TRUE]
  <1>3. /\ tab' = [tab EXCEPT ![t] = c] /\ c.key = tab[t].key /\ c.nk = tab[t].nk /\ c.id = tab[t].id
        /\ c.phase = tab[t].phase /\ c.send = tab[t].send /\ c.bundle = tab[t].bundle
    BY DEF LinkTyped, TabTyped, Claims, TypeCode
  <1>4. typed' = typed \cup {Code(tab[t].id, tab[t].key, tab[t].nk)} /\ tab[t].phase = "open"
    BY DEF TypeCode, TabCode
  <1> HIDE DEF c
  <1>5. ASSUME NEW u \in Tabs PROVE ClaimSafe(tab[u])'
    <2>1. CASE u = t
      <3>1. tab'[u] = c
        BY <1>3, <2>1 DEF LinkTyped, TabTyped
      <3> QED BY <1>2, <1>3, <1>4, <3>1 DEF LinkSafe, TabSafe, ClaimSafe
    <2>2. CASE u # t
      <3>1. tab'[u] = tab[u]
        BY <1>3, <2>2 DEF LinkTyped, TabTyped
      <3> QED BY <1>4, <3>1 DEF LinkSafe, TabSafe, ClaimSafe
    <2> QED BY <2>1, <2>2
  <1>6. TabSafe'
    BY <1>5 DEF TabSafe, ClaimSafe
  <1>7. SealedForTyped' /\ KeptIsSent'
    BY <1>4 DEF LinkSafe, SealedForTyped, KeptIsSent, TypeCode
  <1> QED BY <1>6, <1>7, RowsFrame, NewFrame DEF LinkSafe, TypeCode

LEMMA SendSafe == ASSUME LinkTyped, LinkSafe, NEW t \in Tabs, Send(t) PROVE LinkSafe'
  <1>1. tab[t].id \in IdOrNone /\ (rows' = rows \/ Cancelled(tab[t].id)) /\ tab[t] \in Claims /\ ClaimSafe(tab[t])
    BY DEF LinkTyped, TabTyped, Claims, LinkSafe, TabSafe, Send
  <1>2. RowsSafe'
    BY <1>1, CancelledSafe DEF LinkTyped, LinkSafe, Send
  <1>3. ASSUME tab' = [tab EXCEPT ![t].send = "stepup", ![t].bundle = SealedBy(t)]
        PROVE  TabSafe'
    <2> DEFINE c == [tab[t] EXCEPT !.send = "stepup", !.bundle = SealedBy(t)]
    <2>1. /\ tab' = [tab EXCEPT ![t] = c] /\ c.key = tab[t].key /\ c.nk = tab[t].nk /\ c.id = tab[t].id
          /\ c.phase = tab[t].phase /\ c.entered = tab[t].entered /\ c.bundle = SealedBy(t)
      BY <1>1, <1>3 DEF LinkTyped, TabTyped, Claims
    <2>2. SealedBy(t).id = tab[t].id /\ SealedBy(t).ak = tab[t].key /\ SealedBy(t).nk = tab[t].nk
      BY DEF SealedBy
    <2> HIDE DEF c
    <2>3. ClaimSafe(c)
      BY <1>1, <2>1, <2>2 DEF ClaimSafe, Send
    <2> QED BY <2>1, <2>3, ClaimKept DEF LinkTyped, LinkSafe, Send
  <1>4. ASSUME tab' = [tab EXCEPT ![t] = Dropped(t)]
        PROVE  TabSafe'
    BY <1>4, ClaimSettled DEF LinkTyped, LinkSafe, Send
  <1>5. TabSafe'
    BY <1>3, <1>4 DEF Send, SealedBy
  <1> QED BY <1>2, <1>5, NewFrame, RestFrame DEF LinkSafe, Send

(* The steps of a send, a cancelled step-up, a lost answer, and leaving. *)
LEMMA ClaimGoesOn ==
  ASSUME LinkTyped, LinkSafe, NEW t \in Tabs, UNCHANGED <<typed, sealed, new, store>>,
         rows' = rows \/ Cancelled(tab[t].id),
         \/ tab' = [tab EXCEPT ![t] = Dropped(t)] \/ tab' = [tab EXCEPT ![t] = [NoClaim EXCEPT !.mounted = FALSE]]
         \/ tab' = [tab EXCEPT ![t].send = "none"]
         \/ \E s : tab[t].send # "none" /\ tab' = [tab EXCEPT ![t].send = s]
         \/ tab' = [tab EXCEPT ![t].mounted = FALSE, ![t].list = {}]
         \/ tab' = [tab EXCEPT ![t].mounted = TRUE]
  PROVE  LinkSafe'
  <1>1. tab[t].id \in IdOrNone /\ tab[t] \in Claims
    BY DEF LinkTyped, TabTyped, Claims
  <1>2. RowsSafe'
    BY <1>1, CancelledSafe DEF LinkTyped, LinkSafe
  <1>3. PICK c : /\ tab' = [tab EXCEPT ![t] = c]
                 /\ \/ c = Dropped(t) \/ c = [NoClaim EXCEPT !.mounted = FALSE]
                    \/ c = [tab[t] EXCEPT !.send = "none"]
                    \/ \E s : tab[t].send # "none" /\ c = [tab[t] EXCEPT !.send = s]
                    \/ c = [tab[t] EXCEPT !.mounted = FALSE, !.list = {}]
                    \/ c = [tab[t] EXCEPT !.mounted = TRUE]
    BY <1>1 DEF LinkTyped, TabTyped, Claims
  <1>4. \/ c = Dropped(t) \/ c = [NoClaim EXCEPT !.mounted = FALSE]
        \/ /\ c.key = tab[t].key /\ c.nk = tab[t].nk /\ c.id = tab[t].id /\ c.entered = tab[t].entered
           /\ c.phase \in {tab[t].phase, "open"}
           /\ c.send # "none" => tab[t].send # "none" /\ c.bundle = tab[t].bundle
    BY <1>1, <1>3, ZenonT(40) DEF Claims
  <1>5. TabSafe'
    BY <1>3, <1>4, ClaimSettled DEF LinkTyped, LinkSafe
  <1> QED BY <1>2, <1>5, NewFrame, RestFrame DEF LinkSafe

LEMMA StepUpSafe == ASSUME LinkTyped, LinkSafe, NEW t \in Tabs, StepUp(t) PROVE LinkSafe'
  BY ClaimGoesOn DEF StepUp
LEMMA ApprovedSafe == ASSUME LinkTyped, LinkSafe, NEW t \in Tabs, Approved(t) PROVE LinkSafe'
  BY ClaimGoesOn DEF Approved
LEMMA DropSafe == ASSUME LinkTyped, LinkSafe, NEW t \in Tabs, Drop(t) PROVE LinkSafe'
  BY ClaimGoesOn DEF Drop
LEMMA LeaveSafe == ASSUME LinkTyped, LinkSafe, NEW t \in Tabs, Leave(t) PROVE LinkSafe'
  BY ClaimGoesOn DEF Leave
LEMMA ReturnSafe == ASSUME LinkTyped, LinkSafe, NEW t \in Tabs, Return(t) PROVE LinkSafe'
  BY ClaimGoesOn DEF Return
LEMMA LoseTabSafe == ASSUME LinkTyped, LinkSafe, NEW t \in Tabs, LoseTab(t) PROVE LinkSafe'
  BY ClaimGoesOn DEF LoseTab

LEMMA NotMeSafe == ASSUME LinkTyped, LinkSafe, NEW t \in Tabs, NotMe(t) PROVE LinkSafe'
  <1>1. PICK row \in tab[t].list : Cancelled(row.id) /\ tab' = [tab EXCEPT ![t].list = @ \ {row}]
    BY DEF NotMe
  <1>2. row.id \in IdOrNone /\ tab[t] \in Claims /\ ClaimSafe(tab[t])
    BY KeyFacts DEF LinkTyped, TabTyped, Claims, Listings, LinkSafe, TabSafe
  <1>3. RowsSafe'
    BY <1>1, <1>2, CancelledSafe DEF LinkTyped, LinkSafe, NotMe
  <1> DEFINE c == [tab[t] EXCEPT !.list = @ \ {row}]
  <1>4. tab' = [tab EXCEPT ![t] = c]
    BY <1>1, <1>2 DEF LinkTyped, TabTyped, Claims
  <1>5. ClaimSafe(c)
    BY <1>2 DEF ClaimSafe, Claims
  <1>6. TabSafe'
    BY <1>4, <1>5, ClaimKept DEF LinkTyped, LinkSafe, NotMe
  <1> QED BY <1>3, <1>6, NewFrame, RestFrame DEF LinkSafe, NotMe

(* The relay gets what the tab sealed under the typed code. *)
LEMMA ApproveSafe == ASSUME LinkTyped, LinkSafe, NEW t \in Tabs, Approve(t) PROVE LinkSafe'
  <1> DEFINE b == tab[t].bundle
  <1>1. sealed' = sealed \cup {b} /\ typed' = typed /\ new' = new /\ store' = store
    BY DEF Approve
  <1>2. tab[t].id \in Ids /\ tab[t] \in Claims /\ ClaimSafe(tab[t]) /\ tab[t].send = "sent"
    BY DEF LinkTyped, TabTyped, LinkSafe, TabSafe, ClaimSafe, Approve
  <1>3. rows' = rows \/ rows' = [rows EXCEPT ![tab[t].id].bundle = b]
    BY DEF Approve
  <1>4. RowsSafe'
    BY <1>1, <1>2, <1>3 DEF LinkTyped, RowsTyped, Rows, LinkSafe, RowsSafe, Sent
  <1>5. NewSafe'
    BY <1>1 DEF LinkSafe, NewSafe, Sent
  <1>6. SealedForTyped'
    BY <1>1, <1>2 DEF LinkSafe, SealedForTyped, ClaimSafe
  <1>7. KeptIsSent'
    BY <1>1 DEF LinkSafe, KeptIsSent
  <1>8. PICK s : tab' = [tab EXCEPT ![t].send = s]
    BY DEF Approve
  <1> DEFINE c == [tab[t] EXCEPT !.send = s]
  <1>9. /\ tab' = [tab EXCEPT ![t] = c] /\ c.key = tab[t].key /\ c.nk = tab[t].nk /\ c.id = tab[t].id
        /\ c.entered = tab[t].entered /\ c.phase = tab[t].phase /\ c.bundle = tab[t].bundle
    BY <1>2, <1>8 DEF LinkTyped, TabTyped, Claims
  <1> HIDE DEF c
  <1>10. TabSafe'
    BY <1>1, <1>2, <1>9, ClaimSettled DEF LinkTyped, LinkSafe
  <1> QED BY <1>4, <1>5, <1>6, <1>7, <1>10 DEF LinkSafe

-----------------------------------------------------------------------------
(* Everything else. *)

LEMMA ExpireSafe == ASSUME LinkTyped, LinkSafe, NEW id \in Ids, Expire(id) PROVE LinkSafe'
  <1>1. RowsSafe'
    BY CancelledSafe, KeyFacts DEF LinkTyped, LinkSafe, Cancelled, Expire
  <1> QED BY <1>1, NewFrame, TabFrame, RestFrame DEF LinkSafe, Expire

(* A key another tab sets up is none that a link could have brought. *)
LEMMA OthersSafe ==
  ASSUME LinkTyped, LinkSafe,
         (\E s \in {"new", "trusted"} : Revoke(s)) \/ ResetIdentity \/ ForgetHere \/ OtherTabSetsUp
  PROVE  LinkSafe'
  <1>1. UNCHANGED <<rows, new, tab, typed, sealed>>
    BY DEF Revoke, ResetIdentity, ForgetHere, OtherTabSetsUp
  <1>2. store' = store \/ store' = listed + 1 + MaxResets
    BY DEF Revoke, ResetIdentity, ForgetHere, OtherTabSetsUp
  <1>3. KeptIsSent'
    BY <1>1, <1>2, Bounds DEF LinkTyped, RestTyped, LinkSafe, KeptIsSent
  <1>4. SealedForTyped'
    BY <1>1 DEF LinkSafe, SealedForTyped
  <1> QED BY <1>1, <1>3, <1>4, RowsFrame, NewFrame, TabFrame DEF LinkSafe

LEMMA StepSafe == LinkTyped /\ LinkSafe /\ [Next]_vars => LinkSafe'
  <1> SUFFICES ASSUME LinkTyped, LinkSafe, [Next]_vars PROVE LinkSafe'
    OBVIOUS
  <1>1. CASE UNCHANGED vars
    BY <1>1, RowsFrame, NewFrame, TabFrame, RestFrame DEF LinkSafe, vars
  <1>2. CASE Next
    BY <1>2, BeginSafe, CreateRequestSafe, LateCreateSafe, PollSafe, CollectSafe, PollAnsweredSafe, RevealSafe,
       RevealAnsweredSafe, StopSafe, FinishReadSafe, FinishKeepSafe, TickSafe, ClaimStepSafe, ClaimRequestSafe,
       ClaimAnsweredSafe, TypeCodeSafe, SendSafe, StepUpSafe, ApproveSafe, ApprovedSafe, DropSafe, NotMeSafe,
       LeaveSafe, ReturnSafe, LoseTabSafe, ExpireSafe, OthersSafe DEF Next
  <1> QED BY <1>1, <1>2

LEMMA LinkInvariant == Spec => [](LinkTyped /\ LinkSafe)
  <1>1. Init => LinkTyped /\ LinkSafe
    BY InitTyped, InitSafe
  <1>2. LinkTyped /\ LinkSafe /\ [Next]_vars => LinkTyped' /\ LinkSafe'
    BY StepTyped, StepSafe
  <1> QED BY <1>1, <1>2, PTL DEF Spec

(* The account's key is sealed only under a code the user typed, for the   *)
(* one-time keys the two browsers drew themselves, however many tabs and   *)
(* requests there are and whatever the relay passes on (revealedLink,      *)
(* confirmTypedCheckCode, sealLinkBundle).                                 *)
THEOREM KeySealedForTypedCode == Spec => []SealedForTyped
  BY LinkInvariant, PTL DEF LinkSafe

(* The key a link leaves in the newcomer's vault was sealed by a trusted   *)
(* tab for that identity (openLinkBundle, finishNewcomerLink).             *)
THEOREM KeptKeyWasSent == Spec => []KeptIsSent
  BY LinkInvariant, PTL DEF LinkSafe

(* No link replaces a key this browser keeps: the swap is against the copy *)
(* that was read, and only an absent or the listed key is read             *)
(* (finishNewcomerLink).                                                   *)
THEOREM OwnKeyIsKept == Spec => OwnKeyStays
  <1>1. LinkTyped /\ LinkSafe /\ [Next]_vars => [store # 0 => store' = store]_vars
    <2> SUFFICES ASSUME LinkSafe, Next, store # 0 PROVE store' = store
      BY DEF vars
    <2>1. CASE FinishKeep
      BY <2>1 DEF FinishKeep, LinkSafe, NewSafe
    <2>2. CASE OtherTabSetsUp
      BY <2>2 DEF OtherTabSetsUp
    <2>3. CASE store' = store
      BY <2>3
    <2> QED
      BY <2>1, <2>2, <2>3, ZenonT(40) DEF Next, Begin, CreateRequest, LateCreate, Poll, Collect, PollAnswered, Reveal,
         RevealAnswered, CodesMatch, Stop, FinishRead, Tick, Claim, ClaimRequest, ClaimAnswered, TypeCode, Send, StepUp,
         Approve, Approved, Drop, NotMe, Leave, Return, LoseTab, Expire, LoseNew, Revoke, ResetIdentity, ForgetHere
  <1> QED BY <1>1, LinkInvariant, PTL DEF OwnKeyStays, Spec
=============================================================================
