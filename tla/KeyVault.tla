------------------------------ MODULE KeyVault ------------------------------
(***************************************************************************)
(* One account's browser and the keys of one notebook: the key pass        *)
(* (web/src/keyService.ts, keyring.ts), colleague pins and key memory in   *)
(* the vault (storage.ts, pins.ts, PinnedKeys.tsx), the sharing floor of   *)
(* every tab (floors.ts, observe.ts), and the gate in front of every       *)
(* upload (outbound.ts).  The account is an owner and one colleague shares *)
(* the notebook.                                                           *)
(*                                                                         *)
(* The server is not trusted: it may serve an older state, list another    *)
(* key for the colleague, and hand out envelopes sealed with that key.     *)
(* What it cannot do is seal as an identity whose key it does not hold, so *)
(* an envelope carries the identity that really sealed it.  Every IndexedDB*)
(* transaction and every answer of the server is one step; tabs interleave *)
(* between them.                                                           *)
(***************************************************************************)
EXTENDS Integers, FiniteSets, FiniteSetsExt, Sequences

CONSTANTS
    Tabs,           \* tabs of this browser
    Colleague,      \* identity keys the server may list for the colleague
    MaxGen,         \* bound on key generations
    MaxKeys,        \* bound on container keys drawn
    MaxPasses,      \* bound on key passes, invitations and pin screens begun
    Faults,         \* what may happen, of AllFaults
    MaxFaults       \* bound on the faults in one behaviour

(* A server restored to an older state; an envelope replaced; the          *)
(* colleague's listed key replaced; a role or membership lost; a lost      *)
(* answer; a storage write refused; a tab reloaded.                        *)
AllFaults == {"restore", "forge", "swap", "retire", "lose", "storage", "reload"}

ASSUME VaultBounds ==
    /\ {MaxGen, MaxKeys, MaxPasses, MaxFaults} \subseteq Nat /\ MaxGen > 0
    /\ Faults \subseteq AllFaults
    /\ Colleague \subseteq Nat \ {0, 1} /\ Colleague # {}

VARIABLES
    srv,        \* the server's rows of this notebook
    backup,     \* the state before the last new generation
    drawn,      \* who drew each container key, in order of drawing
    pin,        \* the stored pin of the colleague; 0 for none
    ks,         \* the stored key memory of the notebook
    tab,        \* each tab
    passes,
    faults,
    pinned,     \* history: every key that was ever stored as the pin
    yes,        \* history: replacements <<was, new>> the user agreed to
    given,      \* history: keys this browser sealed for the colleague and sent
    sent        \* history: content sent

vars == <<srv, backup, drawn, pin, ks, tab, passes, faults, pinned, yes, given, sent>>

Me == 1
Gens == 1..MaxGen
Keys == 1..MaxKeys
NoEnv == [key |-> 0, from |-> 0, to |-> 0]
NoEnvs == [g \in Gens |-> NoEnv]
NoKeys == [g \in Gens |-> 0]
Floor0 == [shared |-> 0, gen |-> 0]
NoMemory == [mark |-> 0, digests |-> NoKeys, shared |-> 0, gen |-> 0]

Larger(a, b) == IF a > b THEN a ELSE b

(* mergeFloor, raiseFloor *)
Raised(floor, row) ==
    [floor EXCEPT !.shared = Larger(@, row.shared), !.gen = Larger(@, row.gen)]

(* storeKeyState: the mark rises, a stored digest stays. *)
Remembered(state) ==
    [Raised(ks, state) EXCEPT
        !.mark = Larger(@, state.mark),
        !.digests = [g \in Gens |-> IF ks.digests[g] # 0 THEN ks.digests[g] ELSE state.digests[g]]]

(* guardContainer: the server reports less than this device has seen. *)
Rollback(row, floor) == row.shared < floor.shared \/ row.gen < floor.gen

(* writeKey, writeKeyFor: the key of the reported generation, unless the   *)
(* floor of the tab is above it or not loaded.                             *)
WriteKey(t, row) ==
    IF tab[t].loaded /\ ~Rollback(row, tab[t].floor) /\ row.shared # 0 THEN tab[t].ring[row.gen] ELSE 0

NoPass == [phase |-> "idle", kind |-> "none", wrap |-> FALSE, row |-> Floor0, roll |-> FALSE,
           known |-> NoMemory, envs |-> NoEnvs, theirs |-> NoEnvs, ck |-> 0, role |-> "none",
           pin |-> 0, ring |-> NoKeys, save |-> NoMemory, mint |-> FALSE, grants |-> {}, key |-> 0,
           retried |-> FALSE]
NoDraft == [row |-> Floor0, key |-> 0]
NewTab == [loaded |-> FALSE, floor |-> Floor0, heard |-> Floor0, inbox |-> Floor0, seen |-> 0,
           ring |-> NoKeys, row |-> Floor0, draft |-> NoDraft, pass |-> NoPass]

Fault(kind) ==
    /\ kind \in Faults /\ faults < MaxFaults
    /\ faults' = faults + 1

(* A write of the vault record that may be refused. *)
KeptMemory(state) ==
    \/ ks' = Remembered(state) /\ UNCHANGED faults
    \/ UNCHANGED ks /\ Fault("storage")

-----------------------------------------------------------------------------
(* openKeyring on the rows for this browser: self and current stewards     *)
(* whose key matches the pin first, then pinned identities below the mark. *)

(* Mutant: only keys of this session are compared. *)
FitsHeld(g, key, known, kept) == kept[g] \in {0, key}

(* accept: the first key of a generation stays. *)
Fits(g, key, known, kept) ==
    IF kept[g] # 0 THEN key = kept[g] ELSE known.digests[g] \in {0, key}

(* Held keys pass the digest check too. *)
Kept(held, known) ==
    [g \in Gens |-> IF known.digests[g] \in {0, held[g]} THEN held[g] ELSE 0]

Trusted(env, p, ck, role) ==
    \/ env.from = Me
    \/ env.from = ck /\ role = "owner" /\ p \in {0, ck}

OpenKeyring(p, envs, ck, role, known, held) ==
    LET kept  == Kept(held, known)
        fits(g) == envs[g] # NoEnv /\ Fits(g, envs[g].key, known, kept)
        now   == {g \in Gens : fits(g) /\ Trusted(envs[g], p, ck, role)}
        mark  == Max(now \cup {known.mark})
        later == {g \in Gens : /\ fits(g) /\ ~Trusted(envs[g], p, ck, role)
                               /\ g < mark /\ p # 0 /\ envs[g].from = p}
        ring  == [g \in Gens |-> IF g \in now \cup later THEN envs[g].key ELSE kept[g]]
    IN  [ring |-> ring,
         fresh |-> p = 0 /\ \E g \in now : envs[g].from # Me,
         changed |-> p \notin {0, ck} /\ role = "owner" /\ \E g \in Gens : envs[g].from = ck,
         clash |-> {g \in Gens : envs[g] # NoEnv /\ Trusted(envs[g], p, ck, role) /\ ~fits(g)},
         known |-> [known EXCEPT !.mark = mark,
                      !.digests = [g \in Gens |-> IF known.digests[g] # 0 THEN known.digests[g] ELSE ring[g]]]]

(* planSweep and the pass's own filter: what this owner's browser seals. *)
Nothing == [mint |-> FALSE, grants |-> {}]
Wraps(p, opened) ==
    {x \in {"me", "them"} \X (Gens \ opened.clash) :
        /\ opened.ring[x[2]] # 0 /\ x[2] >= p.row.shared /\ x[2] <= p.row.gen
        /\ IF x[1] = "me" THEN p.envs[x[2]] = NoEnv
           ELSE p.role # "none" /\ p.theirs[x[2]].to # p.ck}
Recipients(p) == IF p.role = "none" THEN {"me"} ELSE {"me", "them"}

Plan(p, opened, recoverable) ==
    IF ~p.wrap THEN Nothing
    ELSE IF p.row.shared = 0
    THEN IF recoverable THEN [mint |-> TRUE, grants |-> Recipients(p) \X {p.row.gen + 1}] ELSE Nothing
    ELSE IF p.envs[p.row.gen] = NoEnv /\ p.theirs[p.row.gen] = NoEnv
    THEN [mint |-> TRUE, grants |-> Recipients(p) \X {p.row.gen + 1}]
    ELSE [mint |-> FALSE, grants |-> Wraps(p, opened)]

ForThem(plan) == \E x \in plan.grants : x[1] = "them"

-----------------------------------------------------------------------------
(* Floors. *)

(* publishFloor, raiseFloorIn: this tab's floor rises, the others are told. *)
(* A tab that never loaded the floor keeps what it hears as a minimum.      *)
Published(tabs, t, row) ==
    LET floor == Raised(Raised(tabs[t].floor, row), tabs[t].heard)
    IN  [u \in Tabs |-> IF u = t THEN [tabs[u] EXCEPT !.loaded = TRUE, !.floor = floor, !.heard = Floor0,
                                                      !.seen = Larger(@, row.gen)]
                        ELSE [tabs[u] EXCEPT !.inbox = Raised(@, floor)]]

(* channel.onmessage *)
Hear(t) ==
    /\ tab[t].inbox # Floor0
    /\ tab' = [tab EXCEPT ![t].inbox = Floor0,
                 ![t].floor = IF tab[t].loaded THEN Raised(@, tab[t].inbox) ELSE @,
                 ![t].heard = IF tab[t].loaded THEN @ ELSE Raised(@, tab[t].inbox),
                 ![t].seen = Larger(@, tab[t].inbox.gen)]
    /\ UNCHANGED <<srv, backup, drawn, pin, ks, passes, faults, pinned, yes, given, sent>>

-----------------------------------------------------------------------------
(* The key pass. *)

Idle(t) == tab[t].pass = NoPass
With(t, p) == tab' = [tab EXCEPT ![t].pass = p]

(* syncKeys: ensureFloor, then the pass; wrap is the caller's canWrap. *)
BeginPass(t, wrap) ==
    /\ Idle(t) /\ passes < MaxPasses
    /\ passes' = passes + 1
    /\ LET tabs == IF tab[t].loaded THEN tab ELSE Published(tab, t, ks)
       IN  tab' = [tabs EXCEPT ![t].pass = [NoPass EXCEPT !.phase = "begun", !.kind = "sync", !.wrap = wrap]]
    /\ UNCHANGED <<srv, backup, drawn, pin, ks, faults, pinned, yes, given, sent>>

(* api.container answers. *)
ReadRow(t) ==
    /\ tab[t].pass.phase = "begun"
    /\ With(t, [tab[t].pass EXCEPT !.phase = "row", !.row = [shared |-> srv.shared, gen |-> srv.gen]])
    /\ UNCHANGED <<srv, backup, drawn, pin, ks, passes, faults, pinned, yes, given, sent>>

(* observeContainer and the start of the pass: what was seen is published  *)
(* and stored before anything is used.                                     *)
Observe(t) ==
    LET p == tab[t].pass
        known == Raised(ks, p.row)
    IN  /\ p.phase = "row"
        /\ tab' = [Published(tab, t, known) EXCEPT
                     ![t].pass = [p EXCEPT !.phase = "observed", !.roll = Rollback(p.row, ks), !.known = known]]
        /\ KeptMemory(known)
        /\ UNCHANGED <<srv, backup, drawn, pin, passes, pinned, yes, given, sent>>

ReadEnvelopes(t) ==
    /\ tab[t].pass.phase = "observed"
    /\ With(t, [tab[t].pass EXCEPT !.phase = "envelopes", !.envs = srv.envs, !.theirs = srv.theirs])
    /\ UNCHANGED <<srv, backup, drawn, pin, ks, passes, faults, pinned, yes, given, sent>>

ReadMembers(t) ==
    /\ tab[t].pass.phase = "envelopes"
    /\ With(t, [tab[t].pass EXCEPT !.phase = "members", !.ck = srv.ck, !.role = srv.role])
    /\ UNCHANGED <<srv, backup, drawn, pin, ks, passes, faults, pinned, yes, given, sent>>

Opened(t, p) == OpenKeyring(p.pin, p.envs, p.ck, p.role, p.known, tab[t].ring)

(* trusted: this keyring's memory is what the pass saves. *)
Adopt(p, opened) == [p EXCEPT !.ring = opened.ring, !.save = Raised(opened.known, p.row)]

(* Mutant: keys rest on a pin that could not be stored. *)
PersistedAll(t, p) == Adopt(p, OpenKeyring(pin, p.envs, p.ck, p.role, p.known, tab[t].ring))

(* persistedOnly: only what the stored pins vouch for. *)
PersistedOnly(t, p) ==
    LET again == OpenKeyring(pin, p.envs, p.ck, p.role, p.known, tab[t].ring)
    IN  IF ~again.fresh THEN Adopt(p, again)
        ELSE [p EXCEPT !.ring = OpenKeyring(pin, NoEnvs, p.ck, p.role, p.known, tab[t].ring).ring,
                       !.save = p.known]
Stopped(t, p) == With(t, [PersistedOnly(t, p) EXCEPT !.phase = "done"])

(* What follows an opened keyring: ask about a changed key, store a        *)
(* first-contact pin, seal, or end.                                        *)
Decide(t, p, recoverable) ==
    LET opened == Opened(t, p)
        plan   == Plan(p, opened, recoverable)
        sealed == [Adopt(p, opened) EXCEPT !.mint = plan.mint, !.grants = plan.grants]
    IN  IF opened.changed \/ (ForThem(plan) /\ p.pin \notin {0, p.ck}) THEN [p EXCEPT !.phase = "asking"]
        ELSE IF opened.fresh THEN [sealed EXCEPT !.phase = "pinning"]
        ELSE IF plan.grants = {} THEN [sealed EXCEPT !.phase = "done"]
        ELSE [sealed EXCEPT !.phase = "sealing"]

Open(t, recoverable) ==
    LET p == [tab[t].pass EXCEPT !.pin = pin]
    IN  /\ p.phase = "members"
        /\ IF ~p.roll THEN With(t, Decide(t, p, recoverable))
           ELSE With(t, IF Opened(t, p).fresh THEN [PersistedOnly(t, p) EXCEPT !.phase = "done"]
                        ELSE [Adopt(p, Opened(t, p)) EXCEPT !.phase = "done"])
        /\ UNCHANGED <<srv, backup, drawn, pin, ks, passes, faults, pinned, yes, given, sent>>

(* confirmChangedKeys: the dialog shows both keys.  A background pass, a    *)
(* declined key and a superseded load answer no.                           *)
SayNo(t) ==
    LET p == tab[t].pass
    IN  /\ p.phase = "asking"
        /\ CASE p.kind = "sync" -> Stopped(t, p)
             [] p.kind = "invite" -> With(t, [p EXCEPT !.phase = "plain"])
             [] OTHER -> With(t, NoPass)
        /\ UNCHANGED <<srv, backup, drawn, pin, ks, passes, faults, pinned, yes, given, sent>>

(* trust (PinnedKeys) reads the colleague's key again before it asks. *)
SayYes(t) ==
    LET p == tab[t].pass
    IN  /\ p.phase = "asking" /\ (p.kind = "retrust" => srv.ck = p.ck)
        /\ yes' = yes \cup {<<p.pin, p.ck>>}
        /\ With(t, [p EXCEPT !.phase = "agreed"])
        /\ UNCHANGED <<srv, backup, drawn, pin, ks, passes, faults, pinned, given, sent>>

(* storeConfirmedPin: only while the stored pin is the one shown. *)
Replaces(p) == pin = p.pin

Confirm(t, recoverable) ==
    LET p == tab[t].pass
        after == [p EXCEPT !.pin = p.ck]
    IN  /\ p.phase = "agreed"
        /\ IF Replaces(p)
           THEN \/ /\ pin' = p.ck /\ pinned' = pinned \cup {p.ck} /\ UNCHANGED faults
                   /\ With(t, CASE p.kind = "sync" -> Decide(t, after, recoverable)
                                [] p.kind = "invite" -> [after EXCEPT !.phase = "ready"]
                                [] OTHER -> NoPass)
                \/ /\ Fault("storage") /\ UNCHANGED <<pin, pinned>>
                   /\ IF p.kind = "sync" THEN Stopped(t, p)
                      ELSE With(t, IF p.kind = "invite" THEN [p EXCEPT !.phase = "plain"] ELSE NoPass)
           ELSE /\ UNCHANGED <<pin, pinned, faults>>
                /\ IF p.kind = "sync" THEN Stopped(t, p)
                   ELSE With(t, IF p.kind = "invite" THEN [p EXCEPT !.phase = "plain"] ELSE NoPass)
        /\ UNCHANGED <<srv, backup, drawn, ks, passes, yes, given, sent>>

(* Mutant: a first-contact pin replaces one another tab stored meanwhile. *)
PinFreeAnyway(p) == TRUE

(* storePins: add-only; another key stored meanwhile is a conflict. *)
PinFree(p) == pin \in {0, p.ck}

(* store.addFresh of a first-contact pin, before its keys are used or      *)
(* anything sealed for it is sent.                                         *)
StorePin(t) ==
    LET p == tab[t].pass
        next == CASE p.kind = "invite" -> "ready"
                  [] p.kind = "sync" /\ p.phase = "pinning" /\ p.grants # {} -> "sealing"
                  [] p.kind = "sync" /\ p.phase = "pinning" /\ p.grants = {} -> "done"
                  [] OTHER -> "sealed"
    IN  /\ p.phase \in {"pinning", "sealedfresh"}
        /\ \/ /\ PinFree(p) /\ pin' = p.ck /\ pinned' = pinned \cup {p.ck} /\ UNCHANGED faults
              /\ With(t, [p EXCEPT !.phase = next, !.pin = p.ck])
           \/ /\ UNCHANGED <<pin, pinned>>
              /\ IF PinFree(p) THEN Fault("storage") ELSE UNCHANGED faults
              /\ IF p.kind = "sync" THEN Stopped(t, p) ELSE With(t, [p EXCEPT !.phase = "plain"])
        /\ UNCHANGED <<srv, backup, drawn, ks, passes, yes, given, sent>>

(* Mutant: rows leave before the first pin of their recipient is kept. *)
SealedUnpinned(p) == "sealed"

SealedPhase(p) == IF ForThem(p) /\ p.pin = 0 THEN "sealedfresh" ELSE "sealed"

(* sealAll: a new key is drawn for a mint.  A colleague sealed for the     *)
(* first time is pinned before the rows leave.                             *)
Seal(t) ==
    LET p == tab[t].pass
    IN  /\ p.phase = "sealing"
        /\ IF p.mint
           THEN /\ Len(drawn) < MaxKeys /\ p.row.gen < MaxGen
                /\ drawn' = Append(drawn, Me)
                /\ With(t, [p EXCEPT !.key = Len(drawn) + 1, !.phase = SealedPhase(p)])
           ELSE /\ UNCHANGED drawn
                /\ With(t, [p EXCEPT !.phase = SealedPhase(p)])
        /\ UNCHANGED <<srv, backup, pin, ks, passes, faults, pinned, yes, given, sent>>

-----------------------------------------------------------------------------
(* The server's answers to what the pass writes. *)

SealedKey(p, g) == IF p.mint THEN p.key ELSE p.ring[g]
Row(p, g, to) == [key |-> SealedKey(p, g), from |-> Me, to |-> to]
ToMe(p, envs) == [g \in Gens |-> IF <<"me", g>> \in p.grants THEN Row(p, g, Me) ELSE envs[g]]
ToThem(p, envs) == [g \in Gens |-> IF <<"them", g>> \in p.grants THEN Row(p, g, p.ck) ELSE envs[g]]

RecipientsFit(p) == IF p.mint THEN (srv.role # "none") = ForThem(p) /\ (ForThem(p) => srv.ck = p.ck)
                    ELSE ForThem(p) => srv.role # "none" /\ srv.ck = p.ck
Exists(p) == \/ p.mint /\ srv.gen # p.row.gen
             \/ ~p.mint /\ \E x \in p.grants : IF x[1] = "me" THEN srv.envs[x[2]] # NoEnv
                                             ELSE srv.theirs[x[2]].to = p.ck
Accepted(p) ==
    IF p.mint
    THEN [srv EXCEPT !.gen = @ + 1, !.shared = IF @ = 0 THEN srv.gen + 1 ELSE @,
                     !.envs = ToMe(p, @), !.theirs = ToThem(p, @)]
    ELSE [srv EXCEPT !.envs = ToMe(p, @), !.theirs = ToThem(p, @)]

(* After a mint: the new keyring, and one more plan for older generations. *)
Minted(p) ==
    LET row    == [shared |-> IF p.row.shared = 0 THEN p.row.gen + 1 ELSE p.row.shared, gen |-> p.row.gen + 1]
        q      == [p EXCEPT !.row = row, !.envs = ToMe(p, p.envs), !.theirs = ToThem(p, p.theirs)]
        after  == OpenKeyring(q.pin, q.envs, q.ck, q.role, q.known, q.ring)
        plan   == Plan(q, after, TRUE)
    IN  [Adopt(q, after) EXCEPT !.mint = FALSE, !.grants = plan.grants,
                                !.phase = IF plan.grants = {} THEN "done" ELSE "sealed"]

(* A step-up, then rotate or putEnvelopes.  Another steward's write first  *)
(* is retried once from fresh state; a failed wrap after a mint is left to *)
(* the next pass; anything else fails the pass.                            *)
Upload(t) ==
    LET p == tab[t].pass
        history == ~p.mint /\ p.key # 0
        to == IF ForThem(p) THEN {[key |-> SealedKey(p, x[2]), to |-> p.ck] : x \in {y \in p.grants : y[1] = "them"}}
              ELSE {}
    IN  /\ p.phase = "sealed"
        /\ given' = given \cup to
        /\ \/ /\ ~Exists(p) /\ RecipientsFit(p)
              /\ srv' = Accepted(p) /\ backup' = IF p.mint THEN srv ELSE backup
              /\ \/ /\ UNCHANGED faults
                    /\ IF p.mint THEN tab' = [Published(tab, t, Minted(p).row) EXCEPT ![t].pass = Minted(p)]
                       ELSE With(t, [p EXCEPT !.phase = "done"])
                 \/ Fault("lose") /\ With(t, [p EXCEPT !.phase = IF history THEN "done" ELSE "failed"])
           \/ /\ Exists(p) \/ ~RecipientsFit(p)
              /\ With(t, [p EXCEPT !.phase = IF history THEN "done"
                                            ELSE IF Exists(p) /\ ~p.retried THEN "retry" ELSE "failed"])
              /\ UNCHANGED <<srv, backup, faults>>
        /\ UNCHANGED <<drawn, pin, ks, passes, pinned, yes, sent>>

(* The attempt's key memory is saved whatever happened; a pass that ended  *)
(* well replaces the tab's keyring and generations.                        *)
Finish(t) ==
    LET p == tab[t].pass
    IN  /\ p.phase \in {"done", "retry", "failed"}
        /\ KeptMemory(p.save)
        /\ tab' = CASE p.phase = "done" ->
                         [Published(tab, t, p.save) EXCEPT ![t].ring = p.ring, ![t].row = p.row, ![t].pass = NoPass]
                    [] p.phase = "retry" ->
                         [tab EXCEPT ![t].pass = [NoPass EXCEPT !.phase = "begun", !.kind = "sync",
                                                               !.wrap = p.wrap, !.retried = TRUE]]
                    [] OTHER -> [tab EXCEPT ![t].pass = NoPass]
        /\ UNCHANGED <<srv, backup, drawn, pin, passes, pinned, yes, given, sent>>

-----------------------------------------------------------------------------
(* Invitations with keys, the colleague keys screen, and content. *)

(* inviteWithKeys: keys go only when the floors allow them and the key is  *)
(* the one this device accepted.                                           *)
BeginInvite(t) ==
    LET row == tab[t].row
    IN  /\ Idle(t) /\ passes < MaxPasses /\ srv.role = "none"
        /\ passes' = passes + 1
        /\ tab[t].loaded /\ ~Rollback(row, Raised(tab[t].floor, ks))
        /\ row.shared # 0 /\ tab[t].ring[row.gen] # 0 /\ ks.digests[row.gen] = tab[t].ring[row.gen]
        /\ With(t, [NoPass EXCEPT !.phase = "inviting", !.kind = "invite", !.row = row,
                                  !.key = tab[t].ring[row.gen]])
        /\ UNCHANGED <<srv, backup, drawn, pin, ks, faults, pinned, yes, given, sent>>

ReadInvitee(t) ==
    LET p == [tab[t].pass EXCEPT !.ck = srv.ck, !.pin = pin]
    IN  /\ p.phase = "inviting"
        /\ With(t, [p EXCEPT !.phase = IF pin = 0 THEN "pinning" ELSE IF pin = srv.ck THEN "ready" ELSE "asking"])
        /\ UNCHANGED <<srv, backup, drawn, pin, ks, passes, faults, pinned, yes, given, sent>>

(* The server refuses a moved generation or another device; the invitation *)
(* then goes without keys.                                                 *)
SendInvite(t) ==
    LET p == tab[t].pass
    IN  /\ p.phase \in {"ready", "plain"}
        /\ given' = IF p.phase = "ready" THEN given \cup {[key |-> p.key, to |-> p.ck]} ELSE given
        /\ With(t, NoPass)
        /\ UNCHANGED <<srv, backup, drawn, pin, ks, passes, faults, pinned, yes, sent>>

ShowPins(t) ==
    /\ Idle(t) /\ passes < MaxPasses /\ pin \notin {0, srv.ck}
    /\ passes' = passes + 1
    /\ With(t, [NoPass EXCEPT !.phase = "asking", !.kind = "retrust", !.pin = pin, !.ck = srv.ck])
    /\ UNCHANGED <<srv, backup, drawn, pin, ks, faults, pinned, yes, given, sent>>

(* Content is sealed with the write key of now... *)
SealContent(t) ==
    /\ tab[t].draft = NoDraft /\ WriteKey(t, tab[t].row) # 0
    /\ tab' = [tab EXCEPT ![t].draft = [row |-> tab[t].row, key |-> WriteKey(t, tab[t].row)]]
    /\ UNCHANGED <<srv, backup, drawn, pin, ks, passes, faults, pinned, yes, given, sent>>

(* Mutant: what was sealed is sent. *)
GateOpen(t, draft) == TRUE

(* sendCiphertext: ...and leaves only if that is still so. *)
Gate(t, draft) == WriteKey(t, draft.row) # 0

SendContent(t) ==
    LET d == tab[t].draft
    IN  /\ d # NoDraft
        /\ sent' = IF Gate(t, d) THEN sent \cup {[gen |-> d.row.gen, key |-> d.key, seen |-> tab[t].seen]} ELSE sent
        /\ tab' = [tab EXCEPT ![t].draft = NoDraft]
        /\ UNCHANGED <<srv, backup, drawn, pin, ks, passes, faults, pinned, yes, given>>

-----------------------------------------------------------------------------
(* The server and the colleague. *)

ColleagueMint ==
    LET g == srv.gen + 1
        k == Len(drawn) + 1
    IN  /\ srv.role = "owner" /\ g <= MaxGen /\ k <= MaxKeys
        /\ drawn' = Append(drawn, srv.ck)
        /\ backup' = srv
        /\ srv' = [srv EXCEPT !.gen = g, !.shared = IF @ = 0 THEN g ELSE @,
                      !.envs[g] = [key |-> k, from |-> srv.ck, to |-> Me],
                      !.theirs[g] = [key |-> k, from |-> srv.ck, to |-> srv.ck]]
        /\ UNCHANGED <<pin, ks, tab, passes, faults, pinned, yes, given, sent>>

(* The colleague is demoted; or removed, which retires the key. *)
Retire ==
    /\ Fault("retire") /\ srv.role = "owner"
    /\ \/ srv' = [srv EXCEPT !.role = "editor"] /\ UNCHANGED backup
       \/ /\ srv.gen < MaxGen /\ backup' = srv
          /\ srv' = [srv EXCEPT !.role = "none", !.gen = @ + 1, !.theirs = NoEnvs]
    /\ UNCHANGED <<drawn, pin, ks, tab, passes, pinned, yes, given, sent>>

(* Another key is listed for the colleague: its own reset, which retires   *)
(* the notebook's key, or a substitution.                                  *)
Swap ==
    /\ Fault("swap")
    /\ \E ck \in Colleague \ {srv.ck} :
         \/ srv' = [srv EXCEPT !.ck = ck] /\ UNCHANGED backup
         \/ /\ srv.gen < MaxGen /\ srv.role # "none" /\ backup' = srv
            /\ srv' = [srv EXCEPT !.ck = ck, !.gen = @ + 1, !.theirs = NoEnvs]
    /\ UNCHANGED <<drawn, pin, ks, tab, passes, pinned, yes, given, sent>>

(* An envelope of any generation is replaced by one the listed key seals.  *)
Forge ==
    /\ Fault("forge") /\ Len(drawn) < MaxKeys
    /\ drawn' = Append(drawn, srv.ck)
    /\ \E g \in 1..srv.gen :
         srv' = [srv EXCEPT !.envs[g] = [key |-> Len(drawn) + 1, from |-> srv.ck, to |-> Me]]
    /\ UNCHANGED <<backup, pin, ks, tab, passes, pinned, yes, given, sent>>

Restore ==
    /\ Fault("restore") /\ srv # backup
    /\ srv' = backup
    /\ UNCHANGED <<backup, drawn, pin, ks, tab, passes, pinned, yes, given, sent>>

Reload(t) ==
    /\ Fault("reload") /\ tab[t] # NewTab
    /\ tab' = [tab EXCEPT ![t] = NewTab]
    /\ UNCHANGED <<srv, backup, drawn, pin, ks, passes, pinned, yes, given, sent>>

Server0 == [gen |-> 1, shared |-> 0, envs |-> NoEnvs, theirs |-> NoEnvs, ck |-> Min(Colleague), role |-> "owner"]

(* Pins are kept per account, so another notebook may have pinned the      *)
(* colleague before this one is opened.                                    *)
Init ==
    /\ srv = Server0 /\ backup = Server0
    /\ drawn = << >> /\ pin \in {0, Server0.ck} /\ ks = NoMemory
    /\ tab = [t \in Tabs |-> NewTab]
    /\ passes = 0 /\ faults = 0
    /\ pinned = {pin} \ {0} /\ yes = {} /\ given = {} /\ sent = {}

Next ==
    \/ \E t \in Tabs :
         \/ \E b \in BOOLEAN : BeginPass(t, b) \/ Open(t, b) \/ Confirm(t, b)
         \/ Hear(t) \/ ReadRow(t) \/ Observe(t) \/ ReadEnvelopes(t) \/ ReadMembers(t)
         \/ SayNo(t) \/ SayYes(t) \/ StorePin(t) \/ Seal(t) \/ Upload(t) \/ Finish(t)
         \/ BeginInvite(t) \/ ReadInvitee(t) \/ SendInvite(t) \/ ShowPins(t)
         \/ SealContent(t) \/ SendContent(t) \/ Reload(t)
    \/ ColleagueMint \/ Retire \/ Swap \/ Forge \/ Restore

Spec == Init /\ [][Next]_vars

-----------------------------------------------------------------------------
Vouched(key) == drawn[key] = Me \/ drawn[key] \in pinned

(* Every key a tab uses was drawn by this account or by an identity whose  *)
(* key this browser stored as the colleague's pin: a pass that could not   *)
(* keep a first-contact pin, or lost it to another tab, adopts nothing     *)
(* that rests on it (persistedOnly).                                       *)
RingIsVouched == \A t \in Tabs, g \in Gens : tab[t].ring[g] # 0 => Vouched(tab[t].ring[g])

(* A container key leaves this browser only sealed for a key that was the  *)
(* stored pin, and only a key it vouches for (sealFor, storePins before    *)
(* the upload).                                                            *)
GivenToPinned == \A e \in given : e.to \in pinned /\ Vouched(e.key)

(* A stored pin is only ever replaced by the replacement the user saw and  *)
(* agreed to, however many dialogs of however many tabs are open           *)
(* (storeConfirmedPin, storePins).                                         *)
PinReplacedByYes == [][pin # 0 /\ pin' # pin => <<pin, pin'>> \in yes]_vars

(* Content never leaves under a generation older than one this tab was     *)
(* told of, by the server, by its own memory or by another tab, whatever   *)
(* the server reports by now (sendCiphertext, floors.ts).                  *)
NoRetiredWrite == \A s \in sent : s.gen >= s.seen

(* A pass never ends with another key for a generation than the one this   *)
(* device had stored when the pass began (accept).                         *)
AgreesWithMemory ==
    [][\A t \in Tabs : tab[t].pass.phase = "done" /\ tab'[t].pass = NoPass =>
         \A g \in Gens : tab[t].pass.known.digests[g] # 0 /\ tab'[t].ring[g] # 0 =>
                           tab'[t].ring[g] = tab[t].pass.known.digests[g]]_vars
=============================================================================
