------------------------- MODULE IdentityLifeProofs -------------------------
(***************************************************************************)
(* TLAPS proofs about the account's identity, for any tabs, browsers,      *)
(* layouts, kinds of account, bounds and faults.  The first part of the    *)
(* invariant is about keys and copies (SomeoneHolds), the second about     *)
(* sessions (CopyOpens, ListedOnce).                                       *)
(***************************************************************************)
EXTENDS IdentityLife, TLAPS

-----------------------------------------------------------------------------
(* Types. *)

Phases == {"out", "idle", "mount", "leaving", "choose", "login", "upgrade", "vault", "load", "ensure", "winner",
           "put", "keep", "chg.live", "chg.step", "chg.send", "chg.keep", "sso.load", "sso.live", "sso.save",
           "sso.put", "sso.exists", "sso.finish", "rec.step", "rec.put", "res.live", "res.fetch", "res.keep",
           "rst.step", "rst.send", "rst.check", "rst.keep"}
Rows == [key : Nat, dev : Nat, pw : Nat, rec : Nat, code : Nat, seals : Nat]
Ids == [key : Nat, dev : Nat]
Vaults == [open : BOOLEAN, key : Nat, dev : Nat, sent : Nat]
Preps == [use : {"none", "setup", "reset"}, code : Nat, key : Nat, cur : Nat, ok : BOOLEAN]
TabStates == [at : Phases, status : {"unknown", "create", "orphaned", "link", "held"}, live : Rows, mem : Ids,
              prep : Preps, cur : Nat, old : Ids, srv : Rows, id : Ids, again : BOOLEAN, replace : BOOLEAN, code : Nat]
Sessions == [live : BOOLEAN, step : Nat]
Passes == [epoch : Nat, known : BOOLEAN, legacy : BOOLEAN]
Counters == [key : Nat, dev : Nat, rec : Nat, code : Nat, visit : Nat]

FixedTyped == account \in AllAccounts /\ home \in [Tabs -> Browsers]
ServerTyped ==
    /\ row \in Rows /\ pass \in Passes
    /\ session \in [Browsers -> Sessions]
VaultTyped == vault \in [Browsers -> Vaults]
RestTyped == minted \in Counters /\ faults \in Nat /\ paper \subseteq Nat /\ listed \subseteq Nat /\ givenUp \subseteq Nat
TabTyped == tab \in [Tabs -> TabStates]
LifeTyped == FixedTyped /\ ServerTyped /\ VaultTyped /\ RestTyped /\ TabTyped

-----------------------------------------------------------------------------
(* Keys and copies. *)

PasswordPhases == {"choose", "login", "upgrade", "vault", "load", "ensure", "winner", "put", "keep",
                   "chg.live", "chg.step", "chg.send", "chg.keep"}
SSOPhases == {"sso.load", "sso.live", "sso.save", "sso.put", "sso.exists", "sso.finish"}
RecoveryPhases == {"rec.step", "rec.put"}
ResetPhases == {"rst.step", "rst.send", "rst.check", "rst.keep"}

(* What a tab's memory is judged by: the server's row, the key in the      *)
(* vault of its browser, and what was made and given up so far.            *)
World(t) == [account |-> account, row |-> row, mine |-> vault[home[t]].key, paper |-> paper,
             key |-> minted.key, dev |-> minted.dev, given |-> givenUp]

Known(i, w) == i.key <= w.key /\ i.dev <= w.dev

(* The key k of a set-up is in the vault unless it was given up. *)
Kept(k, w) == k = 0 \/ k = w.mine \/ k \in w.given

RunSafe(x, w) ==
    /\ x.at \in PasswordPhases => w.account # "sso"
    /\ x.at \in SSOPhases => w.account = "sso"
    /\ x.at \in RecoveryPhases => x.prep.use = "setup"
    /\ x.at \in ResetPhases => x.prep.use = "reset" /\ x.prep.ok
    /\ x.at = "put" => x.id.key # 0 /\ x.cur # 0
    /\ x.at = "sso.live" /\ w.row.key = 0 => Kept(x.old.key, w)
    /\ x.at = "sso.save" => x.old.key = 0 /\ x.id.key # 0
    /\ x.at = "sso.put" => x.id.key # 0 /\ (w.row.key = 0 => Kept(x.id.key, w))
    /\ x.at = "sso.finish" => x.id.key = x.old.key
    /\ x.at \in {"res.keep", "rst.keep"} => w.row.rec # 0

MemorySafe(x, w) ==
    /\ Known(x.old, w) /\ Known(x.id, w) /\ Known(x.mem, w) /\ Known(x.srv, w)
    /\ x.live.key # 0 => w.row.key # 0
    /\ x.mem = NoId \/ x.mem.dev # 0
    /\ x.mem.dev # 0 /\ x.mem.dev = w.row.dev => x.mem.key = w.row.key
    /\ x.prep.use = "setup" => x.mem.dev # 0
    /\ x.prep.use = "reset" => /\ w.row.key # 0 /\ x.prep.key \in 1..w.key
                               /\ x.prep.key = w.row.key => w.row.rec # 0
    /\ x.prep.ok => x.prep.code \in w.paper

TabSafe(x, w) == RunSafe(x, w) /\ MemorySafe(x, w)
TabsSafe == \A t \in Tabs : TabSafe(tab[t], World(t))

VaultSafe == \A b \in Browsers : vault[b].key <= minted.key /\ vault[b].dev <= minted.dev

RowSafe ==
    /\ row.key <= minted.key /\ row.dev <= minted.dev /\ pass.epoch # 0
    /\ row.key = 0 => row.rec = 0 /\ minted.dev = 0 /\ listed = {}
    /\ row.key # 0 => row.dev # 0 /\ row.key \in listed
    /\ row.rec # 0 => row.code \in paper /\ row.seals = row.key

(* Without a recovery copy there is the password copy, on a single sign-on *)
(* account a vault.                                                        *)
Holders ==
    row.key # 0 /\ row.rec = 0 =>
        \/ row.key \in givenUp
        \/ account # "sso" /\ row.pw # 0
        \/ account = "sso" /\ \E b \in Browsers : vault[b].key = row.key

LifeSafe == RowSafe /\ VaultSafe /\ Holders /\ TabsSafe
LifeInv == LifeTyped /\ LifeSafe

-----------------------------------------------------------------------------
(* Sessions. *)

(* A tab alone in its browser has the step-up it made, and its session     *)
(* outlives no other reset.                                                *)
OwnSession(t) ==
    LET x == tab[t]
        s == Session(t)
    IN  /\ x.at = "put" /\ s.live => s.step = x.cur
        /\ x.at = "rst.send" /\ account # "sso" /\ s.live => s.step = x.prep.cur
        /\ x.prep.use = "reset" /\ x.prep.key \in listed /\ s.live => row.key = x.prep.key

SessionInv ==
    /\ \A t \in Tabs : ~Shares(t) => OwnSession(t)
    /\ \A t \in Tabs : tab[t].at = "login" => tab[t].prep.use # "reset"
    /\ listed \subseteq 1..minted.key /\ CopyOpens

-----------------------------------------------------------------------------
(* Types are kept. *)

(* A tab that moves to a typed state leaves the tabs typed. *)
LEMMA ToTyped ==
    ASSUME TabTyped, NEW t \in Tabs, NEW x \in TabStates, To(t, x)
    PROVE  TabTyped'
    BY DEF TabTyped, To

(* The parts of a typed tab. *)
LEMMA TabParts ==
    ASSUME NEW x \in TabStates
    PROVE  /\ x.at \in Phases /\ x.status \in {"unknown", "create", "orphaned", "link", "held"}
           /\ x.live \in Rows /\ x.mem \in Ids /\ x.prep \in Preps /\ x.cur \in Nat /\ x.old \in Ids
           /\ x.srv \in Rows /\ x.id \in Ids /\ x.again \in BOOLEAN /\ x.replace \in BOOLEAN /\ x.code \in Nat
    BY DEF TabStates

(* The empty values have their types. *)
LEMMA EmptyTyped ==
    NoRow \in Rows /\ NoId \in Ids /\ NoVault \in Vaults /\ NoPrep \in Preps /\ NewTab \in TabStates
    BY DEF NoRow, NoId, NoVault, NoPrep, NewTab, Rows, Ids, Vaults, Preps, TabStates, Phases

(* A run that ends keeps what the screen shows and forgets the rest. *)
LEMMA EndedIs ==
    ASSUME TabTyped, NEW t \in Tabs, NEW at \in Phases
    PROVE  LET x == Ended(t, at) IN
           /\ x \in TabStates /\ x.at = at /\ x.status = tab[t].status /\ x.live = tab[t].live
           /\ x.mem = tab[t].mem /\ x.prep = tab[t].prep /\ x.cur = 0 /\ x.old = NoId /\ x.srv = NoRow
           /\ x.id = NoId /\ x.again = FALSE /\ x.replace = FALSE /\ x.code = 0
    <1>1. tab[t] \in TabStates BY DEF TabTyped
    <1> QED BY <1>1, EmptyTyped DEF Ended, TabStates

(* A tab's vault, session, home and key pair are typed. *)
LEMMA TabViews ==
    ASSUME LifeTyped, NEW t \in Tabs
    PROVE  /\ tab[t] \in TabStates /\ home[t] \in Browsers /\ Vault(t) \in Vaults /\ Session(t) \in Sessions
           /\ Local(t) \in Ids /\ ListedId \in Ids /\ row \in Rows
           /\ Local(t).key = Vault(t).key /\ Local(t).dev = Vault(t).dev
           /\ ListedId.key = row.key /\ ListedId.dev = row.dev
    BY DEF LifeTyped, TabTyped, FixedTyped, ServerTyped, VaultTyped, Vault, Session, Local, ListedId, Vaults, Ids, Rows

-----------------------------------------------------------------------------
(* What a tab relies on stays true while the world grows. *)

Worlds == [account : AllAccounts, row : Rows, mine : Nat, paper : SUBSET Nat, key : Nat, dev : Nat,
           given : SUBSET Nat]

(* Counters, codes and given-up keys only grow; a row keeps its key and    *)
(* device, or gets a new device; while no identity of a single sign-on     *)
(* account is listed, a vault loses a key only when the key is given up.   *)
Grows(w, v) ==
    /\ v.account = w.account /\ w.key <= v.key /\ w.dev <= v.dev
    /\ w.paper \subseteq v.paper /\ w.given \subseteq v.given
    /\ w.row.key # 0 => v.row.key # 0
    /\ w.row.rec # 0 => v.row.rec # 0
    /\ \/ v.row.key = w.row.key /\ v.row.dev = w.row.dev
       \/ v.row.dev > w.dev /\ (w.row.key = 0 \/ v.row.rec # 0)
    /\ v.account = "sso" /\ v.row.key = 0 => v.mine = w.mine \/ w.mine = 0 \/ w.mine \in v.given

(* What a tab is judged by is typed. *)
LEMMA WorldTyped ==
    ASSUME LifeTyped, NEW t \in Tabs
    PROVE  World(t) \in Worlds
    BY DEF LifeTyped, FixedTyped, ServerTyped, VaultTyped, RestTyped, World, Worlds, Vaults, Counters

(* The parts of what a tab is judged by. *)
LEMMA WorldIs ==
    ASSUME NEW t
    PROVE  LET w == World(t) IN
           /\ w.account = account /\ w.row = row /\ w.mine = vault[home[t]].key /\ w.paper = paper
           /\ w.key = minted.key /\ w.dev = minted.dev /\ w.given = givenUp
    BY DEF World

(* What a tab relies on stays true in a grown world. *)
LEMMA SafeGrows ==
    ASSUME NEW x \in TabStates, NEW w \in Worlds, NEW v \in Worlds, TabSafe(x, w), Grows(w, v)
    PROVE  TabSafe(x, v)
    <1> /\ x.mem \in Ids /\ x.old \in Ids /\ x.id \in Ids /\ x.srv \in Rows /\ x.prep \in Preps
        /\ w.key \in Nat /\ v.key \in Nat /\ w.dev \in Nat /\ v.dev \in Nat /\ w.row \in Rows /\ v.row \in Rows
      BY DEF TabStates, Worlds
    <1>1. RunSafe(x, v)
      BY DEF TabSafe, RunSafe, Grows, Kept, SSOPhases
    <1>2. Known(x.old, v) /\ Known(x.id, v) /\ Known(x.mem, v) /\ Known(x.srv, v)
      BY DEF TabSafe, MemorySafe, Grows, Known, Ids, Rows
    <1>3. x.mem.dev # 0 /\ x.mem.dev = v.row.dev => x.mem.key = v.row.key
      BY DEF TabSafe, MemorySafe, Grows, Known, Ids, Rows
    <1>4. x.prep.use = "reset" => /\ v.row.key # 0 /\ x.prep.key \in 1..v.key
                                  /\ x.prep.key = v.row.key => v.row.rec # 0
      BY DEF TabSafe, MemorySafe, Grows, Preps, Rows
    <1> QED BY <1>1, <1>2, <1>3, <1>4 DEF TabSafe, MemorySafe, Grows

(* A tab that moves to a safe state while the world grows leaves all tabs safe. *)
LEMMA Moves ==
    ASSUME LifeTyped, LifeTyped', TabsSafe, NEW t \in Tabs, NEW x \in TabStates, To(t, x), TabSafe(x, World(t)'),
           \A u \in Tabs \ {t} : Grows(World(u), World(u)')
    PROVE  TabsSafe'
    <1> SUFFICES ASSUME NEW u \in Tabs PROVE TabSafe(tab'[u], World(u)')
      BY DEF TabsSafe
    <1>1. CASE u = t
      BY <1>1 DEF To, LifeTyped, TabTyped
    <1>2. CASE u # t
      <2>1. tab'[u] = tab[u] /\ tab[u] \in TabStates
        BY <1>2 DEF To, LifeTyped, TabTyped
      <2>2. World(u) \in Worlds /\ World(u)' \in Worlds
        BY WorldTyped DEF LifeTyped, FixedTyped, ServerTyped, VaultTyped, RestTyped, World, Worlds, Vaults, Counters
      <2> QED BY <1>2, <2>1, <2>2, SafeGrows DEF TabsSafe
    <1> QED BY <1>1, <1>2

(* The memory of a run is safe when what the screen shows stays. *)
LEMMA SameMemory ==
    ASSUME NEW x, NEW y, NEW w, MemorySafe(y, w), x.live = y.live, x.mem = y.mem, x.prep = y.prep,
           Known(x.old, w), Known(x.id, w), Known(x.srv, w)
    PROVE  MemorySafe(x, w)
    BY DEF MemorySafe

(* A tab outside a run, or one that only reads to restore, asks nothing.   *)
LEMMA FreeRun ==
    ASSUME NEW x, NEW w, x.at \in {"out", "idle", "mount", "leaving", "res.live", "res.fetch"}
    PROVE  RunSafe(x, w)
    BY DEF RunSafe, PasswordPhases, SSOPhases, RecoveryPhases, ResetPhases

(* Nothing is known too early. *)
LEMMA KnownEmpty ==
    ASSUME NEW w \in Worlds
    PROVE  Known(NoId, w) /\ Known(NoRow, w)
    BY DEF Known, NoId, NoRow, Worlds

(* A fresh tab relies on nothing in the phases of a start. *)
LEMMA NewTabSafe ==
    ASSUME NEW w \in Worlds, NEW at \in {"out", "mount", "leaving"}
    PROVE  LET x == [NewTab EXCEPT !.at = at] IN x \in TabStates /\ TabSafe(x, w)
    <1> DEFINE x == [NewTab EXCEPT !.at = at]
    <1>1. x \in TabStates /\ x.at = at /\ x.live = NoRow /\ x.mem = NoId /\ x.prep = NoPrep
          /\ x.old = NoId /\ x.id = NoId /\ x.srv = NoRow
      BY EmptyTyped DEF NewTab, TabStates, Phases
    <1> HIDE DEF x
    <1>2. RunSafe(x, w) BY <1>1, FreeRun
    <1>3. MemorySafe(x, w)
      BY <1>1, KnownEmpty DEF MemorySafe, NoRow, NoId, NoPrep
    <1> QED BY <1>1, <1>2, <1>3 DEF TabSafe, x

(* A closed tab relies on nothing. *)
LEMMA OutSafe == ASSUME NEW w \in Worlds PROVE TabSafe(NewTab, w)
    <1> DEFINE x == NewTab
    <1>1. x \in TabStates /\ x.at = "out" /\ x.live = NoRow /\ x.mem = NoId /\ x.prep = NoPrep
          /\ x.old = NoId /\ x.id = NoId /\ x.srv = NoRow
      BY EmptyTyped DEF NewTab
    <1> HIDE DEF x
    <1>2. RunSafe(x, w) BY <1>1, FreeRun
    <1>3. MemorySafe(x, w)
      BY <1>1, KnownEmpty DEF MemorySafe, NoRow, NoId, NoPrep
    <1> QED BY <1>1, <1>2, <1>3 DEF TabSafe, x

(* A run that ends leaves a safe tab. *)
LEMMA EndedSafe ==
    ASSUME LifeTyped, TabsSafe, NEW t \in Tabs,
           NEW at \in {"out", "idle", "mount"}
    PROVE  Ended(t, at) \in TabStates /\ TabSafe(Ended(t, at), World(t))
    <1> DEFINE x == Ended(t, at)
    <1>1. x \in TabStates /\ x.at = at /\ x.live = tab[t].live /\ x.mem = tab[t].mem /\ x.prep = tab[t].prep
          /\ x.old = NoId /\ x.id = NoId /\ x.srv = NoRow
      <2>1. at \in Phases /\ TabTyped BY DEF Phases, LifeTyped
      <2> QED BY <2>1, EndedIs
    <1> HIDE DEF x
    <1>2. RunSafe(x, World(t)) BY <1>1, FreeRun
    <1>3. MemorySafe(x, World(t))
      BY <1>1, KnownEmpty, WorldTyped, SameMemory DEF TabsSafe, TabSafe
    <1> QED BY <1>1, <1>2, <1>3 DEF TabSafe, x

(* A step of a tab that leaves the row, the vaults' keys, the counters of  *)
(* keys and devices, and the histories as they are.                        *)
LEMMA QuietStep ==
    ASSUME LifeInv, NEW t \in Tabs, NEW x, To(t, x), x \in TabStates, TabSafe(x, World(t)),
           UNCHANGED <<fixed, row, pass, paper, ghosts>>,
           minted' \in Counters, minted'.key = minted.key, minted'.dev = minted.dev,
           session' \in [Browsers -> Sessions], faults' \in Nat,
           vault' \in [Browsers -> Vaults],
           \A b \in Browsers : vault'[b].key = vault[b].key /\ vault'[b].dev = vault[b].dev
    PROVE  LifeInv'
    <1>1. LifeTyped'
      BY ToTyped DEF LifeInv, LifeTyped, FixedTyped, ServerTyped, VaultTyped, RestTyped, fixed, ghosts
    <1>2. RowSafe' /\ VaultSafe' /\ Holders'
      BY DEF LifeInv, LifeSafe, RowSafe, VaultSafe, Holders, fixed, ghosts
    <1>3. ASSUME NEW u \in Tabs PROVE World(u)' = World(u) /\ Grows(World(u), World(u)')
      <2>1. home[u] \in Browsers BY DEF LifeInv, LifeTyped, FixedTyped
      <2>2. World(u)' = World(u) BY <2>1 DEF World, fixed, ghosts
      <2>3. World(u) \in Worlds BY WorldTyped DEF LifeInv
      <2> QED BY <2>2, <2>3 DEF Grows, Worlds
    <1>4. TabsSafe'
      BY <1>1, <1>3, Moves DEF LifeInv, LifeSafe
    <1> QED BY <1>1, <1>2, <1>4 DEF LifeInv, LifeSafe

(* The parts of the invariant that a step of tab t starts from. *)
LEMMA StepStart ==
    ASSUME LifeInv, NEW t \in Tabs
    PROVE  /\ LifeTyped /\ TabTyped /\ TabsSafe
           /\ tab[t] \in TabStates /\ World(t) \in Worlds
           /\ RunSafe(tab[t], World(t)) /\ MemorySafe(tab[t], World(t))
           /\ minted \in Counters /\ faults \in Nat /\ session \in [Browsers -> Sessions] /\ vault \in [Browsers -> Vaults]
           /\ pass \in Passes /\ pass.epoch \in Nat
           /\ Known(Local(t), World(t)) /\ Known(row, World(t)) /\ Known(ListedId, World(t))
    <1>1. LifeTyped /\ TabTyped /\ TabsSafe /\ home[t] \in Browsers
          /\ minted \in Counters /\ faults \in Nat /\ session \in [Browsers -> Sessions] /\ vault \in [Browsers -> Vaults]
          /\ pass \in Passes /\ pass.epoch \in Nat
      BY DEF LifeInv, LifeSafe, LifeTyped, FixedTyped, ServerTyped, RestTyped, VaultTyped, Passes
    <1>2. tab[t] \in TabStates /\ World(t) \in Worlds BY <1>1, WorldTyped, TabViews
    <1>3. RunSafe(tab[t], World(t)) /\ MemorySafe(tab[t], World(t))
      BY <1>1 DEF TabsSafe, TabSafe
    <1>4. Known(row, World(t))
      BY WorldIs DEF LifeInv, LifeSafe, RowSafe, Known
    <1>5. Known(ListedId, World(t))
      BY <1>4 DEF ListedId, Known
    <1>6. Known(Local(t), World(t))
      BY <1>1, WorldIs DEF LifeInv, LifeSafe, VaultSafe, Known, Local, Vault
    <1> QED BY <1>1, <1>2, <1>3, <1>4, <1>5, <1>6

(* Sessions and vaults stay typed when one of them is set. *)
LEMMA EndedSession ==
    ASSUME session \in [Browsers -> Sessions], NEW b, NEW l \in BOOLEAN, NEW s \in Nat
    PROVE  /\ [session EXCEPT ![b] = [live |-> l, step |-> s]] \in [Browsers -> Sessions]
           /\ [session EXCEPT ![b].step = s] \in [Browsers -> Sessions]
           /\ [session EXCEPT ![b].live = l] \in [Browsers -> Sessions]
    BY DEF Sessions

(* Opening a vault changes none of its keys. *)
LEMMA OpenedVault ==
    ASSUME vault \in [Browsers -> Vaults], NEW b
    PROVE  LET v == [vault EXCEPT ![b].open = TRUE] IN
           v \in [Browsers -> Vaults] /\ \A c \in Browsers : v[c].key = vault[c].key /\ v[c].dev = vault[c].dev
    BY DEF Vaults

(* A fault leaves its counter a number. *)
LEMMA FaultTyped == ASSUME faults \in Nat, NEW k, Fault(k) PROVE faults' \in Nat
    BY DEF Fault

(* A quiet step that ends a run. *)
LEMMA QuietEnd ==
    ASSUME LifeInv, NEW t \in Tabs, NEW at \in {"out", "idle", "mount"}, Fails(t, at),
           UNCHANGED <<fixed, row, pass, vault, paper, ghosts>>, UNCHANGED minted,
           session' \in [Browsers -> Sessions], faults' \in Nat
    PROVE  LifeInv'
    <1>1. Ended(t, at) \in TabStates /\ TabSafe(Ended(t, at), World(t))
      BY EndedSafe, StepStart
    <1>2. To(t, Ended(t, at)) BY DEF Fails
    <1> QED BY <1>1, <1>2, QuietStep, StepStart

(* A quiet step that empties the tab. *)
LEMMA QuietNew ==
    ASSUME LifeInv, NEW t \in Tabs, NEW at \in {"out", "mount", "leaving"}, To(t, [NewTab EXCEPT !.at = at]),
           UNCHANGED <<fixed, row, pass, paper, ghosts>>,
           minted' \in Counters, minted'.key = minted.key, minted'.dev = minted.dev,
           session' \in [Browsers -> Sessions], faults' \in Nat,
           vault' \in [Browsers -> Vaults],
           \A b \in Browsers : vault'[b].key = vault[b].key /\ vault'[b].dev = vault[b].dev
    PROVE  LifeInv'
    BY NewTabSafe, QuietStep, StepStart

(* A tab that closes keeps the invariant. *)
LEMMA QuietOut ==
    ASSUME LifeInv, NEW t \in Tabs, To(t, NewTab), UNCHANGED <<fixed, row, pass, vault, paper, ghosts>>, UNCHANGED minted,
           session' \in [Browsers -> Sessions], faults' \in Nat
    PROVE  LifeInv'
    BY OutSafe, EmptyTyped, QuietStep, StepStart

(* A step of a run that leaves what the screen shows. *)
LEMMA RunMove ==
    ASSUME LifeInv, NEW t \in Tabs, NEW x, x.live = tab[t].live, x.mem = tab[t].mem, x.prep = tab[t].prep,
           Known(x.old, World(t)), Known(x.id, World(t)), Known(x.srv, World(t)), RunSafe(x, World(t))
    PROVE  TabSafe(x, World(t))
    BY StepStart, SameMemory DEF TabSafe

(* The phases by group, for the runs that start and go on. *)
LEMMA KnownParts ==
    ASSUME LifeInv, NEW t \in Tabs
    PROVE  /\ Known(tab[t].old, World(t)) /\ Known(tab[t].id, World(t)) /\ Known(tab[t].srv, World(t))
           /\ Known(NoId, World(t)) /\ Known(NoRow, World(t))
    BY StepStart, KnownEmpty DEF MemorySafe

-----------------------------------------------------------------------------
(* The invariant is kept, action by action: signing in. *)

(* A sign-in starts with an empty tab. *)
LEMMA SignInKeeps == ASSUME LifeInv, NEW t \in Tabs, SignIn(t) PROVE LifeInv'
    <1> DEFINE x == [NewTab EXCEPT !.at = "login", !.cur = pass.epoch]
               w == World(t)
    <1>1. x \in TabStates /\ x.at = "login" /\ x.live = NoRow /\ x.mem = NoId /\ x.prep = NoPrep
          /\ x.old = NoId /\ x.id = NoId /\ x.srv = NoRow
      BY EmptyTyped, StepStart, ZenonT(40) DEF NewTab, TabStates, Phases
    <1> To(t, x) /\ w.account # "sso" BY WorldIs DEF SignIn
    <1> HIDE DEF x
    <1>2. RunSafe(x, w)
      BY <1>1 DEF RunSafe, PasswordPhases, SSOPhases, RecoveryPhases, ResetPhases
    <1>3. MemorySafe(x, w)
      BY <1>1, KnownParts DEF MemorySafe, NoRow, NoId, NoPrep
    <1>4. minted' \in Counters /\ minted'.key = minted.key /\ minted'.dev = minted.dev
      BY StepStart DEF SignIn, Counters
    <1> QED BY <1>1, <1>2, <1>3, <1>4, QuietStep, StepStart DEF TabSafe, SignIn, server

(* The login answer brings the listed identity. *)
LEMMA LoginKeeps == ASSUME LifeInv, NEW t \in Tabs, Login(t) PROVE LifeInv'
    <1> DEFINE at == IF pass.known THEN "choose" ELSE IF pass.legacy THEN "upgrade" ELSE "vault"
               x == [tab[t] EXCEPT !.srv = row, !.at = at]
               w == World(t)
    <1>1. CASE tab[t].cur # pass.epoch
      BY <1>1, QuietEnd, StepStart DEF Login
    <1>2. CASE tab[t].cur = pass.epoch
      <2>1. x \in TabStates /\ x.at \in {"choose", "upgrade", "vault"} /\ x.live = tab[t].live /\ x.mem = tab[t].mem
            /\ x.prep = tab[t].prep /\ x.old = tab[t].old /\ x.id = tab[t].id /\ x.srv = row
        <3>1. at \in {"choose", "upgrade", "vault"} OBVIOUS
        <3>2. row \in Rows /\ tab[t] \in TabStates BY StepStart, TabViews
        <3> HIDE DEF at
        <3> QED BY <3>1, <3>2 DEF TabStates, Phases
      <2>2. To(t, x) BY <1>2 DEF Login
      <2> HIDE DEF x
      <2>3. RunSafe(x, w)
        BY <2>1, StepStart DEF Login, RunSafe, PasswordPhases, SSOPhases, RecoveryPhases, ResetPhases
      <2>4. TabSafe(x, w) BY <2>1, <2>3, RunMove, KnownParts, StepStart
      <2>5. session' \in [Browsers -> Sessions]
        <3>1. session' = [session EXCEPT ![home[t]] = [live |-> TRUE, step |-> 0]] BY <1>2 DEF Login
        <3> QED BY <3>1, StepStart, EndedSession
      <2> QED BY <2>1, <2>2, <2>4, <2>5, QuietStep, StepStart DEF Login
    <1> QED BY <1>1, <1>2

(* The vault is opened, or not; it keeps what it holds. *)
LEMMA OpenVaultKeeps == ASSUME LifeInv, NEW t \in Tabs, OpenVault(t) PROVE LifeInv'
    <1> DEFINE x == [tab[t] EXCEPT !.at = "load"]
               w == World(t)
    <1>1. x \in TabStates /\ x.at = "load" /\ x.live = tab[t].live /\ x.mem = tab[t].mem
          /\ x.prep = tab[t].prep /\ x.old = tab[t].old /\ x.id = tab[t].id /\ x.srv = tab[t].srv
      BY StepStart DEF TabStates, Phases
    <1>2. To(t, x) BY DEF OpenVault, Goto
    <1> HIDE DEF x
    <1>3. RunSafe(x, w)
      BY <1>1, StepStart DEF OpenVault, RunSafe, PasswordPhases, SSOPhases, RecoveryPhases, ResetPhases
    <1>4. TabSafe(x, w) BY <1>1, <1>3, RunMove, KnownParts
    <1>5. /\ vault' \in [Browsers -> Vaults]
          /\ \A b \in Browsers : vault'[b].key = vault[b].key /\ vault'[b].dev = vault[b].dev
      <2>1. vault' = vault \/ vault' = [vault EXCEPT ![home[t]].open = TRUE] BY DEF OpenVault
      <2>2. vault \in [Browsers -> Vaults] BY StepStart
      <2>3. CASE vault' = vault BY <2>2, <2>3
      <2>4. CASE vault' = [vault EXCEPT ![home[t]].open = TRUE] BY <2>2, <2>4, OpenedVault
      <2> QED BY <2>1, <2>3, <2>4
    <1>6. faults' \in Nat BY FaultTyped, StepStart DEF OpenVault
    <1> QED BY <1>1, <1>2, <1>4, <1>5, <1>6, QuietStep, StepStart DEF OpenVault, server

(* An answer opened with this sign-in's keys is kept next, or the run ends. *)
LEMMA OpenedSafe ==
    ASSUME LifeInv, NEW t \in Tabs, NEW answer \in Rows, Known(answer, World(t)), account # "sso"
    PROVE  LET x == Opened(t, answer) IN
           /\ x \in TabStates /\ TabSafe(x, World(t)) /\ x.at \in {"mount", "keep"}
    <1>1. CASE answer.pw = 0 \/ answer.pw # tab[t].cur
      <2>1. Opened(t, answer) = Ended(t, "mount") BY <1>1 DEF Opened
      <2>2. "mount" \in Phases BY DEF Phases
      <2> QED BY <2>1, <2>2, EndedSafe, EndedIs, StepStart, ZenonT(40)
    <1>2. CASE answer.pw # 0 /\ answer.pw = tab[t].cur
      <2> DEFINE x == [tab[t] EXCEPT !.at = "keep", !.id = [key |-> answer.key, dev |-> answer.dev]]
      <2>1. Opened(t, answer) = x BY <1>2 DEF Opened
      <2>2. x \in TabStates /\ x.at = "keep" /\ x.live = tab[t].live /\ x.mem = tab[t].mem
            /\ x.prep = tab[t].prep /\ x.old = tab[t].old /\ x.id = [key |-> answer.key, dev |-> answer.dev]
            /\ x.srv = tab[t].srv
        <3>1. [key |-> answer.key, dev |-> answer.dev] \in Ids /\ tab[t] \in TabStates BY StepStart DEF Ids, Rows
        <3> QED BY <3>1 DEF TabStates, Phases
      <2> HIDE DEF x
      <2>3. RunSafe(x, World(t))
        BY <2>2, WorldIs DEF RunSafe, PasswordPhases, SSOPhases, RecoveryPhases, ResetPhases
      <2>4. Known(x.id, World(t)) BY <2>2 DEF Known
      <2> QED BY <2>1, <2>2, <2>3, <2>4, RunMove, KnownParts
    <1> QED BY <1>1, <1>2

(* settlePasswordIdentity reads the vault, then opens the answer or goes on to create. *)
LEMMA LoadBeforeKeeps == ASSUME LifeInv, NEW t \in Tabs, LoadBefore(t) PROVE LifeInv'
    <1> DEFINE w == World(t)
               next == IF tab[t].srv.key # 0 THEN Opened(t, tab[t].srv) ELSE [tab[t] EXCEPT !.at = "ensure"]
               x == IF next.at \in {"keep", "ensure"} THEN [next EXCEPT !.old = Local(t)] ELSE next
    <1>1. account # "sso" /\ tab[t].at = "load"
      BY StepStart, WorldIs DEF LoadBefore, RunSafe, PasswordPhases
    <1>2. next \in TabStates /\ TabSafe(next, w) /\ next.at \in {"keep", "ensure", "mount"}
      <2>1. CASE tab[t].srv.key # 0
        BY <1>1, <2>1, OpenedSafe, KnownParts, StepStart, TabParts
      <2>2. CASE tab[t].srv.key = 0
        <3>1. next \in TabStates /\ next.at = "ensure" /\ next.live = tab[t].live /\ next.mem = tab[t].mem
              /\ next.prep = tab[t].prep /\ next.old = tab[t].old /\ next.id = tab[t].id /\ next.srv = tab[t].srv
          BY <2>2, StepStart DEF TabStates, Phases
        <3> HIDE DEF next
        <3>2. RunSafe(next, w)
          BY <1>1, <3>1, WorldIs DEF RunSafe, PasswordPhases, SSOPhases, RecoveryPhases, ResetPhases
        <3> QED BY <3>1, <3>2, RunMove, KnownParts
      <2> QED BY <2>1, <2>2
    <1>3. To(t, x) BY DEF LoadBefore
    <1> HIDE DEF next
    <1>4. x \in TabStates /\ TabSafe(x, w)
      <2>1. CASE next.at \in {"keep", "ensure"}
        <3>1. x \in TabStates /\ x.at = next.at /\ x.live = next.live /\ x.mem = next.mem
              /\ x.prep = next.prep /\ x.old = Local(t) /\ x.id = next.id /\ x.srv = next.srv
          <4>1. Local(t) \in Ids BY TabViews, StepStart
          <4> QED BY <1>2, <2>1, <4>1 DEF TabStates
        <3> HIDE DEF x
        <3>2. RunSafe(x, w)
          BY <1>2, <2>1, <3>1 DEF TabSafe, RunSafe, PasswordPhases, SSOPhases, RecoveryPhases, ResetPhases
        <3>3. MemorySafe(x, w)
          BY <1>2, <3>1, StepStart DEF TabSafe, MemorySafe
        <3> QED BY <3>1, <3>2, <3>3 DEF TabSafe
      <2>2. CASE ~(next.at \in {"keep", "ensure"})
        BY <1>2, <2>2
      <2> QED BY <2>1, <2>2
    <1> HIDE DEF x
    <1> QED BY <1>3, <1>4, QuietStep, StepStart DEF LoadBefore, server

(* The workspace reads the listed identity and the vault. *)
LEMMA MountKeeps == ASSUME LifeInv, NEW t \in Tabs, Mount(t) PROVE LifeInv'
    <1> DEFINE w == World(t)
               st == Status(Local(t), row)
               mem == IF st = "held" THEN Local(t) ELSE NoId
               e == Ended(t, "idle")
               prep == IF tab[t].prep.use = "setup" /\ st # "held" THEN NoPrep ELSE e.prep
               x == [e EXCEPT !.live = row, !.status = st, !.mem = mem, !.prep = prep]
    <1>1. CASE Session(t).live
      <2>1. To(t, x) BY <1>1, Zenon DEF Mount
      <2>2. st \in {"create", "orphaned", "link", "held"} /\ (st = "held" => Local(t).dev = row.dev /\ Local(t).key = row.key /\ row.key # 0)
        BY DEF Status
      <2>4. e \in TabStates /\ e.at = "idle" /\ e.old = NoId /\ e.id = NoId /\ e.srv = NoRow /\ e.prep = tab[t].prep
        <3>1. "idle" \in Phases BY DEF Phases
        <3> QED BY <3>1, EndedIs, StepStart
      <2>3. mem \in Ids /\ prep \in Preps /\ row \in Rows
        BY <2>4, EmptyTyped, TabViews, StepStart, TabParts
      <2> HIDE DEF e, st, mem, prep
      <2>5. x \in TabStates /\ x.at = "idle" /\ x.live = row /\ x.mem = mem /\ x.prep = prep
            /\ x.old = NoId /\ x.id = NoId /\ x.srv = NoRow
        BY <2>2, <2>3, <2>4 DEF TabStates
      <2> HIDE DEF x
      <2>6. RunSafe(x, w) BY <2>5, FreeRun
      <2>7. Known(mem, w) BY StepStart, KnownParts DEF mem
      <2>8. (mem = NoId \/ mem.dev # 0) /\ (mem.dev # 0 /\ mem.dev = row.dev => mem.key = row.key)
        BY <2>2 DEF mem, NoId, LifeInv, LifeSafe, RowSafe
      <2>9. /\ prep.use = "setup" => mem.dev # 0
            /\ prep.use = "reset" => /\ row.key # 0 /\ prep.key \in 1..w.key
                                     /\ prep.key = row.key => row.rec # 0
            /\ prep.ok => prep.code \in w.paper
        <3>1. row.key # 0 => row.dev # 0 BY DEF LifeInv, LifeSafe, RowSafe
        <3>2. prep = NoPrep \/ (prep = tab[t].prep /\ (prep.use = "setup" => st = "held")) BY <2>4 DEF prep
        <3>3. MemorySafe(tab[t], w) /\ w.row = row BY StepStart, WorldIs
        <3> QED BY <3>1, <3>2, <3>3, <2>2 DEF MemorySafe, NoPrep, mem
      <2>10. MemorySafe(x, w)
        BY <2>5, <2>7, <2>8, <2>9, KnownParts, WorldIs DEF MemorySafe
      <2> QED BY <2>1, <2>5, <2>6, <2>10, QuietStep, StepStart DEF Mount, TabSafe, server
    <1>2. CASE ~Session(t).live
      <2>1. To(t, NewTab) BY <1>2 DEF Mount
      <2> QED BY <2>1, QuietOut, StepStart DEF Mount, server
    <1> QED BY <1>1, <1>2

(* Closing the page, and ending the session, leave an empty tab. *)
LEMMA CloseKeeps == ASSUME LifeInv, NEW t \in Tabs, Close(t) \/ EndSession(t) PROVE LifeInv'
    <1>2. To(t, NewTab) BY DEF Close, EndSession
    <1>3. faults' \in Nat BY FaultTyped, StepStart DEF Close, EndSession
    <1>4. session' \in [Browsers -> Sessions]
      <2>1. session \in [Browsers -> Sessions] BY StepStart
      <2>2. CASE Close(t) BY <2>1, <2>2 DEF Close, server
      <2>3. CASE EndSession(t) BY <2>1, <2>3, EndedSession DEF EndSession
      <2> QED BY <2>2, <2>3
    <1> QED BY <1>2, <1>3, <1>4, QuietOut, StepStart DEF Close, EndSession, server

(* Cancelling a reset forgets what it prepared. *)
LEMMA CancelKeeps == ASSUME LifeInv, NEW t \in Tabs, Cancel(t) PROVE LifeInv'
    <1> DEFINE x == [tab[t] EXCEPT !.prep = NoPrep]
               w == World(t)
    <1>1. x \in TabStates /\ x.at = "idle" /\ x.live = tab[t].live /\ x.mem = tab[t].mem /\ x.prep = NoPrep
          /\ x.old = tab[t].old /\ x.id = tab[t].id /\ x.srv = tab[t].srv
      BY EmptyTyped, StepStart DEF Cancel, TabStates
    <1>2. To(t, x) BY DEF Cancel
    <1> HIDE DEF x
    <1>3. MemorySafe(x, w)
      BY <1>1, StepStart DEF MemorySafe, NoPrep
    <1> QED BY <1>1, <1>2, <1>3, FreeRun, QuietStep, StepStart DEF TabSafe, Cancel, server

(* A step that makes a key or notes a code on paper. *)
LEMMA GrowStep ==
    ASSUME LifeInv, NEW t \in Tabs, NEW x, To(t, x), x \in TabStates, TabSafe(x, World(t)'),
           UNCHANGED <<fixed, row, pass, vault, ghosts>>,
           minted' \in Counters, minted'.key >= minted.key, minted'.dev = minted.dev,
           paper \subseteq paper', paper' \subseteq Nat,
           session' \in [Browsers -> Sessions], faults' \in Nat
    PROVE  LifeInv'
    <1>1. LifeTyped'
      BY ToTyped DEF LifeInv, LifeTyped, FixedTyped, ServerTyped, VaultTyped, RestTyped, fixed, ghosts
    <1>2. minted.key \in Nat /\ minted'.key \in Nat /\ minted.dev \in Nat BY StepStart DEF Counters
    <1>3. RowSafe'
      BY <1>2, TabViews, StepStart DEF LifeInv, LifeSafe, RowSafe, ghosts, Rows
    <1>4. VaultSafe'
      BY <1>2, StepStart DEF LifeInv, LifeSafe, VaultSafe, Vaults
    <1>5. Holders'
      BY DEF LifeInv, LifeSafe, Holders, fixed, ghosts
    <1>6. ASSUME NEW u \in Tabs PROVE Grows(World(u), World(u)')
      BY <1>2 DEF World, fixed, ghosts, Grows
    <1>7. TabsSafe'
      BY <1>1, <1>6, Moves DEF LifeInv, LifeSafe
    <1> QED BY <1>1, <1>3, <1>4, <1>5, <1>7 DEF LifeInv, LifeSafe

(* The world after such a step. *)
LEMMA GrownWorld ==
    ASSUME LifeInv, NEW t \in Tabs,
           UNCHANGED <<fixed, row, vault, ghosts>>,
           minted' \in Counters, minted'.key >= minted.key, minted'.dev = minted.dev,
           paper \subseteq paper', paper' \subseteq Nat
    PROVE  LET w == World(t)' IN
           /\ w \in Worlds /\ RunSafe(tab[t], w) /\ MemorySafe(tab[t], w) /\ Known(NoId, w)
           /\ w.account = account /\ w.row = row /\ w.mine = Vault(t).key /\ w.paper = paper'
           /\ w.key = minted'.key /\ w.dev = minted.dev /\ w.given = givenUp
    <1> DEFINE w == World(t)'
    <1>1. /\ w.account = account /\ w.row = row /\ w.mine = Vault(t).key /\ w.paper = paper'
          /\ w.key = minted'.key /\ w.dev = minted.dev /\ w.given = givenUp
      BY DEF World, fixed, ghosts, Vault
    <1>2. w \in Worlds
      BY DEF LifeInv, LifeTyped, FixedTyped, ServerTyped, VaultTyped, RestTyped, World, Worlds, Vaults, Counters, fixed, ghosts
    <1>3. minted.key \in Nat /\ minted'.key \in Nat /\ minted.dev \in Nat BY StepStart DEF Counters
    <1>4. Grows(World(t), w)
      BY <1>3 DEF World, fixed, ghosts, Grows
    <1> HIDE DEF w
    <1>5. TabSafe(tab[t], w)
      BY <1>2, <1>4, SafeGrows, StepStart DEF TabSafe
    <1> QED BY <1>1, <1>2, <1>5, KnownEmpty DEF TabSafe, w

(* A step-up proves the password and nothing else. *)
LEMMA SteppedUpTyped ==
    ASSUME session \in [Browsers -> Sessions], NEW t, NEW e \in Nat, SteppedUp(t, e)
    PROVE  session' \in [Browsers -> Sessions]
    BY EndedSession DEF SteppedUp

(* ensureIdentity: the step-up, and a key made only while none is listed. *)
LEMMA EnsureKeeps == ASSUME LifeInv, NEW t \in Tabs, EnsureStepUp(t) PROVE LifeInv'
    <1>1. account # "sso"
      BY StepStart, WorldIs DEF EnsureStepUp, RunSafe, PasswordPhases
    <1>2. UNCHANGED <<fixed, row, pass, vault, faults, paper, ghosts>> BY DEF EnsureStepUp
    <1>3. tab[t].cur \in Nat BY StepStart, TabParts
    <1>4. CASE SteppedUp(t, tab[t].cur) /\ row.key # 0 /\ To(t, Opened(t, row)) /\ UNCHANGED minted
      <2>1. Opened(t, row) \in TabStates /\ TabSafe(Opened(t, row), World(t))
        BY <1>1, OpenedSafe, StepStart, TabViews
      <2> QED BY <1>2, <1>3, <1>4, <2>1, QuietStep, StepStart, SteppedUpTyped
    <1>5. CASE SteppedUp(t, tab[t].cur) /\ Fails(t, "mount") /\ UNCHANGED minted
      BY <1>2, <1>3, <1>5, QuietEnd, StepStart, SteppedUpTyped
    <1>6. CASE /\ SteppedUp(t, tab[t].cur) /\ row.key = 0
               /\ minted' = [minted EXCEPT !.key = @ + 1]
               /\ To(t, [tab[t] EXCEPT !.at = "put", !.id.key = minted.key + 1])
      <2> DEFINE x == [tab[t] EXCEPT !.at = "put", !.id.key = minted.key + 1]
                 w == World(t)'
      <2>1. minted' \in Counters /\ minted'.key = minted.key + 1 /\ minted'.dev = minted.dev /\ minted.key \in Nat
        BY <1>6, StepStart DEF Counters
      <2>2. /\ w \in Worlds /\ RunSafe(tab[t], w) /\ MemorySafe(tab[t], w)
            /\ w.account = account /\ w.row = row /\ w.key = minted.key + 1
        <3>1. minted'.key >= minted.key /\ paper \subseteq paper' /\ paper' \subseteq Nat
          BY <2>1, <1>2 DEF LifeInv, LifeTyped, RestTyped
        <3> QED BY <1>2, <2>1, <3>1, GrownWorld
      <2>3. x \in TabStates /\ x.at = "put" /\ x.live = tab[t].live /\ x.mem = tab[t].mem
            /\ x.prep = tab[t].prep /\ x.old = tab[t].old /\ x.srv = tab[t].srv /\ x.cur = tab[t].cur
            /\ x.id.key = minted.key + 1 /\ x.id.dev = tab[t].id.dev
        <3> DEFINE i == [tab[t].id EXCEPT !.key = minted.key + 1]
        <3>1. tab[t] \in TabStates /\ tab[t].id \in Ids BY StepStart, TabParts
        <3>2. i \in Ids /\ i.key = minted.key + 1 /\ i.dev = tab[t].id.dev BY <3>1, <2>1 DEF Ids
        <3>3. x = [tab[t] EXCEPT !.at = "put", !.id = i] BY <3>1 DEF TabStates
        <3> HIDE DEF i, x
        <3> QED BY <3>1, <3>2, <3>3 DEF TabStates, Phases
      <2> HIDE DEF x, w
      <2>4. x.cur # 0
        BY <1>6, <2>3 DEF SteppedUp, LifeInv, LifeSafe, RowSafe
      <2>5. RunSafe(x, w)
        BY <1>1, <2>1, <2>2, <2>3, <2>4 DEF RunSafe, PasswordPhases, SSOPhases, RecoveryPhases, ResetPhases
      <2>6. MemorySafe(x, w)
        <3>1. Known(x.id, w) BY <2>1, <2>2, <2>3 DEF Known, MemorySafe
        <3>2. Known(x.old, w) /\ Known(x.srv, w) BY <2>2, <2>3 DEF MemorySafe
        <3> QED BY <3>1, <3>2, <2>2, <2>3, SameMemory
      <2>7. minted'.key >= minted.key /\ paper \subseteq paper' /\ paper' \subseteq Nat
        BY <2>1, <1>2 DEF LifeInv, LifeTyped, RestTyped
      <2> QED BY <1>2, <1>3, <1>6, <2>1, <2>3, <2>5, <2>6, <2>7, GrowStep, StepStart, SteppedUpTyped DEF TabSafe, x, w
    <1>7. CASE Fails(t, "mount") /\ UNCHANGED <<session, minted>>
      BY <1>2, <1>7, QuietEnd, StepStart
    <1> QED BY <1>4, <1>5, <1>6, <1>7 DEF EnsureStepUp

-----------------------------------------------------------------------------
(* Single sign-on. *)

(* The retry starts again from the vault; a second failure ends the run. *)
LEMMA AgainSafe ==
    ASSUME LifeInv, NEW t \in Tabs, account = "sso"
    PROVE  Again(t) \in TabStates /\ TabSafe(Again(t), World(t))
    <1>1. CASE tab[t].again
      BY <1>1, EndedSafe, StepStart DEF Again
    <1>2. CASE ~tab[t].again
      <2> DEFINE e == Ended(t, "sso.load")
                 x == [e EXCEPT !.again = TRUE]
      <2>1. e \in TabStates /\ e.at = "sso.load" /\ e.live = tab[t].live /\ e.mem = tab[t].mem /\ e.prep = tab[t].prep
            /\ e.old = NoId /\ e.id = NoId /\ e.srv = NoRow
        <3>1. "sso.load" \in Phases /\ TabTyped BY StepStart DEF Phases
        <3> QED BY <3>1, EndedIs
      <2> HIDE DEF e
      <2>2. x \in TabStates /\ x.at = "sso.load" /\ x.live = tab[t].live /\ x.mem = tab[t].mem /\ x.prep = tab[t].prep
            /\ x.old = NoId /\ x.id = NoId /\ x.srv = NoRow
        BY <2>1 DEF TabStates
      <2> HIDE DEF x
      <2>3. RunSafe(x, World(t))
        BY <2>2, WorldIs DEF RunSafe, PasswordPhases, SSOPhases, RecoveryPhases, ResetPhases
      <2>4. x = Again(t) BY <1>2 DEF x, e, Again
      <2> QED BY <2>2, <2>3, <2>4, RunMove, KnownParts
    <1> QED BY <1>1, <1>2

(* finish names the key it compares with. *)
LEMMA FinishingSafe ==
    ASSUME NEW t \in Tabs, tab[t] \in TabStates, NEW w \in Worlds, MemorySafe(tab[t], w), w.account = "sso",
           NEW local \in Ids, NEW dev \in Nat, Known(local, w), dev <= w.dev
    PROVE  Finishing(t, local, dev) \in TabStates /\ TabSafe(Finishing(t, local, dev), w)
    <1> DEFINE i == [key |-> local.key, dev |-> dev]
               x == [tab[t] EXCEPT !.at = "sso.finish", !.old = local, !.id = i]
    <1>1. i \in Ids /\ i.key = local.key /\ i.dev = dev BY DEF Ids
    <1> HIDE DEF i
    <1>2. x \in TabStates /\ x.at = "sso.finish" /\ x.live = tab[t].live /\ x.mem = tab[t].mem
          /\ x.prep = tab[t].prep /\ x.old = local /\ x.id = i /\ x.srv = tab[t].srv
      BY <1>1 DEF TabStates, Phases
    <1> HIDE DEF x
    <1>3. RunSafe(x, w)
      BY <1>1, <1>2 DEF RunSafe, PasswordPhases, SSOPhases, RecoveryPhases, ResetPhases
    <1>4. Known(i, w) BY <1>1 DEF Known
    <1>5. MemorySafe(x, w) BY <1>2, <1>4, SameMemory DEF MemorySafe
    <1>6. x = Finishing(t, local, dev) BY DEF x, i, Finishing
    <1> QED BY <1>2, <1>3, <1>5, <1>6 DEF TabSafe

(* A visit opens the session and the vault of an empty tab. *)
LEMMA VisitKeeps == ASSUME LifeInv, NEW t \in Tabs, Visit(t) PROVE LifeInv'
    <1>1. minted' \in Counters /\ minted'.key = minted.key /\ minted'.dev = minted.dev
      BY StepStart DEF Visit, Counters
    <1>2. session' \in [Browsers -> Sessions]
      BY StepStart, EndedSession DEF Visit
    <1>3. /\ vault' \in [Browsers -> Vaults]
          /\ \A b \in Browsers : vault'[b].key = vault[b].key /\ vault'[b].dev = vault[b].dev
      <2>1. vault' = vault \/ vault' = [vault EXCEPT ![home[t]].open = TRUE] BY DEF Visit
      <2>2. vault \in [Browsers -> Vaults] BY StepStart
      <2>3. CASE vault' = vault BY <2>2, <2>3
      <2>4. CASE vault' = [vault EXCEPT ![home[t]].open = TRUE] BY <2>2, <2>4, OpenedVault
      <2> QED BY <2>1, <2>3, <2>4
    <1>4. faults' \in Nat BY FaultTyped, StepStart DEF Visit
    <1> QED BY <1>1, <1>2, <1>3, <1>4, QuietNew DEF Visit

(* The user asks for an identity; the vault is read first. *)
LEMMA SetUpKeeps == ASSUME LifeInv, NEW t \in Tabs, SetUp(t) PROVE LifeInv'
    <1> DEFINE r == tab[t].status = "orphaned"
               x == [tab[t] EXCEPT !.at = "sso.load", !.replace = r]
    <1>1. x \in TabStates /\ x.at = "sso.load" /\ x.live = tab[t].live /\ x.mem = tab[t].mem
          /\ x.prep = tab[t].prep /\ x.old = tab[t].old /\ x.id = tab[t].id /\ x.srv = tab[t].srv
      <2>1. r \in BOOLEAN /\ tab[t] \in TabStates BY StepStart
      <2> HIDE DEF r
      <2> QED BY <2>1 DEF TabStates, Phases
    <1>2. To(t, x) BY DEF SetUp
    <1> HIDE DEF x
    <1>3. RunSafe(x, World(t))
      BY <1>1, WorldIs DEF SetUp, RunSafe, PasswordPhases, SSOPhases, RecoveryPhases, ResetPhases
    <1>4. TabSafe(x, World(t)) BY <1>1, <1>3, RunMove, KnownParts
    <1> QED BY <1>1, <1>2, <1>4, QuietStep, StepStart DEF SetUp, server

(* What the vault holds when it is read is kept then. *)
LEMMA SetUpLoadKeeps == ASSUME LifeInv, NEW t \in Tabs, SetUpLoad(t) PROVE LifeInv'
    <1> DEFINE x == [tab[t] EXCEPT !.at = "sso.live", !.old = Local(t)]
    <1>1. x \in TabStates /\ x.at = "sso.live" /\ x.live = tab[t].live /\ x.mem = tab[t].mem
          /\ x.prep = tab[t].prep /\ x.old = Local(t) /\ x.id = tab[t].id /\ x.srv = tab[t].srv
      <2>1. tab[t] \in TabStates /\ Local(t) \in Ids BY StepStart, TabViews
      <2> QED BY <2>1 DEF TabStates, Phases
    <1>2. To(t, x) BY DEF SetUpLoad
    <1> HIDE DEF x
    <1>3. Local(t).key = World(t).mine BY WorldIs DEF Local, Vault
    <1>4. RunSafe(x, World(t))
      BY <1>1, <1>3, StepStart DEF SetUpLoad, RunSafe, Kept, PasswordPhases, SSOPhases, RecoveryPhases, ResetPhases
    <1>5. TabSafe(x, World(t)) BY <1>1, <1>4, RunMove, KnownParts, StepStart
    <1> QED BY <1>1, <1>2, <1>5, QuietStep, StepStart DEF SetUpLoad, server

(* After "already exists" the run finishes with its own key, or starts again. *)
LEMMA SetUpExistsKeeps == ASSUME LifeInv, NEW t \in Tabs, SetUpExists(t) PROVE LifeInv'
    <1>1. account = "sso"
      BY StepStart, WorldIs DEF SetUpExists, RunSafe, SSOPhases
    <1>2. UNCHANGED <<fixed, row, pass, session, vault, minted, faults, paper, ghosts>> BY DEF SetUpExists, server
    <1>3. CASE To(t, Finishing(t, tab[t].id, row.dev))
      <2>1. row.dev \in Nat /\ row.dev <= World(t).dev /\ tab[t].id \in Ids
        BY StepStart, TabViews, TabParts DEF Rows, Known
      <2>2. Finishing(t, tab[t].id, row.dev) \in TabStates /\ TabSafe(Finishing(t, tab[t].id, row.dev), World(t))
        BY <1>1, <2>1, FinishingSafe, StepStart, KnownParts, WorldIs
      <2> QED BY <1>2, <1>3, <2>2, QuietStep, StepStart
    <1>4. CASE To(t, Again(t))
      BY <1>1, <1>2, <1>4, AgainSafe, QuietStep, StepStart
    <1>5. CASE To(t, Ended(t, "idle"))
      BY <1>2, <1>5, QuietEnd, StepStart DEF Fails
    <1> QED BY <1>3, <1>4, <1>5 DEF SetUpExists

(* The server's answer decides: finish, link, send what is kept, or make a *)
(* key, which happens only when the vault held none.                       *)
LEMMA SetUpLiveKeeps == ASSUME LifeInv, NEW t \in Tabs, SetUpLive(t) PROVE LifeInv'
    <1> DEFINE local == tab[t].old
               w == World(t)
    <1>1. account = "sso" /\ tab[t].at = "sso.live"
      BY StepStart, WorldIs DEF SetUpLive, RunSafe, SSOPhases
    <1>2. UNCHANGED <<fixed, row, pass, session, vault, faults, paper, ghosts>> BY DEF SetUpLive, server
    <1>3. local \in Ids /\ Local(t) \in Ids /\ row \in Rows /\ tab[t] \in TabStates /\ w \in Worlds
          /\ Known(local, w) /\ Known(Local(t), w) /\ row.dev <= w.dev /\ row.dev \in Nat /\ w.account = "sso"
          /\ w.row = row
      BY <1>1, StepStart, TabViews, TabParts, KnownParts, WorldIs DEF Rows, Known
    <1>4. CASE UNCHANGED minted /\ \/ To(t, Finishing(t, local, row.dev))
                                   \/ To(t, Finishing(t, Local(t), row.dev))
      <2>1. ASSUME NEW l \in Ids, Known(l, w), To(t, Finishing(t, l, row.dev)) PROVE LifeInv'
        <3>1. Finishing(t, l, row.dev) \in TabStates /\ TabSafe(Finishing(t, l, row.dev), w)
          BY <1>3, <2>1, FinishingSafe, StepStart
        <3> QED BY <1>2, <1>4, <2>1, <3>1, QuietStep, StepStart
      <2> QED BY <1>3, <1>4, <2>1
    <1>5. CASE UNCHANGED minted /\ (Fails(t, "idle") \/ Fails(t, "mount"))
      BY <1>2, <1>5, QuietEnd, StepStart
    <1>6. CASE row.key = 0 /\ local.key # 0 /\ To(t, [tab[t] EXCEPT !.at = "sso.put", !.id = local]) /\ UNCHANGED minted
      <2> DEFINE x == [tab[t] EXCEPT !.at = "sso.put", !.id = local]
      <2>1. x \in TabStates /\ x.at = "sso.put" /\ x.live = tab[t].live /\ x.mem = tab[t].mem
            /\ x.prep = tab[t].prep /\ x.old = tab[t].old /\ x.id = tab[t].old /\ x.srv = tab[t].srv
        BY <1>3 DEF TabStates, Phases
      <2>2. To(t, x) BY <1>6
      <2> HIDE DEF x
      <2>3. RunSafe(x, w)
        BY <1>1, <1>3, <1>6, <2>1, StepStart DEF RunSafe, PasswordPhases, SSOPhases, RecoveryPhases, ResetPhases
      <2>4. TabSafe(x, w) BY <2>1, <2>3, RunMove, KnownParts
      <2> QED BY <1>2, <1>6, <2>1, <2>2, <2>4, QuietStep, StepStart
    <1>7. CASE /\ row.key = 0 /\ (local.key = 0 \/ local.dev # 0)
               /\ minted' = [minted EXCEPT !.key = @ + 1]
               /\ To(t, [tab[t] EXCEPT !.at = "sso.save", !.id = [key |-> minted.key + 1, dev |-> 0]])
      <2> DEFINE i == [key |-> minted.key + 1, dev |-> 0]
                 x == [tab[t] EXCEPT !.at = "sso.save", !.id = i]
                 v == World(t)'
      <2>1. minted' \in Counters /\ minted'.key = minted.key + 1 /\ minted'.dev = minted.dev /\ minted.key \in Nat
            /\ minted.dev \in Nat
        BY <1>7, StepStart DEF Counters
      <2>2. minted'.key >= minted.key /\ paper \subseteq paper' /\ paper' \subseteq Nat
        BY <2>1, <1>2 DEF LifeInv, LifeTyped, RestTyped
      <2>3. /\ v \in Worlds /\ RunSafe(tab[t], v) /\ MemorySafe(tab[t], v)
            /\ v.account = account /\ v.row = row /\ v.key = minted.key + 1 /\ v.dev = minted.dev
        BY <1>2, <2>1, <2>2, GrownWorld
      <2>4. i \in Ids /\ i.key = minted.key + 1 /\ i.dev = 0 BY <2>1 DEF Ids
      <2>5. To(t, x) BY <1>7
      <2> HIDE DEF i, v
      <2>6. x \in TabStates /\ x.at = "sso.save" /\ x.live = tab[t].live /\ x.mem = tab[t].mem
            /\ x.prep = tab[t].prep /\ x.old = local /\ x.srv = tab[t].srv /\ x.id = i
        BY <1>3, <2>4 DEF TabStates, Phases
      <2> HIDE DEF x
      <2>7. local.key = 0
        <3>1. minted.dev = 0 BY <1>7 DEF LifeInv, LifeSafe, RowSafe
        <3>2. w.dev = 0 BY <3>1, WorldIs
        <3> QED BY <1>3, <1>7, <3>2 DEF Known, Ids
      <2>8. RunSafe(x, v)
        BY <1>1, <2>1, <2>3, <2>4, <2>6, <2>7 DEF RunSafe, PasswordPhases, SSOPhases, RecoveryPhases, ResetPhases
      <2>9. MemorySafe(x, v)
        <3>1. Known(x.id, v) BY <2>1, <2>3, <2>4, <2>6 DEF Known
        <3>2. Known(x.old, v) /\ Known(x.srv, v) BY <2>3, <2>6 DEF MemorySafe
        <3> QED BY <3>1, <3>2, <2>3, <2>6, SameMemory
      <2> QED BY <1>2, <2>1, <2>2, <2>5, <2>6, <2>8, <2>9, GrowStep, StepStart DEF TabSafe, v
    <1>8. CASE UNCHANGED minted /\ To(t, Ended(t, "mount"))
      BY <1>2, <1>8, QuietEnd, StepStart DEF Fails
    <1> QED BY <1>4, <1>5, <1>6, <1>7, <1>8 DEF SetUpLive

-----------------------------------------------------------------------------
(* The password change. *)

(* A password change begins. *)
LEMMA ChangeBeginKeeps == ASSUME LifeInv, NEW t \in Tabs, ChangeBegin(t) PROVE LifeInv'
    <1> DEFINE o == IF Vault(t).dev # 0 THEN Local(t) ELSE NoId
               x == [tab[t] EXCEPT !.at = "chg.live", !.cur = pass.epoch, !.srv = NoRow, !.old = o]
    <1>1. o \in Ids /\ Known(o, World(t)) BY TabViews, EmptyTyped, StepStart, KnownParts
    <1>2. To(t, x) BY DEF ChangeBegin
    <1> HIDE DEF o
    <1>3. x \in TabStates /\ x.at = "chg.live" /\ x.live = tab[t].live /\ x.mem = tab[t].mem
          /\ x.prep = tab[t].prep /\ x.old = o /\ x.id = tab[t].id /\ x.srv = NoRow
      BY <1>1, EmptyTyped, StepStart, ZenonT(40) DEF TabStates, Phases
    <1> HIDE DEF x
    <1>4. RunSafe(x, World(t))
      BY <1>3, WorldIs DEF ChangeBegin, RunSafe, PasswordPhases, SSOPhases, RecoveryPhases, ResetPhases
    <1>5. TabSafe(x, World(t)) BY <1>1, <1>3, <1>4, RunMove, KnownParts
    <1> QED BY <1>2, <1>3, <1>5, QuietStep, StepStart DEF ChangeBegin, server

(* The change reads what is listed. *)
LEMMA ChangeLiveKeeps == ASSUME LifeInv, NEW t \in Tabs, ChangeLive(t) PROVE LifeInv'
    <1> DEFINE i == IF row.key # 0 /\ account = "password" /\ tab[t].old = ListedId THEN tab[t].old ELSE NoId
               x == [tab[t] EXCEPT !.at = "chg.step", !.srv = row]
               y == [tab[t] EXCEPT !.at = "chg.send", !.srv = row, !.id = i]
    <1>1. account # "sso" /\ World(t).account # "sso"
      BY StepStart, WorldIs DEF ChangeLive, RunSafe, PasswordPhases
    <1>2. UNCHANGED <<fixed, row, pass, session, vault, minted, faults, paper, ghosts>> BY DEF ChangeLive, server
    <1>3. To(t, Ended(t, "out")) \/ To(t, x) \/ To(t, y) BY DEF ChangeLive
    <1>4. i \in Ids /\ Known(i, World(t)) /\ row \in Rows /\ tab[t] \in TabStates
      BY TabViews, TabParts, EmptyTyped, StepStart, KnownParts
    <1> HIDE DEF i
    <1>5. x \in TabStates /\ x.at = "chg.step" /\ x.live = tab[t].live /\ x.mem = tab[t].mem
          /\ x.prep = tab[t].prep /\ x.old = tab[t].old /\ x.id = tab[t].id /\ x.srv = row
      BY <1>4 DEF TabStates, Phases
    <1>6. y \in TabStates /\ y.at = "chg.send" /\ y.live = tab[t].live /\ y.mem = tab[t].mem
          /\ y.prep = tab[t].prep /\ y.old = tab[t].old /\ y.id = i /\ y.srv = row
      BY <1>4 DEF TabStates, Phases
    <1> HIDE DEF x, y
    <1>7. RunSafe(x, World(t)) /\ RunSafe(y, World(t))
      BY <1>1, <1>5, <1>6 DEF RunSafe, PasswordPhases, SSOPhases, RecoveryPhases, ResetPhases
    <1>8. TabSafe(x, World(t)) BY <1>5, <1>7, RunMove, KnownParts, StepStart
    <1>9. TabSafe(y, World(t)) BY <1>4, <1>6, <1>7, RunMove, KnownParts, StepStart
    <1>10. CASE To(t, Ended(t, "out")) BY <1>2, <1>10, QuietEnd, StepStart DEF Fails
    <1> QED BY <1>2, <1>3, <1>5, <1>6, <1>8, <1>9, <1>10, QuietStep, StepStart

(* The change opens the copy under the current password. *)
LEMMA ChangeStepKeeps == ASSUME LifeInv, NEW t \in Tabs, ChangeStep(t) PROVE LifeInv'
    <1> DEFINE x == [tab[t] EXCEPT !.at = "chg.send", !.id = ListedId]
    <1>1. World(t).account # "sso"
      BY StepStart DEF ChangeStep, RunSafe, PasswordPhases
    <1>2. UNCHANGED <<fixed, row, pass, vault, minted, faults, paper, ghosts>> BY DEF ChangeStep
    <1>3. session' \in [Browsers -> Sessions]
      BY SteppedUpTyped, StepStart, TabParts DEF ChangeStep
    <1>4. To(t, x) \/ To(t, Ended(t, "idle")) BY DEF ChangeStep, Fails
    <1>5. x \in TabStates /\ x.at = "chg.send" /\ x.live = tab[t].live /\ x.mem = tab[t].mem
          /\ x.prep = tab[t].prep /\ x.old = tab[t].old /\ x.id = ListedId /\ x.srv = tab[t].srv
      <2>1. tab[t] \in TabStates /\ ListedId \in Ids BY StepStart, TabViews
      <2> QED BY <2>1 DEF TabStates, Phases
    <1> HIDE DEF x
    <1>6. RunSafe(x, World(t))
      BY <1>1, <1>5 DEF RunSafe, PasswordPhases, SSOPhases, RecoveryPhases, ResetPhases
    <1>7. TabSafe(x, World(t)) BY <1>5, <1>6, RunMove, KnownParts, StepStart
    <1>8. CASE To(t, Ended(t, "idle")) BY <1>2, <1>3, <1>8, QuietEnd, StepStart DEF Fails
    <1> QED BY <1>2, <1>3, <1>4, <1>5, <1>7, <1>8, QuietStep, StepStart

-----------------------------------------------------------------------------
(* The recovery code. *)

(* A code is made for an identity that is held, and so listed. *)
LEMMA PrepareKeeps == ASSUME LifeInv, NEW t \in Tabs, Prepare(t) PROVE LifeInv'
    <1> DEFINE p == [NoPrep EXCEPT !.use = "setup", !.code = minted.code + 1, !.key = tab[t].mem.key]
               x == [tab[t] EXCEPT !.prep = p]
    <1>1. minted' \in Counters /\ minted'.key = minted.key /\ minted'.dev = minted.dev /\ minted.code \in Nat
      BY StepStart DEF Prepare, Counters
    <1>2. tab[t] \in TabStates /\ tab[t].mem.key \in Nat BY StepStart, TabParts DEF Ids
    <1>3. p \in Preps /\ p.use = "setup" /\ p.ok = FALSE
      <2>1. NoPrep \in Preps /\ NoPrep.ok = FALSE BY EmptyTyped DEF NoPrep
      <2>2. p \in Preps /\ p.use = "setup"
        <3> DEFINE c == minted.code + 1
                   k == tab[t].mem.key
        <3>1. c \in Nat /\ k \in Nat BY <1>1, <1>2
        <3> HIDE DEF c, k
        <3>2. [NoPrep EXCEPT !.use = "setup", !.code = c, !.key = k] \in Preps
          BY <3>1, <2>1 DEF Preps
        <3>3. [NoPrep EXCEPT !.use = "setup", !.code = c, !.key = k].use = "setup"
          BY <2>1 DEF Preps
        <3> QED BY <3>2, <3>3 DEF c, k
      <2>3. p.ok = NoPrep.ok BY <2>1 DEF Preps
      <2> QED BY <2>1, <2>2, <2>3
    <1>4. To(t, x) /\ tab[t].at = "idle" /\ tab[t].mem # NoId BY DEF Prepare
    <1> HIDE DEF p
    <1>5. x \in TabStates /\ x.at = "idle" /\ x.live = tab[t].live /\ x.mem = tab[t].mem /\ x.prep = p
          /\ x.old = tab[t].old /\ x.id = tab[t].id /\ x.srv = tab[t].srv
      BY <1>2, <1>3, <1>4 DEF TabStates
    <1> HIDE DEF x
    <1>6. MemorySafe(x, World(t))
      BY <1>3, <1>4, <1>5, StepStart DEF MemorySafe
    <1> QED BY <1>1, <1>4, <1>5, <1>6, FreeRun, QuietStep, StepStart DEF TabSafe, Prepare, server

(* The code typed back is on paper. *)
LEMMA TypeBackKeeps == ASSUME LifeInv, NEW t \in Tabs, TypeBack(t) PROVE LifeInv'
    <1> DEFINE p == [tab[t].prep EXCEPT !.ok = TRUE]
               at == IF tab[t].prep.use = "setup" THEN "rec.step" ELSE "rst.step"
               x == [tab[t] EXCEPT !.prep = p, !.at = at]
               w == World(t)'
    <1>1. tab[t] \in TabStates /\ tab[t].prep \in Preps BY StepStart, TabParts
    <1>2. p \in Preps /\ p.use = tab[t].prep.use /\ p.code = tab[t].prep.code /\ p.key = tab[t].prep.key /\ p.ok = TRUE
          /\ tab[t].prep.code \in Nat
      BY <1>1 DEF Preps
    <1>3. /\ at \in {"rec.step", "rst.step"} /\ (at = "rec.step" => p.use = "setup") /\ (at = "rst.step" => p.use = "reset")
      BY <1>1, <1>2 DEF TypeBack, Preps
    <1>4. To(t, x)
      <2>1. x = [tab[t] EXCEPT !.prep.ok = TRUE, !.at = at] BY <1>1 DEF TabStates
      <2> QED BY <2>1 DEF TypeBack
    <1> HIDE DEF p, at
    <1>5. x \in TabStates /\ x.at = at /\ x.live = tab[t].live /\ x.mem = tab[t].mem /\ x.prep = p
          /\ x.old = tab[t].old /\ x.id = tab[t].id /\ x.srv = tab[t].srv
      BY <1>1, <1>2, <1>3 DEF TabStates, Phases
    <1> HIDE DEF x
    <1>6. paper \subseteq paper' /\ paper' \subseteq Nat /\ tab[t].prep.code \in paper'
      BY <1>2 DEF TypeBack, LifeInv, LifeTyped, RestTyped
    <1>7. minted' \in Counters /\ minted'.key >= minted.key /\ minted'.dev = minted.dev
      BY StepStart DEF TypeBack, Counters
    <1>8. w \in Worlds /\ RunSafe(tab[t], w) /\ MemorySafe(tab[t], w) /\ w.paper = paper'
      BY <1>6, <1>7, GrownWorld DEF TypeBack, server
    <1> HIDE DEF w
    <1>9. RunSafe(x, w)
      BY <1>2, <1>3, <1>5, <1>8 DEF RunSafe, PasswordPhases, SSOPhases, RecoveryPhases, ResetPhases
    <1>10. MemorySafe(x, w)
      BY <1>2, <1>5, <1>6, <1>8 DEF MemorySafe
    <1> QED BY <1>4, <1>5, <1>6, <1>7, <1>9, <1>10, GrowStep, StepStart DEF TabSafe, TypeBack, server, w

(* A quiet move to another phase only. *)
LEMMA QuietGoto ==
    ASSUME LifeInv, NEW t \in Tabs, NEW at \in Phases, Goto(t, at),
           \A x : x.at = at /\ x.prep = tab[t].prep /\ x.old = tab[t].old /\ x.id = tab[t].id /\ x.cur = tab[t].cur
                    => RunSafe(x, World(t)),
           UNCHANGED <<fixed, row, pass, paper, ghosts>>, UNCHANGED minted,
           session' \in [Browsers -> Sessions], faults' \in Nat,
           vault' \in [Browsers -> Vaults],
           \A b \in Browsers : vault'[b].key = vault[b].key /\ vault'[b].dev = vault[b].dev
    PROVE  LifeInv'
    <1> DEFINE x == [tab[t] EXCEPT !.at = at]
    <1>1. x \in TabStates /\ x.at = at /\ x.live = tab[t].live /\ x.mem = tab[t].mem /\ x.cur = tab[t].cur
          /\ x.prep = tab[t].prep /\ x.old = tab[t].old /\ x.id = tab[t].id /\ x.srv = tab[t].srv
      BY StepStart DEF TabStates
    <1>2. To(t, x) BY DEF Goto
    <1> HIDE DEF x
    <1>3. RunSafe(x, World(t)) BY <1>1
    <1>4. TabSafe(x, World(t)) BY <1>1, <1>3, RunMove, KnownParts
    <1> QED BY <1>1, <1>2, <1>4, QuietStep, StepStart

(* The step-up of a recovery copy. *)
LEMMA SaveStepKeeps == ASSUME LifeInv, NEW t \in Tabs, SaveStep(t) PROVE LifeInv'
    <1>1. UNCHANGED <<fixed, row, pass, vault, minted, paper, ghosts>> BY DEF SaveStep
    <1>2. faults' \in Nat BY FaultTyped, StepStart DEF SaveStep
    <1>3. session' \in [Browsers -> Sessions] BY SteppedUpTyped, StepStart DEF SaveStep
    <1>4. CASE Goto(t, "rec.put")
      <2>1. "rec.put" \in Phases BY DEF Phases
      <2>2. tab[t].prep.use = "setup" BY StepStart DEF SaveStep, RunSafe, RecoveryPhases
      <2>3. \A x : x.at = "rec.put" /\ x.prep = tab[t].prep => RunSafe(x, World(t))
        BY <2>2 DEF RunSafe, PasswordPhases, SSOPhases, RecoveryPhases, ResetPhases
      <2> QED BY <1>1, <1>2, <1>3, <1>4, <2>1, <2>3, QuietGoto, StepStart
    <1>5. CASE Fails(t, "idle") BY <1>1, <1>2, <1>3, <1>5, QuietEnd
    <1> QED BY <1>4, <1>5 DEF SaveStep

-----------------------------------------------------------------------------
(* Restoring from the code. *)

(* A restore begins with a code from paper. *)
LEMMA RestoreBeginKeeps == ASSUME LifeInv, NEW t \in Tabs, RestoreBegin(t) PROVE LifeInv'
    <1>1. PICK c \in paper : To(t, [tab[t] EXCEPT !.at = "res.live", !.old = Local(t), !.code = c])
      BY DEF RestoreBegin
    <1> DEFINE x == [tab[t] EXCEPT !.at = "res.live", !.old = Local(t), !.code = c]
    <1>2. tab[t] \in TabStates /\ Local(t) \in Ids /\ c \in Nat
      BY StepStart, TabViews DEF LifeInv, LifeTyped, RestTyped
    <1>3. x \in TabStates /\ x.at = "res.live" /\ x.live = tab[t].live /\ x.mem = tab[t].mem
          /\ x.prep = tab[t].prep /\ x.old = Local(t) /\ x.id = tab[t].id /\ x.srv = tab[t].srv
      BY <1>2 DEF TabStates, Phases
    <1>4. To(t, x) BY <1>1
    <1> HIDE DEF x
    <1>5. TabSafe(x, World(t)) BY <1>3, FreeRun, RunMove, KnownParts, StepStart
    <1> QED BY <1>3, <1>4, <1>5, QuietStep, StepStart DEF RestoreBegin, server

(* The restore reads what is listed. *)
LEMMA RestoreLiveKeeps == ASSUME LifeInv, NEW t \in Tabs, RestoreLive(t) PROVE LifeInv'
    <1> DEFINE x == [tab[t] EXCEPT !.at = "res.fetch", !.srv = row]
    <1>1. UNCHANGED <<fixed, row, pass, session, vault, minted, faults, paper, ghosts>> BY DEF RestoreLive, server
    <1>2. To(t, Ended(t, "idle")) \/ To(t, Ended(t, "mount")) \/ To(t, x) BY DEF RestoreLive
    <1>3. x \in TabStates /\ x.at = "res.fetch" /\ x.live = tab[t].live /\ x.mem = tab[t].mem
          /\ x.prep = tab[t].prep /\ x.old = tab[t].old /\ x.id = tab[t].id /\ x.srv = row
      <2>1. row \in Rows /\ tab[t] \in TabStates BY StepStart, TabViews
      <2> QED BY <2>1 DEF TabStates, Phases
    <1> HIDE DEF x
    <1>4. TabSafe(x, World(t)) BY <1>3, FreeRun, RunMove, KnownParts, StepStart
    <1>5. CASE To(t, Ended(t, "idle")) \/ To(t, Ended(t, "mount")) BY <1>1, <1>5, QuietEnd, StepStart DEF Fails
    <1> QED BY <1>1, <1>2, <1>3, <1>4, <1>5, QuietStep, StepStart

(* A copy that was fetched is there to be fetched again. *)
LEMMA RestoreFetchKeeps == ASSUME LifeInv, NEW t \in Tabs, RestoreFetch(t) PROVE LifeInv'
    <1> DEFINE x == [tab[t] EXCEPT !.at = "res.keep", !.id = ListedId]
    <1>1. UNCHANGED <<fixed, row, pass, vault, minted, paper, ghosts>> BY DEF RestoreFetch
    <1>2. faults' \in Nat BY FaultTyped, StepStart DEF RestoreFetch
    <1>3. session' \in [Browsers -> Sessions]
      <2>1. session \in [Browsers -> Sessions] /\ pass.epoch \in Nat BY StepStart
      <2>2. session' = session \/ session' = [session EXCEPT ![home[t]].step = pass.epoch] BY DEF RestoreFetch
      <2>3. [session EXCEPT ![home[t]].step = pass.epoch] \in [Browsers -> Sessions] BY <2>1, EndedSession
      <2> QED BY <2>1, <2>2, <2>3
    <1>4. To(t, Ended(t, "idle")) \/ (row.rec # 0 /\ To(t, x)) BY DEF RestoreFetch, Fails
    <1>5. x \in TabStates /\ x.at = "res.keep" /\ x.live = tab[t].live /\ x.mem = tab[t].mem
          /\ x.prep = tab[t].prep /\ x.old = tab[t].old /\ x.id = ListedId /\ x.srv = tab[t].srv
      <2>1. ListedId \in Ids /\ tab[t] \in TabStates BY StepStart, TabViews
      <2> QED BY <2>1 DEF TabStates, Phases
    <1> HIDE DEF x
    <1>6. CASE row.rec # 0 /\ To(t, x)
      <2>1. RunSafe(x, World(t))
        BY <1>5, <1>6, WorldIs DEF RunSafe, PasswordPhases, SSOPhases, RecoveryPhases, ResetPhases
      <2>2. TabSafe(x, World(t)) BY <1>5, <2>1, RunMove, KnownParts, StepStart
      <2> QED BY <1>1, <1>2, <1>3, <1>5, <1>6, <2>2, QuietStep, StepStart
    <1>7. CASE To(t, Ended(t, "idle")) BY <1>1, <1>2, <1>3, <1>7, QuietEnd DEF Fails
    <1> QED BY <1>4, <1>6, <1>7

-----------------------------------------------------------------------------
(* The reset, but for its request and its keeping. *)

(* A reset is prepared with a new key. *)
LEMMA ResetBeginKeeps == ASSUME LifeInv, NEW t \in Tabs, ResetBegin(t) PROVE LifeInv'
    <1> DEFINE cur == IF account = "sso" THEN 0 ELSE pass.epoch
               p == [use |-> "reset", code |-> minted.code + 1, key |-> minted.key + 1, cur |-> cur, ok |-> FALSE]
               x == [tab[t] EXCEPT !.prep = p]
               w == World(t)'
    <1>1. minted' \in Counters /\ minted'.key = minted.key + 1 /\ minted'.dev = minted.dev
          /\ minted.code \in Nat /\ minted.key \in Nat
      <2>1. minted' = [minted EXCEPT !.key = @ + 1, !.code = @ + 1] BY DEF ResetBegin
      <2>2. minted \in Counters BY StepStart
      <2> DEFINE k == minted.key + 1
                 c == minted.code + 1
      <2>3. minted.code \in Nat /\ minted.key \in Nat /\ k \in Nat /\ c \in Nat BY <2>2 DEF Counters
      <2>4. minted' = [minted EXCEPT !.key = k, !.code = c] BY <2>1, <2>2 DEF Counters
      <2> HIDE DEF c
      <2>5. minted'.key = k BY <2>2, <2>3, <2>4 DEF Counters
      <2> HIDE DEF k
      <2>6. minted' \in Counters /\ minted'.dev = minted.dev BY <2>2, <2>3, <2>4 DEF Counters
      <2> QED BY <2>3, <2>5, <2>6 DEF k
    <1>2. cur \in Nat BY StepStart
    <1>3. To(t, x) /\ tab[t].at = "idle" /\ tab[t].live.key # 0 BY DEF ResetBegin
    <1> HIDE DEF cur
    <1>4. p \in Preps /\ p.use = "reset" /\ p.key = minted.key + 1 /\ p.ok = FALSE
      BY <1>1, <1>2 DEF Preps
    <1> HIDE DEF p
    <1>5. x \in TabStates /\ x.at = "idle" /\ x.live = tab[t].live /\ x.mem = tab[t].mem /\ x.prep = p
          /\ x.old = tab[t].old /\ x.id = tab[t].id /\ x.srv = tab[t].srv
      BY <1>3, <1>4, StepStart DEF TabStates
    <1> HIDE DEF x
    <1>6. minted'.key >= minted.key /\ paper \subseteq paper' /\ paper' \subseteq Nat
      BY <1>1 DEF ResetBegin, LifeInv, LifeTyped, RestTyped
    <1>7. w \in Worlds /\ RunSafe(tab[t], w) /\ MemorySafe(tab[t], w) /\ w.key = minted.key + 1 /\ w.row = row
      BY <1>1, <1>6, GrownWorld DEF ResetBegin
    <1> HIDE DEF w
    <1>8. row.key <= minted.key /\ row.key \in Nat /\ row.key # 0
      BY <1>3, StepStart, WorldIs, TabViews DEF LifeInv, LifeSafe, RowSafe, MemorySafe, Rows
    <1>9. MemorySafe(x, w)
      BY <1>1, <1>4, <1>5, <1>7, <1>8 DEF MemorySafe
    <1>10. session' \in [Browsers -> Sessions]
      BY SteppedUpTyped, StepStart DEF ResetBegin
    <1> QED BY <1>1, <1>3, <1>5, <1>6, <1>9, <1>10, FreeRun, GrowStep, StepStart DEF TabSafe, ResetBegin, w

(* A confirmed reset is tried again. *)
LEMMA ResetRetryKeeps == ASSUME LifeInv, NEW t \in Tabs, ResetRetry(t) PROVE LifeInv'
    <1>1. "rst.step" \in Phases BY DEF Phases
    <1>2. \A x : x.at = "rst.step" /\ x.prep = tab[t].prep => RunSafe(x, World(t))
      BY DEF ResetRetry, RunSafe, PasswordPhases, SSOPhases, RecoveryPhases, ResetPhases
    <1> QED BY <1>1, <1>2, QuietGoto, StepStart DEF ResetRetry, server

(* The new public key is noted beside what the vault holds. *)
LEMMA ResetStepKeeps == ASSUME LifeInv, NEW t \in Tabs, ResetStep(t) PROVE LifeInv'
    <1> DEFINE s == IF vault[home[t]].open THEN tab[t].prep.key ELSE 0
               noted == [vault EXCEPT ![home[t]].sent = s]
    <1>1. UNCHANGED <<fixed, row, pass, minted, paper, ghosts>> BY DEF ResetStep
    <1>2. faults' \in Nat BY FaultTyped, StepStart DEF ResetStep
    <1>3. session' \in [Browsers -> Sessions]
      BY SteppedUpTyped, StepStart, TabParts DEF ResetStep, Preps
    <1>4. /\ vault' \in [Browsers -> Vaults]
          /\ \A b \in Browsers : vault'[b].key = vault[b].key /\ vault'[b].dev = vault[b].dev
      <2>1. vault' = vault \/ vault' = noted BY DEF ResetStep
      <2>2. vault \in [Browsers -> Vaults] /\ s \in Nat BY StepStart, TabParts DEF Preps
      <2> HIDE DEF s
      <2>3. noted \in [Browsers -> Vaults] /\ \A b \in Browsers : noted[b].key = vault[b].key /\ noted[b].dev = vault[b].dev
        BY <2>2 DEF Vaults
      <2> HIDE DEF noted
      <2> QED BY <2>1, <2>2, <2>3
    <1>5. CASE Goto(t, "rst.send")
      <2>1. "rst.send" \in Phases BY DEF Phases
      <2>2. tab[t].prep.use = "reset" /\ tab[t].prep.ok BY StepStart DEF ResetStep, RunSafe, ResetPhases
      <2>3. \A x : x.at = "rst.send" /\ x.prep = tab[t].prep => RunSafe(x, World(t))
        BY <2>2 DEF RunSafe, PasswordPhases, SSOPhases, RecoveryPhases, ResetPhases
      <2> QED BY <1>1, <1>2, <1>3, <1>4, <1>5, <2>1, <2>3, QuietGoto
    <1>6. CASE Fails(t, "idle") /\ UNCHANGED vault BY <1>1, <1>2, <1>3, <1>6, QuietEnd
    <1> QED BY <1>5, <1>6 DEF ResetStep

(* A reset that finds its own key listed was committed with its copy. *)
LEMMA ResetCheckKeeps == ASSUME LifeInv, NEW t \in Tabs, ResetCheck(t) PROVE LifeInv'
    <1> DEFINE x == [tab[t] EXCEPT !.at = "rst.keep", !.id = ListedId]
    <1>1. UNCHANGED <<fixed, row, pass, session, vault, minted, paper, ghosts>> BY DEF ResetCheck, server
    <1>2. faults' \in Nat BY FaultTyped, StepStart DEF ResetCheck
    <1>3. To(t, Ended(t, "idle")) \/ (row.key = tab[t].prep.key /\ To(t, x)) BY DEF ResetCheck, Fails
    <1>4. x \in TabStates /\ x.at = "rst.keep" /\ x.live = tab[t].live /\ x.mem = tab[t].mem
          /\ x.prep = tab[t].prep /\ x.old = tab[t].old /\ x.id = ListedId /\ x.srv = tab[t].srv
      <2>1. ListedId \in Ids /\ tab[t] \in TabStates BY StepStart, TabViews
      <2> QED BY <2>1 DEF TabStates, Phases
    <1> HIDE DEF x
    <1>5. CASE row.key = tab[t].prep.key /\ To(t, x)
      <2>1. tab[t].prep.use = "reset" /\ tab[t].prep.ok BY StepStart DEF ResetCheck, RunSafe, ResetPhases
      <2>2. row.rec # 0 BY <1>5, <2>1, StepStart, WorldIs DEF MemorySafe
      <2>3. RunSafe(x, World(t))
        BY <1>4, <2>1, <2>2, WorldIs DEF RunSafe, PasswordPhases, SSOPhases, RecoveryPhases, ResetPhases
      <2>4. TabSafe(x, World(t)) BY <1>4, <2>3, RunMove, KnownParts, StepStart
      <2> QED BY <1>1, <1>2, <1>4, <1>5, <2>4, QuietStep, StepStart
    <1>6. CASE To(t, Ended(t, "idle")) BY <1>1, <1>2, <1>6, QuietEnd, StepStart DEF Fails
    <1> QED BY <1>3, <1>5, <1>6

-----------------------------------------------------------------------------
(* What changes a vault. *)

(* A step that changes the vault of its own browser: no key goes that a    *)
(* single sign-on account still needs.                                     *)
LEMMA VaultStep ==
    ASSUME LifeInv, NEW t \in Tabs, NEW x, To(t, x), x \in TabStates, TabSafe(x, World(t)'),
           UNCHANGED <<fixed, row, pass, minted, paper, listed>>,
           givenUp \subseteq givenUp', givenUp' \subseteq Nat,
           session' \in [Browsers -> Sessions], faults' \in Nat,
           NEW v \in Vaults, vault' = [vault EXCEPT ![home[t]] = v], v.key <= minted.key, v.dev <= minted.dev,
           account # "sso" \/ row.rec # 0 \/ Vault(t).key \in {0, v.key} \cup givenUp'
    PROVE  LifeInv'
    <1>1. home[t] \in Browsers /\ vault \in [Browsers -> Vaults] /\ vault' \in [Browsers -> Vaults] /\ vault'[home[t]] = v
          /\ \A b \in Browsers : b # home[t] => vault'[b] = vault[b]
      BY TabViews, StepStart
    <1>2. LifeTyped'
      BY <1>1, ToTyped DEF LifeInv, LifeTyped, FixedTyped, ServerTyped, VaultTyped, RestTyped, fixed
    <1>3. RowSafe'
      BY DEF LifeInv, LifeSafe, RowSafe
    <1>4. VaultSafe'
      BY <1>1 DEF LifeInv, LifeSafe, VaultSafe
    <1>5. Holders'
      BY <1>1 DEF LifeInv, LifeSafe, Holders, fixed, Vault
    <1>6. ASSUME NEW u \in Tabs PROVE Grows(World(u), World(u)')
      <2>1. minted.key \in Nat /\ minted.dev \in Nat BY StepStart DEF Counters
      <2>2. row.rec # 0 => row.key # 0 BY DEF LifeInv, LifeSafe, RowSafe, NoRow
      <2>3. CASE home[u] = home[t]
        BY <1>1, <2>1, <2>2, <2>3 DEF World, fixed, Grows, Vault
      <2>4. CASE home[u] # home[t]
        <3>1. vault'[home[u]] = vault[home[u]] BY <1>1, <2>4 DEF LifeInv, LifeTyped, FixedTyped
        <3> QED BY <3>1, <2>1 DEF World, fixed, Grows
      <2> QED BY <2>3, <2>4
    <1>7. TabsSafe'
      BY <1>2, <1>6, Moves DEF LifeInv, LifeSafe
    <1> QED BY <1>2, <1>3, <1>4, <1>5, <1>7 DEF LifeInv, LifeSafe

(* The world after such a step. *)
LEMMA VaultWorld ==
    ASSUME LifeInv, NEW t \in Tabs,
           UNCHANGED <<fixed, row, minted, paper>>,
           givenUp \subseteq givenUp', givenUp' \subseteq Nat,
           NEW v \in Vaults, vault' = [vault EXCEPT ![home[t]] = v],
           account # "sso" \/ row.rec # 0 \/ Vault(t).key \in {0, v.key} \cup givenUp'
    PROVE  LET w == World(t)' IN
           /\ w \in Worlds /\ RunSafe(tab[t], w) /\ MemorySafe(tab[t], w) /\ w.mine = v.key
           /\ w.account = account /\ w.row = row /\ w.key = minted.key /\ w.dev = minted.dev
    <1> DEFINE w == World(t)'
    <1>1. home[t] \in Browsers /\ vault \in [Browsers -> Vaults] /\ vault' \in [Browsers -> Vaults] /\ vault'[home[t]] = v
      BY TabViews, StepStart
    <1>2. /\ w.mine = v.key /\ w.account = account /\ w.row = row /\ w.key = minted.key /\ w.dev = minted.dev
      BY <1>1 DEF World, fixed
    <1>3. w \in Worlds
      BY <1>1 DEF LifeInv, LifeTyped, FixedTyped, ServerTyped, RestTyped, World, Worlds, Vaults, Counters, fixed
    <1>4. minted.key \in Nat /\ minted.dev \in Nat BY StepStart DEF Counters
    <1>5. row.rec # 0 => row.key # 0 BY DEF LifeInv, LifeSafe, RowSafe, NoRow
    <1>6. Grows(World(t), w)
      BY <1>1, <1>4, <1>5 DEF World, fixed, Grows, Vault
    <1> HIDE DEF w
    <1>7. TabSafe(tab[t], w)
      BY <1>3, <1>6, SafeGrows, StepStart DEF TabSafe
    <1> QED BY <1>2, <1>3, <1>7 DEF TabSafe, w

(* The tab of an ended run is safe in every world its memory is safe in. *)
LEMMA EndedSafeIn ==
    ASSUME TabTyped, NEW t \in Tabs, NEW w \in Worlds, MemorySafe(tab[t], w), NEW at \in {"out", "idle", "mount"}
    PROVE  Ended(t, at) \in TabStates /\ TabSafe(Ended(t, at), w)
    <1> DEFINE x == Ended(t, at)
    <1>1. x \in TabStates /\ x.at = at /\ x.live = tab[t].live /\ x.mem = tab[t].mem /\ x.prep = tab[t].prep
          /\ x.old = NoId /\ x.id = NoId /\ x.srv = NoRow
      <2>1. at \in Phases BY DEF Phases
      <2> QED BY <2>1, EndedIs
    <1> HIDE DEF x
    <1>2. RunSafe(x, w) BY <1>1, FreeRun
    <1>3. MemorySafe(x, w) BY <1>1, KnownEmpty, SameMemory
    <1> QED BY <1>1, <1>2, <1>3 DEF TabSafe, x

(* What the vault holds after a key is stored. *)
LEMMA WithIs ==
    ASSUME NEW v \in Vaults, NEW id \in Ids
    PROVE  LET n == With(v, id) IN n \in Vaults /\ n.key = id.key /\ n.dev = id.dev
    <1> DEFINE s == IF v.sent = id.key THEN 0 ELSE v.sent
    <1>1. s \in Nat BY DEF Vaults
    <1>2. With(v, id) = [v EXCEPT !.key = id.key, !.dev = id.dev, !.sent = s] BY DEF With, Vaults
    <1> HIDE DEF s
    <1> QED BY <1>1, <1>2 DEF Vaults, Ids

(* storeIdentityKey with a comparison. *)
LEMMA SwapStep ==
    ASSUME LifeInv, NEW t \in Tabs, NEW e \in Ids, NEW id \in Ids, Known(id, World(t)),
           NEW kept \in TabStates, NEW refused \in TabStates, Swap(t, e, id, kept, refused),
           UNCHANGED <<fixed, row, pass, session, minted, paper, ghosts>>,
           TabSafe(refused, World(t)),
           account # "sso" \/ row.rec # 0 \/ e.key \in {0, id.key},
           \A w \in Worlds : MemorySafe(tab[t], w) /\ w.mine = id.key /\ w.account = account => TabSafe(kept, w)
    PROVE  LifeInv'
    <1>1. CASE /\ Holds(Vault(t), e) /\ UNCHANGED faults
               /\ vault' = [vault EXCEPT ![home[t]] = With(@, id)] /\ To(t, kept)
      <2> DEFINE v == With(Vault(t), id)
      <2>1. home[t] \in Browsers /\ vault \in [Browsers -> Vaults] /\ Vault(t) \in Vaults BY TabViews, StepStart
      <2>2. v \in Vaults /\ v.key = id.key /\ v.dev = id.dev BY <2>1, WithIs
      <2>3. vault' = [vault EXCEPT ![home[t]] = v] BY <1>1, <2>1 DEF Vault
      <2> HIDE DEF v
      <2>4. v.key <= minted.key /\ v.dev <= minted.dev BY <2>2, WorldIs DEF Known
      <2>5. account # "sso" \/ row.rec # 0 \/ Vault(t).key \in {0, v.key} BY <1>1, <2>2 DEF Holds
      <2>6. givenUp' = givenUp /\ givenUp \subseteq Nat /\ listed' = listed BY DEF ghosts, LifeInv, LifeTyped, RestTyped
      <2>7. TabSafe(kept, World(t)')
        <3> DEFINE w == World(t)'
        <3>1. w \in Worlds /\ MemorySafe(tab[t], w) /\ w.mine = v.key /\ w.account = account
          BY <2>2, <2>3, <2>5, <2>6, VaultWorld
        <3> QED BY <2>2, <3>1
      <2> QED BY <1>1, <2>2, <2>3, <2>4, <2>5, <2>6, <2>7, VaultStep, StepStart
    <1>2. CASE To(t, refused) /\ UNCHANGED vault /\ (UNCHANGED faults \/ Fault("storage"))
      BY <1>2, QuietStep, StepStart, FaultTyped
    <1> QED BY <1>1, <1>2 DEF Swap

(* A swap after which the run ends either way. *)
LEMMA SwapEnds ==
    ASSUME LifeInv, NEW t \in Tabs, NEW at \in {"idle", "mount"},
           Swap(t, tab[t].old, tab[t].id, Ended(t, "mount"), Ended(t, at)),
           UNCHANGED <<fixed, row, pass, session, minted, paper, ghosts>>,
           account # "sso" \/ row.rec # 0 \/ tab[t].old.key \in {0, tab[t].id.key}
    PROVE  LifeInv'
    <1>1. tab[t].old \in Ids /\ tab[t].id \in Ids /\ Known(tab[t].id, World(t)) /\ TabTyped
      BY StepStart, TabParts, KnownParts
    <1>2. Ended(t, "mount") \in TabStates /\ Ended(t, at) \in TabStates /\ TabSafe(Ended(t, at), World(t))
      BY StepStart, EndedSafe
    <1>3. \A w \in Worlds : MemorySafe(tab[t], w) => TabSafe(Ended(t, "mount"), w)
      BY <1>1, EndedSafeIn
    <1> HIDE DEF LifeInv
    <1> QED BY <1>1, <1>2, <1>3, SwapStep

(* The identity of a sign-in is kept. *)
LEMMA KeepSettledKeeps == ASSUME LifeInv, NEW t \in Tabs, KeepSettled(t) PROVE LifeInv'
    <1>1. account # "sso" BY StepStart, WorldIs DEF KeepSettled, RunSafe, PasswordPhases
    <1> QED BY <1>1, SwapEnds DEF KeepSettled, server

(* The pending key is kept in a vault that held none. *)
LEMMA SetUpSaveKeeps == ASSUME LifeInv, NEW t \in Tabs, SetUpSave(t) PROVE LifeInv'
    <1> DEFINE x == [tab[t] EXCEPT !.at = "sso.put", !.old = tab[t].id]
    <1>1. account = "sso" /\ tab[t].old.key = 0 /\ tab[t].id.key # 0
      BY StepStart, WorldIs DEF SetUpSave, RunSafe, SSOPhases
    <1>2. tab[t].old \in Ids /\ tab[t].id \in Ids /\ Known(tab[t].id, World(t)) /\ tab[t] \in TabStates
      BY StepStart, TabParts, KnownParts
    <1>3. x \in TabStates /\ x.at = "sso.put" /\ x.live = tab[t].live /\ x.mem = tab[t].mem
          /\ x.prep = tab[t].prep /\ x.old = tab[t].id /\ x.id = tab[t].id /\ x.srv = tab[t].srv
      BY <1>2 DEF TabStates, Phases
    <1>4. Swap(t, tab[t].old, tab[t].id, x, Again(t)) BY DEF SetUpSave
    <1> HIDE DEF x
    <1>5. ASSUME NEW w \in Worlds, MemorySafe(tab[t], w), w.mine = tab[t].id.key, w.account = account
          PROVE TabSafe(x, w)
      <2>1. RunSafe(x, w)
        BY <1>1, <1>3, <1>5 DEF RunSafe, Kept, PasswordPhases, SSOPhases, RecoveryPhases, ResetPhases
      <2>2. MemorySafe(x, w) BY <1>3, <1>5 DEF MemorySafe
      <2> QED BY <2>1, <2>2 DEF TabSafe
    <1>6. Again(t) \in TabStates /\ TabSafe(Again(t), World(t)) BY <1>1, AgainSafe
    <1> QED BY <1>1, <1>2, <1>3, <1>4, <1>5, <1>6, SwapStep DEF SetUpSave, server

(* finish changes no key. *)
LEMMA SetUpFinishKeeps == ASSUME LifeInv, NEW t \in Tabs, SetUpFinish(t) PROVE LifeInv'
    <1>1. tab[t].id.key = tab[t].old.key BY StepStart DEF SetUpFinish, RunSafe
    <1>2. UNCHANGED <<fixed, row, pass, session, minted, paper, ghosts>> BY DEF SetUpFinish, server
    <1>3. CASE Fails(t, "mount") /\ UNCHANGED <<vault, faults>> BY <1>2, <1>3, QuietEnd, StepStart
    <1>4. CASE Swap(t, tab[t].old, tab[t].id, Ended(t, "mount"), Ended(t, "mount"))
      BY <1>1, <1>2, <1>4, SwapEnds
    <1> QED BY <1>3, <1>4 DEF SetUpFinish

(* A restored key comes from a recovery copy, which stays. *)
LEMMA RestoreKeepKeeps == ASSUME LifeInv, NEW t \in Tabs, RestoreKeep(t) PROVE LifeInv'
    <1>1. row.rec # 0 BY StepStart, WorldIs DEF RestoreKeep, RunSafe
    <1> QED BY <1>1, SwapEnds DEF RestoreKeep, server

(* A reset's key replaces the vault's; the reset left a recovery copy. *)
LEMMA ResetKeepKeeps == ASSUME LifeInv, NEW t \in Tabs, ResetKeep(t) PROVE LifeInv'
    <1> DEFINE e == Ended(t, "mount")
               x == [e EXCEPT !.prep = NoPrep]
    <1>1. row.rec # 0 BY StepStart, WorldIs DEF ResetKeep, RunSafe
    <1>2. UNCHANGED <<fixed, row, pass, session, minted, paper, ghosts>> /\ To(t, x) BY DEF ResetKeep, server
    <1>3. ASSUME NEW w \in Worlds, MemorySafe(tab[t], w) PROVE x \in TabStates /\ TabSafe(x, w)
      <2>1. e \in TabStates /\ e.at = "mount" /\ TabSafe(e, w)
        <3>1. "mount" \in Phases BY DEF Phases
        <3> QED BY <1>3, <3>1, EndedSafeIn, EndedIs, StepStart
      <2> HIDE DEF e
      <2>2. x \in TabStates /\ x.at = "mount" /\ x.live = e.live /\ x.mem = e.mem
            /\ x.prep = NoPrep /\ x.old = e.old /\ x.id = e.id /\ x.srv = e.srv
        BY <2>1, EmptyTyped DEF TabStates
      <2> HIDE DEF x
      <2>3. MemorySafe(x, w) BY <2>1, <2>2 DEF TabSafe, MemorySafe, NoPrep
      <2> QED BY <2>2, <2>3, FreeRun DEF TabSafe
    <1> HIDE DEF x
    <1>4. CASE Vault(t).open /\ vault' = [vault EXCEPT ![home[t]] = With(@, tab[t].id)] /\ UNCHANGED faults
      <2> DEFINE v == With(Vault(t), tab[t].id)
      <2>1. /\ home[t] \in Browsers /\ vault \in [Browsers -> Vaults] /\ Vault(t) \in Vaults
            /\ tab[t].id \in Ids /\ Known(tab[t].id, World(t))
        BY TabViews, StepStart, TabParts, KnownParts
      <2>2. v \in Vaults /\ v.key = tab[t].id.key /\ v.dev = tab[t].id.dev BY <2>1, WithIs
      <2>3. vault' = [vault EXCEPT ![home[t]] = v] BY <1>4, <2>1 DEF Vault
      <2> HIDE DEF v
      <2>4. v.key <= minted.key /\ v.dev <= minted.dev BY <2>1, <2>2, WorldIs DEF Known
      <2>5. givenUp' = givenUp /\ givenUp \subseteq Nat /\ listed' = listed BY <1>2 DEF ghosts, LifeInv, LifeTyped, RestTyped
      <2>6. World(t)' \in Worlds /\ MemorySafe(tab[t], World(t)')
        BY <1>1, <1>2, <2>2, <2>3, <2>5, VaultWorld
      <2> QED BY <1>1, <1>2, <1>3, <1>4, <2>2, <2>3, <2>4, <2>5, <2>6, VaultStep, StepStart
    <1>5. CASE UNCHANGED vault /\ (UNCHANGED faults \/ Fault("storage"))
      BY <1>2, <1>3, <1>5, QuietStep, StepStart, FaultTyped
    <1> QED BY <1>4, <1>5 DEF ResetKeep

(* A forgotten device gives its key up. *)
LEMMA ForgetKeeps == ASSUME LifeInv, NEW t \in Tabs, Forget(t) PROVE LifeInv'
    <1>1. givenUp \subseteq givenUp' /\ givenUp' \subseteq Nat /\ Vault(t).key \in {0} \cup givenUp'
      BY TabViews DEF Forget, LifeInv, LifeTyped, RestTyped, Vaults
    <1>2. vault' = [vault EXCEPT ![home[t]] = NoVault] BY DEF Forget
    <1>3. NoVault \in Vaults /\ NoVault.key <= minted.key /\ NoVault.dev <= minted.dev
      BY EmptyTyped, StepStart DEF NoVault, Counters
    <1>4. World(t)' \in Worlds
      BY <1>1, <1>2, <1>3, VaultWorld DEF Forget, server
    <1>5. [NewTab EXCEPT !.at = "leaving"] \in TabStates /\ TabSafe([NewTab EXCEPT !.at = "leaving"], World(t)')
      BY <1>4, NewTabSafe
    <1> QED BY <1>1, <1>2, <1>3, <1>5, VaultStep, StepStart DEF Forget, server

(* After a password change the identity is kept, or one is settled. *)
LEMMA ChangeKeepKeeps == ASSUME LifeInv, NEW t \in Tabs, ChangeKeep(t) PROVE LifeInv'
    <1> DEFINE l == Ended(t, "load")
               c == tab[t].cur + 1
               y == [l EXCEPT !.cur = c]
               at == IF tab[t].status = "unknown" THEN "mount" ELSE "idle"
               x == IF tab[t].id.key # 0 THEN Ended(t, at) ELSE y
    <1>1. account # "sso" BY StepStart, WorldIs DEF ChangeKeep, RunSafe, PasswordPhases
    <1>2. UNCHANGED <<fixed, row, pass, session, minted, paper, ghosts>> /\ To(t, x) BY DEF ChangeKeep, server
    <1>3. ASSUME NEW w \in Worlds, MemorySafe(tab[t], w), w.account = account PROVE x \in TabStates /\ TabSafe(x, w)
      <2>1. CASE tab[t].id.key # 0
        <3>1. at \in {"mount", "idle"} OBVIOUS
        <3> HIDE DEF at
        <3> QED BY <1>3, <2>1, <3>1, EndedSafeIn, StepStart
      <2>2. CASE tab[t].id.key = 0
        <3>1. l \in TabStates /\ l.at = "load" /\ l.live = tab[t].live /\ l.mem = tab[t].mem /\ l.prep = tab[t].prep
              /\ l.old = NoId /\ l.id = NoId /\ l.srv = NoRow
          <4>1. "load" \in Phases BY DEF Phases
          <4> QED BY <4>1, EndedIs, StepStart
        <3>2. c \in Nat BY StepStart, TabParts
        <3> HIDE DEF l, c
        <3>3. y \in TabStates /\ y.at = "load" /\ y.live = tab[t].live /\ y.mem = tab[t].mem /\ y.prep = tab[t].prep
              /\ y.old = NoId /\ y.id = NoId /\ y.srv = NoRow
          BY <3>1, <3>2 DEF TabStates
        <3> HIDE DEF y
        <3>4. RunSafe(y, w)
          BY <1>1, <1>3, <3>3 DEF RunSafe, PasswordPhases, SSOPhases, RecoveryPhases, ResetPhases
        <3>5. MemorySafe(y, w) BY <1>3, <3>3, KnownEmpty, SameMemory
        <3> QED BY <2>2, <3>3, <3>4, <3>5 DEF TabSafe
      <2> QED BY <2>1, <2>2
    <1> HIDE DEF x
    <1>4. CASE UNCHANGED vault /\ Fault("storage")
      BY <1>2, <1>3, <1>4, QuietStep, StepStart, FaultTyped, WorldIs
    <1>5. ASSUME NEW v \in Vaults, vault' = [vault EXCEPT ![home[t]] = v], UNCHANGED faults,
                 v.key <= minted.key, v.dev <= minted.dev
          PROVE  LifeInv'
      <2>1. givenUp' = givenUp /\ givenUp \subseteq Nat /\ listed' = listed BY <1>2 DEF ghosts, LifeInv, LifeTyped, RestTyped
      <2>2. World(t)' \in Worlds /\ MemorySafe(tab[t], World(t)') /\ World(t)'.account = account
        BY <1>1, <1>2, <1>5, <2>1, VaultWorld
      <2> QED BY <1>1, <1>2, <1>3, <1>5, <2>1, <2>2, VaultStep, StepStart
    <1>6. CASE /\ UNCHANGED faults
               /\ vault' = [vault EXCEPT ![home[t]] =
                    IF tab[t].id.key # 0 THEN With([@ EXCEPT !.open = TRUE], tab[t].id) ELSE [@ EXCEPT !.open = TRUE]]
      <2> DEFINE o == [Vault(t) EXCEPT !.open = TRUE]
                 v == IF tab[t].id.key # 0 THEN With(o, tab[t].id) ELSE o
      <2>1. /\ home[t] \in Browsers /\ vault \in [Browsers -> Vaults] /\ Vault(t) \in Vaults
            /\ tab[t].id \in Ids /\ Known(tab[t].id, World(t)) /\ Known(Local(t), World(t))
        BY TabViews, StepStart, TabParts, KnownParts
      <2>2. o \in Vaults /\ o.key = Vault(t).key /\ o.dev = Vault(t).dev BY <2>1 DEF Vaults
      <2>3. vault' = [vault EXCEPT ![home[t]] = v] BY <1>6, <2>1 DEF Vault
      <2> HIDE DEF o
      <2>4. v \in Vaults /\ v.key <= minted.key /\ v.dev <= minted.dev
        <3>1. CASE tab[t].id.key # 0 BY <2>1, <2>2, <3>1, WithIs, WorldIs DEF Known
        <3>2. CASE tab[t].id.key = 0 BY <2>1, <2>2, <3>2, WorldIs DEF Known, Local
        <3> QED BY <3>1, <3>2
      <2> HIDE DEF v
      <2> QED BY <1>5, <1>6, <2>3, <2>4
    <1> QED BY <1>4, <1>6 DEF ChangeKeep

-----------------------------------------------------------------------------
(* What changes the server's row. *)

(* The row keeps its key and device, or gets a new device over an empty    *)
(* row or together with a recovery copy.                                   *)
RowChange ==
    /\ UNCHANGED <<fixed, vault, paper>> /\ row' \in Rows
    /\ minted' \in Counters /\ minted'.key = minted.key /\ minted'.dev >= minted.dev
    /\ givenUp \subseteq givenUp' /\ givenUp' \subseteq Nat
    /\ row.key # 0 => row'.key # 0
    /\ row.rec # 0 => row'.rec # 0
    /\ \/ row'.key = row.key /\ row'.dev = row.dev
       \/ row'.dev > minted.dev /\ (row.key = 0 \/ row'.rec # 0)

(* A change of the row makes every tab's world grow. *)
LEMMA RowGrows ==
    ASSUME LifeInv, RowChange, NEW u \in Tabs
    PROVE  Grows(World(u), World(u)') /\ World(u)' \in Worlds
    <1>1. minted.key \in Nat /\ minted.dev \in Nat BY StepStart DEF Counters
    <1>2. World(u)' \in Worlds
      BY DEF LifeInv, LifeTyped, FixedTyped, ServerTyped, VaultTyped, RestTyped, World, Worlds, Vaults, Counters, fixed,
             RowChange
    <1>3. Grows(World(u), World(u)') BY <1>1 DEF RowChange, World, fixed, Grows
    <1> QED BY <1>2, <1>3

(* A step that changes the row keeps the invariant if its own tab stays safe. *)
LEMMA RowStep ==
    ASSUME LifeInv, NEW t \in Tabs, NEW x, To(t, x), x \in TabStates, TabSafe(x, World(t)'), RowChange,
           pass' \in Passes, session' \in [Browsers -> Sessions], faults' \in Nat, listed' \subseteq Nat,
           RowSafe', Holders'
    PROVE  LifeInv'
    <1>1. LifeTyped'
      BY ToTyped DEF LifeInv, LifeTyped, FixedTyped, ServerTyped, VaultTyped, RestTyped, fixed, RowChange
    <1>2. VaultSafe'
      <2>1. minted.dev \in Nat /\ minted'.dev \in Nat BY StepStart DEF RowChange, Counters
      <2> QED BY <2>1, StepStart DEF LifeInv, LifeSafe, VaultSafe, RowChange, Vaults
    <1>3. TabsSafe'
      BY <1>1, RowGrows, Moves DEF LifeInv, LifeSafe
    <1> QED BY <1>1, <1>2, <1>3 DEF LifeInv, LifeSafe

(* The world after such a step. *)
LEMMA RowWorld ==
    ASSUME LifeInv, NEW t \in Tabs, RowChange
    PROVE  LET w == World(t)' IN
           /\ w \in Worlds /\ RunSafe(tab[t], w) /\ MemorySafe(tab[t], w)
           /\ w.mine = Vault(t).key /\ w.account = account /\ w.row = row' /\ w.key = minted.key /\ w.dev = minted'.dev
    <1>1. LET w == World(t)' IN
          w.mine = Vault(t).key /\ w.account = account /\ w.row = row' /\ w.key = minted.key /\ w.dev = minted'.dev
      BY DEF World, fixed, RowChange, Vault
    <1>2. World(t)' \in Worlds /\ TabSafe(tab[t], World(t)')
      BY RowGrows, SafeGrows, StepStart DEF TabSafe
    <1> QED BY <1>1, <1>2 DEF TabSafe

(* The password copy alone changes: the rest of the row is as it was. *)
LEMMA CopyMoves ==
    ASSUME LifeInv, NEW n \in Nat, row' = [row EXCEPT !.pw = n],
           UNCHANGED <<fixed, vault, minted, paper, listed>>, givenUp \subseteq givenUp', givenUp' \subseteq Nat
    PROVE  /\ RowChange /\ row'.key = row.key /\ row'.dev = row.dev /\ row'.rec = row.rec /\ row'.code = row.code
           /\ row'.seals = row.seals /\ row'.pw = n
           /\ pass'.epoch # 0 => RowSafe'
    <1>1. row \in Rows /\ minted \in Counters BY DEF LifeInv, LifeTyped, ServerTyped, RestTyped
    <1>2. /\ row' \in Rows /\ row'.key = row.key /\ row'.dev = row.dev /\ row'.rec = row.rec /\ row'.code = row.code
          /\ row'.seals = row.seals /\ row'.pw = n
      BY <1>1 DEF Rows
    <1>3. RowChange BY <1>1, <1>2 DEF RowChange, Counters
    <1>4. pass'.epoch # 0 => RowSafe' BY <1>2 DEF LifeInv, LifeSafe, RowSafe
    <1> QED BY <1>2, <1>3, <1>4

(* login-upgrade: the copy moves with the verifier, or both stay. *)
LEMMA UpgradeKeeps == ASSUME LifeInv, NEW t \in Tabs, Upgrade(t) PROVE LifeInv'
    <1> DEFINE next == pass.epoch + 1
               n == IF row.pw # 0 THEN next ELSE 0
               sp == IF tab[t].srv.pw # 0 THEN next ELSE 0
               s == [tab[t].srv EXCEPT !.pw = sp]
               x == [tab[t] EXCEPT !.at = "vault", !.cur = next, !.srv = s]
               y == [tab[t] EXCEPT !.at = "vault"]
    <1>1. account # "sso" BY StepStart, WorldIs DEF Upgrade, RunSafe, PasswordPhases
    <1>2. UNCHANGED <<fixed, session, vault, minted, paper, ghosts>> BY DEF Upgrade
    <1>3. faults' \in Nat BY FaultTyped, StepStart DEF Upgrade
    <1>4. /\ next \in Nat /\ n \in Nat /\ sp \in Nat /\ next # 0 /\ tab[t] \in TabStates /\ tab[t].srv \in Rows /\ row \in Rows
          /\ pass \in Passes
      BY StepStart, TabParts, TabViews DEF Rows
    <1>6. s \in Rows /\ s.key = tab[t].srv.key /\ s.dev = tab[t].srv.dev
      <2> HIDE DEF sp
      <2> QED BY <1>4 DEF Rows
    <1>7. x \in TabStates /\ x.at = "vault" /\ x.live = tab[t].live /\ x.mem = tab[t].mem
          /\ x.prep = tab[t].prep /\ x.old = tab[t].old /\ x.id = tab[t].id /\ x.srv = s
      <2> HIDE DEF s, next
      <2> QED BY <1>4, <1>6 DEF TabStates, Phases
    <1>8. y \in TabStates /\ y.at = "vault" /\ y.live = tab[t].live /\ y.mem = tab[t].mem
          /\ y.prep = tab[t].prep /\ y.old = tab[t].old /\ y.id = tab[t].id /\ y.srv = tab[t].srv
      BY <1>4 DEF TabStates, Phases
    <1>9. ASSUME NEW w \in Worlds, MemorySafe(tab[t], w), w.account = account PROVE TabSafe(x, w) /\ TabSafe(y, w)
      <2> HIDE DEF x, y, s
      <2>1. RunSafe(x, w) /\ RunSafe(y, w)
        BY <1>1, <1>7, <1>8, <1>9 DEF RunSafe, PasswordPhases, SSOPhases, RecoveryPhases, ResetPhases
      <2>2. MemorySafe(x, w) /\ MemorySafe(y, w)
        BY <1>6, <1>7, <1>8, <1>9 DEF MemorySafe, Known
      <2> QED BY <2>1, <2>2 DEF TabSafe
    <1>10. CASE /\ pass' = [pass EXCEPT !.epoch = next, !.legacy = FALSE] /\ row' = Upgraded(next)
                /\ To(t, x) \/ To(t, y)
      <2>1. row' = [row EXCEPT !.pw = n] BY <1>10 DEF Upgraded
      <2>2. pass' \in Passes /\ pass'.epoch = next
        <3> HIDE DEF next
        <3> QED BY <1>4, <1>10 DEF Passes
      <2>3. givenUp' = givenUp /\ givenUp \subseteq Nat /\ listed' = listed /\ listed \subseteq Nat
        BY <1>2 DEF ghosts, LifeInv, LifeTyped, RestTyped
      <2> HIDE DEF n
      <2>4. RowChange /\ row'.key = row.key /\ row'.rec = row.rec /\ row'.pw = n /\ RowSafe'
        BY <1>2, <1>4, <2>1, <2>2, <2>3, CopyMoves
      <2>5. Holders' BY <1>1, <1>2, <1>4, <2>3, <2>4 DEF Holders, LifeInv, LifeSafe, fixed, n
      <2>6. World(t)' \in Worlds /\ MemorySafe(tab[t], World(t)') /\ World(t)'.account = account BY <2>4, RowWorld
      <2> HIDE DEF x, y
      <2>7. TabSafe(x, World(t)') /\ TabSafe(y, World(t)') BY <1>9, <2>6
      <2> QED BY <1>2, <1>3, <1>7, <1>8, <1>10, <2>2, <2>3, <2>4, <2>5, <2>7, RowStep, StepStart
    <1>11. CASE Goto(t, "vault") /\ UNCHANGED <<pass, row>>
      <2>1. To(t, y) BY <1>11 DEF Goto
      <2> HIDE DEF y
      <2> QED BY <1>2, <1>3, <1>8, <1>9, <1>11, <2>1, QuietStep, StepStart, WorldIs
    <1>12. [tab[t] EXCEPT !.at = "vault", !.cur = next, !.srv.pw = IF @ # 0 THEN next ELSE 0] = x
      BY <1>4 DEF TabStates, Rows
    <1> QED BY <1>10, <1>11, <1>12 DEF Upgrade, Goto

(* PUT /me/identity lists a new identity where none was. *)
LEMMA CreatedMoves ==
    ASSUME LifeInv, NEW t \in Tabs, NEW pw \in Nat, Created(t, pw), row.key = 0, tab[t].id.key # 0,
           UNCHANGED <<fixed, pass, vault, paper, givenUp>>
    PROVE  /\ RowChange /\ RowSafe' /\ listed' \subseteq Nat
           /\ row'.key = tab[t].id.key /\ row'.pw = pw /\ row'.rec = 0 /\ row'.dev = minted.dev + 1
           /\ minted'.dev = minted.dev + 1 /\ minted.dev \in Nat
    <1> DEFINE k == tab[t].id.key
               d == minted.dev + 1
    <1>1. k \in Nat /\ k # 0 /\ k <= minted.key /\ minted \in Counters /\ d \in Nat /\ minted.dev \in Nat /\ d > minted.dev
      BY StepStart, TabParts, KnownParts, WorldIs DEF Known, Ids, Counters
    <1>2. minted' \in Counters /\ minted'.key = minted.key /\ minted'.dev = d
      <2>1. minted' = [minted EXCEPT !.dev = @ + 1] BY DEF Created
      <2> QED BY <1>1, <2>1 DEF Counters
    <1>3. row' = [NoRow EXCEPT !.key = k, !.dev = d, !.pw = pw] BY DEF Created
    <1> HIDE DEF k, d
    <1>4. row' \in Rows /\ row'.key = k /\ row'.dev = d /\ row'.pw = pw /\ row'.rec = NoRow.rec
      BY <1>1, <1>3, EmptyTyped DEF Rows
    <1>5. NoRow.rec = 0 BY DEF NoRow
    <1>6. row.rec = 0 /\ givenUp \subseteq Nat /\ listed \subseteq Nat
      BY DEF LifeInv, LifeSafe, RowSafe, LifeTyped, RestTyped
    <1>7. RowChange
      BY <1>1, <1>2, <1>4, <1>6 DEF RowChange, d
    <1>8. listed' = listed \cup {k} BY DEF Created, k
    <1>9. RowSafe'
      BY <1>1, <1>2, <1>4, <1>5, <1>8 DEF RowSafe, LifeInv, LifeSafe, d
    <1> QED BY <1>1, <1>2, <1>4, <1>5, <1>6, <1>7, <1>8, <1>9 DEF k, d

(* A creation at a password sign-in. *)
LEMMA PutKeeps == ASSUME LifeInv, NEW t \in Tabs, PutIdentity(t) PROVE LifeInv'
    <1>1. account # "sso" /\ tab[t].id.key # 0 /\ tab[t].cur # 0 /\ tab[t].cur \in Nat
      BY StepStart, WorldIs, TabParts DEF PutIdentity, RunSafe, PasswordPhases
    <1>2. UNCHANGED <<fixed, pass, session, vault, paper, givenUp>> BY DEF PutIdentity
    <1>3. faults' \in Nat BY FaultTyped, StepStart DEF PutIdentity
    <1>4. ASSUME row.key = 0, Created(t, tab[t].cur), NEW x \in TabStates, To(t, x),
                 \A w \in Worlds : MemorySafe(tab[t], w) /\ w.account = account /\ w.dev = minted.dev + 1 => TabSafe(x, w)
          PROVE  LifeInv'
      <2>1. RowChange /\ RowSafe' /\ listed' \subseteq Nat /\ row'.pw = tab[t].cur /\ minted'.dev = minted.dev + 1
        BY <1>1, <1>2, <1>4, CreatedMoves
      <2>2. Holders' BY <1>1, <1>2, <2>1 DEF Holders, fixed
      <2>3. TabSafe(x, World(t)') BY <1>4, <2>1, RowWorld
      <2> QED BY <1>2, <1>3, <1>4, <2>1, <2>2, <2>3, RowStep, StepStart
    <1>5. CASE row.key = 0 /\ Created(t, tab[t].cur) /\ To(t, [tab[t] EXCEPT !.at = "keep", !.id.dev = minted.dev + 1])
      <2> DEFINE d == minted.dev + 1
                 i == [tab[t].id EXCEPT !.dev = d]
                 x == [tab[t] EXCEPT !.at = "keep", !.id = i]
      <2>1. tab[t] \in TabStates /\ tab[t].id \in Ids /\ d \in Nat BY StepStart, TabParts DEF Counters
      <2>2. x = [tab[t] EXCEPT !.at = "keep", !.id.dev = minted.dev + 1] BY <2>1 DEF TabStates
      <2> HIDE DEF d
      <2>3. i \in Ids /\ i.key = tab[t].id.key /\ i.dev = d BY <2>1 DEF Ids
      <2> HIDE DEF i
      <2>4. x \in TabStates /\ x.at = "keep" /\ x.live = tab[t].live /\ x.mem = tab[t].mem
            /\ x.prep = tab[t].prep /\ x.old = tab[t].old /\ x.id = i /\ x.srv = tab[t].srv
        BY <2>1, <2>3 DEF TabStates, Phases
      <2>5. To(t, x) BY <1>5, <2>2
      <2> HIDE DEF x
      <2>6. ASSUME NEW w \in Worlds, MemorySafe(tab[t], w), w.account = account, w.dev = d PROVE TabSafe(x, w)
        <3>1. RunSafe(x, w)
          BY <1>1, <2>4, <2>6 DEF RunSafe, PasswordPhases, SSOPhases, RecoveryPhases, ResetPhases
        <3>2. Known(i, w) BY <2>1, <2>3, <2>6 DEF Known, MemorySafe
        <3>3. MemorySafe(x, w) BY <2>4, <2>6, <3>2, SameMemory DEF MemorySafe
        <3> QED BY <3>1, <3>3 DEF TabSafe
      <2> QED BY <1>4, <1>5, <2>4, <2>5, <2>6 DEF d
    <1>6. CASE row.key = 0 /\ Created(t, tab[t].cur) /\ Fails(t, "mount")
      <2>1. Ended(t, "mount") \in TabStates /\ \A w \in Worlds : MemorySafe(tab[t], w) => TabSafe(Ended(t, "mount"), w)
        BY StepStart, EndedSafe, EndedSafeIn
      <2> QED BY <1>4, <1>6, <2>1 DEF Fails
    <1>7. CASE NotCreated /\ Goto(t, "winner") /\ UNCHANGED faults
      <2>1. "winner" \in Phases BY DEF Phases
      <2>2. \A x : x.at = "winner" => RunSafe(x, World(t))
        BY <1>1, WorldIs DEF RunSafe, PasswordPhases, SSOPhases, RecoveryPhases, ResetPhases
      <2> QED BY <1>2, <1>7, <2>1, <2>2, QuietGoto, StepStart DEF NotCreated, ghosts
    <1>8. CASE NotCreated /\ Fails(t, "mount") /\ UNCHANGED faults
      BY <1>2, <1>8, QuietEnd, StepStart DEF NotCreated, ghosts
    <1> QED BY <1>5, <1>6, <1>7, <1>8 DEF PutIdentity

(* The key a set-up lists is in the vault, or was given up. *)
LEMMA SetUpPutKeeps == ASSUME LifeInv, NEW t \in Tabs, SetUpPut(t) PROVE LifeInv'
    <1>1. account = "sso" /\ tab[t].id.key # 0 /\ (row.key = 0 => Kept(tab[t].id.key, World(t)))
      BY StepStart, WorldIs DEF SetUpPut, RunSafe, SSOPhases
    <1>2. UNCHANGED <<fixed, pass, session, vault, paper, givenUp>> BY DEF SetUpPut
    <1>3. faults' \in Nat BY FaultTyped, StepStart DEF SetUpPut
    <1>4. ASSUME row.key = 0, Created(t, 0), NEW x \in TabStates, To(t, x),
                 \A w \in Worlds : MemorySafe(tab[t], w) /\ w.account = account /\ w.dev = minted.dev + 1 => TabSafe(x, w)
          PROVE  LifeInv'
      <2>1. RowChange /\ RowSafe' /\ listed' \subseteq Nat /\ row'.key = tab[t].id.key /\ minted'.dev = minted.dev + 1
        BY <1>1, <1>2, <1>4, CreatedMoves
      <2>2. home[t] \in Browsers BY TabViews, StepStart
      <2>3. Holders' BY <1>1, <1>2, <1>4, <2>1, <2>2, WorldIs DEF Holders, fixed, Kept
      <2>4. TabSafe(x, World(t)') BY <1>4, <2>1, RowWorld
      <2> QED BY <1>2, <1>3, <1>4, <2>1, <2>3, <2>4, RowStep, StepStart
    <1>5. CASE row.key = 0 /\ Created(t, 0) /\ To(t, Finishing(t, tab[t].id, minted.dev + 1))
      <2> DEFINE d == minted.dev + 1
                 x == Finishing(t, tab[t].id, d)
      <2>1. tab[t] \in TabStates /\ tab[t].id \in Ids /\ d \in Nat /\ World(t) \in Worlds BY StepStart, TabParts DEF Counters
      <2> HIDE DEF d
      <2>2. ASSUME NEW w \in Worlds, MemorySafe(tab[t], w), w.account = account, w.dev = d
            PROVE x \in TabStates /\ TabSafe(x, w)
        <3>1. d <= w.dev BY <2>1, <2>2
        <3> QED BY <1>1, <2>1, <2>2, <3>1, FinishingSafe DEF MemorySafe
      <2>3. x \in TabStates
        <3>1. RowChange /\ minted'.dev = minted.dev + 1 BY <1>1, <1>2, <1>5, CreatedMoves
        <3> QED BY <2>2, <3>1, RowWorld DEF d
      <2> HIDE DEF x
      <2> QED BY <1>4, <1>5, <2>2, <2>3 DEF d, x
    <1>6. CASE row.key = 0 /\ Created(t, 0) /\ Fails(t, "idle")
      <2>1. Ended(t, "idle") \in TabStates /\ \A w \in Worlds : MemorySafe(tab[t], w) => TabSafe(Ended(t, "idle"), w)
        BY StepStart, EndedSafe, EndedSafeIn
      <2> QED BY <1>4, <1>6, <2>1 DEF Fails
    <1>7. CASE NotCreated /\ Goto(t, "sso.exists") /\ UNCHANGED faults
      <2>1. "sso.exists" \in Phases BY DEF Phases
      <2>2. \A x : x.at = "sso.exists" => RunSafe(x, World(t))
        BY <1>1, WorldIs DEF RunSafe, PasswordPhases, SSOPhases, RecoveryPhases, ResetPhases
      <2> QED BY <1>2, <1>7, <2>1, <2>2, QuietGoto, StepStart DEF NotCreated, ghosts
    <1>8. CASE NotCreated /\ Fails(t, "idle")
      BY <1>2, <1>3, <1>8, QuietEnd, StepStart DEF NotCreated, ghosts
    <1> QED BY <1>5, <1>6, <1>7, <1>8 DEF SetUpPut

(* POST /auth/password moves the copy with the password. *)
LEMMA ChangeSendKeeps == ASSUME LifeInv, NEW t \in Tabs, ChangeSend(t) PROVE LifeInv'
    <1>1. account # "sso" BY StepStart, WorldIs DEF ChangeSend, RunSafe, PasswordPhases
    <1>2. UNCHANGED <<fixed, vault, minted, paper, ghosts>> BY DEF ChangeSend
    <1>3. faults' \in Nat BY FaultTyped, StepStart DEF ChangeSend
    <1>4. ASSUME Changed(t), NEW x \in TabStates, To(t, x),
                 \A w \in Worlds : MemorySafe(tab[t], w) /\ w.account = account => TabSafe(x, w)
          PROVE  LifeInv'
      <2> DEFINE next == pass.epoch + 1
                 n == IF tab[t].id.key # 0 THEN next ELSE row.pw
      <2>1. next \in Nat /\ next # 0 /\ n \in Nat /\ (row.pw # 0 => n # 0)
        BY StepStart, TabViews DEF Rows
      <2>2. row' = [row EXCEPT !.pw = n]
        <3>1. row' = [row EXCEPT !.pw = IF tab[t].id.key # 0 THEN pass.epoch + 1 ELSE @] BY <1>4 DEF Changed
        <3>2. row \in Rows BY TabViews, StepStart
        <3> QED BY <3>1, <3>2 DEF Rows
      <2>3. pass' \in Passes /\ pass'.epoch = next
        <3>1. pass' = [epoch |-> next, known |-> FALSE, legacy |-> FALSE] BY <1>4 DEF Changed
        <3> HIDE DEF next
        <3> QED BY <2>1, <3>1 DEF Passes
      <2>4. session' \in [Browsers -> Sessions]
        <3>1. session' = [b \in Browsers |-> [live |-> OnlyThis(t)[b].live, step |-> 0]] BY <1>4 DEF Changed
        <3>2. \A b \in Browsers : OnlyThis(t)[b].live \in BOOLEAN BY StepStart DEF OnlyThis, Sessions
        <3> HIDE DEF next, n
        <3> QED BY <3>1, <3>2 DEF Sessions
      <2> HIDE DEF n, next
      <2>5. givenUp' = givenUp /\ givenUp \subseteq Nat /\ listed' = listed /\ listed \subseteq Nat
        BY <1>2 DEF ghosts, LifeInv, LifeTyped, RestTyped
      <2>6. RowChange /\ row'.key = row.key /\ row'.rec = row.rec /\ row'.pw = n /\ RowSafe'
        BY <1>2, <2>1, <2>2, <2>3, <2>5, CopyMoves
      <2>7. Holders' BY <1>1, <1>2, <2>1, <2>5, <2>6 DEF Holders, LifeInv, LifeSafe, fixed
      <2>8. TabSafe(x, World(t)') BY <1>4, <2>6, RowWorld
      <2> QED BY <1>3, <1>4, <2>3, <2>4, <2>5, <2>6, <2>7, <2>8, RowStep
    <1>5. CASE Changed(t) /\ Goto(t, "chg.keep")
      <2> DEFINE x == [tab[t] EXCEPT !.at = "chg.keep"]
      <2>1. x \in TabStates /\ x.at = "chg.keep" /\ x.live = tab[t].live /\ x.mem = tab[t].mem
            /\ x.prep = tab[t].prep /\ x.old = tab[t].old /\ x.id = tab[t].id /\ x.srv = tab[t].srv
        BY StepStart DEF TabStates, Phases
      <2>2. To(t, x) BY <1>5 DEF Goto
      <2> HIDE DEF x
      <2>3. ASSUME NEW w \in Worlds, MemorySafe(tab[t], w), w.account = account PROVE TabSafe(x, w)
        <3>1. RunSafe(x, w)
          BY <1>1, <2>1, <2>3 DEF RunSafe, PasswordPhases, SSOPhases, RecoveryPhases, ResetPhases
        <3>2. MemorySafe(x, w) BY <2>1, <2>3, SameMemory DEF MemorySafe
        <3> QED BY <3>1, <3>2 DEF TabSafe
      <2> QED BY <1>4, <1>5, <2>1, <2>2, <2>3
    <1>6. CASE Changed(t) /\ Fails(t, "idle")
      <2>1. Ended(t, "idle") \in TabStates /\ \A w \in Worlds : MemorySafe(tab[t], w) => TabSafe(Ended(t, "idle"), w)
        BY StepStart, EndedSafe, EndedSafeIn
      <2> QED BY <1>4, <1>6, <2>1 DEF Fails
    <1>7. CASE Fails(t, "idle") /\ UNCHANGED <<server, faults>>
      BY <1>2, <1>7, QuietEnd, StepStart DEF server
    <1> QED BY <1>5, <1>6, <1>7 DEF ChangeSend

(* A recovery copy is written for the listed key, under a code on paper. *)
LEMMA SaveRecoveryKeeps == ASSUME LifeInv, NEW t \in Tabs, SaveRecovery(t) PROVE LifeInv'
    <1> DEFINE e == Ended(t, "idle")
               spent == [e EXCEPT !.prep = NoPrep]
               over == [spent EXCEPT !.at = "mount"]
               write == /\ ~Resent(t) /\ RecoverySwaps(t)
                        /\ row' = [row EXCEPT !.rec = minted.rec + 1, !.code = tab[t].prep.code, !.seals = tab[t].prep.key]
                        /\ minted' = [minted EXCEPT !.rec = @ + 1]
    <1>1. UNCHANGED <<fixed, pass, session, vault, paper, ghosts>> BY DEF SaveRecovery
    <1>2. faults' \in Nat BY FaultTyped, StepStart DEF SaveRecovery
    <1>3. ASSUME NEW w \in Worlds, MemorySafe(tab[t], w)
          PROVE  /\ e \in TabStates /\ TabSafe(e, w) /\ spent \in TabStates /\ TabSafe(spent, w)
                 /\ over \in TabStates /\ TabSafe(over, w)
      <2>1. e \in TabStates /\ e.at = "idle" /\ TabSafe(e, w)
        <3>1. "idle" \in Phases BY DEF Phases
        <3> QED BY <1>3, <3>1, EndedSafeIn, EndedIs, StepStart
      <2> HIDE DEF e
      <2>2. spent \in TabStates /\ spent.at = "idle" /\ spent.live = e.live /\ spent.mem = e.mem
            /\ spent.prep = NoPrep /\ spent.old = e.old /\ spent.id = e.id /\ spent.srv = e.srv
        BY <2>1, EmptyTyped DEF TabStates
      <2> HIDE DEF spent
      <2>3. over \in TabStates /\ over.at = "mount" /\ over.live = e.live /\ over.mem = e.mem
            /\ over.prep = NoPrep /\ over.old = e.old /\ over.id = e.id /\ over.srv = e.srv
        BY <2>2 DEF TabStates, Phases
      <2> HIDE DEF over
      <2>4. MemorySafe(spent, w) /\ MemorySafe(over, w) BY <2>1, <2>2, <2>3 DEF TabSafe, MemorySafe, NoPrep
      <2> QED BY <2>1, <2>2, <2>3, <2>4, FreeRun DEF TabSafe
    <1>4. To(t, e) \/ To(t, spent) \/ To(t, over) BY DEF SaveRecovery, Fails
    <1>5. CASE UNCHANGED <<row, minted>>
      <2> HIDE DEF e, spent, over
      <2>1. MemorySafe(tab[t], World(t)) /\ World(t) \in Worlds BY StepStart
      <2> QED BY <1>1, <1>2, <1>3, <1>4, <1>5, <2>1, QuietStep, StepStart
    <1>6. CASE MadeFor(t) /\ write
      <2> DEFINE r == minted.rec + 1
                 c == tab[t].prep.code
                 k == tab[t].prep.key
      <2>1. /\ row \in Rows /\ minted \in Counters /\ c \in Nat /\ k \in Nat /\ r \in Nat /\ r # 0 /\ minted.rec \in Nat
            /\ minted.dev \in Nat /\ row.dev \in Nat
        BY StepStart, TabParts, TabViews DEF Preps, Counters, Rows
      <2>2. minted' \in Counters /\ minted'.key = minted.key /\ minted'.dev = minted.dev
        BY <1>6, <2>1 DEF Counters
      <2>3. row' = [row EXCEPT !.rec = r, !.code = c, !.seals = k] BY <1>6
      <2>4. c \in paper /\ k = row.key /\ row.key # 0
        <3>1. tab[t].prep.use = "setup" /\ MemorySafe(tab[t], World(t))
          BY StepStart DEF SaveRecovery, RunSafe, RecoveryPhases
        <3>2. tab[t].prep.ok /\ k = tab[t].mem.key /\ row.dev = tab[t].mem.dev BY <1>6 DEF MadeFor, RecoverySwaps
        <3>3. row.dev # 0 /\ c \in paper /\ k = row.key BY <3>1, <3>2, WorldIs DEF MemorySafe
        <3>4. row.dev <= minted.dev /\ (row.key = 0 => minted.dev = 0) BY DEF LifeInv, LifeSafe, RowSafe
        <3> QED BY <3>3, <3>4, <2>1
      <2> HIDE DEF r, c, k
      <2>5. row' \in Rows /\ row'.key = row.key /\ row'.dev = row.dev /\ row'.rec = r /\ row'.code = c /\ row'.seals = k
        BY <2>1, <2>3 DEF Rows
      <2>6. givenUp' = givenUp /\ givenUp \subseteq Nat /\ listed' = listed /\ listed \subseteq Nat
        BY <1>1 DEF ghosts, LifeInv, LifeTyped, RestTyped
      <2>7. RowChange BY <1>1, <2>1, <2>2, <2>5, <2>6 DEF RowChange
      <2>8. RowSafe' BY <1>1, <2>2, <2>4, <2>5, <2>6 DEF LifeInv, LifeSafe, RowSafe
      <2>9. Holders' BY <2>1, <2>5 DEF Holders
      <2>10. World(t)' \in Worlds /\ MemorySafe(tab[t], World(t)') BY <2>7, RowWorld
      <2> HIDE DEF e, spent, over
      <2> QED BY <1>1, <1>2, <1>3, <1>4, <2>6, <2>7, <2>8, <2>9, <2>10, RowStep, StepStart
    <1> HIDE DEF e, spent, over
    <1> QED BY <1>5, <1>6 DEF SaveRecovery

(* PUT /me/identity with replace lists the prepared key with its copies. *)
LEMMA ResetSendKeeps == ASSUME LifeInv, NEW t \in Tabs, ResetSend(t) PROVE LifeInv'
    <1>1. tab[t].prep.use = "reset" /\ tab[t].prep.ok BY StepStart DEF ResetSend, RunSafe, ResetPhases
    <1>2. UNCHANGED <<fixed, pass, vault, paper, givenUp>> BY DEF ResetSend
    <1>3. faults' \in Nat BY FaultTyped, StepStart DEF ResetSend
    <1> DEFINE r == minted.rec + 1
               c == tab[t].prep.code
               k == tab[t].prep.key
               d == minted.dev + 1
               i == [key |-> k, dev |-> d]
               x == [tab[t] EXCEPT !.at = "rst.keep", !.id = i]
               y == [tab[t] EXCEPT !.at = "rst.check"]
    <1>4. /\ c \in Nat /\ k \in Nat /\ r \in Nat /\ r # 0 /\ d \in Nat /\ d > minted.dev /\ tab[t] \in TabStates
          /\ minted \in Counters /\ minted.key \in Nat /\ minted.rec \in Nat /\ minted.dev \in Nat
      BY StepStart, TabParts DEF Preps, Counters
    <1>5. k # 0 /\ k <= minted.key /\ row.key # 0 /\ c \in paper
      BY <1>1, <1>4, StepStart, WorldIs DEF MemorySafe
    <1> HIDE DEF r, c, d
    <1>6. i \in Ids /\ i.key = k /\ i.dev = d
      <2> HIDE DEF k
      <2> QED BY <1>4 DEF Ids
    <1> HIDE DEF i
    <1>7. /\ x \in TabStates /\ x.at = "rst.keep" /\ x.live = tab[t].live /\ x.mem = tab[t].mem
          /\ x.prep = tab[t].prep /\ x.old = tab[t].old /\ x.id = i /\ x.srv = tab[t].srv
      BY <1>4, <1>6 DEF TabStates, Phases
    <1>8. /\ y \in TabStates /\ y.at = "rst.check" /\ y.live = tab[t].live /\ y.mem = tab[t].mem
          /\ y.prep = tab[t].prep /\ y.old = tab[t].old /\ y.id = tab[t].id /\ y.srv = tab[t].srv
      BY <1>4 DEF TabStates, Phases
    <1>9. CASE Replaced(t) /\ (To(t, x) \/ To(t, y))
      <2> DEFINE p == IF account = "password" THEN tab[t].prep.cur ELSE 0
      <2>1. p \in Nat BY StepStart, TabParts DEF Preps
      <2> HIDE DEF p
      <2>2. row' = [key |-> k, dev |-> d, pw |-> p, rec |-> r, code |-> c, seals |-> k]
        BY <1>9 DEF Replaced, p, d, r, c
      <2>3. row' \in Rows /\ row'.key = k /\ row'.dev = d /\ row'.rec = r /\ row'.code = c /\ row'.seals = k
        <3> HIDE DEF k
        <3> QED BY <1>4, <2>1, <2>2 DEF Rows
      <2>4. minted' \in Counters /\ minted'.key = minted.key /\ minted'.dev = d
        <3>1. minted' = [minted EXCEPT !.dev = d, !.rec = r]
          <4>1. minted' = [minted EXCEPT !.dev = @ + 1, !.rec = @ + 1] BY <1>9 DEF Replaced
          <4> QED BY <4>1, <1>4 DEF Counters, d, r
        <3> QED BY <1>4, <3>1 DEF Counters
      <2>5. session' \in [Browsers -> Sessions]
        <3>1. session' = OnlyThis(t) BY <1>9 DEF Replaced
        <3> QED BY <3>1, StepStart DEF OnlyThis, Sessions
      <2>6. listed' = listed \cup {k} /\ listed \subseteq Nat /\ givenUp \subseteq Nat
        BY <1>9 DEF Replaced, LifeInv, LifeTyped, RestTyped
      <2>7. RowChange BY <1>2, <1>4, <1>5, <2>3, <2>4, <2>6 DEF RowChange
      <2> HIDE DEF k
      <2>8. RowSafe' BY <1>2, <1>4, <1>5, <2>3, <2>4, <2>6 DEF LifeInv, LifeSafe, RowSafe
      <2>9. Holders' BY <1>4, <2>3 DEF Holders
      <2> DEFINE w == World(t)'
      <2>10. w \in Worlds /\ MemorySafe(tab[t], w) /\ w.row = row' /\ w.key = minted.key /\ w.dev = d BY <2>4, <2>7, RowWorld
      <2> HIDE DEF w, x, y
      <2>11. RunSafe(x, w) /\ RunSafe(y, w)
        BY <1>1, <1>4, <1>7, <1>8, <2>3, <2>10 DEF RunSafe, PasswordPhases, SSOPhases, RecoveryPhases, ResetPhases
      <2>12. Known(i, w) BY <1>4, <1>5, <1>6, <2>10 DEF Known
      <2>13. MemorySafe(x, w) /\ MemorySafe(y, w)
        BY <1>7, <1>8, <2>10, <2>12 DEF MemorySafe
      <2>14. TabSafe(x, w) /\ TabSafe(y, w) BY <2>11, <2>13 DEF TabSafe
      <2>15. listed' \subseteq Nat /\ pass' \in Passes BY <1>2, <1>4, <2>6, StepStart
      <2> QED BY <1>3, <1>7, <1>8, <1>9, <2>5, <2>7, <2>8, <2>9, <2>14, <2>15, RowStep DEF w
    <1>10. CASE To(t, y) /\ UNCHANGED <<row, minted, session, listed, faults>>
      <2> HIDE DEF y
      <2>1. RunSafe(y, World(t))
        BY <1>1, <1>8 DEF RunSafe, PasswordPhases, SSOPhases, RecoveryPhases, ResetPhases
      <2>2. TabSafe(y, World(t)) BY <1>8, <2>1, RunMove, KnownParts
      <2> QED BY <1>2, <1>8, <1>10, <2>2, QuietStep, StepStart DEF ghosts
    <1>11. x = [tab[t] EXCEPT !.at = "rst.keep", !.id = [key |-> tab[t].prep.key, dev |-> minted.dev + 1]]
      BY DEF i, d
    <1> HIDE DEF x
    <1> QED BY <1>9, <1>10, <1>11 DEF ResetSend, Goto

(* A password set by somebody else takes the copy away, and gives it up. *)
LEMMA SetPasswordKeeps == ASSUME LifeInv, SetPassword PROVE LifeInv'
    <1> DEFINE next == pass.epoch + 1
    <1>1. PICK known \in BOOLEAN : pass' = [epoch |-> next, known |-> known, legacy |-> FALSE] BY DEF SetPassword
    <1>2. UNCHANGED <<fixed, vault, tab, minted, faults, paper, listed>> /\ account # "sso" /\ row' = [row EXCEPT !.pw = 0]
          /\ session' = [b \in Browsers |-> [live |-> FALSE, step |-> 0]]
          /\ givenUp' = IF row.pw # 0 THEN givenUp \cup {row.key} ELSE givenUp
      BY DEF SetPassword
    <1>3. next \in Nat /\ next # 0 /\ row \in Rows /\ row.key \in Nat /\ givenUp \subseteq Nat /\ listed \subseteq Nat
      BY DEF LifeInv, LifeTyped, ServerTyped, RestTyped, Passes, Rows
    <1> HIDE DEF next
    <1>4. pass' \in Passes /\ pass'.epoch = next BY <1>1, <1>3 DEF Passes
    <1>5. session' \in [Browsers -> Sessions] BY <1>2 DEF Sessions
    <1>6. givenUp \subseteq givenUp' /\ givenUp' \subseteq Nat BY <1>2, <1>3
    <1>7. RowChange /\ row'.key = row.key /\ row'.rec = row.rec /\ row'.pw = 0 /\ RowSafe'
      BY <1>2, <1>3, <1>4, <1>6, CopyMoves
    <1>8. LifeTyped'
      BY <1>2, <1>3, <1>4, <1>5, <1>6, <1>7
      DEF LifeInv, LifeTyped, FixedTyped, ServerTyped, VaultTyped, RestTyped, TabTyped, fixed, RowChange
    <1>9. VaultSafe' BY <1>2 DEF LifeInv, LifeSafe, VaultSafe
    <1>10. Holders' BY <1>2, <1>7 DEF LifeInv, LifeSafe, Holders, fixed
    <1>11. TabsSafe'
      <2> SUFFICES ASSUME NEW u \in Tabs PROVE TabSafe(tab[u], World(u)')
        BY <1>2 DEF TabsSafe
      <2> QED BY <1>7, RowWorld DEF TabSafe
    <1> QED BY <1>7, <1>8, <1>9, <1>10, <1>11 DEF LifeInv, LifeSafe

(* Nothing exists at first. *)
LEMMA LifeInit == Init => LifeInv
    <1> SUFFICES ASSUME Init PROVE LifeInv OBVIOUS
    <1>1. FixedTyped BY LifeBounds DEF Init, FixedTyped
    <1>2. PICK old \in BOOLEAN : pass = [epoch |-> 1, known |-> FALSE, legacy |-> old /\ account # "sso"] BY DEF Init
    <1>3. pass \in Passes /\ pass.epoch = 1
      <2> DEFINE l == old /\ account # "sso"
      <2>1. l \in BOOLEAN OBVIOUS
      <2>2. pass = [epoch |-> 1, known |-> FALSE, legacy |-> l] BY <1>2
      <2> HIDE DEF l
      <2> QED BY <2>1, <2>2 DEF Passes
    <1>4. ServerTyped BY <1>3, EmptyTyped DEF Init, ServerTyped, Sessions
    <1>5. VaultTyped /\ TabTyped BY EmptyTyped DEF Init, VaultTyped, TabTyped
    <1>6. RestTyped BY DEF Init, RestTyped, Counters
    <1>7. LifeTyped BY <1>1, <1>4, <1>5, <1>6 DEF LifeTyped
    <1>8. RowSafe BY <1>3 DEF Init, RowSafe, NoRow
    <1>9. VaultSafe BY DEF Init, VaultSafe, NoVault
    <1>10. Holders BY DEF Init, Holders, NoRow
    <1>11. TabsSafe BY <1>7, WorldTyped, OutSafe DEF Init, TabsSafe
    <1> QED BY <1>7, <1>8, <1>9, <1>10, <1>11 DEF LifeInv, LifeSafe

(* Every step keeps it. *)
LEMMA LifeStep == LifeInv /\ [Next]_vars => LifeInv'
    <1> SUFFICES ASSUME LifeInv, [Next]_vars PROVE LifeInv' OBVIOUS
    <1>1. CASE SetPassword BY <1>1, SetPasswordKeeps
    <1>2. ASSUME NEW t \in Tabs, Step(t) PROVE LifeInv'
      BY <1>2, SignInKeeps, LoginKeeps, UpgradeKeeps, OpenVaultKeeps, LoadBeforeKeeps, EnsureKeeps, PutKeeps,
         KeepSettledKeeps, MountKeeps, VisitKeeps, SetUpKeeps, SetUpLoadKeeps, SetUpLiveKeeps, SetUpSaveKeeps,
         SetUpPutKeeps, SetUpExistsKeeps, SetUpFinishKeeps, ChangeBeginKeeps, ChangeLiveKeeps, ChangeStepKeeps,
         ChangeSendKeeps, ChangeKeepKeeps, PrepareKeeps, TypeBackKeeps, SaveStepKeeps, SaveRecoveryKeeps,
         RestoreBeginKeeps, RestoreLiveKeeps, RestoreFetchKeeps, RestoreKeepKeeps, ResetBeginKeeps,
         ResetRetryKeeps, ResetStepKeeps, ResetSendKeeps, ResetCheckKeeps, ResetKeepKeeps, CancelKeeps,
         ForgetKeeps, CloseKeeps
      DEF Step
    <1>3. CASE UNCHANGED vars
      <2>1. LifeTyped'
        BY <1>3 DEF vars, LifeInv, LifeTyped, FixedTyped, ServerTyped, VaultTyped, RestTyped, TabTyped
      <2>2. TabsSafe' BY <1>3 DEF vars, LifeInv, LifeSafe, TabsSafe, World
      <2> QED BY <1>3, <2>1, <2>2 DEF vars, LifeInv, LifeSafe, RowSafe, VaultSafe, Holders
    <1> QED BY <1>1, <1>2, <1>3 DEF Next

-----------------------------------------------------------------------------
(* The server's row, sessions, vaults, tabs and histories stay of their    *)
(* types, whatever tabs, faults and password changes do.                   *)
THEOREM IdentityTypes == Spec => []LifeTyped
    <1>1. LifeInv => LifeTyped BY DEF LifeInv
    <1> QED BY <1>1, LifeInit, LifeStep, PTL DEF Spec

(* A listed identity always has a way back: a password copy, a copy under  *)
(* a code on paper, a browser that keeps the key, or an act that gave it up*)
(* (settleSSOIdentity, resetIdentity, restoreIdentity, PUT /me/identity).  *)
THEOREM IdentityIsHeld == Spec => []SomeoneHolds
    <1>1. LifeInv => SomeoneHolds BY DEF LifeInv, LifeSafe, RowSafe, Holders, SomeoneHolds
    <1> QED BY <1>1, LifeInit, LifeStep, PTL DEF Spec

-----------------------------------------------------------------------------
(* Sessions: what a tab's step does to its reset, its phase and its session. *)

(* A tab state reached from y outside the steps that send: no password is  *)
(* about to be relied on, and a prepared reset is the one there was.       *)
CalmTab(x, y) ==
    /\ x.at \notin {"put", "rst.send", "login"}
    /\ \/ x.prep.use = y.prep.use /\ x.prep.key = y.prep.key
       \/ x.prep.use # "reset"

(* A tab that moves to a calm state is calm. *)
LEMMA CalmTo ==
    ASSUME TabTyped, NEW t \in Tabs, NEW x, To(t, x), CalmTab(x, tab[t])
    PROVE  CalmTab(tab'[t], tab[t])
    BY DEF To, TabTyped

(* A run that ends is calm. *)
LEMMA EndedCalm ==
    ASSUME TabTyped, NEW t \in Tabs, NEW at \in {"out", "idle", "mount", "load", "sso.load"}
    PROVE  CalmTab(Ended(t, at), tab[t])
    <1>1. at \in Phases BY DEF Phases
    <1>2. Ended(t, at).at = at /\ Ended(t, at).prep = tab[t].prep BY <1>1, EndedIs
    <1> QED BY <1>2 DEF CalmTab

(* A run that fails is calm. *)
LEMMA FailsCalm ==
    ASSUME TabTyped, NEW t \in Tabs, NEW at \in {"out", "idle", "mount"}, Fails(t, at) \/ To(t, Ended(t, at))
    PROVE  CalmTab(tab'[t], tab[t])
    BY EndedCalm, CalmTo DEF Fails

(* A move to a phase that sends nothing is calm. *)
LEMMA GotoCalm ==
    ASSUME TabTyped, NEW t \in Tabs, NEW at, at \notin {"put", "rst.send", "login"}, Goto(t, at)
    PROVE  CalmTab(tab'[t], tab[t])
    BY DEF Goto, To, TabTyped, TabStates, CalmTab

(* The steps that are calm for their own tab, in three groups. *)
LEMMA CalmPlain ==
    ASSUME TabTyped, NEW t \in Tabs,
           \/ OpenVault(t) \/ LoadBefore(t) \/ SetUp(t) \/ SetUpLoad(t) \/ SetUpExists(t) \/ ChangeBegin(t) \/ ChangeLive(t)
           \/ ChangeKeep(t) \/ Prepare(t) \/ RestoreBegin(t) \/ RestoreLive(t) \/ ResetRetry(t) \/ ResetSend(t)
           \/ ResetKeep(t) \/ Cancel(t) \/ Forget(t) \/ EndSession(t) \/ Close(t) \/ Visit(t)
    PROVE  CalmTab(tab'[t], tab[t])
    <1> USE DEF CalmTab, Goto, Fails, To, TabStates
    <1>0. tab[t] \in TabStates /\ tab \in [Tabs -> TabStates] BY DEF TabTyped
    <1>1. CASE OpenVault(t) BY <1>0, <1>1 DEF OpenVault
    <1>2. CASE LoadBefore(t) BY <1>0, <1>2 DEF LoadBefore, Opened, Ended
    <1>3. CASE SetUp(t) BY <1>0, <1>3 DEF SetUp
    <1>4. CASE SetUpLoad(t) BY <1>0, <1>4 DEF SetUpLoad
    <1>5. CASE SetUpExists(t) BY <1>0, <1>5 DEF SetUpExists, Finishing, Again, Ended
    <1>6. CASE ChangeBegin(t) BY <1>0, <1>6 DEF ChangeBegin
    <1>7. CASE ChangeLive(t) BY <1>0, <1>7 DEF ChangeLive, Ended
    <1>8. CASE ChangeKeep(t) BY <1>0, <1>8 DEF ChangeKeep, Ended
    <1>9. CASE Prepare(t) BY <1>0, <1>9 DEF Prepare, NoPrep
    <1>10. CASE RestoreBegin(t) BY <1>0, <1>10, ZenonT(40) DEF RestoreBegin
    <1>11. CASE RestoreLive(t) BY <1>0, <1>11 DEF RestoreLive, Ended
    <1>12. CASE ResetRetry(t) BY <1>0, <1>12 DEF ResetRetry
    <1>13. CASE ResetSend(t) BY <1>0, <1>13, ZenonT(40) DEF ResetSend
    <1>14. CASE ResetKeep(t) BY <1>0, <1>14 DEF ResetKeep, Ended, NoPrep
    <1>15. CASE Cancel(t) BY <1>0, <1>15 DEF Cancel, NoPrep
    <1>16. CASE Forget(t) BY <1>0, <1>16 DEF Forget, NewTab, NoPrep
    <1>17. CASE EndSession(t) BY <1>0, <1>17 DEF EndSession, NewTab, NoPrep
    <1>18. CASE Close(t) BY <1>0, <1>18 DEF Close, NewTab, NoPrep
    <1>19. CASE Visit(t) BY <1>0, <1>19 DEF Visit, NewTab, NoPrep
    <1> QED BY <1>1, <1>2, <1>3, <1>4, <1>5, <1>6, <1>7, <1>8, <1>9, <1>10, <1>11, <1>12, <1>13, <1>14, <1>15,
               <1>16, <1>17, <1>18, <1>19

(* The second group writes the vault by comparison. *)
LEMMA CalmSwaps ==
    ASSUME TabTyped, NEW t \in Tabs, KeepSettled(t) \/ SetUpSave(t) \/ SetUpFinish(t) \/ RestoreKeep(t)
    PROVE  CalmTab(tab'[t], tab[t])
    <1>0. tab[t] \in TabStates BY DEF TabTyped
    <1>1. CASE KeepSettled(t)
      <2>1. To(t, Ended(t, "mount")) BY <1>1 DEF KeepSettled, Swap
      <2> QED BY <2>1, FailsCalm
    <1>2. CASE SetUpSave(t)
      <2> DEFINE x == [tab[t] EXCEPT !.at = "sso.put", !.old = tab[t].id]
      <2>1. To(t, x) \/ To(t, Again(t)) BY <1>2 DEF SetUpSave, Swap
      <2>2. CalmTab(x, tab[t]) BY <1>0 DEF TabStates, CalmTab
      <2>3. CalmTab(Again(t), tab[t])
        BY <1>0, EndedCalm DEF Again, TabStates, CalmTab, Ended
      <2> HIDE DEF x
      <2> QED BY <2>1, <2>2, <2>3, CalmTo
    <1>3. CASE SetUpFinish(t)
      <2>1. To(t, Ended(t, "mount")) BY <1>3 DEF SetUpFinish, Swap, Fails
      <2> QED BY <2>1, FailsCalm
    <1>4. CASE RestoreKeep(t)
      <2>1. To(t, Ended(t, "mount")) \/ To(t, Ended(t, "idle")) BY <1>4 DEF RestoreKeep, Swap
      <2> QED BY <2>1, FailsCalm
    <1> QED BY <1>1, <1>2, <1>3, <1>4

(* The third group has several outcomes each. *)
LEMMA CalmBranches ==
    ASSUME TabTyped, NEW t \in Tabs,
           \/ Login(t) \/ Upgrade(t) \/ PutIdentity(t) \/ Mount(t) \/ SetUpLive(t) \/ SetUpPut(t) \/ ChangeStep(t) \/ ChangeSend(t)
           \/ TypeBack(t) \/ SaveStep(t) \/ SaveRecovery(t) \/ RestoreFetch(t) \/ ResetCheck(t)
    PROVE  CalmTab(tab'[t], tab[t])
    <1>0. tab[t] \in TabStates BY DEF TabTyped
    <1>1. CASE Login(t)
      <2> DEFINE at == IF pass.known THEN "choose" ELSE IF pass.legacy THEN "upgrade" ELSE "vault"
                 x == [tab[t] EXCEPT !.srv = row, !.at = at]
      <2>1. Fails(t, "out") \/ To(t, x) BY <1>1 DEF Login
      <2>2. at \in {"choose", "upgrade", "vault"} OBVIOUS
      <2> HIDE DEF at
      <2>3. CalmTab(x, tab[t]) BY <1>0, <2>2 DEF TabStates, CalmTab
      <2> HIDE DEF x
      <2> QED BY <2>1, <2>3, FailsCalm, CalmTo
    <1>2. CASE Upgrade(t)
      <2> DEFINE x == [tab[t] EXCEPT !.at = "vault", !.cur = pass.epoch + 1, !.srv.pw = IF @ # 0 THEN pass.epoch + 1 ELSE 0]
      <2>1. Goto(t, "vault") \/ To(t, x) BY <1>2 DEF Upgrade
      <2>2. CalmTab(x, tab[t]) BY <1>0 DEF TabStates, CalmTab
      <2> HIDE DEF x
      <2> QED BY <2>1, <2>2, GotoCalm, CalmTo
    <1>3. CASE PutIdentity(t)
      <2> DEFINE x == [tab[t] EXCEPT !.at = "keep", !.id.dev = minted.dev + 1]
      <2>1. Goto(t, "winner") \/ Fails(t, "mount") \/ To(t, x) BY <1>3 DEF PutIdentity
      <2>2. CalmTab(x, tab[t]) BY <1>0 DEF TabStates, CalmTab
      <2> HIDE DEF x
      <2> QED BY <2>1, <2>2, GotoCalm, FailsCalm, CalmTo
    <1>4. CASE Mount(t)
      <2> DEFINE st == Status(Local(t), row)
                 mem == IF st = "held" THEN Local(t) ELSE NoId
                 e == Ended(t, "idle")
                 prep == IF tab[t].prep.use = "setup" /\ st # "held" THEN NoPrep ELSE e.prep
                 x == [e EXCEPT !.live = row, !.status = st, !.mem = mem, !.prep = prep]
      <2>1. To(t, NewTab) \/ To(t, x) BY <1>4, Zenon DEF Mount
      <2>2. e \in TabStates /\ e.at = "idle" /\ e.prep = tab[t].prep
        <3>1. "idle" \in Phases BY DEF Phases
        <3> QED BY <3>1, EndedIs
      <2>3. prep = NoPrep \/ prep = tab[t].prep BY <2>2
      <2> HIDE DEF st, mem, e, prep
      <2>4. x.at = "idle" /\ x.prep = prep BY <2>2 DEF TabStates
      <2>5. CalmTab(x, tab[t]) BY <2>3, <2>4 DEF CalmTab, NoPrep
      <2>6. CalmTab(NewTab, tab[t]) BY DEF CalmTab, NewTab, NoPrep
      <2> HIDE DEF x
      <2> QED BY <2>1, <2>5, <2>6, CalmTo
    <1>5. CASE SetUpLive(t)
      <2> DEFINE x == [tab[t] EXCEPT !.at = "sso.put", !.id = tab[t].old]
                 y == [tab[t] EXCEPT !.at = "sso.save", !.id = [key |-> minted.key + 1, dev |-> 0]]
      <2>1. \/ Fails(t, "idle") \/ Fails(t, "mount") \/ To(t, Ended(t, "mount")) \/ To(t, x) \/ To(t, y)
            \/ To(t, Finishing(t, tab[t].old, row.dev)) \/ To(t, Finishing(t, Local(t), row.dev))
        BY <1>5 DEF SetUpLive
      <2>2. CalmTab(x, tab[t]) /\ CalmTab(y, tab[t]) BY <1>0 DEF TabStates, CalmTab
      <2>3. \A l, d : CalmTab(Finishing(t, l, d), tab[t]) BY <1>0 DEF TabStates, CalmTab, Finishing
      <2> HIDE DEF x, y
      <2> QED BY <2>1, <2>2, <2>3, FailsCalm, CalmTo
    <1>6. CASE SetUpPut(t)
      <2>1. Goto(t, "sso.exists") \/ Fails(t, "idle") \/ To(t, Finishing(t, tab[t].id, minted.dev + 1)) BY <1>6 DEF SetUpPut
      <2>2. CalmTab(Finishing(t, tab[t].id, minted.dev + 1), tab[t]) BY <1>0 DEF TabStates, CalmTab, Finishing
      <2> QED BY <2>1, <2>2, GotoCalm, FailsCalm, CalmTo
    <1>7. CASE ChangeStep(t)
      <2> DEFINE x == [tab[t] EXCEPT !.at = "chg.send", !.id = ListedId]
      <2>1. To(t, x) \/ To(t, Ended(t, "idle")) BY <1>7 DEF ChangeStep, Fails
      <2>2. CalmTab(x, tab[t]) BY <1>0 DEF TabStates, CalmTab
      <2> HIDE DEF x
      <2> QED BY <2>1, <2>2, FailsCalm, CalmTo
    <1>8. CASE ChangeSend(t)
      <2>1. Goto(t, "chg.keep") \/ Fails(t, "idle") BY <1>8 DEF ChangeSend
      <2> QED BY <2>1, GotoCalm, FailsCalm
    <1>9. CASE TypeBack(t)
      <2> DEFINE at == IF tab[t].prep.use = "setup" THEN "rec.step" ELSE "rst.step"
                 x == [tab[t] EXCEPT !.prep.ok = TRUE, !.at = at]
      <2>1. To(t, x) BY <1>9 DEF TypeBack
      <2>2. at \in {"rec.step", "rst.step"} OBVIOUS
      <2>3. tab[t].prep \in Preps BY <1>0, TabParts
      <2> HIDE DEF at
      <2>4. x.at = at /\ x.prep = [tab[t].prep EXCEPT !.ok = TRUE] BY <1>0 DEF TabStates
      <2> HIDE DEF x
      <2>5. x.prep.use = tab[t].prep.use /\ x.prep.key = tab[t].prep.key BY <2>3, <2>4 DEF Preps
      <2>6. CalmTab(x, tab[t]) BY <2>2, <2>4, <2>5 DEF CalmTab
      <2> QED BY <2>1, <2>6, CalmTo
    <1>10. CASE SaveStep(t)
      <2>1. Goto(t, "rec.put") \/ Fails(t, "idle") BY <1>10 DEF SaveStep
      <2> QED BY <2>1, GotoCalm, FailsCalm
    <1>11. CASE SaveRecovery(t)
      <2> DEFINE e == Ended(t, "idle")
                 spent == [e EXCEPT !.prep = NoPrep]
                 over == [spent EXCEPT !.at = "mount"]
      <2>1. To(t, e) \/ To(t, spent) \/ To(t, over) BY <1>11 DEF SaveRecovery, Fails
      <2>2. e \in TabStates /\ e.at = "idle"
        <3>1. "idle" \in Phases BY DEF Phases
        <3> QED BY <3>1, EndedIs
      <2>3. CASE To(t, e) BY <2>3, FailsCalm
      <2> HIDE DEF e
      <2>4. CalmTab(spent, tab[t]) /\ CalmTab(over, tab[t]) BY <2>2 DEF TabStates, CalmTab, NoPrep
      <2> HIDE DEF spent, over
      <2> QED BY <2>1, <2>3, <2>4, CalmTo
    <1>12. CASE RestoreFetch(t)
      <2> DEFINE x == [tab[t] EXCEPT !.at = "res.keep", !.id = ListedId]
      <2>1. To(t, x) \/ To(t, Ended(t, "idle")) BY <1>12 DEF RestoreFetch, Fails
      <2>2. CalmTab(x, tab[t]) BY <1>0 DEF TabStates, CalmTab
      <2> HIDE DEF x
      <2> QED BY <2>1, <2>2, FailsCalm, CalmTo
    <1>13. CASE ResetCheck(t)
      <2> DEFINE x == [tab[t] EXCEPT !.at = "rst.keep", !.id = ListedId]
      <2>1. To(t, x) \/ To(t, Ended(t, "idle")) BY <1>13 DEF ResetCheck, Fails
      <2>2. CalmTab(x, tab[t]) BY <1>0 DEF TabStates, CalmTab
      <2> HIDE DEF x
      <2> QED BY <2>1, <2>2, FailsCalm, CalmTo
    <1> QED BY <1>1, <1>2, <1>3, <1>4, <1>5, <1>6, <1>7, <1>8, <1>9, <1>10, <1>11, <1>12, <1>13

(* A step of a tab moves no other tab, and neither the account nor a tab's home changes. *)
LEMMA StepFrame ==
    ASSUME LifeTyped, NEW t \in Tabs, Step(t)
    PROVE  UNCHANGED fixed /\ \A u \in Tabs : u # t => tab'[u] = tab[u]
    <1> tab \in [Tabs -> TabStates] BY DEF LifeTyped, TabTyped
    <1>1. CASE SignIn(t) BY <1>1 DEF SignIn, To
    <1>2. CASE Login(t) BY <1>2 DEF Login, Fails, To
    <1>3. CASE Upgrade(t) BY <1>3 DEF Upgrade, Goto, To
    <1>4. CASE OpenVault(t) BY <1>4 DEF OpenVault, Goto, To
    <1>5. CASE LoadBefore(t) BY <1>5 DEF LoadBefore, To
    <1>6. CASE EnsureStepUp(t) BY <1>6 DEF EnsureStepUp, Fails, To
    <1>7. CASE PutIdentity(t) BY <1>7 DEF PutIdentity, Goto, Fails, To
    <1>8. CASE KeepSettled(t) BY <1>8 DEF KeepSettled, Swap, To
    <1>9. CASE Mount(t) BY <1>9 DEF Mount, To
    <1>10. CASE Visit(t) BY <1>10 DEF Visit, To
    <1>11. CASE SetUp(t) BY <1>11 DEF SetUp, To
    <1>12. CASE SetUpLoad(t) BY <1>12 DEF SetUpLoad, To
    <1>13. CASE SetUpLive(t) BY <1>13 DEF SetUpLive, Fails, To
    <1>14. CASE SetUpSave(t) BY <1>14 DEF SetUpSave, Swap, To
    <1>15. CASE SetUpPut(t) BY <1>15 DEF SetUpPut, Goto, Fails, To
    <1>16. CASE SetUpExists(t) BY <1>16 DEF SetUpExists, To
    <1>17. CASE SetUpFinish(t) BY <1>17 DEF SetUpFinish, Swap, Fails, To
    <1>18. CASE ChangeBegin(t) BY <1>18 DEF ChangeBegin, To
    <1>19. CASE ChangeLive(t) BY <1>19 DEF ChangeLive, To
    <1>20. CASE ChangeStep(t) BY <1>20 DEF ChangeStep, Fails, To
    <1>21. CASE ChangeSend(t) BY <1>21 DEF ChangeSend, Goto, Fails, To
    <1>22. CASE ChangeKeep(t) BY <1>22 DEF ChangeKeep, To
    <1>23. CASE Prepare(t) BY <1>23 DEF Prepare, To
    <1>24. CASE TypeBack(t) BY <1>24 DEF TypeBack, To
    <1>25. CASE SaveStep(t) BY <1>25 DEF SaveStep, Goto, Fails, To
    <1>26. CASE SaveRecovery(t) BY <1>26 DEF SaveRecovery, Fails, To
    <1>27. CASE RestoreBegin(t) BY <1>27 DEF RestoreBegin, To
    <1>28. CASE RestoreLive(t) BY <1>28 DEF RestoreLive, To
    <1>29. CASE RestoreFetch(t) BY <1>29 DEF RestoreFetch, Fails, To
    <1>30. CASE RestoreKeep(t) BY <1>30 DEF RestoreKeep, Swap, To
    <1>31. CASE ResetBegin(t) BY <1>31 DEF ResetBegin, To
    <1>32. CASE ResetRetry(t) BY <1>32 DEF ResetRetry, Goto, To
    <1>33. CASE ResetStep(t) BY <1>33 DEF ResetStep, Goto, Fails, To
    <1>34. CASE ResetSend(t) BY <1>34 DEF ResetSend, Goto, To
    <1>35. CASE ResetCheck(t) BY <1>35 DEF ResetCheck, Fails, To
    <1>36. CASE ResetKeep(t) BY <1>36 DEF ResetKeep, To
    <1>37. CASE Cancel(t) BY <1>37 DEF Cancel, To
    <1>38. CASE Forget(t) BY <1>38 DEF Forget, To
    <1>39. CASE EndSession(t) BY <1>39 DEF EndSession, To
    <1>40. CASE Close(t) BY <1>40 DEF Close, To
    <1> QED BY <1>1, <1>2, <1>3, <1>4, <1>5, <1>6, <1>7, <1>8, <1>9, <1>10, <1>11, <1>12, <1>13, <1>14, <1>15,
        <1>16, <1>17, <1>18, <1>19, <1>20, <1>21, <1>22, <1>23, <1>24, <1>25, <1>26, <1>27, <1>28, <1>29, <1>30,
        <1>31, <1>32, <1>33, <1>34, <1>35, <1>36, <1>37, <1>38, <1>39, <1>40 DEF Step

(* The steps that leave all sessions alone. *)
LEMMA SessionsAlone ==
    ASSUME NEW t \in Tabs, Step(t)
    PROVE  UNCHANGED session \/ Login(t) \/ EnsureStepUp(t) \/ Visit(t) \/ ChangeStep(t) \/ ChangeSend(t) \/
           SaveStep(t) \/ RestoreFetch(t) \/ ResetBegin(t) \/ ResetStep(t) \/ ResetSend(t) \/ EndSession(t)
    <1>1. CASE SignIn(t) BY <1>1 DEF SignIn, server
    <1>2. CASE Upgrade(t) BY <1>2 DEF Upgrade, server
    <1>3. CASE OpenVault(t) BY <1>3 DEF OpenVault, server
    <1>4. CASE LoadBefore(t) BY <1>4 DEF LoadBefore, server
    <1>5. CASE PutIdentity(t) BY <1>5 DEF PutIdentity, server
    <1>6. CASE KeepSettled(t) BY <1>6 DEF KeepSettled, server
    <1>7. CASE Mount(t) BY <1>7 DEF Mount, server
    <1>8. CASE SetUp(t) BY <1>8 DEF SetUp, server
    <1>9. CASE SetUpLoad(t) BY <1>9 DEF SetUpLoad, server
    <1>10. CASE SetUpLive(t) BY <1>10 DEF SetUpLive, server
    <1>11. CASE SetUpSave(t) BY <1>11 DEF SetUpSave, server
    <1>12. CASE SetUpPut(t) BY <1>12 DEF SetUpPut, server
    <1>13. CASE SetUpExists(t) BY <1>13 DEF SetUpExists, server
    <1>14. CASE SetUpFinish(t) BY <1>14 DEF SetUpFinish, server
    <1>15. CASE ChangeBegin(t) BY <1>15 DEF ChangeBegin, server
    <1>16. CASE ChangeLive(t) BY <1>16 DEF ChangeLive, server
    <1>17. CASE ChangeKeep(t) BY <1>17 DEF ChangeKeep, server
    <1>18. CASE Prepare(t) BY <1>18 DEF Prepare, server
    <1>19. CASE TypeBack(t) BY <1>19 DEF TypeBack, server
    <1>20. CASE SaveRecovery(t) BY <1>20 DEF SaveRecovery, server
    <1>21. CASE RestoreBegin(t) BY <1>21 DEF RestoreBegin, server
    <1>22. CASE RestoreLive(t) BY <1>22 DEF RestoreLive, server
    <1>23. CASE RestoreKeep(t) BY <1>23 DEF RestoreKeep, server
    <1>24. CASE ResetRetry(t) BY <1>24 DEF ResetRetry, server
    <1>25. CASE ResetCheck(t) BY <1>25 DEF ResetCheck, server
    <1>26. CASE ResetKeep(t) BY <1>26 DEF ResetKeep, server
    <1>27. CASE Cancel(t) BY <1>27 DEF Cancel, server
    <1>28. CASE Forget(t) BY <1>28 DEF Forget, server
    <1>29. CASE Close(t) BY <1>29 DEF Close, server
    <1> QED BY <1>1, <1>2, <1>3, <1>4, <1>5, <1>6, <1>7, <1>8, <1>9, <1>10, <1>11, <1>12, <1>13, <1>14, <1>15,
        <1>16, <1>17, <1>18, <1>19, <1>20, <1>21, <1>22, <1>23, <1>24, <1>25, <1>26, <1>27, <1>28, <1>29 DEF
        Step

(* The steps that leave the row, the password and the listed keys alone. *)
LEMMA RowAlone ==
    ASSUME NEW t \in Tabs, Step(t)
    PROVE  UNCHANGED <<row, pass, listed>> \/ Upgrade(t) \/ PutIdentity(t) \/ SetUpPut(t) \/ ChangeSend(t) \/
           SaveRecovery(t) \/ ResetSend(t)
    <1>1. CASE SignIn(t) BY <1>1 DEF SignIn, server, ghosts
    <1>2. CASE Login(t) BY <1>2 DEF Login, server, ghosts
    <1>3. CASE OpenVault(t) BY <1>3 DEF OpenVault, server, ghosts
    <1>4. CASE LoadBefore(t) BY <1>4 DEF LoadBefore, server, ghosts
    <1>5. CASE EnsureStepUp(t) BY <1>5 DEF EnsureStepUp, server, ghosts
    <1>6. CASE KeepSettled(t) BY <1>6 DEF KeepSettled, server, ghosts
    <1>7. CASE Mount(t) BY <1>7 DEF Mount, server, ghosts
    <1>8. CASE Visit(t) BY <1>8 DEF Visit, server, ghosts
    <1>9. CASE SetUp(t) BY <1>9 DEF SetUp, server, ghosts
    <1>10. CASE SetUpLoad(t) BY <1>10 DEF SetUpLoad, server, ghosts
    <1>11. CASE SetUpLive(t) BY <1>11 DEF SetUpLive, server, ghosts
    <1>12. CASE SetUpSave(t) BY <1>12 DEF SetUpSave, server, ghosts
    <1>13. CASE SetUpExists(t) BY <1>13 DEF SetUpExists, server, ghosts
    <1>14. CASE SetUpFinish(t) BY <1>14 DEF SetUpFinish, server, ghosts
    <1>15. CASE ChangeBegin(t) BY <1>15 DEF ChangeBegin, server, ghosts
    <1>16. CASE ChangeLive(t) BY <1>16 DEF ChangeLive, server, ghosts
    <1>17. CASE ChangeStep(t) BY <1>17 DEF ChangeStep, server, ghosts
    <1>18. CASE ChangeKeep(t) BY <1>18 DEF ChangeKeep, server, ghosts
    <1>19. CASE Prepare(t) BY <1>19 DEF Prepare, server, ghosts
    <1>20. CASE TypeBack(t) BY <1>20 DEF TypeBack, server, ghosts
    <1>21. CASE SaveStep(t) BY <1>21 DEF SaveStep, server, ghosts
    <1>22. CASE RestoreBegin(t) BY <1>22 DEF RestoreBegin, server, ghosts
    <1>23. CASE RestoreLive(t) BY <1>23 DEF RestoreLive, server, ghosts
    <1>24. CASE RestoreFetch(t) BY <1>24 DEF RestoreFetch, server, ghosts
    <1>25. CASE RestoreKeep(t) BY <1>25 DEF RestoreKeep, server, ghosts
    <1>26. CASE ResetBegin(t) BY <1>26 DEF ResetBegin, server, ghosts
    <1>27. CASE ResetRetry(t) BY <1>27 DEF ResetRetry, server, ghosts
    <1>28. CASE ResetStep(t) BY <1>28 DEF ResetStep, server, ghosts
    <1>29. CASE ResetCheck(t) BY <1>29 DEF ResetCheck, server, ghosts
    <1>30. CASE ResetKeep(t) BY <1>30 DEF ResetKeep, server, ghosts
    <1>31. CASE Cancel(t) BY <1>31 DEF Cancel, server, ghosts
    <1>32. CASE Forget(t) BY <1>32 DEF Forget, server, ghosts
    <1>33. CASE EndSession(t) BY <1>33 DEF EndSession, server, ghosts
    <1>34. CASE Close(t) BY <1>34 DEF Close, server, ghosts
    <1> QED BY <1>1, <1>2, <1>3, <1>4, <1>5, <1>6, <1>7, <1>8, <1>9, <1>10, <1>11, <1>12, <1>13, <1>14, <1>15,
        <1>16, <1>17, <1>18, <1>19, <1>20, <1>21, <1>22, <1>23, <1>24, <1>25, <1>26, <1>27, <1>28, <1>29, <1>30,
        <1>31, <1>32, <1>33, <1>34 DEF Step

(* No step takes back a key that was made. *)
LEMMA KeysGrow ==
    ASSUME LifeTyped, NEW t \in Tabs, Step(t)
    PROVE  minted'.key \in Nat /\ minted.key <= minted'.key
    <1>0. minted \in Counters /\ minted.key \in Nat BY DEF LifeTyped, RestTyped, Counters
    <1> USE <1>0 DEF Counters
    <1>1. CASE SignIn(t) BY <1>1 DEF SignIn
    <1>2. CASE Login(t) BY <1>2 DEF Login
    <1>3. CASE Upgrade(t) BY <1>3 DEF Upgrade
    <1>4. CASE OpenVault(t) BY <1>4 DEF OpenVault
    <1>5. CASE LoadBefore(t) BY <1>5 DEF LoadBefore
    <1>6. CASE EnsureStepUp(t) BY <1>6 DEF EnsureStepUp
    <1>7. CASE PutIdentity(t) BY <1>7 DEF PutIdentity, Created, NotCreated
    <1>8. CASE KeepSettled(t) BY <1>8 DEF KeepSettled
    <1>9. CASE Mount(t) BY <1>9 DEF Mount
    <1>10. CASE Visit(t) BY <1>10 DEF Visit
    <1>11. CASE SetUp(t) BY <1>11 DEF SetUp
    <1>12. CASE SetUpLoad(t) BY <1>12 DEF SetUpLoad
    <1>13. CASE SetUpLive(t) BY <1>13 DEF SetUpLive
    <1>14. CASE SetUpSave(t) BY <1>14 DEF SetUpSave
    <1>15. CASE SetUpPut(t) BY <1>15 DEF SetUpPut, Created, NotCreated
    <1>16. CASE SetUpExists(t) BY <1>16 DEF SetUpExists
    <1>17. CASE SetUpFinish(t) BY <1>17 DEF SetUpFinish
    <1>18. CASE ChangeBegin(t) BY <1>18 DEF ChangeBegin
    <1>19. CASE ChangeLive(t) BY <1>19 DEF ChangeLive
    <1>20. CASE ChangeStep(t) BY <1>20 DEF ChangeStep
    <1>21. CASE ChangeSend(t) BY <1>21 DEF ChangeSend
    <1>22. CASE ChangeKeep(t) BY <1>22 DEF ChangeKeep
    <1>23. CASE Prepare(t) BY <1>23 DEF Prepare
    <1>24. CASE TypeBack(t) BY <1>24 DEF TypeBack
    <1>25. CASE SaveStep(t) BY <1>25 DEF SaveStep
    <1>26. CASE SaveRecovery(t) BY <1>26 DEF SaveRecovery
    <1>27. CASE RestoreBegin(t) BY <1>27 DEF RestoreBegin
    <1>28. CASE RestoreLive(t) BY <1>28 DEF RestoreLive
    <1>29. CASE RestoreFetch(t) BY <1>29 DEF RestoreFetch
    <1>30. CASE RestoreKeep(t) BY <1>30 DEF RestoreKeep
    <1>31. CASE ResetBegin(t) BY <1>31 DEF ResetBegin
    <1>32. CASE ResetRetry(t) BY <1>32 DEF ResetRetry
    <1>33. CASE ResetStep(t) BY <1>33 DEF ResetStep
    <1>34. CASE ResetSend(t)
      <2>1. minted' = minted \/ minted' = [minted EXCEPT !.dev = @ + 1, !.rec = @ + 1]
        BY <1>34 DEF ResetSend, Replaced
      <2>2. minted' = minted \/ \E d, r : minted' = [minted EXCEPT !.dev = d, !.rec = r] BY <2>1
      <2>3. minted'.key = minted.key BY <2>2
      <2> QED BY <2>3
    <1>35. CASE ResetCheck(t) BY <1>35 DEF ResetCheck
    <1>36. CASE ResetKeep(t) BY <1>36 DEF ResetKeep
    <1>37. CASE Cancel(t) BY <1>37 DEF Cancel
    <1>38. CASE Forget(t) BY <1>38 DEF Forget
    <1>39. CASE EndSession(t) BY <1>39 DEF EndSession
    <1>40. CASE Close(t) BY <1>40 DEF Close
    <1> QED BY <1>1, <1>2, <1>3, <1>4, <1>5, <1>6, <1>7, <1>8, <1>9, <1>10, <1>11, <1>12, <1>13, <1>14, <1>15,
        <1>16, <1>17, <1>18, <1>19, <1>20, <1>21, <1>22, <1>23, <1>24, <1>25, <1>26, <1>27, <1>28, <1>29, <1>30,
        <1>31, <1>32, <1>33, <1>34, <1>35, <1>36, <1>37, <1>38, <1>39, <1>40 DEF Step

(* A step of tab t does not touch the sessions of other browsers but to    *)
(* end them, and only a sign-in makes its own session live.                *)
LEMMA SessionStep ==
    ASSUME LifeTyped, NEW t \in Tabs, Step(t)
    PROVE  /\ \A b \in Browsers : b # home[t] => session'[b] = session[b] \/ ~session'[b].live
           /\ session'[home[t]].live => session[home[t]].live \/ Login(t) \/ Visit(t)
    <1>0. session \in [Browsers -> Sessions] /\ home[t] \in Browsers
      BY DEF LifeTyped, ServerTyped, FixedTyped
    <1>1. ASSUME NEW e, session' = [session EXCEPT ![home[t]].step = e]
          PROVE  session'[home[t]].live = session[home[t]].live /\ \A b \in Browsers : b # home[t] => session'[b] = session[b]
      BY <1>0, <1>1 DEF Sessions
    <1>2. ASSUME NEW s, session' = [session EXCEPT ![home[t]] = s]
          PROVE  session'[home[t]] = s /\ \A b \in Browsers : b # home[t] => session'[b] = session[b]
      BY <1>0, <1>2
    <1>3. CASE UNCHANGED session BY <1>3
    <1>4. CASE EnsureStepUp(t) \/ ChangeStep(t) \/ SaveStep(t) \/ RestoreFetch(t) \/ ResetBegin(t) \/ ResetStep(t)
      <2>1. session' = session \/ \E e : session' = [session EXCEPT ![home[t]].step = e]
        BY <1>4 DEF EnsureStepUp, ChangeStep, SaveStep, RestoreFetch, ResetBegin, ResetStep, SteppedUp
      <2> QED BY <1>1, <2>1
    <1>5. CASE Login(t)
      <2>1. session' = session \/ session' = [session EXCEPT ![home[t]] = [live |-> TRUE, step |-> 0]] BY <1>5 DEF Login
      <2> QED BY <1>2, <1>5, <2>1
    <1>6. CASE Visit(t)
      <2>1. session' = [session EXCEPT ![home[t]].live = TRUE] BY <1>6 DEF Visit
      <2> QED BY <1>0, <1>6, <2>1
    <1>7. CASE EndSession(t)
      <2>1. session' = [session EXCEPT ![home[t]] = [live |-> FALSE, step |-> 0]] BY <1>7 DEF EndSession
      <2> QED BY <1>2, <2>1
    <1>8. CASE ChangeSend(t)
      <2>1. session' = session \/ session' = [b \in Browsers |-> [live |-> OnlyThis(t)[b].live, step |-> 0]]
        BY <1>8 DEF ChangeSend, Changed, server
      <2>2. /\ OnlyThis(t)[home[t]].live = session[home[t]].live
            /\ \A b \in Browsers : b # home[t] => OnlyThis(t)[b].live = FALSE
        BY <1>0 DEF OnlyThis
      <2>3. CASE session' = [b \in Browsers |-> [live |-> OnlyThis(t)[b].live, step |-> 0]]
        <3>1. \A b \in Browsers : session'[b].live = OnlyThis(t)[b].live BY <2>3
        <3> QED BY <1>0, <2>2, <3>1
      <2> QED BY <2>1, <2>3
    <1>9. CASE ResetSend(t)
      <2>1. session' = session \/ session' = OnlyThis(t) BY <1>9 DEF ResetSend, Replaced
      <2> QED BY <1>0, <2>1 DEF OnlyThis
    <1> QED BY <1>3, <1>4, <1>5, <1>6, <1>7, <1>8, <1>9, SessionsAlone

(* What a reset's request does, when it is accepted. *)
LEMMA ResetAccepted ==
    ASSUME LifeInv, NEW t \in Tabs, ResetSend(t), row' # row
    PROVE  /\ Replaced(t) /\ tab[t].at = "rst.send" /\ tab[t].prep.use = "reset"
           /\ row'.key = tab[t].prep.key /\ row'.dev # row.dev
           /\ row'.pw = IF account = "password" THEN tab[t].prep.cur ELSE 0
           /\ Session(t).live /\ row.key # tab[t].prep.key /\ listed' = listed \cup {tab[t].prep.key}
           /\ account # "sso" => Session(t).step = pass.epoch /\ ~pass.known
           /\ UNCHANGED pass /\ tab[t].prep.key \in 1..minted.key
           /\ \A b \in Browsers : b # home[t] => ~session'[b].live
    <1>1. Replaced(t) /\ tab[t].at = "rst.send" /\ UNCHANGED pass BY DEF ResetSend
    <1>2. tab[t].prep.use = "reset" /\ tab[t].prep.key \in 1..minted.key
      BY <1>1, StepStart, WorldIs DEF RunSafe, ResetPhases, MemorySafe
    <1>3. row'.key = tab[t].prep.key /\ row'.dev = minted.dev + 1
          /\ row'.pw = IF account = "password" THEN tab[t].prep.cur ELSE 0
      BY <1>1 DEF Replaced
    <1>4. row.dev <= minted.dev /\ row.dev \in Nat /\ minted.dev \in Nat
      BY StepStart, TabViews DEF LifeInv, LifeSafe, RowSafe, Rows, Counters
    <1>5. row'.dev # row.dev BY <1>3, <1>4
    <1>6. \A b \in Browsers : b # home[t] => ~session'[b].live BY <1>1 DEF Replaced, OnlyThis
    <1>7. Session(t).live /\ row.key # tab[t].prep.key /\ listed' = listed \cup {tab[t].prep.key}
          /\ (account # "sso" => Session(t).step = pass.epoch /\ ~pass.known)
      BY <1>1 DEF Replaced, ResetAllowed, Authorised
    <1> QED BY <1>1, <1>2, <1>3, <1>5, <1>6, <1>7

(* What a creation does, when it is accepted. *)
LEMMA CreationAccepted ==
    ASSUME LifeInv, NEW t \in Tabs, PutIdentity(t) \/ SetUpPut(t), row' # row
    PROVE  /\ row.key = 0 /\ listed = {} /\ row.rec = 0 /\ row'.key = tab[t].id.key /\ listed' = {tab[t].id.key}
           /\ tab[t].id.key \in 1..minted.key /\ UNCHANGED pass
           /\ \/ SetUpPut(t) /\ row'.pw = 0
              \/ /\ PutIdentity(t) /\ tab[t].at = "put" /\ row'.pw = tab[t].cur /\ Session(t).live
                 /\ Session(t).step = pass.epoch /\ ~pass.known
    <1>1. row.key = 0 /\ UNCHANGED <<fixed, pass, vault, paper, givenUp>> BY DEF PutIdentity, SetUpPut, NotCreated
    <1>2. listed = {} /\ row.rec = 0 BY <1>1 DEF LifeInv, LifeSafe, RowSafe
    <1>3. tab[t].id.key # 0 /\ tab[t].cur \in Nat /\ (PutIdentity(t) => account # "sso")
      BY StepStart, WorldIs, TabParts DEF PutIdentity, SetUpPut, RunSafe, PasswordPhases
    <1>4. tab[t].id.key \in 1..minted.key
      BY <1>3, StepStart, TabParts, KnownParts, WorldIs DEF Known, Ids, Counters
    <1>5. CASE PutIdentity(t)
      <2>1. Created(t, tab[t].cur) /\ Authorised(t) /\ tab[t].at = "put" BY <1>5 DEF PutIdentity, NotCreated
      <2>2. row'.key = tab[t].id.key /\ row'.pw = tab[t].cur BY <1>1, <1>3, <2>1, CreatedMoves
      <2>3. listed' = {tab[t].id.key} BY <1>2, <2>1 DEF Created
      <2> QED BY <1>1, <1>2, <1>3, <1>4, <1>5, <2>1, <2>2, <2>3 DEF Authorised
    <1>6. CASE SetUpPut(t)
      <2>1. Created(t, 0) BY <1>6 DEF SetUpPut, NotCreated
      <2>2. row'.key = tab[t].id.key /\ row'.pw = 0 BY <1>1, <1>3, <2>1, CreatedMoves
      <2>3. listed' = {tab[t].id.key} BY <1>2, <2>1 DEF Created
      <2> QED BY <1>1, <1>2, <1>4, <1>6, <2>2, <2>3
    <1> QED BY <1>5, <1>6

(* The steps that move the password copy, and those that leave it, leave   *)
(* the rest of the row.                                                    *)
LEMMA RowKeeps ==
    ASSUME LifeInv, NEW t \in Tabs, Upgrade(t) \/ ChangeSend(t) \/ SaveRecovery(t)
    PROVE  row'.key = row.key /\ row'.dev = row.dev /\ listed' = listed
           /\ (SaveRecovery(t) => row'.pw = row.pw /\ UNCHANGED pass) /\ (~SaveRecovery(t) => row'.rec = row.rec)
    <1>0. row \in Rows BY TabViews, StepStart
    <1>1. CASE SaveRecovery(t)
      <2>1. row' = row \/ row' = [row EXCEPT !.rec = minted.rec + 1, !.code = tab[t].prep.code, !.seals = tab[t].prep.key]
        BY <1>1 DEF SaveRecovery
      <2>2. row'.key = row.key /\ row'.dev = row.dev /\ row'.pw = row.pw BY <1>0, <2>1 DEF Rows
      <2> QED BY <1>1, <2>2 DEF SaveRecovery, ghosts
    <1>2. CASE Upgrade(t)
      <2>1. row' = row \/ \E n : row' = [row EXCEPT !.pw = n] BY <1>2 DEF Upgrade, Upgraded
      <2>2. row'.key = row.key /\ row'.dev = row.dev /\ row'.rec = row.rec BY <1>0, <2>1 DEF Rows
      <2>3. ~SaveRecovery(t) BY <1>2 DEF Upgrade, SaveRecovery
      <2> QED BY <1>2, <2>2, <2>3 DEF Upgrade, ghosts
    <1>3. CASE ChangeSend(t)
      <2>1. row' = row \/ \E n : row' = [row EXCEPT !.pw = n] BY <1>0, <1>3 DEF ChangeSend, Changed, server
      <2>2. row'.key = row.key /\ row'.dev = row.dev /\ row'.rec = row.rec BY <1>0, <2>1 DEF Rows
      <2>3. ~SaveRecovery(t) BY <1>3 DEF ChangeSend, SaveRecovery
      <2> QED BY <1>3, <2>2, <2>3 DEF ChangeSend, ghosts
    <1> QED BY <1>1, <1>2, <1>3

(* A recovery copy of one identity is replaced only by a tab that saw it. *)
LEMMA CopyKnown ==
    ASSUME LifeInv, [Next]_vars, row.rec # 0, row'.dev = row.dev, row'.rec # row.rec
    PROVE  \E t \in Tabs : tab[t].at = "rec.put" /\ tab[t].live.rec = row.rec
    <1>1. row' # row OBVIOUS
    <1>2. ~SetPassword
      <2>1. ASSUME SetPassword PROVE FALSE
        <3>1. row' = [row EXCEPT !.pw = 0] BY <2>1 DEF SetPassword
        <3>2. row \in Rows BY DEF LifeInv, LifeTyped, ServerTyped
        <3> QED BY <3>1, <3>2 DEF Rows
      <2> QED BY <2>1
    <1>3. PICK t \in Tabs : Step(t) BY <1>1, <1>2 DEF Next, vars
    <1>4. SaveRecovery(t)
      BY <1>1, <1>3, RowAlone, CreationAccepted, ResetAccepted, RowKeeps
    <1>5. RecoverySwaps(t) /\ tab[t].at = "rec.put" BY <1>1, <1>4 DEF SaveRecovery
    <1> QED BY <1>5 DEF RecoverySwaps

(* saveRecovery, PUT /me/identity/recovery: the copy of a listed identity  *)
(* is replaced only from a tab that had seen the one it replaces.          *)
THEOREM CopiesAreReplacedKnowingly == Spec => CopyReplacedKnowingly
    <1>1. LifeInv /\ [Next]_vars =>
            [row.rec # 0 /\ row'.dev = row.dev /\ row'.rec # row.rec =>
                \E t \in Tabs : tab[t].at = "rec.put" /\ tab[t].live.rec = row.rec]_vars
      BY CopyKnown
    <1> QED BY <1>1, LifeInit, LifeStep, PTL DEF Spec, CopyReplacedKnowingly

-----------------------------------------------------------------------------
(* The second layer. *)

(* The listed key changes by a creation where none was, or by a reset. *)
LEMMA ListedStep ==
    ASSUME LifeInv, NEW t \in Tabs, Step(t)
    PROVE  \/ row'.key = row.key /\ row'.dev = row.dev /\ listed' = listed
           \/ row.key = 0 /\ row' # row /\ (PutIdentity(t) \/ SetUpPut(t))
           \/ ResetSend(t) /\ Replaced(t) /\ row' # row
    <1>1. CASE PutIdentity(t) \/ SetUpPut(t)
      <2>1. NotCreated \/ (row.key = 0 /\ \E pw \in Nat : Created(t, pw))
        BY <1>1, StepStart, TabParts DEF PutIdentity, SetUpPut
      <2>2. ASSUME row.key = 0, NEW pw \in Nat, Created(t, pw) PROVE row' # row
        <3>1. tab[t].id.key # 0 BY <1>1, StepStart DEF PutIdentity, SetUpPut, RunSafe
        <3>2. UNCHANGED <<fixed, pass, vault, paper, givenUp>> BY <1>1 DEF PutIdentity, SetUpPut
        <3> QED BY <2>2, <3>1, <3>2, CreatedMoves
      <2> QED BY <1>1, <2>1, <2>2 DEF NotCreated
    <1>2. CASE ResetSend(t)
      <2>1. ASSUME Replaced(t) PROVE row' # row
        <3>1. row'.dev = minted.dev + 1 BY <2>1 DEF Replaced
        <3>2. row.dev <= minted.dev /\ row.dev \in Nat /\ minted.dev \in Nat
          BY StepStart, TabViews DEF LifeInv, LifeSafe, RowSafe, Rows, Counters
        <3> QED BY <3>1, <3>2
      <2>2. ~Replaced(t) => UNCHANGED <<row, listed>> BY <1>2 DEF ResetSend
      <2> QED BY <1>2, <2>1, <2>2
    <1> QED BY <1>1, <1>2, RowAlone, RowKeeps

(* A tab alone in its browser is told nothing new by another tab's step,   *)
(* or has its session ended.                                               *)
LEMMA OthersStep ==
    ASSUME LifeInv, SessionInv, NEW u \in Tabs, Step(u), NEW t \in Tabs, t # u, ~Shares(t)
    PROVE  OwnSession(t)'
    <1>1. LifeTyped /\ tab'[t] = tab[t] /\ account' = account /\ home' = home /\ home[u] # home[t] /\ home[t] \in Browsers
          /\ OwnSession(t)
      BY StepFrame DEF LifeInv, LifeTyped, FixedTyped, fixed, Shares, SessionInv
    <1>2. session'[home[t]] = session[home[t]] \/ ~session'[home[t]].live BY <1>1, SessionStep
    <1>3. CASE ~session'[home[t]].live
      BY <1>1, <1>3 DEF OwnSession, Session
    <1>4. CASE session'[home[t]] = session[home[t]] /\ session'[home[t]].live
      <2>1. tab[t].prep.use = "reset" /\ tab[t].prep.key \in listed' => row'.key = tab[t].prep.key
        <3>1. CASE row'.key = row.key /\ listed' = listed
          BY <1>1, <1>4, <3>1 DEF OwnSession, Session
        <3>2. CASE row.key = 0
          BY <3>2, StepStart, WorldIs DEF MemorySafe
        <3>3. ~Replaced(u) BY <1>1, <1>4 DEF Replaced, OnlyThis
        <3> QED BY <3>1, <3>2, <3>3, ListedStep
      <2>2. /\ tab[t].at = "put" /\ session[home[t]].live => session[home[t]].step = tab[t].cur
            /\ tab[t].at = "rst.send" /\ account # "sso" /\ session[home[t]].live => session[home[t]].step = tab[t].prep.cur
        BY <1>1 DEF OwnSession, Session
      <2> QED BY <1>1, <1>4, <2>1, <2>2 DEF OwnSession, Session
    <1> QED BY <1>2, <1>3, <1>4

(* Its own step keeps what it relies on: it sends only after the step-up   *)
(* that the request needs.                                                 *)
LEMMA OwnStep ==
    ASSUME LifeInv, SessionInv, NEW t \in Tabs, Step(t), ~Shares(t)
    PROVE  OwnSession(t)'
    <1> DEFINE x == tab'[t]
               s == session'[home[t]]
    <1>1. LifeTyped /\ TabTyped /\ tab[t] \in TabStates /\ account' = account /\ home' = home /\ home[t] \in Browsers
          /\ OwnSession(t) /\ session \in [Browsers -> Sessions]
      BY StepFrame, StepStart DEF LifeInv, LifeTyped, FixedTyped, fixed, SessionInv
    <1>2. SUFFICES /\ x.at = "put" /\ s.live => s.step = x.cur
                   /\ x.at = "rst.send" /\ account # "sso" /\ s.live => s.step = x.prep.cur
                   /\ x.prep.use = "reset" /\ x.prep.key \in listed' /\ s.live => row'.key = x.prep.key
      BY <1>1 DEF OwnSession, Session
    <1>3. s.live => session[home[t]].live \/ Login(t) \/ Visit(t) BY <1>1, SessionStep
    <1>4. ASSUME tab[t].prep.use = "reset", tab[t].prep.key \in listed', s.live, ~Login(t), ~Visit(t)
          PROVE  row'.key = tab[t].prep.key
      <2>1. row.key # 0 BY <1>4, StepStart, WorldIs DEF MemorySafe
      <2>2. CASE row'.key = row.key /\ listed' = listed BY <1>1, <1>3, <1>4, <2>2 DEF OwnSession, Session
      <2>3. CASE Replaced(t) BY <2>3 DEF Replaced
      <2> QED BY <2>1, <2>2, <2>3, ListedStep
    <1> HIDE DEF s
    <1>5. CASE CalmTab(x, tab[t]) /\ ~Login(t) /\ ~Visit(t)
      BY <1>4, <1>5 DEF CalmTab
    <1>6. CASE Login(t)
      <2>1. tab[t].prep.use # "reset" BY <1>6 DEF Login, SessionInv
      <2>2. CalmTab(x, tab[t]) BY <1>1, <1>6, CalmBranches
      <2> QED BY <2>1, <2>2 DEF CalmTab
    <1>7. CASE Visit(t)
      <2>1. x = [NewTab EXCEPT !.at = "mount"] BY <1>1, <1>7 DEF Visit, To, TabTyped
      <2>2. x.at = "mount" /\ x.prep.use = "none" BY <2>1 DEF NewTab, NoPrep
      <2> QED BY <2>2
    <1>8. CASE SignIn(t)
      <2>1. x = [NewTab EXCEPT !.at = "login", !.cur = pass.epoch] BY <1>1, <1>8 DEF SignIn, To, TabTyped
      <2>2. x.at = "login" /\ x.prep.use = "none" BY <2>1 DEF NewTab, NoPrep
      <2> QED BY <2>2
    <1>9. CASE EnsureStepUp(t)
      <2> DEFINE y == [tab[t] EXCEPT !.at = "put", !.id.key = minted.key + 1]
      <2>1. \/ To(t, Opened(t, row)) \/ Fails(t, "mount")
            \/ SteppedUp(t, tab[t].cur) /\ To(t, y)
        BY <1>9 DEF EnsureStepUp
      <2>2. ~Login(t) /\ ~Visit(t) BY <1>9 DEF EnsureStepUp, Login, Visit
      <2>3. CASE Fails(t, "mount") BY <1>1, <1>5, <2>2, <2>3, FailsCalm
      <2>4. CASE To(t, Opened(t, row))
        <3>1. CalmTab(Opened(t, row), tab[t])
          <4>1. CalmTab(Ended(t, "mount"), tab[t]) BY <1>1, EndedCalm
          <4>2. CalmTab([tab[t] EXCEPT !.at = "keep", !.id = [key |-> row.key, dev |-> row.dev]], tab[t])
            BY <1>1 DEF CalmTab, TabStates
          <4> QED BY <4>1, <4>2 DEF Opened
        <3> QED BY <1>1, <1>5, <2>2, <2>4, <3>1, CalmTo
      <2>5. CASE SteppedUp(t, tab[t].cur) /\ To(t, y)
        <3>1. x = y BY <1>1, <2>5 DEF To, TabTyped
        <3>2. y.at = "put" /\ y.cur = tab[t].cur /\ y.prep = tab[t].prep BY <1>1 DEF TabStates
        <3>3. s.step = tab[t].cur BY <1>1, <2>5 DEF SteppedUp, s, Sessions
        <3> HIDE DEF x, y
        <3> QED BY <1>4, <2>2, <3>1, <3>2, <3>3
      <2> QED BY <2>1, <2>3, <2>4, <2>5
    <1>10. CASE ResetBegin(t)
      <2> DEFINE p == [use |-> "reset", code |-> minted.code + 1, key |-> minted.key + 1,
                       cur |-> IF account = "sso" THEN 0 ELSE pass.epoch, ok |-> FALSE]
                 y == [tab[t] EXCEPT !.prep = p]
      <2>1. To(t, y) /\ tab[t].at = "idle" /\ listed' = listed BY <1>10 DEF ResetBegin, ghosts
      <2>2. p.key = minted.key + 1 OBVIOUS
      <2> HIDE DEF p
      <2>3. y.at = "idle" /\ y.prep = p BY <1>1, <2>1 DEF TabStates
      <2>4. x = y BY <1>1, <2>1 DEF To, TabTyped
      <2> HIDE DEF y, x
      <2>5. minted.key + 1 \notin listed
        <3>1. minted.key \in Nat BY StepStart DEF Counters
        <3> QED BY <3>1 DEF SessionInv
      <2> QED BY <2>1, <2>2, <2>3, <2>4, <2>5
    <1>11. CASE ResetStep(t)
      <2> DEFINE y == [tab[t] EXCEPT !.at = "rst.send"]
      <2>1. Fails(t, "idle") \/ (To(t, y) /\ (account # "sso" => SteppedUp(t, tab[t].prep.cur))) BY <1>11 DEF ResetStep, Goto
      <2>2. ~Login(t) /\ ~Visit(t) BY <1>11 DEF ResetStep, Login, Visit
      <2>3. CASE Fails(t, "idle") BY <1>1, <1>5, <2>2, <2>3, FailsCalm
      <2>4. CASE To(t, y) /\ (account # "sso" => SteppedUp(t, tab[t].prep.cur))
        <3>1. x = y BY <1>1, <2>4 DEF To, TabTyped
        <3>2. y.at = "rst.send" /\ y.prep = tab[t].prep BY <1>1 DEF TabStates
        <3>3. account # "sso" => s.step = tab[t].prep.cur BY <1>1, <2>4 DEF SteppedUp, s, Sessions
        <3> HIDE DEF x, y
        <3> QED BY <1>4, <2>2, <3>1, <3>2, <3>3
      <2> QED BY <2>1, <2>3, <2>4
    <1>12. CASE \/ OpenVault(t) \/ LoadBefore(t) \/ SetUp(t) \/ SetUpLoad(t) \/ SetUpExists(t) \/ ChangeBegin(t)
                \/ ChangeLive(t) \/ ChangeKeep(t) \/ Prepare(t) \/ RestoreBegin(t) \/ RestoreLive(t) \/ ResetRetry(t)
                \/ ResetSend(t) \/ ResetKeep(t) \/ Cancel(t) \/ Forget(t) \/ EndSession(t) \/ Close(t)
                \/ KeepSettled(t) \/ SetUpSave(t) \/ SetUpFinish(t) \/ RestoreKeep(t)
                \/ Upgrade(t) \/ PutIdentity(t) \/ Mount(t) \/ SetUpLive(t) \/ SetUpPut(t) \/ ChangeStep(t) \/ ChangeSend(t)
                \/ TypeBack(t) \/ SaveStep(t) \/ SaveRecovery(t) \/ RestoreFetch(t) \/ ResetCheck(t)
      <2>1. CalmTab(x, tab[t]) BY <1>1, <1>12, CalmPlain, CalmSwaps, CalmBranches
      <2> QED BY <1>5, <1>6, <1>7, <2>1
    <1> QED BY <1>6, <1>7, <1>8, <1>9, <1>10, <1>11, <1>12 DEF Step

(* Only the start of a sign-in leads to its login, and it drops a prepared reset. *)
LEMMA LoginStep ==
    ASSUME LifeInv, NEW t \in Tabs, Step(t), tab'[t].at = "login"
    PROVE  tab'[t].prep.use # "reset"
    <1>1. LifeTyped /\ TabTyped /\ tab[t] \in TabStates BY StepStart
    <1>2. ~CalmTab(tab'[t], tab[t]) BY DEF CalmTab
    <1>3. CASE SignIn(t)
      <2>1. tab'[t] = [NewTab EXCEPT !.at = "login", !.cur = pass.epoch] BY <1>1, <1>3 DEF SignIn, To, TabTyped
      <2> QED BY <2>1 DEF NewTab, NoPrep
    <1>4. CASE EnsureStepUp(t)
      <2> DEFINE y == [tab[t] EXCEPT !.at = "put", !.id.key = minted.key + 1]
      <2>1. To(t, Opened(t, row)) \/ Fails(t, "mount") \/ To(t, y) BY <1>4 DEF EnsureStepUp
      <2>2. ~Fails(t, "mount") BY <1>1, <1>2, FailsCalm
      <2>3. CalmTab(Opened(t, row), tab[t])
        <3>1. CalmTab(Ended(t, "mount"), tab[t]) BY <1>1, EndedCalm
        <3>2. CalmTab([tab[t] EXCEPT !.at = "keep", !.id = [key |-> row.key, dev |-> row.dev]], tab[t])
          BY <1>1 DEF CalmTab, TabStates
        <3> QED BY <3>1, <3>2 DEF Opened
      <2>4. y.at = "put" BY <1>1 DEF TabStates
      <2>5. ~To(t, y) BY <1>1, <2>4 DEF To, TabTyped
      <2> QED BY <1>1, <1>2, <2>1, <2>2, <2>3, <2>5, CalmTo
    <1>5. CASE ResetBegin(t)
      <2>1. tab[t].at = "idle" /\ \E p : To(t, [tab[t] EXCEPT !.prep = p]) BY <1>5 DEF ResetBegin
      <2> QED BY <1>1, <2>1 DEF To, TabTyped, TabStates
    <1>6. CASE ResetStep(t)
      <2>1. Fails(t, "idle") \/ Goto(t, "rst.send") BY <1>6 DEF ResetStep
      <2>2. ~Goto(t, "rst.send") BY <1>1 DEF Goto, To, TabTyped, TabStates
      <2> QED BY <1>1, <1>2, <2>1, <2>2, FailsCalm
    <1>7. CASE \/ OpenVault(t) \/ LoadBefore(t) \/ SetUp(t) \/ SetUpLoad(t) \/ SetUpExists(t) \/ ChangeBegin(t)
               \/ ChangeLive(t) \/ ChangeKeep(t) \/ Prepare(t) \/ RestoreBegin(t) \/ RestoreLive(t) \/ ResetRetry(t)
               \/ ResetSend(t) \/ ResetKeep(t) \/ Cancel(t) \/ Forget(t) \/ EndSession(t) \/ Close(t) \/ Visit(t)
               \/ KeepSettled(t) \/ SetUpSave(t) \/ SetUpFinish(t) \/ RestoreKeep(t)
               \/ Login(t) \/ Upgrade(t) \/ PutIdentity(t) \/ Mount(t) \/ SetUpLive(t) \/ SetUpPut(t) \/ ChangeStep(t)
               \/ ChangeSend(t) \/ TypeBack(t) \/ SaveStep(t) \/ SaveRecovery(t) \/ RestoreFetch(t) \/ ResetCheck(t)
      BY <1>1, <1>2, <1>7, CalmPlain, CalmSwaps, CalmBranches
    <1> QED BY <1>3, <1>4, <1>5, <1>6, <1>7 DEF Step

(* Only keys that were made are listed. *)
LEMMA ListedMade ==
    ASSUME LifeInv, listed \subseteq 1..minted.key, NEW t \in Tabs, Step(t)
    PROVE  listed' \subseteq 1..minted'.key
    <1>1. minted.key \in Nat /\ minted'.key \in Nat /\ minted.key <= minted'.key
      BY StepStart, KeysGrow DEF Counters
    <1>2. 1..minted.key \subseteq 1..minted'.key BY <1>1
    <1>3. listed' = listed \/ \E k \in 1..minted.key : listed' \subseteq listed \cup {k}
      BY ListedStep, CreationAccepted, ResetAccepted
    <1> QED BY <1>2, <1>3

(* The password copy moves with the password, and is made only under the   *)
(* password of a step-up that the session still has.                       *)
LEMMA CopyStep ==
    ASSUME LifeInv, SessionInv, NEW t \in Tabs, Step(t), \A u \in Tabs : ~Shares(u), row'.pw # 0
    PROVE  row'.pw = pass'.epoch /\ ~pass'.known
    <1>1. /\ row.pw # 0 => row.pw = pass.epoch /\ ~pass.known
          /\ OwnSession(t)
      BY DEF SessionInv, CopyOpens
    <1>2. CASE row' = row /\ UNCHANGED pass BY <1>1, <1>2
    <1>3. CASE PutIdentity(t) \/ SetUpPut(t)
      <2>1. UNCHANGED pass BY <1>3 DEF PutIdentity, SetUpPut
      <2>2. CASE row' # row
        <3>1. /\ tab[t].at = "put" /\ row'.pw = tab[t].cur /\ Session(t).live
              /\ Session(t).step = pass.epoch /\ ~pass.known
          BY <1>3, <2>2, CreationAccepted
        <3> QED BY <1>1, <2>1, <3>1 DEF OwnSession
      <2> QED BY <1>2, <2>1, <2>2
    <1>4. CASE ResetSend(t)
      <2>1. UNCHANGED pass BY <1>4 DEF ResetSend
      <2>2. CASE row' # row
        <3>1. /\ tab[t].at = "rst.send" /\ row'.pw = (IF account = "password" THEN tab[t].prep.cur ELSE 0) /\ Session(t).live
              /\ account # "sso" => Session(t).step = pass.epoch /\ ~pass.known
          BY <1>4, <2>2, ResetAccepted
        <3>2. account = "password" /\ row'.pw = tab[t].prep.cur BY <3>1
        <3> QED BY <1>1, <2>1, <3>1, <3>2 DEF OwnSession
      <2> QED BY <1>2, <2>1, <2>2
    <1>5. CASE SaveRecovery(t) BY <1>1, <1>5, RowKeeps
    <1>6. CASE Upgrade(t)
      <2> DEFINE next == pass.epoch + 1
      <2>1. \/ UNCHANGED <<row, pass>>
            \/ pass' = [pass EXCEPT !.epoch = next, !.legacy = FALSE] /\ row' = Upgraded(next)
        BY <1>6 DEF Upgrade
      <2>2. CASE pass' = [pass EXCEPT !.epoch = next, !.legacy = FALSE] /\ row' = Upgraded(next)
        <3>1. pass \in Passes /\ row \in Rows BY StepStart, TabViews
        <3> HIDE DEF next
        <3>2. pass'.epoch = next /\ pass'.known = pass.known BY <2>2, <3>1 DEF Passes
        <3>3. row'.pw = IF row.pw # 0 THEN next ELSE 0 BY <2>2, <3>1 DEF Upgraded, Rows
        <3> QED BY <1>1, <3>2, <3>3
      <2> QED BY <1>2, <2>1, <2>2
    <1>7. CASE ChangeSend(t)
      <2>1. UNCHANGED <<row, pass>> \/ Changed(t) BY <1>7 DEF ChangeSend, server
      <2>2. CASE Changed(t)
        <3>1. row \in Rows BY StepStart, TabViews
        <3>2. pass'.epoch = pass.epoch + 1 /\ pass'.known = FALSE BY <2>2 DEF Changed
        <3>3. row'.pw = IF tab[t].id.key # 0 THEN pass.epoch + 1 ELSE row.pw BY <2>2, <3>1 DEF Changed, Rows
        <3>4. row.pw # 0 => tab[t].id.key # 0 BY <2>2 DEF Changed, ChangeAllowed
        <3> QED BY <3>2, <3>3, <3>4
      <2> QED BY <1>2, <2>1, <2>2
    <1> QED BY <1>2, <1>3, <1>4, <1>5, <1>6, <1>7, RowAlone

(* The second layer holds at first. *)
LEMMA SessionInit == Init => SessionInv
    <1> SUFFICES ASSUME Init PROVE SessionInv OBVIOUS
    <1>1. row.pw = 0 /\ listed = {} BY DEF Init, NoRow
    <1>2. \A t \in Tabs : tab[t].at = "out" /\ tab[t].prep.use = "none" BY DEF Init, NewTab, NoPrep
    <1> QED BY <1>1, <1>2 DEF SessionInv, OwnSession, CopyOpens

(* A password set by somebody else ends every session. *)
LEMMA PasswordSession ==
    ASSUME LifeInv, SessionInv, SetPassword
    PROVE  SessionInv'
    <1>1. UNCHANGED <<account, home, tab, minted, listed>> /\ session' = [b \in Browsers |-> [live |-> FALSE, step |-> 0]]
          /\ row' = [row EXCEPT !.pw = 0]
      BY DEF SetPassword, fixed
    <1>2. row \in Rows /\ \A t \in Tabs : home[t] \in Browsers
      BY DEF LifeInv, LifeTyped, ServerTyped, FixedTyped
    <1>3. \A t \in Tabs : ~session'[home[t]].live BY <1>1, <1>2
    <1>4. row'.pw = 0 BY <1>1, <1>2 DEF Rows
    <1> QED BY <1>1, <1>3, <1>4 DEF SessionInv, OwnSession, CopyOpens, Session, Shares

(* A step of a tab. *)
LEMMA TabSession ==
    ASSUME LifeInv, SessionInv, NEW t \in Tabs, Step(t)
    PROVE  SessionInv'
    <1>1. account' = account /\ home' = home /\ \A u \in Tabs : u # t => tab'[u] = tab[u]
      BY StepFrame DEF LifeInv, fixed
    <1>2. \A u \in Tabs : Shares(u)' = Shares(u) BY <1>1 DEF Shares
    <1>3. ASSUME NEW u \in Tabs, ~Shares(u) PROVE OwnSession(u)'
      BY <1>3, OwnStep, OthersStep
    <1>4. ASSUME NEW u \in Tabs, tab'[u].at = "login" PROVE tab'[u].prep.use # "reset"
      <2>1. CASE u = t BY <1>4, <2>1, LoginStep
      <2>2. CASE u # t BY <1>1, <1>4, <2>2 DEF SessionInv
      <2> QED BY <2>1, <2>2
    <1>5. listed' \subseteq 1..minted'.key BY ListedMade DEF SessionInv
    <1>6. CopyOpens'
      <2> SUFFICES ASSUME \A u \in Tabs : ~Shares(u)', row'.pw # 0 PROVE row'.pw = pass'.epoch /\ ~pass'.known
        BY DEF CopyOpens
      <2>1. \A u \in Tabs : ~Shares(u) BY <1>2
      <2> QED BY <2>1, CopyStep
    <1> QED BY <1>2, <1>3, <1>4, <1>5, <1>6 DEF SessionInv

(* Every step keeps the second layer. *)
LEMMA SessionKeeps == LifeInv /\ SessionInv /\ [Next]_vars => SessionInv'
    <1> SUFFICES ASSUME LifeInv, SessionInv, [Next]_vars PROVE SessionInv' OBVIOUS
    <1>1. CASE UNCHANGED vars
      BY <1>1 DEF vars, SessionInv, OwnSession, CopyOpens, Session, Shares
    <1>2. CASE SetPassword BY <1>2, PasswordSession
    <1>3. ASSUME NEW t \in Tabs, Step(t) PROVE SessionInv' BY <1>3, TabSession
    <1> QED BY <1>1, <1>2, <1>3 DEF Next

(* upgradeLogin, rewrapIdentity, POST /auth/password, PUT /me/identity: the*)
(* password copy opens under the password that signs in now, and never     *)
(* under one an administrator knows, while no two tabs share a session.    *)
THEOREM PasswordCopyOpens == Spec => []CopyOpens
    <1>1. SessionInv => CopyOpens BY DEF SessionInv
    <1> QED BY <1>1, LifeInit, LifeStep, SessionInit, SessionKeeps, PTL DEF Spec

(* A new device ID comes with a key never listed before, or from a reset   *)
(* of a tab that shares its browser.                                       *)
LEMMA FreshListed ==
    ASSUME LifeInv, SessionInv, [Next]_vars, row'.dev # row.dev, row'.key \in listed
    PROVE  \E t \in Tabs : Shares(t) /\ tab[t].at = "rst.send" /\ tab[t].prep.key = row'.key
    <1>1. ~SetPassword
      <2>1. ASSUME SetPassword PROVE FALSE
        <3>1. row' = [row EXCEPT !.pw = 0] BY <2>1 DEF SetPassword
        <3>2. row \in Rows BY DEF LifeInv, LifeTyped, ServerTyped
        <3> QED BY <3>1, <3>2 DEF Rows
      <2> QED BY <2>1
    <1>2. PICK t \in Tabs : Step(t) BY <1>1 DEF Next, vars
    <1>3. ~((PutIdentity(t) \/ SetUpPut(t)) /\ row' # row) BY CreationAccepted
    <1>4. ResetSend(t) /\ row' # row BY <1>2, <1>3, ListedStep
    <1>5. /\ tab[t].at = "rst.send" /\ tab[t].prep.use = "reset" /\ row'.key = tab[t].prep.key
          /\ Session(t).live /\ row.key # tab[t].prep.key
      BY <1>4, ResetAccepted
    <1>6. Shares(t) BY <1>5 DEF SessionInv, OwnSession
    <1> QED BY <1>5, <1>6

(* PUT /me/identity: no request lists a key a second time, however often a *)
(* reset is tried again, but for a tab that shares its browser's session   *)
(* with another.                                                           *)
THEOREM KeysAreListedOnce == Spec => ListedOnce
    <1>1. LifeInv /\ SessionInv /\ [Next]_vars =>
            [row'.dev # row.dev => \/ row'.key \notin listed
                                   \/ \E t \in Tabs : Shares(t) /\ tab[t].at = "rst.send" /\ tab[t].prep.key = row'.key]_vars
      BY FreshListed
    <1> QED BY <1>1, LifeInit, LifeStep, SessionInit, SessionKeeps, PTL DEF Spec, ListedOnce
=============================================================================
