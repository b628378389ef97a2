--------------------------- MODULE KeyVaultProofs ---------------------------
(***************************************************************************)
(* Proofs about the browser's keys: every key a tab uses is vouched for,   *)
(* keys leave only for a stored pin, a pin is replaced only by what the    *)
(* user agreed to, content never leaves under a retired generation, and a  *)
(* pass agrees with what the device remembers.                             *)
(***************************************************************************)
EXTENDS KeyVault, WellFoundedInduction, TLAPS

-----------------------------------------------------------------------------
(* Least and greatest elements. *)

(* A nonempty set of natural numbers has a least element. *)
LEMMA Least == ASSUME NEW T, T \subseteq Nat, T # {} PROVE \E x \in T : \A y \in T : x <= y
  <1> DEFINE R == OpToRel(<, Nat)
  <1>1. IsWellFoundedOn(R, Nat)
    BY NatLessThanWellFounded
  <1>2. \A x, y \in Nat : y < x => <<y, x>> \in R
    BY DEF OpToRel
  <1> HIDE DEF R
  <1>3. PICK x \in T : \A y \in T : ~(<<y, x>> \in R)
    BY <1>1, WFMin
  <1>4. ASSUME NEW y \in T PROVE x <= y
    <2>1. x \in Nat /\ y \in Nat
      OBVIOUS
    <2>2. ~(y < x)
      BY <1>2, <1>3, <2>1, Zenon
    <2> QED BY <2>1, <2>2
  <1> QED BY <1>4

(* Max of a nonempty set of numbers up to n is one of them. *)
LEMMA MaxOf == ASSUME NEW n \in Nat, NEW S, S \subseteq 0..n, S # {} PROVE Max(S) \in S
  <1> DEFINE T == {n - x : x \in S}
  <1>1. T \subseteq Nat /\ T # {}
    <2>1. PICK x \in S : TRUE
      OBVIOUS
    <2>2. n - x \in T
      BY <2>1
    <2>3. \A y \in S : n - y \in Nat
      OBVIOUS
    <2> QED BY <2>2, <2>3
  <1> HIDE DEF T
  <1>2. PICK m \in T : \A y \in T : m <= y
    BY <1>1, Least, Zenon
  <1>3. PICK x \in S : m = n - x
    BY DEF T
  <1>4. \A y \in S : x >= y
    BY <1>2, <1>3 DEF T
  <1> QED BY <1>4 DEF Max

(* The server lists one of the colleague's keys from the start. *)
LEMMA FirstListed == Min(Colleague) \in Colleague
  <1>1. Colleague \subseteq Nat /\ Colleague # {}
    BY VaultBounds
  <1>2. PICK x \in Colleague : \A y \in Colleague : x <= y
    BY <1>1, Least, Zenon
  <1> QED BY <1>2 DEF Min

-----------------------------------------------------------------------------
(* Types. *)

Levels == 0..MaxGen
Rows == [shared : Levels, gen : Levels]
SeenRows == {Floor0} \cup [shared : Levels, gen : Gens]
KeyMaps == [Gens -> Nat]
Memories == [mark : Levels, digests : KeyMaps, shared : Levels, gen : Levels]
Envelopes == [key : Nat, from : Nat, to : Nat]
EnvMaps == [Gens -> Envelopes]
Roles == {"owner", "editor", "none"}
Servers == [gen : Gens, shared : Levels, envs : EnvMaps, theirs : EnvMaps, ck : Colleague, role : Roles]
Phases == {"idle", "begun", "row", "observed", "envelopes", "members", "asking", "agreed", "pinning", "sealing",
           "sealedfresh", "sealed", "done", "retry", "failed", "inviting", "ready", "plain"}
Grants == {"me", "them"} \X Nat
Passes == [phase : Phases, kind : {"none", "sync", "invite", "retrust"}, wrap : BOOLEAN, row : SeenRows,
           roll : BOOLEAN, known : Memories, envs : EnvMaps, theirs : EnvMaps, ck : Nat, role : Roles, pin : Nat,
           ring : KeyMaps, save : Memories, mint : BOOLEAN, grants : SUBSET Grants, key : Nat, retried : BOOLEAN]
Drafts == [row : SeenRows, key : Nat]
TabStates == [loaded : BOOLEAN, floor : Rows, heard : Rows, inbox : Rows, seen : Levels, ring : KeyMaps,
              row : SeenRows, draft : Drafts, pass : Passes]

TabsTyped == tab \in [Tabs -> TabStates]

VaultTyped ==
    /\ srv \in Servers /\ backup \in Servers /\ drawn \in Seq(Nat) /\ pin \in Nat /\ ks \in Memories
    /\ TabsTyped

LEMMA ConstantsTyped ==
  /\ MaxGen \in Nat /\ MaxKeys \in Nat /\ MaxPasses \in Nat /\ MaxFaults \in Nat /\ MaxGen > 0
  /\ Colleague \subseteq Nat /\ Gens \subseteq Levels /\ 0 \in Levels /\ 1 \in Gens
  /\ \A ck \in Colleague : ck \in Nat /\ ck # 0 /\ ck # Me
  BY VaultBounds DEF Gens, Levels, Me

LEMMA EmptyTyped ==
  /\ Floor0 \in Rows /\ Floor0 \in SeenRows /\ NoKeys \in KeyMaps /\ NoEnvs \in EnvMaps
  /\ NoMemory \in Memories /\ NoDraft \in Drafts
  <1>1. Floor0 \in Rows /\ Floor0 \in SeenRows
    BY ConstantsTyped DEF Floor0, Rows, SeenRows
  <1>2. NoKeys \in KeyMaps
    BY DEF NoKeys, KeyMaps
  <1>3. NoEnvs \in EnvMaps
    BY DEF NoEnvs, EnvMaps, NoEnv, Envelopes
  <1>4. NoMemory \in Memories
    BY <1>2, ConstantsTyped DEF NoMemory, Memories
  <1> QED BY <1>1, <1>2, <1>3, <1>4 DEF NoDraft, Drafts

LEMMA NoPassTyped == NoPass \in Passes
  BY EmptyTyped DEF NoPass, Passes, Phases, Roles

LEMMA NewTabTyped == NewTab \in TabStates
  BY EmptyTyped, NoPassTyped, ConstantsTyped DEF NewTab, TabStates

LEMMA RowFacts ==
  ASSUME NEW row \in SeenRows
  PROVE  row \in Rows /\ row.shared \in Levels /\ row.gen \in Levels /\ (row.shared # 0 => row.gen \in Gens)
  BY EmptyTyped, ConstantsTyped DEF SeenRows, Rows, Floor0

LEMMA LargerTyped == \A a, b \in Levels : Larger(a, b) \in Levels /\ Larger(a, b) >= a /\ Larger(a, b) >= b
  BY ConstantsTyped DEF Larger, Levels

(* What is raised is at least what it was and at least the row. *)
LEMMA RaisedRow ==
  ASSUME NEW floor \in Rows, NEW row, row.shared \in Levels, row.gen \in Levels
  PROVE  /\ Raised(floor, row) \in Rows
         /\ Raised(floor, row).gen = Larger(floor.gen, row.gen)
  BY LargerTyped DEF Raised, Rows

LEMMA RaisedMemory ==
  ASSUME NEW m \in Memories, NEW row, row.shared \in Levels, row.gen \in Levels
  PROVE  /\ Raised(m, row) \in Memories
         /\ Raised(m, row).digests = m.digests
  BY LargerTyped DEF Raised, Memories

LEMMA RememberedTyped == ASSUME ks \in Memories, NEW m \in Memories PROVE Remembered(m) \in Memories
  <1> DEFINE r == Raised(ks, m)
             digests == [g \in Gens |-> IF ks.digests[g] # 0 THEN ks.digests[g] ELSE m.digests[g]]
  <1>1. r \in Memories /\ r.mark \in Levels
    BY RaisedMemory DEF Memories
  <1>2. digests \in KeyMaps
    BY DEF Memories, KeyMaps
  <1>3. Larger(r.mark, m.mark) \in Levels
    BY <1>1, LargerTyped DEF Memories
  <1> HIDE DEF r, digests
  <1>4. [r EXCEPT !.mark = Larger(@, m.mark), !.digests = digests] \in Memories
    BY <1>1, <1>2, <1>3 DEF Memories
  <1> QED BY <1>4 DEF Remembered, r, digests
-----------------------------------------------------------------------------
(* openKeyring. *)

LEMMA KeptTyped == ASSUME NEW known \in Memories, NEW held \in KeyMaps PROVE Kept(held, known) \in KeyMaps
  BY DEF Memories, KeyMaps, Kept

(* Each key of an opened keyring was held, or is in an envelope that fits  *)
(* the device's memory: one sealed by this account or a current steward,   *)
(* or an older one sealed by the pinned identity.                          *)
LEMMA OpenedRing ==
  ASSUME NEW p, NEW envs, NEW ck, NEW role, NEW known, NEW held, NEW g \in Gens,
         NEW opened, opened = OpenKeyring(p, envs, ck, role, known, held)
  PROVE  \/ opened.ring[g] = Kept(held, known)[g]
         \/ /\ opened.ring[g] = envs[g].key /\ Fits(g, envs[g].key, known, Kept(held, known))
            /\ \/ Trusted(envs[g], p, ck, role) /\ (opened.fresh \/ p # 0 \/ envs[g].from = Me)
               \/ p # 0 /\ envs[g].from = p
  BY DEF OpenKeyring

LEMMA OpenedTyped ==
  ASSUME NEW p \in Nat, NEW envs \in EnvMaps, NEW ck, NEW role, NEW known \in Memories, NEW held \in KeyMaps,
         NEW opened, opened = OpenKeyring(p, envs, ck, role, known, held)
  PROVE  opened.ring \in KeyMaps /\ opened.known \in Memories /\ opened.clash \subseteq Gens
  <1> DEFINE kept  == Kept(held, known)
             fits(g) == envs[g] # NoEnv /\ Fits(g, envs[g].key, known, kept)
             now   == {g \in Gens : fits(g) /\ Trusted(envs[g], p, ck, role)}
             mark  == Max(now \cup {known.mark})
             later == {g \in Gens : /\ fits(g) /\ ~Trusted(envs[g], p, ck, role)
                                    /\ g < mark /\ p # 0 /\ envs[g].from = p}
             ring  == [g \in Gens |-> IF g \in now \cup later THEN envs[g].key ELSE kept[g]]
             digests == [g \in Gens |-> IF known.digests[g] # 0 THEN known.digests[g] ELSE ring[g]]
  <1>1. ring \in KeyMaps
    BY KeptTyped DEF KeyMaps, EnvMaps, Envelopes
  <1>2. mark \in Levels
    <2>1. now \cup {known.mark} \subseteq 0..MaxGen /\ now \cup {known.mark} # {}
      BY ConstantsTyped DEF Memories, Levels
    <2> HIDE DEF now
    <2>2. Max(now \cup {known.mark}) \in now \cup {known.mark}
      BY <2>1, ConstantsTyped, MaxOf, Zenon
    <2> QED BY <2>1, <2>2 DEF Levels
  <1>3. /\ opened.ring = ring /\ opened.clash \subseteq Gens
        /\ opened.known = [known EXCEPT !.mark = mark, !.digests = digests]
    BY DEF OpenKeyring
  <1> HIDE DEF mark, ring
  <1>4. digests \in KeyMaps
    BY <1>1 DEF Memories, KeyMaps
  <1> HIDE DEF digests
  <1>5. [known EXCEPT !.mark = mark, !.digests = digests] \in Memories
    BY <1>2, <1>4 DEF Memories
  <1> QED BY <1>1, <1>3, <1>5

(* An opened keyring has no key that differs from a remembered one. *)
LEMMA OpenedAgrees ==
  ASSUME NEW p, NEW envs \in EnvMaps, NEW ck, NEW role, NEW known \in Memories, NEW held \in KeyMaps, NEW g \in Gens,
         NEW opened, opened = OpenKeyring(p, envs, ck, role, known, held)
  PROVE  opened.ring[g] # 0 /\ known.digests[g] # 0 => opened.ring[g] = known.digests[g]
  <1>1. \/ opened.ring[g] = Kept(held, known)[g]
        \/ opened.ring[g] = envs[g].key /\ Fits(g, envs[g].key, known, Kept(held, known))
    BY OpenedRing
  <1>2. Kept(held, known)[g] # 0 /\ known.digests[g] # 0 => Kept(held, known)[g] = known.digests[g]
    BY DEF Kept
  <1> QED BY <1>1, <1>2 DEF Fits

-----------------------------------------------------------------------------
(* Keys that are vouched for. *)

(* drawn by this account or by an identity of P. *)
Held(k, d, P) == k \in 1..Len(d) /\ (d[k] = Me \/ d[k] \in P)

(* An envelope carries the identity that sealed it: this account seals     *)
(* only keys it vouches for, another identity only keys it drew.           *)
EnvSafe(e, d, P) ==
    e.key # 0 => IF e.from = Me THEN Held(e.key, d, P) ELSE e.key \in 1..Len(d) /\ d[e.key] = e.from
EnvsSafe(envs, d, P) == \A g \in Gens : EnvSafe(envs[g], d, P)
RingSafe(ring, d, P) == \A g \in Gens : ring[g] # 0 => Held(ring[g], d, P)

LEMMA OpenedSafe ==
  ASSUME NEW p, NEW envs \in EnvMaps, NEW ck, NEW role, NEW known \in Memories, NEW held \in KeyMaps,
         NEW d, NEW P, EnvsSafe(envs, d, P), RingSafe(held, d, P), p # 0 => p \in P,
         NEW opened, opened = OpenKeyring(p, envs, ck, role, known, held)
  PROVE  /\ RingSafe(opened.ring, d, P \cup {ck})
         /\ ~opened.fresh \/ ck \in P => RingSafe(opened.ring, d, P)
  <1> DEFINE kept == Kept(held, known)
  <1>1. ASSUME NEW g \in Gens, opened.ring[g] # 0
        PROVE  /\ Held(opened.ring[g], d, P \cup {ck})
               /\ ~opened.fresh \/ ck \in P => Held(opened.ring[g], d, P)
    <2>1. \/ opened.ring[g] = kept[g]
          \/ /\ opened.ring[g] = envs[g].key
             /\ \/ Trusted(envs[g], p, ck, role) /\ (opened.fresh \/ p # 0 \/ envs[g].from = Me)
                \/ p # 0 /\ envs[g].from = p
      BY OpenedRing
    <2>2. CASE opened.ring[g] = kept[g]
      BY <1>1, <2>2 DEF Kept, RingSafe, Held
    <2>3. CASE opened.ring[g] = envs[g].key /\ p # 0 /\ envs[g].from = p
      BY <1>1, <2>3 DEF EnvsSafe, EnvSafe, Held
    <2>4. CASE /\ opened.ring[g] = envs[g].key
               /\ Trusted(envs[g], p, ck, role) /\ (opened.fresh \/ p # 0 \/ envs[g].from = Me)
      BY <1>1, <2>4 DEF EnvsSafe, EnvSafe, Held, Trusted
    <2> QED BY <2>1, <2>2, <2>3, <2>4
  <1> QED BY <1>1 DEF RingSafe

-----------------------------------------------------------------------------
(* The steps keep the types. *)

LEMMA TabReplaced ==
  ASSUME TabsTyped, NEW t \in Tabs, NEW c \in TabStates, tab' = [tab EXCEPT ![t] = c]
  PROVE  TabsTyped'
  BY DEF TabsTyped

LEMMA WithTyped == ASSUME TabsTyped, NEW t \in Tabs, NEW q \in Passes, With(t, q) PROVE TabsTyped'
  <1>1. [tab[t] EXCEPT !.pass = q] \in TabStates
    BY DEF TabsTyped, TabStates
  <1>2. tab' = [tab EXCEPT ![t] = [tab[t] EXCEPT !.pass = q]]
    BY DEF With, TabsTyped
  <1> QED BY <1>1, <1>2, TabReplaced

(* What publishing a row does to the tab and to the others. *)
LEMMA PublishedTyped ==
  ASSUME TabsTyped, NEW t \in Tabs, NEW row, row.shared \in Levels, row.gen \in Levels
  PROVE  /\ Published(tab, t, row) \in [Tabs -> TabStates]
         /\ \A u \in Tabs : /\ Published(tab, t, row)[u].ring = tab[u].ring
                            /\ Published(tab, t, row)[u].pass = tab[u].pass
  <1> DEFINE floor == Raised(Raised(tab[t].floor, row), tab[t].heard)
             mine == [tab[t] EXCEPT !.loaded = TRUE, !.floor = floor, !.heard = Floor0,
                                    !.seen = Larger(@, row.gen)]
             told(u) == [tab[u] EXCEPT !.inbox = Raised(@, floor)]
  <1>1. tab[t] \in TabStates /\ tab[t].floor \in Rows /\ tab[t].heard \in Rows /\ tab[t].seen \in Levels
    BY DEF TabsTyped, TabStates
  <1>2. floor \in Rows /\ floor.shared \in Levels /\ floor.gen \in Levels
    <2>1. Raised(tab[t].floor, row) \in Rows /\ tab[t].heard.shared \in Levels /\ tab[t].heard.gen \in Levels
      BY <1>1, RaisedRow DEF Rows
    <2>2. floor \in Rows
      BY <2>1, RaisedRow
    <2> QED BY <2>2 DEF Rows
  <1> HIDE DEF floor
  <1>3. Larger(tab[t].seen, row.gen) \in Levels
    BY <1>1, LargerTyped
  <1>4. mine \in TabStates /\ mine.ring = tab[t].ring /\ mine.pass = tab[t].pass
    BY <1>1, <1>2, <1>3, EmptyTyped DEF TabStates
  <1>5. ASSUME NEW u \in Tabs
        PROVE  told(u) \in TabStates /\ told(u).ring = tab[u].ring /\ told(u).pass = tab[u].pass
    <2>1. tab[u] \in TabStates /\ tab[u].inbox \in Rows
      BY DEF TabsTyped, TabStates
    <2>2. Raised(tab[u].inbox, floor) \in Rows
      BY <1>2, <2>1, RaisedRow
    <2> QED BY <2>1, <2>2 DEF TabStates
  <1>6. Published(tab, t, row) = [u \in Tabs |-> IF u = t THEN mine ELSE told(u)]
    BY DEF Published, floor
  <1> HIDE DEF mine, told
  <1> QED BY <1>4, <1>5, <1>6

LEMMA PublishedWithTyped ==
  ASSUME TabsTyped, NEW t \in Tabs, NEW row, row.shared \in Levels, row.gen \in Levels, NEW q \in Passes,
         tab' = [Published(tab, t, row) EXCEPT ![t].pass = q]
  PROVE  /\ TabsTyped' /\ tab'[t].pass = q /\ tab'[t].ring = tab[t].ring
         /\ \A u \in Tabs \ {t} : tab'[u].pass = tab[u].pass /\ tab'[u].ring = tab[u].ring
  <1> DEFINE pub == Published(tab, t, row)
  <1>1. /\ pub \in [Tabs -> TabStates] /\ pub[t] \in TabStates
        /\ \A u \in Tabs : pub[u].ring = tab[u].ring /\ pub[u].pass = tab[u].pass
    BY PublishedTyped
  <1> HIDE DEF pub
  <1>2. tab' = [pub EXCEPT ![t] = [pub[t] EXCEPT !.pass = q]]
    BY <1>1 DEF pub
  <1>3. /\ [pub[t] EXCEPT !.pass = q] \in TabStates /\ [pub[t] EXCEPT !.pass = q].pass = q
        /\ [pub[t] EXCEPT !.pass = q].ring = pub[t].ring
    BY <1>1 DEF TabStates
  <1> QED BY <1>1, <1>2, <1>3 DEF TabsTyped

LEMMA PassOf == ASSUME TabsTyped, NEW t \in Tabs PROVE tab[t].pass \in Passes /\ tab[t].ring \in KeyMaps
  BY DEF TabsTyped, TabStates

(* The plan of a pass: a mint seals one generation for every recipient, a  *)
(* sweep seals keys the keyring has.                                       *)
LEMMA PlanTyped ==
  ASSUME NEW p \in Passes, NEW opened, NEW r, NEW plan, plan = Plan(p, opened, r)
  PROVE  /\ plan.mint \in BOOLEAN /\ plan.grants \subseteq Grants
         /\ plan.mint => /\ <<"me", p.row.gen + 1>> \in plan.grants
                         /\ p.role # "none" => ForThem(plan)
         /\ ~plan.mint => \A x \in plan.grants : x[2] \in Gens /\ opened.ring[x[2]] # 0
         /\ ForThem(plan) => p.role # "none"
  <1>1. p.row.gen + 1 \in Nat
    BY RowFacts DEF Passes, Levels
  <1>2. ASSUME NEW n \in Nat
        PROVE  /\ Recipients(p) \X {n} \subseteq Grants /\ <<"me", n>> \in Recipients(p) \X {n}
               /\ p.role # "none" => <<"them", n>> \in Recipients(p) \X {n}
               /\ \A x \in Recipients(p) \X {n} : x[1] = "them" => p.role # "none"
    BY <1>2 DEF Recipients, Grants
  <1>3. /\ Wraps(p, opened) \subseteq Grants /\ \A x \in Wraps(p, opened) : x[2] \in Gens /\ opened.ring[x[2]] # 0
        /\ \A x \in Wraps(p, opened) : x[1] = "them" => p.role # "none"
    BY DEF Wraps, Grants, Gens
  <1>4. CASE plan = Nothing
    BY <1>4 DEF Nothing, ForThem
  <1>5. CASE plan = [mint |-> TRUE, grants |-> Recipients(p) \X {p.row.gen + 1}]
    <2> DEFINE n == p.row.gen + 1
               all == Recipients(p) \X {n}
    <2>1. /\ all \subseteq Grants /\ <<"me", n>> \in all
          /\ p.role # "none" => <<"them", n>> \in all
          /\ \A x \in all : x[1] = "them" => p.role # "none"
      BY <1>1, <1>2
    <2>2. plan.mint = TRUE /\ plan.grants = all
      BY <1>5
    <2>3. p.role # "none" => \E x \in all : x[1] = "them"
      <3>1. <<"them", n>>[1] = "them"
        OBVIOUS
      <3> QED BY <2>1, <3>1
    <2> HIDE DEF all
    <2> QED BY <2>1, <2>2, <2>3 DEF ForThem
  <1>6. CASE plan = [mint |-> FALSE, grants |-> Wraps(p, opened)]
    BY <1>3, <1>6 DEF ForThem
  <1> QED BY <1>4, <1>5, <1>6 DEF Plan

-----------------------------------------------------------------------------
(* The inductive invariant of the keys. *)

Working == {"sealing", "sealedfresh", "sealed"}
Synced == {"begun", "row", "observed", "envelopes", "members"} \cup Working

(* While a first-contact pin is being stored the keyring may rest on it.   *)
PassRing(p, d, P) == RingSafe(p.ring, d, IF p.phase = "pinning" /\ p.kind = "sync" THEN P \cup {p.ck} ELSE P)

(* What is to be sealed: for the colleague only under the pin the pass     *)
(* read, and only keys of the keyring.                                     *)
PassPlan(p) ==
    /\ ForThem(p) => p.pin \in {0, p.ck}
    /\ IF p.mint THEN <<"me", p.row.gen + 1>> \in p.grants /\ (p.role # "none" => ForThem(p))
       ELSE \A x \in p.grants : x[2] \in Gens /\ p.ring[x[2]] # 0

PassSafe(p, d, P) ==
    /\ EnvsSafe(p.envs, d, P)
    /\ p.pin # 0 => p.pin \in P
    /\ p.phase \in Synced => p.kind = "sync"
    /\ p.phase = "pinning" => p.kind \in {"sync", "invite"}
    /\ p.phase \in {"inviting", "ready", "plain"} => p.kind = "invite"
    /\ p.kind = "invite" => Held(p.key, d, P)
    /\ p.phase = "ready" => p.ck \in P
    /\ PassRing(p, d, P)
    /\ p.phase \in Working \cup {"pinning"} /\ p.kind = "sync" => PassPlan(p)
    /\ p.phase \in {"sealedfresh", "sealed"} /\ p.mint => p.row.gen + 1 \in Gens /\ p.key \in 1..Len(d) /\ d[p.key] = Me
    /\ p.phase = "sealed" /\ ForThem(p) => p.pin = p.ck /\ p.ck \in P

(* A pass's keyring has no key that differs from the device's memory. *)
PassAgrees(p) ==
    /\ p.phase \in {"begun", "row"} => p.ring = NoKeys
    /\ \A g \in Gens : p.ring[g] # 0 /\ p.known.digests[g] # 0 => p.ring[g] = p.known.digests[g]

PassesSafe ==
    \A t \in Tabs : /\ RingSafe(tab[t].ring, drawn, pinned)
                    /\ PassSafe(tab[t].pass, drawn, pinned) /\ PassAgrees(tab[t].pass)

ServerSafe == EnvsSafe(srv.envs, drawn, pinned) /\ EnvsSafe(backup.envs, drawn, pinned)

GivenSafe == \A e \in given : e.to \in pinned /\ Held(e.key, drawn, pinned)

VaultSafe == (pin # 0 => pin \in pinned) /\ ServerSafe /\ PassesSafe /\ GivenSafe

VaultInv == VaultTyped /\ VaultSafe

(* More keys are drawn and more pins stored: what was safe stays safe. *)
Grown(d, P, d2, P2) == P \subseteq P2 /\ (d2 = d \/ \E who \in Nat : d2 = Append(d, who))

LEMMA HeldGrows ==
  ASSUME NEW d \in Seq(Nat), NEW P, NEW d2, NEW P2, Grown(d, P, d2, P2), NEW k
  PROVE  /\ Held(k, d, P) => Held(k, d2, P2)
         /\ k \in 1..Len(d) => k \in 1..Len(d2) /\ d2[k] = d[k]
  <1>1. k \in 1..Len(d) => k \in 1..Len(d2) /\ d2[k] = d[k]
    <2>1. CASE d2 = d
      BY <2>1
    <2>2. ASSUME NEW who \in Nat, d2 = Append(d, who)
          PROVE  k \in 1..Len(d) => k \in 1..Len(d2) /\ d2[k] = d[k]
      BY <2>2
    <2> QED BY <2>1, <2>2 DEF Grown
  <1> QED BY <1>1 DEF Held, Grown

LEMMA EnvsGrow ==
  ASSUME NEW d \in Seq(Nat), NEW P, NEW d2, NEW P2, Grown(d, P, d2, P2)
  PROVE  /\ \A envs : EnvsSafe(envs, d, P) => EnvsSafe(envs, d2, P2)
         /\ \A ring : RingSafe(ring, d, P) => RingSafe(ring, d2, P2)
  BY HeldGrows DEF EnvsSafe, EnvSafe, RingSafe

LEMMA PassGrows ==
  ASSUME NEW d \in Seq(Nat), NEW P, NEW d2, NEW P2, Grown(d, P, d2, P2), NEW p, PassSafe(p, d, P)
  PROVE  PassSafe(p, d2, P2)
  <1>1. P \subseteq P2 /\ Grown(d, P \cup {p.ck}, d2, P2 \cup {p.ck})
    BY DEF Grown
  <1>2. PassRing(p, d2, P2)
    BY <1>1, EnvsGrow DEF PassSafe, PassRing
  <1>3. EnvsSafe(p.envs, d2, P2)
    BY EnvsGrow DEF PassSafe
  <1>4. /\ Held(p.key, d, P) => Held(p.key, d2, P2)
        /\ p.key \in 1..Len(d) => p.key \in 1..Len(d2) /\ d2[p.key] = d[p.key]
    BY HeldGrows
  <1> QED BY <1>1, <1>2, <1>3, <1>4 DEF PassSafe

LEMMA NoPassSafe == ASSUME NEW d, NEW P PROVE PassSafe(NoPass, d, P) /\ PassAgrees(NoPass)
  <1>1. \A g \in Gens : NoEnvs[g].key = 0 /\ NoKeys[g] = 0
    BY DEF NoEnvs, NoEnv, NoKeys
  <1>2. EnvsSafe(NoEnvs, d, P) /\ RingSafe(NoKeys, d, P)
    BY <1>1 DEF EnvsSafe, EnvSafe, RingSafe
  <1>3. /\ NoPass.envs = NoEnvs /\ NoPass.ring = NoKeys /\ NoPass.phase = "idle" /\ NoPass.kind = "none"
        /\ NoPass.pin = 0
    BY DEF NoPass
  <1> QED BY <1>1, <1>2, <1>3 DEF PassSafe, PassAgrees, PassRing, Synced, Working

(* One tab's pass moved on, the others are where they were. *)
Others(t) == \A u \in Tabs \ {t} : tab'[u].pass = tab[u].pass /\ tab'[u].ring = tab[u].ring

LEMMA PassMoved ==
  ASSUME VaultInv, NEW t \in Tabs, Grown(drawn, pinned, drawn', pinned'), Others(t),
         RingSafe(tab'[t].ring, drawn', pinned'),
         PassSafe(tab'[t].pass, drawn', pinned'), PassAgrees(tab'[t].pass)
  PROVE  PassesSafe'
  <1>1. ASSUME NEW u \in Tabs, u # t
        PROVE  /\ RingSafe(tab[u].ring, drawn', pinned')
               /\ PassSafe(tab[u].pass, drawn', pinned') /\ PassAgrees(tab[u].pass)
    BY PassGrows, EnvsGrow DEF VaultInv, VaultTyped, VaultSafe, PassesSafe
  <1>2. ASSUME NEW u \in Tabs
        PROVE  /\ RingSafe(tab'[u].ring, drawn', pinned')
               /\ PassSafe(tab'[u].pass, drawn', pinned') /\ PassAgrees(tab'[u].pass)
    BY <1>1 DEF Others
  <1> QED BY <1>2 DEF PassesSafe

LEMMA WithSafe ==
  ASSUME VaultInv, NEW t \in Tabs, Grown(drawn, pinned, drawn', pinned'), NEW q \in Passes, With(t, q),
         PassSafe(q, drawn', pinned'), PassAgrees(q)
  PROVE  TabsTyped' /\ PassesSafe'
  <1>1. TabsTyped'
    BY WithTyped DEF VaultInv, VaultTyped
  <1>2. Others(t) /\ tab'[t].ring = tab[t].ring /\ tab'[t].pass = q
    BY DEF With, VaultInv, VaultTyped, TabsTyped, TabStates, Others
  <1>3. RingSafe(tab'[t].ring, drawn', pinned')
    BY <1>2, EnvsGrow DEF VaultInv, VaultTyped, VaultSafe, PassesSafe
  <1> QED BY <1>1, <1>2, <1>3, PassMoved

LEMMA PublishedSafe ==
  ASSUME VaultInv, NEW t \in Tabs, Grown(drawn, pinned, drawn', pinned'), NEW q \in Passes,
         NEW row, row.shared \in Levels, row.gen \in Levels, tab' = [Published(tab, t, row) EXCEPT ![t].pass = q],
         PassSafe(q, drawn', pinned'), PassAgrees(q)
  PROVE  TabsTyped' /\ PassesSafe'
  <1>1. TabsTyped' /\ Others(t) /\ tab'[t].ring = tab[t].ring /\ tab'[t].pass = q
    BY PublishedWithTyped DEF VaultInv, VaultTyped, Others
  <1>3. RingSafe(tab'[t].ring, drawn', pinned')
    BY <1>1, EnvsGrow DEF VaultInv, VaultTyped, VaultSafe, PassesSafe
  <1> QED BY <1>1, <1>3, PassMoved

(* The server, the pin and what was given stay safe when they stay. *)
LEMMA RestKept ==
  ASSUME VaultInv, Grown(drawn, pinned, drawn', pinned'), UNCHANGED <<srv, backup>>
  PROVE  srv' \in Servers /\ backup' \in Servers /\ ServerSafe'
  BY EnvsGrow DEF VaultInv, VaultTyped, VaultSafe, ServerSafe

LEMMA GivenKept ==
  ASSUME VaultInv, Grown(drawn, pinned, drawn', pinned'), given' = given
  PROVE  GivenSafe'
  BY HeldGrows DEF VaultInv, VaultTyped, VaultSafe, GivenSafe, Grown

LEMMA Unmoved == Grown(drawn, pinned, drawn, pinned)
  BY DEF Grown

(* A step of one tab that changes neither the server nor the pins. *)
LEMMA QuietStep ==
  ASSUME VaultInv, UNCHANGED <<srv, backup, drawn, pin, pinned, given>>, ks' \in Memories, TabsTyped', PassesSafe'
  PROVE  VaultInv'
  <1>1. Grown(drawn, pinned, drawn', pinned')
    BY Unmoved
  <1>2. srv' \in Servers /\ backup' \in Servers /\ ServerSafe' /\ GivenSafe'
    BY <1>1, RestKept, GivenKept
  <1> QED BY <1>2 DEF VaultInv, VaultTyped, VaultSafe

-----------------------------------------------------------------------------
(* What the parts of a pass return. *)

LEMMA Rephased ==
  ASSUME NEW p \in Passes, NEW phase \in Phases, NEW q, q = [p EXCEPT !.phase = phase]
  PROVE  /\ q \in Passes /\ q.phase = phase /\ q.kind = p.kind /\ q.wrap = p.wrap /\ q.row = p.row
         /\ q.known = p.known /\ q.envs = p.envs /\ q.theirs = p.theirs /\ q.ck = p.ck /\ q.role = p.role
         /\ q.pin = p.pin /\ q.ring = p.ring /\ q.save = p.save /\ q.mint = p.mint /\ q.grants = p.grants
         /\ q.key = p.key
  BY DEF Passes

LEMMA Adopted ==
  ASSUME NEW p \in Passes, NEW opened, opened.ring \in KeyMaps, opened.known \in Memories,
         NEW q, q = Adopt(p, opened)
  PROVE  /\ q \in Passes /\ q.phase = p.phase /\ q.kind = p.kind /\ q.wrap = p.wrap /\ q.row = p.row
         /\ q.known = p.known /\ q.envs = p.envs /\ q.theirs = p.theirs /\ q.ck = p.ck /\ q.role = p.role
         /\ q.pin = p.pin /\ q.ring = opened.ring /\ q.key = p.key
  <1>1. Raised(opened.known, p.row) \in Memories
    BY RowFacts, RaisedMemory DEF Passes
  <1> QED BY <1>1 DEF Passes, Adopt

(* A pass between steps: nothing is to be sealed or sent yet. *)
Settled(p, d, P) ==
    /\ p \in Passes /\ EnvsSafe(p.envs, d, P) /\ (p.pin # 0 => p.pin \in P) /\ (p.kind = "invite" => Held(p.key, d, P))
    /\ RingSafe(p.ring, d, P)
    /\ \A g \in Gens : p.ring[g] # 0 /\ p.known.digests[g] # 0 => p.ring[g] = p.known.digests[g]

LEMMA SettledSafe ==
  ASSUME NEW p, NEW d, NEW P, Settled(p, d, P), p.phase \in {"asking", "agreed", "done", "retry", "failed"}
  PROVE  PassSafe(p, d, P) /\ PassAgrees(p)
  BY DEF Settled, PassSafe, PassAgrees, PassRing, Synced, Working

LEMMA SettledRephased ==
  ASSUME NEW p, NEW d, NEW P, Settled(p, d, P), NEW phase \in {"asking", "agreed", "done", "retry", "failed"},
         NEW q, q = [p EXCEPT !.phase = phase]
  PROVE  q \in Passes /\ PassSafe(q, d, P) /\ PassAgrees(q)
  <1>1. phase \in Phases /\ p \in Passes
    BY DEF Phases, Settled
  <1>2. Settled(q, d, P) /\ q.phase = phase
    BY <1>1, Rephased DEF Settled
  <1> QED BY <1>2, SettledSafe DEF Settled

LEMMA PassSettled ==
  ASSUME NEW p \in Passes, NEW d, NEW P, PassSafe(p, d, P), PassAgrees(p), p.phase # "pinning"
  PROVE  Settled(p, d, P)
  BY DEF Settled, PassSafe, PassAgrees, PassRing

(* A keyring opened with a stored pin and adopted. *)
LEMMA AdoptedSettled ==
  ASSUME NEW p \in Passes, NEW d, NEW P, EnvsSafe(p.envs, d, P), p.pin # 0 => p.pin \in P,
         p.kind = "invite" => Held(p.key, d, P),
         NEW pn \in Nat, pn # 0 => pn \in P, NEW envs \in EnvMaps, EnvsSafe(envs, d, P),
         NEW held \in KeyMaps, RingSafe(held, d, P),
         NEW opened, opened = OpenKeyring(pn, envs, p.ck, p.role, p.known, held), ~opened.fresh \/ p.ck \in P
  PROVE  /\ Settled(Adopt(p, opened), d, P)
         /\ \A m \in Memories : Settled([p EXCEPT !.ring = opened.ring, !.save = m], d, P)
  <1>1. p.known \in Memories
    BY DEF Passes
  <1>2. opened.ring \in KeyMaps /\ opened.known \in Memories
    BY <1>1, OpenedTyped
  <1>3. RingSafe(opened.ring, d, P)
    BY <1>1, OpenedSafe
  <1>4. \A g \in Gens : opened.ring[g] # 0 /\ p.known.digests[g] # 0 => opened.ring[g] = p.known.digests[g]
    BY <1>1, OpenedAgrees
  <1>5. Settled(Adopt(p, opened), d, P)
    BY <1>2, <1>3, <1>4, Adopted DEF Settled
  <1>6. ASSUME NEW m \in Memories
        PROVE  Settled([p EXCEPT !.ring = opened.ring, !.save = m], d, P)
    <2> DEFINE q == [p EXCEPT !.ring = opened.ring, !.save = m]
    <2>1. /\ q \in Passes /\ q.envs = p.envs /\ q.pin = p.pin /\ q.kind = p.kind /\ q.key = p.key /\ q.known = p.known
          /\ q.ring = opened.ring
      BY <1>2 DEF Passes
    <2> HIDE DEF q
    <2>2. Settled(q, d, P)
      BY <1>3, <1>4, <2>1 DEF Settled
    <2> QED BY <2>2 DEF q
  <1> QED BY <1>5, <1>6

LEMMA NoEnvsSafe == \A d, P : EnvsSafe(NoEnvs, d, P)
  BY DEF EnvsSafe, EnvSafe, NoEnvs, NoEnv

(* Without envelopes nothing rests on a first contact. *)
LEMMA NoEnvsKnown ==
  ASSUME NEW pn, NEW ck, NEW role, NEW known, NEW held PROVE ~OpenKeyring(pn, NoEnvs, ck, role, known, held).fresh
  BY DEF OpenKeyring, NoEnvs

(* persistedOnly ends with keys the stored pins vouch for. *)
LEMMA PersistedSettled ==
  ASSUME VaultInv, NEW t \in Tabs, NEW p \in Passes, EnvsSafe(p.envs, drawn, pinned), p.pin # 0 => p.pin \in pinned,
         p.kind = "invite" => Held(p.key, drawn, pinned)
  PROVE  Settled(PersistedOnly(t, p), drawn, pinned)
  <1> DEFINE again == OpenKeyring(pin, p.envs, p.ck, p.role, p.known, tab[t].ring)
             none == OpenKeyring(pin, NoEnvs, p.ck, p.role, p.known, tab[t].ring)
  <1>1. /\ pin \in Nat /\ (pin # 0 => pin \in pinned) /\ tab[t].ring \in KeyMaps /\ RingSafe(tab[t].ring, drawn, pinned)
        /\ p.envs \in EnvMaps /\ p.known \in Memories
    BY PassOf DEF VaultInv, VaultTyped, VaultSafe, PassesSafe, Passes
  <1>2. ~none.fresh /\ NoEnvs \in EnvMaps /\ EnvsSafe(NoEnvs, drawn, pinned)
    BY NoEnvsKnown, NoEnvsSafe, EmptyTyped
  <1>3. \/ ~again.fresh /\ PersistedOnly(t, p) = Adopt(p, again)
        \/ PersistedOnly(t, p) = [p EXCEPT !.ring = none.ring, !.save = p.known]
    BY DEF PersistedOnly
  <1>4. ASSUME ~again.fresh PROVE Settled(Adopt(p, again), drawn, pinned)
    BY <1>1, <1>4, AdoptedSettled
  <1>5. Settled([p EXCEPT !.ring = none.ring, !.save = p.known], drawn, pinned)
    BY <1>1, <1>2, AdoptedSettled
  <1> QED BY <1>3, <1>4, <1>5

LEMMA StoppedSafe ==
  ASSUME VaultInv, NEW t \in Tabs, NEW p \in Passes, EnvsSafe(p.envs, drawn, pinned), p.pin # 0 => p.pin \in pinned,
         p.kind = "invite" => Held(p.key, drawn, pinned), NEW q, q = [PersistedOnly(t, p) EXCEPT !.phase = "done"]
  PROVE  q \in Passes /\ PassSafe(q, drawn, pinned) /\ PassAgrees(q)
  <1>1. Settled(PersistedOnly(t, p), drawn, pinned)
    BY PersistedSettled
  <1> QED BY <1>1, SettledRephased

LEMMA OpenedFresh ==
  ASSUME NEW p, NEW envs, NEW ck, NEW role, NEW known, NEW held,
         NEW opened, opened = OpenKeyring(p, envs, ck, role, known, held), opened.fresh
  PROVE  p = 0 /\ role = "owner"
  BY DEF OpenKeyring, Trusted

LEMMA ForThemSame == ASSUME NEW p, NEW q, p.grants = q.grants PROVE ForThem(p) <=> ForThem(q)
  BY DEF ForThem

(* What follows an opened keyring keeps the invariant of a pass. *)
LEMMA DecideSafe ==
  ASSUME NEW t \in Tabs, tab[t].ring \in KeyMaps, NEW d, NEW P, RingSafe(tab[t].ring, d, P),
         NEW p, Settled(p, d, P), p.kind = "sync", NEW r, NEW q, q = Decide(t, p, r)
  PROVE  q \in Passes /\ PassSafe(q, d, P) /\ PassAgrees(q)
  <1> DEFINE opened == Opened(t, p)
             plan == Plan(p, opened, r)
             a == Adopt(p, opened)
             to(phase) == [[a EXCEPT !.mint = plan.mint, !.grants = plan.grants] EXCEPT !.phase = phase]
  <1>1. /\ p \in Passes /\ p.known \in Memories /\ p.envs \in EnvMaps /\ p.pin \in Nat
        /\ EnvsSafe(p.envs, d, P) /\ (p.pin # 0 => p.pin \in P)
    BY DEF Settled, Passes
  <1>2. opened = OpenKeyring(p.pin, p.envs, p.ck, p.role, p.known, tab[t].ring)
    BY DEF Opened
  <1>3. opened.ring \in KeyMaps /\ opened.known \in Memories
    BY <1>1, <1>2, OpenedTyped
  <1>4. RingSafe(opened.ring, d, P \cup {p.ck}) /\ (~opened.fresh => RingSafe(opened.ring, d, P))
    BY <1>1, <1>2, OpenedSafe
  <1>5. \A g \in Gens : opened.ring[g] # 0 /\ p.known.digests[g] # 0 => opened.ring[g] = p.known.digests[g]
    BY <1>1, <1>2, OpenedAgrees
  <1>6. /\ plan.mint \in BOOLEAN /\ plan.grants \subseteq Grants
        /\ plan.mint => <<"me", p.row.gen + 1>> \in plan.grants /\ (p.role # "none" => ForThem(plan))
        /\ ~plan.mint => \A x \in plan.grants : x[2] \in Gens /\ opened.ring[x[2]] # 0
    BY <1>1, PlanTyped
  <1>7. \/ q = [p EXCEPT !.phase = "asking"]
        \/ (ForThem(plan) => p.pin \in {0, p.ck}) /\ opened.fresh /\ q = to("pinning")
        \/ (ForThem(plan) => p.pin \in {0, p.ck}) /\ ~opened.fresh /\ q \in {to("done"), to("sealing")}
    BY DEF Decide
  <1> HIDE DEF opened, plan
  <1>8. /\ a \in Passes /\ a.kind = "sync" /\ a.row = p.row /\ a.known = p.known /\ a.envs = p.envs /\ a.ck = p.ck
        /\ a.role = p.role /\ a.pin = p.pin /\ a.ring = opened.ring /\ a.key = p.key
    BY <1>1, <1>3, Adopted
  <1> HIDE DEF a
  <1>9. ASSUME NEW phase \in {"pinning", "done", "sealing"}
        PROVE  /\ to(phase) \in Passes /\ to(phase).phase = phase /\ to(phase).kind = "sync" /\ to(phase).row = p.row
               /\ to(phase).known = p.known /\ to(phase).envs = p.envs /\ to(phase).ck = p.ck
               /\ to(phase).role = p.role /\ to(phase).pin = p.pin /\ to(phase).ring = opened.ring
               /\ to(phase).mint = plan.mint /\ to(phase).grants = plan.grants
    <2>1. phase \in Phases
      BY DEF Phases
    <2>2. PICK mint \in BOOLEAN : mint = plan.mint
      BY <1>6, Zenon
    <2>3. a \in Passes /\ plan.grants \subseteq Grants
      BY <1>6, <1>8, Zenon
    <2> DEFINE b == [a EXCEPT !.mint = mint, !.grants = plan.grants]
               z == [b EXCEPT !.phase = phase]
    <2>4. to(phase) = z
      BY <2>2, Zenon
    <2>5. /\ b \in Passes /\ b.kind = a.kind /\ b.row = a.row /\ b.known = a.known
          /\ b.envs = a.envs /\ b.ck = a.ck /\ b.role = a.role /\ b.pin = a.pin /\ b.ring = a.ring
          /\ b.mint = mint /\ b.grants = plan.grants
      BY <2>3 DEF Passes
    <2> HIDE DEF b
    <2>6. /\ z \in Passes /\ z.phase = phase /\ z.kind = a.kind /\ z.row = a.row /\ z.known = a.known
          /\ z.envs = a.envs /\ z.ck = a.ck /\ z.role = a.role /\ z.pin = a.pin /\ z.ring = a.ring
          /\ z.mint = mint /\ z.grants = plan.grants
      BY <2>1, <2>5, Rephased
    <2> HIDE DEF z, to
    <2> QED BY <1>8, <2>2, <2>4, <2>6, Zenon
  <1> HIDE DEF to
  <1>10. ASSUME NEW phase \in {"pinning", "done", "sealing"}, ForThem(plan) => p.pin \in {0, p.ck},
                phase # "pinning" => ~opened.fresh, q = to(phase)
         PROVE  PassSafe(q, d, P) /\ PassAgrees(q)
    <2>1. ForThem(q) <=> ForThem(plan)
      BY <1>9, <1>10, ForThemSame
    <2>2. PassPlan(q)
      BY <1>6, <1>9, <1>10, <2>1 DEF PassPlan
    <2>3. PassRing(q, d, P)
      BY <1>4, <1>9, <1>10, ZenonT(40) DEF PassRing
    <2>4. EnvsSafe(q.envs, d, P) /\ (q.pin # 0 => q.pin \in P) /\ q.kind = "sync" /\ q.phase = phase
      BY <1>9, <1>10 DEF Settled
    <2>5. PassAgrees(q)
      BY <1>5, <1>9, <1>10 DEF PassAgrees
    <2> QED BY <2>2, <2>3, <2>4, <2>5 DEF PassSafe, Synced, Working
  <1>11. CASE q = [p EXCEPT !.phase = "asking"]
    BY <1>11, SettledRephased
  <1>12. ASSUME NEW phase \in {"pinning", "done", "sealing"}, q = to(phase) PROVE q \in Passes
    BY <1>9, <1>12
  <1> QED BY <1>7, <1>10, <1>11, <1>12

(* What a pass seals is vouched for: a key it drew, or one of its keyring. *)
LEMMA SealedHeld ==
  ASSUME NEW p \in Passes, NEW d, NEW P, PassSafe(p, d, P), p.phase = "sealed", NEW x \in p.grants
  PROVE  Held(SealedKey(p, x[2]), d, P)
  <1>1. CASE p.mint
    BY <1>1 DEF PassSafe, SealedKey, Held
  <1>2. CASE ~p.mint
    <2>1. p.kind = "sync" /\ PassPlan(p) /\ PassRing(p, d, P)
      BY DEF PassSafe, Synced, Working
    <2> QED BY <1>2, <2>1 DEF PassPlan, PassRing, RingSafe, SealedKey
  <1> QED BY <1>1, <1>2

LEMMA SealedTyped ==
  ASSUME NEW p \in Passes, NEW d \in Seq(Nat), NEW P, PassSafe(p, d, P), p.phase = "sealed",
         NEW envs \in EnvMaps
  PROVE  /\ ToMe(p, envs) \in EnvMaps /\ ToThem(p, envs) \in EnvMaps
         /\ EnvsSafe(envs, d, P) => EnvsSafe(ToMe(p, envs), d, P)
  <1>1. ASSUME NEW x \in p.grants, NEW to \in Nat
        PROVE  Row(p, x[2], to) \in Envelopes /\ EnvSafe(Row(p, x[2], to), d, P)
    <2>1. Held(SealedKey(p, x[2]), d, P)
      BY SealedHeld
    <2>2. SealedKey(p, x[2]) \in Nat
      BY <2>1 DEF Held
    <2> QED BY <2>1, <2>2 DEF Row, Envelopes, Me, EnvSafe
  <1>2. ASSUME NEW g \in Gens, NEW to \in Nat, NEW who, <<who, g>> \in p.grants
        PROVE  Row(p, g, to) \in Envelopes /\ EnvSafe(Row(p, g, to), d, P)
    <2>1. <<who, g>>[2] = g
      OBVIOUS
    <2> QED BY <1>1, <1>2, <2>1
  <1>3. Me \in Nat /\ p.ck \in Nat
    BY DEF Me, Passes
  <1>4. ToMe(p, envs) \in EnvMaps
    BY <1>2, <1>3 DEF ToMe, EnvMaps
  <1>5. ToThem(p, envs) \in EnvMaps
    BY <1>2, <1>3 DEF ToThem, EnvMaps
  <1>6. EnvsSafe(envs, d, P) => EnvsSafe(ToMe(p, envs), d, P)
    BY <1>2, <1>3 DEF ToMe, EnvsSafe
  <1> QED BY <1>4, <1>5, <1>6

(* After a mint the new keyring is vouched for too: if the colleague is an *)
(* owner the mint was for them, so they were pinned before it left.        *)
LEMMA MintedSafe ==
  ASSUME NEW p \in Passes, NEW d \in Seq(Nat), NEW P, PassSafe(p, d, P), PassAgrees(p), p.phase = "sealed", p.mint
  PROVE  /\ Minted(p) \in Passes /\ PassSafe(Minted(p), d, P) /\ PassAgrees(Minted(p))
         /\ Minted(p).row.shared \in Levels /\ Minted(p).row.gen \in Levels
         /\ Minted(p).phase \in {"done", "sealed"}
  <1> DEFINE row    == [shared |-> IF p.row.shared = 0 THEN p.row.gen + 1 ELSE p.row.shared, gen |-> p.row.gen + 1]
             envs   == ToMe(p, p.envs)
             theirs == ToThem(p, p.theirs)
             q      == [p EXCEPT !.row = row, !.envs = envs, !.theirs = theirs]
             after  == OpenKeyring(q.pin, q.envs, q.ck, q.role, q.known, q.ring)
             plan   == Plan(q, after, TRUE)
             a      == Adopt(q, after)
             phase  == IF plan.grants = {} THEN "done" ELSE "sealed"
             z      == [a EXCEPT !.mint = FALSE, !.grants = plan.grants, !.phase = phase]
  <1>1. /\ p.kind = "sync" /\ PassPlan(p) /\ RingSafe(p.ring, d, P) /\ EnvsSafe(p.envs, d, P)
        /\ p.row.gen + 1 \in Gens /\ (p.pin # 0 => p.pin \in P) /\ (ForThem(p) => p.pin = p.ck /\ p.ck \in P)
    BY DEF PassSafe, PassRing, Synced, Working
  <1>2. <<"me", p.row.gen + 1>> \in p.grants /\ (p.role # "none" => ForThem(p))
    BY <1>1 DEF PassPlan
  <1>3. row \in SeenRows /\ row.gen = p.row.gen + 1 /\ row.shared # 0
    <2>1. p.row.gen \in Levels /\ p.row.shared \in Levels /\ p.row.gen + 1 \in Levels
      BY <1>1, RowFacts, ConstantsTyped DEF Passes
    <2>2. row \in [shared : Levels, gen : Gens]
      BY <1>1, <2>1
    <2>3. row.shared # 0
      BY <2>1, ConstantsTyped DEF Levels
    <2> QED BY <2>2, <2>3 DEF SeenRows
  <1>4. envs \in EnvMaps /\ theirs \in EnvMaps /\ EnvsSafe(envs, d, P) /\ envs[p.row.gen + 1] # NoEnv
    <2>1. p.envs \in EnvMaps /\ p.theirs \in EnvMaps
      BY DEF Passes
    <2>2. envs[p.row.gen + 1] = Row(p, p.row.gen + 1, Me)
      BY <1>1, <1>2 DEF ToMe
    <2>3. Row(p, p.row.gen + 1, Me) # NoEnv
      BY DEF Row, NoEnv, Me
    <2> QED BY <1>1, <2>1, <2>2, <2>3, SealedTyped
  <1> HIDE DEF row, envs, theirs
  <1>5. /\ q \in Passes /\ q.kind = "sync" /\ q.wrap = p.wrap /\ q.row = row /\ q.known = p.known /\ q.envs = envs
        /\ q.theirs = theirs /\ q.ck = p.ck /\ q.role = p.role /\ q.pin = p.pin /\ q.ring = p.ring
    BY <1>1, <1>3, <1>4 DEF Passes
  <1> HIDE DEF q
  <1>6. /\ q.known \in Memories /\ q.envs \in EnvMaps /\ q.pin \in Nat /\ q.ring \in KeyMaps
        /\ EnvsSafe(q.envs, d, P) /\ RingSafe(q.ring, d, P) /\ (q.pin # 0 => q.pin \in P)
    BY <1>1, <1>4, <1>5 DEF Passes
  <1>7. after.ring \in KeyMaps /\ after.known \in Memories
    BY <1>6, OpenedTyped
  <1>8. ~after.fresh \/ q.ck \in P
    <2>1. after.fresh => q.role = "owner"
      BY OpenedFresh
    <2> QED BY <1>1, <1>2, <1>5, <2>1
  <1>9. /\ RingSafe(after.ring, d, P)
        /\ \A g \in Gens : after.ring[g] # 0 /\ q.known.digests[g] # 0 => after.ring[g] = q.known.digests[g]
    <2>1. \A g \in Gens : after.ring[g] # 0 /\ q.known.digests[g] # 0 => after.ring[g] = q.known.digests[g]
      BY <1>6, OpenedAgrees
    <2>2. RingSafe(after.ring, d, P)
      BY <1>6, <1>8, OpenedSafe
    <2> QED BY <2>1, <2>2
  <1> HIDE DEF after
  <1>10. /\ plan.grants \subseteq Grants /\ (ForThem(plan) => q.role # "none")
         /\ ~plan.mint => \A x \in plan.grants : x[2] \in Gens /\ after.ring[x[2]] # 0
    BY <1>5, PlanTyped
  <1>11. ~plan.mint
    BY <1>3, <1>4, <1>5 DEF Plan, Nothing
  <1> HIDE DEF plan
  <1>12. /\ a \in Passes /\ a.kind = "sync" /\ a.row = row /\ a.known = q.known /\ a.envs = envs /\ a.ck = p.ck
         /\ a.role = p.role /\ a.pin = p.pin /\ a.ring = after.ring
    BY <1>5, <1>7, Adopted
  <1> HIDE DEF a
  <1>13. phase \in Phases /\ phase \in {"done", "sealed"}
    BY DEF Phases
  <1> HIDE DEF phase
  <1>14. /\ z \in Passes /\ z.phase = phase /\ z.kind = "sync" /\ z.row = row /\ z.known = q.known /\ z.envs = envs
         /\ z.ck = p.ck /\ z.role = p.role /\ z.pin = p.pin /\ z.ring = after.ring
         /\ z.mint = FALSE /\ z.grants = plan.grants
    BY <1>10, <1>12, <1>13 DEF Passes
  <1>15. Minted(p) = z
    BY DEF Minted, z, a, phase, plan, after, q, envs, theirs, row
  <1> HIDE DEF z
  <1>16. ForThem(z) => ForThem(p)
    BY <1>2, <1>5, <1>10, <1>14 DEF ForThem
  <1>17. PassPlan(z)
    BY <1>1, <1>10, <1>11, <1>14, <1>16 DEF PassPlan
  <1>18. PassSafe(z, d, P)
    BY <1>1, <1>4, <1>9, <1>13, <1>14, <1>16, <1>17 DEF PassSafe, PassRing, Synced, Working
  <1>19. PassAgrees(z)
    BY <1>9, <1>13, <1>14 DEF PassAgrees
  <1>20. z.row.shared \in Levels /\ z.row.gen \in Levels
    BY <1>3, <1>14, RowFacts
  <1> QED BY <1>13, <1>14, <1>15, <1>18, <1>19, <1>20

-----------------------------------------------------------------------------
(* The steps of a pass keep the invariant. *)

LEMMA PassFacts ==
  ASSUME VaultInv, NEW t \in Tabs
  PROVE  /\ tab[t] \in TabStates /\ tab[t].pass \in Passes /\ tab[t].ring \in KeyMaps
         /\ RingSafe(tab[t].ring, drawn, pinned)
         /\ PassSafe(tab[t].pass, drawn, pinned) /\ PassAgrees(tab[t].pass)
  BY PassOf DEF VaultInv, VaultTyped, TabsTyped, VaultSafe, PassesSafe

LEMMA QuietWith ==
  ASSUME VaultInv, NEW t \in Tabs, UNCHANGED <<srv, backup, drawn, pin, ks, pinned, given>>, NEW q \in Passes,
         With(t, q), PassSafe(q, drawn, pinned), PassAgrees(q)
  PROVE  VaultInv'
  <1>1. Grown(drawn, pinned, drawn', pinned') /\ PassSafe(q, drawn', pinned')
    BY Unmoved
  <1>2. TabsTyped' /\ PassesSafe'
    BY <1>1, WithSafe
  <1> QED BY <1>2, QuietStep DEF VaultInv, VaultTyped

(* A pass that has read nothing yet. *)
LEMMA BegunSafe ==
  ASSUME NEW q, q.phase = "begun", q.kind = "sync", q.envs = NoEnvs, q.ring = NoKeys, q.pin = 0, NEW d, NEW P
  PROVE  PassSafe(q, d, P) /\ PassAgrees(q)
  <1>1. \A g \in Gens : NoKeys[g] = 0
    BY DEF NoKeys
  <1>2. RingSafe(NoKeys, d, P)
    BY <1>1 DEF RingSafe
  <1> QED BY <1>1, <1>2, NoEnvsSafe DEF PassSafe, PassAgrees, PassRing, Synced, Working

LEMMA ReadRowSafe == ASSUME VaultInv, NEW t \in Tabs, ReadRow(t) PROVE VaultInv'
  <1> DEFINE p == tab[t].pass
             row == [shared |-> srv.shared, gen |-> srv.gen]
             q == [p EXCEPT !.phase = "row", !.row = row]
  <1>1. p \in Passes /\ p.phase = "begun" /\ PassSafe(p, drawn, pinned) /\ PassAgrees(p)
    BY PassFacts DEF ReadRow
  <1>2. row \in SeenRows
    BY DEF VaultInv, VaultTyped, Servers, SeenRows
  <1> HIDE DEF p, row
  <1>3. /\ q \in Passes /\ q.phase = "row" /\ q.kind = p.kind /\ q.envs = p.envs /\ q.pin = p.pin /\ q.ring = p.ring
        /\ q.known = p.known /\ q.key = p.key
    BY <1>1, <1>2 DEF Passes, Phases
  <1>4. With(t, q)
    BY DEF ReadRow, p, row
  <1> HIDE DEF q
  <1>5. PassSafe(q, drawn, pinned) /\ PassAgrees(q)
    BY <1>1, <1>3 DEF PassSafe, PassAgrees, PassRing, Synced, Working
  <1> QED BY <1>3, <1>4, <1>5, QuietWith DEF ReadRow

LEMMA KeptTypedMemory == ASSUME ks \in Memories, NEW m \in Memories, KeptMemory(m) PROVE ks' \in Memories
  BY RememberedTyped DEF KeptMemory

LEMMA ObserveSafe == ASSUME VaultInv, NEW t \in Tabs, Observe(t) PROVE VaultInv'
  <1> DEFINE p == tab[t].pass
             known == Raised(ks, p.row)
             q(roll) == [p EXCEPT !.phase = "observed", !.roll = roll, !.known = known]
  <1>1. p \in Passes /\ p.phase = "row" /\ PassSafe(p, drawn, pinned) /\ PassAgrees(p) /\ ks \in Memories
    BY PassFacts DEF Observe, VaultInv, VaultTyped
  <1>2. known \in Memories
    BY <1>1, RowFacts, RaisedMemory DEF Passes
  <1>3. PICK roll \in BOOLEAN : tab' = [Published(tab, t, known) EXCEPT ![t].pass = q(roll)]
    BY Zenon DEF Observe, Rollback
  <1>4. KeptMemory(known) /\ known.shared \in Levels /\ known.gen \in Levels
    BY <1>2 DEF Observe, Memories
  <1> HIDE DEF p, known
  <1>5. /\ q(roll) \in Passes /\ q(roll).phase = "observed" /\ q(roll).kind = p.kind /\ q(roll).envs = p.envs
        /\ q(roll).pin = p.pin /\ q(roll).ring = p.ring /\ q(roll).known = known /\ q(roll).key = p.key
    BY <1>1, <1>2 DEF Passes, Phases
  <1> HIDE DEF q
  <1>6. \A g \in Gens : p.ring[g] = 0
    BY <1>1 DEF PassAgrees, NoKeys
  <1>7. PassSafe(q(roll), drawn, pinned) /\ PassAgrees(q(roll))
    BY <1>1, <1>5, <1>6 DEF PassSafe, PassAgrees, PassRing, Synced, Working
  <1>8. UNCHANGED <<srv, backup, drawn, pin, pinned, given>>
    BY DEF Observe
  <1>9. Grown(drawn, pinned, drawn', pinned') /\ PassSafe(q(roll), drawn', pinned')
    BY <1>7, <1>8, Unmoved
  <1>10. TabsTyped' /\ PassesSafe'
    BY <1>3, <1>4, <1>5, <1>7, <1>9, PublishedSafe
  <1>11. ks' \in Memories
    BY <1>1, <1>2, <1>4, KeptTypedMemory
  <1> QED BY <1>8, <1>10, <1>11, QuietStep

LEMMA BeginPassSafe == ASSUME VaultInv, NEW t \in Tabs, NEW wrap \in BOOLEAN, BeginPass(t, wrap) PROVE VaultInv'
  <1> DEFINE q == [NoPass EXCEPT !.phase = "begun", !.kind = "sync", !.wrap = wrap]
  <1>1. q \in Passes /\ q.phase = "begun" /\ q.kind = "sync" /\ q.envs = NoEnvs /\ q.ring = NoKeys /\ q.pin = 0
    <2>1. q \in Passes
      BY NoPassTyped DEF Passes, Phases
    <2>2. q.phase = "begun" /\ q.kind = "sync" /\ q.envs = NoEnvs /\ q.ring = NoKeys /\ q.pin = 0
      BY DEF NoPass
    <2> QED BY <2>1, <2>2
  <1> HIDE DEF q
  <1>2. q \in Passes /\ PassSafe(q, drawn, pinned) /\ PassAgrees(q)
    BY <1>1, BegunSafe
  <1>3. UNCHANGED <<srv, backup, drawn, pin, ks, pinned, given>>
    BY DEF BeginPass
  <1>4. Grown(drawn, pinned, drawn', pinned') /\ PassSafe(q, drawn', pinned') /\ ks' \in Memories
        /\ ks.shared \in Levels /\ ks.gen \in Levels
    BY <1>2, <1>3, Unmoved DEF VaultInv, VaultTyped, Memories
  <1>5. With(t, q) \/ tab' = [Published(tab, t, ks) EXCEPT ![t].pass = q]
    BY DEF BeginPass, With, q
  <1>6. TabsTyped' /\ PassesSafe'
    BY <1>2, <1>4, <1>5, WithSafe, PublishedSafe
  <1> QED BY <1>3, <1>4, <1>6, QuietStep

LEMMA ReadEnvelopesSafe == ASSUME VaultInv, NEW t \in Tabs, ReadEnvelopes(t) PROVE VaultInv'
  <1> DEFINE p == tab[t].pass
             q == [p EXCEPT !.phase = "envelopes", !.envs = srv.envs, !.theirs = srv.theirs]
  <1>1. p \in Passes /\ p.phase = "observed" /\ PassSafe(p, drawn, pinned) /\ PassAgrees(p)
    BY PassFacts DEF ReadEnvelopes
  <1>2. srv.envs \in EnvMaps /\ srv.theirs \in EnvMaps /\ EnvsSafe(srv.envs, drawn, pinned)
    BY DEF VaultInv, VaultTyped, VaultSafe, Servers, ServerSafe
  <1> HIDE DEF p
  <1>3. /\ q \in Passes /\ q.phase = "envelopes" /\ q.kind = p.kind /\ q.envs = srv.envs /\ q.pin = p.pin
        /\ q.ring = p.ring /\ q.known = p.known /\ q.key = p.key
    BY <1>1, <1>2 DEF Passes, Phases
  <1>4. With(t, q)
    BY DEF ReadEnvelopes, p
  <1> HIDE DEF q
  <1>5. PassSafe(q, drawn, pinned) /\ PassAgrees(q)
    BY <1>1, <1>2, <1>3 DEF PassSafe, PassAgrees, PassRing, Synced, Working
  <1> QED BY <1>3, <1>4, <1>5, QuietWith DEF ReadEnvelopes

LEMMA ListedTyped == VaultTyped => srv.ck \in Nat /\ srv.role \in Roles
  BY ConstantsTyped DEF VaultTyped, Servers

LEMMA ReadMembersSafe == ASSUME VaultInv, NEW t \in Tabs, ReadMembers(t) PROVE VaultInv'
  <1> DEFINE p == tab[t].pass
             q == [p EXCEPT !.phase = "members", !.ck = srv.ck, !.role = srv.role]
  <1>1. p \in Passes /\ p.phase = "envelopes" /\ PassSafe(p, drawn, pinned) /\ PassAgrees(p)
    BY PassFacts DEF ReadMembers
  <1> HIDE DEF p
  <1>3. /\ q \in Passes /\ q.phase = "members" /\ q.kind = p.kind /\ q.envs = p.envs /\ q.pin = p.pin
        /\ q.ring = p.ring /\ q.known = p.known /\ q.key = p.key
    BY <1>1, ListedTyped DEF Passes, Phases, VaultInv
  <1>4. With(t, q)
    BY DEF ReadMembers, p
  <1> HIDE DEF q
  <1>5. PassSafe(q, drawn, pinned) /\ PassAgrees(q)
    BY <1>1, <1>3 DEF PassSafe, PassAgrees, PassRing, Synced, Working
  <1> QED BY <1>3, <1>4, <1>5, QuietWith DEF ReadMembers

(* A pass with another pin it read or stored. *)
LEMMA Repinned ==
  ASSUME NEW p, NEW d, NEW P, Settled(p, d, P), NEW n \in Nat, n # 0 => n \in P, NEW q, q = [p EXCEPT !.pin = n]
  PROVE  Settled(q, d, P) /\ q.phase = p.phase /\ q.kind = p.kind /\ q.ck = p.ck /\ q.pin = n
  <1>1. p \in Passes
    BY DEF Settled
  <1>2. /\ q \in Passes /\ q.phase = p.phase /\ q.kind = p.kind /\ q.ck = p.ck /\ q.pin = n
        /\ q.envs = p.envs /\ q.ring = p.ring /\ q.known = p.known /\ q.key = p.key
    BY <1>1 DEF Passes
  <1> QED BY <1>2 DEF Settled

LEMMA OpenSafe == ASSUME VaultInv, NEW t \in Tabs, NEW r \in BOOLEAN, Open(t, r) PROVE VaultInv'
  <1> DEFINE p0 == tab[t].pass
             p == [p0 EXCEPT !.pin = pin]
             opened == Opened(t, p)
  <1>1. p0 \in Passes /\ PassSafe(p0, drawn, pinned) /\ PassAgrees(p0) /\ tab[t].ring \in KeyMaps
        /\ RingSafe(tab[t].ring, drawn, pinned)
    BY PassFacts
  <1>2. p0.phase = "members"
    BY <1>1 DEF Open, Passes
  <1>3. pin \in Nat /\ (pin # 0 => pin \in pinned) /\ p0.kind = "sync"
    BY <1>1, <1>2 DEF VaultInv, VaultTyped, VaultSafe, PassSafe, Synced
  <1>4. Settled(p0, drawn, pinned)
    BY <1>1, <1>2, PassSettled
  <1> HIDE DEF p0
  <1>5. Settled(p, drawn, pinned) /\ p.kind = "sync"
    BY <1>3, <1>4, Repinned
  <1>6. PICK q : /\ With(t, q)
                 /\ \/ q = Decide(t, p, r)
                    \/ q = [PersistedOnly(t, p) EXCEPT !.phase = "done"]
                    \/ ~opened.fresh /\ q = [Adopt(p, opened) EXCEPT !.phase = "done"]
    BY Zenon DEF Open, p0
  <1> HIDE DEF p
  <1>7. /\ p \in Passes /\ EnvsSafe(p.envs, drawn, pinned) /\ (p.pin # 0 => p.pin \in pinned)
        /\ (p.kind = "invite" => Held(p.key, drawn, pinned)) /\ p.pin \in Nat /\ p.envs \in EnvMaps
    BY <1>5 DEF Settled, Passes
  <1>8. q \in Passes /\ PassSafe(q, drawn, pinned) /\ PassAgrees(q)
    <2>1. CASE q = Decide(t, p, r)
      BY <1>1, <1>5, <2>1, DecideSafe
    <2>2. CASE q = [PersistedOnly(t, p) EXCEPT !.phase = "done"]
      BY <1>7, <2>2, StoppedSafe
    <2>3. CASE ~opened.fresh /\ q = [Adopt(p, opened) EXCEPT !.phase = "done"]
      <3>1. opened = OpenKeyring(p.pin, p.envs, p.ck, p.role, p.known, tab[t].ring)
        BY DEF Opened
      <3> HIDE DEF opened
      <3>2. Settled(Adopt(p, opened), drawn, pinned)
        BY <1>1, <1>7, <2>3, <3>1, AdoptedSettled
      <3> QED BY <2>3, <3>2, SettledRephased
    <2> QED BY <1>6, <2>1, <2>2, <2>3
  <1> QED BY <1>6, <1>8, QuietWith DEF Open

(* An invitation that goes without keys. *)
LEMMA PlainSafe ==
  ASSUME NEW p \in Passes, NEW d, NEW P, PassSafe(p, d, P), PassAgrees(p), p.kind = "invite",
         NEW q, q = [p EXCEPT !.phase = "plain"]
  PROVE  q \in Passes /\ PassSafe(q, d, P) /\ PassAgrees(q)
  <1>1. "plain" \in Phases
    BY DEF Phases
  <1>2. /\ q \in Passes /\ q.phase = "plain" /\ q.kind = p.kind /\ q.envs = p.envs /\ q.pin = p.pin
        /\ q.ring = p.ring /\ q.known = p.known /\ q.key = p.key
    BY <1>1, Rephased
  <1> QED BY <1>2 DEF PassSafe, PassAgrees, PassRing, Synced, Working

LEMMA SayNoSafe == ASSUME VaultInv, NEW t \in Tabs, SayNo(t) PROVE VaultInv'
  <1> DEFINE p == tab[t].pass
  <1>1. p \in Passes /\ PassSafe(p, drawn, pinned) /\ PassAgrees(p) /\ p.phase = "asking"
    BY PassFacts DEF SayNo
  <1>2. /\ EnvsSafe(p.envs, drawn, pinned) /\ (p.pin # 0 => p.pin \in pinned)
        /\ (p.kind = "invite" => Held(p.key, drawn, pinned))
    BY <1>1 DEF PassSafe
  <1>3. PICK q : /\ With(t, q)
                 /\ \/ q = [PersistedOnly(t, p) EXCEPT !.phase = "done"]
                    \/ p.kind = "invite" /\ q = [p EXCEPT !.phase = "plain"]
                    \/ q = NoPass
    BY Zenon DEF SayNo, Stopped
  <1> HIDE DEF p
  <1>4. q \in Passes /\ PassSafe(q, drawn, pinned) /\ PassAgrees(q)
    BY <1>1, <1>2, <1>3, StoppedSafe, PlainSafe, NoPassSafe, NoPassTyped
  <1> QED BY <1>3, <1>4, QuietWith DEF SayNo

LEMMA SayYesSafe == ASSUME VaultInv, NEW t \in Tabs, SayYes(t) PROVE VaultInv'
  <1> DEFINE p == tab[t].pass
             q == [p EXCEPT !.phase = "agreed"]
  <1>1. p \in Passes /\ PassSafe(p, drawn, pinned) /\ PassAgrees(p) /\ p.phase = "asking" /\ With(t, q)
    BY PassFacts DEF SayYes
  <1> HIDE DEF p
  <1>2. Settled(p, drawn, pinned)
    BY <1>1, PassSettled
  <1>3. q \in Passes /\ PassSafe(q, drawn, pinned) /\ PassAgrees(q)
    BY <1>2, SettledRephased
  <1> HIDE DEF q
  <1> QED BY <1>1, <1>3, QuietWith DEF SayYes

LEMMA SettledGrows ==
  ASSUME NEW d \in Seq(Nat), NEW P, NEW d2, NEW P2, Grown(d, P, d2, P2), NEW p, Settled(p, d, P)
  PROVE  Settled(p, d2, P2)
  BY EnvsGrow, HeldGrows DEF Settled, Grown

(* A pin is stored: the key is one of those ever pinned. *)
LEMMA PinStored ==
  ASSUME VaultInv, NEW t \in Tabs, NEW n \in Nat, pin' = n, pinned' = pinned \cup {n},
         UNCHANGED <<srv, backup, drawn, ks, given>>, NEW q \in Passes, With(t, q),
         PassSafe(q, drawn, pinned \cup {n}), PassAgrees(q)
  PROVE  VaultInv'
  <1>1. Grown(drawn, pinned, drawn', pinned') /\ PassSafe(q, drawn', pinned')
    BY DEF Grown
  <1>2. TabsTyped' /\ PassesSafe'
    BY <1>1, WithSafe
  <1>3. srv' \in Servers /\ backup' \in Servers /\ ServerSafe' /\ GivenSafe'
    BY <1>1, RestKept, GivenKept
  <1> QED BY <1>2, <1>3 DEF VaultInv, VaultTyped, VaultSafe

LEMMA ConfirmSafe == ASSUME VaultInv, NEW t \in Tabs, NEW r \in BOOLEAN, Confirm(t, r) PROVE VaultInv'
  <1> DEFINE p == tab[t].pass
             after == [p EXCEPT !.pin = p.ck]
             P == pinned \cup {p.ck}
  <1>1. /\ p \in Passes /\ PassSafe(p, drawn, pinned) /\ PassAgrees(p) /\ p.phase = "agreed" /\ p.ck \in Nat
        /\ tab[t].ring \in KeyMaps /\ RingSafe(tab[t].ring, drawn, pinned) /\ drawn \in Seq(Nat)
    BY PassFacts DEF Confirm, Passes, VaultInv, VaultTyped
  <1>2. /\ EnvsSafe(p.envs, drawn, pinned) /\ (p.pin # 0 => p.pin \in pinned)
        /\ (p.kind = "invite" => Held(p.key, drawn, pinned))
    BY <1>1 DEF PassSafe
  <1>3. Settled(p, drawn, pinned)
    BY <1>1, PassSettled
  <1>4. PICK q : /\ With(t, q)
                 /\ \/ /\ pin' = p.ck /\ pinned' = P
                       /\ \/ p.kind = "sync" /\ q = Decide(t, after, r)
                          \/ p.kind = "invite" /\ q = [after EXCEPT !.phase = "ready"]
                          \/ q = NoPass
                    \/ /\ UNCHANGED <<pin, pinned>>
                       /\ \/ q = [PersistedOnly(t, p) EXCEPT !.phase = "done"]
                          \/ p.kind = "invite" /\ q = [p EXCEPT !.phase = "plain"]
                          \/ q = NoPass
    BY Zenon DEF Confirm, Stopped
  <1>5. UNCHANGED <<srv, backup, drawn, ks, given>>
    BY DEF Confirm
  <1> HIDE DEF p
  <1>6. Grown(drawn, pinned, drawn, P)
    BY DEF Grown
  <1>7. Settled(p, drawn, P) /\ RingSafe(tab[t].ring, drawn, P)
    BY <1>1, <1>3, <1>6, SettledGrows, EnvsGrow
  <1>8. Settled(after, drawn, P) /\ after.kind = p.kind /\ after.ck = p.ck
    <2>1. p.ck \in P
      OBVIOUS
    <2> HIDE DEF P
    <2> QED BY <1>1, <1>7, <2>1, Repinned
  <1>9. CASE /\ pin' = p.ck /\ pinned' = P
             /\ \/ p.kind = "sync" /\ q = Decide(t, after, r)
                \/ p.kind = "invite" /\ q = [after EXCEPT !.phase = "ready"]
                \/ q = NoPass
    <2>1. ASSUME p.kind = "sync", q = Decide(t, after, r)
          PROVE  q \in Passes /\ PassSafe(q, drawn, P) /\ PassAgrees(q)
      BY <1>1, <1>7, <1>8, <2>1, DecideSafe
    <2>2. ASSUME p.kind = "invite", q = [after EXCEPT !.phase = "ready"]
          PROVE  q \in Passes /\ PassSafe(q, drawn, P) /\ PassAgrees(q)
      <3>1. "ready" \in Phases /\ after \in Passes
        BY <1>8 DEF Phases, Settled
      <3> HIDE DEF after
      <3>2. /\ q \in Passes /\ q.phase = "ready" /\ q.kind = "invite" /\ q.envs = after.envs /\ q.pin = after.pin
            /\ q.ring = after.ring /\ q.known = after.known /\ q.key = after.key /\ q.ck = p.ck
        BY <1>8, <2>2, <3>1, Rephased
      <3>3. p.ck \in P
        OBVIOUS
      <3> HIDE DEF P
      <3>4. PassSafe(q, drawn, P)
        BY <1>8, <2>2, <3>2, <3>3 DEF Settled, PassSafe, PassRing, Synced, Working
      <3>5. PassAgrees(q)
        BY <1>8, <2>2, <3>2 DEF Settled, PassAgrees
      <3> QED BY <3>2, <3>4, <3>5
    <2>3. q \in Passes /\ PassSafe(q, drawn, P) /\ PassAgrees(q)
      BY <1>9, <2>1, <2>2, NoPassSafe, NoPassTyped
    <2> QED BY <1>1, <1>4, <1>5, <1>9, <2>3, PinStored
  <1>10. CASE /\ UNCHANGED <<pin, pinned>>
              /\ \/ q = [PersistedOnly(t, p) EXCEPT !.phase = "done"]
                 \/ p.kind = "invite" /\ q = [p EXCEPT !.phase = "plain"]
                 \/ q = NoPass
    <2>1. q \in Passes /\ PassSafe(q, drawn, pinned) /\ PassAgrees(q)
      BY <1>1, <1>2, <1>10, StoppedSafe, PlainSafe, NoPassSafe, NoPassTyped
    <2> QED BY <1>4, <1>5, <1>10, <2>1, QuietWith
  <1> QED BY <1>4, <1>9, <1>10

LEMMA StorePinSafe == ASSUME VaultInv, NEW t \in Tabs, StorePin(t) PROVE VaultInv'
  <1> DEFINE p == tab[t].pass
             P == pinned \cup {p.ck}
  <1>1. /\ p \in Passes /\ PassSafe(p, drawn, pinned) /\ PassAgrees(p) /\ p.phase \in {"pinning", "sealedfresh"}
        /\ p.ck \in Nat /\ drawn \in Seq(Nat)
    BY PassFacts DEF StorePin, Passes, VaultInv, VaultTyped
  <1>2. /\ EnvsSafe(p.envs, drawn, pinned) /\ (p.pin # 0 => p.pin \in pinned)
        /\ (p.kind = "invite" => Held(p.key, drawn, pinned)) /\ p.kind \in {"sync", "invite"}
    BY <1>1 DEF PassSafe, Synced, Working
  <1>3. PICK q, next :
          /\ With(t, q)
          /\ \/ /\ pin' = p.ck /\ pinned' = P /\ q = [p EXCEPT !.phase = next, !.pin = p.ck]
                /\ \/ p.kind = "invite" /\ next = "ready"
                   \/ p.kind = "sync" /\ p.phase = "pinning" /\ next \in {"sealing", "done"}
                   \/ p.kind # "invite" /\ ~(p.kind = "sync" /\ p.phase = "pinning") /\ next = "sealed"
             \/ /\ UNCHANGED <<pin, pinned>>
                /\ \/ q = [PersistedOnly(t, p) EXCEPT !.phase = "done"]
                   \/ p.kind # "sync" /\ q = [p EXCEPT !.phase = "plain"]
    <2> DEFINE next == CASE p.kind = "invite" -> "ready"
                         [] p.kind = "sync" /\ p.phase = "pinning" /\ p.grants # {} -> "sealing"
                         [] p.kind = "sync" /\ p.phase = "pinning" /\ p.grants = {} -> "done"
                         [] OTHER -> "sealed"
    <2>1. \/ p.kind = "invite" /\ next = "ready"
          \/ p.kind = "sync" /\ p.phase = "pinning" /\ next \in {"sealing", "done"}
          \/ p.kind # "invite" /\ ~(p.kind = "sync" /\ p.phase = "pinning") /\ next = "sealed"
      BY Zenon
    <2>2. \/ /\ pin' = p.ck /\ pinned' = P /\ With(t, [p EXCEPT !.phase = next, !.pin = p.ck])
          \/ /\ UNCHANGED <<pin, pinned>>
             /\ \/ With(t, [PersistedOnly(t, p) EXCEPT !.phase = "done"])
                \/ p.kind # "sync" /\ With(t, [p EXCEPT !.phase = "plain"])
      BY Zenon DEF StorePin, Stopped
    <2> HIDE DEF next
    <2> QED BY <2>1, <2>2, Zenon
  <1>4. UNCHANGED <<srv, backup, drawn, ks, given>>
    BY DEF StorePin
  <1> HIDE DEF p
  <1>5. CASE /\ pin' = p.ck /\ pinned' = P /\ q = [p EXCEPT !.phase = next, !.pin = p.ck]
             /\ \/ p.kind = "invite" /\ next = "ready"
                \/ p.kind = "sync" /\ p.phase = "pinning" /\ next \in {"sealing", "done"}
                \/ p.kind # "invite" /\ ~(p.kind = "sync" /\ p.phase = "pinning") /\ next = "sealed"
    <2>1. next \in Phases
      BY <1>5 DEF Phases
    <2>2. /\ q \in Passes /\ q.phase = next /\ q.kind = p.kind /\ q.envs = p.envs /\ q.ring = p.ring
          /\ q.known = p.known /\ q.key = p.key /\ q.ck = p.ck /\ q.pin = p.ck /\ q.role = p.role /\ q.row = p.row
          /\ q.mint = p.mint /\ q.grants = p.grants
      BY <1>1, <1>5, <2>1 DEF Passes
    <2>3. Grown(drawn, pinned, drawn, P) /\ p.ck \in P
      BY DEF Grown
    <2>4. PassSafe(p, drawn, P) /\ RingSafe(p.ring, drawn, P)
      <3>1. PassSafe(p, drawn, P)
        BY <1>1, <2>3, PassGrows
      <3>2. P \cup {p.ck} = P
        OBVIOUS
      <3> QED BY <3>1, <3>2 DEF PassSafe, PassRing
    <2>5. ForThem(q) <=> ForThem(p)
      BY <2>2, ForThemSame
    <2> HIDE DEF P
    <2>6. PassPlan(p) => PassPlan(q)
      BY <2>2, <2>5 DEF PassPlan
    <2>7. PassSafe(q, drawn, P)
      BY <1>1, <1>2, <1>5, <2>2, <2>3, <2>4, <2>5, <2>6 DEF PassSafe, PassRing, Synced, Working
    <2>8. PassAgrees(q)
      BY <1>1, <1>5, <2>2 DEF PassAgrees
    <2> QED BY <1>1, <1>3, <1>4, <1>5, <2>2, <2>7, <2>8, PinStored DEF P
  <1>6. CASE /\ UNCHANGED <<pin, pinned>>
             /\ \/ q = [PersistedOnly(t, p) EXCEPT !.phase = "done"]
                \/ p.kind # "sync" /\ q = [p EXCEPT !.phase = "plain"]
    <2>1. q \in Passes /\ PassSafe(q, drawn, pinned) /\ PassAgrees(q)
      BY <1>1, <1>2, <1>6, StoppedSafe, PlainSafe
    <2> QED BY <1>3, <1>4, <1>6, <2>1, QuietWith
  <1> QED BY <1>3, <1>5, <1>6

LEMMA SealSafe == ASSUME VaultInv, NEW t \in Tabs, Seal(t) PROVE VaultInv'
  <1> DEFINE p == tab[t].pass
  <1>1. /\ p \in Passes /\ PassSafe(p, drawn, pinned) /\ PassAgrees(p) /\ p.phase = "sealing"
        /\ drawn \in Seq(Nat) /\ Len(drawn) \in Nat
    BY PassFacts DEF Seal, VaultInv, VaultTyped
  <1>2. PICK key \in Nat, phase \in {"sealed", "sealedfresh"} :
          /\ With(t, [p EXCEPT !.key = key, !.phase = phase])
          /\ ForThem(p) /\ p.pin = 0 => phase = "sealedfresh"
          /\ \/ p.mint /\ drawn' = Append(drawn, Me) /\ p.row.gen < MaxGen /\ key = Len(drawn) + 1
             \/ ~p.mint /\ UNCHANGED drawn
    <2>1. SealedPhase(p) \in {"sealed", "sealedfresh"} /\ (ForThem(p) /\ p.pin = 0 => SealedPhase(p) = "sealedfresh")
      BY DEF SealedPhase
    <2>2. CASE p.mint
      <3>1. Len(drawn) + 1 \in Nat
        BY <1>1
      <3>2. /\ With(t, [p EXCEPT !.key = Len(drawn) + 1, !.phase = SealedPhase(p)])
            /\ drawn' = Append(drawn, Me) /\ p.row.gen < MaxGen
        BY <2>2, Zenon DEF Seal
      <3> QED BY <2>1, <2>2, <3>1, <3>2
    <2>3. CASE ~p.mint
      <3>1. With(t, [p EXCEPT !.phase = SealedPhase(p)]) /\ UNCHANGED drawn
        BY <2>3, Zenon DEF Seal
      <3> HIDE DEF p
      <3>2. p.key \in Nat /\ [p EXCEPT !.phase = SealedPhase(p)] = [p EXCEPT !.key = p.key, !.phase = SealedPhase(p)]
        BY <1>1 DEF Passes
      <3> QED BY <2>1, <2>3, <3>1, <3>2
    <2> QED BY <2>2, <2>3
  <1> HIDE DEF p
  <1> DEFINE q == [p EXCEPT !.key = key, !.phase = phase]
  <1>3. /\ q \in Passes /\ q.phase = phase /\ q.kind = p.kind /\ q.envs = p.envs /\ q.ring = p.ring
        /\ q.known = p.known /\ q.key = key /\ q.ck = p.ck /\ q.pin = p.pin /\ q.role = p.role /\ q.row = p.row
        /\ q.mint = p.mint /\ q.grants = p.grants
    BY <1>1 DEF Passes, Phases
  <1>4. With(t, q)
    BY <1>2
  <1> HIDE DEF q
  <1>5. Grown(drawn, pinned, drawn', pinned')
    BY <1>2 DEF Grown, Seal, Me
  <1>6. PassSafe(p, drawn', pinned') /\ pinned' = pinned
    BY <1>1, <1>5, PassGrows DEF Seal
  <1>7. p.mint => p.row.gen + 1 \in Gens /\ key \in 1..Len(drawn') /\ drawn'[key] = Me
    <2>1. p.row.gen \in Levels
      BY <1>1, RowFacts DEF Passes
    <2>2. p.mint => p.row.gen + 1 \in Gens
      BY <1>2, <2>1, ConstantsTyped DEF Levels, Gens
    <2>3. p.mint => key \in 1..Len(drawn') /\ drawn'[key] = Me
      BY <1>1, <1>2 DEF Me
    <2> QED BY <2>2, <2>3
  <1>8. p.kind = "sync" /\ PassPlan(p) /\ (p.pin # 0 => p.pin \in pinned')
    BY <1>1, <1>6 DEF PassSafe, Synced, Working
  <1>9. (ForThem(q) <=> ForThem(p)) /\ PassPlan(q)
    BY <1>3, <1>8, ForThemSame DEF PassPlan
  <1>10. phase = "sealed" /\ ForThem(q) => q.pin = q.ck /\ q.ck \in pinned'
    BY <1>2, <1>3, <1>8, <1>9 DEF PassPlan
  <1>11. PassSafe(q, drawn', pinned')
    BY <1>3, <1>1, <1>6, <1>7, <1>8, <1>9, <1>10 DEF PassSafe, PassRing, Synced, Working
  <1>12. PassAgrees(q)
    BY <1>1, <1>3 DEF PassAgrees
  <1>13. TabsTyped' /\ PassesSafe'
    BY <1>3, <1>4, <1>5, <1>11, <1>12, WithSafe
  <1>14. srv' \in Servers /\ backup' \in Servers /\ ServerSafe' /\ GivenSafe' /\ UNCHANGED <<pin, pinned, ks>>
    BY <1>5, RestKept, GivenKept DEF Seal
  <1>15. drawn' \in Seq(Nat)
    BY <1>1, <1>2 DEF Me
  <1> QED BY <1>13, <1>14, <1>15 DEF VaultInv, VaultTyped, VaultSafe

(* What the server stores when it accepts the rows. *)
LEMMA AcceptedSafe ==
  ASSUME VaultInv, NEW p \in Passes, PassSafe(p, drawn, pinned), p.phase = "sealed", ~Exists(p)
  PROVE  Accepted(p) \in Servers /\ EnvsSafe(Accepted(p).envs, drawn, pinned)
  <1> DEFINE envs == ToMe(p, srv.envs)
             theirs == ToThem(p, srv.theirs)
  <1>1. srv \in Servers /\ srv.envs \in EnvMaps /\ srv.theirs \in EnvMaps /\ EnvsSafe(srv.envs, drawn, pinned)
        /\ srv.gen \in Gens /\ srv.shared \in Levels /\ drawn \in Seq(Nat)
    BY DEF VaultInv, VaultTyped, VaultSafe, ServerSafe, Servers
  <1>2. envs \in EnvMaps /\ theirs \in EnvMaps /\ EnvsSafe(envs, drawn, pinned)
    BY <1>1, SealedTyped
  <1> HIDE DEF envs, theirs
  <1>3. CASE p.mint
    <2>1. srv.gen + 1 \in Gens
      BY <1>3 DEF Exists, PassSafe
    <2> DEFINE shared == IF srv.shared = 0 THEN srv.gen + 1 ELSE srv.shared
               s == [srv EXCEPT !.gen = srv.gen + 1, !.shared = shared, !.envs = envs, !.theirs = theirs]
    <2>2. shared \in Levels
      BY <1>1, <2>1, ConstantsTyped
    <2>3. Accepted(p) = s
      BY <1>1, <1>3 DEF Accepted, envs, theirs, Servers
    <2> HIDE DEF shared
    <2>4. s \in Servers /\ s.envs = envs
      BY <1>1, <1>2, <2>1, <2>2 DEF Servers
    <2> QED BY <1>2, <2>3, <2>4
  <1>4. CASE ~p.mint
    <2> DEFINE s == [srv EXCEPT !.envs = envs, !.theirs = theirs]
    <2>1. Accepted(p) = s
      BY <1>1, <1>4 DEF Accepted, envs, theirs, Servers
    <2>2. s \in Servers /\ s.envs = envs
      BY <1>1, <1>2 DEF Servers
    <2> QED BY <1>2, <2>1, <2>2
  <1> QED BY <1>3, <1>4

LEMMA UploadSafe == ASSUME VaultInv, NEW t \in Tabs, Upload(t) PROVE VaultInv'
  <1> DEFINE p == tab[t].pass
             history == ~p.mint /\ p.key # 0
             to == IF ForThem(p)
                   THEN {[key |-> SealedKey(p, x[2]), to |-> p.ck] : x \in {y \in p.grants : y[1] = "them"}} ELSE {}
  <1>1. /\ p \in Passes /\ PassSafe(p, drawn, pinned) /\ PassAgrees(p) /\ p.phase = "sealed"
        /\ drawn \in Seq(Nat)
    BY PassFacts DEF Upload, VaultInv, VaultTyped
  <1>2. given' = given \cup to /\ UNCHANGED <<drawn, pin, ks, pinned>>
    BY DEF Upload
  <1>3. \/ /\ ~Exists(p) /\ srv' = Accepted(p) /\ backup' \in {srv, backup}
           /\ \/ p.mint /\ tab' = [Published(tab, t, Minted(p).row) EXCEPT ![t].pass = Minted(p)]
              \/ \E phase \in {"done", "failed"} : With(t, [p EXCEPT !.phase = phase])
        \/ UNCHANGED <<srv, backup>> /\ \E phase \in {"done", "retry", "failed"} : With(t, [p EXCEPT !.phase = phase])
    BY Zenon DEF Upload
  <1> HIDE DEF p
  <1>4. GivenSafe'
    <2>1. ASSUME NEW e \in to PROVE e.to \in pinned /\ Held(e.key, drawn, pinned)
      <3>1. PICK x \in p.grants : x[1] = "them" /\ e = [key |-> SealedKey(p, x[2]), to |-> p.ck]
        BY <2>1
      <3>2. ForThem(p)
        BY <3>1 DEF ForThem
      <3> QED BY <1>1, <3>1, <3>2, SealedHeld DEF PassSafe
    <2> QED BY <1>2, <2>1 DEF VaultInv, VaultSafe, GivenSafe
  <1>5. srv' \in Servers /\ backup' \in Servers /\ ServerSafe'
    <2>1. ~Exists(p) => Accepted(p) \in Servers /\ EnvsSafe(Accepted(p).envs, drawn, pinned)
      BY <1>1, AcceptedSafe
    <2>2. /\ srv \in Servers /\ backup \in Servers /\ EnvsSafe(srv.envs, drawn, pinned)
          /\ EnvsSafe(backup.envs, drawn, pinned)
      BY DEF VaultInv, VaultTyped, VaultSafe, ServerSafe
    <2>3. srv' \in Servers /\ EnvsSafe(srv'.envs, drawn, pinned)
      BY <1>3, <2>1, <2>2
    <2>4. backup' \in Servers /\ EnvsSafe(backup'.envs, drawn, pinned)
      BY <1>3, <2>2
    <2> QED BY <1>2, <2>3, <2>4 DEF ServerSafe
  <1>6. Grown(drawn, pinned, drawn', pinned')
    BY <1>2, Unmoved
  <1>7. TabsTyped' /\ PassesSafe'
    <2>1. ASSUME NEW phase \in {"done", "retry", "failed"}, With(t, [p EXCEPT !.phase = phase])
          PROVE  TabsTyped' /\ PassesSafe'
      <3> DEFINE q == [p EXCEPT !.phase = phase]
      <3>1. Settled(p, drawn, pinned)
        BY <1>1, PassSettled
      <3>2. q \in Passes /\ PassSafe(q, drawn, pinned) /\ PassAgrees(q) /\ With(t, q)
        BY <2>1, <3>1, SettledRephased
      <3> HIDE DEF q
      <3> QED BY <1>2, <1>6, <3>2, WithSafe
    <2>2. ASSUME p.mint, tab' = [Published(tab, t, Minted(p).row) EXCEPT ![t].pass = Minted(p)]
          PROVE  TabsTyped' /\ PassesSafe'
      <3>1. /\ Minted(p) \in Passes /\ PassSafe(Minted(p), drawn, pinned) /\ PassAgrees(Minted(p))
            /\ Minted(p).row.shared \in Levels /\ Minted(p).row.gen \in Levels
        BY <1>1, <2>2, MintedSafe
      <3> QED BY <1>2, <1>6, <2>2, <3>1, PublishedSafe
    <2> QED BY <1>3, <2>1, <2>2
  <1> QED BY <1>1, <1>2, <1>4, <1>5, <1>7 DEF VaultInv, VaultTyped, VaultSafe

LEMMA FinishSafe == ASSUME VaultInv, NEW t \in Tabs, Finish(t) PROVE VaultInv'
  <1> DEFINE p == tab[t].pass
  <1>1. /\ p \in Passes /\ PassSafe(p, drawn, pinned) /\ PassAgrees(p) /\ p.phase \in {"done", "retry", "failed"}
        /\ p.save \in Memories /\ p.ring \in KeyMaps /\ p.row \in SeenRows /\ p.save.shared \in Levels
        /\ p.save.gen \in Levels /\ p.wrap \in BOOLEAN
    BY PassFacts DEF Finish, Passes, Memories
  <1>2. /\ UNCHANGED <<srv, backup, drawn, pin, pinned, given>> /\ KeptMemory(p.save)
    BY DEF Finish
  <1>3. ks' \in Memories
    BY <1>1, <1>2, KeptTypedMemory DEF VaultInv, VaultTyped
  <1>4. \/ tab' = [Published(tab, t, p.save) EXCEPT ![t].ring = p.ring, ![t].row = p.row, ![t].pass = NoPass]
        \/ With(t, [NoPass EXCEPT !.phase = "begun", !.kind = "sync", !.wrap = p.wrap, !.retried = TRUE])
        \/ With(t, NoPass)
    BY Zenon DEF Finish, With
  <1> HIDE DEF p
  <1>5. Grown(drawn, pinned, drawn', pinned')
    BY <1>2, Unmoved
  <1>6. ASSUME tab' = [Published(tab, t, p.save) EXCEPT ![t].ring = p.ring, ![t].row = p.row, ![t].pass = NoPass],
               p.phase = "done"
        PROVE  TabsTyped' /\ PassesSafe'
    <2> DEFINE pub == Published(tab, t, p.save)
               c == [pub[t] EXCEPT !.ring = p.ring, !.row = p.row, !.pass = NoPass]
    <2>1. /\ pub \in [Tabs -> TabStates] /\ pub[t] \in TabStates
          /\ \A u \in Tabs : pub[u].ring = tab[u].ring /\ pub[u].pass = tab[u].pass
      BY <1>1, PublishedTyped DEF VaultInv, VaultTyped
    <2> HIDE DEF pub
    <2>2. tab' = [pub EXCEPT ![t] = c]
      BY <1>6, <2>1 DEF pub, TabStates
    <2>3. c \in TabStates /\ c.ring = p.ring /\ c.pass = NoPass
      BY <1>1, <2>1, NoPassTyped DEF TabStates
    <2> HIDE DEF c
    <2>4. TabsTyped' /\ Others(t) /\ tab'[t].ring = p.ring /\ tab'[t].pass = NoPass
      BY <2>1, <2>2, <2>3 DEF TabsTyped, Others
    <2>5. RingSafe(p.ring, drawn, pinned)
      BY <1>1, <1>6 DEF PassSafe, PassRing
    <2> QED BY <1>2, <1>5, <2>4, <2>5, NoPassSafe, PassMoved
  <1>7. ASSUME With(t, [NoPass EXCEPT !.phase = "begun", !.kind = "sync", !.wrap = p.wrap, !.retried = TRUE])
        PROVE  TabsTyped' /\ PassesSafe'
    <2>1. PICK wrap \in BOOLEAN : wrap = p.wrap
      BY <1>1, Zenon
    <2> DEFINE q == [NoPass EXCEPT !.phase = "begun", !.kind = "sync", !.wrap = wrap, !.retried = TRUE]
    <2>2. With(t, q)
      BY <1>7, <2>1, Zenon
    <2>3. q \in Passes
      BY NoPassTyped DEF Passes, Phases
    <2>4. q.phase = "begun" /\ q.kind = "sync" /\ q.envs = NoEnvs /\ q.ring = NoKeys /\ q.pin = 0
      BY DEF NoPass
    <2> HIDE DEF q
    <2>5. PassSafe(q, drawn', pinned') /\ PassAgrees(q)
      BY <2>4, BegunSafe
    <2> QED BY <1>5, <2>2, <2>3, <2>5, WithSafe
  <1>8. ASSUME With(t, NoPass) PROVE TabsTyped' /\ PassesSafe'
    BY <1>5, <1>8, NoPassTyped, NoPassSafe, WithSafe
  <1>9. p.phase # "done" => \/ With(t, [NoPass EXCEPT !.phase = "begun", !.kind = "sync", !.wrap = p.wrap, !.retried = TRUE])
                            \/ With(t, NoPass)
    BY Zenon DEF Finish, With, p
  <1> QED BY <1>2, <1>3, <1>4, <1>6, <1>7, <1>8, <1>9, QuietStep

-----------------------------------------------------------------------------
(* Invitations, the pin screen, content and floors. *)

(* A step of one tab outside its pass and keyring. *)
LEMMA AsideSafe ==
  ASSUME VaultInv, NEW t \in Tabs, UNCHANGED <<srv, backup, drawn, pin, ks, pinned, given>>, NEW c \in TabStates,
         c.ring = tab[t].ring, c.pass = tab[t].pass, tab' = [tab EXCEPT ![t] = c]
  PROVE  VaultInv'
  <1>1. TabsTyped'
    BY TabReplaced DEF VaultInv, VaultTyped
  <1>2. Others(t) /\ tab'[t].ring = tab[t].ring /\ tab'[t].pass = tab[t].pass
    BY DEF VaultInv, VaultTyped, TabsTyped, Others
  <1>3. PassesSafe'
    BY <1>2, PassFacts, PassMoved, Unmoved
  <1> QED BY <1>1, <1>3, QuietStep DEF VaultInv, VaultTyped

LEMMA HearSafe == ASSUME VaultInv, NEW t \in Tabs, Hear(t) PROVE VaultInv'
  <1> DEFINE floor == IF tab[t].loaded THEN Raised(tab[t].floor, tab[t].inbox) ELSE tab[t].floor
             heard == IF tab[t].loaded THEN tab[t].heard ELSE Raised(tab[t].heard, tab[t].inbox)
             seen == Larger(tab[t].seen, tab[t].inbox.gen)
             c == [tab[t] EXCEPT !.inbox = Floor0, !.floor = floor, !.heard = heard, !.seen = seen]
  <1>1. /\ tab[t] \in TabStates /\ tab[t].floor \in Rows /\ tab[t].heard \in Rows /\ tab[t].inbox.shared \in Levels
        /\ tab[t].inbox.gen \in Levels /\ tab[t].seen \in Levels
    BY PassFacts DEF TabStates, Rows
  <1>2. floor \in Rows /\ heard \in Rows
    BY <1>1, RaisedRow
  <1>3. seen \in Levels
    BY <1>1, LargerTyped
  <1>4. tab' = [tab EXCEPT ![t] = c]
    BY <1>1 DEF Hear, VaultInv, VaultTyped, TabsTyped, TabStates
  <1> HIDE DEF floor, heard, seen
  <1>5. c \in TabStates /\ c.ring = tab[t].ring /\ c.pass = tab[t].pass
    BY <1>1, <1>2, <1>3, EmptyTyped DEF TabStates
  <1> HIDE DEF c
  <1> QED BY <1>4, <1>5, AsideSafe DEF Hear

LEMMA SealContentSafe == ASSUME VaultInv, NEW t \in Tabs, SealContent(t) PROVE VaultInv'
  <1> DEFINE draft == [row |-> tab[t].row, key |-> WriteKey(t, tab[t].row)]
             c == [tab[t] EXCEPT !.draft = draft]
  <1>1. tab[t] \in TabStates /\ tab[t].row \in SeenRows /\ tab[t].ring \in KeyMaps
    BY PassFacts DEF TabStates
  <1>2. WriteKey(t, tab[t].row) \in Nat
    BY <1>1, RowFacts DEF WriteKey, KeyMaps
  <1>3. draft \in Drafts
    BY <1>1, <1>2 DEF Drafts
  <1>4. tab' = [tab EXCEPT ![t] = c]
    BY <1>1 DEF SealContent, VaultInv, VaultTyped, TabsTyped, TabStates
  <1> HIDE DEF draft
  <1>5. c \in TabStates /\ c.ring = tab[t].ring /\ c.pass = tab[t].pass
    BY <1>1, <1>3 DEF TabStates
  <1> HIDE DEF c
  <1> QED BY <1>4, <1>5, AsideSafe DEF SealContent

LEMMA SendContentSafe == ASSUME VaultInv, NEW t \in Tabs, SendContent(t) PROVE VaultInv'
  <1> DEFINE c == [tab[t] EXCEPT !.draft = NoDraft]
  <1>1. tab[t] \in TabStates
    BY PassFacts
  <1>2. tab' = [tab EXCEPT ![t] = c]
    BY <1>1 DEF SendContent, VaultInv, VaultTyped, TabsTyped, TabStates
  <1>3. c \in TabStates /\ c.ring = tab[t].ring /\ c.pass = tab[t].pass
    BY <1>1, EmptyTyped DEF TabStates
  <1> HIDE DEF c
  <1> QED BY <1>2, <1>3, AsideSafe DEF SendContent

LEMMA ReloadSafe == ASSUME VaultInv, NEW t \in Tabs, Reload(t) PROVE VaultInv'
  <1>1. tab' = [tab EXCEPT ![t] = NewTab] /\ UNCHANGED <<srv, backup, drawn, pin, ks, pinned, given>>
    BY DEF Reload
  <1>2. TabsTyped'
    BY <1>1, NewTabTyped, TabReplaced DEF VaultInv, VaultTyped
  <1>3. Others(t) /\ tab'[t].ring = NoKeys /\ tab'[t].pass = NoPass
    BY <1>1 DEF VaultInv, VaultTyped, TabsTyped, Others, NewTab
  <1>4. RingSafe(NoKeys, drawn', pinned')
    BY DEF RingSafe, NoKeys
  <1>5. PassesSafe'
    BY <1>1, <1>3, <1>4, NoPassSafe, PassMoved, Unmoved
  <1> QED BY <1>1, <1>2, <1>5, QuietStep DEF VaultInv, VaultTyped

(* A pass of another kind, begun with nothing read. *)
LEMMA FreshSafe ==
  ASSUME NEW q \in Passes, NEW d, NEW P, q.envs = NoEnvs, q.ring = NoKeys, q.phase \in {"inviting", "asking"},
         q.phase = "inviting" => q.kind = "invite", q.kind = "invite" => Held(q.key, d, P), q.pin # 0 => q.pin \in P
  PROVE  PassSafe(q, d, P) /\ PassAgrees(q)
  <1>1. \A g \in Gens : NoKeys[g] = 0
    BY DEF NoKeys
  <1>2. RingSafe(NoKeys, d, P)
    BY <1>1 DEF RingSafe
  <1> QED BY <1>1, <1>2, NoEnvsSafe DEF PassSafe, PassAgrees, PassRing, Synced, Working

LEMMA BeginInviteSafe == ASSUME VaultInv, NEW t \in Tabs, BeginInvite(t) PROVE VaultInv'
  <1> DEFINE row == tab[t].row
             key == tab[t].ring[row.gen]
             q == [NoPass EXCEPT !.phase = "inviting", !.kind = "invite", !.row = row, !.key = key]
  <1>1. row \in SeenRows /\ tab[t].ring \in KeyMaps /\ RingSafe(tab[t].ring, drawn, pinned)
    BY PassFacts DEF TabStates
  <1>2. row.shared # 0 /\ key # 0 /\ With(t, q)
    BY DEF BeginInvite
  <1>3. row.gen \in Gens
    BY <1>1, <1>2, RowFacts
  <1>4. key \in Nat /\ Held(key, drawn, pinned)
    BY <1>1, <1>2, <1>3 DEF KeyMaps, RingSafe
  <1> HIDE DEF row, key
  <1>5. q \in Passes
    BY <1>1, <1>4, NoPassTyped DEF Passes, Phases
  <1>6. q.phase = "inviting" /\ q.kind = "invite" /\ q.envs = NoEnvs /\ q.ring = NoKeys /\ q.pin = 0 /\ q.key = key
    BY DEF NoPass
  <1> HIDE DEF q
  <1>7. PassSafe(q, drawn, pinned) /\ PassAgrees(q)
    BY <1>4, <1>5, <1>6, FreshSafe
  <1> QED BY <1>2, <1>5, <1>7, QuietWith DEF BeginInvite

LEMMA ShowPinsSafe == ASSUME VaultInv, NEW t \in Tabs, ShowPins(t) PROVE VaultInv'
  <1> DEFINE q == [NoPass EXCEPT !.phase = "asking", !.kind = "retrust", !.pin = pin, !.ck = srv.ck]
  <1>1. pin \in Nat /\ (pin # 0 => pin \in pinned) /\ srv.ck \in Nat /\ With(t, q)
    BY ListedTyped DEF VaultInv, VaultTyped, VaultSafe, ShowPins
  <1>2. q \in Passes
    BY <1>1, NoPassTyped DEF Passes, Phases
  <1>3. q.phase = "asking" /\ q.kind = "retrust" /\ q.envs = NoEnvs /\ q.ring = NoKeys /\ q.pin = pin
    BY DEF NoPass
  <1> HIDE DEF q
  <1>4. PassSafe(q, drawn, pinned) /\ PassAgrees(q)
    BY <1>1, <1>2, <1>3, FreshSafe
  <1> QED BY <1>1, <1>2, <1>4, QuietWith DEF ShowPins

LEMMA ReadInviteeSafe == ASSUME VaultInv, NEW t \in Tabs, ReadInvitee(t) PROVE VaultInv'
  <1> DEFINE p == tab[t].pass
             phase == IF pin = 0 THEN "pinning" ELSE IF pin = srv.ck THEN "ready" ELSE "asking"
             q == [p EXCEPT !.phase = phase, !.ck = srv.ck, !.pin = pin]
  <1>1. p \in Passes /\ PassSafe(p, drawn, pinned) /\ PassAgrees(p)
    BY PassFacts
  <1>2. pin \in Nat /\ (pin # 0 => pin \in pinned) /\ srv.ck \in Nat
    BY ListedTyped DEF VaultInv, VaultTyped, VaultSafe
  <1>3. p.phase = "inviting" /\ With(t, q)
    BY <1>1 DEF ReadInvitee, Passes
  <1>4. /\ phase \in Phases /\ phase \in {"pinning", "ready", "asking"} /\ (phase = "ready" => pin # 0 /\ pin = srv.ck)
    BY DEF Phases
  <1> HIDE DEF p, phase
  <1>5. /\ q \in Passes /\ q.phase = phase /\ q.kind = p.kind /\ q.envs = p.envs /\ q.ring = p.ring
        /\ q.known = p.known /\ q.key = p.key /\ q.ck = srv.ck /\ q.pin = pin
    BY <1>1, <1>2, <1>4 DEF Passes
  <1> HIDE DEF q
  <1>6. PassSafe(q, drawn, pinned) /\ PassAgrees(q)
    BY <1>1, <1>2, <1>3, <1>4, <1>5 DEF PassSafe, PassAgrees, PassRing, Synced, Working
  <1> QED BY <1>3, <1>5, <1>6, QuietWith DEF ReadInvitee

LEMMA SendInviteSafe == ASSUME VaultInv, NEW t \in Tabs, SendInvite(t) PROVE VaultInv'
  <1> DEFINE p == tab[t].pass
  <1>1. /\ PassSafe(p, drawn, pinned) /\ p.phase \in {"ready", "plain"} /\ With(t, NoPass)
        /\ UNCHANGED <<srv, backup, drawn, pin, ks, pinned>>
    BY PassFacts DEF SendInvite
  <1>2. p.phase = "ready" => p.ck \in pinned /\ Held(p.key, drawn, pinned)
    BY <1>1 DEF PassSafe
  <1>3. given' = given \/ (p.phase = "ready" /\ given' = given \cup {[key |-> p.key, to |-> p.ck]})
    BY DEF SendInvite
  <1> HIDE DEF p
  <1>4. GivenSafe'
    BY <1>1, <1>2, <1>3 DEF VaultInv, VaultSafe, GivenSafe
  <1>5. Grown(drawn, pinned, drawn', pinned')
    BY <1>1, Unmoved
  <1>6. TabsTyped' /\ PassesSafe'
    BY <1>1, <1>5, NoPassTyped, NoPassSafe, WithSafe
  <1>7. srv' \in Servers /\ backup' \in Servers /\ ServerSafe'
    BY <1>1, <1>5, RestKept
  <1> QED BY <1>1, <1>4, <1>6, <1>7 DEF VaultInv, VaultTyped, VaultSafe

-----------------------------------------------------------------------------
(* The server and the colleague. *)

(* The tabs stay where they are while a key is drawn. *)
LEMMA ServerMoved ==
  ASSUME VaultInv, Grown(drawn, pinned, drawn', pinned'), UNCHANGED <<pin, ks, tab, pinned, given>>,
         drawn' \in Seq(Nat), srv' \in Servers, backup' \in Servers,
         EnvsSafe(srv'.envs, drawn', pinned), EnvsSafe(backup'.envs, drawn', pinned)
  PROVE  VaultInv'
  <1>1. PassesSafe'
    BY PassGrows, EnvsGrow DEF VaultInv, VaultTyped, VaultSafe, PassesSafe
  <1>2. GivenSafe'
    BY GivenKept
  <1> QED BY <1>1, <1>2 DEF VaultInv, VaultTyped, VaultSafe, ServerSafe, TabsTyped

LEMMA ServerFacts ==
  ASSUME VaultInv
  PROVE  /\ srv \in Servers /\ backup \in Servers /\ drawn \in Seq(Nat) /\ srv.ck \in Nat /\ srv.ck # Me
         /\ srv.envs \in EnvMaps /\ srv.theirs \in EnvMaps /\ srv.gen \in Gens /\ srv.shared \in Levels
         /\ EnvsSafe(srv.envs, drawn, pinned) /\ EnvsSafe(backup.envs, drawn, pinned)
  BY ConstantsTyped DEF VaultInv, VaultTyped, VaultSafe, ServerSafe, Servers

(* A new key drawn and sealed by the listed identity. *)
LEMMA DrawnByListed ==
  ASSUME VaultInv, drawn' = Append(drawn, srv.ck), pinned' = pinned, NEW g \in Gens, NEW envs, NEW e,
         e = [key |-> Len(drawn) + 1, from |-> srv.ck, to |-> Me], envs = [srv.envs EXCEPT ![g] = e]
  PROVE  /\ Grown(drawn, pinned, drawn', pinned') /\ drawn' \in Seq(Nat) /\ e \in Envelopes /\ envs \in EnvMaps
         /\ EnvsSafe(envs, drawn', pinned) /\ EnvsSafe(srv.envs, drawn', pinned) /\ EnvsSafe(backup.envs, drawn', pinned)
  <1>1. /\ drawn \in Seq(Nat) /\ Len(drawn) \in Nat /\ srv.ck \in Nat /\ srv.ck # Me /\ srv.envs \in EnvMaps
        /\ EnvsSafe(srv.envs, drawn, pinned) /\ EnvsSafe(backup.envs, drawn, pinned)
    BY ServerFacts
  <1>2. Grown(drawn, pinned, drawn', pinned')
    BY <1>1 DEF Grown
  <1>3. EnvsSafe(srv.envs, drawn', pinned') /\ EnvsSafe(backup.envs, drawn', pinned')
    BY <1>1, <1>2, EnvsGrow
  <1>4. drawn' \in Seq(Nat) /\ Len(drawn) + 1 \in 1..Len(drawn') /\ drawn'[Len(drawn) + 1] = srv.ck
    BY <1>1
  <1>5. e \in Envelopes /\ e.key = Len(drawn) + 1 /\ e.from = srv.ck
    BY <1>1 DEF Envelopes, Me
  <1>6. envs \in EnvMaps /\ \A h \in Gens : envs[h] = IF h = g THEN e ELSE srv.envs[h]
    BY <1>1, <1>5 DEF EnvMaps
  <1>7. EnvSafe(e, drawn', pinned)
    BY <1>1, <1>4, <1>5 DEF EnvSafe
  <1>8. EnvsSafe(envs, drawn', pinned)
    BY <1>3, <1>6, <1>7 DEF EnvsSafe
  <1> QED BY <1>2, <1>3, <1>4, <1>5, <1>6, <1>8

LEMMA ColleagueMintSafe == ASSUME VaultInv, ColleagueMint PROVE VaultInv'
  <1> DEFINE g == srv.gen + 1
             e == [key |-> Len(drawn) + 1, from |-> srv.ck, to |-> Me]
             envs == [srv.envs EXCEPT ![g] = e]
             x == [key |-> Len(drawn) + 1, from |-> srv.ck, to |-> srv.ck]
             theirs == [srv.theirs EXCEPT ![g] = x]
             shared == IF srv.shared = 0 THEN g ELSE srv.shared
             s == [srv EXCEPT !.gen = g, !.shared = shared, !.envs = envs, !.theirs = theirs]
  <1>1. g \in Gens /\ shared \in Levels
    BY ServerFacts, ConstantsTyped DEF ColleagueMint, Gens, Levels
  <1>2. drawn' = Append(drawn, srv.ck) /\ pinned' = pinned /\ backup' = srv /\ UNCHANGED <<pin, ks, tab, pinned, given>>
    BY DEF ColleagueMint
  <1>3. /\ Grown(drawn, pinned, drawn', pinned') /\ drawn' \in Seq(Nat) /\ e \in Envelopes /\ envs \in EnvMaps
        /\ EnvsSafe(envs, drawn', pinned) /\ EnvsSafe(srv.envs, drawn', pinned)
    BY <1>1, <1>2, DrawnByListed
  <1>4. x \in Envelopes
    BY ServerFacts DEF Envelopes
  <1> HIDE DEF x, e
  <1>5. theirs \in EnvMaps
    BY <1>1, <1>4, ServerFacts DEF EnvMaps
  <1>6. srv' = s
    BY ServerFacts DEF ColleagueMint, Servers, e, x
  <1> HIDE DEF g, envs, theirs, shared
  <1>7. s \in Servers /\ s.envs = envs
    BY <1>1, <1>3, <1>5, ServerFacts DEF Servers
  <1> HIDE DEF s
  <1> QED BY <1>2, <1>3, <1>6, <1>7, ServerFacts, ServerMoved

LEMMA ForgeSafe == ASSUME VaultInv, Forge PROVE VaultInv'
  <1> DEFINE e == [key |-> Len(drawn) + 1, from |-> srv.ck, to |-> Me]
  <1>1. /\ drawn' = Append(drawn, srv.ck) /\ pinned' = pinned /\ UNCHANGED <<backup, pin, ks, tab, pinned, given>>
    BY DEF Forge
  <1>2. PICK g \in 1..srv.gen : srv' = [srv EXCEPT !.envs[g] = e]
    BY DEF Forge
  <1>3. g \in Gens
    BY <1>2, ServerFacts, ConstantsTyped DEF Gens
  <1> DEFINE envs == [srv.envs EXCEPT ![g] = e]
  <1>4. /\ Grown(drawn, pinned, drawn', pinned') /\ drawn' \in Seq(Nat) /\ envs \in EnvMaps
        /\ EnvsSafe(envs, drawn', pinned) /\ EnvsSafe(backup.envs, drawn', pinned)
    BY <1>1, <1>3, DrawnByListed
  <1>5. srv' = [srv EXCEPT !.envs = envs]
    BY <1>2, ServerFacts DEF Servers
  <1> HIDE DEF envs
  <1>6. [srv EXCEPT !.envs = envs] \in Servers /\ [srv EXCEPT !.envs = envs].envs = envs
    BY <1>4, ServerFacts DEF Servers
  <1> QED BY <1>1, <1>4, <1>5, <1>6, ServerFacts, ServerMoved

(* The server's rows without new envelopes for this account. *)
LEMMA RetireSafe == ASSUME VaultInv, Retire \/ Swap \/ Restore PROVE VaultInv'
  <1>1. UNCHANGED <<drawn, pin, ks, tab, pinned, given>>
    BY DEF Retire, Swap, Restore
  <1>2. backup' \in {srv, backup}
    BY DEF Retire, Swap, Restore
  <1>3. srv' \in Servers /\ srv'.envs \in {srv.envs, backup.envs}
    <2>1. ASSUME srv.gen < MaxGen PROVE srv.gen + 1 \in Gens
      BY <2>1, ServerFacts, ConstantsTyped DEF Gens
    <2>2. CASE Retire
      <3>1. ASSUME srv.gen < MaxGen, srv' = [srv EXCEPT !.role = "none", !.gen = @ + 1, !.theirs = NoEnvs]
            PROVE  srv' \in Servers /\ srv'.envs = srv.envs
        BY <2>1, <3>1, ServerFacts, EmptyTyped DEF Servers, Roles
      <3>2. ASSUME srv' = [srv EXCEPT !.role = "editor"]
            PROVE  srv' \in Servers /\ srv'.envs = srv.envs
        BY <3>2, ServerFacts DEF Servers, Roles
      <3> QED BY <2>2, <3>1, <3>2 DEF Retire
    <2>3. CASE Swap
      <3>1. ASSUME NEW ck \in Colleague, srv.gen < MaxGen, srv' = [srv EXCEPT !.ck = ck, !.gen = @ + 1, !.theirs = NoEnvs]
            PROVE  srv' \in Servers /\ srv'.envs = srv.envs
        BY <2>1, <3>1, ServerFacts, EmptyTyped DEF Servers
      <3>2. ASSUME NEW ck \in Colleague, srv' = [srv EXCEPT !.ck = ck]
            PROVE  srv' \in Servers /\ srv'.envs = srv.envs
        BY <3>2, ServerFacts DEF Servers
      <3> QED BY <2>3, <3>1, <3>2 DEF Swap
    <2>4. CASE Restore
      BY <2>4, ServerFacts DEF Restore
    <2> QED BY <2>2, <2>3, <2>4
  <1> QED BY <1>1, <1>2, <1>3, ServerFacts, ServerMoved, Unmoved

-----------------------------------------------------------------------------
LEMMA InitInv == Init => VaultInv
  <1> SUFFICES ASSUME Init PROVE VaultInv
    OBVIOUS
  <1>1. Server0 \in Servers /\ Server0.envs = NoEnvs /\ Server0.ck \in Nat
    <2>1. Server0 \in Servers
      BY FirstListed, EmptyTyped, ConstantsTyped DEF Server0, Servers, Roles
    <2> QED BY <2>1, ConstantsTyped DEF Server0, Servers
  <1>2. TabsTyped
    BY NewTabTyped DEF Init, TabsTyped
  <1>3. drawn \in Seq(Nat) /\ pin \in Nat /\ ks \in Memories /\ (pin # 0 => pin \in pinned)
    BY <1>1, EmptyTyped DEF Init
  <1>4. ServerSafe
    BY <1>1, NoEnvsSafe DEF Init, ServerSafe
  <1>5. RingSafe(NoKeys, drawn, pinned)
    BY DEF RingSafe, NoKeys
  <1>6. PassesSafe
    BY <1>5, NoPassSafe DEF Init, PassesSafe, NewTab
  <1> QED BY <1>1, <1>2, <1>3, <1>4, <1>6 DEF Init, VaultInv, VaultTyped, VaultSafe, GivenSafe

LEMMA StepInv == VaultInv /\ [Next]_vars => VaultInv'
  <1> SUFFICES ASSUME VaultInv, [Next]_vars PROVE VaultInv'
    OBVIOUS
  <1>1. CASE UNCHANGED vars
    <2>1. UNCHANGED <<srv, backup, drawn, pin, ks, tab, pinned, given>>
      BY <1>1 DEF vars
    <2> QED BY <2>1, ServerFacts, ServerMoved, Unmoved
  <1>2. CASE Next
    BY <1>2, BeginPassSafe, OpenSafe, ConfirmSafe, HearSafe, ReadRowSafe, ObserveSafe, ReadEnvelopesSafe,
       ReadMembersSafe, SayNoSafe, SayYesSafe, StorePinSafe, SealSafe, UploadSafe, FinishSafe, BeginInviteSafe,
       ReadInviteeSafe, SendInviteSafe, ShowPinsSafe, SealContentSafe, SendContentSafe, ReloadSafe,
       ColleagueMintSafe, RetireSafe, ForgeSafe DEF Next
  <1> QED BY <1>1, <1>2

LEMMA InvHolds == Spec => []VaultInv
  BY InitInv, StepInv, PTL DEF Spec

(* The browser's vault, its tabs and the server's rows keep their types.   *)
THEOREM VaultTypes == Spec => []VaultTyped
  <1>1. VaultInv => VaultTyped
    BY DEF VaultInv
  <1> QED BY <1>1, InvHolds, PTL

(* openKeyring and persistedOnly: every key a tab uses was drawn by this   *)
(* account or by an identity this browser stored as the colleague's pin.   *)
THEOREM KeysAreVouched == Spec => []RingIsVouched
  <1>1. VaultInv => RingIsVouched
    BY DEF VaultInv, VaultSafe, PassesSafe, RingSafe, Held, RingIsVouched, Vouched
  <1> QED BY <1>1, InvHolds, PTL

(* sealFor and storePins: a container key leaves this browser only sealed  *)
(* for a stored pin, and only a key it vouches for.                        *)
THEOREM KeysGoToPinned == Spec => []GivenToPinned
  <1>1. VaultInv => GivenToPinned
    BY DEF VaultInv, VaultSafe, GivenSafe, Held, GivenToPinned, Vouched
  <1> QED BY <1>1, InvHolds, PTL

-----------------------------------------------------------------------------
(* What a step does to the pass of a tab. *)

LEMMA WithDoes ==
  ASSUME VaultInv, NEW t \in Tabs, NEW q, With(t, q)
  PROVE  /\ tab'[t].pass = q /\ \A u \in Tabs : u # t => tab'[u] = tab[u]
         /\ \A u \in Tabs : /\ tab'[u].seen = tab[u].seen /\ tab'[u].loaded = tab[u].loaded
                            /\ tab'[u].floor = tab[u].floor /\ tab'[u].heard = tab[u].heard
  BY DEF With, VaultInv, VaultTyped, TabsTyped, TabStates

LEMMA PublishedDoes ==
  ASSUME VaultInv, NEW t \in Tabs, NEW q, NEW row, row.shared \in Levels, row.gen \in Levels,
         tab' = [Published(tab, t, row) EXCEPT ![t].pass = q]
  PROVE  tab'[t].pass = q /\ \A u \in Tabs : u # t => tab'[u].pass = tab[u].pass
  <1> DEFINE pub == Published(tab, t, row)
  <1>1. pub \in [Tabs -> TabStates] /\ \A u \in Tabs : pub[u].pass = tab[u].pass
    BY PublishedTyped DEF VaultInv, VaultTyped
  <1> HIDE DEF pub
  <1>2. tab' = [pub EXCEPT ![t].pass = q]
    BY DEF pub
  <1> QED BY <1>1, <1>2 DEF TabStates

LEMMA DecidePhase ==
  ASSUME NEW t, NEW p \in Passes, NEW r, NEW q, q = Decide(t, p, r)
  PROVE  q.phase \in {"asking", "pinning", "done", "sealing"}
  <1> DEFINE opened == Opened(t, p)
             plan == Plan(p, opened, r)
             a == [Adopt(p, opened) EXCEPT !.mint = plan.mint, !.grants = plan.grants]
  <1>1. q \in {[p EXCEPT !.phase = "asking"], [a EXCEPT !.phase = "pinning"], [a EXCEPT !.phase = "done"],
               [a EXCEPT !.phase = "sealing"]}
    BY DEF Decide
  <1>2. "phase" \in DOMAIN p /\ DOMAIN a = DOMAIN p
    BY DEF Passes, Adopt
  <1> HIDE DEF a
  <1> QED BY <1>1, <1>2

LEMMA PersistedPhase ==
  ASSUME NEW t, NEW p \in Passes PROVE [PersistedOnly(t, p) EXCEPT !.phase = "done"].phase = "done"
  <1>1. "phase" \in DOMAIN p
    BY DEF Passes
  <1>2. DOMAIN PersistedOnly(t, p) = DOMAIN p
    BY DEF PersistedOnly, Adopt
  <1> HIDE DEF PersistedOnly
  <1> QED BY <1>1, <1>2

(* Only saying yes agrees to a key; only finishing, or a reload, ends a    *)
(* pass that is done.                                                      *)
Moves(t) ==
    \/ tab'[t].pass = tab[t].pass
    \/ tab[t].pass.phase # "done" /\ tab'[t].pass.phase # "agreed"
    \/ SayYes(t) \/ Finish(t) \/ Reload(t)
OthersStay(t) == \A u \in Tabs : u # t => tab'[u].pass = tab[u].pass

LEMMA PhaseMoves ==
  ASSUME VaultInv, NEW t \in Tabs, NEW q, With(t, q), tab[t].pass.phase # "done", q.phase # "agreed"
  PROVE  Moves(t) /\ OthersStay(t)
  BY WithDoes DEF Moves, OthersStay

LEMMA ReadMoves ==
  ASSUME VaultInv, NEW t \in Tabs, ReadRow(t) \/ ReadEnvelopes(t) \/ ReadMembers(t) \/ Seal(t) \/ ReadInvitee(t)
  PROVE  Moves(t) /\ OthersStay(t)
  <1> DEFINE p == tab[t].pass
  <1>1. p \in Passes
    BY PassFacts
  <1>2. CASE ReadRow(t)
    <2> DEFINE q == [p EXCEPT !.phase = "row", !.row = [shared |-> srv.shared, gen |-> srv.gen]]
    <2>1. With(t, q) /\ p.phase = "begun"
      BY <1>2 DEF ReadRow
    <2>2. q.phase = "row"
      BY <1>1 DEF Passes
    <2> HIDE DEF q
    <2> QED BY <2>1, <2>2, PhaseMoves
  <1>3. CASE ReadEnvelopes(t)
    <2> DEFINE q == [p EXCEPT !.phase = "envelopes", !.envs = srv.envs, !.theirs = srv.theirs]
    <2>1. With(t, q) /\ p.phase = "observed"
      BY <1>3 DEF ReadEnvelopes
    <2>2. q.phase = "envelopes"
      BY <1>1 DEF Passes
    <2> HIDE DEF q
    <2> QED BY <2>1, <2>2, PhaseMoves
  <1>4. CASE ReadMembers(t)
    <2> DEFINE q == [p EXCEPT !.phase = "members", !.ck = srv.ck, !.role = srv.role]
    <2>1. With(t, q) /\ p.phase = "envelopes"
      BY <1>4 DEF ReadMembers
    <2>2. q.phase = "members"
      BY <1>1 DEF Passes
    <2> HIDE DEF q
    <2> QED BY <2>1, <2>2, PhaseMoves
  <1>5. CASE Seal(t)
    <2> DEFINE q1 == [p EXCEPT !.key = Len(drawn) + 1, !.phase = SealedPhase(p)]
               q2 == [p EXCEPT !.phase = SealedPhase(p)]
    <2>1. (With(t, q1) \/ With(t, q2)) /\ p.phase = "sealing"
      BY <1>5, Zenon DEF Seal
    <2>2. q1.phase # "agreed" /\ q2.phase # "agreed"
      BY <1>1 DEF Passes, SealedPhase
    <2> HIDE DEF q1, q2
    <2> QED BY <2>1, <2>2, PhaseMoves
  <1>6. CASE ReadInvitee(t)
    <2> DEFINE p2 == [p EXCEPT !.ck = srv.ck, !.pin = pin]
               phase == IF pin = 0 THEN "pinning" ELSE IF pin = srv.ck THEN "ready" ELSE "asking"
               q == [p2 EXCEPT !.phase = phase]
    <2>1. With(t, q) /\ p2.phase = "inviting"
      BY <1>6 DEF ReadInvitee
    <2>2. q.phase # "agreed" /\ p2.phase = p.phase
      BY <1>1 DEF Passes
    <2> HIDE DEF q, p2
    <2> QED BY <2>1, <2>2, PhaseMoves
  <1> QED BY <1>2, <1>3, <1>4, <1>5, <1>6

LEMMA AskMoves ==
  ASSUME VaultInv, NEW t \in Tabs, NEW r \in BOOLEAN, Open(t, r) \/ Confirm(t, r) \/ SayNo(t) \/ StorePin(t)
  PROVE  Moves(t) /\ OthersStay(t)
  <1> DEFINE p == tab[t].pass
             read == [p EXCEPT !.pin = pin]
             after == [p EXCEPT !.pin = p.ck]
  <1>1. p \in Passes /\ read \in Passes /\ after \in Passes /\ read.phase = p.phase
    BY PassFacts DEF Passes, VaultInv, VaultTyped
  <1>2. PICK q : With(t, q) /\ p.phase # "done" /\ q.phase # "agreed"
    <2>1. CASE Open(t, r)
      <3>1. PICK q : /\ With(t, q) /\ read.phase = "members"
                     /\ \/ q = Decide(t, read, r)
                        \/ q = [PersistedOnly(t, read) EXCEPT !.phase = "done"]
                        \/ q = [Adopt(read, Opened(t, read)) EXCEPT !.phase = "done"]
        BY <2>1, Zenon DEF Open
      <3> HIDE DEF p, read
      <3>2. "phase" \in DOMAIN Adopt(read, Opened(t, read))
        BY <1>1 DEF Passes, Adopt
      <3>3. q.phase # "agreed"
        <4>1. CASE q = Decide(t, read, r)
          BY <1>1, <4>1, DecidePhase
        <4>2. CASE q = [PersistedOnly(t, read) EXCEPT !.phase = "done"]
          BY <1>1, <4>2, PersistedPhase
        <4>3. CASE q = [Adopt(read, Opened(t, read)) EXCEPT !.phase = "done"]
          BY <3>2, <4>3
        <4> QED BY <3>1, <4>1, <4>2, <4>3
      <3> QED BY <1>1, <3>1, <3>3
    <2>2. CASE Confirm(t, r)
      <3>1. PICK q : /\ With(t, q) /\ p.phase = "agreed"
                     /\ \/ q = Decide(t, after, r) \/ q = [after EXCEPT !.phase = "ready"] \/ q = NoPass
                        \/ q = [PersistedOnly(t, p) EXCEPT !.phase = "done"] \/ q = [p EXCEPT !.phase = "plain"]
        BY <2>2, Zenon DEF Confirm, Stopped
      <3> HIDE DEF p, after
      <3>2. q.phase # "agreed"
        <4>1. CASE q = Decide(t, after, r)
          BY <1>1, <4>1, DecidePhase
        <4>2. CASE q = [PersistedOnly(t, p) EXCEPT !.phase = "done"]
          BY <1>1, <4>2, PersistedPhase
        <4>3. CASE q = [after EXCEPT !.phase = "ready"] \/ q = [p EXCEPT !.phase = "plain"] \/ q = NoPass
          BY <1>1, <4>3 DEF Passes, NoPass
        <4> QED BY <3>1, <4>1, <4>2, <4>3
      <3> QED BY <3>1, <3>2
    <2>3. CASE SayNo(t)
      <3>1. PICK q : /\ With(t, q) /\ p.phase = "asking"
                     /\ \/ q = NoPass
                        \/ q = [PersistedOnly(t, p) EXCEPT !.phase = "done"] \/ q = [p EXCEPT !.phase = "plain"]
        BY <2>3, Zenon DEF SayNo, Stopped
      <3> HIDE DEF p
      <3>2. q.phase # "agreed"
        <4>1. CASE q = [PersistedOnly(t, p) EXCEPT !.phase = "done"]
          BY <1>1, <4>1, PersistedPhase
        <4>2. CASE q = [p EXCEPT !.phase = "plain"] \/ q = NoPass
          BY <1>1, <4>2 DEF Passes, NoPass
        <4> QED BY <3>1, <4>1, <4>2
      <3> QED BY <3>1, <3>2
    <2>4. CASE StorePin(t)
      <3> DEFINE next == CASE p.kind = "invite" -> "ready"
                           [] p.kind = "sync" /\ p.phase = "pinning" /\ p.grants # {} -> "sealing"
                           [] p.kind = "sync" /\ p.phase = "pinning" /\ p.grants = {} -> "done"
                           [] OTHER -> "sealed"
      <3>1. next \in {"ready", "sealing", "done", "sealed"}
        BY Zenon
      <3>2. PICK q : /\ With(t, q) /\ p.phase \in {"pinning", "sealedfresh"}
                     /\ \/ q = [p EXCEPT !.phase = next, !.pin = p.ck]
                        \/ q = [PersistedOnly(t, p) EXCEPT !.phase = "done"] \/ q = [p EXCEPT !.phase = "plain"]
        BY <2>4, Zenon DEF StorePin, Stopped
      <3> HIDE DEF p, next
      <3>3. q.phase # "agreed"
        <4>1. CASE q = [PersistedOnly(t, p) EXCEPT !.phase = "done"]
          BY <1>1, <4>1, PersistedPhase
        <4>2. CASE q = [p EXCEPT !.phase = "plain"] \/ q = [p EXCEPT !.phase = next, !.pin = p.ck]
          BY <1>1, <3>1, <4>2 DEF Passes
        <4> QED BY <3>2, <4>1, <4>2
      <3> QED BY <3>2, <3>3
    <2> QED BY <2>1, <2>2, <2>3, <2>4
  <1> QED BY <1>2, WithDoes DEF Moves, OthersStay

LEMMA StartMoves ==
  ASSUME VaultInv, NEW t \in Tabs, NEW wrap \in BOOLEAN,
         BeginPass(t, wrap) \/ BeginInvite(t) \/ ShowPins(t) \/ SendInvite(t)
  PROVE  Moves(t) /\ OthersStay(t)
  <1>1. CASE BeginPass(t, wrap)
    <2> DEFINE q == [NoPass EXCEPT !.phase = "begun", !.kind = "sync", !.wrap = wrap]
    <2>1. (With(t, q) \/ tab' = [Published(tab, t, ks) EXCEPT ![t].pass = q]) /\ tab[t].pass = NoPass
      BY <1>1 DEF BeginPass, With, Idle
    <2>2. q.phase = "begun" /\ NoPass.phase = "idle"
      BY DEF NoPass
    <2>3. ks.shared \in Levels /\ ks.gen \in Levels
      BY DEF VaultInv, VaultTyped, Memories
    <2> HIDE DEF q
    <2>4. tab'[t].pass = q /\ OthersStay(t)
      BY <2>1, <2>3, WithDoes, PublishedDoes DEF OthersStay
    <2> QED BY <2>1, <2>2, <2>4 DEF Moves
  <1>2. CASE BeginInvite(t)
    <2> DEFINE q == [NoPass EXCEPT !.phase = "inviting", !.kind = "invite", !.row = tab[t].row,
                                   !.key = tab[t].ring[tab[t].row.gen]]
    <2>1. With(t, q) /\ tab[t].pass = NoPass
      BY <1>2 DEF BeginInvite, Idle
    <2>2. q.phase = "inviting" /\ NoPass.phase = "idle"
      BY DEF NoPass
    <2> HIDE DEF q
    <2> QED BY <2>1, <2>2, PhaseMoves
  <1>3. CASE ShowPins(t)
    <2> DEFINE q == [NoPass EXCEPT !.phase = "asking", !.kind = "retrust", !.pin = pin, !.ck = srv.ck]
    <2>1. With(t, q) /\ tab[t].pass = NoPass
      BY <1>3 DEF ShowPins, Idle
    <2>2. q.phase = "asking" /\ NoPass.phase = "idle"
      BY DEF NoPass
    <2> HIDE DEF q
    <2> QED BY <2>1, <2>2, PhaseMoves
  <1>4. CASE SendInvite(t)
    <2>1. With(t, NoPass) /\ tab[t].pass.phase \in {"ready", "plain"} /\ NoPass.phase = "idle"
      BY <1>4 DEF SendInvite, NoPass
    <2> QED BY <2>1, PhaseMoves
  <1> QED BY <1>1, <1>2, <1>3, <1>4

LEMMA UploadMoves ==
  ASSUME VaultInv, NEW t \in Tabs, Upload(t) \/ Observe(t)
  PROVE  Moves(t) /\ OthersStay(t)
  <1> DEFINE p == tab[t].pass
  <1>1. p \in Passes /\ PassSafe(p, drawn, pinned) /\ PassAgrees(p) /\ drawn \in Seq(Nat) /\ ks \in Memories
    BY PassFacts DEF VaultInv, VaultTyped
  <1>2. CASE Upload(t)
    <2>1. p.phase = "sealed"
      BY <1>2 DEF Upload
    <2>2. \/ p.mint /\ tab' = [Published(tab, t, Minted(p).row) EXCEPT ![t].pass = Minted(p)]
          \/ \E phase \in {"done", "retry", "failed"} : With(t, [p EXCEPT !.phase = phase])
      BY <1>2, Zenon DEF Upload
    <2>3. ASSUME p.mint, tab' = [Published(tab, t, Minted(p).row) EXCEPT ![t].pass = Minted(p)]
          PROVE  Moves(t) /\ OthersStay(t)
      <3> HIDE DEF p
      <3>1. /\ Minted(p).row.shared \in Levels /\ Minted(p).row.gen \in Levels
            /\ Minted(p).phase \in {"done", "sealed"}
        BY <1>1, <2>1, <2>3, MintedSafe
      <3>2. Minted(p).phase # "agreed"
        BY <3>1
      <3>3. tab'[t].pass = Minted(p) /\ OthersStay(t)
        BY <2>3, <3>1, PublishedDoes DEF OthersStay
      <3> QED BY <2>1, <3>2, <3>3 DEF Moves, p
    <2>4. ASSUME NEW phase \in {"done", "retry", "failed"}, With(t, [p EXCEPT !.phase = phase])
          PROVE  Moves(t) /\ OthersStay(t)
      <3> DEFINE q == [p EXCEPT !.phase = phase]
      <3>1. q.phase = phase
        BY <1>1 DEF Passes
      <3>2. With(t, q)
        BY <2>4
      <3> HIDE DEF q
      <3> QED BY <2>1, <2>4, <3>1, <3>2, PhaseMoves
    <2> QED BY <2>2, <2>3, <2>4
  <1>3. CASE Observe(t)
    <2> DEFINE known == Raised(ks, p.row)
               q == [p EXCEPT !.phase = "observed", !.roll = Rollback(p.row, ks), !.known = known]
    <2>1. tab' = [Published(tab, t, known) EXCEPT ![t].pass = q] /\ p.phase = "row"
      BY <1>3, Zenon DEF Observe
    <2>2. known \in Memories
      BY <1>1, RowFacts, RaisedMemory DEF Passes
    <2>3. known.shared \in Levels /\ known.gen \in Levels
      BY <2>2 DEF Memories
    <2> HIDE DEF known
    <2>4. q.phase = "observed"
      BY <1>1 DEF Passes
    <2> HIDE DEF q
    <2>5. tab'[t].pass = q /\ OthersStay(t)
      BY <2>1, <2>3, PublishedDoes DEF OthersStay
    <2> QED BY <2>1, <2>4, <2>5 DEF Moves
  <1> QED BY <1>2, <1>3

LEMMA EndMoves ==
  ASSUME VaultInv, NEW t \in Tabs,
         SayYes(t) \/ Finish(t) \/ Reload(t) \/ Hear(t) \/ SealContent(t) \/ SendContent(t)
  PROVE  Moves(t) /\ OthersStay(t)
  <1>1. CASE SayYes(t)
    BY <1>1, WithDoes DEF SayYes, Moves, OthersStay
  <1>2. CASE Finish(t)
    <2> DEFINE p == tab[t].pass
               pub == Published(tab, t, p.save)
    <2>1. p.save.shared \in Levels /\ p.save.gen \in Levels
      BY PassFacts DEF Passes, Memories
    <2>2. \/ tab' = [pub EXCEPT ![t].ring = p.ring, ![t].row = p.row, ![t].pass = NoPass]
          \/ \E q : With(t, q)
      BY <1>2, Zenon DEF Finish, With
    <2>3. pub \in [Tabs -> TabStates] /\ \A u \in Tabs : pub[u].pass = tab[u].pass
      BY <2>1, PublishedTyped DEF VaultInv, VaultTyped
    <2> HIDE DEF pub, p
    <2>4. OthersStay(t)
      BY <2>2, <2>3, WithDoes DEF OthersStay
    <2> QED BY <1>2, <2>4 DEF Moves
  <1>3. CASE Reload(t)
    BY <1>3 DEF Reload, Moves, OthersStay, VaultInv, VaultTyped, TabsTyped
  <1>4. CASE Hear(t) \/ SealContent(t) \/ SendContent(t)
    <2>1. tab'[t].pass = tab[t].pass /\ OthersStay(t)
      BY <1>4 DEF Hear, SealContent, SendContent, OthersStay, VaultInv, VaultTyped, TabsTyped, TabStates
    <2> QED BY <2>1 DEF Moves
  <1> QED BY <1>1, <1>2, <1>3, <1>4

LEMMA StepMoves == ASSUME VaultInv, [Next]_vars, NEW t \in Tabs PROVE Moves(t)
  <1>1. CASE \E u \in Tabs : Moves(u) /\ OthersStay(u)
    BY <1>1 DEF Moves, OthersStay
  <1>2. CASE tab' = tab
    BY <1>2 DEF Moves
  <1>3. ASSUME NEW u \in Tabs, NEW b \in BOOLEAN,
               \/ BeginPass(u, b) \/ Open(u, b) \/ Confirm(u, b)
               \/ Hear(u) \/ ReadRow(u) \/ Observe(u) \/ ReadEnvelopes(u) \/ ReadMembers(u)
               \/ SayNo(u) \/ SayYes(u) \/ StorePin(u) \/ Seal(u) \/ Upload(u) \/ Finish(u)
               \/ BeginInvite(u) \/ ReadInvitee(u) \/ SendInvite(u) \/ ShowPins(u)
               \/ SealContent(u) \/ SendContent(u) \/ Reload(u)
        PROVE  Moves(u) /\ OthersStay(u)
    BY <1>3, ReadMoves, AskMoves, StartMoves, UploadMoves, EndMoves
  <1>4. CASE ColleagueMint \/ Retire \/ Swap \/ Forge \/ Restore \/ UNCHANGED vars
    <2>1. tab' = tab
      BY <1>4 DEF ColleagueMint, Retire, Swap, Forge, Restore, vars
    <2> QED BY <1>2, <2>1
  <1>5. CASE Next
    <2>1. TRUE \in BOOLEAN
      OBVIOUS
    <2> QED BY <1>1, <1>3, <1>4, <1>5, <2>1, Zenon DEF Next
  <1> QED BY <1>4, <1>5

(* accept: a pass that ends replaces no remembered key by another. *)
THEOREM PassesAgree == Spec => AgreesWithMemory
  <1> DEFINE Ends(t) ==
        tab[t].pass.phase = "done" /\ tab'[t].pass = NoPass =>
          \A g \in Gens : tab[t].pass.known.digests[g] # 0 /\ tab'[t].ring[g] # 0 =>
                            tab'[t].ring[g] = tab[t].pass.known.digests[g]
  <1>1. ASSUME VaultInv, [Next]_vars, NEW t \in Tabs PROVE Ends(t)
    <2> SUFFICES ASSUME tab[t].pass.phase = "done", tab'[t].pass = NoPass,
                        NEW g \in Gens, tab[t].pass.known.digests[g] # 0, tab'[t].ring[g] # 0
                 PROVE  tab'[t].ring[g] = tab[t].pass.known.digests[g]
      BY DEF Ends
    <2> DEFINE p == tab[t].pass
               pub == Published(tab, t, p.save)
    <2>1. Finish(t) \/ Reload(t)
      <3>1. ~SayYes(t) /\ NoPass.phase = "idle"
        BY DEF SayYes, NoPass
      <3> QED BY <1>1, <3>1, StepMoves DEF Moves
    <2>2. CASE Reload(t)
      <3>1. tab'[t].ring = NoKeys
        BY <1>1, <2>2 DEF Reload, VaultInv, VaultTyped, TabsTyped, NewTab
      <3> QED BY <3>1 DEF NoKeys
    <2>3. CASE Finish(t)
      <3>1. p \in Passes /\ PassAgrees(p) /\ p.save.shared \in Levels /\ p.save.gen \in Levels
        BY <1>1, PassFacts DEF Passes, Memories
      <3>2. tab' = [pub EXCEPT ![t].ring = p.ring, ![t].row = p.row, ![t].pass = NoPass]
        BY <2>3, Zenon DEF Finish
      <3>3. pub \in [Tabs -> TabStates]
        BY <1>1, <3>1, PublishedTyped DEF VaultInv, VaultTyped
      <3> HIDE DEF pub
      <3>4. tab'[t].ring = p.ring
        BY <3>2, <3>3 DEF TabStates
      <3> QED BY <3>1, <3>4 DEF PassAgrees
    <2> QED BY <2>1, <2>2, <2>3
  <1>2. VaultInv /\ [Next]_vars => \A t \in Tabs : Ends(t)
    BY <1>1
  <1>3. []VaultInv /\ [][Next]_vars => [][\A t \in Tabs : Ends(t)]_vars
    BY <1>2, PTL
  <1> QED BY <1>3, InvHolds, PTL DEF Spec, AgreesWithMemory

-----------------------------------------------------------------------------
(* Pins. *)

(* A pass that goes on to replace a pin has the user's yes to exactly that. *)
Asked == \A t \in Tabs : tab[t].pass.phase = "agreed" => <<tab[t].pass.pin, tab[t].pass.ck>> \in yes

(* The only steps that touch the pin, and none withdraws a consent. *)
PinStep == \/ pin' = pin
           \/ \E t \in Tabs : (\E b \in BOOLEAN : Confirm(t, b)) \/ StorePin(t)

LEMMA StepPins == ASSUME [Next]_vars PROVE yes \subseteq yes' /\ PinStep
  <1>1. ASSUME NEW u \in Tabs, NEW b \in BOOLEAN, BeginPass(u, b) \/ Open(u, b) \/ Confirm(u, b)
        PROVE  yes \subseteq yes' /\ PinStep
    <2>1. CASE BeginPass(u, b)
      BY <2>1, Zenon DEF BeginPass, PinStep
    <2>2. CASE Open(u, b)
      BY <2>2, Zenon DEF Open, PinStep
    <2>3. CASE Confirm(u, b)
      <3>1. yes' = yes
        BY <2>3, Zenon DEF Confirm
      <3> QED BY <2>3, <3>1 DEF PinStep
    <2> QED BY <1>1, <2>1, <2>2, <2>3
  <1>2. ASSUME NEW u \in Tabs,
               \/ Hear(u) \/ ReadRow(u) \/ Observe(u) \/ ReadEnvelopes(u) \/ ReadMembers(u)
               \/ SayNo(u) \/ SayYes(u) \/ StorePin(u) \/ Seal(u) \/ Upload(u) \/ Finish(u)
               \/ BeginInvite(u) \/ ReadInvitee(u) \/ SendInvite(u) \/ ShowPins(u)
               \/ SealContent(u) \/ SendContent(u) \/ Reload(u)
        PROVE  yes \subseteq yes' /\ PinStep
    <2>1. CASE SayYes(u)
      <3>1. pin' = pin /\ yes' = yes \cup {<<tab[u].pass.pin, tab[u].pass.ck>>}
        BY <2>1 DEF SayYes
      <3> QED BY <3>1 DEF PinStep
    <2>2. CASE StorePin(u)
      <3>1. yes' = yes
        BY <2>2, Zenon DEF StorePin
      <3> QED BY <2>2, <3>1 DEF PinStep
    <2>3. CASE Hear(u)
      BY <2>3, Zenon DEF Hear, PinStep
    <2>4. CASE ReadRow(u)
      BY <2>4, Zenon DEF ReadRow, PinStep
    <2>5. CASE Observe(u)
      BY <2>5, Zenon DEF Observe, PinStep
    <2>6. CASE ReadEnvelopes(u)
      BY <2>6, Zenon DEF ReadEnvelopes, PinStep
    <2>7. CASE ReadMembers(u)
      BY <2>7, Zenon DEF ReadMembers, PinStep
    <2>8. CASE SayNo(u)
      BY <2>8, Zenon DEF SayNo, PinStep
    <2>9. CASE Seal(u)
      BY <2>9, Zenon DEF Seal, PinStep
    <2>10. CASE Upload(u)
      BY <2>10, Zenon DEF Upload, PinStep
    <2>11. CASE Finish(u)
      BY <2>11, Zenon DEF Finish, PinStep
    <2>12. CASE BeginInvite(u)
      BY <2>12, Zenon DEF BeginInvite, PinStep
    <2>13. CASE ReadInvitee(u)
      BY <2>13, Zenon DEF ReadInvitee, PinStep
    <2>14. CASE SendInvite(u)
      BY <2>14, Zenon DEF SendInvite, PinStep
    <2>15. CASE ShowPins(u)
      BY <2>15, Zenon DEF ShowPins, PinStep
    <2>16. CASE SealContent(u)
      BY <2>16, Zenon DEF SealContent, PinStep
    <2>17. CASE SendContent(u)
      BY <2>17, Zenon DEF SendContent, PinStep
    <2>18. CASE Reload(u)
      BY <2>18, Zenon DEF Reload, PinStep
    <2> QED BY <1>2, <2>1, <2>2, <2>3, <2>4, <2>5, <2>6, <2>7, <2>8, <2>9, <2>10, <2>11, <2>12, <2>13, <2>14, <2>15, <2>16, <2>17, <2>18, Zenon
  <1>3. CASE ColleagueMint \/ Retire \/ Swap \/ Forge \/ Restore \/ UNCHANGED vars
    BY <1>3, Zenon DEF ColleagueMint, Retire, Swap, Forge, Restore, vars, PinStep
  <1> QED BY <1>1, <1>2, <1>3, Zenon DEF Next

LEMMA StepAsked == ASSUME VaultInv, Asked, [Next]_vars PROVE Asked'
  <1>1. yes \subseteq yes'
    BY StepPins
  <1>2. ASSUME NEW t \in Tabs, tab'[t].pass.phase = "agreed"
        PROVE  <<tab'[t].pass.pin, tab'[t].pass.ck>> \in yes'
    <2> DEFINE p == tab[t].pass
               pub == Published(tab, t, p.save)
    <2>1. CASE tab'[t].pass = tab[t].pass
      BY <1>1, <1>2, <2>1 DEF Asked
    <2>2. CASE SayYes(t)
      <3>1. With(t, [p EXCEPT !.phase = "agreed"]) /\ <<p.pin, p.ck>> \in yes' /\ p \in Passes
        BY <2>2, PassFacts DEF SayYes
      <3>2. tab'[t].pass = [p EXCEPT !.phase = "agreed"]
        BY <3>1, WithDoes
      <3> HIDE DEF p
      <3> QED BY <3>1, <3>2 DEF Passes
    <2>3. CASE Reload(t)
      BY <1>2, <2>3 DEF Reload, VaultInv, VaultTyped, TabsTyped, NewTab, NoPass
    <2>4. CASE Finish(t)
      <3>1. p.save.shared \in Levels /\ p.save.gen \in Levels
        BY PassFacts DEF Passes, Memories
      <3>2. \/ tab' = [pub EXCEPT ![t].ring = p.ring, ![t].row = p.row, ![t].pass = NoPass]
            \/ With(t, [NoPass EXCEPT !.phase = "begun", !.kind = "sync", !.wrap = p.wrap, !.retried = TRUE])
            \/ With(t, NoPass)
        BY <2>4, Zenon DEF Finish, With
      <3>3. pub \in [Tabs -> TabStates]
        BY <3>1, PublishedTyped DEF VaultInv, VaultTyped
      <3> HIDE DEF pub
      <3>4. CASE tab' = [pub EXCEPT ![t].ring = p.ring, ![t].row = p.row, ![t].pass = NoPass]
        <4>1. tab'[t].pass = NoPass
          BY <3>3, <3>4 DEF TabStates
        <4> QED BY <1>2, <4>1 DEF NoPass
      <3>5. CASE With(t, NoPass)
        <4>1. tab'[t].pass = NoPass
          BY <3>5, WithDoes
        <4> QED BY <1>2, <4>1 DEF NoPass
      <3>6. CASE With(t, [NoPass EXCEPT !.phase = "begun", !.kind = "sync", !.wrap = p.wrap, !.retried = TRUE])
        <4> DEFINE q == [NoPass EXCEPT !.phase = "begun", !.kind = "sync", !.wrap = p.wrap, !.retried = TRUE]
        <4>1. q.phase = "begun"
          BY DEF NoPass
        <4>2. With(t, q)
          BY <3>6
        <4> HIDE DEF q
        <4>3. tab'[t].pass = q
          BY <4>2, WithDoes
        <4> QED BY <1>2, <4>1, <4>3
      <3> QED BY <3>2, <3>4, <3>5, <3>6
    <2> QED BY <1>2, <2>1, <2>2, <2>3, <2>4, StepMoves DEF Moves
  <1> QED BY <1>2 DEF Asked

LEMMA InitAsked == Init => Asked
  BY DEF Init, Asked, NewTab, NoPass

(* storeConfirmedPin, storePins: a stored pin is replaced only by the key  *)
(* the user was shown for it and agreed to.                                *)
THEOREM PinsChangeByConsent == Spec => PinReplacedByYes
  <1>1. ASSUME VaultInv, Asked, [Next]_vars PROVE pin # 0 /\ pin' # pin => <<pin, pin'>> \in yes
    <2>1. ASSUME NEW t \in Tabs, NEW r \in BOOLEAN, Confirm(t, r) PROVE pin' = pin \/ <<pin, pin'>> \in yes
      <3>1. tab[t].pass.phase = "agreed" /\ (pin' = pin \/ (pin = tab[t].pass.pin /\ pin' = tab[t].pass.ck))
        BY <2>1, Zenon DEF Confirm, Replaces
      <3> QED BY <1>1, <3>1 DEF Asked
    <2>2. ASSUME NEW t \in Tabs, StorePin(t) PROVE pin' = pin \/ pin = 0
      BY <2>2 DEF StorePin, PinFree
    <2> QED BY <1>1, <2>1, <2>2, StepPins DEF PinStep
  <1>2. Spec => []Asked
    BY InitAsked, StepAsked, InvHolds, PTL DEF Spec
  <1> QED BY <1>1, <1>2, InvHolds, PTL DEF Spec, PinReplacedByYes

-----------------------------------------------------------------------------
(* Floors: a tab's floor, or what it has heard while the floor is not      *)
(* loaded, covers every generation it was told of.                         *)
Covered(x) == x.seen <= (IF x.loaded THEN x.floor.gen ELSE x.heard.gen)
FloorsCover == \A t \in Tabs : Covered(tab[t])
FloorInv == VaultInv /\ FloorsCover /\ NoRetiredWrite

SameFloor(x, y) == x.seen = y.seen /\ x.loaded = y.loaded /\ x.floor = y.floor /\ x.heard = y.heard

LEMMA FloorFacts ==
  ASSUME VaultInv, NEW t \in Tabs
  PROVE  /\ tab[t] \in TabStates /\ tab[t].seen \in Levels /\ tab[t].loaded \in BOOLEAN
         /\ \A x \in {tab[t].floor, tab[t].heard, tab[t].inbox} :
              x \in Rows /\ x.gen \in Levels /\ x.shared \in Levels
  BY DEF VaultInv, VaultTyped, TabsTyped, TabStates, Rows

LEMMA SameCovers == ASSUME NEW x, NEW y, SameFloor(x, y), Covered(x) PROVE Covered(y)
  BY DEF SameFloor, Covered

LEMMA LargerCovers ==
  ASSUME NEW a \in Levels, NEW b \in Levels, NEW c \in Levels, NEW d \in Levels,
         a <= c \/ a <= d
  PROVE  Larger(a, b) <= Larger(Larger(c, b), d) /\ Larger(a, b) <= Larger(Larger(d, b), c)
         /\ Larger(a, b) <= Larger(Larger(c, d), b)
  BY ConstantsTyped DEF Levels, Larger

(* publishFloor: the floor takes in the row, and what was only heard.      *)
LEMMA PublishedCovers ==
  ASSUME VaultInv, FloorsCover, NEW t \in Tabs, NEW row, row.shared \in Levels, row.gen \in Levels
  PROVE  \A u \in Tabs : Covered(Published(tab, t, row)[u])
  <1> DEFINE floor == Raised(Raised(tab[t].floor, row), tab[t].heard)
             mine == [tab[t] EXCEPT !.loaded = TRUE, !.floor = floor, !.heard = Floor0,
                                    !.seen = Larger(@, row.gen)]
             told(u) == [tab[u] EXCEPT !.inbox = Raised(@, floor)]
  <1>1. tab[t] \in TabStates /\ tab[t].seen \in Levels /\ tab[t].floor \in Rows /\ tab[t].heard \in Rows
        /\ tab[t].floor.gen \in Levels /\ tab[t].heard.gen \in Levels /\ tab[t].heard.shared \in Levels
    BY FloorFacts
  <1>2. floor.gen = Larger(Larger(tab[t].floor.gen, row.gen), tab[t].heard.gen)
    <2>1. Raised(tab[t].floor, row) \in Rows
          /\ Raised(tab[t].floor, row).gen = Larger(tab[t].floor.gen, row.gen)
      BY <1>1, RaisedRow
    <2> QED BY <1>1, <2>1, RaisedRow
  <1>3. tab[t].seen <= tab[t].floor.gen \/ tab[t].seen <= tab[t].heard.gen
    BY DEF FloorsCover, Covered
  <1>4. Larger(tab[t].seen, row.gen) <= floor.gen
    BY <1>1, <1>2, <1>3, LargerCovers
  <1>5. Published(tab, t, row) = [u \in Tabs |-> IF u = t THEN mine ELSE told(u)]
    BY Zenon DEF Published
  <1> HIDE DEF floor
  <1>6. Covered(mine)
    BY <1>1, <1>4 DEF TabStates, Covered
  <1>7. ASSUME NEW u \in Tabs PROVE Covered(told(u))
    <2>1. SameFloor(tab[u], told(u))
      BY FloorFacts DEF SameFloor, TabStates
    <2> HIDE DEF told
    <2> QED BY <2>1, SameCovers DEF FloorsCover
  <1> HIDE DEF mine, told
  <1> QED BY <1>5, <1>6, <1>7

(* A pass's own record and its results leave the floors alone.             *)
LEMMA PublishedThenCovers ==
  ASSUME VaultInv, FloorsCover, NEW t \in Tabs, NEW row, row.shared \in Levels, row.gen \in Levels,
         NEW q,
         tab' = [Published(tab, t, row) EXCEPT ![t].pass = q]
  PROVE  FloorsCover'
  <1> DEFINE pub == Published(tab, t, row)
  <1>1. pub \in [Tabs -> TabStates]
    BY PublishedTyped DEF VaultInv, VaultTyped
  <1>2. \A u \in Tabs : Covered(pub[u])
    BY PublishedCovers
  <1>3. tab' = [pub EXCEPT ![t].pass = q]
    OBVIOUS
  <1> HIDE DEF pub
  <1>4. \A u \in Tabs : SameFloor(pub[u], tab'[u])
    BY <1>1, <1>3 DEF TabStates, SameFloor
  <1> QED BY <1>2, <1>4, SameCovers DEF FloorsCover

LEMMA PublishedEndCovers ==
  ASSUME VaultInv, FloorsCover, NEW t \in Tabs, NEW row, row.shared \in Levels, row.gen \in Levels,
         NEW q, NEW ring, NEW r,
         tab' = [Published(tab, t, row) EXCEPT ![t].ring = ring, ![t].row = r, ![t].pass = q]
  PROVE  FloorsCover'
  <1> DEFINE pub == Published(tab, t, row)
  <1>1. pub \in [Tabs -> TabStates]
    BY PublishedTyped DEF VaultInv, VaultTyped
  <1>2. \A u \in Tabs : Covered(pub[u])
    BY PublishedCovers
  <1>3. tab' = [pub EXCEPT ![t].ring = ring, ![t].row = r, ![t].pass = q]
    OBVIOUS
  <1> HIDE DEF pub
  <1>4. \A u \in Tabs : SameFloor(pub[u], tab'[u])
    BY <1>1, <1>3 DEF TabStates, SameFloor
  <1> QED BY <1>2, <1>4, SameCovers DEF FloorsCover

LEMMA WithCovers == ASSUME VaultInv, FloorsCover, NEW t \in Tabs, NEW q, With(t, q) PROVE FloorsCover'
  <1>1. \A u \in Tabs : SameFloor(tab[u], tab'[u])
    BY WithDoes DEF SameFloor
  <1> QED BY <1>1, SameCovers DEF FloorsCover

LEMMA PassCovers ==
  ASSUME VaultInv, FloorsCover, NEW t \in Tabs, NEW b \in BOOLEAN,
         \/ Open(t, b) \/ Confirm(t, b) \/ ReadRow(t) \/ ReadEnvelopes(t) \/ ReadMembers(t)
         \/ SayNo(t) \/ SayYes(t) \/ StorePin(t) \/ Seal(t)
         \/ BeginInvite(t) \/ ReadInvitee(t) \/ SendInvite(t) \/ ShowPins(t)
  PROVE  FloorsCover' /\ sent' = sent
  <1>1. ASSUME (\E q : With(t, q)), sent' = sent PROVE FloorsCover' /\ sent' = sent
    BY <1>1, WithCovers
  <1>2. CASE Open(t, b)
    BY <1>1, <1>2, Zenon DEF Open
  <1>3. CASE Confirm(t, b)
    BY <1>1, <1>3, Zenon DEF Confirm, Stopped
  <1>4. CASE ReadRow(t) \/ ReadEnvelopes(t) \/ ReadMembers(t)
    BY <1>1, <1>4, Zenon DEF ReadRow, ReadEnvelopes, ReadMembers
  <1>5. CASE SayNo(t)
    <2>1. \E q : With(t, q)
      <3>1. CASE tab[t].pass.kind = "sync"
        BY <1>5, <3>1, Zenon DEF SayNo, Stopped
      <3>2. CASE tab[t].pass.kind = "invite"
        BY <1>5, <3>2, Zenon DEF SayNo
      <3>3. CASE tab[t].pass.kind # "sync" /\ tab[t].pass.kind # "invite"
        <4>1. With(t, NoPass)
          BY <1>5, <3>3 DEF SayNo
        <4> QED BY <4>1
      <3> QED BY <3>1, <3>2, <3>3
    <2> QED BY <1>1, <1>5, <2>1, Zenon DEF SayNo
  <1>6. CASE SayYes(t)
    BY <1>1, <1>6, Zenon DEF SayYes
  <1>7. CASE StorePin(t)
    BY <1>1, <1>7, Zenon DEF StorePin, Stopped
  <1>8. CASE Seal(t)
    BY <1>1, <1>8, Zenon DEF Seal
  <1>9. CASE BeginInvite(t) \/ ReadInvitee(t)
    BY <1>1, <1>9, Zenon DEF BeginInvite, ReadInvitee
  <1>10. CASE SendInvite(t) \/ ShowPins(t)
    BY <1>1, <1>10, Zenon DEF SendInvite, ShowPins
  <1> QED BY <1>2, <1>3, <1>4, <1>5, <1>6, <1>7, <1>8, <1>9, <1>10, Zenon

LEMMA FloorStepCovers ==
  ASSUME VaultInv, FloorsCover, NEW t \in Tabs, NEW b \in BOOLEAN,
         BeginPass(t, b) \/ Observe(t) \/ Upload(t) \/ Finish(t)
  PROVE  FloorsCover' /\ sent' = sent
  <1> DEFINE p == tab[t].pass
  <1>1. p \in Passes
    BY PassFacts
  <1>2. ASSUME NEW row, row.shared \in Levels, row.gen \in Levels, NEW q, sent' = sent,
               tab' = [Published(tab, t, row) EXCEPT ![t].pass = q]
        PROVE  FloorsCover' /\ sent' = sent
    BY <1>2, PublishedThenCovers
  <1>3. ASSUME NEW q, With(t, q), sent' = sent PROVE FloorsCover' /\ sent' = sent
    BY <1>3, WithCovers
  <1>4. CASE BeginPass(t, b)
    <2> DEFINE q == [NoPass EXCEPT !.phase = "begun", !.kind = "sync", !.wrap = b]
    <2>1. With(t, q) \/ tab' = [Published(tab, t, ks) EXCEPT ![t].pass = q]
      BY <1>4, Zenon DEF BeginPass, With
    <2>2. sent' = sent
      BY <1>4, Zenon DEF BeginPass
    <2>3. ks.shared \in Levels /\ ks.gen \in Levels
      BY DEF VaultInv, VaultTyped, Memories
    <2> HIDE DEF q
    <2> QED BY <1>2, <1>3, <2>1, <2>2, <2>3
  <1>5. CASE Observe(t)
    <2> DEFINE known == Raised(ks, p.row)
               q == [p EXCEPT !.phase = "observed", !.roll = Rollback(p.row, ks), !.known = known]
    <2>1. tab' = [Published(tab, t, known) EXCEPT ![t].pass = q] /\ sent' = sent
      BY <1>5, Zenon DEF Observe
    <2>2. known \in Memories
      <3>1. p.row \in SeenRows /\ ks \in Memories
        BY <1>1 DEF Passes, VaultInv, VaultTyped
      <3>2. p.row.shared \in Levels /\ p.row.gen \in Levels
        BY <3>1, RowFacts
      <3> QED BY <3>1, <3>2, RaisedMemory
    <2>3. known.shared \in Levels /\ known.gen \in Levels
      BY <2>2 DEF Memories
    <2> HIDE DEF known, q
    <2> QED BY <1>2, <2>1, <2>3
  <1>6. CASE Finish(t)
    <2>1. p.save.shared \in Levels /\ p.save.gen \in Levels
      BY <1>1 DEF Passes, Memories
    <2>2. \/ tab' = [Published(tab, t, p.save) EXCEPT ![t].ring = p.ring, ![t].row = p.row, ![t].pass = NoPass]
          \/ \E q : With(t, q)
      BY <1>6, Zenon DEF Finish, With
    <2>3. sent' = sent
      BY <1>6, Zenon DEF Finish
    <2> HIDE DEF p
    <2>4. CASE tab' = [Published(tab, t, p.save) EXCEPT ![t].ring = p.ring, ![t].row = p.row, ![t].pass = NoPass]
      BY <2>1, <2>3, <2>4, PublishedEndCovers
    <2> QED BY <1>3, <2>2, <2>3, <2>4
  <1>7. CASE Upload(t)
    <2>1. \/ p.mint /\ tab' = [Published(tab, t, Minted(p).row) EXCEPT ![t].pass = Minted(p)]
          \/ \E q : With(t, q)
      BY <1>7, Zenon DEF Upload
    <2>2. sent' = sent
      BY <1>7, Zenon DEF Upload
    <2>3. CASE p.mint /\ tab' = [Published(tab, t, Minted(p).row) EXCEPT ![t].pass = Minted(p)]
      <3>1. p.phase = "sealed" /\ PassSafe(p, drawn, pinned) /\ PassAgrees(p) /\ drawn \in Seq(Nat)
        BY <1>7, PassFacts DEF Upload, VaultInv, VaultTyped
      <3> HIDE DEF p
      <3>2. Minted(p).row.shared \in Levels /\ Minted(p).row.gen \in Levels
        BY <1>1, <2>3, <3>1, MintedSafe
      <3> QED BY <1>2, <2>2, <2>3, <3>2
    <2> QED BY <1>3, <2>1, <2>2, <2>3
  <1> QED BY <1>4, <1>5, <1>6, <1>7, Zenon

LEMMA TabStepCovers ==
  ASSUME VaultInv, FloorsCover, NEW t \in Tabs, Hear(t) \/ SealContent(t) \/ SendContent(t) \/ Reload(t)
  PROVE  FloorsCover'
  <1>1. tab[t] \in TabStates /\ tab[t].seen \in Levels /\ tab[t].floor \in Rows /\ tab[t].heard \in Rows
        /\ tab[t].floor.gen \in Levels /\ tab[t].heard.gen \in Levels
        /\ tab[t].inbox.gen \in Levels /\ tab[t].inbox.shared \in Levels /\ tab \in [Tabs -> TabStates]
    BY FloorFacts DEF VaultInv, VaultTyped, TabsTyped
  <1>2. CASE Hear(t)
    <2> DEFINE x == tab[t].inbox
               y == [tab[t] EXCEPT !.inbox = Floor0,
                                   !.floor = IF tab[t].loaded THEN Raised(@, x) ELSE @,
                                   !.heard = IF tab[t].loaded THEN @ ELSE Raised(@, x),
                                   !.seen = Larger(@, x.gen)]
    <2>1. tab'[t] = y /\ \A u \in Tabs : u # t => tab'[u] = tab[u]
      BY <1>1, <1>2 DEF Hear, TabStates
    <2>2. /\ Raised(tab[t].floor, x).gen = Larger(tab[t].floor.gen, x.gen)
          /\ Raised(tab[t].heard, x).gen = Larger(tab[t].heard.gen, x.gen)
      BY <1>1, RaisedRow
    <2>3. Covered(tab[t])
      BY DEF FloorsCover
    <2>4. /\ y.loaded = tab[t].loaded /\ y.seen = Larger(tab[t].seen, x.gen)
          /\ tab[t].loaded => y.floor = Raised(tab[t].floor, x)
          /\ ~tab[t].loaded => y.heard = Raised(tab[t].heard, x)
      BY <1>1 DEF TabStates
    <2>5. Covered(y)
      <3>1. ASSUME NEW a \in Levels, NEW b \in Levels, NEW c \in Levels, a <= b PROVE Larger(a, c) <= Larger(b, c)
        BY <3>1, ConstantsTyped DEF Larger, Levels
      <3>2. CASE tab[t].loaded
        <4>1. y.seen <= y.floor.gen
          BY <1>1, <2>2, <2>3, <2>4, <3>1, <3>2 DEF Covered
        <4> HIDE DEF y
        <4> QED BY <2>4, <3>2, <4>1 DEF Covered
      <3>3. CASE ~tab[t].loaded
        <4>1. y.seen <= y.heard.gen
          BY <1>1, <2>2, <2>3, <2>4, <3>1, <3>3 DEF Covered
        <4> HIDE DEF y
        <4> QED BY <2>4, <3>3, <4>1 DEF Covered
      <3> QED BY <3>2, <3>3
    <2> HIDE DEF y
    <2> QED BY <2>1, <2>5 DEF FloorsCover
  <1>3. CASE SealContent(t) \/ SendContent(t)
    <2>1. \A u \in Tabs : SameFloor(tab[u], tab'[u])
      BY <1>1, <1>3 DEF SealContent, SendContent, SameFloor, TabStates
    <2> QED BY <2>1, SameCovers DEF FloorsCover
  <1>4. CASE Reload(t)
    <2>1. tab'[t] = NewTab /\ \A u \in Tabs : u # t => tab'[u] = tab[u]
      BY <1>1, <1>4 DEF Reload
    <2>2. Covered(NewTab)
      BY DEF Covered, NewTab, Floor0
    <2> QED BY <2>1, <2>2 DEF FloorsCover
  <1> QED BY <1>2, <1>3, <1>4

(* sendCiphertext: the gate compares the draft's row with the floor of now. *)
LEMMA SendKeeps ==
  ASSUME VaultInv, FloorsCover, NoRetiredWrite, NEW t \in Tabs, SendContent(t)
  PROVE  NoRetiredWrite'
  <1> DEFINE d == tab[t].draft
             s == [gen |-> d.row.gen, key |-> d.key, seen |-> tab[t].seen]
  <1>1. d.row \in SeenRows /\ tab[t].seen \in Levels /\ tab[t].floor.gen \in Levels /\ Covered(tab[t])
    BY FloorFacts DEF TabStates, Drafts, FloorsCover
  <1>2. d.row.gen \in Levels
    BY <1>1, RowFacts
  <1>3. sent' = IF Gate(t, d) THEN sent \cup {s} ELSE sent
    BY Zenon DEF SendContent
  <1>4. ASSUME Gate(t, d) PROVE s.gen >= s.seen
    <2>1. tab[t].loaded /\ ~Rollback(d.row, tab[t].floor)
      BY <1>4 DEF Gate, WriteKey
    <2>2. d.row.gen >= tab[t].floor.gen /\ tab[t].floor.gen >= tab[t].seen
      BY <1>1, <1>2, <2>1, ConstantsTyped DEF Rollback, Covered, Levels
    <2> QED BY <1>1, <1>2, <2>2, ConstantsTyped DEF Levels
  <1> HIDE DEF s
  <1> QED BY <1>3, <1>4 DEF NoRetiredWrite

LEMMA StepFloors == ASSUME FloorInv, [Next]_vars PROVE FloorInv'
  <1>1. VaultInv /\ FloorsCover /\ NoRetiredWrite /\ VaultInv'
    BY StepInv DEF FloorInv
  <1>2. ASSUME sent' = sent PROVE NoRetiredWrite'
    BY <1>1, <1>2 DEF NoRetiredWrite
  <1>3. ASSUME NEW t \in Tabs, NEW b \in BOOLEAN,
               \/ BeginPass(t, b) \/ Open(t, b) \/ Confirm(t, b)
               \/ ReadRow(t) \/ Observe(t) \/ ReadEnvelopes(t) \/ ReadMembers(t)
               \/ SayNo(t) \/ SayYes(t) \/ StorePin(t) \/ Seal(t) \/ Upload(t) \/ Finish(t)
               \/ BeginInvite(t) \/ ReadInvitee(t) \/ SendInvite(t) \/ ShowPins(t)
        PROVE  FloorsCover' /\ NoRetiredWrite'
    BY <1>1, <1>2, <1>3, PassCovers, FloorStepCovers
  <1>4. ASSUME NEW t \in Tabs, Hear(t) \/ SealContent(t) \/ SendContent(t) \/ Reload(t)
        PROVE  FloorsCover' /\ NoRetiredWrite'
    <2>1. sent' = sent \/ SendContent(t)
      BY <1>4, Zenon DEF Hear, SealContent, Reload
    <2> QED BY <1>1, <1>2, <1>4, <2>1, TabStepCovers, SendKeeps
  <1>5. CASE ColleagueMint \/ Retire \/ Swap \/ Forge \/ Restore \/ UNCHANGED vars
    <2>1. tab' = tab /\ sent' = sent
      BY <1>5, Zenon DEF ColleagueMint, Retire, Swap, Forge, Restore, vars
    <2> QED BY <1>1, <1>2, <2>1 DEF FloorInv, FloorsCover
  <1>6. CASE Next
    <2>1. CASE FloorsCover' /\ NoRetiredWrite'
      BY <1>1, <2>1 DEF FloorInv
    <2>2. TRUE \in BOOLEAN
      OBVIOUS
    <2> QED BY <1>3, <1>4, <1>5, <1>6, <2>1, <2>2, Zenon DEF Next
  <1> QED BY <1>5, <1>6

LEMMA InitFloors == ASSUME Init PROVE FloorInv
  <1>1. \A t \in Tabs : tab[t] = NewTab
    BY DEF Init
  <1>2. Covered(NewTab)
    BY DEF Covered, NewTab, Floor0
  <1>3. NoRetiredWrite
    BY DEF Init, NoRetiredWrite
  <1> QED BY <1>1, <1>2, <1>3, InitInv DEF FloorInv, FloorsCover

(* sendCiphertext and the floors of the tabs: content never leaves under a *)
(* generation older than one the tab was told of.                          *)
THEOREM NothingRetiredLeaves == Spec => []NoRetiredWrite
  <1>1. FloorInv => NoRetiredWrite
    BY DEF FloorInv
  <1> QED BY <1>1, InitFloors, StepFloors, PTL DEF Spec
=============================================================================
