---------------------------- MODULE IdentityLife ----------------------------
(***************************************************************************)
(* The life of one account's encryption identity: created at a password    *)
(* sign-in or on the user's click in a single sign-on session, kept in the *)
(* vault of a browser, copied to the server under the password and under a *)
(* recovery code, restored from the code, moved by a password change, and  *)
(* replaced by a reset (web/src/identity.ts, recovery.ts, loginUpgrade.ts, *)
(* components/RecoveryCode.tsx, main.tsx; the server's side is             *)
(* internal/httpapi/identity_routes.go and auth_routes.go).                *)
(*                                                                         *)
(* A password is its derivation: every new salt makes a new epoch, and a   *)
(* copy wrapped under an epoch opens under that epoch only.  Tabs of one   *)
(* browser share the session cookie and the vault.  Every request and every*)
(* IndexedDB transaction is one step.                                      *)
(***************************************************************************)
EXTENDS Integers, FiniteSets

CONSTANTS
    Tabs, Browsers,
    Layouts,        \* which browser each tab is in: a set of functions
    Accounts,       \* kinds of account, of AllAccounts
    MaxKeys,        \* bound on identity keys generated
    MaxEpochs,      \* bound on passwords the server ever holds
    MaxCodes,       \* bound on recovery codes made
    MaxVisits,      \* bound on sign-ins
    Faults, MaxFaults

(* A local account, a local session of an account linked to KySignOn, and  *)
(* a single sign-on session.                                               *)
AllAccounts == {"password", "linked", "sso"}

(* A lost request, a lost answer, a confirmation refused, storage refused, *)
(* the page closed.                                                        *)
AllFaults == {"drop", "lose", "refuse", "storage", "close"}

ASSUME LifeBounds ==
    /\ Accounts \subseteq AllAccounts /\ Faults \subseteq AllFaults
    /\ Layouts \subseteq [Tabs -> Browsers]
    /\ {MaxKeys, MaxEpochs, MaxCodes, MaxVisits, MaxFaults} \subseteq Nat /\ MaxEpochs > 0

VARIABLES
    account, home,  \* the kind of account and the layout: never change
    row,            \* user_identities: listed key, device ID, both copies
    pass,           \* the users row: current epoch, admin-known, legacy count
    session,        \* per browser cookie: live, and the epoch it stepped up with
    vault,          \* per browser: the vault record
    tab,
    minted,         \* counters of what must be fresh
    faults,
    paper,          \* recovery codes the user typed back from a saved copy
    listed,         \* history: keys the server ever listed
    givenUp         \* history: listed keys lost by an act that says so

vars == <<account, home, row, pass, session, vault, tab, minted, faults, paper, listed, givenUp>>
ghosts == <<listed, givenUp>>
server == <<row, pass, session>>
fixed == <<account, home>>

NoRow == [key |-> 0, dev |-> 0, pw |-> 0, rec |-> 0, code |-> 0, seals |-> 0]
NoId == [key |-> 0, dev |-> 0]
NoVault == [open |-> FALSE, key |-> 0, dev |-> 0, sent |-> 0]
NoPrep == [use |-> "none", code |-> 0, key |-> 0, cur |-> 0, ok |-> FALSE]
NewTab == [at |-> "out", status |-> "unknown", live |-> NoRow, mem |-> NoId, prep |-> NoPrep,
           cur |-> 0, old |-> NoId, srv |-> NoRow, id |-> NoId, again |-> FALSE,
           replace |-> FALSE, code |-> 0]

Vault(t) == vault[home[t]]
Session(t) == session[home[t]]
Local(t) == [key |-> Vault(t).key, dev |-> Vault(t).dev]
ListedId == [key |-> row.key, dev |-> row.dev]

Fault(kind) ==
    /\ kind \in Faults /\ faults < MaxFaults
    /\ faults' = faults + 1

(* identityStatus *)
Status(local, live) ==
    IF live.key = 0 THEN IF local.dev # 0 THEN "orphaned" ELSE "create"
    ELSE IF local.key # live.key THEN "link"
    ELSE IF local.dev = live.dev THEN "held" ELSE "create"

(* The tab after a run: only the screen's own state stays. *)
Ended(t, at) ==
    [tab[t] EXCEPT !.at = at, !.cur = 0, !.old = NoId, !.srv = NoRow, !.id = NoId,
        !.again = FALSE, !.replace = FALSE, !.code = 0]

To(t, next) == tab' = [tab EXCEPT ![t] = next]
Goto(t, at) == To(t, [tab[t] EXCEPT !.at = at])

(* A refused or failed request ends a run. *)
Fails(t, at) == To(t, Ended(t, at))

-----------------------------------------------------------------------------
(* storeIdentityKey *)

(* With expected: only while the record holds that key (none: holds none). *)
Holds(v, expected) == v.open /\ v.key = expected.key

(* Keeping the key a reset sent finishes that reset. *)
With(v, id) == [v EXCEPT !.key = id.key, !.dev = id.dev, !.sent = IF @ = id.key THEN 0 ELSE @]

(* The swap, its refusal, or a write that fails. *)
Swap(t, expected, id, kept, refused) ==
    \/ /\ Holds(Vault(t), expected)
       /\ vault' = [vault EXCEPT ![home[t]] = With(@, id)] /\ To(t, kept) /\ UNCHANGED faults
    \/ /\ ~Holds(Vault(t), expected)
       /\ To(t, refused) /\ UNCHANGED <<vault, faults>>
    \/ Fault("storage") /\ To(t, refused) /\ UNCHANGED vault

(* What a protected request needs inside its transaction                   *)
(* (RecheckUserActionTx): a live session whose step-up proved the current  *)
(* password, which no administrator knows; KySignOn confirms per request.  *)
Authorised(t) ==
    /\ Session(t).live
    /\ account # "sso" => Session(t).step = pass.epoch /\ ~pass.known

(* Step-up: the password is proved again for this session. *)
SteppedUp(t, epoch) ==
    /\ epoch = pass.epoch /\ Session(t).live
    /\ session' = [session EXCEPT ![home[t]].step = epoch]

OnlyThis(t) == [b \in Browsers |-> IF b = home[t] THEN session[b] ELSE [live |-> FALSE, step |-> 0]]

-----------------------------------------------------------------------------
(* Sign-in with the password (Login.submit). *)

SignIn(t) ==
    /\ account # "sso" /\ tab[t].at \in {"out", "idle"} /\ minted.visit < MaxVisits
    /\ minted' = [minted EXCEPT !.visit = @ + 1]
    /\ To(t, [NewTab EXCEPT !.at = "login", !.cur = pass.epoch])
    /\ UNCHANGED <<fixed, server, vault, faults, paper, ghosts>>

(* The verifier is checked; the answer carries the identity with its       *)
(* password copy.                                                          *)
Login(t) ==
    /\ tab[t].at = "login"
    /\ IF tab[t].cur # pass.epoch THEN Fails(t, "out") /\ UNCHANGED session ELSE
         /\ session' = [session EXCEPT ![home[t]] = [live |-> TRUE, step |-> 0]]
         /\ To(t, [tab[t] EXCEPT !.srv = row,
                !.at = IF pass.known THEN "choose" ELSE IF pass.legacy THEN "upgrade" ELSE "vault"])
    /\ UNCHANGED <<fixed, row, pass, vault, minted, faults, paper, ghosts>>

(* POST /auth/login-upgrade: the verifier and the copy move together, once.*)
UpgradeAllowed(t) ==
    /\ Session(t).live /\ tab[t].cur = pass.epoch /\ pass.legacy
    /\ (row.pw # 0) = (tab[t].srv.pw # 0)
    /\ row.pw # 0 => row.dev = tab[t].srv.dev

(* Mutant: the verifier moves without the copy. *)
UpgradedAlone(epoch) == row

Upgraded(epoch) == [row EXCEPT !.pw = IF @ # 0 THEN epoch ELSE 0]

(* upgradeOlderLogin: a failure keeps the old keys. *)
Upgrade(t) ==
    LET next == pass.epoch + 1
        move == /\ UpgradeAllowed(t) /\ next <= MaxEpochs
                /\ pass' = [pass EXCEPT !.epoch = next, !.legacy = FALSE]
                /\ row' = Upgraded(next)
    IN /\ tab[t].at = "upgrade"
       /\ \/ /\ move /\ UNCHANGED faults
             /\ To(t, [tab[t] EXCEPT !.at = "vault", !.cur = next,
                        !.srv.pw = IF @ # 0 THEN next ELSE 0])
          \/ move /\ Fault("lose") /\ Goto(t, "vault")
          \/ ~UpgradeAllowed(t) /\ Goto(t, "vault") /\ UNCHANGED <<pass, row, faults>>
          \/ Fault("drop") /\ Goto(t, "vault") /\ UNCHANGED <<pass, row>>
       /\ UNCHANGED <<fixed, session, vault, minted, paper, ghosts>>

(* rememberAfter, openVault *)
OpenVault(t) ==
    /\ tab[t].at = "vault" /\ Goto(t, "load")
    /\ \/ vault' = [vault EXCEPT ![home[t]].open = TRUE] /\ UNCHANGED faults
       \/ UNCHANGED vault /\ Fault("storage")
    /\ UNCHANGED <<fixed, server, minted, paper, ghosts>>

(* settlePasswordIdentity: the vault is read first; an identity of the     *)
(* login answer is opened with the keys of this sign-in (ensureIdentity).  *)
Opened(t, answer) ==
    IF answer.pw = 0 THEN Ended(t, "mount")
    ELSE IF answer.pw # tab[t].cur THEN Ended(t, "mount")
    ELSE [tab[t] EXCEPT !.at = "keep", !.id = [key |-> answer.key, dev |-> answer.dev]]

LoadBefore(t) ==
    /\ tab[t].at = "load"
    /\ LET next == IF tab[t].srv.key # 0 THEN Opened(t, tab[t].srv) ELSE [tab[t] EXCEPT !.at = "ensure"]
       IN To(t, IF next.at \in {"keep", "ensure"} THEN [next EXCEPT !.old = Local(t)] ELSE next)
    /\ UNCHANGED <<fixed, server, vault, minted, faults, paper, ghosts>>

(* The step-up before the upload, and the one after a lost create race.    *)
EnsureStepUp(t) ==
    /\ tab[t].at \in {"ensure", "winner"}
    /\ \/ /\ SteppedUp(t, tab[t].cur)
          /\ \/ row.key # 0 /\ To(t, Opened(t, row)) /\ UNCHANGED minted
             \/ row.key = 0 /\ tab[t].at = "winner" /\ Fails(t, "mount") /\ UNCHANGED minted
             \/ /\ row.key = 0 /\ tab[t].at = "ensure" /\ minted.key < MaxKeys
                /\ minted' = [minted EXCEPT !.key = @ + 1]
                /\ To(t, [tab[t] EXCEPT !.at = "put", !.id.key = minted.key + 1])
       \/ /\ tab[t].cur # pass.epoch \/ ~Session(t).live
          /\ Fails(t, "mount") /\ UNCHANGED <<session, minted>>
    /\ UNCHANGED <<fixed, row, pass, vault, faults, paper, ghosts>>

-----------------------------------------------------------------------------
(* PUT /me/identity without replace: only while the account has none. *)

Created(t, pw) ==
    /\ row' = [NoRow EXCEPT !.key = tab[t].id.key, !.dev = minted.dev + 1, !.pw = pw]
    /\ minted' = [minted EXCEPT !.dev = @ + 1]
    /\ listed' = listed \cup {tab[t].id.key}

NotCreated == UNCHANGED <<row, minted, listed>>

PutIdentity(t) ==
    /\ tab[t].at = "put"
    /\ \/ /\ Authorised(t) /\ row.key = 0 /\ Created(t, tab[t].cur) /\ UNCHANGED faults
          /\ To(t, [tab[t] EXCEPT !.at = "keep", !.id.dev = minted.dev + 1])
       \/ Authorised(t) /\ row.key = 0 /\ Created(t, tab[t].cur) /\ Fault("lose") /\ Fails(t, "mount")
       \/ Authorised(t) /\ row.key # 0 /\ NotCreated /\ Goto(t, "winner") /\ UNCHANGED faults
       \/ ~Authorised(t) /\ NotCreated /\ Fails(t, "mount") /\ UNCHANGED faults
    /\ UNCHANGED <<fixed, pass, session, vault, paper, givenUp>>

KeepSettled(t) ==
    /\ tab[t].at = "keep"
    /\ Swap(t, tab[t].old, tab[t].id, Ended(t, "mount"), Ended(t, "mount"))
    /\ UNCHANGED <<fixed, server, minted, paper, ghosts>>

(* The workspace mounts, or reads again after a change (refreshIdentity);  *)
(* a session the server no longer accepts ends at the sign-in screen.      *)
Mount(t) ==
    /\ tab[t].at = "mount"
    /\ IF Session(t).live
       THEN To(t, [Ended(t, "idle") EXCEPT !.live = row, !.status = Status(Local(t), row),
                    !.mem = IF Status(Local(t), row) = "held" THEN Local(t) ELSE NoId,
                    !.prep = IF tab[t].prep.use = "setup" /\ Status(Local(t), row) # "held" THEN NoPrep ELSE @])
       ELSE To(t, NewTab)
    /\ UNCHANGED <<fixed, server, vault, minted, faults, paper, ghosts>>

-----------------------------------------------------------------------------
(* A single sign-on session: App opens the vault; settleSSOIdentity runs   *)
(* on the user's click.                                                    *)

Visit(t) ==
    /\ account = "sso" /\ tab[t].at \in {"out", "idle"} /\ minted.visit < MaxVisits
    /\ minted' = [minted EXCEPT !.visit = @ + 1]
    /\ session' = [session EXCEPT ![home[t]].live = TRUE]
    /\ To(t, [NewTab EXCEPT !.at = "mount"])
    /\ \/ vault' = [vault EXCEPT ![home[t]].open = TRUE] /\ UNCHANGED faults
       \/ UNCHANGED vault /\ Fault("storage")
    /\ UNCHANGED <<fixed, row, pass, paper, ghosts>>

SetUp(t) ==
    /\ account = "sso" /\ tab[t].at = "idle" /\ tab[t].status \in {"create", "orphaned"}
    /\ To(t, [tab[t] EXCEPT !.at = "sso.load", !.replace = tab[t].status = "orphaned"])
    /\ UNCHANGED <<fixed, server, vault, minted, faults, paper, ghosts>>

SetUpLoad(t) ==
    /\ tab[t].at = "sso.load"
    /\ To(t, [tab[t] EXCEPT !.at = "sso.live", !.old = Local(t)])
    /\ UNCHANGED <<fixed, server, vault, minted, faults, paper, ghosts>>

Finishing(t, local, dev) == [tab[t] EXCEPT !.at = "sso.finish", !.old = local, !.id = [key |-> local.key, dev |-> dev]]

(* The vault is read again before this browser is sent to link. *)
SetUpLive(t) ==
    LET local == tab[t].old
    IN /\ tab[t].at = "sso.live"
       /\ \/ ~Session(t).live /\ Fails(t, "idle") /\ UNCHANGED minted
          \/ /\ Session(t).live /\ row.key # 0 /\ UNCHANGED minted
             /\ To(t, IF local.key = row.key THEN Finishing(t, local, row.dev)
                      ELSE IF Local(t).key = row.key THEN Finishing(t, Local(t), row.dev)
                      ELSE Ended(t, "mount"))
          \/ /\ Session(t).live /\ row.key = 0 /\ local.dev # 0 /\ ~tab[t].replace
             /\ Fails(t, "mount") /\ UNCHANGED minted
          \/ /\ Session(t).live /\ row.key = 0 /\ local.key # 0 /\ local.dev = 0
             /\ To(t, [tab[t] EXCEPT !.at = "sso.put", !.id = local]) /\ UNCHANGED minted
          \/ /\ Session(t).live /\ row.key = 0 /\ minted.key < MaxKeys
             /\ local.key = 0 \/ (local.dev # 0 /\ tab[t].replace)
             /\ minted' = [minted EXCEPT !.key = @ + 1]
             /\ To(t, [tab[t] EXCEPT !.at = "sso.save", !.id = [key |-> minted.key + 1, dev |-> 0]])
       /\ UNCHANGED <<fixed, server, vault, faults, paper, ghosts>>

(* One retry settles against what is there now, without replace. *)
Again(t) ==
    IF tab[t].again THEN Ended(t, "mount")
    ELSE [Ended(t, "sso.load") EXCEPT !.again = TRUE]

(* Mutant: the key is sent before it is kept. *)
SetUpSaveLater(t) ==
    /\ tab[t].at = "sso.save" /\ Goto(t, "sso.put")
    /\ UNCHANGED <<fixed, server, vault, minted, faults, paper, ghosts>>

(* The key is kept, pending, before the server learns it. *)
SetUpSave(t) ==
    /\ tab[t].at = "sso.save"
    /\ Swap(t, tab[t].old, tab[t].id, [tab[t] EXCEPT !.at = "sso.put", !.old = tab[t].id], Again(t))
    /\ UNCHANGED <<fixed, server, minted, paper, ghosts>>

SetUpPut(t) ==
    /\ tab[t].at = "sso.put"
    /\ \/ /\ Authorised(t) /\ row.key = 0 /\ Created(t, 0) /\ UNCHANGED faults
          /\ To(t, Finishing(t, tab[t].id, minted.dev + 1))
       \/ Authorised(t) /\ row.key = 0 /\ Created(t, 0) /\ Fault("lose") /\ Fails(t, "idle")
       \/ Authorised(t) /\ row.key # 0 /\ NotCreated /\ Goto(t, "sso.exists") /\ UNCHANGED faults
       \/ ~Authorised(t) /\ NotCreated /\ Fails(t, "idle") /\ UNCHANGED faults
       \/ Fault("refuse") /\ NotCreated /\ Fails(t, "idle")
    /\ UNCHANGED <<fixed, pass, session, vault, paper, givenUp>>

SetUpExists(t) ==
    /\ tab[t].at = "sso.exists"
    /\ To(t, IF Session(t).live /\ row.key = tab[t].id.key THEN Finishing(t, tab[t].id, row.dev)
             ELSE IF Session(t).live THEN Again(t) ELSE Ended(t, "idle"))
    /\ UNCHANGED <<fixed, server, vault, minted, faults, paper, ghosts>>

(* finish: the device ID is recorded while the vault still keeps the key. *)
SetUpFinish(t) ==
    /\ tab[t].at = "sso.finish"
    /\ IF tab[t].old.dev = tab[t].id.dev THEN Fails(t, "mount") /\ UNCHANGED <<vault, faults>>
       ELSE Swap(t, tab[t].old, tab[t].id, Ended(t, "mount"), Ended(t, "mount"))
    /\ UNCHANGED <<fixed, server, minted, paper, ghosts>>

-----------------------------------------------------------------------------
(* The password change (PasswordSettings, rewrapIdentity). *)

ChangeBegin(t) ==
    /\ account # "sso" /\ tab[t].at \in {"idle", "choose"} /\ pass.epoch < MaxEpochs
    /\ To(t, [tab[t] EXCEPT !.at = "chg.live", !.cur = pass.epoch, !.srv = NoRow,
                !.old = IF Vault(t).dev # 0 THEN Local(t) ELSE NoId])
    /\ UNCHANGED <<fixed, server, vault, minted, faults, paper, ghosts>>

(* A copy a reset stripped is added again from this browser's key; there   *)
(* is none to add when the account is linked or this browser holds another.*)
ChangeLive(t) ==
    LET cached == tab[t].old
    IN /\ tab[t].at = "chg.live"
       /\ To(t, IF ~Session(t).live THEN Ended(t, "out")
                ELSE IF row.pw # 0 THEN [tab[t] EXCEPT !.at = "chg.step", !.srv = row]
                ELSE [tab[t] EXCEPT !.at = "chg.send", !.srv = row,
                        !.id = IF row.key # 0 /\ account = "password" /\ cached = ListedId THEN cached ELSE NoId])
       /\ UNCHANGED <<fixed, server, vault, minted, faults, paper, ghosts>>

(* The copy is opened under the current password and must open to the key  *)
(* that was listed.                                                        *)
ChangeStep(t) ==
    /\ tab[t].at = "chg.step"
    /\ \/ /\ SteppedUp(t, tab[t].cur)
          /\ To(t, IF row.pw = tab[t].cur /\ row.key = tab[t].srv.key
                   THEN [tab[t] EXCEPT !.at = "chg.send", !.id = ListedId] ELSE Ended(t, "idle"))
       \/ /\ tab[t].cur # pass.epoch \/ ~Session(t).live
          /\ Fails(t, "idle") /\ UNCHANGED session
    /\ UNCHANGED <<fixed, row, pass, vault, minted, faults, paper, ghosts>>

(* POST /auth/password: a password copy moves with the password or the     *)
(* change is refused; the copy is bound to the identity it was made from.  *)
ChangeAllowed(t) ==
    /\ Session(t).live /\ tab[t].cur = pass.epoch
    /\ ~(account = "linked" /\ pass.known)
    /\ row.pw # 0 => tab[t].id.key # 0
    /\ tab[t].id.key # 0 => /\ tab[t].id.dev = row.dev
                            /\ row.pw # 0 \/ account = "password"

Changed(t) ==
    /\ ChangeAllowed(t)
    /\ pass' = [epoch |-> pass.epoch + 1, known |-> FALSE, legacy |-> FALSE]
    /\ row' = [row EXCEPT !.pw = IF tab[t].id.key # 0 THEN pass.epoch + 1 ELSE @]
    /\ session' = [b \in Browsers |-> [live |-> OnlyThis(t)[b].live, step |-> 0]]

ChangeSend(t) ==
    /\ tab[t].at = "chg.send"
    /\ \/ Changed(t) /\ UNCHANGED faults /\ Goto(t, "chg.keep")
       \/ Changed(t) /\ Fault("lose") /\ Fails(t, "idle")
       \/ ~ChangeAllowed(t) /\ Fails(t, "idle") /\ UNCHANGED <<server, faults>>
    /\ UNCHANGED <<fixed, vault, minted, paper, ghosts>>

(* rememberAfter opens the vault and keeps the identity, without a         *)
(* comparison; with no identity the change settles one under the new       *)
(* password.                                                               *)
ChangeKeep(t) ==
    /\ tab[t].at = "chg.keep"
    /\ \/ /\ vault' = [vault EXCEPT ![home[t]] =
                        IF tab[t].id.key # 0 THEN With([@ EXCEPT !.open = TRUE], tab[t].id) ELSE [@ EXCEPT !.open = TRUE]]
          /\ UNCHANGED faults
       \/ UNCHANGED vault /\ Fault("storage")
    /\ To(t, IF tab[t].id.key # 0 THEN Ended(t, IF tab[t].status = "unknown" THEN "mount" ELSE "idle")
             ELSE [Ended(t, "load") EXCEPT !.cur = tab[t].cur + 1])
    /\ UNCHANGED <<fixed, server, minted, paper, ghosts>>

-----------------------------------------------------------------------------
(* The recovery code (RecoverySetup, saveRecovery). *)

Prepare(t) ==
    /\ tab[t].at = "idle" /\ tab[t].status = "held" /\ tab[t].mem # NoId
    /\ tab[t].prep = NoPrep /\ minted.code < MaxCodes
    /\ minted' = [minted EXCEPT !.code = @ + 1]
    /\ To(t, [tab[t] EXCEPT !.prep = [NoPrep EXCEPT !.use = "setup", !.code = minted.code + 1, !.key = tab[t].mem.key]])
    /\ UNCHANGED <<fixed, server, vault, faults, paper, ghosts>>

(* The user types one group back from a saved copy, and the upload starts. *)
TypeBack(t) ==
    /\ tab[t].at = "idle" /\ tab[t].prep.use # "none"
    /\ tab[t].prep.use = "reset" => ~tab[t].prep.ok
    /\ To(t, [tab[t] EXCEPT !.prep.ok = TRUE, !.at = IF tab[t].prep.use = "setup" THEN "rec.step" ELSE "rst.step"])
    /\ paper' = paper \cup {tab[t].prep.code}
    /\ UNCHANGED <<fixed, server, vault, minted, faults, ghosts>>

(* The step-up asks for the password, or for KySignOn. *)
SaveStep(t) ==
    /\ tab[t].at = "rec.step"
    /\ \/ account = "sso" /\ Goto(t, "rec.put") /\ UNCHANGED <<session, faults>>
       \/ account # "sso" /\ SteppedUp(t, pass.epoch) /\ Goto(t, "rec.put") /\ UNCHANGED faults
       \/ account # "sso" /\ ~Session(t).live /\ Fails(t, "idle") /\ UNCHANGED <<session, faults>>
       \/ Fault("refuse") /\ Fails(t, "idle") /\ UNCHANGED session
    /\ UNCHANGED <<fixed, row, pass, vault, minted, paper, ghosts>>

(* saveRecovery: the prepared copy must be of the key this browser holds.  *)
MadeFor(t) == tab[t].prep.ok /\ tab[t].prep.key = tab[t].mem.key

(* PUT /me/identity/recovery: the same bytes are a re-send; else the swap  *)
(* is against the identity held and the copy last seen.                    *)
Resent(t) == row.dev = tab[t].mem.dev /\ row.rec # 0 /\ row.code = tab[t].prep.code

(* Mutant: the copy is replaced without comparing. *)
RecoverySwapsAny(t) == row.key # 0

RecoverySwaps(t) == row.dev = tab[t].mem.dev /\ row.rec = tab[t].live.rec

SaveRecovery(t) ==
    LET write == /\ ~Resent(t) /\ RecoverySwaps(t)
                 /\ row' = [row EXCEPT !.rec = minted.rec + 1, !.code = tab[t].prep.code, !.seals = tab[t].prep.key]
                 /\ minted' = [minted EXCEPT !.rec = @ + 1]
        saved == \/ write
                 \/ Resent(t) /\ UNCHANGED <<row, minted>>
        spent == [Ended(t, "idle") EXCEPT !.prep = NoPrep]
    IN /\ tab[t].at = "rec.put"
       /\ \/ /\ MadeFor(t) /\ Authorised(t) /\ saved /\ UNCHANGED faults
             /\ To(t, [spent EXCEPT !.at = "mount"])
          \/ MadeFor(t) /\ Authorised(t) /\ saved /\ Fault("lose") /\ Fails(t, "idle")
          \/ /\ MadeFor(t) /\ Authorised(t) /\ ~Resent(t) /\ ~RecoverySwaps(t)
             /\ To(t, spent) /\ UNCHANGED <<row, minted, faults>>
          \/ /\ ~MadeFor(t) \/ ~Authorised(t)
             /\ Fails(t, "idle") /\ UNCHANGED <<row, minted, faults>>
       /\ UNCHANGED <<fixed, pass, session, vault, paper, ghosts>>

-----------------------------------------------------------------------------
(* restoreIdentity: on a browser without the key. *)

RestoreBegin(t) ==
    /\ tab[t].at = "idle" /\ tab[t].status = "link"
    /\ \E c \in paper : To(t, [tab[t] EXCEPT !.at = "res.live", !.old = Local(t), !.code = c])
    /\ UNCHANGED <<fixed, server, vault, minted, faults, paper, ghosts>>

(* A browser that holds another key stops here. *)
RestoreLive(t) ==
    /\ tab[t].at = "res.live"
    /\ To(t, IF ~Session(t).live \/ row.key = 0 \/ tab[t].old.key \notin {0, row.key} THEN Ended(t, "idle")
             ELSE IF tab[t].old.dev = row.dev THEN Ended(t, "mount")
             ELSE [tab[t] EXCEPT !.at = "res.fetch", !.srv = row])
    /\ UNCHANGED <<fixed, server, vault, minted, faults, paper, ghosts>>

(* The copy fetched must be of the identity just listed, and the code must *)
(* open it to that key.                                                    *)
RestoreFetch(t) ==
    /\ tab[t].at = "res.fetch"
    /\ \/ /\ Session(t).live /\ (account # "sso" => ~pass.known) /\ UNCHANGED faults
          /\ To(t, IF /\ row.rec # 0 /\ ListedId = [key |-> tab[t].srv.key, dev |-> tab[t].srv.dev]
                      /\ row.code = tab[t].code /\ row.seals = row.key
                   THEN [tab[t] EXCEPT !.at = "res.keep", !.id = ListedId] ELSE Ended(t, "idle"))
          /\ session' = IF account = "sso" THEN session ELSE [session EXCEPT ![home[t]].step = pass.epoch]
       \/ /\ ~Session(t).live \/ (account # "sso" /\ pass.known)
          /\ Fails(t, "idle") /\ UNCHANGED <<session, faults>>
       \/ Fault("refuse") /\ Fails(t, "idle") /\ UNCHANGED session
    /\ UNCHANGED <<fixed, row, pass, vault, minted, paper, ghosts>>

RestoreKeep(t) ==
    /\ tab[t].at = "res.keep"
    /\ Swap(t, tab[t].old, tab[t].id, Ended(t, "mount"),
            IF Local(t).key = tab[t].id.key THEN Ended(t, "mount") ELSE Ended(t, "idle"))
    /\ UNCHANGED <<fixed, server, minted, paper, ghosts>>

-----------------------------------------------------------------------------
(* The self-service reset (IdentityReset, resetIdentity). *)

(* The password is checked before a code is shown; its keys stay. *)
ResetBegin(t) ==
    /\ tab[t].at = "idle" /\ tab[t].live.key # 0 /\ tab[t].prep = NoPrep
    /\ minted.key < MaxKeys /\ minted.code < MaxCodes
    /\ IF account = "sso" THEN UNCHANGED session ELSE SteppedUp(t, pass.epoch)
    /\ minted' = [minted EXCEPT !.key = @ + 1, !.code = @ + 1]
    /\ To(t, [tab[t] EXCEPT !.prep = [use |-> "reset", code |-> minted.code + 1, key |-> minted.key + 1,
                cur |-> IF account = "sso" THEN 0 ELSE pass.epoch, ok |-> FALSE]])
    /\ UNCHANGED <<fixed, row, pass, vault, faults, paper, ghosts>>

(* A confirmed reset is tried again with the same key. *)
ResetRetry(t) ==
    /\ tab[t].at = "idle" /\ tab[t].prep.use = "reset" /\ tab[t].prep.ok
    /\ Goto(t, "rst.step")
    /\ UNCHANGED <<fixed, server, vault, minted, faults, paper, ghosts>>

(* The step-up, then the new public key is noted in the vault. *)
ResetStep(t) ==
    LET noted == [vault EXCEPT ![home[t]].sent = IF vault[home[t]].open THEN tab[t].prep.key ELSE 0]
    IN /\ tab[t].at = "rst.step"
       /\ \/ account = "sso" /\ Goto(t, "rst.send") /\ vault' = noted /\ UNCHANGED <<session, faults>>
          \/ /\ account # "sso" /\ SteppedUp(t, tab[t].prep.cur)
             /\ Goto(t, "rst.send") /\ vault' = noted /\ UNCHANGED faults
          \/ /\ account # "sso" /\ (tab[t].prep.cur # pass.epoch \/ ~Session(t).live)
             /\ Fails(t, "idle") /\ UNCHANGED <<session, vault, faults>>
          \/ Fault("refuse") /\ Fails(t, "idle") /\ UNCHANGED <<session, vault>>
       /\ UNCHANGED <<fixed, row, pass, minted, paper, ghosts>>

(* Mutant: the expected identity is not compared. *)
ResetAllowedAny(t) == Authorised(t)

(* PUT /me/identity with replace: only the identity the browser saw listed *)
(* goes, and never for itself; a linked account gets no password copy      *)
(* (device_only_required, sent again without one).                         *)
ResetAllowed(t) ==
    /\ Authorised(t) /\ row.dev = tab[t].live.dev /\ row.key # tab[t].prep.key

Replaced(t) ==
    /\ ResetAllowed(t)
    /\ row' = [key |-> tab[t].prep.key, dev |-> minted.dev + 1,
               pw |-> IF account = "password" THEN tab[t].prep.cur ELSE 0,
               rec |-> minted.rec + 1, code |-> tab[t].prep.code, seals |-> tab[t].prep.key]
    /\ minted' = [minted EXCEPT !.dev = @ + 1, !.rec = @ + 1]
    /\ session' = OnlyThis(t)
    /\ listed' = listed \cup {tab[t].prep.key}

ResetSend(t) ==
    /\ tab[t].at = "rst.send"
    /\ \/ /\ Replaced(t) /\ UNCHANGED faults
          /\ To(t, [tab[t] EXCEPT !.at = "rst.keep", !.id = [key |-> tab[t].prep.key, dev |-> minted.dev + 1]])
       \/ Replaced(t) /\ Fault("lose") /\ Goto(t, "rst.check")
       \/ /\ ~ResetAllowed(t) /\ Goto(t, "rst.check")
          /\ UNCHANGED <<row, minted, session, listed, faults>>
    /\ UNCHANGED <<fixed, pass, vault, paper, givenUp>>

(* Any failure is settled by what the server lists; if that cannot be read *)
(* either, the reset is uncertain.  The prepared key stays.                *)
ResetCheck(t) ==
    /\ tab[t].at = "rst.check"
    /\ \/ /\ Session(t).live /\ UNCHANGED faults
          /\ To(t, IF row.key = tab[t].prep.key
                   THEN [tab[t] EXCEPT !.at = "rst.keep", !.id = ListedId] ELSE Ended(t, "idle"))
       \/ ~Session(t).live /\ Fails(t, "idle") /\ UNCHANGED faults
       \/ Fault("drop") /\ Fails(t, "idle")
    /\ UNCHANGED <<fixed, server, vault, minted, paper, ghosts>>

(* The reset replaces whatever this browser held. *)
ResetKeep(t) ==
    /\ tab[t].at = "rst.keep"
    /\ \/ /\ Vault(t).open /\ vault' = [vault EXCEPT ![home[t]] = With(@, tab[t].id)] /\ UNCHANGED faults
       \/ ~Vault(t).open /\ UNCHANGED <<vault, faults>>
       \/ UNCHANGED vault /\ Fault("storage")
    /\ To(t, [Ended(t, "mount") EXCEPT !.prep = NoPrep])
    /\ UNCHANGED <<fixed, server, minted, paper, ghosts>>

(* Cancel forgets the code and the key of a reset. *)
Cancel(t) ==
    /\ tab[t].at = "idle" /\ tab[t].prep.use = "reset"
    /\ To(t, [tab[t] EXCEPT !.prep = NoPrep])
    /\ UNCHANGED <<fixed, server, vault, minted, faults, paper, ghosts>>

-----------------------------------------------------------------------------
(* Leaving, and what others do to the account. *)

(* "Forget this device": the record is deleted, then the session ends. *)
Forget(t) ==
    /\ tab[t].at = "idle"
    /\ vault' = [vault EXCEPT ![home[t]] = NoVault]
    /\ givenUp' = givenUp \cup ({Vault(t).key} \ {0})
    /\ To(t, [NewTab EXCEPT !.at = "leaving"])
    /\ UNCHANGED <<fixed, server, minted, faults, paper, listed>>

EndSession(t) ==
    /\ tab[t].at = "leaving"
    /\ session' = [session EXCEPT ![home[t]] = [live |-> FALSE, step |-> 0]]
    /\ To(t, NewTab)
    /\ UNCHANGED <<fixed, row, pass, vault, minted, faults, paper, ghosts>>

(* The page is closed: what was only in memory is gone. *)
Close(t) ==
    /\ tab[t].at # "out" /\ Fault("close")
    /\ To(t, NewTab)
    /\ UNCHANGED <<fixed, server, vault, minted, paper, ghosts>>

(* An administrator sets the password, or the account is recovered: whoever*)
(* sets it cannot re-wrap the identity, so its password copy goes          *)
(* (stripPasswordWrapTx), and every session ends.                          *)
SetPassword ==
    \E known \in BOOLEAN :
    /\ account # "sso" /\ pass.epoch < MaxEpochs
    /\ pass' = [epoch |-> pass.epoch + 1, known |-> known, legacy |-> FALSE]
    /\ row' = [row EXCEPT !.pw = 0]
    /\ session' = [b \in Browsers |-> [live |-> FALSE, step |-> 0]]
    /\ givenUp' = IF row.pw # 0 THEN givenUp \cup {row.key} ELSE givenUp
    /\ UNCHANGED <<fixed, vault, tab, minted, faults, paper, listed>>

-----------------------------------------------------------------------------

Init ==
    /\ account \in Accounts /\ home \in Layouts
    /\ row = NoRow
    /\ \E old \in BOOLEAN : pass = [epoch |-> 1, known |-> FALSE, legacy |-> old /\ account # "sso"]
    /\ session = [b \in Browsers |-> [live |-> FALSE, step |-> 0]]
    /\ vault = [b \in Browsers |-> NoVault]
    /\ tab = [t \in Tabs |-> NewTab]
    /\ minted = [key |-> 0, dev |-> 0, rec |-> 0, code |-> 0, visit |-> 0]
    /\ faults = 0 /\ paper = {} /\ listed = {} /\ givenUp = {}

Step(t) ==
    \/ SignIn(t) \/ Login(t) \/ Upgrade(t) \/ OpenVault(t) \/ LoadBefore(t) \/ EnsureStepUp(t)
    \/ PutIdentity(t) \/ KeepSettled(t) \/ Mount(t)
    \/ Visit(t) \/ SetUp(t) \/ SetUpLoad(t) \/ SetUpLive(t) \/ SetUpSave(t) \/ SetUpPut(t)
    \/ SetUpExists(t) \/ SetUpFinish(t)
    \/ ChangeBegin(t) \/ ChangeLive(t) \/ ChangeStep(t) \/ ChangeSend(t) \/ ChangeKeep(t)
    \/ Prepare(t) \/ TypeBack(t) \/ SaveStep(t) \/ SaveRecovery(t)
    \/ RestoreBegin(t) \/ RestoreLive(t) \/ RestoreFetch(t) \/ RestoreKeep(t)
    \/ ResetBegin(t) \/ ResetRetry(t) \/ ResetStep(t) \/ ResetSend(t) \/ ResetCheck(t)
    \/ ResetKeep(t) \/ Cancel(t)
    \/ Forget(t) \/ EndSession(t) \/ Close(t)

Next == SetPassword \/ \E t \in Tabs : Step(t)

Spec == Init /\ [][Next]_vars

-----------------------------------------------------------------------------
(* Properties. *)

(* Another tab has the same browser, and so the same session and vault. *)
Shares(t) == \E u \in Tabs \ {t} : home[u] = home[t]

(* A listed identity always has a way back: a password copy, a copy under  *)
(* a recovery code the user has on paper, a browser that keeps the key, or *)
(* an act that gave it up (a forgotten device, a password set by somebody  *)
(* else).  A lost answer, a closed page or two tabs at once never leave an *)
(* identity that nobody holds (settleSSOIdentity: the key is kept, pending,*)
(* before the server learns it).                                           *)
SomeoneHolds ==
    row.key # 0 =>
        \/ row.pw # 0
        \/ row.rec # 0 /\ row.code \in paper /\ row.seals = row.key
        \/ \E b \in Browsers : vault[b].key = row.key
        \/ row.key \in givenUp

(* The password copy opens under the password that signs in now, and under *)
(* none an administrator knows (upgradeLogin, rewrapIdentity, POST         *)
(* /auth/password, PUT /me/identity), while no two tabs share a browser,   *)
(* and so a session: a password change in one of two such tabs ends the    *)
(* step-up the other holds, but not a copy it has already sealed.          *)
CopyOpens ==
    (\A t \in Tabs : ~Shares(t)) =>
        (row.pw # 0 => row.pw = pass.epoch /\ ~pass.known)

(* A key is listed once: a reset tried again after a lost answer finds its *)
(* own key listed and finishes, and no request brings a replaced key back, *)
(* but for one of two tabs of a browser: a reset there does not end the    *)
(* other tab's session, which may still try an overtaken reset again.      *)
ListedOnce ==
    [][row'.dev # row.dev => \/ row'.key \notin listed
                            \/ \E t \in Tabs : Shares(t) /\ tab[t].at = "rst.send" /\ tab[t].prep.key = row'.key]_vars

(* A recovery copy changes only with the identity it is a copy of, or in a *)
(* tab that had seen it: two tabs that both make a code never leave the    *)
(* user with a paper that opens nothing while saying it was saved.         *)
CopyReplacedKnowingly ==
    [][row.rec # 0 /\ row'.dev = row.dev /\ row'.rec # row.rec =>
        \E t \in Tabs : tab[t].at = "rec.put" /\ tab[t].live.rec = row.rec]_vars
=============================================================================
