----------------------------- MODULE DeviceLink -----------------------------
(***************************************************************************)
(* Sending an account's encryption key from a browser that holds it to one *)
(* that does not (web/src/linkFlow.ts, linking.ts, components/             *)
(* DeviceLink.tsx) over the server's relay (internal/httpapi/              *)
(* link_routes.go).  The newcomer commits to a one-time key, a trusted tab *)
(* claims the request with its own, the newcomer reveals the committed     *)
(* key, the user types on the trusted screen the check code the newcomer   *)
(* shows, and the sealed key is relayed once.                              *)
(*                                                                         *)
(* One-time keys are numbers drawn from a counter.  A check code stands    *)
(* for the request and both one-time keys it is computed from.  Identities *)
(* are numbered: the account's listed one grows when it is reset.          *)
(***************************************************************************)
EXTENDS Integers, FiniteSets

CONSTANTS
    Tabs,           \* tabs of the trusted browser's session
    MaxRequests,    \* bound on link requests made
    MaxKeys,        \* bound on one-time keys drawn
    MaxResets,      \* bound on the account's identity resets
    Faults,         \* what may happen, of AllFaults
    MaxFaults       \* bound on the faults in one behaviour

(* An answer or request lost; a session ended; the key forgotten here; a   *)
(* key set up by another tab of the newcomer; a relay that passes its own  *)
(* key on instead of a browser's.                                          *)
AllFaults == {"lose", "revoke", "forget", "setup", "alter"}

ASSUME LinkBounds ==
    /\ {MaxRequests, MaxKeys, MaxResets, MaxFaults} \subseteq Nat
    /\ Faults \subseteq AllFaults

VARIABLES
    rows,       \* the relay's link requests
    new,        \* the newcomer's screen
    late,       \* keys of stopped attempts whose creation is in flight
    tab,        \* each trusted tab's screen
    listed,     \* the identity the server lists for the account
    store,      \* the identity the newcomer's browser keeps; 0 for none
    holder,     \* the identity the trusted browser keeps; 0 for none
    live,       \* which of the two sessions are live
    drawn,      \* one-time keys drawn so far
    faults,
    typed,      \* codes a trusted tab accepted from the user's typing
    sealed      \* bundles handed to the relay

vars == <<rows, new, late, tab, listed, store, holder, live, drawn, faults, typed, sealed>>

Ids == 1..MaxRequests
NoKey == 0
RelayKey == MaxKeys + 1
Keys == 0..RelayKey
NoBundle == [id |-> 0, ak |-> NoKey, nk |-> NoKey, identity |-> 0]
NoRow == [on |-> FALSE, commit |-> NoKey, ak |-> NoKey, nk |-> NoKey, bundle |-> NoBundle]
Unmade == [NoRow EXCEPT !.commit = RelayKey]

Code(id, ak, nk) == <<id, ak, nk>>

NoAnswer == [code |-> "none", ak |-> NoKey, bundle |-> NoBundle]

(* phase: off, starting, waiting, polling, polled, revealing, revealed,    *)
(* keeping.                                                                *)
NoLink == [phase |-> "off", id |-> 0, key |-> NoKey, pin |-> NoKey, shown |-> FALSE,
           confirmed |-> FALSE, bundle |-> NoBundle, ans |-> NoAnswer,
           read |-> [listed |-> 0, store |-> 0]]

(* phase: none, claiming, claimed (answered), open; send: none, stepup,    *)
(* sent, stored, refused.                                                  *)
NoClaim == [mounted |-> TRUE, list |-> {}, phase |-> "none", id |-> 0, key |-> NoKey,
            commit |-> NoKey, nk |-> NoKey, entered |-> FALSE, send |-> "none", ok |-> FALSE,
            bundle |-> NoBundle]

Fault(kind) ==
    /\ kind \in Faults /\ faults < MaxFaults
    /\ faults' = faults + 1

(* A relay that alters what it passes on puts its own key there. *)
PassedOn(key, seen) ==
    \/ seen = key /\ UNCHANGED faults
    \/ seen = RelayKey /\ seen # key /\ Fault("alter")

Removed(id) == IF id = 0 THEN rows ELSE [rows EXCEPT ![id] = NoRow]

(* quietCancel: the request to delete the row may not arrive. *)
Cancelled(id) == rows' \in {rows, Removed(id)}

-----------------------------------------------------------------------------
(* The newcomer: begin, startNewcomerLink. *)

InFlight == IF new.phase = "starting" THEN {new.key} ELSE {}

(* Requests not made yet, less those on their way. *)
RequestsLeft ==
    Cardinality({id \in Ids : rows[id] = Unmade}) - Cardinality(late \cup InFlight)

(* begin: refused when this browser holds another copy of the key.  The    *)
(* button is still there while the request is being created.               *)
Begin ==
    /\ new.phase \in {"off", "starting"} /\ drawn < MaxKeys /\ RequestsLeft > 0
    /\ store \in {0, listed}
    /\ drawn' = drawn + 1
    /\ new' = [NoLink EXCEPT !.phase = "starting", !.key = drawn + 1]
    /\ late' = late \cup InFlight
    /\ UNCHANGED <<rows, tab, listed, store, holder, live, faults, typed, sealed>>

(* createLink: a newcomer session has one request; a new one replaces it. *)
NextId(id) == rows[id] = Unmade /\ \A other \in Ids : other < id => rows[other] # Unmade

Created(id, key) ==
    [other \in Ids |-> IF other = id THEN [NoRow EXCEPT !.on = TRUE, !.commit = key]
                       ELSE IF rows[other].on THEN NoRow ELSE rows[other]]

CreateRequest ==
    /\ new.phase = "starting"
    /\ IF "new" \in live
       THEN \E id \in Ids : /\ NextId(id)
                            /\ rows' = Created(id, new.key)
                            /\ new' = [new EXCEPT !.phase = "waiting", !.id = id]
       ELSE new' = NoLink /\ UNCHANGED rows
    /\ UNCHANGED <<late, tab, listed, store, holder, live, drawn, faults, typed, sealed>>

(* A stopped attempt's creation still arrives, and is cancelled. *)
LateCreate ==
    \E key \in late :
        /\ late' = late \ {key}
        /\ IF "new" \in live
           THEN \E id \in Ids : NextId(id) /\ rows' \in {Created(id, key), [Created(id, key) EXCEPT ![id] = NoRow]}
           ELSE UNCHANGED rows
        /\ UNCHANGED <<new, tab, listed, store, holder, live, drawn, faults, typed, sealed>>

(* One poll; awaitLinkBundle's wait before it. *)
Poll ==
    /\ new.phase = "waiting" /\ new.bundle = NoBundle
    /\ new' = [new EXCEPT !.phase = "polling"]
    /\ UNCHANGED <<rows, late, tab, listed, store, holder, live, drawn, faults, typed, sealed>>

(* collectLink: delivers the bundle once and deletes the row. *)
Collect ==
    /\ new.phase = "polling"
    /\ LET row == rows[new.id]
       IN  IF ~row.on \/ "new" \notin live
           THEN /\ new' = [new EXCEPT !.phase = "polled", !.ans = [NoAnswer EXCEPT !.code = "gone"]]
                /\ UNCHANGED <<rows, faults>>
           ELSE \E seen \in {row.ak, RelayKey} :
                  /\ PassedOn(row.ak, seen)
                  /\ new' = [new EXCEPT !.phase = "polled",
                               !.ans = [code |-> "ok", ak |-> seen, bundle |-> row.bundle]]
                  /\ rows' = IF row.bundle = NoBundle THEN rows ELSE Removed(new.id)
    /\ UNCHANGED <<late, tab, listed, store, holder, live, drawn, typed, sealed>>

Stopped == NoLink

(* Mutant: a request that ended is polled again like a lost answer. *)
PollKeepsTrying ==
    LET ans == new.ans
    IN  /\ new.phase = "polled"
        /\ IF ans.code # "ok" \/ ans.ak \in {NoKey, new.pin}
           THEN new' = [new EXCEPT !.phase = "waiting", !.ans = NoAnswer, !.bundle = ans.bundle]
           ELSE new' = [new EXCEPT !.phase = "revealing", !.ans = NoAnswer, !.pin = ans.ak]
        /\ UNCHANGED <<rows, late, tab, listed, store, holder, live, drawn, faults, typed, sealed>>

(* pollNewcomerLink: the first approver key is pinned and this browser's   *)
(* key revealed; another key after that ends the attempt.                  *)
PollAnswered ==
    LET ans == new.ans
    IN  /\ new.phase = "polled"
        /\ CASE ans.code = "lost" -> new' = [new EXCEPT !.phase = "waiting", !.ans = NoAnswer] /\ UNCHANGED rows
             [] ans.code = "gone" -> new' = Stopped /\ Cancelled(new.id)
             [] ans.code = "ok" /\ new.pin # NoKey /\ ans.ak \notin {NoKey, new.pin} ->
                  new' = Stopped /\ Cancelled(new.id)
             [] ans.code = "ok" /\ new.pin # NoKey /\ ans.ak \in {NoKey, new.pin} ->
                  /\ new' = [new EXCEPT !.phase = "waiting", !.ans = NoAnswer, !.bundle = ans.bundle]
                  /\ UNCHANGED rows
             [] ans.code = "ok" /\ new.pin = NoKey /\ ans.ak = NoKey ->
                  new' = [new EXCEPT !.phase = "waiting", !.ans = NoAnswer] /\ UNCHANGED rows
             [] OTHER ->
                  new' = [new EXCEPT !.phase = "revealing", !.ans = NoAnswer, !.pin = ans.ak] /\ UNCHANGED rows
        /\ UNCHANGED <<late, tab, listed, store, holder, live, drawn, faults, typed, sealed>>

(* revealLink: once, after a claim, and only the committed key. *)
Reveal ==
    /\ new.phase = "revealing"
    /\ LET row == rows[new.id]
           open == row.on /\ row.ak # NoKey /\ row.nk = NoKey /\ live = {"new", "trusted"}
       IN  /\ rows' = IF ~open THEN rows
                      ELSE IF row.commit = new.key THEN [rows EXCEPT ![new.id].nk = new.key]
                      ELSE Removed(new.id)
           /\ new' = [new EXCEPT !.phase = "revealed",
                        !.ans.code = IF open /\ row.commit = new.key THEN "ok" ELSE "gone"]
    /\ UNCHANGED <<late, tab, listed, store, holder, live, drawn, faults, typed, sealed>>

(* A failed reveal ends the attempt: the key is never revealed again. *)
RevealAnswered ==
    /\ new.phase = "revealed"
    /\ IF new.ans.code = "ok"
       THEN new' = [new EXCEPT !.phase = "waiting", !.shown = TRUE, !.ans = NoAnswer] /\ UNCHANGED rows
       ELSE new' = Stopped /\ Cancelled(new.id)
    /\ UNCHANGED <<late, tab, listed, store, holder, live, drawn, faults, typed, sealed>>

ShownCode == Code(new.id, new.pin, new.key)

(* The user chooses Codes match once the other browser accepted the code. *)
CodesMatch ==
    /\ new.shown /\ ~new.confirmed /\ ShownCode \in typed
    /\ new' = [new EXCEPT !.confirmed = TRUE]
    /\ UNCHANGED <<rows, late, tab, listed, store, holder, live, drawn, faults, typed, sealed>>

(* Cancel, Codes differ, or leaving the page. *)
Stop ==
    /\ new.phase \notin {"off", "keeping"}
    /\ new' = Stopped
    /\ late' = late \cup InFlight
    /\ IF new.id = 0 THEN UNCHANGED rows ELSE Cancelled(new.id)
    /\ UNCHANGED <<tab, listed, store, holder, live, drawn, faults, typed, sealed>>

(* Mutant: the identity the bundle is sealed for is not compared. *)
OpensAnyIdentity(bundle, identity) ==
    bundle.id = new.id /\ bundle.ak = new.pin /\ bundle.nk = new.key

(* openLinkBundle: sealed to this key, by the pinned key, for this request *)
(* and the listed identity.                                                *)
Opens(bundle, identity) ==
    bundle = [id |-> new.id, ak |-> new.pin, nk |-> new.key, identity |-> identity]

(* finishNewcomerLink: the listed identity and the copy kept here are      *)
(* read; the bundle is opened against them.                                *)
FinishRead ==
    /\ new.phase = "waiting" /\ new.bundle # NoBundle /\ new.confirmed
    /\ new' = IF Opens(new.bundle, listed) /\ store \in {0, listed}
              THEN [new EXCEPT !.phase = "keeping", !.read = [listed |-> listed, store |-> store]]
              ELSE Stopped
    /\ UNCHANGED <<rows, late, tab, listed, store, holder, live, drawn, faults, typed, sealed>>

(* Mutant: the key is kept whatever this browser holds by now. *)
KeepAnyway ==
    /\ new.phase = "keeping"
    /\ store' = new.read.listed
    /\ new' = Stopped
    /\ UNCHANGED <<rows, late, tab, listed, holder, live, drawn, faults, typed, sealed>>

(* The key is kept by a compare-and-swap against the copy read. *)
FinishKeep ==
    /\ new.phase = "keeping"
    /\ store' = IF store = new.read.store THEN new.read.listed ELSE store
    /\ new' = Stopped
    /\ UNCHANGED <<rows, late, tab, listed, holder, live, drawn, faults, typed, sealed>>

-----------------------------------------------------------------------------
(* The trusted tabs: LinkRequests. *)

(* What listLinks shows of a row: not yet answered, from a live newcomer.  *)
Visible(id) == rows[id].on /\ rows[id].bundle = NoBundle /\ "new" \in live

(* The attempt ends here and, unless it only vanished, on the relay. *)
Dropped(t) == [NoClaim EXCEPT !.mounted = tab[t].mounted, !.list = tab[t].list]

(* revealedLink: only the key committed to before this tab's key was sent. *)
MatchesCommitment(t, nk) == nk = tab[t].commit

(* One refresh of the list: takes the revealed key, or ends an attempt     *)
(* whose request is gone or whose key is not the committed one.            *)
Tick(t) ==
    LET id == tab[t].id
        open == tab[t].phase = "open" /\ tab[t].send = "none"
    IN  /\ tab[t].mounted /\ "trusted" \in live
        /\ \E commit \in {NoKey, RelayKey}, nk \in {NoKey, RelayKey, IF open THEN rows[id].nk ELSE NoKey} :
             LET list == {[id |-> r, commit |-> IF commit = NoKey THEN rows[r].commit ELSE commit,
                           claimed |-> rows[r].ak # NoKey] : r \in {r \in Ids : Visible(r)}}
                 fresh == [tab EXCEPT ![t].list = list]
             IN  /\ IF open /\ Visible(id) /\ tab[t].nk = NoKey
                    THEN nk \in {rows[id].nk, RelayKey} /\ commit = NoKey /\ PassedOn(rows[id].nk, nk)
                    ELSE nk = NoKey /\ IF commit = NoKey THEN UNCHANGED faults ELSE Fault("alter")
                 /\ CASE open /\ ~Visible(id) ->
                           tab' = [fresh EXCEPT ![t] = [Dropped(t) EXCEPT !.list = list]] /\ UNCHANGED rows
                      [] open /\ Visible(id) /\ nk # NoKey /\ ~MatchesCommitment(t, nk) ->
                           tab' = [fresh EXCEPT ![t] = [Dropped(t) EXCEPT !.list = list]] /\ Cancelled(id)
                      [] open /\ Visible(id) /\ nk # NoKey /\ MatchesCommitment(t, nk) ->
                           tab' = [fresh EXCEPT ![t].nk = nk] /\ UNCHANGED rows
                      [] OTHER -> tab' = fresh /\ UNCHANGED rows
        /\ UNCHANGED <<new, late, listed, store, holder, live, drawn, typed, sealed>>

(* Approve...: a new one-time key claims a listed request. *)
Claim(t) ==
    \E row \in tab[t].list :
        /\ tab[t].mounted /\ tab[t].phase = "none" /\ ~row.claimed /\ drawn < MaxKeys
        /\ drawn' = drawn + 1
        /\ tab' = [tab EXCEPT ![t].phase = "claiming", ![t].id = row.id,
                              ![t].commit = row.commit, ![t].key = drawn + 1]
        /\ UNCHANGED <<rows, new, late, listed, store, holder, live, faults, typed, sealed>>

(* claimLink on the server: the first claim wins. *)
ClaimRequest(t) ==
    LET row == rows[tab[t].id]
        ok  == row.on /\ row.ak = NoKey /\ live = {"new", "trusted"}
    IN  /\ tab[t].phase = "claiming"
        /\ rows' = IF ok THEN [rows EXCEPT ![tab[t].id].ak = tab[t].key] ELSE rows
        /\ tab' = [tab EXCEPT ![t].phase = "claimed", ![t].ok = ok]
        /\ UNCHANGED <<new, late, listed, store, holder, live, drawn, faults, typed, sealed>>

(* keepClaim: a claim answered after the screen closed is ended. *)
ClaimAnswered(t) ==
    /\ tab[t].phase = "claimed"
    /\ IF tab[t].ok /\ tab[t].mounted
       THEN tab' = [tab EXCEPT ![t].phase = "open"] /\ UNCHANGED rows
       ELSE /\ tab' = [tab EXCEPT ![t] = Dropped(t)]
            /\ IF tab[t].ok THEN Cancelled(tab[t].id) ELSE UNCHANGED rows
    /\ UNCHANGED <<new, late, listed, store, holder, live, drawn, faults, typed, sealed>>

TabCode(t) == Code(tab[t].id, tab[t].key, tab[t].nk)

(* The user types the code the newcomer's screen shows; the tab accepts it *)
(* only when it is its own.                                                *)
TypeCode(t) ==
    /\ tab[t].mounted /\ tab[t].phase = "open" /\ tab[t].nk # NoKey /\ ~tab[t].entered
    /\ new.shown /\ ShownCode = TabCode(t)
    /\ tab' = [tab EXCEPT ![t].entered = TRUE]
    /\ typed' = typed \cup {TabCode(t)}
    /\ UNCHANGED <<rows, new, late, listed, store, holder, live, drawn, faults, sealed>>

(* Mutant: the key is sealed before the code was typed. *)
SendUntyped(t) ==
    /\ tab[t].mounted /\ tab[t].phase = "open" /\ tab[t].nk # NoKey /\ tab[t].send = "none" /\ holder # 0
    /\ tab' = [tab EXCEPT ![t].send = "stepup",
          ![t].bundle = [id |-> tab[t].id, ak |-> tab[t].key, nk |-> tab[t].nk, identity |-> holder]]
    /\ UNCHANGED <<rows, new, late, listed, store, holder, live, drawn, faults, typed, sealed>>

(* send, approveLink: the key is sealed for the newcomer, then a fresh     *)
(* step-up is asked for.                                                   *)
Send(t) ==
    /\ tab[t].mounted /\ tab[t].phase = "open" /\ tab[t].entered /\ tab[t].send = "none"
    /\ IF holder = 0
       THEN tab' = [tab EXCEPT ![t] = Dropped(t)] /\ Cancelled(tab[t].id)
       ELSE /\ tab' = [tab EXCEPT ![t].send = "stepup",
                 ![t].bundle = [id |-> tab[t].id, ak |-> tab[t].key, nk |-> tab[t].nk, identity |-> holder]]
            /\ UNCHANGED rows
    /\ UNCHANGED <<new, late, listed, store, holder, live, drawn, faults, typed, sealed>>

(* A cancelled step-up keeps the attempt. *)
StepUp(t) ==
    /\ tab[t].send = "stepup"
    /\ tab' \in {[tab EXCEPT ![t].send = "sent"],
                 IF tab[t].mounted THEN [tab EXCEPT ![t].send = "none"] ELSE [tab EXCEPT ![t] = Dropped(t)]}
    /\ UNCHANGED <<rows, new, late, listed, store, holder, live, drawn, faults, typed, sealed>>

(* approveLink on the server: one bundle, after the reveal. *)
Approve(t) ==
    LET row == rows[tab[t].id]
        ok  == row.on /\ row.nk # NoKey /\ row.bundle = NoBundle /\ live = {"new", "trusted"}
    IN  /\ tab[t].send = "sent"
        /\ rows' = IF ok THEN [rows EXCEPT ![tab[t].id].bundle = tab[t].bundle] ELSE rows
        /\ sealed' = sealed \cup {tab[t].bundle}
        /\ tab' = [tab EXCEPT ![t].send = IF ok THEN "stored" ELSE "refused"]
        /\ UNCHANGED <<new, late, listed, store, holder, live, drawn, faults, typed>>

(* A lost answer keeps the attempt; a refused one drops it. *)
Approved(t) ==
    /\ tab[t].send \in {"stored", "refused", "lost"}
    /\ CASE tab[t].send = "stored" -> tab' = [tab EXCEPT ![t] = Dropped(t)] /\ UNCHANGED rows
         [] tab[t].send = "lost" ->
              /\ tab' = IF tab[t].mounted THEN [tab EXCEPT ![t].send = "none"] ELSE [tab EXCEPT ![t] = Dropped(t)]
              /\ UNCHANGED rows
         [] OTHER -> tab' = [tab EXCEPT ![t] = Dropped(t)] /\ Cancelled(tab[t].id)
    /\ UNCHANGED <<new, late, listed, store, holder, live, drawn, faults, typed, sealed>>

(* Cancel and Codes differ; not while a send runs. *)
Drop(t) ==
    /\ tab[t].mounted /\ tab[t].phase = "open" /\ tab[t].send = "none"
    /\ tab' = [tab EXCEPT ![t] = Dropped(t)]
    /\ Cancelled(tab[t].id)
    /\ UNCHANGED <<new, late, listed, store, holder, live, drawn, faults, typed, sealed>>

(* Not me, on a listed request. *)
NotMe(t) ==
    \E row \in tab[t].list :
        /\ tab[t].mounted /\ tab[t].phase = "none"
        /\ Cancelled(row.id)
        /\ tab' = [tab EXCEPT ![t].list = @ \ {row}]
        /\ UNCHANGED <<new, late, listed, store, holder, live, drawn, faults, typed, sealed>>

(* Leaving the screen abandons an open attempt; a send in flight goes on   *)
(* and may have stored the bundle, so the request is then left alone.      *)
Leave(t) ==
    /\ tab[t].mounted
    /\ IF tab[t].phase = "open" /\ tab[t].send = "none"
       THEN tab' = [tab EXCEPT ![t] = [NoClaim EXCEPT !.mounted = FALSE]] /\ Cancelled(tab[t].id)
       ELSE tab' = [tab EXCEPT ![t].mounted = FALSE, ![t].list = {}] /\ UNCHANGED rows
    /\ UNCHANGED <<new, late, listed, store, holder, live, drawn, faults, typed, sealed>>

Return(t) ==
    /\ ~tab[t].mounted /\ tab[t].phase = "none"
    /\ tab' = [tab EXCEPT ![t].mounted = TRUE]
    /\ UNCHANGED <<rows, new, late, listed, store, holder, live, drawn, faults, typed, sealed>>

-----------------------------------------------------------------------------
(* Everything else. *)

(* Ten minutes pass, or the sweep deletes the row. *)
Expire(id) ==
    /\ rows[id].on
    /\ rows' = Removed(id)
    /\ UNCHANGED <<new, late, tab, listed, store, holder, live, drawn, faults, typed, sealed>>

LoseNew ==
    /\ Fault("lose")
    /\ new.phase \in {"polling", "polled", "revealing", "revealed"}
    /\ new' = IF new.phase \in {"polling", "polled"}
              THEN [new EXCEPT !.phase = "polled", !.ans = [NoAnswer EXCEPT !.code = "lost"]]
              ELSE [new EXCEPT !.phase = "revealed", !.ans = [NoAnswer EXCEPT !.code = "lost"]]
    /\ UNCHANGED <<rows, late, tab, listed, store, holder, live, drawn, typed, sealed>>

LoseTab(t) ==
    /\ Fault("lose")
    /\ tab[t].send \in {"sent", "stored"}
    /\ tab' = [tab EXCEPT ![t].send = "lost"]
    /\ UNCHANGED <<rows, new, late, listed, store, holder, live, drawn, typed, sealed>>

Revoke(session) ==
    /\ Fault("revoke")
    /\ session \in live
    /\ live' = live \ {session}
    /\ UNCHANGED <<rows, new, late, tab, listed, store, holder, drawn, typed, sealed>>

(* The account's key is replaced on another device. *)
ResetIdentity ==
    /\ listed < 1 + MaxResets
    /\ listed' = listed + 1
    /\ UNCHANGED <<rows, new, late, tab, store, holder, live, drawn, faults, typed, sealed>>

ForgetHere ==
    /\ Fault("forget")
    /\ holder' = 0
    /\ UNCHANGED <<rows, new, late, tab, listed, store, live, drawn, typed, sealed>>

(* Another tab of the newcomer's browser sets up or recovers a key.        *)
OtherTabSetsUp ==
    /\ Fault("setup")
    /\ store = 0
    /\ store' = listed + 1 + MaxResets
    /\ UNCHANGED <<rows, new, late, tab, listed, holder, live, drawn, typed, sealed>>

Init ==
    /\ rows = [id \in Ids |-> Unmade]
    /\ new = NoLink
    /\ late = {}
    /\ tab = [t \in Tabs |-> NoClaim]
    /\ listed = 1
    /\ store = 0
    /\ holder = 1
    /\ live = {"new", "trusted"}
    /\ drawn = 0
    /\ faults = 0
    /\ typed = {}
    /\ sealed = {}

Next ==
    \/ Begin \/ CreateRequest \/ LateCreate \/ Poll \/ Collect \/ PollAnswered \/ Reveal \/ RevealAnswered
    \/ CodesMatch \/ Stop \/ FinishRead \/ FinishKeep
    \/ \E t \in Tabs :
         \/ Tick(t) \/ Claim(t) \/ ClaimRequest(t) \/ ClaimAnswered(t) \/ TypeCode(t)
         \/ Send(t) \/ StepUp(t) \/ Approve(t) \/ Approved(t)
         \/ Drop(t) \/ NotMe(t) \/ Leave(t) \/ Return(t) \/ LoseTab(t)
    \/ \E id \in Ids : Expire(id)
    \/ LoseNew \/ \E s \in {"new", "trusted"} : Revoke(s)
    \/ ResetIdentity \/ ForgetHere \/ OtherTabSetsUp

(* Requests are answered, the newcomer polls every four seconds while the  *)
(* attempt lives, an open trusted screen refreshes every two, and requests *)
(* expire.  Nothing the user does is assumed.                              *)
Fairness ==
    /\ WF_vars(CreateRequest \/ Poll \/ Collect \/ PollAnswered \/ Reveal \/ RevealAnswered
               \/ FinishRead \/ FinishKeep)
    /\ \A t \in Tabs :
          /\ WF_vars(Tick(t))
          /\ WF_vars(ClaimRequest(t) \/ ClaimAnswered(t) \/ Approve(t) \/ Approved(t))
    /\ WF_vars(\E id \in Ids : Expire(id))

Spec == Init /\ [][Next]_vars /\ Fairness

-----------------------------------------------------------------------------
(* The account's key is sealed only for the browser whose code the user    *)
(* typed: whatever the relay passed on, the two one-time keys of a bundle  *)
(* are the ones that browser and that tab drew themselves (the commitment  *)
(* of revealedLink, confirmTypedCheckCode, sealLinkBundle).                *)
SealedForTyped ==
    \A b \in sealed : Code(b.id, b.ak, b.nk) \in typed /\ RelayKey \notin {b.ak, b.nk}

(* The key a link leaves in the newcomer's vault is one a trusted tab      *)
(* sealed, although the identity was reset and another key listed since    *)
(* then, which nobody sent (openLinkBundle, finishNewcomerLink).           *)
KeptIsSent ==
    store \in 1..(1 + MaxResets) => \E b \in sealed : b.identity = store

(* A browser that already keeps a key never has it replaced by a link: a   *)
(* key set up by another tab while the link ran stays                      *)
(* (finishNewcomerLink's compare-and-swap).                                *)
OwnKeyStays == [][store # 0 => store' = store]_vars

(* Every attempt on the newcomer ends, or waits only for its user: the     *)
(* poll sees the bundle, another key, or the request gone                  *)
(* (awaitLinkBundle).                                                      *)
AttemptEnds == new.phase # "off" ~> (new.phase = "off" \/ new.bundle # NoBundle)
=============================================================================
