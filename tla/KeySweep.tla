------------------------------ MODULE KeySweep ------------------------------
(***************************************************************************)
(* The key passes of stewards' browsers over the notebooks of TeamKeys: a  *)
(* pass mints the first key, mints again when the current generation has   *)
(* no envelope, and otherwise wraps the current key for members without    *)
(* it.  It gives up where the code does: on the first key of an account    *)
(* whose identity would be lost with the browser, for a steward who signed *)
(* in with KySignOn and does not press "share keys", and on a colleague's  *)
(* changed key that the user has not confirmed.                            *)
(*                                                                         *)
(* Each steward has one browser with pins.  TeamKeys' own steps stay       *)
(* possible in between: the server takes them from any other client.       *)
(***************************************************************************)
EXTENDS TeamKeys

CONSTANTS
  Sso,      \* accounts that sign in with KySignOn
  Sharers   \* stewards whose passes may write: all others, and those of Sso who press "share keys"

ASSUME SharersAssumption == Sso \subseteq Users /\ Users \ Sso \subseteq Sharers /\ Sharers \subseteq Users

VARIABLES
  changed,  \* pairs <<s, v>>: s pinned a key of v that v has since replaced
  codes     \* accounts of Sso whose present identity has a recovery copy

trust == <<changed, codes>>
sweepVars == <<vars, trust>>

-----------------------------------------------------------------------------
(* A password account uploads a wrapped copy with its identity, one of Sso  *)
(* has a copy outside its browsers once a recovery code is saved, which a   *)
(* reset always does.                                                       *)
recoverable(u) == identity[u] > 0 /\ (u \in Sso => u \in codes)

(* Mutant: only the first key is minted. *)
MintDue_First(c) == shared_generation[c] = 0

MintDue(c) == shared_generation[c] = 0 \/ EnvelopesAt(c, key_generation[c]) = {}

(* The first key waits for a recoverable identity, a later one does not.    *)
MayMint(s, c) == shared_generation[c] = 0 => recoverable(s)

HasCurrent(c, u) == EnvelopeFor(c, u, key_generation[c]) \in envelopes

(* Whom the pass would seal a key for.                                      *)
targets(s, c) ==
  {v \in Users \ {s} :
     /\ Recipient(c, v)
     /\ \/ MintDue(c)
        \/ \E g \in shared_generation[c]..key_generation[c] :
             Holds(c, s, g) /\ EnvelopeFor(c, v, g) \notin envelopes}

(* No one that the pass seals for, and no steward that may have sealed what *)
(* it opens, shows another key than the pinned one.                         *)
Trusted(s, c) ==
  \A v \in Users : <<s, v>> \in changed => v \notin targets(s, c) /\ ~isSteward(c, v)

Able(s, c) == /\ s \in Sharers /\ isSteward(c, s) /\ Recipient(c, s)
              /\ MayMint(s, c) /\ Trusted(s, c)

SweepMint(s, c) ==
  /\ MintDue(c) /\ Able(s, c)
  /\ Rotate(s, c)
  /\ UNCHANGED trust

SweepWrap(s, c, v) ==
  /\ ~MintDue(c) /\ HasCurrent(c, s) /\ ~HasCurrent(c, v) /\ Able(s, c)
  /\ PutEnvelope(s, c, v, key_generation[c])
  /\ UNCHANGED trust

-----------------------------------------------------------------------------
(* A reset: whoever had pinned the replaced key, here or through another    *)
(* notebook, finds a changed one.  The request carries a recovery copy.     *)
ResetPinned(v) ==
  /\ ResetIdentity(v)
  /\ \E S \in SUBSET (Users \ {v}) :
       changed' = IF identity[v] = 0 THEN changed ELSE changed \cup (S \X {v})
  /\ codes' = codes \cup ({v} \cap Sso)

(* Every other step of TeamKeys: an identity changes by its creation only.  *)
OtherStep ==
  /\ Next
  /\ identity' # identity => \E u \in Users : CreateIdentity(u)
  /\ UNCHANGED trust

(* confirmChanged answered Yes: s pins the key that v has now.              *)
ConfirmChange(s, v) ==
  /\ <<s, v>> \in changed
  /\ \E c \in Containers : memberTx(c, s) /\ Live(c, v)
  /\ changed' = changed \ {<<s, v>>}
  /\ UNCHANGED <<vars, codes>>

(* PUT /me/identity/recovery for an identity without a recovery copy. *)
SaveCode(u) ==
  /\ u \in Sso \ codes /\ identity[u] > 0
  /\ codes' = codes \cup {u}
  /\ UNCHANGED <<vars, changed>>

SweepInit == Init /\ changed = {} /\ codes = {}

SweepNext ==
  \/ OtherStep
  \/ \E v \in Users : ResetPinned(v)
  \/ \E s, v \in Users : ConfirmChange(s, v)
  \/ \E u \in Users : SaveCode(u)

(* Every notebook's stewards, together, open it again and again; those of   *)
(* Sso that count press "share keys".  No one has to confirm a changed key  *)
(* or save a recovery code.                                                 *)
FairSpec ==
  /\ SweepInit /\ [][SweepNext]_sweepVars
  /\ \A c \in Containers : /\ WF_sweepVars(\E s \in Users : SweepMint(s, c))
                           /\ WF_sweepVars(\E s, v \in Users : SweepWrap(s, c, v))

-----------------------------------------------------------------------------
(* u lacks the current key of c although some steward's pass could write,   *)
(* and one that can also has the key if any steward has it.                 *)
Waiting(c, u) ==
  /\ status[c] = "live" /\ Recipient(c, u) /\ ~HasCurrent(c, u)
  /\ \E s \in Users : Able(s, c)
  /\ (\E s \in Users : isSteward(c, s) /\ HasCurrent(c, s))
       => \E s \in Users : Able(s, c) /\ HasCurrent(c, s)

(* Every approved member with an identity gets the current key, also after  *)
(* removals, resets and races between stewards, unless every pass that      *)
(* could give it gives up: no notebook is left with a current key that      *)
(* none of its stewards holds.                                              *)
KeysArrive == \A c \in Containers, u \in Users : []<>~Waiting(c, u)
=============================================================================
