--------------------------- MODULE TeamKeysProofs ---------------------------
(***************************************************************************)
(* TLAPS proofs about TeamKeys, for any users, notebooks and invitations   *)
(* and any bounds.                                                         *)
(***************************************************************************)
EXTENDS TeamKeys, TLAPS

USE ParentAssumption, NobodyAssumption, RolesAssumption, BoundsAssumption

Pending == [InvitationIds -> Invitation \cup {NoInvitation}]

(* Dropping envelopes leaves well-typed invitations, and each one that      *)
(* remains differs from what it was in its envelopes only.                  *)
LEMMA DropOldType ==
  ASSUME NEW invs \in Pending, NEW S, NEW gen
  PROVE  /\ DropOldEnvelopes(invs, S, gen) \in Pending
         /\ \A i \in InvitationIds :
              LET new == DropOldEnvelopes(invs, S, gen)[i]
              IN new # NoInvitation =>
                   /\ invs[i] # NoInvitation
                   /\ new.container = invs[i].container /\ new.inviter = invs[i].inviter
                   /\ new.envelopes \subseteq invs[i].envelopes
  <1> DEFINE new(i) == IF invs[i] = NoInvitation THEN NoInvitation
                       ELSE [invs[i] EXCEPT !.envelopes =
                               {e \in @ : ~(e.container \in S /\ e.generation < gen[e.container])}]
  <1>1. ASSUME NEW i \in InvitationIds, invs[i] # NoInvitation
        PROVE  /\ new(i) \in Invitation
               /\ new(i).container = invs[i].container /\ new(i).inviter = invs[i].inviter
               /\ new(i).envelopes \subseteq invs[i].envelopes
    <2>1. invs[i] \in Invitation
      BY <1>1 DEF Pending
    <2> QED BY <1>1, <2>1 DEF Invitation
  <1>2. DropOldEnvelopes(invs, S, gen) = [i \in InvitationIds |-> new(i)]
    BY DEF DropOldEnvelopes
  <1>3. \A i \in InvitationIds : new(i) \in Invitation \cup {NoInvitation}
    BY <1>1
  <1> HIDE DEF new
  <1>4. DropOldEnvelopes(invs, S, gen) \in Pending
    BY <1>2, <1>3 DEF Pending
  <1>5. ASSUME NEW i \in InvitationIds, new(i) # NoInvitation
        PROVE  /\ invs[i] # NoInvitation
               /\ new(i).container = invs[i].container /\ new(i).inviter = invs[i].inviter
               /\ new(i).envelopes \subseteq invs[i].envelopes
    BY <1>1, <1>5 DEF new
  <1> QED BY <1>2, <1>4, <1>5

(* An envelope for a user with an identity is well-typed.                   *)
LEMMA EnvelopeType ==
  ASSUME TypeOK, NEW c \in Containers, NEW u \in Users, NEW g \in Nat \ {0}, identity[u] > 0
  PROVE  EnvelopeFor(c, u, g) \in Envelope
  BY DEF TypeOK, EnvelopeFor, Envelope

(* The rows that the server inserts are membership rows.                    *)
LEMMA RowTypes ==
  /\ NoRow \in MemberRow
  /\ [NoRow EXCEPT !.live = TRUE, !.role = "owner", !.approved = TRUE] \in MemberRow
  /\ \A role \in AddRoles :
       /\ [live |-> TRUE, role |-> "viewer", approved |-> FALSE,
           invited_by |-> Nobody, pending_role |-> role] \in MemberRow
  /\ \A role \in Roles, s \in Users :
       [live |-> TRUE, role |-> role, approved |-> TRUE,
        invited_by |-> s, pending_role |-> "none"] \in MemberRow
  BY RolesAssumption DEF NoRow, MemberRow, Roles

(* admitMemberTx writes one row per live notebook of the scope.             *)
LEMMA AdmitType ==
  ASSUME TypeOK, NEW c \in Containers, NEW u \in Users, NEW row \in MemberRow,
         admitMemberTx(c, u, row)
  PROVE  member' \in [Containers -> [Users -> MemberRow]]
  BY DEF TypeOK, admitMemberTx

(* The initial state has its types. *)
LEMMA TypeInit == Init => TypeOK
  BY RowTypes DEF Init, TypeOK

(* Steps on keys and identities keep the types.                             *)
LEMMA KeyStepType == TypeOK /\ KeyStep => TypeOK'
  <1> SUFFICES ASSUME TypeOK, KeyStep PROVE TypeOK'
    OBVIOUS
  <1> USE DEF keys
  <1>1. ASSUME NEW u \in Users, NEW c \in Containers, Rotate(u, c) PROVE TypeOK'
    <2> DEFINE next == key_generation[c] + 1
               new == {EnvelopeFor(c, v, next) : v \in {w \in Users : Recipient(c, w)}}
    <2>1. next \in Nat \ {0}
      BY DEF TypeOK
    <2>2. new \subseteq Envelope
      BY <2>1, EnvelopeType DEF Recipient
    <2>3. key_generation' \in [Containers -> Nat \ {0}] /\ shared_generation' \in [Containers -> Nat]
      BY <1>1, <2>1 DEF Rotate, TypeOK
    <2>4. invitations' \in Pending
      BY <1>1, DropOldType DEF Rotate, TypeOK, Pending
    <2>5. envelopes' \subseteq Envelope /\ held' \subseteq Envelope
      BY <1>1, <2>2 DEF Rotate, Serve, TypeOK
    <2> QED BY <1>1, <2>3, <2>4, <2>5 DEF Rotate, TypeOK, Pending
  <1>2. ASSUME NEW u \in Users, NEW v \in Users, NEW c \in Containers,
               NEW g \in 1..key_generation[c], PutEnvelope(u, c, v, g) PROVE TypeOK'
    <2>1. EnvelopeFor(c, v, g) \in Envelope
      BY <1>2, EnvelopeType DEF PutEnvelope, Recipient, TypeOK
    <2> QED BY <1>2, <2>1 DEF PutEnvelope, Serve, TypeOK
  <1>3. ASSUME NEW u \in Users, CreateIdentity(u) PROVE TypeOK'
    BY <1>3 DEF CreateIdentity, TypeOK
  <1>4. ASSUME NEW u \in Users, ResetIdentity(u) PROVE TypeOK'
    <2>1. identity' \in [Users -> Nat]
      BY <1>4 DEF ResetIdentity, TypeOK
    <2>2. key_generation' \in [Containers -> Nat \ {0}]
      BY <1>4 DEF ResetIdentity, TypeOK
    <2>3. envelopes' \subseteq Envelope
      BY <1>4 DEF ResetIdentity, TypeOK, Forget
    <2>4. invitations' \in Pending
      <3> DEFINE current == DropOldEnvelopes(invitations,
                   {c \in Containers : Live(c, u) /\ member[c][u].approved}, key_generation')
      <3>1. current \in Pending
        BY DropOldType DEF TypeOK, Pending
      <3>2. invitations' = [i \in InvitationIds |->
                             IF current[i] = NoInvitation THEN NoInvitation
                             ELSE [current[i] EXCEPT !.envelopes = Forget(@, u)]]
        BY <1>4 DEF ResetIdentity
      <3> HIDE DEF current
      <3>3. ASSUME NEW i \in InvitationIds, current[i] # NoInvitation
            PROVE  [current[i] EXCEPT !.envelopes = Forget(@, u)] \in Invitation
        <4>1. current[i] \in Invitation
          BY <3>1, <3>3 DEF Pending
        <4> QED BY <4>1 DEF Invitation, Forget
      <3> QED BY <3>2, <3>3 DEF Pending
    <2> QED BY <1>4, <2>1, <2>2, <2>3, <2>4 DEF ResetIdentity, TypeOK, Pending
  <1> QED BY <1>1, <1>2, <1>3, <1>4 DEF KeyStep
(* removeMemberTx keeps the types.                                          *)
LEMMA RemoveType ==
  ASSUME TypeOK, NEW c \in Containers, NEW u \in Users, removeMemberTx(c, u)
  PROVE  TypeOK'
  <1>1. member' \in [Containers -> [Users -> MemberRow]]
    BY RowTypes DEF removeMemberTx, TypeOK
  <1>2. key_generation' \in [Containers -> Nat \ {0}]
    BY DEF removeMemberTx, TypeOK
  <1>3. Withdraw(Scope(c), u) \in Pending
    BY DEF Withdraw, TypeOK, Pending
  <1>4. invitations' \in Pending
    BY <1>3, DropOldType DEF removeMemberTx
  <1>5. envelopes' \subseteq Envelope /\ owner_user_id' \in [Containers -> Users \cup {Nobody}]
    BY DEF removeMemberTx, EnvelopesWithout, TypeOK
  <1> QED BY <1>1, <1>2, <1>4, <1>5 DEF removeMemberTx, TypeOK, Pending

(* Steps on notebooks, members and invitations keep the types.              *)
LEMMA MemberStepType == TypeOK /\ MemberStep => TypeOK'
  <1> SUFFICES ASSUME TypeOK, MemberStep PROVE TypeOK'
    OBVIOUS
  <1> USE DEF keys
  <1>1. ASSUME NEW u \in Users, NEW c \in Containers, CreateContainer(u, c) PROVE TypeOK'
    <2>1. member' \in [Containers -> [Users -> MemberRow]]
      <3>1. CASE parent[c] = NoTeam
        BY <1>1, <3>1, RowTypes DEF CreateContainer, TypeOK
      <3>2. CASE parent[c] # NoTeam
        <4>1. parent[c] \in Containers
          BY <3>2
        <4> QED BY <1>1, <3>2, <4>1, RowTypes DEF CreateContainer, TypeOK
      <3> QED BY <3>1, <3>2
    <2> QED BY <1>1, <2>1 DEF CreateContainer, TypeOK
  <1>2. ASSUME NEW u \in Users, NEW c \in Containers, DeleteContainer(u, c) PROVE TypeOK'
    BY <1>2 DEF DeleteContainer, TypeOK
  <1>3. ASSUME NEW u \in Users, NEW c \in Containers, NEW role \in AddRoles, AdminAdd(c, u, role)
        PROVE  TypeOK'
    <2>1. member' \in [Containers -> [Users -> MemberRow]]
      BY <1>3, RowTypes, AdmitType DEF AdminAdd
    <2> QED BY <1>3, <2>1 DEF AdminAdd, TypeOK
  <1>4. ASSUME NEW s \in Users, NEW u \in Users, NEW c \in Containers, Approve(s, c, u) PROVE TypeOK'
    <2>1. ASSUME NEW d \in Containers
          PROVE  ApprovedRow(member[d][u]) \in MemberRow
      <3>1. member[d][u] \in MemberRow
        BY DEF TypeOK
      <3> QED BY <3>1 DEF MemberRow, ApprovedRow
    <2>2. member' \in [Containers -> [Users -> MemberRow]]
      BY <1>4, <2>1 DEF Approve, TypeOK
    <2> QED BY <1>4, <2>2 DEF Approve, TypeOK
  <1>5. ASSUME NEW s \in Users, NEW u \in Users, NEW c \in Containers, NEW role \in InviteRoles,
               NEW i \in InvitationIds, NEW K \in SUBSET LiveScope(c), Invite(s, c, u, role, i, K)
        PROVE  TypeOK'
    <2> DEFINE es == {EnvelopeFor(d, u, key_generation[d]) : d \in K}
    <2>1. ASSUME NEW d \in K PROVE EnvelopeFor(d, u, key_generation[d]) \in Envelope
      <3>1. d \in Containers /\ key_generation[d] \in Nat \ {0} /\ identity[u] > 0
        BY <1>5 DEF Invite, LiveScope, Scope, TypeOK
      <3> QED BY <3>1, EnvelopeType
    <2>2. es \subseteq Envelope
      BY <2>1
    <2> HIDE DEF es
    <2>3. [container |-> c, inviter |-> s, invitee |-> u, role |-> role, envelopes |-> es] \in Invitation
      BY <2>2 DEF Invitation, Roles
    <2>4. invitations' \in Pending
      BY <1>5, <2>3 DEF Invite, TypeOK, Pending, es
    <2> QED BY <1>5, <2>4 DEF Invite, TypeOK, Pending
  <1>6. ASSUME NEW i \in InvitationIds, Accept(i) PROVE TypeOK'
    <2>1. invitations[i] \in Invitation
      BY <1>6 DEF Accept, TypeOK
    <2>2. /\ invitations[i].container \in Containers /\ invitations[i].invitee \in Users
          /\ invitations[i].inviter \in Users /\ invitations[i].role \in Roles
          /\ invitations[i].envelopes \subseteq Envelope
      BY <2>1 DEF Invitation
    <2>3. member' \in [Containers -> [Users -> MemberRow]]
      BY <1>6, <2>2, RowTypes, AdmitType DEF Accept
    <2>4. Movable(invitations[i]) \subseteq Envelope
      BY <2>2 DEF Movable
    <2> QED BY <1>6, <2>3, <2>4 DEF Accept, Serve, TypeOK
  <1>7. ASSUME NEW i \in InvitationIds, Expire(i) PROVE TypeOK'
    BY <1>7 DEF Expire, TypeOK
  <1>8. ASSUME NEW s \in Users, NEW u \in Users, NEW c \in Containers, RemoveMember(s, c, u) PROVE TypeOK'
    BY <1>8, RemoveType DEF RemoveMember
  <1>9. ASSUME NEW u \in Users, NEW c \in Containers, AdminRemove(c, u) PROVE TypeOK'
    BY <1>9, RemoveType DEF AdminRemove
  <1> QED BY <1>1, <1>2, <1>3, <1>4, <1>5, <1>6, <1>7, <1>8, <1>9 DEF MemberStep

(* Saves keep the types, and change nothing but saves and written.          *)
LEMMA SaveStepFrame ==
  ASSUME TypeOK, SaveStep
  PROVE  /\ TypeOK'
         /\ UNCHANGED <<status, keys, owner_user_id, member, identity, envelopes, invitations, held>>
  <1> USE DEF keys
  <1>1. ASSUME NEW u \in Users, NEW c \in Containers, BeginSave(u, c)
        PROVE  /\ TypeOK'
               /\ UNCHANGED <<status, keys, owner_user_id, member, identity, envelopes, invitations, held>>
    <2>1. [user |-> u, container |-> c, generation |-> key_generation[c]] \in Save
      BY DEF TypeOK, Save
    <2> QED BY <1>1, <2>1 DEF BeginSave, TypeOK
  <1>2. ASSUME NEW s \in saves, CommitSave(s)
        PROVE  /\ TypeOK'
               /\ UNCHANGED <<status, keys, owner_user_id, member, identity, envelopes, invitations, held>>
    <2>1. [container |-> s.container, generation |-> s.generation] \in Written
      BY DEF TypeOK, Save, Written
    <2> QED BY <1>2, <2>1 DEF CommitSave, TypeOK
  <1>3. ASSUME NEW s \in saves, RefuseSave(s)
        PROVE  /\ TypeOK'
               /\ UNCHANGED <<status, keys, owner_user_id, member, identity, envelopes, invitations, held>>
    BY <1>3 DEF RefuseSave, TypeOK
  <1> QED BY <1>1, <1>2, <1>3 DEF SaveStep

(* Every step keeps the types.                                              *)
LEMMA TypeStep == TypeOK /\ [Next]_vars => TypeOK'
  <1>1. TypeOK /\ UNCHANGED vars => TypeOK'
    BY DEF vars, keys, TypeOK
  <1> QED BY <1>1, KeyStepType, MemberStepType, SaveStepFrame DEF Next

(* Memberships, generations, envelopes, invitations and saves always have   *)
(* the shape of the schema's rows, whatever the order of the requests.      *)
THEOREM KeyTypes == Spec => []TypeOK
  BY TypeInit, TypeStep, PTL DEF Spec

-----------------------------------------------------------------------------
(* Nothing has been served, invited or written at first.                    *)
LEMMA KeyInvInit == Init => KeyInv
  <1> SUFFICES ASSUME Init PROVE KeyInv
    OBVIOUS
  <1>1. StewardsApproved
    BY DEF Init, StewardsApproved, isSteward, Live, NoRow
  <1> QED BY <1>1, TypeInit DEF Init, KeyInv, HeldIsMinted, InvitationsInScope,
             CurrentKeyHolders, EnvelopesEntitled, InviterIsSteward
(* Every invitation still pending was pending before, with the same         *)
(* notebook and inviter and no new envelope.                                *)
InvitationsShrink ==
  \A i \in InvitationIds : invitations'[i] # NoInvitation =>
    /\ invitations[i] # NoInvitation
    /\ invitations'[i].container = invitations[i].container
    /\ invitations'[i].inviter = invitations[i].inviter
    /\ invitations'[i].envelopes \subseteq invitations[i].envelopes

(* Invitations stay in scope while they only shrink and no notebook that    *)
(* exists disappears.                                                       *)
LEMMA ShrinkInScope ==
  ASSUME TypeOK, InvitationsInScope, InvitationsShrink,
         \A c \in Containers : status[c] # "absent" => status'[c] # "absent"
  PROVE  InvitationsInScope'
  <1> SUFFICES ASSUME NEW i \in InvitationIds, invitations'[i] # NoInvitation
               PROVE  /\ status'[invitations'[i].container] # "absent"
                      /\ \A e \in invitations'[i].envelopes : e.container \in Scope(invitations'[i].container)
    BY DEF InvitationsInScope, Scope
  <1>1. invitations[i] # NoInvitation /\ invitations[i] \in Invitation
    BY DEF InvitationsShrink, TypeOK
  <1>2. invitations[i].container \in Containers
    BY <1>1 DEF Invitation
  <1> QED BY <1>1, <1>2 DEF InvitationsShrink, InvitationsInScope

(* The row of u in c after the step is a steward's.                         *)
StewardNext(c, u) == member'[c][u].live /\ member'[c][u].role \in {"owner", "admin"}

(* Invitations whose inviter is a steward keep one while they only shrink   *)
(* and no steward steps down.                                               *)
LEMMA ShrinkInviter ==
  ASSUME TypeOK, InviterIsSteward, InvitationsShrink,
         \A i \in InvitationIds : invitations'[i] # NoInvitation =>
           (isSteward(invitations[i].container, invitations[i].inviter)
              => StewardNext(invitations[i].container, invitations[i].inviter))
  PROVE  InviterIsSteward'
  <1> SUFFICES ASSUME NEW i \in InvitationIds, invitations'[i] # NoInvitation
               PROVE  StewardNext(invitations'[i].container, invitations'[i].inviter)
    BY DEF InviterIsSteward, isSteward, Live, StewardNext
  <1> QED BY DEF InvitationsShrink, InviterIsSteward

(* Dropping envelopes shrinks invitations.                                  *)
LEMMA DropOldShrinks ==
  ASSUME TypeOK, NEW S, NEW gen, invitations' = DropOldEnvelopes(invitations, S, gen)
  PROVE  InvitationsShrink
  <1>1. invitations \in Pending
    BY DEF TypeOK, Pending
  <1> QED BY <1>1, DropOldType DEF InvitationsShrink

(* A rotation serves the new key to the members it was minted for and moves *)
(* the generation past every key that was served before.                    *)
LEMMA RotateKeeps ==
  ASSUME KeyInv, TypeOK', NEW u \in Users, NEW c \in Containers, Rotate(u, c)
  PROVE  KeyInv'
  <1> USE DEF keys
  <1> DEFINE next == key_generation[c] + 1
             new == {EnvelopeFor(c, v, next) : v \in {w \in Users : Recipient(c, w)}}
  <1>1. /\ TypeOK /\ next \in Nat \ {0} /\ key_generation[c] < next
        /\ key_generation \in [Containers -> Nat \ {0}] /\ held \subseteq Envelope
    BY DEF KeyInv, TypeOK
  <1>2. /\ envelopes' = envelopes \cup new /\ held' = held \cup new
        /\ key_generation' = [key_generation EXCEPT ![c] = next]
        /\ shared_generation' = [shared_generation EXCEPT ![c] = IF @ = 0 THEN next ELSE @]
        /\ UNCHANGED <<status, member, identity, saves, written, owner_user_id>>
    BY DEF Rotate, Serve
  <1>3. \A e \in new : /\ e.container = c /\ e.generation = next /\ e.user \in Users
                       /\ Live(c, e.user) /\ member[c][e.user].approved /\ e.identity = identity[e.user]
    BY DEF EnvelopeFor, Recipient
  <1>4. status[c] = "live"
    BY DEF Rotate, memberTx
  <1> HIDE DEF new, next
  <1>5. \A e \in held : e.container \in Containers /\ e.generation \in Nat
    BY <1>1 DEF Envelope
  <1>6. HeldIsMinted'
    <2>1. \A d \in Containers : shared_generation[d] > 0 => shared_generation'[d] > 0
      BY <1>1, <1>2 DEF TypeOK
    <2>2. shared_generation'[c] > 0
      BY <1>1, <1>2 DEF TypeOK
    <2>3. ASSUME NEW e \in held
          PROVE  /\ status'[e.container] # "absent" /\ shared_generation'[e.container] > 0
                 /\ e.generation <= key_generation'[e.container]
      <3>1. /\ status[e.container] # "absent" /\ shared_generation[e.container] > 0
            /\ e.generation <= key_generation[e.container]
        BY DEF KeyInv, HeldIsMinted
      <3> QED BY <1>1, <1>2, <1>5, <2>1, <3>1
    <2>4. ASSUME NEW e \in new
          PROVE  /\ status'[e.container] # "absent" /\ shared_generation'[e.container] > 0
                 /\ e.generation <= key_generation'[e.container]
      BY <1>1, <1>2, <1>3, <1>4, <2>2
    <2> QED BY <1>2, <2>3, <2>4 DEF KeyInv, HeldIsMinted
  <1>7. CurrentKeyHolders'
    <2>1. ASSUME NEW e \in held, status'[e.container] = "live",
                 e.generation = key_generation'[e.container]
          PROVE  Entitled(e)
      <3>1. e.generation <= key_generation[e.container]
        BY DEF KeyInv, HeldIsMinted
      <3>2. e.container # c
        BY <1>1, <1>2, <1>5, <2>1, <3>1
      <3> QED BY <1>1, <1>2, <1>5, <2>1, <3>2 DEF KeyInv, CurrentKeyHolders
    <2> QED BY <1>2, <1>3, <2>1 DEF CurrentKeyHolders, Entitled, Live
  <1>8. EnvelopesEntitled'
    BY <1>2, <1>3 DEF KeyInv, EnvelopesEntitled, Entitled, Live
  <1>9. InvitationsShrink
    BY <1>1, DropOldShrinks DEF Rotate
  <1>10. InvitationsInScope'
    BY <1>1, <1>2, <1>9, ShrinkInScope DEF KeyInv
  <1>11. InviterIsSteward'
    BY <1>1, <1>2, <1>9, ShrinkInviter DEF KeyInv, isSteward, Live, StewardNext
  <1>12. StewardsApproved'
    BY <1>2 DEF KeyInv, StewardsApproved, isSteward, Live
  <1> QED BY <1>6, <1>7, <1>8, <1>10, <1>11, <1>12 DEF KeyInv

(* A wrapped key goes to an approved member's present identity.             *)
LEMMA PutEnvelopeKeeps ==
  ASSUME KeyInv, TypeOK', NEW u \in Users, NEW v \in Users, NEW c \in Containers,
         NEW g \in 1..key_generation[c], PutEnvelope(u, c, v, g)
  PROVE  KeyInv'
  <1> DEFINE new == EnvelopeFor(c, v, g)
  <1>1. /\ envelopes' = envelopes \cup {new} /\ held' = held \cup {new}
        /\ UNCHANGED <<status, key_generation, shared_generation, member, identity, invitations>>
    BY DEF PutEnvelope, Serve, keys
  <1>2. /\ new.container = c /\ new.generation = g /\ new.user = v /\ new.identity = identity[v]
        /\ Live(c, v) /\ member[c][v].approved /\ status[c] = "live"
        /\ shared_generation[c] > 0 /\ g <= key_generation[c]
    BY DEF PutEnvelope, EnvelopeFor, Recipient, memberTx
  <1> HIDE DEF new
  <1>3. HeldIsMinted'
    BY <1>1, <1>2 DEF KeyInv, HeldIsMinted
  <1>4. CurrentKeyHolders' /\ EnvelopesEntitled'
    BY <1>1, <1>2 DEF KeyInv, CurrentKeyHolders, EnvelopesEntitled, Entitled, Live
  <1>5. InvitationsInScope' /\ InviterIsSteward' /\ StewardsApproved'
    BY <1>1 DEF KeyInv, InvitationsInScope, InviterIsSteward, StewardsApproved, isSteward, Live, Scope
  <1> QED BY <1>3, <1>4, <1>5 DEF KeyInv

(* A first identity has been given nothing.                                 *)
LEMMA CreateIdentityKeeps ==
  ASSUME KeyInv, TypeOK', NEW u \in Users, CreateIdentity(u)
  PROVE  KeyInv'
  <1>1. /\ identity[u] = 0 /\ identity' = [identity EXCEPT ![u] = 1]
        /\ UNCHANGED <<status, key_generation, shared_generation, member, envelopes, held, invitations>>
    BY DEF CreateIdentity, keys
  <1>2. \A e \in Envelope : Entitled(e) => Entitled(e)'
    <2> SUFFICES ASSUME NEW e \in Envelope, Entitled(e) PROVE Entitled(e)'
      OBVIOUS
    <2>1. e.user # u /\ e.user \in Users
      BY <1>1 DEF Entitled, Envelope
    <2> QED BY <1>1, <2>1 DEF Entitled, Live, KeyInv, TypeOK
  <1>3. envelopes \subseteq Envelope /\ held \subseteq Envelope
    BY DEF KeyInv, TypeOK
  <1>4. CurrentKeyHolders' /\ EnvelopesEntitled'
    BY <1>1, <1>2, <1>3 DEF KeyInv, CurrentKeyHolders, EnvelopesEntitled
  <1>5. HeldIsMinted' /\ InvitationsInScope' /\ InviterIsSteward' /\ StewardsApproved'
    BY <1>1 DEF KeyInv, HeldIsMinted, InvitationsInScope, InviterIsSteward, StewardsApproved,
                isSteward, Live, Scope
  <1> QED BY <1>4, <1>5 DEF KeyInv
(* A reset takes the old identity's envelopes away and moves every notebook *)
(* whose current key it may have to a generation it was never served.       *)
LEMMA ResetIdentityKeeps ==
  ASSUME KeyInv, TypeOK', NEW u \in Users, ResetIdentity(u)
  PROVE  KeyInv'
  <1> DEFINE scope == {c \in Containers : Live(c, u) /\ member[c][u].approved}
             current == DropOldEnvelopes(invitations, scope, key_generation')
  <1>1. /\ TypeOK /\ held \subseteq Envelope /\ envelopes \subseteq held
        /\ key_generation \in [Containers -> Nat \ {0}] /\ identity \in [Users -> Nat]
    BY DEF KeyInv, TypeOK, HeldIsMinted
  <1>2. /\ identity' = [identity EXCEPT ![u] = @ + 1]
        /\ key_generation' = [c \in Containers |->
             IF c \in Retired(u) THEN key_generation[c] + 1 ELSE key_generation[c]]
        /\ envelopes' = {e \in envelopes : e.user # u}
        /\ UNCHANGED <<status, shared_generation, member, held>>
    BY DEF ResetIdentity, Forget
  <1>3. \A e \in held : /\ e.container \in Containers /\ e.generation \in Nat /\ e.user \in Users
                        /\ status[e.container] # "absent" /\ shared_generation[e.container] > 0
                        /\ e.generation <= key_generation[e.container]
    BY <1>1 DEF Envelope, KeyInv, HeldIsMinted
  <1>4. HeldIsMinted'
    BY <1>1, <1>2, <1>3 DEF HeldIsMinted
  <1>5. \A e \in held : e.user # u /\ Entitled(e) => Entitled(e)'
    BY <1>1, <1>2, <1>3 DEF Entitled, Live
  <1>6. CurrentKeyHolders'
    <2> SUFFICES ASSUME NEW e \in held, status[e.container] = "live",
                        e.generation = key_generation'[e.container]
                 PROVE  Entitled(e)'
      BY <1>2 DEF CurrentKeyHolders
    <2>1. e.container \notin Retired(u) /\ e.generation = key_generation[e.container]
      BY <1>1, <1>2, <1>3
    <2>2. Entitled(e)
      BY <2>1 DEF KeyInv, CurrentKeyHolders
    <2>3. e.user # u
      BY <1>3, <2>1, <2>2 DEF Entitled, Retired
    <2> QED BY <1>5, <2>2, <2>3
  <1>7. EnvelopesEntitled'
    BY <1>1, <1>2, <1>5 DEF KeyInv, EnvelopesEntitled
  <1>8. InvitationsShrink
    <2>1. invitations' = [i \in InvitationIds |->
                            IF current[i] = NoInvitation THEN NoInvitation
                            ELSE [current[i] EXCEPT !.envelopes = Forget(@, u)]]
      BY DEF ResetIdentity
    <2>2. invitations \in Pending
      BY <1>1 DEF TypeOK, Pending
    <2>3. /\ current \in Pending
          /\ \A i \in InvitationIds : current[i] # NoInvitation =>
               /\ invitations[i] # NoInvitation
               /\ current[i].container = invitations[i].container
               /\ current[i].inviter = invitations[i].inviter
               /\ current[i].envelopes \subseteq invitations[i].envelopes
      <3> HIDE DEF scope
      <3> QED BY <2>2, DropOldType
    <2> HIDE DEF current
    <2>4. ASSUME NEW i \in InvitationIds, invitations'[i] # NoInvitation
          PROVE  /\ current[i] # NoInvitation
                 /\ invitations'[i].container = current[i].container
                 /\ invitations'[i].inviter = current[i].inviter
                 /\ invitations'[i].envelopes \subseteq current[i].envelopes
      <3>1. current[i] # NoInvitation /\ invitations'[i] = [current[i] EXCEPT !.envelopes = Forget(@, u)]
        BY <2>1, <2>4
      <3>2. current[i] \in Invitation
        BY <2>3, <3>1 DEF Pending
      <3> QED BY <3>1, <3>2 DEF Invitation, Forget
    <2> QED BY <2>3, <2>4 DEF InvitationsShrink
  <1>9. InvitationsInScope'
    BY <1>1, <1>2, <1>8, ShrinkInScope DEF KeyInv
  <1>10. InviterIsSteward'
    BY <1>1, <1>2, <1>8, ShrinkInviter DEF KeyInv, isSteward, Live, StewardNext
  <1>11. StewardsApproved'
    BY <1>2 DEF KeyInv, StewardsApproved, isSteward, Live
  <1> QED BY <1>4, <1>6, <1>7, <1>9, <1>10, <1>11 DEF KeyInv

(* A new notebook has no envelopes and no invitations, and its stewards are *)
(* its creator or those of its team.                                        *)
LEMMA CreateContainerKeeps ==
  ASSUME KeyInv, TypeOK', NEW u \in Users, NEW c \in Containers, CreateContainer(u, c)
  PROVE  KeyInv'
  <1>1. /\ TypeOK /\ held \subseteq Envelope /\ envelopes \subseteq held
        /\ status[c] = "absent" /\ status' = [status EXCEPT ![c] = "live"]
        /\ UNCHANGED <<key_generation, shared_generation, identity, envelopes, held, invitations>>
    BY DEF KeyInv, TypeOK, HeldIsMinted, CreateContainer, keys
  <1>2. \A d \in Containers : d # c => member'[d] = member[d] /\ status'[d] = status[d]
    BY <1>1 DEF CreateContainer, TypeOK
  <1>3. \A e \in held : e.container \in Containers \ {c}
    BY <1>1 DEF KeyInv, HeldIsMinted, Envelope
  <1>4. \A i \in InvitationIds : invitations[i] # NoInvitation =>
          /\ invitations[i].container \in Containers \ {c}
    BY <1>1 DEF KeyInv, InvitationsInScope, TypeOK, Invitation
  <1>5. HeldIsMinted'
    BY <1>1, <1>2, <1>3 DEF KeyInv, HeldIsMinted
  <1>6. CurrentKeyHolders' /\ EnvelopesEntitled'
    BY <1>1, <1>2, <1>3 DEF KeyInv, CurrentKeyHolders, EnvelopesEntitled, Entitled, Live
  <1>7. InvitationsInScope' /\ InviterIsSteward'
    BY <1>1, <1>2, <1>4 DEF KeyInv, InvitationsInScope, InviterIsSteward, isSteward, Live, Scope
  <1>8. StewardsApproved'
    <2>1. ASSUME NEW v \in Users, StewardNext(c, v) PROVE member'[c][v].approved
      <3>1. CASE parent[c] = NoTeam
        BY <1>1, <2>1, <3>1 DEF CreateContainer, TypeOK, StewardNext, NoRow
      <3>2. CASE parent[c] # NoTeam
        <4>1. /\ parent[c] \in Containers
              /\ member'[c][v] = IF Live(parent[c], v) THEN member[parent[c]][v] ELSE NoRow
          BY <1>1, <3>2 DEF CreateContainer, TypeOK
        <4> QED BY <2>1, <4>1 DEF KeyInv, StewardsApproved, isSteward, Live, NoRow, StewardNext
      <3> QED BY <3>1, <3>2
    <2> QED BY <1>2, <2>1 DEF KeyInv, StewardsApproved, isSteward, Live, StewardNext
  <1> QED BY <1>5, <1>6, <1>7, <1>8 DEF KeyInv

(* A deletion gives nobody anything.                                        *)
LEMMA DeleteContainerKeeps ==
  ASSUME KeyInv, TypeOK', NEW u \in Users, NEW c \in Containers, DeleteContainer(u, c)
  PROVE  KeyInv'
  <1>1. /\ status' = [d \in Containers |-> IF d \in LiveScope(c) THEN "deleted" ELSE status[d]]
        /\ UNCHANGED <<key_generation, shared_generation, member, identity, envelopes, held, invitations>>
    BY DEF DeleteContainer, keys
  <1>2. \A d \in Containers : /\ status[d] # "absent" => status'[d] # "absent"
                              /\ status'[d] = "live" => status[d] = "live"
    BY <1>1
  <1>3. /\ \A e \in held : e.container \in Containers
        /\ \A i \in InvitationIds : invitations[i] # NoInvitation => invitations[i].container \in Containers
    BY DEF KeyInv, TypeOK, Envelope, Invitation
  <1>4. HeldIsMinted' /\ CurrentKeyHolders' /\ EnvelopesEntitled'
    BY <1>1, <1>2, <1>3 DEF KeyInv, HeldIsMinted, CurrentKeyHolders, EnvelopesEntitled, Entitled, Live
  <1>5. InvitationsInScope' /\ InviterIsSteward' /\ StewardsApproved'
    BY <1>1, <1>2, <1>3 DEF KeyInv, InvitationsInScope, InviterIsSteward, StewardsApproved,
                            isSteward, Live, Scope
  <1> QED BY <1>4, <1>5 DEF KeyInv

(* Admitting u overwrites only rows that were not live, so nothing that was *)
(* true of live members changes.                                            *)
LEMMA AdmitFrame ==
  ASSUME TypeOK, NEW c \in Containers, NEW u \in Users, NEW row, MayAdmit(c, u),
         admitMemberTx(c, u, row)
  PROVE  /\ \A d \in Containers, v \in Users : Live(d, v) => member'[d][v] = member[d][v]
         /\ \A d \in Containers, v \in Users :
              member'[d][v] = member[d][v] \/ (v = u /\ d \in LiveScope(c) /\ member'[d][v] = row)
         /\ \A d \in LiveScope(c) : member'[d][u] = row
  <1>1. ASSUME NEW d \in Containers, d \in LiveScope(c)
        PROVE  /\ ~Live(d, u) /\ member'[d][u] = row
               /\ \A v \in Users : v # u => member'[d][v] = member[d][v]
    <2>1. member[d] \in [Users -> MemberRow] /\ member'[d] = [member[d] EXCEPT ![u] = row]
      BY <1>1 DEF TypeOK, admitMemberTx
    <2>2. ~Live(d, u)
      BY <1>1 DEF MayAdmit, LiveScope
    <2> QED BY <2>1, <2>2
  <1>2. ASSUME NEW d \in Containers, d \notin LiveScope(c) PROVE member'[d] = member[d]
    BY <1>2 DEF TypeOK, admitMemberTx
  <1>3. LiveScope(c) \subseteq Containers
    BY DEF LiveScope, Scope
  <1> QED BY <1>1, <1>2, <1>3
(* What holds of live members goes on holding of them when their rows stay. *)
LEMMA LiveRowsStay ==
  ASSUME KeyInv,
         \A d \in Containers, v \in Users : Live(d, v) => member'[d][v] = member[d][v],
         UNCHANGED <<status, key_generation, identity>>
  PROVE  /\ \A e \in Envelope : Entitled(e) => Entitled(e)'
         /\ \A d \in Containers, v \in Users : isSteward(d, v) => StewardNext(d, v)
  BY DEF Entitled, Envelope, Live, isSteward, StewardNext

(* A server administrator's add makes a viewer without keys.                *)
LEMMA AdminAddKeeps ==
  ASSUME KeyInv, TypeOK', NEW u \in Users, NEW c \in Containers, NEW role \in AddRoles,
         AdminAdd(c, u, role)
  PROVE  KeyInv'
  <1> DEFINE row == [live |-> TRUE, role |-> "viewer", approved |-> FALSE,
                     invited_by |-> Nobody, pending_role |-> role]
  <1>1. /\ TypeOK /\ MayAdmit(c, u) /\ admitMemberTx(c, u, row)
        /\ held \subseteq Envelope /\ envelopes \subseteq Envelope
        /\ UNCHANGED <<status, key_generation, shared_generation, identity, envelopes, held, invitations>>
    BY DEF AdminAdd, keys, KeyInv, TypeOK
  <1>2. row.role = "viewer"
    OBVIOUS
  <1> HIDE DEF row
  <1>3. /\ \A d \in Containers, v \in Users : Live(d, v) => member'[d][v] = member[d][v]
        /\ \A d \in Containers, v \in Users : member'[d][v] = member[d][v] \/ member'[d][v] = row
    BY <1>1, AdmitFrame
  <1>4. /\ \A e \in Envelope : Entitled(e) => Entitled(e)'
        /\ \A d \in Containers, v \in Users : isSteward(d, v) => StewardNext(d, v)
    BY <1>1, <1>3, LiveRowsStay
  <1>5. HeldIsMinted' /\ CurrentKeyHolders' /\ EnvelopesEntitled'
    BY <1>1, <1>4 DEF KeyInv, HeldIsMinted, CurrentKeyHolders, EnvelopesEntitled
  <1>6. InvitationsInScope'
    BY <1>1 DEF KeyInv, InvitationsInScope, Scope
  <1>7. InviterIsSteward'
    <2>1. \A i \in InvitationIds : invitations[i] # NoInvitation =>
            invitations[i].container \in Containers /\ invitations[i].inviter \in Users
      BY <1>1 DEF TypeOK, Invitation
    <2> QED BY <1>1, <1>4, <2>1 DEF KeyInv, InviterIsSteward, isSteward, Live, StewardNext
  <1>8. StewardsApproved'
    BY <1>2, <1>3 DEF KeyInv, StewardsApproved, isSteward, Live
  <1> QED BY <1>5, <1>6, <1>7, <1>8 DEF KeyInv

(* An approval changes the role of unapproved members only, who are no      *)
(* stewards.                                                                *)
LEMMA ApproveKeeps ==
  ASSUME KeyInv, TypeOK', NEW s \in Users, NEW u \in Users, NEW c \in Containers, Approve(s, c, u)
  PROVE  KeyInv'
  <1>1. /\ TypeOK /\ held \subseteq Envelope /\ envelopes \subseteq Envelope
        /\ UNCHANGED <<status, key_generation, shared_generation, identity, envelopes, held, invitations>>
    BY DEF Approve, keys, KeyInv, TypeOK
  <1>2. ASSUME NEW d \in Containers, NEW v \in Users
        PROVE  member'[d][v] = member[d][v] \/ (Live(d, v) /\ member'[d][v] = ApprovedRow(member[d][v]))
    BY <1>1 DEF Approve, TypeOK
  <1>3. ASSUME NEW row \in MemberRow
        PROVE  /\ ApprovedRow(row).live = row.live /\ ApprovedRow(row).approved
               /\ row.approved => ApprovedRow(row).role = row.role
    BY DEF MemberRow, ApprovedRow
  <1>4. \A d \in Containers, v \in Users : member[d][v] \in MemberRow
    BY <1>1 DEF TypeOK
  <1>5. \A d \in Containers, v \in Users :
          /\ member'[d][v].live = member[d][v].live
          /\ member[d][v].approved => member'[d][v].approved /\ member'[d][v].role = member[d][v].role
          /\ member'[d][v] = member[d][v] \/ member'[d][v].approved
    BY <1>2, <1>3, <1>4
  <1>6. \A e \in Envelope : Entitled(e) => Entitled(e)'
    BY <1>1, <1>5 DEF Entitled, Envelope, Live
  <1>7. HeldIsMinted' /\ CurrentKeyHolders' /\ EnvelopesEntitled'
    BY <1>1, <1>6 DEF KeyInv, HeldIsMinted, CurrentKeyHolders, EnvelopesEntitled
  <1>8. InvitationsInScope'
    BY <1>1 DEF KeyInv, InvitationsInScope, Scope
  <1>9. InviterIsSteward'
    <2>1. \A i \in InvitationIds : invitations[i] # NoInvitation =>
            invitations[i].container \in Containers /\ invitations[i].inviter \in Users
      BY <1>1 DEF TypeOK, Invitation
    <2>2. \A d \in Containers, v \in Users : isSteward(d, v) => StewardNext(d, v)
      BY <1>5 DEF KeyInv, StewardsApproved, isSteward, Live, StewardNext
    <2> QED BY <1>1, <2>1, <2>2 DEF KeyInv, InviterIsSteward, isSteward, Live, StewardNext
  <1>10. StewardsApproved'
    BY <1>5 DEF KeyInv, StewardsApproved, isSteward, Live
  <1> QED BY <1>7, <1>8, <1>9, <1>10 DEF KeyInv

(* A new invitation comes from a steward and carries keys of its scope.     *)
LEMMA InviteKeeps ==
  ASSUME KeyInv, TypeOK', NEW s \in Users, NEW u \in Users, NEW c \in Containers,
         NEW role \in InviteRoles, NEW i \in InvitationIds, NEW K \in SUBSET LiveScope(c),
         Invite(s, c, u, role, i, K)
  PROVE  KeyInv'
  <1> DEFINE es == {EnvelopeFor(d, u, key_generation[d]) : d \in K}
             new == [container |-> c, inviter |-> s, invitee |-> u, role |-> role, envelopes |-> es]
  <1>1. /\ TypeOK /\ isSteward(c, s) /\ status[c] = "live"
        /\ invitations' = [invitations EXCEPT ![i] = new]
        /\ UNCHANGED <<status, key_generation, shared_generation, member, identity, envelopes, held>>
    BY DEF Invite, memberTx, keys, KeyInv
  <1>2. \A e \in es : e.container \in Scope(c)
    BY DEF EnvelopeFor, LiveScope
  <1>3. new.container = c /\ new.inviter = s /\ new.envelopes = es
    OBVIOUS
  <1>4. \A j \in InvitationIds : invitations'[j] = IF j = i THEN new ELSE invitations[j]
    BY <1>1 DEF TypeOK
  <1> HIDE DEF es, new
  <1>5. HeldIsMinted' /\ CurrentKeyHolders' /\ EnvelopesEntitled' /\ StewardsApproved'
    BY <1>1 DEF KeyInv, HeldIsMinted, CurrentKeyHolders, EnvelopesEntitled, Entitled, Live,
                StewardsApproved, isSteward
  <1>6. InvitationsInScope'
    BY <1>1, <1>2, <1>3, <1>4 DEF KeyInv, InvitationsInScope, Scope
  <1>7. InviterIsSteward'
    BY <1>1, <1>3, <1>4 DEF KeyInv, InviterIsSteward, isSteward, Live
  <1> QED BY <1>5, <1>6, <1>7 DEF KeyInv

(* An acceptance installs only the envelopes that are still current, for    *)
(* the invitee who has just become an approved member of their notebooks.   *)
LEMMA AcceptKeeps ==
  ASSUME KeyInv, TypeOK', NEW i \in InvitationIds, Accept(i)
  PROVE  KeyInv'
  <1> DEFINE inv == invitations[i]
             row == [live |-> TRUE, role |-> inv.role, approved |-> TRUE,
                     invited_by |-> inv.inviter, pending_role |-> "none"]
  <1>1. /\ TypeOK /\ inv # NoInvitation /\ inv \in Invitation
        /\ held \subseteq Envelope /\ envelopes \subseteq Envelope
        /\ MayAdmit(inv.container, inv.invitee) /\ admitMemberTx(inv.container, inv.invitee, row)
        /\ envelopes' = envelopes \cup Movable(inv) /\ held' = held \cup Movable(inv)
        /\ invitations' = [invitations EXCEPT ![i] = NoInvitation]
        /\ UNCHANGED <<status, key_generation, shared_generation, identity>>
    BY DEF Accept, Serve, keys, KeyInv, TypeOK
  <1>2. inv.container \in Containers /\ inv.invitee \in Users /\ inv.envelopes \subseteq Envelope
    BY <1>1 DEF Invitation
  <1>3. row.live /\ row.approved
    OBVIOUS
  <1>4. \A e \in Movable(inv) :
          /\ e.generation = key_generation[e.container] /\ e.generation \in Nat
          /\ shared_generation[e.container] > 0 /\ e.user = inv.invitee
          /\ e.identity = identity[e.user] /\ status[e.container] = "live"
          /\ e.container \in LiveScope(inv.container)
    BY <1>1, <1>2 DEF Movable, Envelope, LiveScope, KeyInv, InvitationsInScope
  <1> HIDE DEF row, inv
  <1>5. /\ \A d \in Containers, v \in Users : Live(d, v) => member'[d][v] = member[d][v]
        /\ \A d \in Containers, v \in Users : member'[d][v] = member[d][v] \/ member'[d][v] = row
        /\ \A d \in LiveScope(inv.container) : member'[d][inv.invitee] = row
    BY <1>1, <1>2, AdmitFrame
  <1>6. /\ \A e \in Envelope : Entitled(e) => Entitled(e)'
        /\ \A d \in Containers, v \in Users : isSteward(d, v) => StewardNext(d, v)
    BY <1>1, <1>5, LiveRowsStay
  <1>7. \A e \in Movable(inv) : Entitled(e)'
    BY <1>1, <1>3, <1>4, <1>5 DEF Entitled, Live
  <1>8. HeldIsMinted'
    BY <1>1, <1>4 DEF KeyInv, HeldIsMinted
  <1>9. CurrentKeyHolders'
    BY <1>1, <1>6, <1>7 DEF KeyInv, CurrentKeyHolders
  <1>10. EnvelopesEntitled'
    BY <1>1, <1>6, <1>7 DEF KeyInv, EnvelopesEntitled
  <1>11. \A j \in InvitationIds : invitations'[j] # NoInvitation => invitations'[j] = invitations[j]
    BY <1>1 DEF TypeOK
  <1>12. InvitationsShrink
    BY <1>11 DEF InvitationsShrink
  <1>13. InvitationsInScope'
    BY <1>1, <1>12, ShrinkInScope DEF KeyInv
  <1>14. InviterIsSteward'
    <2>1. \A j \in InvitationIds : invitations[j] # NoInvitation =>
            invitations[j].container \in Containers /\ invitations[j].inviter \in Users
      BY <1>1 DEF TypeOK, Invitation
    <2> QED BY <1>1, <1>6, <1>11, <1>12, <2>1, ShrinkInviter DEF KeyInv
  <1>15. StewardsApproved'
    BY <1>3, <1>5 DEF KeyInv, StewardsApproved, isSteward, Live
  <1> QED BY <1>8, <1>9, <1>10, <1>13, <1>14, <1>15 DEF KeyInv
(* An invitation that expires only goes away.                               *)
LEMMA ExpireKeeps ==
  ASSUME KeyInv, TypeOK', NEW i \in InvitationIds, Expire(i)
  PROVE  KeyInv'
  <1>1. /\ TypeOK /\ invitations' = [invitations EXCEPT ![i] = NoInvitation]
        /\ UNCHANGED <<status, key_generation, shared_generation, member, identity, envelopes, held>>
    BY DEF Expire, keys, KeyInv
  <1>2. InvitationsShrink
    BY <1>1 DEF InvitationsShrink, TypeOK
  <1>3. InvitationsInScope'
    BY <1>1, <1>2, ShrinkInScope DEF KeyInv
  <1>4. InviterIsSteward'
    BY <1>1, <1>2, ShrinkInviter DEF KeyInv, isSteward, Live, StewardNext
  <1>5. HeldIsMinted' /\ CurrentKeyHolders' /\ EnvelopesEntitled' /\ StewardsApproved'
    BY <1>1 DEF KeyInv, HeldIsMinted, CurrentKeyHolders, EnvelopesEntitled, Entitled, Live,
                StewardsApproved, isSteward
  <1> QED BY <1>3, <1>4, <1>5 DEF KeyInv

(* A removal moves every live notebook of the scope past the keys that the  *)
(* removed member was served, and takes its envelopes and invitations.      *)
LEMMA RemoveKeeps ==
  ASSUME KeyInv, TypeOK', NEW u \in Users, NEW c \in Containers, removeMemberTx(c, u)
  PROVE  KeyInv'
  <1>1. /\ TypeOK /\ held \subseteq Envelope /\ envelopes \subseteq held
        /\ key_generation \in [Containers -> Nat \ {0}]
        /\ key_generation' = [d \in Containers |->
             IF d \in Bumped(c) THEN key_generation[d] + 1 ELSE key_generation[d]]
        /\ envelopes' = {e \in envelopes : ~(e.container \in Scope(c) /\ e.user = u)}
        /\ invitations' = DropOldEnvelopes(Withdraw(Scope(c), u), Scope(c), key_generation')
        /\ UNCHANGED <<status, shared_generation, identity, held>>
    BY DEF removeMemberTx, EnvelopesWithout, KeyInv, HeldIsMinted, TypeOK
  <1>2. ASSUME NEW d \in Containers, NEW v \in Users
        PROVE  member'[d][v] = IF d \in Scope(c) /\ v = u THEN NoRow ELSE member[d][v]
    BY <1>1 DEF removeMemberTx, TypeOK
  <1>3. \A e \in held : /\ e.container \in Containers /\ e.user \in Users /\ e.generation \in Nat
                        /\ status[e.container] # "absent" /\ shared_generation[e.container] > 0
                        /\ e.generation <= key_generation[e.container]
    BY <1>1 DEF Envelope, KeyInv, HeldIsMinted
  <1>4. \A e \in held : ~(e.container \in Scope(c) /\ e.user = u) /\ Entitled(e) => Entitled(e)'
    BY <1>1, <1>2, <1>3 DEF Entitled, Live
  <1>5. HeldIsMinted'
    BY <1>1, <1>3 DEF HeldIsMinted
  <1>6. CurrentKeyHolders'
    <2> SUFFICES ASSUME NEW e \in held, status[e.container] = "live",
                        e.generation = key_generation'[e.container]
                 PROVE  Entitled(e)'
      BY <1>1 DEF CurrentKeyHolders
    <2>1. e.container \notin Bumped(c) /\ e.generation = key_generation[e.container]
      BY <1>1, <1>3
    <2>2. e.container \notin Scope(c)
      BY <2>1 DEF Bumped
    <2>3. Entitled(e)
      BY <2>1 DEF KeyInv, CurrentKeyHolders
    <2> QED BY <1>4, <2>2, <2>3
  <1>7. EnvelopesEntitled'
    BY <1>1, <1>4 DEF KeyInv, EnvelopesEntitled
  <1>8. ASSUME NEW i \in InvitationIds, invitations'[i] # NoInvitation
        PROVE  /\ invitations[i] # NoInvitation /\ Withdraw(Scope(c), u)[i] = invitations[i]
               /\ ~(invitations[i].container \in Scope(c) /\ invitations[i].inviter = u)
               /\ invitations'[i].container = invitations[i].container
               /\ invitations'[i].inviter = invitations[i].inviter
               /\ invitations'[i].envelopes \subseteq invitations[i].envelopes
    <2>1. Withdraw(Scope(c), u) \in Pending
      BY <1>1 DEF Withdraw, TypeOK, Pending
    <2>2. /\ Withdraw(Scope(c), u)[i] # NoInvitation
          /\ invitations'[i].container = Withdraw(Scope(c), u)[i].container
          /\ invitations'[i].inviter = Withdraw(Scope(c), u)[i].inviter
          /\ invitations'[i].envelopes \subseteq Withdraw(Scope(c), u)[i].envelopes
      BY <1>1, <1>8, <2>1, DropOldType
    <2>3. /\ invitations[i] # NoInvitation /\ Withdraw(Scope(c), u)[i] = invitations[i]
          /\ ~(invitations[i].container \in Scope(c) /\ invitations[i].inviter = u)
      BY <2>2 DEF Withdraw
    <2> QED BY <2>2, <2>3
  <1>9. InvitationsShrink
    BY <1>8 DEF InvitationsShrink
  <1>10. InvitationsInScope'
    BY <1>1, <1>9, ShrinkInScope DEF KeyInv
  <1>11. InviterIsSteward'
    <2>1. \A i \in InvitationIds : invitations[i] # NoInvitation =>
            invitations[i].container \in Containers /\ invitations[i].inviter \in Users
      BY <1>1 DEF TypeOK, Invitation
    <2>2. ASSUME NEW i \in InvitationIds, invitations'[i] # NoInvitation,
                 isSteward(invitations[i].container, invitations[i].inviter)
          PROVE  StewardNext(invitations[i].container, invitations[i].inviter)
      BY <1>2, <1>8, <2>1, <2>2 DEF isSteward, Live, StewardNext
    <2> QED BY <1>1, <1>9, <2>2, ShrinkInviter DEF KeyInv
  <1>12. StewardsApproved'
    BY <1>2 DEF KeyInv, StewardsApproved, isSteward, Live, NoRow
  <1> QED BY <1>5, <1>6, <1>7, <1>10, <1>11, <1>12 DEF KeyInv

(* The invariant reads none of the variables that a save changes.           *)
LEMMA FrameKeeps ==
  ASSUME KeyInv, TypeOK',
         UNCHANGED <<status, keys, owner_user_id, member, identity, envelopes, invitations, held>>
  PROVE  KeyInv'
  BY DEF keys, KeyInv, HeldIsMinted, InvitationsInScope, StewardsApproved, CurrentKeyHolders,
         EnvelopesEntitled, InviterIsSteward, Entitled, isSteward, Live, Scope

(* Every step keeps the invariant.                                          *)
LEMMA KeyInvStep == KeyInv /\ [Next]_vars => KeyInv'
  <1> SUFFICES ASSUME KeyInv, [Next]_vars PROVE KeyInv'
    OBVIOUS
  <1>1. TypeOK /\ TypeOK'
    BY TypeStep DEF KeyInv
  <1>2. CASE KeyStep
    BY <1>1, <1>2, RotateKeeps, PutEnvelopeKeeps, CreateIdentityKeeps, ResetIdentityKeeps DEF KeyStep
  <1>3. CASE MemberStep
    BY <1>1, <1>3, CreateContainerKeeps, DeleteContainerKeeps, AdminAddKeeps, ApproveKeeps, InviteKeeps,
       AcceptKeeps, ExpireKeeps, RemoveKeeps DEF MemberStep, RemoveMember, AdminRemove
  <1>4. CASE SaveStep
    BY <1>1, <1>4, SaveStepFrame, FrameKeeps
  <1>5. CASE UNCHANGED vars
    BY <1>1, <1>5, FrameKeeps DEF vars
  <1> QED BY <1>2, <1>3, <1>4, <1>5 DEF Next

(* The inductive invariant holds.                                           *)
LEMMA KeyInvHolds == Spec => []KeyInv
  BY KeyInvInit, KeyInvStep, PTL DEF Spec

(* Removals, identity resets, rotations, invitations and approvals, in any  *)
(* order and on teams with any number of child notebooks, never leave a     *)
(* live notebook's current key with someone who is not an approved member   *)
(* with that identity.                                                      *)
THEOREM OutsidersHoldNoCurrentKey == Spec => []CurrentKeyHolders
  <1>1. KeyInv => CurrentKeyHolders
    BY DEF KeyInv
  <1> QED BY <1>1, KeyInvHolds, PTL

(* The envelope table never keeps a row for a former member or a replaced   *)
(* identity, of any generation.                                             *)
THEOREM EnvelopesStayEntitled == Spec => []EnvelopesEntitled
  <1>1. KeyInv => EnvelopesEntitled
    BY DEF KeyInv
  <1> QED BY <1>1, KeyInvHolds, PTL

(* No invitation outlives the stewardship of the member who made it.        *)
THEOREM InvitersStaySteward == Spec => []InviterIsSteward
  <1>1. KeyInv => InviterIsSteward
    BY DEF KeyInv
  <1> QED BY <1>1, KeyInvHolds, PTL

(* A page save that commits is sealed with a key that no outsider was ever  *)
(* served, whatever happened to members and keys while its body streamed.   *)
THEOREM SavesAreSealed == Spec => SealedFromOutsiders
  <1>1. ASSUME KeyInv, [Next]_vars
        PROVE  [\A w \in written' \ written :
                  \A e \in held : e.container = w.container /\ e.generation = w.generation
                                    => Entitled(e)]_vars
    <2> SUFFICES ASSUME NEW w \in written' \ written, NEW e \in held,
                        e.container = w.container, e.generation = w.generation
                 PROVE  Entitled(e)
      OBVIOUS
    <2>1. \E s \in saves : CommitSave(s)
      BY <1>1, ZenonT(40) DEF Next, KeyStep, MemberStep, SaveStep, Rotate, PutEnvelope, CreateIdentity,
         ResetIdentity, CreateContainer, DeleteContainer, AdminAdd, Approve, Invite, Accept, Expire,
         RemoveMember, AdminRemove, removeMemberTx, BeginSave, RefuseSave, vars
    <2>2. PICK s \in saves : CommitSave(s)
      BY <2>1
    <2>3. w = [container |-> s.container, generation |-> s.generation]
      BY <2>2 DEF CommitSave
    <2>4. status[w.container] = "live" /\ w.generation = key_generation[w.container]
      BY <2>2, <2>3 DEF CommitSave, Admitted, checkWriteGate
    <2> QED BY <1>1, <2>4 DEF KeyInv, CurrentKeyHolders
  <1>2. KeyInv /\ [Next]_vars =>
          [\A w \in written' \ written :
             \A e \in held : e.container = w.container /\ e.generation = w.generation
                               => Entitled(e)]_vars
    BY <1>1
  <1> QED BY <1>2, KeyInvHolds, PTL DEF Spec, SealedFromOutsiders

-----------------------------------------------------------------------------
(* Removals.                                                                *)

StaysMember(c, v) == member[c][v].live => member'[c][v].live

(* Nobody with a pending invitation to c is among those who leave c.        *)
LEMMA InvitedElsewhere ==
  ASSUME TypeOK', NEW c \in Containers, parent[c] = NoTeam, NEW v \in Users,
         \A i \in InvitationIds : invitations'[i] # NoInvitation /\ invitations'[i].invitee = v =>
                                    invitations'[i].container # c
  PROVE  ~CanReturn(c, v)'
  <1> SUFFICES ASSUME NEW i \in InvitationIds, invitations'[i] # NoInvitation,
                      invitations'[i].invitee = v, c \in Scope(invitations'[i].container)
               PROVE  FALSE
    BY DEF CanReturn, Scope
  <1>1. invitations'[i].container \in Containers
    BY DEF TypeOK, Invitation
  <1>2. invitations'[i].container = c
    BY <1>1, ParentAssumption DEF Scope
  <1> QED BY <1>2

(* removeMemberTx on a team or on a notebook outside any team.              *)
LEMMA RemovalIsFinal ==
  ASSUME KeyInv, TypeOK', NEW u \in Users, NEW c \in Containers, removeMemberTx(c, u),
         NEW d \in Containers, parent[d] = NoTeam, NEW v \in Users
  PROVE  StaysMember(d, v) \/ ~CanReturn(d, v)'
  <1>1. TypeOK /\ NoTeam \notin Containers
    BY ParentAssumption DEF KeyInv
  <1>2. member'[d][v] = IF d \in Scope(c) /\ v = u THEN NoRow ELSE member[d][v]
    BY <1>1 DEF removeMemberTx, TypeOK
  <1>3. CASE ~(d \in Scope(c) /\ v = u)
    BY <1>2, <1>3 DEF StaysMember
  <1>4. CASE d \in Scope(c) /\ v = u
    <2>1. d = c
      BY <1>1, <1>4 DEF Scope
    <2>2. ASSUME NEW i \in InvitationIds, invitations'[i] # NoInvitation, invitations'[i].invitee = u,
                 invitations'[i].container = c
          PROVE  FALSE
      <3> DEFINE w == Withdraw(Scope(c), u)
      <3>1. invitations' = DropOldEnvelopes(w, Scope(c), key_generation')
        BY DEF removeMemberTx
      <3>2. w \in Pending
        BY <1>1 DEF TypeOK, Withdraw, Pending
      <3>3. w[i] = NoInvitation \/ ~(invitations[i].container \in Scope(c) /\ u = invitations[i].invitee)
        BY DEF Withdraw
      <3>4. w[i] \in {NoInvitation, invitations[i]}
        BY DEF Withdraw
      <3> HIDE DEF w
      <3>5. w[i] # NoInvitation /\ w[i] \in Invitation
        BY <2>2, <3>1, <3>2 DEF DropOldEnvelopes, Pending
      <3>6. invitations'[i].invitee = w[i].invitee /\ invitations'[i].container = w[i].container
        BY <3>1, <3>5 DEF DropOldEnvelopes, Invitation
      <3>7. c \in Scope(c)
        BY DEF Scope
      <3> QED BY <2>2, <3>3, <3>4, <3>5, <3>6, <3>7
    <2> QED BY <1>4, <2>1, <2>2, InvitedElsewhere
  <1> QED BY <1>3, <1>4

(* Nobody is invited to a container that is not created yet.                *)
LEMMA CreationRemovesNobody ==
  ASSUME KeyInv, TypeOK', NEW u \in Users, NEW c \in Containers, CreateContainer(u, c),
         NEW d \in Containers, parent[d] = NoTeam, NEW v \in Users
  PROVE  StaysMember(d, v) \/ ~CanReturn(d, v)'
  <1>1. CASE d # c
    BY <1>1 DEF CreateContainer, StaysMember, KeyInv, TypeOK
  <1>2. CASE d = c
    <2>1. invitations' = invitations /\ status[c] = "absent"
      BY DEF CreateContainer
    <2>2. \A i \in InvitationIds : invitations'[i] # NoInvitation => invitations'[i].container # d
      BY <1>2, <2>1 DEF KeyInv, InvitationsInScope
    <2> QED BY <2>2, InvitedElsewhere
  <1> QED BY <1>1, <1>2

(* Every other step leaves live members live.                               *)
LEMMA MembersStay ==
  ASSUME KeyInv, MemberStep, NEW d \in Containers, NEW v \in Users
  PROVE  \/ StaysMember(d, v)
         \/ \E u \in Users, c \in Containers : CreateContainer(u, c) \/ removeMemberTx(c, u)
  <1>1. TypeOK
    BY DEF KeyInv
  <1>2. ASSUME member' = member PROVE StaysMember(d, v)
    BY <1>2 DEF StaysMember
  <1>3. ASSUME NEW c \in Containers, NEW u \in Users, NEW row, MayAdmit(c, u), admitMemberTx(c, u, row)
        PROVE  StaysMember(d, v)
    <2>1. Live(d, v) => member'[d][v] = member[d][v]
      BY <1>1, <1>3, AdmitFrame
    <2> QED BY <2>1 DEF Live, StaysMember
  <1>4. ASSUME NEW u \in Users, NEW c \in Containers, NEW role \in AddRoles, AdminAdd(c, u, role)
        PROVE  StaysMember(d, v)
    BY <1>3, <1>4 DEF AdminAdd
  <1>5. ASSUME NEW i \in InvitationIds, Accept(i) PROVE StaysMember(d, v)
    <2>1. invitations[i].container \in Containers /\ invitations[i].invitee \in Users
      BY <1>1, <1>5 DEF Accept, TypeOK, Invitation
    <2> QED BY <1>3, <1>5, <2>1 DEF Accept
  <1>6. ASSUME NEW s \in Users, NEW u \in Users, NEW c \in Containers, Approve(s, c, u)
        PROVE  StaysMember(d, v)
    <2>1. member'[d][v] = member[d][v] \/ member'[d][v] = ApprovedRow(member[d][v])
      BY <1>1, <1>6 DEF Approve, TypeOK
    <2>2. member[d][v] \in MemberRow
      BY <1>1 DEF TypeOK
    <2>3. ApprovedRow(member[d][v]).live = member[d][v].live
      BY <2>2 DEF MemberRow, ApprovedRow
    <2> QED BY <2>1, <2>3 DEF StaysMember
  <1>7. ASSUME NEW u \in Users, NEW c \in Containers, DeleteContainer(u, c) PROVE StaysMember(d, v)
    BY <1>2, <1>7 DEF DeleteContainer
  <1>8. ASSUME NEW s \in Users, NEW u \in Users, NEW c \in Containers, NEW role \in InviteRoles,
               NEW i \in InvitationIds, NEW K \in SUBSET LiveScope(c), Invite(s, c, u, role, i, K)
        PROVE  StaysMember(d, v)
    BY <1>2, <1>8 DEF Invite
  <1>9. ASSUME NEW i \in InvitationIds, Expire(i) PROVE StaysMember(d, v)
    BY <1>2, <1>9 DEF Expire
  <1> QED BY <1>4, <1>5, <1>6, <1>7, <1>8, <1>9 DEF MemberStep, RemoveMember, AdminRemove

LEMMA StepIsFinal ==
  ASSUME KeyInv, [Next]_vars, NEW c \in Containers, parent[c] = NoTeam PROVE NoWayBack(c)
  <1>1. TypeOK'
    BY TypeStep DEF KeyInv
  <1>2. ASSUME NEW v \in Users PROVE StaysMember(c, v) \/ ~CanReturn(c, v)'
    <2>1. CASE MemberStep
      BY <1>1, <2>1, MembersStay, RemovalIsFinal, CreationRemovesNobody
    <2>2. CASE member' = member
      BY <2>2 DEF StaysMember
    <2>3. CASE KeyStep
      BY <2>2, <2>3, Zenon DEF KeyStep, Rotate, PutEnvelope, CreateIdentity, ResetIdentity
    <2>4. CASE SaveStep
      BY <2>2, <2>4, SaveStepFrame DEF KeyInv
    <2> QED BY <2>1, <2>2, <2>3, <2>4 DEF Next, vars
  <1> QED BY <1>2 DEF NoWayBack, StaysMember, Live

(* removeMemberTx: whoever is removed from a team, or from a notebook       *)
(* outside any team, has no pending invitation left to come back by.        *)
THEOREM RemovalsAreFinal == Spec => TeamRemovalIsFinal
  <1>1. KeyInv /\ [Next]_vars => \A c \in Containers : parent[c] = NoTeam => NoWayBack(c)
    BY StepIsFinal
  <1> QED BY <1>1, KeyInvHolds, PTL DEF Spec, TeamRemovalIsFinal
=============================================================================
