------------------------------ MODULE TeamKeys ------------------------------
(***************************************************************************)
(* Team keys: who is a member of a notebook, which generation of its       *)
(* content key is current, and which identities hold an envelope of it.    *)
(*                                                                         *)
(* Every request is one immediate write transaction and so one action; a   *)
(* page save checks the write gate twice, before its body streams and in   *)
(* its transaction, and is two.  Identity n of user u is a key pair; a     *)
(* reset replaces it by identity n + 1.  The server stores envelopes it    *)
(* cannot open, so what a browser can send is modelled too: it only seals  *)
(* keys that it holds.  All accounts are active, and paired devices, which *)
(* hold envelopes of their own, are left out.                              *)
(***************************************************************************)
EXTENDS Naturals, FiniteSets

CONSTANTS
  Users,
  Containers,     \* teams and their child notebooks
  InvitationIds,  \* slots for pending invitations
  NoTeam,         \* the empty team_id
  Nobody,         \* the empty invited_by of a server administrator's add
  NoInvitation,   \* a free slot
  parent,         \* parent[c]: containers.team_id
  InviteRoles,    \* roles that invitations are made for
  AddRoles,       \* roles that an administrator adds members with
  MaxGeneration,  \* bound on key_generation
  MaxIdentities,  \* bound on the identities of one user
  MaxSaves        \* bound on page saves that stream at one time

ASSUME ParentAssumption ==
  /\ parent \in [Containers -> Containers \cup {NoTeam}]
  /\ NoTeam \notin Containers
  /\ \A c \in Containers : parent[c] # NoTeam => parent[parent[c]] = NoTeam
ASSUME NobodyAssumption == Nobody \notin Users
ASSUME RolesAssumption ==
  /\ InviteRoles \subseteq {"admin", "editor", "viewer"}
  /\ AddRoles \subseteq {"editor", "viewer"}
ASSUME BoundsAssumption == {MaxGeneration, MaxIdentities, MaxSaves} \subseteq Nat

VARIABLES
  status,             \* each container: not created yet, live or deleted
  key_generation,     \* its current generation, from 1
  shared_generation,  \* its first keyed generation, 0 before the first key
  owner_user_id,      \* the user it is charged to, at first its creator
  member,             \* memberships rows
  identity,           \* each user's identity, 0 before the first
  envelopes,          \* key_envelopes rows
  invitations,        \* pending invitations with their invitation_envelopes
  saves,              \* page saves whose body is streaming
  written,            \* object_versions rows, as (container, key_generation)
  held                \* history: every envelope that was ever served

keys == <<key_generation, shared_generation>>
vars == <<status, keys, owner_user_id, member, identity, envelopes, invitations, saves, written, held>>

Roles == {"owner", "admin", "editor", "viewer"}
MemberRow == [live : BOOLEAN, role : Roles \cup {"none"}, approved : BOOLEAN,
              invited_by : Users \cup {Nobody}, pending_role : Roles \cup {"none"}]
Envelope == [container : Containers, user : Users, identity : Nat \ {0}, generation : Nat \ {0}]
Invitation == [container : Containers, inviter : Users, invitee : Users,
               role : Roles, envelopes : SUBSET Envelope]
Save == [user : Users, container : Containers, generation : Nat \ {0}]
Written == [container : Containers, generation : Nat \ {0}]

(* A revoked row is overwritten when its user is admitted again, so what it *)
(* still holds decides nothing.                                             *)
NoRow == [live |-> FALSE, role |-> "none", approved |-> FALSE,
          invited_by |-> Nobody, pending_role |-> "none"]

-----------------------------------------------------------------------------
Scope(c) == {d \in Containers : d = c \/ parent[d] = c}
LiveScope(c) == {d \in Scope(c) : status[d] = "live"}

Live(c, u) == member[c][u].live
isSteward(c, u) == Live(c, u) /\ member[c][u].role \in {"owner", "admin"}
isWriter(c, u) == Live(c, u) /\ member[c][u].role \in {"owner", "admin", "editor"}

(* memberTx: the caller is a live member of a live notebook whose team, if  *)
(* it has one, is live.                                                     *)
memberTx(c, u) ==
  /\ Live(c, u) /\ status[c] = "live"
  /\ parent[c] # NoTeam => status[parent[c]] = "live"

(* The identities a key may be wrapped for.                                 *)
Recipient(c, u) == Live(c, u) /\ member[c][u].approved /\ identity[u] > 0

EnvelopeFor(c, u, g) == [container |-> c, user |-> u, identity |-> identity[u], generation |-> g]
EnvelopesAt(c, g) == {e \in envelopes : e.container = c /\ e.generation = g}

(* A browser of u can seal generation g of c: some identity of u opened it. *)
Holds(c, u, g) == \E e \in held : e.container = c /\ e.user = u /\ e.generation = g

(* checkWriteGate at generation g. *)
checkWriteGate(c, u, g) ==
  /\ Live(c, u) /\ status[c] = "live"
  /\ shared_generation[c] > 0
  /\ g = key_generation[c]
  /\ EnvelopeFor(c, u, g) \in envelopes

(* Invitations without the envelopes of S that fell behind generation gen.  *)
DropOldEnvelopes(invs, S, gen) ==
  [i \in InvitationIds |->
     IF invs[i] = NoInvitation THEN NoInvitation
     ELSE [invs[i] EXCEPT !.envelopes =
             {e \in @ : ~(e.container \in S /\ e.generation < gen[e.container])}]]

(* New envelopes are inserted and may be served from now on.                *)
Serve(new) ==
  /\ envelopes' = envelopes \cup new
  /\ held' = held \cup new

-----------------------------------------------------------------------------
Init ==
  /\ status = [c \in Containers |-> "absent"]
  /\ key_generation = [c \in Containers |-> 1]
  /\ shared_generation = [c \in Containers |-> 0]
  /\ owner_user_id = [c \in Containers |-> Nobody]
  /\ member = [c \in Containers |-> [u \in Users |-> NoRow]]
  /\ identity = [u \in Users |-> 0]
  /\ envelopes = {}
  /\ invitations = [i \in InvitationIds |-> NoInvitation]
  /\ saves = {}
  /\ written = {}
  /\ held = {}

-----------------------------------------------------------------------------
(* Notebooks.                                                               *)

(* POST /containers and POST /admin/teams: the creator owns a top-level     *)
(* container; a child notebook copies the live memberships of its team.     *)
CreateContainer(u, c) ==
  /\ status[c] = "absent"
  /\ parent[c] # NoTeam => memberTx(parent[c], u) /\ isSteward(parent[c], u)
  /\ status' = [status EXCEPT ![c] = "live"]
  /\ owner_user_id' = [owner_user_id EXCEPT ![c] = u]
  /\ member' = [member EXCEPT ![c] =
       IF parent[c] = NoTeam
       THEN [v \in Users |-> IF v = u THEN [NoRow EXCEPT !.live = TRUE, !.role = "owner", !.approved = TRUE]
                                      ELSE NoRow]
       ELSE [v \in Users |-> IF Live(parent[c], v) THEN member[parent[c]][v] ELSE NoRow]]
  /\ UNCHANGED <<keys, identity, envelopes, invitations, saves, written, held>>

(* c was never keyed and holds nothing: its creator may undo the creation.  *)
Blank(u, c) ==
  /\ owner_user_id[c] = u /\ isSteward(c, u)
  /\ shared_generation[c] = 0
  /\ \A e \in envelopes : e.container # c
  /\ \A i \in InvitationIds : invitations[i] # NoInvitation => invitations[i].container # c
  /\ \A d \in LiveScope(c) : d = c
  /\ parent[c] = NoTeam => \A v \in Users \ {u} : ~Live(c, v)

(* DELETE /containers/{id} by its owner: children go with a team.           *)
DeleteContainer(u, c) ==
  /\ Live(c, u) /\ status[c] = "live"
  /\ member[c][u].role = "owner" \/ Blank(u, c)
  /\ status' = [d \in Containers |-> IF d \in LiveScope(c) THEN "deleted" ELSE status[d]]
  /\ written' = {w \in written : w.container \notin Scope(c)}
  /\ UNCHANGED <<keys, owner_user_id, member, identity, envelopes, invitations, saves, held>>

-----------------------------------------------------------------------------
(* Keys.                                                                    *)

(* POST /containers/{id}/key-rotations at the generation the steward saw.   *)
(* The envelopes must be for members' identities, cover all of them and     *)
(* include the caller's own, so the set is exactly this one.                *)
Rotate(u, c) ==
  LET next == key_generation[c] + 1
      new == {EnvelopeFor(c, v, next) : v \in {w \in Users : Recipient(c, w)}}
  IN /\ memberTx(c, u) /\ isSteward(c, u) /\ Recipient(c, u)
     /\ next <= MaxGeneration
     /\ key_generation' = [key_generation EXCEPT ![c] = next]
     /\ shared_generation' = [shared_generation EXCEPT ![c] = IF @ = 0 THEN next ELSE @]
     /\ Serve(new)
     /\ invitations' = DropOldEnvelopes(invitations, {c}, key_generation')
     /\ UNCHANGED <<status, owner_user_id, member, identity, saves, written>>

(* PUT /containers/{id}/envelopes, one envelope: u wraps generation g for   *)
(* v.  The generation must already have an envelope (putGenerationTx); only *)
(* stewards write for others, and a member's own first one (insertEnvelope- *)
(* Tx).  Re-wrapping one's own envelope changes no row's key.               *)
PutEnvelope(u, c, v, g) ==
  /\ memberTx(c, u) /\ Recipient(c, v)
  /\ shared_generation[c] > 0 /\ g >= shared_generation[c] /\ g <= key_generation[c]
  /\ EnvelopesAt(c, g) # {}
  /\ isSteward(c, u)
  /\ Holds(c, u, g)
  /\ EnvelopeFor(c, v, g) \notin envelopes
  /\ Serve({EnvelopeFor(c, v, g)})
  /\ UNCHANGED <<status, keys, owner_user_id, member, identity, invitations, saves, written>>

-----------------------------------------------------------------------------
(* Identities.                                                              *)

(* PUT /me/identity: the first identity. *)
CreateIdentity(u) ==
  /\ identity[u] = 0 /\ MaxIdentities > 0
  /\ identity' = [identity EXCEPT ![u] = 1]
  /\ UNCHANGED <<status, keys, owner_user_id, member, envelopes, invitations, saves, written, held>>

(* Mutant: only the notebooks that u owns. *)
Retired_Owned(u) == {c \in Containers : /\ Live(c, u) /\ member[c][u].role = "owner"
                                        /\ shared_generation[c] > 0 /\ status[c] = "live"}

(* The keyed notebooks whose key u may have: retireKeysTx's scope.          *)
Retired(u) == {c \in Containers : /\ Live(c, u) /\ member[c][u].approved
                                  /\ shared_generation[c] > 0 /\ status[c] = "live"}

(* Everything the old identity of u was given goes with its devices row.    *)
Forget(es, u) == {e \in es : e.user # u}

(* PUT /me/identity with replace: retire the keys of every notebook u may   *)
(* read, delete the old identity, if there is one, whose envelopes and      *)
(* invitation envelopes cascade, and register the next one.                 *)
ResetIdentity(u) ==
  LET scope == {c \in Containers : Live(c, u) /\ member[c][u].approved}
  IN /\ identity[u] < MaxIdentities
     /\ \A c \in Retired(u) : key_generation[c] + 1 < MaxGeneration
     /\ identity' = [identity EXCEPT ![u] = @ + 1]
     /\ key_generation' = [c \in Containers |->
          IF c \in Retired(u) THEN key_generation[c] + 1 ELSE key_generation[c]]
     /\ envelopes' = Forget(envelopes, u)
     /\ invitations' = LET current == DropOldEnvelopes(invitations, scope, key_generation')
                       IN [i \in InvitationIds |->
                             IF current[i] = NoInvitation THEN NoInvitation
                             ELSE [current[i] EXCEPT !.envelopes = Forget(@, u)]]
     /\ UNCHANGED <<status, shared_generation, owner_user_id, member, saves, written, held>>

-----------------------------------------------------------------------------
(* Members.                                                                 *)

(* admitMemberTx: u gets row in c and its live children, unless u is a live *)
(* member anywhere in that scope.                                           *)
MayAdmit(c, u) == \A d \in Scope(c) : ~Live(d, u)

admitMemberTx(c, u, row) ==
  member' = [d \in Containers |->
    IF d \in LiveScope(c) THEN [member[d] EXCEPT ![u] = row] ELSE member[d]]

(* POST /admin/teams/{id}/members: a viewer without keys until a steward    *)
(* approves it, and never a steward.                                        *)
AdminAdd(c, u, role) ==
  /\ status[c] = "live" /\ parent[c] = NoTeam
  /\ MayAdmit(c, u)
  /\ admitMemberTx(c, u, [live |-> TRUE, role |-> "viewer", approved |-> FALSE,
                          invited_by |-> Nobody, pending_role |-> role])
  /\ UNCHANGED <<status, keys, owner_user_id, identity, envelopes, invitations, saves, written, held>>

ApprovedRow(row) ==
  [row EXCEPT !.role = IF row.approved THEN row.role ELSE row.pending_role,
              !.pending_role = "none", !.approved = TRUE]

(* POST /containers/{id}/members/{userID}/approve, on the team. *)
Approve(s, c, u) ==
  /\ status[c] = "live" /\ parent[c] = NoTeam
  /\ isSteward(c, s) /\ member[c][s].approved
  /\ \E d \in LiveScope(c) : Live(d, u)
  /\ member' = [d \in Containers |->
       IF d \in LiveScope(c) /\ Live(d, u)
       THEN [member[d] EXCEPT ![u] = ApprovedRow(member[d][u])]
       ELSE member[d]]
  /\ UNCHANGED <<status, keys, owner_user_id, identity, envelopes, invitations, saves, written, held>>

(* POST /containers/{id}/invitations by s to u.  The invitation may carry   *)
(* the current keys of some containers K of the scope.                      *)
Invite(s, c, u, role, i, K) ==
  /\ memberTx(c, s) /\ isSteward(c, s)
  /\ invitations[i] = NoInvitation
  /\ K \subseteq LiveScope(c)
  /\ \A d \in K : /\ isSteward(d, s) /\ shared_generation[d] > 0 /\ identity[u] > 0
                  /\ Holds(d, s, key_generation[d])
  /\ invitations' = [invitations EXCEPT ![i] =
       [container |-> c, inviter |-> s, invitee |-> u, role |-> role,
        envelopes |-> {EnvelopeFor(d, u, key_generation[d]) : d \in K}]]
  /\ UNCHANGED <<status, keys, owner_user_id, member, identity, envelopes, saves, written, held>>

(* moveInvitationEnvelopesTx: those still at the current generation of a    *)
(* live keyed container, for the invitee's identity of now.                 *)
Movable(inv) ==
  {e \in inv.envelopes : /\ e.generation = key_generation[e.container]
                         /\ shared_generation[e.container] > 0
                         /\ status[e.container] = "live"
                         /\ e.user = inv.invitee /\ e.identity = identity[e.user]}

(* POST /invitations/{id}/accept: the inviter must still be a steward of a  *)
(* live container.                                                          *)
Accept(i) ==
  LET inv == invitations[i]
  IN /\ inv # NoInvitation
     /\ status[inv.container] = "live" /\ isSteward(inv.container, inv.inviter)
     /\ MayAdmit(inv.container, inv.invitee)
     /\ admitMemberTx(inv.container, inv.invitee,
          [live |-> TRUE, role |-> inv.role, approved |-> TRUE,
           invited_by |-> inv.inviter, pending_role |-> "none"])
     /\ Serve(Movable(inv))
     /\ invitations' = [invitations EXCEPT ![i] = NoInvitation]
     /\ UNCHANGED <<status, keys, owner_user_id, identity, saves, written>>

(* An invitation's 24 hours pass. *)
Expire(i) ==
  /\ invitations[i] # NoInvitation
  /\ invitations' = [invitations EXCEPT ![i] = NoInvitation]
  /\ UNCHANGED <<status, keys, owner_user_id, member, identity, envelopes, saves, written, held>>

(* Mutant: only the invitations from u. *)
Withdraw_FromOnly(S, u) ==
  [i \in InvitationIds |->
     IF /\ invitations[i] # NoInvitation
        /\ invitations[i].container \in S /\ u = invitations[i].inviter
     THEN NoInvitation ELSE invitations[i]]

(* Invitations in scope S to or from u die with its membership.             *)
Withdraw(S, u) ==
  [i \in InvitationIds |->
     IF /\ invitations[i] # NoInvitation
        /\ invitations[i].container \in S
        /\ u \in {invitations[i].invitee, invitations[i].inviter}
     THEN NoInvitation ELSE invitations[i]]

(* The containers whose generation a removal from c advances.               *)
Bumped(c) == {d \in Scope(c) : d = c \/ status[d] = "live"}

EnvelopesWithout(c, u) == {e \in envelopes : ~(e.container \in Scope(c) /\ e.user = u)}

(* removeMemberTx: revoke u from c and its children, advance their          *)
(* generations, delete u's envelopes and the invitations to and from u.     *)
removeMemberTx(c, u) ==
  /\ Live(c, u) /\ member[c][u].role # "owner"
  /\ \A d \in Bumped(c) : key_generation[d] + 1 < MaxGeneration
  /\ member' = [d \in Containers |->
       IF d \in Scope(c) THEN [member[d] EXCEPT ![u] = NoRow] ELSE member[d]]
  /\ key_generation' = [d \in Containers |->
       IF d \in Bumped(c) THEN key_generation[d] + 1 ELSE key_generation[d]]
  /\ envelopes' = EnvelopesWithout(c, u)
  /\ owner_user_id' = [d \in Containers |->
       IF parent[d] = c /\ owner_user_id[d] = u THEN owner_user_id[c] ELSE owner_user_id[d]]
  /\ invitations' = DropOldEnvelopes(Withdraw(Scope(c), u), Scope(c), key_generation')
  /\ UNCHANGED <<status, shared_generation, identity, saves, written, held>>

(* DELETE /containers/{id}/members/{userID} by steward s: an admin removes  *)
(* another admin only if it invited it.                                     *)
RemoveMember(s, c, u) ==
  /\ s # u /\ isSteward(c, s)
  /\ member[c][s].role = "admin" /\ member[c][u].role = "admin" => member[c][u].invited_by = s
  /\ removeMemberTx(c, u)

(* DELETE /admin/teams/{id}/members/{userID} by a server administrator. *)
AdminRemove(c, u) == removeMemberTx(c, u)

-----------------------------------------------------------------------------
(* PUT /objects/{id}: the gate and the role before the body streams, and    *)
(* both again in the transaction that stores the version.                   *)

BeginSave(u, c) ==
  /\ Cardinality(saves) < MaxSaves
  /\ isWriter(c, u)
  /\ checkWriteGate(c, u, key_generation[c])
  /\ saves' = saves \cup {[user |-> u, container |-> c, generation |-> key_generation[c]]}
  /\ UNCHANGED <<status, keys, owner_user_id, member, identity, envelopes, invitations, written, held>>

(* Mutant: the transaction asks for the role only. *)
Admitted_RoleOnly(s) == isWriter(s.container, s.user)

(* The transaction's own check of save s. *)
Admitted(s) ==
  /\ checkWriteGate(s.container, s.user, s.generation)
  /\ isWriter(s.container, s.user)

CommitSave(s) ==
  /\ s \in saves /\ Admitted(s)
  /\ saves' = saves \ {s}
  /\ written' = written \cup {[container |-> s.container, generation |-> s.generation]}
  /\ UNCHANGED <<status, keys, owner_user_id, member, identity, envelopes, invitations, held>>

RefuseSave(s) ==
  /\ s \in saves /\ ~Admitted(s)
  /\ saves' = saves \ {s}
  /\ UNCHANGED <<status, keys, owner_user_id, member, identity, envelopes, invitations, written, held>>

-----------------------------------------------------------------------------
KeyStep ==
  \/ \E u \in Users, c \in Containers : Rotate(u, c)
  \/ \E u, v \in Users, c \in Containers : \E g \in 1..key_generation[c] : PutEnvelope(u, c, v, g)
  \/ \E u \in Users : CreateIdentity(u)
  \/ \E u \in Users : ResetIdentity(u)

MemberStep ==
  \/ \E u \in Users, c \in Containers : CreateContainer(u, c)
  \/ \E u \in Users, c \in Containers : DeleteContainer(u, c)
  \/ \E u \in Users, c \in Containers, role \in AddRoles : AdminAdd(c, u, role)
  \/ \E s, u \in Users, c \in Containers : Approve(s, c, u)
  \/ \E s, u \in Users, c \in Containers, role \in InviteRoles, i \in InvitationIds :
       \E K \in SUBSET LiveScope(c) : Invite(s, c, u, role, i, K)
  \/ \E i \in InvitationIds : Accept(i)
  \/ \E i \in InvitationIds : Expire(i)
  \/ \E s, u \in Users, c \in Containers : RemoveMember(s, c, u)
  \/ \E u \in Users, c \in Containers : AdminRemove(c, u)

SaveStep ==
  \/ \E u \in Users, c \in Containers : BeginSave(u, c)
  \/ \E s \in saves : CommitSave(s)
  \/ \E s \in saves : RefuseSave(s)

Next == KeyStep \/ MemberStep \/ SaveStep

Spec == Init /\ [][Next]_vars

-----------------------------------------------------------------------------
(* Every variable holds rows of the schema's shape.                         *)
TypeOK ==
  /\ status \in [Containers -> {"absent", "live", "deleted"}]
  /\ key_generation \in [Containers -> Nat \ {0}]
  /\ shared_generation \in [Containers -> Nat]
  /\ owner_user_id \in [Containers -> Users \cup {Nobody}]
  /\ member \in [Containers -> [Users -> MemberRow]]
  /\ identity \in [Users -> Nat]
  /\ envelopes \subseteq Envelope
  /\ invitations \in [InvitationIds -> Invitation \cup {NoInvitation}]
  /\ saves \subseteq Save
  /\ written \subseteq Written
  /\ held \subseteq Envelope

(* The one who was given e is still an approved member of its notebook and  *)
(* has not reset the identity it was wrapped for.                           *)
Entitled(e) ==
  /\ Live(e.container, e.user)
  /\ member[e.container][e.user].approved
  /\ e.identity = identity[e.user]

(* Whoever was ever served the current key of a live notebook is still an   *)
(* approved member with that identity: a removal, a reset or an accepted    *)
(* old invitation never leaves an outsider holding the key that new content *)
(* is sealed with.                                                          *)
CurrentKeyHolders ==
  \A e \in held :
    status[e.container] = "live" /\ e.generation = key_generation[e.container] => Entitled(e)

(* No version is stored under a key that an outsider holds, although the    *)
(* gate was first passed before the body streamed and members were removed  *)
(* or identities reset meanwhile.                                           *)
SealedFromOutsiders ==
  [][\A w \in written' \ written :
       \A e \in held : e.container = w.container /\ e.generation = w.generation => Entitled(e)]_vars

(* Every key_envelopes row, of the current or of an older generation, is    *)
(* for the present identity of an approved member; a former member who is   *)
(* admitted again finds none of its old ones.                               *)
EnvelopesEntitled == \A e \in envelopes : Entitled(e)

(* A pending invitation's inviter is still a steward of its notebook:       *)
(* the invitations of a removed steward died with its membership.           *)
InviterIsSteward ==
  \A i \in InvitationIds : invitations[i] # NoInvitation =>
    isSteward(invitations[i].container, invitations[i].inviter)

(* The parts of the inductive invariant: what was served belongs to a keyed *)
(* notebook and no future generation, an invitation carries keys of its own *)
(* scope only, and no one becomes a steward unapproved.                     *)
HeldIsMinted ==
  /\ envelopes \subseteq held
  /\ \A e \in held : /\ status[e.container] # "absent"
                     /\ shared_generation[e.container] > 0
                     /\ e.generation <= key_generation[e.container]

InvitationsInScope ==
  \A i \in InvitationIds : invitations[i] # NoInvitation =>
    /\ status[invitations[i].container] # "absent"
    /\ \A e \in invitations[i].envelopes : e.container \in Scope(invitations[i].container)

StewardsApproved ==
  \A c \in Containers, u \in Users : isSteward(c, u) => member[c][u].approved

KeyInv ==
  /\ TypeOK /\ HeldIsMinted /\ InvitationsInScope /\ StewardsApproved
  /\ CurrentKeyHolders /\ EnvelopesEntitled /\ InviterIsSteward

(* A pending invitation that u can accept would make it a member of c.      *)
CanReturn(c, u) ==
  \E i \in InvitationIds :
    /\ invitations[i] # NoInvitation /\ invitations[i].invitee = u
    /\ c \in Scope(invitations[i].container)
    /\ MayAdmit(invitations[i].container, u)

NoWayBack(c) == \A u \in Users : Live(c, u) /\ ~Live(c, u)' => ~CanReturn(c, u)'

(* "Pending invitations to the removed member die too: accepting one must   *)
(* not undo the removal": so it is when a member is removed from a team or  *)
(* from a notebook outside any team.                                        *)
TeamRemovalIsFinal == [][\A c \in Containers : parent[c] = NoTeam => NoWayBack(c)]_vars
=============================================================================
