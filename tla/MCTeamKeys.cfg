SPECIFICATION FairSpec
CONSTANTS
  Users = {u1, u2}
  Containers = {team}
  InvitationIds = {i1}
  NoTeam = NoTeam
  Nobody = Nobody
  NoInvitation = NoInvitation
  parent <- Parent
  InviteRoles = {"admin"}
  AddRoles = {"editor"}
  MaxGeneration = 4
  MaxIdentities = 2
  MaxSaves = 1
  Sso = {u1, u2}
  Sharers = {u2}
CHECK_DEADLOCK FALSE
INVARIANTS
  CurrentKeyHolders
PROPERTIES
  SealedFromOutsiders
  TeamRemovalIsFinal
  KeysArrive
