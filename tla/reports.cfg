SPECIFICATION Spec
CONSTANTS
  Mine = mine
  Ours = ours
  None = none
  User = user
  Roles = {"sales"}
  Groups = {"desk", "abroad"}
  Home = {"desk"}
  Direct = "direct"
  Policies = {"p1", "p2", "p3"}
  Pos = {o1, o2}
  Contents <- States
  Assigned <- MineOnly
  Team <- OursOnly
  Windows <- Asked
  Moments = {1, 2}
  PageSize = 1
  MaxEvents = 3
  MaxChanges = 1
  MaxGrants = 2
  Grants <- Effects
  Attached <- Paths
  FirstRule <- AtFirst
CHECK_DEADLOCK FALSE
INVARIANTS RightsWereHeld PanelsTellOfUnchanged WalkMissesNothing
