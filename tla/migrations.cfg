SPECIFICATION Spec
CONSTANTS
  Ids = {c1, c2}
  Tenants = {home, away}
  Home = home
  Senders = {s1, s2}
  Exts = {x1}
  Logs = {l1, l2}
  None = none
  HandFamilies = {"suppliers", "dashboard"}
  Targets = {1, 15, 19}
  MaxWrites = 3
SYMMETRY Symmetric
CHECK_DEADLOCK FALSE
INVARIANTS SchemaStepsFit DowngradeUndoes RuntimeIsConfined CustomersSurvive LinksResolve
