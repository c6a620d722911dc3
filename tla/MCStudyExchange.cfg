SPECIFICATION StudySpec
CONSTANTS
  Dummies = {d1, d2}
  StudyIds = {s1, s2}
  MaxRequests = 3
  Within <- MCWithin
  POs = {po1, po2}
  Centers = {cc1, cc2}
  Seeds <- MCSeeds
  CenterLists <- MCCenterLists
  Ops = {"create", "po", "initiate", "disable", "told", "remove"}
  NoPO = NoPO
  d1 = d1
  d2 = d2
  s1 = s1
  s2 = s2
  po1 = po1
  po2 = po2
  cc1 = cc1
  cc2 = cc2
  None = None
INVARIANTS
  StudyTypeOK SystemsAgree OneProjectPerPO
PROPERTIES
  DisabledInTheEnd
CHECK_DEADLOCK FALSE
