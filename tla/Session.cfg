CONSTANTS
  u1 = u1  u2 = u2  e1 = e1  c1 = c1
  Nobody = Nobody
  Users = {u1, u2}
  Lists = {"offers", "loans"}
  Entries = {e1}
  Commands = {c1}
  Attempts = {2}
  MaxChanges = 1
  MaxFaults = 1
  MaxLogouts = 2
SPECIFICATION FairSpec
INVARIANTS SessionTypeOK BarHasLoad OwnData
PROPERTY NoGoingBack CallsReturn
CHECK_DEADLOCK FALSE
