CONSTANTS
  MaxChanges = 2
  MaxFaults = 1
  HookLoads = {"hook1", "hook2"}
  NoBook = NoBook
SPECIFICATION Spec
INVARIANTS ScreenTypeOK
PROPERTY OnlyOvertakenGoBack FollowsMarket
