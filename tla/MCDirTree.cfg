CONSTANTS
  Name = {"a", "b", "c"}
  Path <- MCPath
  Home <- MCHome
  MaxFails = 1
SPECIFICATION Spec
PROPERTIES RefreshShowsTheServer OwnChangesAreSeen FollowsTheList
CHECK_DEADLOCK FALSE
