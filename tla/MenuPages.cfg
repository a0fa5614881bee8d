\* Menus of up to four items and up to three static ones, one to three rows on a
\* page; callbacks answer anything.
CONSTANTS
  Rows = 3
  Keys = 6
  PerPage = {1, 2, 3}
  Status = {"Enabled", "Disabled", "Hide"}
  StaticStatus = {"Enabled", "Hide"}
  MenuId = 2
  MaxItems = 4
  MaxPage = 3
SPECIFICATION PagesFairSpec
INVARIANTS ItemsShownOnce KeysAreDrawn
PROPERTY PlainDisplayEnds
