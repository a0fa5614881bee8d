\* Two players, two menus of two pages, handlers and callbacks nested two deep, the
\* loops of destroyMenu() beside them.
CONSTANTS
  m1 = m1
  m2 = m2
  Menu = {m1, m2}
  NoMenu = NoMenu
  MaxClients = 2
  LastPage = 1
  MaxDepth = 2
  Kinds <- TwoMenus
  Habits = {}
SPECIFICATION Spec
INVARIANTS NoDanglingMenu SelectedIsShown ScreenAgrees TurnsStay
PROPERTY PagesTurn
