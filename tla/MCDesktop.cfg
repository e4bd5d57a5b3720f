CONSTANTS
  Windows = {w1, w2}
  NoWindow = NoWindow
  Icons = {1}
SYMMETRY Symmetry
SPECIFICATION Spec
INVARIANTS
  DeskSound
  FocusTopmost
  PressNamesWindow
  ScreenCurrent
  NothingSwallowed
