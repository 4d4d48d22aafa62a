SPECIFICATION Spec
CONSTANTS
  Cols = 2
  Rows = 1
  HomeX = 1
  HomeY = 0
  ByteSize = 8
  Motions <- MCMotions
  Chars <- MCChars
  KeyChars <- MCKeyChars
INVARIANTS TypeOK ColoursAccounted TextAccounted
PROPERTIES PointerFollows
