CONSTANTS
  Chars <- MCChars
  Nul = Nul
  Junk = Junk
  MaxLen = 3
  MaxPat = 2
  SizeWidth = 4
SPECIFICATION PathSpec
INVARIANT MkdirSplitsAtLastSlash
