CONSTANTS
  Chars <- MCChars
  Nul = Nul
  Junk = Junk
  MaxLen = 3
  MaxPat = 2
  SizeWidth = 4
SPECIFICATION PathSpec
INVARIANT TypeOK
INVARIANT StringWellFormed
INVARIANT FindCharCorrect
INVARIANT MkdirSplitsUnlessOneByteName
PROPERTY ImplementsStringValue
