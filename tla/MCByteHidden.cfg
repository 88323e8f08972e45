CONSTANTS
  NoName = NoName
  NoMV = NoMV
  NoLexeme = "none"
  Unlimited = 1000
  Start = "S"
  MaxWord = 1
  Bytes <- MCBytes
  Symbols <- MCSymbols
  Rules <- MCRules
  SymLexeme <- MCSymLexeme
  TermBytes <- MCTermBytes
  CaptureName <- MCCaptureName
  StopCaptureName <- MCStopCaptureName
  MaxTokens <- MCMaxTokens
  ModelVar <- MCModelVar
  CommitPoint = {"STOP"}
  HiddenSym = {"STOP", "H"}
  MaxRows = 6
  MaskTokens <- MCMaskTokens
SPECIFICATION Spec
CHECK_DEADLOCK FALSE
INVARIANT
  CanContinue
