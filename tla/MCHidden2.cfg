CONSTANTS
  NoByte = NoByte
  NoName = NoName
  NoLexeme <- MCNoLexeme
  Unlimited = 1000
  SKIP = 0
  Start = "S"
  Bytes <- MCBytes
  ByteOrder <- MCByteOrder
  Lexemes <- MCLexemes
  LexStrings <- MCLexStrings
  HiddenLen <- MCHiddenLen
  Lazy <- MCLazy
  Symbols <- MCSymbols
  Rules <- MCRules
  SymLexeme <- MCSymLexeme
  CaptureName <- MCCaptureName
  StopCaptureName <- MCStopCaptureName
  MaxTokens <- MCMaxTokens
  MaxStack <- MCMaxStack
  MaxWord <- MCMaxWord
SPECIFICATION Spec
CHECK_DEADLOCK FALSE
PROPERTY
  PopBytesRestores
