SPECIFICATION Spec
CONSTANTS
  MaxDepth = 64
  OverflowChecks = FALSE
  Documents <- Certificates
  Typed <- Texts
  MaxChanges = 2
  Families <- SmallFamilies
  SigAlg <- SmallSigAlg
  HssLms = "hsslms"
  Custom = "rsaCustom"
  NoName = "rsa"
  MaxDigits = 2
  MinBits = 5
  MaxBits = 50
  Hashes = 1
  Heights = 1
  Winternitz = 1
  DefaultHeight = 0
  DefaultWinternitz = 0
  HssMaxLevels = 2
  KeyFiles <- SmallKeyFiles
  Unlocked <- SmallUnlocked
  KeyAlg <- SmallKeyAlg
  CertDn = "d"
  IssuedObjects <- Issued
  Chars = {"x"}
  Blank = " "
  Digits = {5}
  Vanishing <- SomeVanish
  MaxName = 2
  MaxPresses = 2
  SingleFile = FALSE
INVARIANTS
  FileNameFollows
  CursorsOnRows
PROPERTIES
  AppliedIsShown
  SubmittedKeyFits
