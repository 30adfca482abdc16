SPECIFICATION Spec
CONSTANTS
  Base = 8
  Radix = 5
  MaxBytes = 4
  WordBits = 2
  WIDTH = 3
  IntMax = 12
  VERSION = 2
  HashSize = 1
  PushData1 = 2
  Scripts <- AllScripts
  Given <- TheGiven
  Coins <- TheCoins
  MyKeys = {1, 2}
  OutValues = {1, 2}
  MaxEdits = 3
  FieldLength = 2
  HashBytes = 1
  HeaderBytes = 3
  pchMessageStart <- StartBytes
  FileLimit = 60
  MAX_MONEY = 3
  ValueBits = 4
  UINT_MAX = 4095
  COPY_DEPTH = 3
  Maps <- TheMaps
  Blocks <- TheBlocks
  Cut <- TheCuts
  MaxWrites = 3
  MaxLeaves = 9
  Versions <- TheVersions
  Amounts <- TheAmounts
  Wallets <- TheWallets
  MinSamples = 3
  Samples <- TheSamples
INVARIANTS
    MachineInv
    SignaturesSound
    ValuesKept
    AnswersRight
PROPERTIES
    InstructionEffects
CHECK_DEADLOCK FALSE
