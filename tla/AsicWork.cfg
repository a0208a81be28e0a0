\* Words of four bits.
CONSTANTS
  W = 4
  Plus <- BinaryPlus
  K <- Constants
  CLOCK_CONFIG <- Clock
  Midstates <- SomeMidstates
  Datas <- SomeDatas
SPECIFICATION FairSpec
INVARIANTS PrecalcAgrees ChipGetsUnit
PROPERTIES UnitIsSent
