SPECIFICATION FairSpec
CONSTANTS
  Players = {"ann", "wiz"}
  Wizards = {"wiz"}
  Items = {"sword"}
  Weapons = {"sword"}
  MAX_COPIES = 2
INVARIANT TypeOK
PROPERTIES GainIsExplained LossIsExplained RecoveryEnds
CHECK_DEADLOCK FALSE
