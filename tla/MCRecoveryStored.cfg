SPECIFICATION Spec
CONSTANTS
  Players = {"ann"}
  Wizards = {}
  Items = {"sword"}
  Weapons = {"sword"}
  MAX_COPIES = 2
PROPERTY StoredIsRecovered
