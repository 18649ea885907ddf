SPECIFICATION VaultSpec
CONSTANTS
  MaxKeys = 2
  MaxCrashes = 3
  None = None
INVARIANTS ReadableInv StartupSettingsInv
PROPERTIES ChoicesSurvive VaultBoots
