SPECIFICATION Spec
CONSTANTS
  Tabs = {a, b}
  Rules = {r1, r2, r3, r4}
  NoRule = NoRule
  Seeded = {r1}
  Drafted = {r2}
  MaxDepth = 2
  MaxEdits = 1
  MaxFiles = 1
  MaxSaves = 2
  MaxLost = 1
  MaxSpent = 3
SYMMETRY Symmetry
INVARIANTS TypeOK FormMirrorsApi RulesAreWhole ReopensAsSaved
PROPERTIES KeepsSentButtons OnlyUploadsMix
