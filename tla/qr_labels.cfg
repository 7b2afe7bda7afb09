SPECIFICATION Spec
CONSTANTS
  Workers = {w1, w2}
  NoWorker = NoWorker
  Resources = {r1, r2}
  Keys = {k1, k2}
  NoKey = NoKey
  MaxTokens = 4
SYMMETRY LabelSymmetry
INVARIANTS
  TypeOK
  IndexIsABackstop
  LabelsAreRecorded
PROPERTIES
  OnlyRegenerationReplaces
  ImplementsRegistry
