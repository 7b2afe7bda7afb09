SPECIFICATION Spec
CONSTANTS
  Migrators = {m1}
  Nobody = Nobody
SYMMETRY MigratorSymmetry
INVARIANTS
  RerunIsSafe
