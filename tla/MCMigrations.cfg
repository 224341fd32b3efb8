\* Two replicas; of five migrations, 3 rebuilds a table and 5 renames a column.
CONSTANTS
  Replicas = {r1, r2}
  Files = 5
  Rebuilds = {3}
  Conflicts <- MCConflicts
  MaxRows = 1
  MaxFaults = 2
SPECIFICATION FairSpec
INVARIANTS
  TypeOK
  InOrder
PROPERTIES
  RowsLostToStaleCopy
  StartsUpUnlessWedged
CHECK_DEADLOCK FALSE
