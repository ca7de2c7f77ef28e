SPECIFICATION FairSpec
CONSTANTS
  r1 = r1 r2 = r2 e1 = e1 s1 = s1
  Replica = {r1, r2}
  Consumer = {e1}
  Session = {s1}
  LookAhead = 1
  Migrated <- FirstWeeks
  FirstWeek = 1
  LastWeek = 2
  MaxWrites = 2
  MaxFaults = 1
PROPERTIES PartitionsCatchUp WritersGetThrough
INVARIANTS TablesAlike WritableAhead ReadyRoundsDisturbNobody
