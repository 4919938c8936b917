CONSTANTS
  Replicas = {a1, a2, w}
  Files = {1, 2}
  Nobody = Nobody
  Orphan = Orphan
  MaxFaults = 2
SPECIFICATION FairSpec
CHECK_DEADLOCK FALSE
INVARIANTS
  TypeOK
  RegistryIsExact
  FilesInOrder
  ReadyIsMigrated
PROPERTIES
  FailuresHaveACause
  EveryReplicaStarts
