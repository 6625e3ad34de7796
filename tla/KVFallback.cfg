CONSTANTS
  t1 = t1
  t2 = t2
  t3 = t3
  k1 = k1
  k2 = k2
  v1 = v1
  v2 = v2
  NoTTL = NoTTL
  Cleanup = Cleanup
  Task = {t1}
  Key = {k1}
  Value = {v1}
  TTL <- AllTTLs
  NumReplicas = 1
  PrimaryMax = 1
  ReplicaMax = 1
  BatchSize = 1
  StartTime = 2
  MaxTime = 2
  MaxCrash = 1
  MaxBigint = 8
SPECIFICATION Spec
INVARIANT FallbackCoversReplicaCrash
