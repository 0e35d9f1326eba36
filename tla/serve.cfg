\* Two replicas race to create the queue and the table, serve and are stopped.
CONSTANTS
    r1 = r1
    r2 = r2
    b1 = b1
    Replicas <- TwoReplicas
    MaxFaults = 3
    Buckets <- OneBucket
    MaxErrors = 2
SPECIFICATION ServeFairSpec
INVARIANTS ServeTypeOK UpMeansProvisioned AnsweredBucketStored
PROPERTIES AllUpAtLast ShutdownEnds
CHECK_DEADLOCK FALSE
