SPECIFICATION Spec
CONSTANTS
  Batch = {1, 2}
  TargetId <- Ids
  BatchOf <- IdBatch
  None = None
  Messages <- FourDecoded
  Timeout = 2
  MaxRevision = 7
  Source = "bd"
  ZeroIsHostile = TRUE
  IdOf <- BatchId
  Ghost <- Misread
  Capacity = 2048
  Packets <- FourTargets
INVARIANTS NoGhosts
