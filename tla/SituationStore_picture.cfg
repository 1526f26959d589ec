SPECIFICATION Spec
CONSTANTS
  Batch = {1, 2}
  TargetId <- Ids
  BatchOf <- IdBatch
  None = None
  Messages <- SomeStamped
  Timeout = 2
  MaxRevision = 6
  Source = "bd"
  ZeroIsHostile = TRUE
  IdOf <- BatchId
  Ghost <- Misread
  Capacity = 2048
  Packets <- SomePackets
PROPERTIES PictureSpec RevisionMarksChange OnlyNewerReports ReportsArrive
