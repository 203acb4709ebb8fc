SPECIFICATION FairSpec
CONSTANTS
  m1 = m1
  m2 = m2
  e1 = e1
  e2 = e2
  e3 = e3
  b1 = b1
  b2 = b2
  Msgs = {m1, m2}
  MaxVersion = 2
  Files = {e1}
  NoFile = NoFile
  MimeOf <- MCSameMime
  BlobsOf <- MCNoBlobs
  Oversize <- MCGrown
  Fragile = {}
  CaptureLimit = 1
  MaxDelete = 1
  ChunkSize = 1
  DeleteEnabled = TRUE
  DeleteAuto = FALSE
PROPERTIES PurgeIsRecorded CaptureIsDecided
