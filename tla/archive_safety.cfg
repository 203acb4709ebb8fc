SPECIFICATION Spec
CONSTANTS
  m1 = m1
  m2 = m2
  e1 = e1
  e2 = e2
  e3 = e3
  b1 = b1
  b2 = b2
  Msgs = {m1}
  MaxVersion = 2
  Files = {e1, e2, b1, b2}
  NoFile = NoFile
  MimeOf <- MCMimeOf
  BlobsOf <- MCBlobsOf
  Oversize = {}
  Fragile = {e1, b1}
  CaptureLimit = 2
  MaxDelete = 2
  ChunkSize = 1
  DeleteEnabled = TRUE
  DeleteAuto = FALSE
INVARIANTS TypeOK CopyIsOfPurgedVersion InventoryNotStale
PROPERTIES TombstoneIsFinal CustodyKept
