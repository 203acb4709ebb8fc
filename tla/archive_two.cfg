SPECIFICATION Spec
CONSTANTS
  m1 = m1
  m2 = m2
  e1 = e1
  e2 = e2
  e3 = e3
  b1 = b1
  b2 = b2
  Msgs = {m1, m2}
  MaxVersion = 1
  Files = {e1, e3, b1}
  NoFile = NoFile
  MimeOf <- MCMimeOf
  BlobsOf <- MCBlobsOf
  Oversize = {}
  Fragile = {e1, b1}
  CaptureLimit = 2
  MaxDelete = 2
  ChunkSize = 1
  DeleteEnabled = TRUE
  DeleteAuto = FALSE
INVARIANTS NoLoss AuditIsTrue
PROPERTY PurgeOnlyVerified
