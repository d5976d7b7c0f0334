SPECIFICATION Spec
CONSTANTS
  Unset = Unset
  MaxInt = 63
  Frame = 8
  Second = 10
  BinaryLimit = 3
  DefaultUpload = 12
  DefaultTtl = 5
  UploadSettings <- Settings
  TtlSettings <- Ttls
  Uploads <- Contents
  Streams = {0, 2, 3, 4, 5}
INVARIANTS
  WithinLimitPasses
  DownloadIsWhole
  BodyHoldsUpload
