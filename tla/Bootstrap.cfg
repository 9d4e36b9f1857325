SPECIFICATION Spec
CONSTANTS
  Meta <- MCMeta
  Others = {"data"}
  Chunks <- MCChunks
  GoodSets <- MCGoodSets
  Options <- MCOptions
  Filesystems = {"ntfs", "tree"}
  Ciphers = {TRUE, FALSE}
INVARIANTS
  ImagesUnmixed
  AsksRightRegion
  NeverOnCiphertext
  CoverageTrue
