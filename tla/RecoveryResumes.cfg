SPECIFICATION FairSpec
CONSTANTS
  Sectors <- MCSectors
  Files <- MCFiles
  Layouts <- LiveLayouts
  Options <- LiveOptions
  Disks <- WithMap
  Ciphers = {TRUE, FALSE}
PROPERTIES
  Resumes
