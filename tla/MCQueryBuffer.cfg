SPECIFICATION FairSpec
CONSTANTS
  DefaultSize = 2
  BigArg = 4
  ResizeThreshold = 4
  Sizes = {0, 1, 3, 4, 5, 9, 12}
PROPERTIES
  RestFits
  SilentReleases
