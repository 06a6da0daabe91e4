CONSTANTS
  Sections = 2
  FlashPages = {1, 2}
  Blobs <- ConfigBlobs
  Torn = torn
  BoardIds = {1, 2}
  DefaultId = 0
  LossMax = 1
SPECIFICATION ConfigSpec
INVARIANT PowerLossKeepsConfig
