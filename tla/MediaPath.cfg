SPECIFICATION Spec
CONSTANTS
  MAXLEN = 4
  Frames <- MCFrames
  OPUS_FRAME_SIZE = 3
  AAC_FRAME_SIZE = 4
  Channels = {1, 2, 3}
  MaxPcm = 7
INVARIANTS IInv Reassembles PictureSharesTimestamp AudioKeepsUp
