\* Two threads hash two strings on a heap of two blocks.
SPECIFICATION Spec
CONSTANTS
  T1 = T1
  T2 = T2
  B1 = B1
  B2 = B2
  Threads <- MCThreads
  Texts <- MCTexts
  Blocks <- MCBlocks
  Noise = Noise
  None = None
INVARIANT OwnDigest
