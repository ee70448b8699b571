CONSTANTS
  F1 = F1
  F2 = F2
  Frame = {F1, F2}
  Batch <- MCBatch
  Silence = Silence
  Capacity = 3
  Chunk = 2
  MaxRequest = 5
SPECIFICATION Spec
INVARIANT TypeOK
PROPERTY BufferSpec
