CONSTANTS
  PointWords = 1
  RamWords = 6
  Rom <- MCRom
  Inputs = {i1, i2}
  NoInput = NoInput
  Programs <- MCPrograms
  Rings <- MCRings
  Submissions <- MCSubmissions
  MaxFrames = 2
  MaxTriangles = 1
SPECIFICATION Spec
INVARIANTS
  TypeOK
  OnlyThisFrame
  FrameClosed
  InputSeen
  ScannedIsFramed
PROPERTIES
  RefusalKeepsPrefix
