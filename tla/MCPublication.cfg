SPECIFICATION Spec
CONSTANTS
  None = None
  Contents = {a, b}
  MaxBuilds = 3
  MaxSyncs = 2
SYMMETRY ContentSymmetry
CONSTRAINT NasNotExcused
CHECK_DEADLOCK FALSE
 
PROPERTIES EvidenceIsKept GrowsUnlessOverlapped
