CONSTANTS
  p1 = p1  p2 = p2  p3 = p3  p4 = p4  p5 = p5
  d1 = d1  d2 = d2
  None = None
  Pieces = {p1, p2, p3, p4, p5}
  Drafts = {d1, d2}
  MaxPieces = 3
SYMMETRY Symmetry
SPECIFICATION Spec
INVARIANT NoCollision
INVARIANT SavedAsSubmitted
