CONSTANTS
  Sess = {s1, s2, s3}
  Child = {c1}
  None = None
  Reuse = TRUE
  Race = FALSE
SPECIFICATION Spec
INVARIANT FiredIsFree
