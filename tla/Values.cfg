SPECIFICATION ValuesSpec
CONSTANTS
  Objs = {"x", "y"}
  Values = {1, 2}
  Ptrs = {"x", "y"}
  Objects = {1, 2, 3}
  Deleters = {"default", "D"}
  s1 = s1
  s2 = s2
  s3 = s3
  w1 = w1
  w2 = w2
  b1 = b1
  b2 = b2
  Null = Null
  Shareds = {s1, s2, s3}
  Weaks = {w1, w2}
  Blocks = {b1, b2}
  FromThis = {b1}
  Failures = TRUE
SYMMETRY Symmetry
VIEW View
CHECK_DEADLOCK FALSE
INVARIANT SharedPtrsSound
PROPERTIES HoldersSound  OwnersSound NoResurrection
