SPECIFICATION Spec
CONSTANTS
  Null = Null
  Shareds = {s1, s2, s3}
  Weaks = {w1, w2}
  Blocks = {b1, b2}
  FromThis = {b1}
  Failures = TRUE
CHECK_DEADLOCK FALSE
INVARIANT ThrowingConstructorDeletes
