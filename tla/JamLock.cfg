SPECIFICATION Spec
CONSTANTS
  t1 = t1
  t2 = t2
  t3 = t3
  t4 = t4
  t5 = t5
  h1 = h1
  h2 = h2
  Threads = {t1, t2, t3, t4, t5}
  Handles = {h1, h2}
  HandleOf <- MCHandleOf
INVARIANT Exclusion
PROPERTY SpinnersGetIn
