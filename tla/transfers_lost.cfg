CONSTANTS
  t1 = t1
  t2 = t2
  t3 = t3
  a = a
  b = b
  c = c
  stranger = stranger
  Threads = {t1, t2, t3}
  Accounts = {a, b, c}
  Names = {a, b, c, stranger}
  Amounts <- MCAmounts
  Opening = 5
SPECIFICATION Spec
CHECK_DEADLOCK FALSE
SYMMETRY Symmetric
INVARIANT ExecutedIsNotUndone
