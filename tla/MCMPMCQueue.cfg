SPECIFICATION Spec
CONSTANTS
  Threads = {t1, t2, t3}
  Values = {a, b}
  Nothing = Nothing
  Size = 2
  MaxTickets = 4
SYMMETRY Symmetry
INVARIANTS IInv
PROPERTIES FullIsReal EmptyIsReal ImplementsFifo
