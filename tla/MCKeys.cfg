CONSTANTS
  t1 = t1
  t2 = t2
  Hole = Hole
  Main = Main
  Keys <- MCKeySet
  Handlers <- TwoHandlers
  MaxStarts = 1
SPECIFICATION Spec
INVARIANTS
  FileIsTable
