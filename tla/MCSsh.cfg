CONSTANTS
  t1 = t1
  t2 = t2
  a = a
  bang = bang
  Hole = Hole
  Main = Main
  Quote = Quote
  Backslash = Backslash
  NoCommand = NoCommand
  Letters = {a, bang}
  Escaped = {bang}
  Keys = {1, 2}
  Handlers = {t1, t2}
  MaxStarts = 2
  Commands <- MCCommands
SPECIFICATION LoginSpec
INVARIANTS
  LoginTypeOK
  SettledFileIsTable
  LoginFollowsTable
  AskedIsRun
PROPERTIES
  KeysReachFile
