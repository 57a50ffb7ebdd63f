SPECIFICATION Spec
CONSTANTS
  Table = {a, b}
  Vals = {d, ffff}
  Blank = ffff
  NoVar = NoVar
  NotFound = NotFound
  NoCall = NoCall
  Slots = 4
  MaxResets = 2
  Misfortunes = {"power"}
PROPERTIES KeepsPromise
