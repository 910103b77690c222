SPECIFICATION Spec
CONSTANTS
  letter = letter  note = note  draft = draft
  x = x  y = y  r1 = r1  r2 = r2  r3 = r3
  NoMessage = NoMessage
  Message = {letter, note, draft}
  Attachment = {x, y}
  Carries <- Files
  NotOurs = {draft}
  Reader = {r1, r2}
  MaxFailures = 1
SYMMETRY Sessions
INVARIANTS KeptWhole OpenedAgainIsWhole
