CONSTANTS
  m1 = m1
  m2 = m2
  m3 = m3
  Inbox = Inbox
  Trash = Trash
  Message = {m1, m2, m3}
  Mailbox = {Inbox, Trash}
  Untyped = {}
  Placement <- OneFolder
  Erasing = {Trash}
  Unparsable = {m3}
  NoState = NoState
  NoOp = NoOp
  UpdateBuffer = 2
  MaxWebChanges = 0
  MaxClientOps = 1
  MaxFailures = 1
  MaxRestarts = 0
  MovesDuringScan = FALSE
  ClientKind = {"seen", "move", "copy", "remove"}
SPECIFICATION FairSpec
INVARIANTS QuietSyncInLine
