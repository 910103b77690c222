CONSTANTS
  m1 = m1
  m2 = m2
  m3 = m3
  Inbox = Inbox
  Trash = Trash
  Message = {m1}
  Mailbox = {Inbox, Trash}
  Untyped = {}
  Placement <- OneFolder
  Erasing = {Trash}
  Unparsable = {}
  NoState = NoState
  NoOp = NoOp
  UpdateBuffer = 2
  MaxWebChanges = 1
  MaxClientOps = 1
  MaxFailures = 0
  MaxRestarts = 0
  MovesDuringScan = FALSE
  ClientKind = {"seen"}
SPECIFICATION Spec
INVARIANT QuietSyncInLine
