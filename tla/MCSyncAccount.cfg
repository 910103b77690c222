CONSTANTS
  m1 = m1
  m2 = m2
  m3 = m3
  Inbox = Inbox
  Trash = Trash
  Message = {m1, m2}
  Mailbox = {Inbox, Trash}
  Untyped = {}
  Placement <- OneFolder
  Erasing = {Trash}
  Unparsable = {}
  NoState = NoState
  NoOp = NoOp
  UpdateBuffer = 1
  MaxWebChanges = 2
  MaxClientOps = 0
  MaxFailures = 1
  MaxRestarts = 1
  MovesDuringScan = FALSE
  ClientKind = {}
SPECIFICATION FairSpec
INVARIANTS FolderFirst FolderAnnouncedOnce
 
