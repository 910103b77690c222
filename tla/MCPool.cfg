SPECIFICATION Spec
CONSTANTS
  a1 = a1  a2 = a2  a3 = a3  b1 = b1  b2 = b2  conv1 = conv1  conv2 = conv2
  Main = Main  None = None
  Task = {a1, a2, a3, b1, b2}
  Thread = {conv1, conv2}
  Boxes = 2
  BoxOf <- Folders
  ThreadOf <- Conversations
  Unparsable = {a2}
  Concurrency = 3
  Batch = 2
  UpdateBuffer = 1
  MaxFailures = 1
INVARIANTS BatchBounded ClosedAtTotal ConversationOnce
PROPERTIES ReportsInOrder Implements
