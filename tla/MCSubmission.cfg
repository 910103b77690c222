SPECIFICATION Spec
CONSTANTS
  KeyPair <- MCKeyPair
  Usable <- MCUsable
  Address <- MCAddress
  Lower <- MCLower
  Snippet <- MCSnippet
  MessageID = {"id1", "id2"}
  NoMessageID = "no id"
  Kept = 1
  Session = {s1, s2}
  Message = {"reply", "note"}
  Composed <- MCComposed
  RecipientLists <- MCRecipientLists
  Settings <- MCSettings
  Known = {"old"}
  MaxSubmissions = 2
  MaxAppends = 1
  MaxRestarts = 1
INVARIANTS
  SubmissionTypeOK
  AcceptedIsFiledOnce
  EveryoneAddressed
  OwnCopyReadable
  AppendNamesItsMessage
  
  SentMemoryExact
PROPERTY DataAnswered
CHECK_DEADLOCK FALSE
