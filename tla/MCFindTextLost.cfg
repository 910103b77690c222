SPECIFICATION Spec
CONSTANTS
  KeyPair <- MCKeyPair
  Usable <- MCUsable
  Address <- MCAddress
  Lower <- MCLower
  Snippet <- MCSnippet
  MessageID = {"id1", "id2"}
  NoMessageID = "no id"
  Kept = 1
  Session = {s1}
  Message = {"split"}
  Composed <- MCComposed
  RecipientLists <- MCRecipientLists
  Settings <- MCSettings
  Known = {"old"}
  MaxSubmissions = 1
  MaxAppends = 0
  MaxRestarts = 0
INVARIANT EveryTextRead
CHECK_DEADLOCK FALSE
