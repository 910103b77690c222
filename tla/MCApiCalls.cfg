SPECIFICATION ListingSpec
CONSTANTS
  discard = discard  send = send
  old = old  mid = mid  new = new  newest = newest
  Call = {discard, send}
  Method <- MCMethod
  MaxAttempts = 2
  Emails <- MCEmails
  Limit = 2
  Discard = discard  Discarded = new
  Send = send  Sent = newest
INVARIANTS OnceUnlessIdempotent ListingComplete
PROPERTIES Implements EveryCallReturns ListingEnds
CHECK_DEADLOCK FALSE
