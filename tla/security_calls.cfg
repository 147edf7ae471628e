SPECIFICATION FairSpec
CONSTANTS
  p1 = p1
  p2 = p2
  a = a
  b = b
  Procs = {p1, p2}
  Passphrases = {a, b}
  Asked <- AskedByTwo
  Skus <- TwoSkus
  None = None
  Tries = 2
  Retries = 3
INVARIANTS DoneAsAsked StateTrusted
PROPERTIES CallsReturn
