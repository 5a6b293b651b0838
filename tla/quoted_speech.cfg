SPECIFICATION Spec
CONSTANTS
  Quote = "quote"
  Word <- MCWord
  Text <- MCText
  MaxLen = 2
INVARIANTS
  HeardTextExact
