SPECIFICATION Spec
CONSTANTS
  Quote = "quote"
  Word <- MCWord
  Text <- MCText
  MaxLen = 4
INVARIANTS
  TypeOK
  MatchesReference
  NoMarkerLeft
