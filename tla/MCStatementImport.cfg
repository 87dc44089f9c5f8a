CONSTANTS
  coffee = coffee
  ticket = ticket
  Accounts = {card}
  Operations <- MCOperations
  Bank <- MCBank
  Day = 4
  Zone = 1
  MaxMessages = 2
  MaxMeetings = 1
  MaxRestarts = 1
  MaxLost = 1
SPECIFICATION ImportSpec
INVARIANTS
  ImportTypeOK
  NothingEnteredTwice
PROPERTIES
  ShownBeforeWritten
  NoRowLost
  EveryMessageEnds
CHECK_DEADLOCK FALSE
