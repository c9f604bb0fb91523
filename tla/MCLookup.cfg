\* A UDP server sends up to three datagrams, of which one kind is longer than
\* the receive buffer.  The call ends, or waits for what never comes.
SPECIFICATION LookupSpec
CONSTANTS
  NoReply = NoReply
  NoAnswer = NoAnswer
  Throws = Throws
  Replies <- MCReplies
  Cases <- MCCases
  Ids <- MCIds
  MaxReplies = 3
  MaxDatagram = 60
INVARIANTS
  FirstReplyReturned
  OneReplyIsSafe
  QueryAsksName
  AnswerIsRead
PROPERTIES
  ReplyEndsRelay
  ReceiverEnds
CHECK_DEADLOCK FALSE
