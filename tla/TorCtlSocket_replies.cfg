SPECIFICATION Spec
CONSTANTS
  Answers <- MCAnswers
  Events <- MCEvents
  Keeping = {1}
  MaxReplyLines = 2
  MaxData = 3
  MaxEvents = 1
INVARIANTS
  HandlersGetTheirReplies
CHECK_DEADLOCK FALSE
