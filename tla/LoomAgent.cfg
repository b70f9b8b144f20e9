SPECIFICATION FairSpec
CONSTANTS
  MaxLines = 3
  MaxPipe = 2
  MaxPrompts = 2
INVARIANTS
  TypeOK
  EventsInOrder
  OutcomeIsTheAgents
  QuestionsAreAnswered
  AgentEndsWithSession
PROPERTIES
  SessionEnds
CHECK_DEADLOCK FALSE
