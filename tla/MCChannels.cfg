SPECIFICATION Spec
CONSTANTS
  CommandSlots = 3
  RequestSlots = 3
  ReplySlots = 1
  Batch = 2
  Parameters = 2
  LineLength = 1
  FrameBytes = 4
  BodyBytes = {"C", "newline"}
  Lines <- MCLines
  FrameKinds = {"hello", "other"}
INVARIANTS
  TypeOK
  AnswersMatchQuestions
  MessagesArePrompt
PROPERTIES
  FramesAreDelivered
  LinesAreAnswered
