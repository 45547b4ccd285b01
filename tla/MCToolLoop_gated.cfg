SPECIFICATION Spec
CONSTANTS
  Blank = " "
  Mark = "#"
  Chars <- SomeChars
  Texts <- SomeTexts
  Answers <- SomeAnswers
  MinLen = 2
  MaxIters = 2
  MaxTalks = 2
INVARIANTS
  QuotedDataIsNotRun
  WrappedOnceAndRecorded
  LoopInv
CHECK_DEADLOCK FALSE
