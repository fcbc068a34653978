\* What follows a beginning holds another question, or an answer of either kind,
\* cut off at every byte; the options are all there are of up to five bytes, alone
\* and behind a name, a list of parameters or an address.
CONSTANTS
  MaxSize = 5
  OptionBytes = {0, 1, 2, 3, 192}
  Bytes = {0, 1, 2, 3, 192}
  Messages <- MCMessages
  Options <- MCOptions
  Counts = {0, 1, 2}
  HeaderSize = 1
  QuestionSize = 1
  RecordSize = 2
  TypeAt = 0
  LengthAt = 1
  TypeA = 1
  SizeA = 1
  TypeAaaa = 2
  SizeAaaa = 2
  Pointer = 192
  NoText = {192}
  MaxJumps = 2
  CodeEnd = 192
  CodeName = 1
  CodeRequested = 3
  CodeParams = 2
  Blank = {3}
SPECIFICATION PayloadSpec
INVARIANTS ReadsInside SaysWhatItSays OptionsAreRead
PROPERTY PayloadsHalt
