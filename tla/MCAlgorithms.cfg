SPECIFICATION Spec

CONSTANTS
  P = 7
  Word = 64
  Half = 4
  MaxLen = 3
  Types <- SomeTypes
  DecodeTasks <- SomeDecodeTasks
  EncodeTasks <- SomeEncodeTasks
  ParseTasks <- SomeParseTasks

INVARIANTS
  FieldExact
  DecoderExact
  RoundTrip
  WholeMessagesOnly
  AcceptedIsValue
