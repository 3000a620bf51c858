CONSTANTS
  Field <- AllFields
  Asked <- AskedHere
SPECIFICATION Spec
INVARIANTS
  TypeOK AnswerIsTrue PanicIsKnown
  CompleteIsServed AddressIsSettled ToolsAreServed
