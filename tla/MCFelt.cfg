SPECIFICATION Spec
CONSTANTS
  Vocabularies <- MCVocabularies
  Depth = 3
  Arguments = {1, 3}
  ParseLevel <- FeltLevel
  ParseRest <- FeltRest
  ParseUnary <- FeltUnary
  ParseArguments <- FeltArguments
  ParseAtom <- FeltAtom
  ParseParams <- FeltParams
  ParseArms <- FeltArms
  ParseWhere <- FeltWhere
  ParseProgram <- FeltProgram
  Accepts <- TypesAccepted
  Calls <- FeltCalls
  Translate <- CompileModule
  Run <- Outcome
INVARIANTS
  ParsesAsWritten
  RecursionRefused
  MeaningKept
CHECK_DEADLOCK FALSE
