SPECIFICATION Spec
CONSTANTS
  Word = {"A", "B", "C", "AND", "and", "OR", "NOT", "R_TRIG", "F_TRIG", "0", "1", "2", "x", "y"}
  MaxTruthAtoms = 2
  AbsTol = 1
  RelScale = 8
  MaxLexemes = 5
  MaxAttributes = 3
  ShortAddresses <- MCShortAddresses
  Attribute <- Points
  PointDocs <- MCPointDocs
  Declaration <- Declared
  ExtRef <- ExtRefs
  GooseDocs <- MCGooseDocs
  BlockCalls <- MCBlockCalls
  AnalogCalls <- MCAnalogCalls
  IdentifierCalls <- MCIdentifierCalls
  Cidr <- MCCidr
  LookupCalls <- MCLookupCalls
  CheckCalls <- MCCheckCalls
  ImportCalls <- MCImportCalls
  ParseCalls <- MCParseCalls
  CompareCalls <- MCCompareCalls
  Upper <- MCUpper
  NoKey = NoKey
  NoBit = NoBit
  Option = {"A", "2"}
  Numeric = {"0", "1", "5"}
INVARIANTS ParserReadsTheGrammar VerdictIsFunction PivotIsWorst BitsAtTheirState HealthOfPublisher ProfileAnswers OverlayFirst FreeSlotsQuiet ImportLosesNothing
CHECK_DEADLOCK FALSE
