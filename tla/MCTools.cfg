SPECIFICATION Spec
VIEW View
CONSTANTS
  Tools <- AllTools
  MaxGiven = 2
  MaxTurns = 2
  MaxKeys = 5
  MaxFields = 2
  MaxMatches = 5
  MaxOptions = 3
  MaxItems = 2
  MaxConditions = 3
INVARIANTS
  
  
  SelectsExactly
  
  EmatchTreeKept
  SsReadsWhatIsNamed
  SsBytecodeAgrees
 
CHECK_DEADLOCK FALSE
