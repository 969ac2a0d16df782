SPECIFICATION FairJson
CONSTANTS
  TextFiles <- CutFiles
INVARIANTS
  
  SimpleKeepsLinesApart
PROPERTIES
  ParserReturns
