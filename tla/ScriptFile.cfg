CONSTANTS
  MaxSize = 4
  MaxChanges = 2
SPECIFICATION FairScriptSpec
INVARIANTS ScriptIsFile
PROPERTIES ReturnsUnlessCutOff
