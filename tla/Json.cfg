CONSTANTS
  Tokens = {"[", "]", "{", "}", ",", ":", "string", "another", "escaped", "scalar", "inexact", "huge", "junk", "open"}
  MaxTokens = 9
  StringLength = 6
  InitialSize = 3

SPECIFICATION Spec

INVARIANTS
  TypeOK
  ParsesTheGrammar
  BuildsTheTree
  OwnsItsTree
  AddsOnlyValues
  
  TextFits
CHECK_DEADLOCK FALSE
