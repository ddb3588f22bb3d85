\* One external and one internal node, with two outputs each; three variables.
SPECIFICATION Spec
CONSTANTS
  NodeIds <- MCNodeIds
  MaxIndex = 1
  Names <- MCNames
  MaxMade = 3
INVARIANTS ViewsAgree DeletedOnce ClientArraysKept NothingDangles
INVARIANTS EntriesCountedOnce
PROPERTY CloneIsFaithful
\* Once the bound is reached and the spaces are gone, nothing is left to do.
CHECK_DEADLOCK FALSE
