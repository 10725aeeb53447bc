\* Every input of up to seven bytes, in tokens of one byte or three and end tags of
\* none, with a limit and without.
SPECIFICATION Spec
CONSTANTS
  Names = {"a", "b"}
  Limits = {0, 5}
  Sizes = {0, 1, 3}
  MaxOffset = 7
  MaxDepth = 3
INVARIANTS StackMatches StanzasReturned ReadAtOnceIsLimited
PROPERTIES TooLargeIsFinal
\* The input ends, and a panic ends the process.
CHECK_DEADLOCK FALSE
