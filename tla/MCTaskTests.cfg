SPECIFICATION BenchSpec
CONSTANTS
  p1 = p1
  p2 = p2
  indented = indented
  broken = broken
  greet = greet
  margin = margin
  h = h
  Process = {p1, p2}
  Watched = {p1}
  Code = {indented, broken}
  Builds = {indented}
  Elsewhere = {indented}
  MaxOthers = 1
  Task = {greet, margin}
  Symbol = {CR, Space, Newline, h}
  Prints <- MCPrints
  Expected <- MCExpected
  Typed <- MCTyped
  None = None
  Torn = Torn
  CR = CR
  Space = Space
  Newline = Newline
INVARIANT AnswersPass
