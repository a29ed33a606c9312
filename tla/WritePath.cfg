CONSTANTS
  main = main  x = x  s1 = s1  s2 = s2  scrape = scrape
  Branches = {main, x}
  Main = main
  Observations = {1}
  Claims = {2, 3}
  MergeNote = 0
  Sources = {scrape}
  Trust <- MCTrust
  MaxDepth = 2
  Null = Null
  Sessions = {s1, s2}
  Scope <- MCScope
  Does <- MCDoes
  Writes <- MCWrites
  Commits = {0, 1, 2, 3}
  RootCommit = 0
  Answers <- MCAnswers
  Hints = {TRUE}
SPECIFICATION Spec
INVARIANTS TypeOK Complete Precise LabelsInherited BeliefAgrees
PROPERTIES PastFixed
CHECK_DEADLOCK FALSE
