\* Five edits make a tree of three levels; a large record fits a page of its own.
CONSTANTS
  a = a  b = b  large = large
  Keys <- MCKeys
  TopByte = 1
  Records <- MCRecords
  EntrySize <- MCEntrySize
  Slack = 1
  Header = 1
  Link = 2
  PageSize = 15
  Seeds <- MCSeeds
  SeedRecord = a
  MaxOps = 3
  Null = Null
SPECIFICATION Spec
INVARIANTS
  ReadsAgree
  NeverLate
  PrefilterComplete
  ImplementsMap
CHECK_DEADLOCK FALSE
