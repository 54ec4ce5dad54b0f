CONSTANTS
    MaxLen = 3
    MaxCapacity = 4
    MaxBudget = 4
    MaxStr = 2
    MaxBuffLen = 13
SPECIFICATION Spec
INVARIANT SpliceHelperCorrect
INVARIANT SpliceCountExact
INVARIANT BatchIsShortestPrefix
INVARIANT VisitsUpToFirstMatch
INVARIANT LogLineCorrect
