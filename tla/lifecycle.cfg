SPECIFICATION FairSpec
CONSTANTS
    N = 2
    Word = 16
    MaxAdds = 1
    MaxReports = 2
INVARIANTS
    IntervalsAddUp
    SummaryFinal
PROPERTY Returns
