\* Branches of two edits to the values files, in which git may see renames.
CONSTANTS
    missing = missing
    broken = broken
    absent = absent
    null = null
    blank = blank
    none = none
    Missing = missing
    Broken = broken
    Absent = absent
    Null = null
    Blank = blank
    None = none
    BlockSize = 8
    Sizes <- SomeSizes
    TooLong <- LongTexts
    UpperOf <- Uppers
    FailoverOf <- FailoverNames
    Sites <- TwoSites
    Mces <- OneMce
    Clusters <- TwoClusters
    Texts <- EveryText
    Trees <- SomeTrees
    MaxEdits = 2
SPECIFICATION Spec
INVARIANTS
    MainStaysValid
    OnlyMovesSlip
    AppliesAsValidated
    RefusesNothingElse
    ReadsBackUnchanged
CHECK_DEADLOCK FALSE
