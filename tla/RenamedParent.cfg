\* Branches of one edit, whose deletions git may take for renames.
CONSTANTS
    missing = missing
    broken = broken
    absent = absent
    null = null
    blank = blank
    none = none
    Missing = missing
    Broken = broken
    Absent = absent
    Null = null
    Blank = blank
    None = none
    BlockSize = 8
    Sizes <- SomeSizes
    TooLong <- LongTexts
    UpperOf <- Uppers
    FailoverOf <- FailoverNames
    Sites <- TwoSites
    Mces <- OneMce
    Clusters <- TwoClusters
    Texts <- FewTexts
    Trees <- SomeTrees
    MaxEdits = 1
SPECIFICATION Spec
INVARIANTS
    InheritorsValidated
CHECK_DEADLOCK FALSE
