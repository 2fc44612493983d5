\* A source of up to three pages, written three times during copies that may
\* fail and be cancelled, under entries that a reload changes.
CONSTANTS
    MaxPages = 3
    MaxWrites = 3
    Tunings <- Entries
    Removed = Removed
    Boxes <- Configured
    Nothing = Nothing
    Failures = {"open", "step"}
    MaxFailures = 1
SPECIFICATION FairSpec
PROPERTIES ImplementsAtomicCopy StepsGetOn CopyEnds
