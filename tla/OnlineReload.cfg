\* A reload takes the entry out between its selection and its copy.
CONSTANTS
    MaxPages = 2
    MaxWrites = 1
    Tunings <- Entries
    Removed = Removed
    Boxes <- Removable
    Nothing = Nothing
    Failures = {}
    MaxFailures = 0
SPECIFICATION FairSpec
PROPERTIES CopyEnds
