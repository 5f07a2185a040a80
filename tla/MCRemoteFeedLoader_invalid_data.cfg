\* The claim of the test, for a body that decodes with a date that does not.
CONSTANTS
    Loads = {l1, l2}
    Garbage = Garbage
    NoResponse = NoResponse
    Feeds <- MCFeeds
    Statuses <- MCStatuses
    OneThread = TRUE
SYMMETRY Symmetry
SPECIFICATION Spec
INVARIANT InvalidDataIsReported
CHECK_DEADLOCK FALSE
