\* The claim of the test, with a client that calls back on its own thread.
CONSTANTS
    Loads = {l1, l2}
    Garbage = Garbage
    NoResponse = NoResponse
    Feeds <- MCFeeds
    Statuses <- MCStatuses
    OneThread = FALSE
SYMMETRY Symmetry
SPECIFICATION Spec
PROPERTY NoDeliveryAfterRelease
CHECK_DEADLOCK FALSE
