\* Two loads in flight, client and owner on one thread.
CONSTANTS
    Loads = {l1, l2}
    Garbage = Garbage
    NoResponse = NoResponse
    Feeds <- MCFeeds
    Statuses <- MCStatuses
    OneThread = TRUE
SYMMETRY Symmetry
SPECIFICATION Spec
INVARIANT TypeOK AnswersAreReferenceAnswers
PROPERTY NoDeliveryAfterRelease
CHECK_DEADLOCK FALSE
