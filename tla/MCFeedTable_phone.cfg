\* Three defects, created here or one hour ahead, and two loads under way.
CONSTANTS
    Ids = {i1, i2, i3}
    None = None
    Phones = {here, east}
    Here = here
    Moments <- MCMoments
    Offset <- MCOffset
    MaxTime = 3
    MaxLoads = 2
SYMMETRY Symmetry
SPECIFICATION Spec
INVARIANT TypeOK RowsOpenWhatTheyShow FeedInOrder TrapsNeedForeignTexts
