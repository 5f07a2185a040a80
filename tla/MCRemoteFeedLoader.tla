------------------------- MODULE MCRemoteFeedLoader -------------------------
\* Instances of RemoteFeedLoader small enough for TLC.
EXTENDS RemoteFeedLoader, TLC

good(n) == [id |-> n, dated |-> TRUE]
bad(n)  == [id |-> n, dated |-> FALSE]

\* No items, two in either order, and a feed with an item that has no valid date.
MCFeeds == {<<>>, <<good(1), good(2)>>, <<good(2), good(1)>>, <<good(1), bad(2)>>}

MCStatuses == {200, 500}

Symmetry == Permutations(Loads)
============================================================================
