----------------------------- MODULE MCFeedTable -----------------------------
\* Instances of FeedTable small enough for TLC.
EXTENDS FeedTable, TLC

\* Here clocks are put forward at 1 and back at 2, so that a local time 1 never is
\* and a local time 2 is twice; the other phones are one ahead all along.
MCMoments == 0..(MaxTime + 1)
MCOffset == [p \in Phones |-> [t \in MCMoments |->
                IF p = Here => t = 1 THEN 1 ELSE 0]]

Symmetry == Permutations(Ids)
==============================================================================
