-------------------------- MODULE MCDefectTracker --------------------------
\* Instances of DefectTracker small enough for TLC.
EXTENDS DefectTracker, TLC

MCKeys    == {"Defects", "Archive"} \X Ids
MCQueried == {"Defects"} \X Ids
MCDocs    == Defect

Symmetry == Permutations(Contents)
============================================================================
