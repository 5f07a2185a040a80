---------------------------- MODULE MCDefectApi ----------------------------
\* Instances of DefectApi small enough for TLC.
EXTENDS DefectApi, TLC

MCKeys    == {"Defects", "Archive"} \X Ids
MCQueried == {"Defects"} \X Ids

Symmetry == Permutations(Devices)
============================================================================
