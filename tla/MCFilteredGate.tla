---- MODULE MCFilteredGate ----
(* KnockGate with the filter in front of it.  What the filter does to a     *)
(* frame does not depend on the gate's state, so the frames are explored    *)
(* beside the gate, while it is idle, and not with each of its states.      *)
EXTENDS MCKnockGate, KnockFilter

CONSTANT OtherPort

\* Lengths and fields at every boundary that the filter or the parser decides by.
BoundaryFrames ==
    [len : {13, 33, 37, 41, 42, 86, 90, 100}, type : {2048, 34525},
     version : {4, 6}, ihl : {4, 5, 6}, fragment : {0, 1, 8191},
     flags : {0, 1, 2}, proto : {6, 17}, port : {KnockPort, OtherPort},
     ulen : {7, 8, 51, 52, 53}, decoy : {0, KnockPort}]

FilteredInit == Init /\ FilterInit

FilteredSpec ==
    /\ FilteredInit
    /\ [][ \/ FilterInit /\ Next /\ UNCHANGED filter
           \/ Init /\ FilterNext /\ UNCHANGED vars ]_<<vars, filter>>

====
