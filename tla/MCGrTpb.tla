------------------------------ MODULE MCGrTpb ------------------------------
(* Flowgraphs on which TLC runs GrTpb. *)
EXTENDS GrTpb, TLC

CONSTANTS src, src2, mid, snk, snk2, f1, f2, f3

One == [b \in Blocks |-> 1]

\* src -> snk; three items through a buffer of two.
PairIns    == (src :> <<>>) @@ (snk :> <<f1>>)
PairOuts   == (src :> <<f1>>) @@ (snk :> <<>>)
PairWriter == f1 :> src
PairRdrs   == f1 :> <<snk>>
PairLimit  == (src :> 3) @@ (snk :> 9)

\* src, src2 -> mid -> snk, where mid decimates by two with a history of two.
\* The sources have two items for buffers with room for three.  src makes them
\* two at a time, so that it blocks on its output when it has; src2 ends at once.
JoinIns    == (src :> <<>>) @@ (src2 :> <<>>) @@ (mid :> <<f1, f2>>) @@ (snk :> <<f3>>)
JoinOuts   == (src :> <<f1>>) @@ (src2 :> <<f2>>) @@ (mid :> <<f3>>) @@ (snk :> <<>>)
JoinWriter == (f1 :> src) @@ (f2 :> src2) @@ (f3 :> mid)
JoinRdrs   == (f1 :> <<mid>>) @@ (f2 :> <<mid>>) @@ (f3 :> <<snk>>)
MidTwo     == [One EXCEPT ![mid] = 2]
SrcTwo     == [One EXCEPT ![src] = 2]
JoinLimit  == (src :> 2) @@ (src2 :> 2) @@ (mid :> 9) @@ (snk :> 9)

\* src -> mid and snk2, mid -> snk, where mid is a gr_head of one item.
FanIns    == (src :> <<>>) @@ (mid :> <<f1>>) @@ (snk :> <<f2>>) @@ (snk2 :> <<f1>>)
FanOuts   == (src :> <<f1>>) @@ (mid :> <<f2>>) @@ (snk :> <<>>) @@ (snk2 :> <<>>)
FanWriter == (f1 :> src) @@ (f2 :> mid)
FanRdrs   == (f1 :> <<mid, snk2>>) @@ (f2 :> <<snk>>)
FanLimit  == (src :> 9) @@ (mid :> 1) @@ (snk :> 9) @@ (snk2 :> 9)
=============================================================================
