------------------------- MODULE MCGrFlatFlowgraph -------------------------
(* Blocks and wirings on which TLC runs GrFlatFlowgraph.                    *)
(* Leaves: a, b sources; z a source of items of another size; c an adder of *)
(* one or two inputs; d a sink; x a copier, which wants as many outputs as  *)
(* inputs, and y a sink inside h.                                           *)
(* Hierarchical blocks: the top block, h with an input and an output, g     *)
(* without ports, which connects the adder to d, as the top block does.     *)
EXTENDS GrFlatFlowgraph

a == 1
b == 2
c == 3
d == 4
x == 5
y == 6
z == 7
h == 8
g == 9
top == 10

Blks == 1 .. 10
HierBlks == {h, g, top}

Ins     == [k \in Blks |-> IF k \in {a, b, z, g, top} THEN 0 ELSE 1]
MostIns == [Ins EXCEPT ![c] = 2]
Outs    == [k \in Blks |-> IF k \in {d, y, g, top} THEN 0 ELSE 1]
LeastOuts == [Outs EXCEPT ![x] = 0]
Topology(k, nin, nout) == k = x => nin = nout
Sizes   == [k \in Blks |-> IF k = z THEN 8 ELSE 4]

E(s, t, port) == <<<<s, 0>>, <<t, port>>>>

\* What the constructors of h and g connect.
Inside == [k \in {h, g} |-> IF k = h THEN {E(h, x, 0), E(x, h, 0)} ELSE {E(c, d, 0)}]

\* a through the adder to d; the edits lead through h as well, and put g into
\* h, where its edge is the top block's a second time.
ThroughC == [k \in HierBlks |-> IF k = top THEN {E(a, c, 0), E(c, d, 0)} ELSE Inside[k]]
Edits == [k \in HierBlks |->
  IF k = top THEN {E(a, h, 0), E(h, d, 0), E(a, c, 0), E(b, c, 1), E(z, c, 1),
                   E(c, h, 0), E(c, d, 0), E(h, c, 1)}
  ELSE IF k = h THEN {E(h, x, 0), E(h, y, 0), E(x, h, 0), E(z, h, 0)}
  ELSE {}]
Singles == [k \in HierBlks |-> IF k = h THEN {g} ELSE {}]

\* a and b into the adder, and its second input taken away and given back.
Adder == [k \in HierBlks |->
  IF k = top THEN {E(a, c, 0), E(b, c, 1), E(c, d, 0)} ELSE Inside[k]]
SecondInput == [k \in HierBlks |-> IF k = top THEN {E(b, c, 1)} ELSE {}]
NoSingles == [k \in HierBlks |-> {}]

Needs == [k \in Blks |-> IF k = x THEN 6 ELSE 2]
Twos  == [k \in Blks |-> 2]

\* The top block holds h and g, h may hold g, and both hold leaves.
ASSUME NoLoops == Nested
=============================================================================
