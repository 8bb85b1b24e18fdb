--------------------------- MODULE GrFlatFlowgraph ---------------------------
(***************************************************************************)
(* gr_flat_flowgraph: the block details, buffers and readers that          *)
(* setup_connections() makes when gr_top_block_impl starts a flowgraph,    *)
(* and merge_connections() patches when the last unlock() restarts it.     *)
(*                                                                         *)
(* A buffer is told from every other one by its block, port and the        *)
(* configuration that allocated it.  A reader lives as long as the slot of *)
(* the block detail that holds it, so it is the buffer in that slot.       *)
(* GrTopBlock models the threads; here they have been joined.              *)
(***************************************************************************)
EXTENDS GrHierBlock2

CONSTANTS
  BaseItems,     \* items of a buffer nobody asks more of
  InNeed,        \* per block: 2 * (decimation * output_multiple + history)
  OutNeed,       \* per block: 2 * output_multiple
  MaxStarts, MaxConfigs, \* bounds: calls of start(), and of start() or restart()
  MaxRewires     \* bound: calls that change the wiring

\* A buffer, and a gr_block_detail: Null is an input without a reader, and the
\* detail of a block that has none.
Buffers == [blk : LeafBlocks, port : Nat, config : Nat, nitems : Nat]
Details == [input : Seq(Buffers \union {Null}), output : Seq(Buffers)]

ASSUME FlatAssumption ==
  /\ BaseItems \in Nat /\ InNeed \in [Blocks -> Nat] /\ OutNeed \in [Blocks -> Nat]
  /\ Null \notin Buffers /\ Null \notin Details

VARIABLES
  d_ffg,         \* edges of the current flat flowgraph
  detail,        \* gr_block::detail of the leaf blocks, Null at first
  d_state, locked,
  starts, configs, rewires   \* calls so far

flatVars == <<d_ffg, detail, d_state, locked, starts, configs>>
vars == <<hierVars, flatVars, rewires>>

-----------------------------------------------------------------------------
\* Mutant of allocate_buffer: the needs of the blocks downstream are ignored.
allocate_buffer_own(E, b, port) ==
  [blk |-> b, port |-> port, config |-> configs + 1, nitems |-> Max({BaseItems, OutNeed[b]})]

allocate_buffer(E, b, port) ==
  [blk |-> b, port |-> port, config |-> configs + 1,
   nitems |-> Max({BaseItems, OutNeed[b]}
                  \union {InNeed[Dst(e)[1]] : e \in {f \in E : Src(f) = <<b, port>>}})]

allocate_block_detail(E, b) ==
  LET ninputs  == Cardinality(calc_used_ports(E, b, TRUE))
      noutputs == Cardinality(calc_used_ports(E, b, FALSE))
  IN [input  |-> [i \in 1 .. ninputs |-> Null],
      output |-> [o \in 1 .. noutputs |-> allocate_buffer(E, b, o - 1)]]

\* Mutant of ClearOld: the readers of edges that go away are left in place.
ClearOld_never(E, D) == D

\* The readers of the old edges that are not in E are emptied.
ClearOld(E, D) ==
  [b \in LeafBlocks |->
     IF b \notin calc_used_blocks(d_ffg) THEN D[b]
     ELSE [D[b] EXCEPT !.input = [i \in DOMAIN @ |->
             IF \E e \in d_ffg \ E : Dst(e) = <<b, i - 1>> THEN Null ELSE @[i]]]]

\* make_scheduler() sorts the used blocks, and throws if there is a loop.
make_scheduler_ok(E) == E = {} \/ topological_sort(E, calc_used_blocks(E)) # <<>>

\* The input of e can be connected: set_input() and output() of the details,
\* which may be older than E, do not throw.
Connectable(e, D) ==
  Dst(e)[2] < Len(D[Dst(e)[1]].input) /\ Src(e)[2] < Len(D[Src(e)[1]].output)

\* Each of the edges gets its reader: the old one if it reads the right buffer.
ConnectInputs(E, D) ==
  [b \in LeafBlocks |->
     IF D[b] = Null THEN Null
     ELSE [D[b] EXCEPT !.input = [i \in DOMAIN @ |->
             IF \E e \in E : Dst(e) = <<b, i - 1>>
             THEN LET src == Src(calc_upstream_edge(E, <<b, i - 1>>))
                  IN D[src[1]].output[src[2] + 1]
             ELSE @[i]]]]

\* setup_connections: new details for every block in use, and their readers.
setup_connections(E) ==
  ConnectInputs(E, [b \in LeafBlocks |-> IF b \in calc_used_blocks(E)
                                     THEN allocate_block_detail(E, b) ELSE detail[b]])

\* merge_connections, up to where readers are attached: details for the blocks
\* that have none yet, and the readers of edges that go away are emptied.
PrepareMerge(E) ==
  ClearOld(E, [b \in LeafBlocks |-> IF b \in calc_used_blocks(E) /\ detail[b] = Null
                                THEN allocate_block_detail(E, b) ELSE detail[b]])

\* The rest of merge_connections: every input gets its reader, unless one of
\* them throws: by then the blocks at lower addresses have theirs, and that
\* block some of its own.
merge_connections(E) ==
  LET D == PrepareMerge(E)
      bad == {e \in E : ~Connectable(e, D)}
  IN \/ /\ bad = {}
        /\ detail' = ConnectInputs(E, D)
        /\ d_ffg' = E
        /\ d_state' = IF make_scheduler_ok(E) THEN "RUNNING" ELSE "IDLE"
     \/ /\ bad # {}
        /\ LET first == Min({Dst(e)[1] : e \in bad})
               before == {e \in E : Dst(e)[1] < first}
           IN \E part \in SUBSET ({e \in E : Dst(e)[1] = first} \ bad) :
                detail' = ConnectInputs(before \union part, D)
        /\ d_state' = "IDLE"
        /\ UNCHANGED d_ffg

-----------------------------------------------------------------------------
Init ==
  /\ HierInit
  /\ d_ffg = {} /\ detail = [b \in LeafBlocks |-> Null]
  /\ d_state = "IDLE" /\ locked = FALSE
  /\ starts = 0 /\ configs = 0 /\ rewires = 0

\* start(): a throw of flatten() changes nothing, one of validate() leaves the
\* new d_ffg without details.
start ==
  /\ d_state = "IDLE" /\ ~locked
  /\ starts < MaxStarts /\ configs < MaxConfigs
  /\ starts' = starts + 1 /\ configs' = configs + 1
  /\ \/ /\ ~flatten_ok
        /\ UNCHANGED <<d_ffg, detail, d_state>>
     \/ /\ flatten_ok /\ ~validate(FlatEdges)
        /\ d_ffg' = FlatEdges
        /\ UNCHANGED <<detail, d_state>>
     \/ /\ flatten_ok /\ validate(FlatEdges)
        /\ d_ffg' = FlatEdges
        /\ detail' = setup_connections(FlatEdges)
        /\ d_state' = IF make_scheduler_ok(FlatEdges) THEN "RUNNING" ELSE "IDLE"
  /\ UNCHANGED <<hierVars, locked, rewires>>

\* stop() and wait().
wait ==
  /\ d_state = "RUNNING"
  /\ d_state' = "IDLE"
  /\ UNCHANGED <<hierVars, d_ffg, detail, locked, starts, configs, rewires>>

\* lock() of h climbs to the top block; from a block whose parent was cleared it
\* calls itself for ever, which is no step.
lock(h) ==
  /\ ~locked /\ Root(h) = Top
  /\ locked' = TRUE
  /\ UNCHANGED <<hierVars, d_ffg, detail, d_state, starts, configs, rewires>>

\* unlock() and restart(): the flowgraph is idle unless everything succeeds.
unlock(h) ==
  /\ locked /\ Root(h) = Top
  /\ locked' = FALSE
  /\ \/ /\ d_state = "IDLE"
        /\ UNCHANGED <<d_ffg, detail, d_state, configs>>
     \/ /\ d_state = "RUNNING" /\ configs < MaxConfigs
        /\ configs' = configs + 1
        /\ \/ /\ ~flatten_ok \/ ~validate(FlatEdges)
              /\ d_state' = "IDLE"
              /\ UNCHANGED <<d_ffg, detail>>
           \/ /\ flatten_ok /\ validate(FlatEdges)
              /\ merge_connections(FlatEdges)
  /\ UNCHANGED <<hierVars, starts, rewires>>

\* The application rewires before it starts the flowgraph or while it is locked.
Rewired ==
  /\ rewires < MaxRewires /\ configs < MaxConfigs
  /\ locked \/ d_state = "IDLE"
  /\ rewires' = rewires + 1
  /\ Rewire
  /\ UNCHANGED flatVars

Next ==
  \/ Rewired
  \/ start \/ wait
  \/ \E h \in Hiers : lock(h) \/ unlock(h)

Spec == Init /\ [][Next]_vars
-----------------------------------------------------------------------------
(* Properties. *)

\* The wires of h: from an output to an input, and through its own ports.
OutPin(x) == <<"out", x>>
InPin(x)  == <<"in", x>>
Wires(h) ==
  LET inside == {<<OutPin(Src(e)), InPin(Dst(e))>> : e \in d_edges[h]}
      inputs == UNION {{<<InPin(<<h, p>>), InPin(x)>> : x \in d_inputs[h][p]} : p \in DOMAIN d_inputs[h]}
      outputs == UNION {{<<OutPin(x), OutPin(<<h, p>>)>> : x \in d_outputs[h][p]} : p \in DOMAIN d_outputs[h]}
  IN inside \union inputs \union outputs

\* Chains of up to 2^k wires.
Chain[k \in Nat] ==
  IF k = 0 THEN UNION {Wires(h) : h \in Flattened(Top)}
  ELSE LET r == Chain[k - 1]
       IN r \union {<<w[1][1], w[2][2]>> : w \in {v \in r \X r : v[1][2] = v[2][1]}}

\* Whatever the hierarchy and its edits, a flat edge joins two leaf ports
\* exactly when a chain of connections leads from the one to the other through
\* the ports of hierarchical blocks: resolve_endpoint against reachability.
\* (The longest chain passes two wires per level and one across.)
FlatIsWiring ==
  flatten_ok =>
    FlatEdges = {<<w[1][2], w[2][2]>> :
                   w \in {v \in Chain[Cardinality(Hiers) + 1] :
                            /\ v[1][1] = "out" /\ v[1][2][1] \in LeafBlocks
                            /\ v[2][1] = "in" /\ v[2][2][1] \in LeafBlocks}}

\* partition() returns the connected parts of the flat flowgraph, every block
\* in use in one of them, and each part in an order in which every edge leads
\* forward; it throws exactly when the flowgraph has a loop.
PartsSorted == flatten_ok => SortedParts(FlatEdges, partition(FlatEdges))

\* make_scheduler() gives a running flowgraph a thread for every block in use,
\* and one only: the order it gets from topological_sort has each of them once,
\* upstream before downstream.
ScheduledInOrder ==
  d_state = "RUNNING" =>
    Ordered(d_ffg, calc_used_blocks(d_ffg), topological_sort(d_ffg, calc_used_blocks(d_ffg)))

\* After any number of reconfigurations, every input of a running flowgraph
\* reads the buffer that its edge comes from.
ReadersMatchEdges ==
  d_state = "RUNNING" =>
    \A e \in d_ffg :
      detail[Dst(e)[1]].input[Dst(e)[2] + 1] = detail[Src(e)[1]].output[Src(e)[2] + 1]

\* No buffer of a running flowgraph has a reader that no thread moves: such a
\* reader would stop the writer as soon as the buffer is full.
NoStrayReader ==
  d_state = "RUNNING" =>
    \A e \in d_ffg : \A b \in LeafBlocks : detail[b] # Null =>
      \A i \in DOMAIN detail[b].input :
        detail[b].input[i] = detail[Src(e)[1]].output[Src(e)[2] + 1]
          => <<Src(e), <<b, i - 1>>>> \in d_ffg

\* A flowgraph that was started, and not reconfigured since, has buffers that
\* can hold what each of their readers needs before its work() can be called.
BuffersFit ==
  d_state = "RUNNING" /\ (\A b \in calc_used_blocks(d_ffg) : \A o \in DOMAIN detail[b].output :
                            detail[b].output[o].config = configs) =>
    \A e \in d_ffg : InNeed[Dst(e)[1]] <= detail[Src(e)[1]].output[Src(e)[2] + 1].nitems

\* Every input in the detail of a running block has a reader: the executor
\* asks each of them for its items without looking whether there is one.
InputsAllRead ==
  d_state = "RUNNING" =>
    \A b \in calc_used_blocks(d_ffg) : \A i \in DOMAIN detail[b].input : detail[b].input[i] # Null

-----------------------------------------------------------------------------
(* The invariant behind the proofs. *)

PortsOK(ports, n) == ports \in [0 .. n - 1 -> SUBSET Endpoints] \union {<<>>}

HierTypeOK ==
  /\ d_edges \in [Hiers -> SUBSET (Endpoints \X Endpoints)]
  /\ d_blocks \in [Hiers -> SUBSET Blocks]
  /\ DOMAIN d_inputs = Hiers /\ \A h \in Hiers : PortsOK(d_inputs[h], MaxIn[h])
  /\ DOMAIN d_outputs = Hiers /\ \A h \in Hiers : PortsOK(d_outputs[h], MaxOut[h])
  /\ d_parent_detail \in [Hiers -> Hiers \union {Null}]

TypeOK ==
  /\ HierTypeOK
  /\ d_ffg \subseteq (LeafBlocks \X Nat) \X (LeafBlocks \X Nat)
  /\ detail \in [LeafBlocks -> Details \union {Null}]
  /\ d_state \in {"IDLE", "RUNNING"} /\ locked \in BOOLEAN
  /\ starts \in Nat /\ configs \in Nat /\ rewires \in Nat

\* A detail holds the buffers of its block, none newer than the configuration.
BuffersOwned ==
  \A b \in LeafBlocks : detail[b] # Null =>
    \A o \in DOMAIN detail[b].output :
      /\ detail[b].output[o].blk = b /\ detail[b].output[o].port = o - 1
      /\ detail[b].output[o].config <= configs

\* The blocks of a running flowgraph have details with the ports its edges use,
\* and no input has two edges.
EdgesServed ==
  d_state = "RUNNING" =>
    \A e \in d_ffg : /\ detail[Src(e)[1]] # Null /\ detail[Dst(e)[1]] # Null
                     /\ Connectable(e, detail)
                     /\ \A f \in d_ffg : Dst(f) = Dst(e) => f = e

\* Before the second start(), a reader is the one of an edge.
ReadersOfEdges ==
  /\ starts = 0 => d_state = "IDLE" /\ \A b \in LeafBlocks : detail[b] = Null
  /\ starts <= 1 /\ d_state = "RUNNING" =>
       \A b \in LeafBlocks : detail[b] # Null =>
         \A i \in DOMAIN detail[b].input :
           detail[b].input[i] = Null \/ \E e \in d_ffg : Dst(e) = <<b, i - 1>>

ConfigInv ==
  /\ TypeOK /\ BuffersOwned /\ EdgesServed /\ ReadersOfEdges
  /\ ReadersMatchEdges /\ BuffersFit

\* The blocks that the constructor or the owner of h ever puts into it.
Members(h) == Singletons[h] \union (calc_used_blocks(Candidates[h] \union Wired[h]) \ {h})

\* No edit leaves anything else there.
BlocksInside == \A h \in Hiers : BlocksOf(h) \subseteq Members(h)

\* No block is put into itself, directly or through others: every one has a
\* level above those it holds.
Nested ==
  \E level \in [Hiers -> 0 .. Cardinality(Hiers) - 1] :
    \A h \in Hiers : \A c \in Members(h) \intersect Hiers : level[c] < level[h]

FlatInv == ConfigInv /\ BlocksInside
=============================================================================
