--------------------------- MODULE GrBufferProofs ---------------------------
(* Proofs about GrBuffer, for every buffer size, set of readers and bound. *)
EXTENDS GrBuffer, SequenceTheorems, TLAPS

USE BufSizeAssumption

\* Half the buffer is at least one item and leaves at least one.
LEMMA HalfFact == Half \in Nat /\ Half >= 1 /\ 2 * Half <= BufSize /\ Half < BufSize
  BY DEF Half

\* round_down never exceeds its argument.
LEMMA RoundDownBound ==
  ASSUME NEW n \in Nat
  PROVE  round_down(n, OutputMultiple) \in 0 .. n
<1>1. OutputMultiple \in Nat /\ OutputMultiple >= 1
  BY MultipleAssumption
<1>2. n % OutputMultiple \in 0 .. OutputMultiple - 1
  BY <1>1
<1> QED
  BY <1>1, <1>2 DEF round_down

\* index_add and index_sub stay inside the buffer, as their assertions demand.
LEMMA IndexAddType ==
  ASSUME NEW a \in 0 .. BufSize - 1, NEW b \in 0 .. BufSize
  PROVE  index_add(a, b) \in 0 .. BufSize - 1
  BY DEF index_add

\* The same of index_sub.
LEMMA IndexSubType ==
  ASSUME NEW a \in 0 .. BufSize - 1, NEW b \in 0 .. BufSize - 1
  PROVE  index_sub(a, b) \in 0 .. BufSize - 1
  BY DEF index_sub

-----------------------------------------------------------------------------
\* What the memory should hold is a number.
LEMMA ItemType == ASSUME NEW a \in Int PROVE Item(a) \in Nat
  BY DEF Item

\* A new buffer, with its first readers behind the write index, is well typed.
LEMMA InitTypeOK == Init => TypeOK
<1> SUFFICES ASSUME Init PROVE TypeOK
  OBVIOUS
<1>1. \A r \in Readers : Preload[r] \in 0 .. BufSize - 1
  BY HalfFact, PreloadAssumption
<1>2. \A r \in Readers : index_sub(0, Preload[r]) \in 0 .. BufSize - 1
  BY <1>1, IndexSubType
<1> QED
  BY <1>1, <1>2, HalfFact, ReadersAssumption DEF Init, TypeOK

\* Every step keeps every index inside the buffer.
LEMMA NextTypeOK == TypeOK /\ [Next]_vars => TypeOK'
<1> SUFFICES ASSUME TypeOK, [Next]_vars PROVE TypeOK'
  OBVIOUS
<1> USE HalfFact DEF TypeOK, indexVars, tagVars, writerVars, readerVars
<1>1. CASE SpaceAvailable
  <2>1. PICK n \in 0 .. BufSize - 1 :
          LET nout == round_down(MinOf(n, Half), OutputMultiple)
          IN /\ noutput_items' = nout
             /\ wpc' = IF nout = 0 THEN "idle" ELSE "work"
    BY <1>1 DEF SpaceAvailable
  <2>2. MinOf(n, Half) \in 0 .. Half
    BY DEF MinOf
  <2>3. round_down(MinOf(n, Half), OutputMultiple) \in 0 .. Half
    BY <2>2, RoundDownBound
  <2>4. d_last_min_items_read' \in Nat /\ d_item_tags' \subseteq TagOffsets
    BY <1>1 DEF SpaceAvailable, prune_tags
  <2>5. noutput_items' \in 0 .. Half /\ wpc' \in {"idle", "work", "produced"}
    BY <2>1, <2>3
  <2>6. nfilled' \in 0 .. Half
    BY <1>1 DEF SpaceAvailable
  <2>7. UNCHANGED <<store, indexVars, added, received, readerVars>>
    BY <1>1 DEF SpaceAvailable
  <2> QED
    BY <2>4, <2>5, <2>6, <2>7
<1>2. CASE WriteItem
  <2>1. index_add(d_write_index, nfilled) \in 0 .. BufSize - 1
    BY IndexAddType
  <2>2. d_abs_write_offset + nfilled \in Int
    OBVIOUS
  <2>3. Item(d_abs_write_offset + nfilled) \in Nat
    BY ONLY <2>2, ItemType
  <2>4. store' \in [0 .. BufSize - 1 -> Nat]
    BY <1>2, <2>1, <2>3 DEF WriteItem
  <2>5. nfilled' \in 0 .. Half
    BY <1>2 DEF WriteItem
  <2>6. UNCHANGED <<indexVars, tagVars, wpc, noutput_items, readerVars>>
    BY <1>2 DEF WriteItem
  <2> QED
    BY <2>4, <2>5, <2>6
<1>3. ASSUME NEW t \in TagOffsets, add_item_tag(t) PROVE TypeOK'
  BY <1>3 DEF add_item_tag
<1>4. ASSUME NEW nitems \in 0 .. Half, update_write_pointer(nitems) PROVE TypeOK'
  <2>1. index_add(d_write_index, nitems) \in 0 .. BufSize - 1
    BY IndexAddType
  <2> QED
    BY <1>4, <2>1 DEF update_write_pointer
<1>5. CASE PropagateDone
  BY <1>5 DEF PropagateDone
<1>6. ASSUME NEW r \in Readers, ItemsAvailable(r) PROVE TypeOK'
  <2>1. items_available(r) \in 0 .. BufSize - 1
    BY IndexSubType DEF items_available
  <2> QED
    BY <1>6, <2>1 DEF ItemsAvailable
<1>7. ASSUME NEW r \in Readers, NEW nitems \in 0 .. BufSize - 1,
             update_read_pointer(r, nitems)
      PROVE  TypeOK'
  <2>1. d_read_index[r] \in 0 .. BufSize - 1 /\ nitems \in 0 .. BufSize
    OBVIOUS
  <2>2. index_add(d_read_index[r], nitems) \in 0 .. BufSize - 1
    BY <2>1, IndexAddType
  <2>3. d_abs_read_offset[r] + nitems \in Nat
    OBVIOUS
  <2>4. /\ d_read_index' \in [Readers -> 0 .. BufSize - 1]
        /\ d_abs_read_offset' \in [Readers -> Nat]
    BY <1>7, <2>2, <2>3 DEF update_read_pointer
  <2>5. /\ ninput_items' \in [Readers -> 0 .. BufSize - 1]
        /\ rpc' \in [Readers -> {"idle", "work", "consumed"}]
    BY <1>7 DEF update_read_pointer
  <2> QED
    BY <1>7, <2>4, <2>5 DEF update_read_pointer
<1>8. ASSUME NEW r \in Readers, get_tags_in_range(r) PROVE TypeOK'
  <2>1. received' \in [Readers -> [TagOffsets -> Nat]]
    <3> DEFINE found == {t \in d_item_tags : t >= start_nitems_read[r]
                                              /\ t < d_abs_read_offset[r]}
               counts == [t \in TagOffsets |->
                            IF t \in found THEN received[r][t] + 1 ELSE received[r][t]]
    <3>1. received' = [received EXCEPT ![r] = counts]
      BY <1>8 DEF get_tags_in_range
    <3>2. received[r] \in [TagOffsets -> Nat]
      OBVIOUS
    <3> HIDE DEF found
    <3>3. counts \in [TagOffsets -> Nat]
      BY ONLY <3>2
    <3> HIDE DEF counts
    <3> QED
      BY <3>1, <3>3
  <2>2. /\ rpc' \in [Readers -> {"idle", "work", "consumed"}]
        /\ start_nitems_read' \in [Readers -> Nat]
    BY <1>8 DEF get_tags_in_range
  <2>3. UNCHANGED <<store, indexVars, d_item_tags, d_last_min_items_read, added,
                    writerVars, ninput_items>>
    BY <1>8 DEF get_tags_in_range
  <2> QED
    BY <2>1, <2>2, <2>3
<1>9. ASSUME NEW r \in Readers, gr_buffer_add_reader(r) PROVE TypeOK'
  <2>1. Preload[r] \in 0 .. BufSize - 1
    BY PreloadAssumption
  <2>2. index_sub(d_write_index, Preload[r]) \in 0 .. BufSize - 1
    BY <2>1, IndexSubType
  <2>3. d_abs_write_offset - Preload[r] \in Int
    BY <2>1
  <2>4. /\ d_read_index' \in [Readers -> 0 .. BufSize - 1]
        /\ d_abs_read_offset' \in [Readers -> Nat]
        /\ base' \in [Readers -> Int]
        /\ d_readers' \subseteq Readers
    BY <1>9, <2>2, <2>3 DEF gr_buffer_add_reader
  <2> QED
    BY <1>9, <2>4 DEF gr_buffer_add_reader
<1>10. ASSUME NEW r \in Readers, drop_reader(r) PROVE TypeOK'
  BY <1>10 DEF drop_reader
<1>11. CASE UNCHANGED vars
  BY <1>11 DEF vars
<1> QED
  BY <1>1, <1>2, <1>3, <1>4, <1>5, <1>6, <1>7, <1>8, <1>9, <1>10, <1>11 DEF Next

\* The indices of a gr_buffer and of its readers stay in [0, d_bufsize), so the
\* assertions in index_add and index_sub never fail.
THEOREM TypeCorrect == Spec => []TypeOK
  BY InitTypeOK, NextTypeOK, PTL DEF Spec

-----------------------------------------------------------------------------
(* How the index operators move the amount of data between two indices. *)

\* update_write_pointer: a reader has as many items more as were published.
LEMMA AdvanceWrite ==
  ASSUME NEW w \in 0 .. BufSize - 1, NEW q \in 0 .. BufSize - 1, NEW k \in Nat,
         index_sub(w, q) + k <= BufSize - 1
  PROVE  index_sub(index_add(w, k), q) = index_sub(w, q) + k
  BY DEF index_sub, index_add

\* update_read_pointer: a reader has as many items fewer as it consumed.
LEMMA AdvanceRead ==
  ASSUME NEW w \in 0 .. BufSize - 1, NEW q \in 0 .. BufSize - 1, NEW k \in Nat,
         k <= index_sub(w, q)
  PROVE  index_sub(w, index_add(q, k)) = index_sub(w, q) - k
  BY DEF index_sub, index_add

\* gr_buffer_add_reader: a new reader has exactly its history.
LEMMA StepBack ==
  ASSUME NEW w \in 0 .. BufSize - 1, NEW p \in 0 .. BufSize - 1
  PROVE  index_sub(w, index_sub(w, p)) = p
  BY DEF index_sub

\* items_available leaves one cell of the buffer free.
LEMMA AvailableType ==
  ASSUME TypeOK, NEW r \in Readers
  PROVE  items_available(r) \in 0 .. BufSize - 1
  BY IndexSubType DEF TypeOK, items_available

\* The typing facts arithmetic needs, without the rest of TypeOK.
LEMMA Scalars ==
  ASSUME TypeOK
  PROVE  /\ d_abs_write_offset \in Nat
         /\ noutput_items \in Nat /\ noutput_items <= Half
         /\ nfilled \in Nat /\ nfilled <= Half
         /\ DOMAIN store = 0 .. BufSize - 1
         /\ \A r \in Readers : /\ base[r] \in Int
                                /\ d_abs_read_offset[r] \in Nat
                                /\ ninput_items[r] \in Nat
  BY HalfFact DEF TypeOK

\* A distance of less than a buffer names a cell.
LEMMA CellType ==
  ASSUME TypeOK, NEW d \in 1 - BufSize .. BufSize - 1
  PROVE  Cell(d) \in 0 .. BufSize - 1
  BY DEF TypeOK, Cell

\* Two cells less than a buffer apart are different.
LEMMA CellDistinct ==
  ASSUME TypeOK, NEW d \in 1 - BufSize .. BufSize - 1,
         NEW e \in 1 - BufSize .. BufSize - 1, d < e, e - d < BufSize
  PROVE  Cell(d) # Cell(e)
  BY DEF TypeOK, Cell

\* The i-th item of a reader, and of the writer, in distance from the write index.
LEMMA ReaderCell ==
  ASSUME TypeOK, NEW r \in Readers, NEW i \in 0 .. items_available(r) - 1
  PROVE  index_add(d_read_index[r], i) = Cell(i - items_available(r))
<1>1. d_read_index[r] \in 0 .. BufSize - 1 /\ d_write_index \in 0 .. BufSize - 1
  BY DEF TypeOK
<1> QED
  BY <1>1 DEF items_available, index_add, index_sub, Cell

\* The same for the cell general_work of the writer stores into.
LEMMA WriterCell ==
  ASSUME TypeOK, NEW i \in 0 .. BufSize - 1
  PROVE  index_add(d_write_index, i) = Cell(i)
  BY DEF TypeOK, index_add, Cell

-----------------------------------------------------------------------------
\* A new buffer satisfies the inductive invariant.
LEMMA InitBufferInv == Init => BufferInv
<1> SUFFICES ASSUME Init PROVE BufferInv
  OBVIOUS
<1>1. TypeOK
  BY InitTypeOK
<1>2. \A r \in Readers : Preload[r] \in 0 .. Half
  BY HalfFact, PreloadAssumption
<1>3. \A r \in Readers : items_available(r) = Preload[r]
  BY <1>2, HalfFact DEF Init, items_available, index_sub
<1>4. OffsetsAgree
  BY <1>1, <1>2, <1>3, HalfFact DEF Init, OffsetsAgree, TypeOK
<1>5. SnapshotsConservative
  BY <1>1 DEF Init, SnapshotsConservative, TypeOK
<1>6. StreamIntact
  <2> SUFFICES ASSUME NEW d \in 1 - BufSize .. nfilled - 1
               PROVE  store[Cell(d)] = Item(d_abs_write_offset + d)
    BY DEF StreamIntact
  <2>1. d < 0 /\ d_abs_write_offset + d < 0
    BY DEF Init
  <2>2. Cell(d) \in 0 .. BufSize - 1
    BY <1>1, <2>1, CellType DEF Init
  <2> QED
    BY <2>1, <2>2 DEF Init, Item
<1> QED
  BY <1>1, <1>4, <1>5, <1>6 DEF BufferInv

\* One step of any thread, or of a reconfiguration, preserves the invariant.
LEMMA NextBufferInv == BufferInv /\ [Next]_vars => BufferInv'
<1> SUFFICES ASSUME BufferInv, [Next]_vars PROVE BufferInv'
  OBVIOUS
<1>ty. TypeOK /\ TypeOK'
  BY NextTypeOK DEF BufferInv
<1>av. \A r \in Readers : /\ items_available(r) \in 0 .. BufSize - 1
                          /\ items_available(r)' \in 0 .. BufSize - 1
  <2> TAKE r \in Readers
  <2>1. items_available(r) \in 0 .. BufSize - 1
    BY <1>ty, AvailableType
  <2>2. d_write_index' \in 0 .. BufSize - 1 /\ d_read_index'[r] \in 0 .. BufSize - 1
    BY <1>ty DEF TypeOK
  <2>3. items_available(r)' = index_sub(d_write_index', d_read_index'[r])
    BY DEF items_available, index_sub
  <2> QED
    BY <2>1, <2>2, <2>3, IndexSubType
<1>rd. d_readers \subseteq Readers
  BY <1>ty DEF TypeOK
<1>sc. /\ d_abs_write_offset \in Nat
       /\ noutput_items \in Nat /\ noutput_items <= Half
       /\ nfilled \in Nat /\ nfilled <= Half
       /\ DOMAIN store = 0 .. BufSize - 1
       /\ \A r \in Readers : /\ base[r] \in Int
                              /\ d_abs_read_offset[r] \in Nat
                              /\ ninput_items[r] \in Nat
  BY <1>ty, Scalars
<1>sc2. nfilled' \in Nat /\ noutput_items' \in Nat
  BY <1>ty, HalfFact DEF TypeOK
<1>fn. /\ d_read_index \in [Readers -> 0 .. BufSize - 1]
       /\ d_abs_read_offset \in [Readers -> Nat]
       /\ base \in [Readers -> Int]
       /\ rpc \in [Readers -> {"idle", "work", "consumed"}]
       /\ ninput_items \in [Readers -> 0 .. BufSize - 1]
  BY <1>ty DEF TypeOK
<1>iv. OffsetsAgree /\ SnapshotsConservative /\ StreamIntact
  BY DEF BufferInv
<1> DEFINE SameIndices == UNCHANGED indexVars
<1>same. ASSUME SameIndices
         PROVE  /\ \A r \in Readers : items_available(r)' = items_available(r)
                /\ \A d \in Int : Cell(d)' = Cell(d)
                /\ \A d \in Int : Needed(d)' = Needed(d)
                /\ OffsetsAgree'
  <2>1. \A r \in Readers : items_available(r)' = items_available(r)
    BY <1>same DEF indexVars, items_available, index_sub
  <2>2. OffsetsAgree'
    BY <1>same, <2>1, <1>iv, <1>rd DEF indexVars, OffsetsAgree
  <2>3. \A d \in Int : Cell(d)' = Cell(d)
    BY <1>same DEF indexVars, Cell
  <2>4. \A d \in Int : Needed(d)' = Needed(d)
    BY <1>same, <2>1, <1>rd DEF indexVars, Needed
  <2> QED
    BY <2>1, <2>2, <2>3, <2>4
<1> HIDE DEF SameIndices
<1>keep. ASSUME SameIndices, UNCHANGED store,
                nfilled' = nfilled \/ nfilled' = 0
         PROVE  StreamIntact'
  <2> SUFFICES ASSUME NEW d \in 1 - BufSize .. nfilled' - 1,
                      d >= 0 \/ Needed(d)'
               PROVE  store'[Cell(d)'] = Item(d_abs_write_offset + d)'
    BY DEF StreamIntact
  <2>1. d \in 1 - BufSize .. nfilled - 1
    <3>1. nfilled' = nfilled \/ nfilled' = 0
      BY <1>keep
    <3> QED
      BY <3>1, <1>sc
  <2>2. store[Cell(d)] = Item(d_abs_write_offset + d)
    BY <2>1, <1>same, <1>keep, <1>iv DEF StreamIntact
  <2> QED
    BY <2>1, <2>2, <1>same, <1>keep DEF Item, SameIndices, indexVars
<1>1. CASE SpaceAvailable
  <2>1. SameIndices /\ UNCHANGED store /\ UNCHANGED readerVars /\ nfilled' = 0
    BY <1>1 DEF SpaceAvailable, SameIndices
  <2>2. PICK n \in 0 .. BufSize - 1 :
          /\ space_available(n)
          /\ noutput_items' = round_down(MinOf(n, Half), OutputMultiple)
    BY <1>1 DEF SpaceAvailable
  <2>3. MinOf(n, Half) \in 0 .. n
    BY HalfFact DEF MinOf
  <2>4. noutput_items' \in 0 .. n
    BY <2>2, <2>3, RoundDownBound
  <2>5. \A r \in d_readers : n <= BufSize - items_available(r) - 1
    BY <2>2 DEF space_available
  <2>6. SnapshotsConservative'
    <3>1. \A r \in d_readers : noutput_items' <= BufSize - items_available(r) - 1
      BY <2>4, <2>5, <1>av, <1>rd
    <3> QED
      BY <3>1, <2>1, <1>same, <1>rd, <1>iv, <1>sc2
      DEF SnapshotsConservative, SameIndices, indexVars, readerVars
  <2>7. StreamIntact'
    BY <2>1, <1>keep, <1>ty DEF TypeOK
  <2> QED
    BY <2>1, <2>6, <2>7, <1>same, <1>ty DEF BufferInv
<1>2. CASE WriteItem
  <2>1. SameIndices /\ UNCHANGED <<wpc, noutput_items, readerVars>> /\ nfilled' = nfilled + 1
    BY <1>2 DEF WriteItem, SameIndices
  <2>2. wpc = "work" /\ nfilled < noutput_items
    BY <1>2 DEF WriteItem
  <2>3. SnapshotsConservative'
    BY <2>1, <2>2, <1>same, <1>rd, <1>iv, <1>ty
    DEF SnapshotsConservative, SameIndices, indexVars, readerVars, TypeOK
  <2>4. nfilled \in 0 .. BufSize - 1 /\ nfilled < Half
    BY <2>2, <1>ty, HalfFact DEF TypeOK
  <2>5. store' = [store EXCEPT ![Cell(nfilled)] = Item(d_abs_write_offset + nfilled)]
    BY <1>2, <2>4, <1>ty, WriterCell DEF WriteItem
  <2>6. StreamIntact'
    <3> SUFFICES ASSUME NEW d \in 1 - BufSize .. nfilled' - 1,
                        d >= 0 \/ Needed(d)'
                 PROVE  store'[Cell(d)'] = Item(d_abs_write_offset + d)'
      BY DEF StreamIntact
    <3>1. d \in 1 - BufSize .. nfilled /\ d \in Int
      BY <2>1, <2>4
    <3>2. Cell(d)' = Cell(d) /\ d_abs_write_offset' = d_abs_write_offset
      BY <3>1, <2>1, <1>same DEF SameIndices, indexVars
    <3>3. Cell(nfilled) \in DOMAIN store
      BY <2>4, <1>ty, <1>sc, CellType
    <3>4. CASE d = nfilled
      BY <3>2, <3>3, <3>4, <2>5 DEF Item
    <3>5. CASE d # nfilled
      <4>1. d < nfilled /\ d \in 1 - BufSize .. nfilled - 1
        BY <3>1, <3>5, <2>4
      <4>2. nfilled - d < BufSize
        <5>1. CASE d >= 0
          BY <5>1, <4>1, <2>4
        <5>2. CASE d >= 0 - Half
          BY <5>2, <4>1, <2>4, HalfFact
        <5>3. CASE \E r \in d_readers : d >= 0 - items_available(r)
          <6>1. PICK r \in d_readers : d >= 0 - items_available(r)
            BY <5>3
          <6>2. noutput_items <= BufSize - items_available(r) - 1
            BY <2>2, <1>iv DEF SnapshotsConservative
          <6> QED
            BY <6>1, <6>2, <2>2, <4>1, <1>av, <1>rd, <1>sc
        <5> QED
          BY <5>1, <5>2, <5>3, <3>1, <2>1, <1>same DEF Needed
      <4>3. Cell(d) # Cell(nfilled)
        BY <4>1, <4>2, <2>4, <1>ty, CellDistinct
      <4>4. Cell(d) \in DOMAIN store
        BY <4>1, <2>4, <1>ty, <1>sc, CellType
      <4>5. store[Cell(d)] = Item(d_abs_write_offset + d)
        BY <4>1, <3>1, <2>1, <1>same, <1>iv DEF StreamIntact
      <4> QED
        BY <4>3, <4>4, <4>5, <3>2, <2>5 DEF Item
    <3> QED
      BY <3>4, <3>5
  <2> QED
    BY <2>1, <2>3, <2>6, <1>same, <1>ty DEF BufferInv
<1>3. ASSUME NEW t \in TagOffsets, add_item_tag(t) PROVE BufferInv'
  <2>1. SameIndices /\ UNCHANGED <<store, writerVars, readerVars>>
    BY <1>3 DEF add_item_tag, SameIndices
  <2>2. SnapshotsConservative'
    BY <2>1, <1>same, <1>rd, <1>iv
    DEF SnapshotsConservative, SameIndices, indexVars, readerVars, writerVars
  <2>3. StreamIntact'
    BY <2>1, <1>keep, <1>ty DEF writerVars, TypeOK
  <2> QED
    BY <2>1, <2>2, <2>3, <1>same, <1>ty DEF BufferInv
<1>4. ASSUME NEW nitems \in 0 .. Half, update_write_pointer(nitems) PROVE BufferInv'
  <2>1. /\ wpc = "work" /\ nitems <= nfilled /\ nfilled' = 0 /\ wpc' # "work"
        /\ d_write_index' = index_add(d_write_index, nitems)
        /\ d_abs_write_offset' = d_abs_write_offset + nitems
        /\ UNCHANGED <<store, d_readers, d_read_index, d_abs_read_offset, base, readerVars>>
    BY <1>4 DEF update_write_pointer
  <2>2. nitems \in Nat /\ nitems < BufSize /\ nfilled \in Nat /\ noutput_items \in Nat
    BY HalfFact, <1>ty DEF TypeOK
  <2>3. \A r \in d_readers : items_available(r)' = items_available(r) + nitems
    <3> TAKE r \in d_readers
    <3>1. items_available(r) + nitems <= BufSize - 1
      BY <2>1, <2>2, <1>iv, <1>av, <1>rd DEF SnapshotsConservative
    <3>2. d_write_index \in 0 .. BufSize - 1 /\ d_read_index[r] \in 0 .. BufSize - 1
      BY <1>ty, <1>rd DEF TypeOK
    <3>3. items_available(r)' = index_sub(d_write_index', d_read_index[r])
      BY <2>1 DEF items_available, index_sub
    <3> QED
      BY <3>1, <3>2, <3>3, <2>1, <2>2, AdvanceWrite DEF items_available
  <2>4. OffsetsAgree'
    BY <2>1, <2>2, <2>3, <1>iv, <1>rd, <1>av, <1>sc DEF OffsetsAgree
  <2>5. SnapshotsConservative'
    <3>1. \A r \in d_readers : ninput_items[r] <= items_available(r)
                                => ninput_items[r] <= items_available(r) + nitems
      BY <2>2, <1>av, <1>rd, <1>sc
    <3> QED
      BY <3>1, <2>1, <2>3, <1>iv, <1>rd DEF SnapshotsConservative, readerVars
  <2>6. StreamIntact'
    <3> SUFFICES ASSUME NEW d \in 1 - BufSize .. nfilled' - 1,
                        d >= 0 \/ Needed(d)'
                 PROVE  store'[Cell(d)'] = Item(d_abs_write_offset + d)'
      BY DEF StreamIntact
    <3>1. d \in Int /\ d < 0 /\ d >= 1 - BufSize /\ d + nitems < nfilled
      BY <2>1, <2>2
    <3>2. d + nitems \in 1 - BufSize .. nfilled - 1
      BY <3>1, <2>2
    <3>3. Cell(d)' = Cell(d + nitems)
      <4>1. d_write_index \in 0 .. BufSize - 1
        BY <1>ty DEF TypeOK
      <4> QED
        BY <4>1, <3>1, <2>1, <2>2 DEF Cell, index_add
    <3>4. d + nitems >= 0 \/ Needed(d + nitems)
      <4>1. CASE d >= 0 - Half
        BY <4>1, <3>1, <2>2, HalfFact DEF Needed
      <4>2. CASE \E r \in d_readers : d >= 0 - items_available(r)'
        <5>1. PICK r \in d_readers : d >= 0 - items_available(r)'
          BY <4>2
        <5>2. d + nitems >= 0 - items_available(r)
          BY <5>1, <2>2, <2>3, <3>1, <1>av, <1>rd
        <5> QED
          BY <5>2 DEF Needed
      <4> QED
        BY <4>1, <4>2, <3>1, <2>1 DEF Needed
    <3>5. store[Cell(d + nitems)] = Item(d_abs_write_offset + (d + nitems))
      BY <3>2, <3>4, <1>iv DEF StreamIntact
    <3>6. d_abs_write_offset + (d + nitems) = d_abs_write_offset' + d
      BY <2>1, <2>2, <3>1, <1>ty DEF TypeOK
    <3> QED
      BY <3>3, <3>5, <3>6, <2>1 DEF Item
  <2> QED
    BY <2>4, <2>5, <2>6, <1>ty DEF BufferInv
<1>5. CASE PropagateDone
  <2>1. /\ SameIndices /\ UNCHANGED <<store, nfilled, readerVars>>
        /\ wpc # "work" /\ wpc' # "work"
    BY <1>5 DEF PropagateDone, SameIndices
  <2>2. SnapshotsConservative'
    BY <2>1, <1>same, <1>rd, <1>iv
    DEF SnapshotsConservative, SameIndices, indexVars, readerVars
  <2>3. StreamIntact'
    BY <2>1, <1>keep, <1>ty DEF TypeOK
  <2> QED
    BY <2>1, <2>2, <2>3, <1>same, <1>ty DEF BufferInv
<1>6. ASSUME NEW r \in Readers, ItemsAvailable(r) PROVE BufferInv'
  <2>1. /\ SameIndices /\ UNCHANGED <<store, writerVars>> /\ r \in d_readers
        /\ ninput_items' = [ninput_items EXCEPT ![r] = items_available(r)]
        /\ rpc' = [rpc EXCEPT ![r] = "work"]
    BY <1>6 DEF ItemsAvailable, SameIndices
  <2>2. \A q \in d_readers : rpc'[q] = "work" => ninput_items'[q] <= items_available(q)
    BY <2>1, <1>rd, <1>iv, <1>fn, <1>av DEF SnapshotsConservative
  <2>3. \A q \in Readers \ d_readers : rpc'[q] = "idle"
    BY <2>1, <1>iv, <1>ty DEF SnapshotsConservative, TypeOK
  <2>4. SnapshotsConservative'
    BY <2>1, <2>2, <2>3, <1>same, <1>rd, <1>iv
    DEF SnapshotsConservative, SameIndices, indexVars, writerVars
  <2>5. StreamIntact'
    BY <2>1, <1>keep, <1>ty DEF writerVars, TypeOK
  <2> QED
    BY <2>1, <2>4, <2>5, <1>same, <1>ty DEF BufferInv
<1>7. ASSUME NEW r \in Readers, NEW nitems \in 0 .. BufSize - 1,
             update_read_pointer(r, nitems)
      PROVE  BufferInv'
  <2>1. /\ rpc[r] = "work" /\ nitems <= ninput_items[r]
        /\ d_read_index' = [d_read_index EXCEPT ![r] = index_add(d_read_index[r], nitems)]
        /\ d_abs_read_offset' = [d_abs_read_offset EXCEPT ![r] = d_abs_read_offset[r] + nitems]
        /\ rpc' = [rpc EXCEPT ![r] = "consumed"]
        /\ ninput_items' = [ninput_items EXCEPT ![r] = 0]
        /\ UNCHANGED <<store, d_write_index, d_abs_write_offset, d_readers, base, writerVars>>
    BY <1>7 DEF update_read_pointer
  <2>2. r \in d_readers
    BY <2>1, <1>iv DEF SnapshotsConservative
  <2>3. nitems \in Nat /\ nitems <= items_available(r)
    <3>1. ninput_items[r] \in Nat /\ items_available(r) \in Nat
      BY <1>av, Scalars, <1>ty
    <3>2. ninput_items[r] <= items_available(r)
      BY <2>1, <2>2, <1>iv DEF SnapshotsConservative
    <3> QED
      BY <2>1, <3>1, <3>2
  <2>4. items_available(r)' = items_available(r) - nitems
    <3>1. d_write_index \in 0 .. BufSize - 1 /\ d_read_index[r] \in 0 .. BufSize - 1
      BY <1>ty DEF TypeOK
    <3>2. items_available(r)' = index_sub(d_write_index, index_add(d_read_index[r], nitems))
      BY <2>1, <1>ty DEF items_available, index_sub, TypeOK
    <3> QED
      BY <3>1, <3>2, <2>3, AdvanceRead DEF items_available
  <2>5. \A q \in Readers : q # r => items_available(q)' = items_available(q)
    BY <2>1, <1>ty DEF items_available, index_sub, TypeOK
  <2>6. OffsetsAgree'
    <3> SUFFICES ASSUME NEW q \in d_readers
                 PROVE  items_available(q)' = d_abs_write_offset - (base[q] + d_abs_read_offset'[q])
      BY <2>1 DEF OffsetsAgree
    <3>1. items_available(q) = d_abs_write_offset - (base[q] + d_abs_read_offset[q])
      BY <1>iv DEF OffsetsAgree
    <3>2. CASE q = r
      <4>1. d_abs_read_offset'[r] = d_abs_read_offset[r] + nitems
        BY <2>1, <1>fn
      <4>2. /\ d_abs_write_offset \in Int /\ base[r] \in Int
            /\ d_abs_read_offset[r] \in Int /\ items_available(r) \in Int /\ nitems \in Int
        BY <1>ty, Scalars, <1>av
      <4> QED
        BY ONLY <4>1, <4>2, <3>1, <3>2, <2>4
    <3>3. CASE q # r
      BY <3>1, <3>3, <2>1, <2>5, <1>rd, <1>ty DEF TypeOK
    <3> QED
      BY <3>2, <3>3
  <2>7. SnapshotsConservative'
    <3>1. \A q \in d_readers : items_available(q)' <= items_available(q)
      BY <2>3, <2>4, <2>5, <1>av, <1>rd
    <3>2. \A q \in d_readers : rpc'[q] = "work" => ninput_items'[q] <= items_available(q)'
      BY <2>1, <2>5, <1>rd, <1>iv, <1>ty DEF SnapshotsConservative, TypeOK
    <3>3. \A q \in Readers \ d_readers : rpc'[q] = "idle"
      BY <2>1, <2>2, <1>iv, <1>ty DEF SnapshotsConservative, TypeOK
    <3>4. wpc = "work" => \A q \in d_readers :
                            noutput_items <= BufSize - items_available(q)' - 1
      BY <3>1, <1>iv, <1>av, <1>rd, <1>sc DEF SnapshotsConservative
    <3> QED
      BY <3>2, <3>3, <3>4, <2>1, <1>iv DEF SnapshotsConservative, writerVars
  <2>8. StreamIntact'
    <3> SUFFICES ASSUME NEW d \in 1 - BufSize .. nfilled - 1, d >= 0 \/ Needed(d)'
                 PROVE  store'[Cell(d)'] = Item(d_abs_write_offset + d)'
      BY <2>1 DEF StreamIntact, writerVars
    <3>1. d >= 0 \/ Needed(d)
      <4>1. \A q \in d_readers : d >= 0 - items_available(q)' => d >= 0 - items_available(q)
        <5>1. \A q \in d_readers : items_available(q)' <= items_available(q)
          BY <2>3, <2>4, <2>5, <1>av, <1>rd
        <5>2. d \in Int
          BY <1>sc
        <5> QED
          BY <5>1, <5>2, <1>av, <1>rd
      <4> QED
        BY <4>1, <2>1 DEF Needed
    <3>2. Cell(d)' = Cell(d)
      BY <2>1 DEF Cell
    <3>3. store[Cell(d)] = Item(d_abs_write_offset + d)
      BY <3>1, <1>iv DEF StreamIntact
    <3> QED
      BY <3>2, <3>3, <2>1 DEF Item
  <2> QED
    BY <2>6, <2>7, <2>8, <1>ty DEF BufferInv
<1>8. ASSUME NEW r \in Readers, get_tags_in_range(r) PROVE BufferInv'
  <2>1. /\ SameIndices /\ UNCHANGED <<store, writerVars, ninput_items>>
        /\ rpc' = [rpc EXCEPT ![r] = "idle"]
    BY <1>8 DEF get_tags_in_range, SameIndices
  <2>2. \A q \in d_readers : rpc'[q] = "work" => ninput_items'[q] <= items_available(q)
    BY <2>1, <1>rd, <1>iv, <1>fn DEF SnapshotsConservative
  <2>3. \A q \in Readers \ d_readers : rpc'[q] = "idle"
    BY <2>1, <1>iv, <1>fn DEF SnapshotsConservative
  <2>4. SnapshotsConservative'
    BY <2>1, <2>2, <2>3, <1>same, <1>rd, <1>iv
    DEF SnapshotsConservative, SameIndices, indexVars, writerVars
  <2>5. StreamIntact'
    BY <2>1, <1>keep, <1>ty DEF writerVars, TypeOK
  <2> QED
    BY <2>1, <2>4, <2>5, <1>same, <1>ty DEF BufferInv
<1>9. ASSUME NEW r \in Readers, gr_buffer_add_reader(r) PROVE BufferInv'
  <2>1. /\ Quiescent /\ r \notin d_readers
        /\ d_readers' = d_readers \union {r}
        /\ d_read_index' = [d_read_index EXCEPT ![r] = index_sub(d_write_index, Preload[r])]
        /\ d_abs_read_offset' = [d_abs_read_offset EXCEPT ![r] = 0]
        /\ base' = [base EXCEPT ![r] = d_abs_write_offset - Preload[r]]
        /\ UNCHANGED <<store, d_write_index, d_abs_write_offset, writerVars, readerVars>>
    BY <1>9 DEF gr_buffer_add_reader
  <2>2. Preload[r] \in 0 .. Half /\ Preload[r] \in 0 .. BufSize - 1
    BY PreloadAssumption, HalfFact
  <2>3. items_available(r)' = Preload[r]
    <3>1. d_write_index \in 0 .. BufSize - 1
      BY <1>ty DEF TypeOK
    <3>2. items_available(r)' = index_sub(d_write_index, index_sub(d_write_index, Preload[r]))
      BY <2>1, <1>ty DEF items_available, index_sub, TypeOK
    <3> QED
      BY <3>1, <3>2, <2>2, StepBack
  <2>4. \A q \in Readers : q # r => items_available(q)' = items_available(q)
    BY <2>1, <1>ty DEF items_available, index_sub, TypeOK
  <2>5. OffsetsAgree'
    <3> SUFFICES ASSUME NEW q \in d_readers'
                 PROVE  items_available(q)' = d_abs_write_offset - (base'[q] + d_abs_read_offset'[q])
      BY <2>1 DEF OffsetsAgree
    <3>1. CASE q = r
      <4>1. d_abs_read_offset'[r] = 0 /\ base'[r] = d_abs_write_offset - Preload[r]
        BY <2>1, <1>fn
      <4> QED
        BY <4>1, <3>1, <2>2, <2>3, <1>sc
    <3>2. CASE q # r
      BY <3>2, <2>1, <2>4, <1>rd, <1>iv, <1>ty DEF OffsetsAgree, TypeOK
    <3> QED
      BY <3>1, <3>2
  <2>6. SnapshotsConservative'
    BY <2>1, <2>4, <1>rd, <1>iv DEF SnapshotsConservative, Quiescent, writerVars, readerVars
  <2>7. StreamIntact'
    <3> SUFFICES ASSUME NEW d \in 1 - BufSize .. nfilled - 1, d >= 0 \/ Needed(d)'
                 PROVE  store'[Cell(d)'] = Item(d_abs_write_offset + d)'
      BY <2>1 DEF StreamIntact, writerVars
    <3>1. d >= 0 \/ Needed(d)
      <4>1. d >= 0 - items_available(r)' => d >= 0 - Half
        BY <2>2, <2>3, HalfFact, <1>sc
      <4>2. \A q \in d_readers : items_available(q)' = items_available(q)
        BY <2>1, <2>4, <1>rd
      <4> QED
        BY <4>1, <4>2, <2>1 DEF Needed
    <3>2. Cell(d)' = Cell(d)
      BY <2>1 DEF Cell
    <3>3. store[Cell(d)] = Item(d_abs_write_offset + d)
      BY <3>1, <1>iv DEF StreamIntact
    <3> QED
      BY <3>2, <3>3, <2>1 DEF Item
  <2> QED
    BY <2>5, <2>6, <2>7, <1>ty DEF BufferInv
<1>10. ASSUME NEW r \in Readers, drop_reader(r) PROVE BufferInv'
  <2>1. /\ Quiescent /\ r \in d_readers /\ d_readers' = d_readers \ {r}
        /\ d_read_index' = [d_read_index EXCEPT ![r] = 0]
        /\ d_abs_read_offset' = [d_abs_read_offset EXCEPT ![r] = 0]
        /\ base' = [base EXCEPT ![r] = 0]
        /\ UNCHANGED <<store, d_write_index, d_abs_write_offset, writerVars, readerVars>>
    BY <1>10 DEF drop_reader
  <2>2. \A q \in d_readers' : items_available(q)' = items_available(q)
    BY <2>1, <1>rd, <1>ty DEF items_available, index_sub, TypeOK
  <2>3. OffsetsAgree'
    BY <2>1, <2>2, <1>rd, <1>iv, <1>ty DEF OffsetsAgree, TypeOK
  <2>4. SnapshotsConservative'
    BY <2>1, <2>2, <1>rd, <1>iv DEF SnapshotsConservative, Quiescent, writerVars, readerVars
  <2>5. StreamIntact'
    <3> SUFFICES ASSUME NEW d \in 1 - BufSize .. nfilled - 1, d >= 0 \/ Needed(d)'
                 PROVE  store'[Cell(d)'] = Item(d_abs_write_offset + d)'
      BY <2>1 DEF StreamIntact, writerVars
    <3>1. d >= 0 \/ Needed(d)
      BY <2>1, <2>2 DEF Needed
    <3>2. Cell(d)' = Cell(d)
      BY <2>1 DEF Cell
    <3>3. store[Cell(d)] = Item(d_abs_write_offset + d)
      BY <3>1, <1>iv DEF StreamIntact
    <3> QED
      BY <3>2, <3>3, <2>1 DEF Item
  <2> QED
    BY <2>3, <2>4, <2>5, <1>ty DEF BufferInv
<1>11. CASE UNCHANGED vars
  <2>1. SameIndices /\ UNCHANGED <<store, writerVars, readerVars>>
    BY <1>11 DEF vars, SameIndices
  <2>2. SnapshotsConservative'
    BY <2>1, <1>same, <1>rd, <1>iv
    DEF SnapshotsConservative, SameIndices, indexVars, readerVars, writerVars
  <2>3. StreamIntact'
    BY <2>1, <1>keep, <1>ty DEF writerVars, TypeOK
  <2> QED
    BY <2>1, <2>2, <2>3, <1>same, <1>ty DEF BufferInv
<1> QED
  BY <1>1, <1>2, <1>3, <1>4, <1>5, <1>6, <1>7, <1>8, <1>9, <1>10, <1>11 DEF Next

\* The inductive invariant holds in every reachable state.
THEOREM BufferInvariant == Spec => []BufferInv
  BY InitBufferInv, NextBufferInv, PTL DEF Spec

-----------------------------------------------------------------------------
\* The cells a writer fills and the cells a reader reads without the mutex are
\* disjoint at all times, for every buffer size and any number of readers.
THEOREM NoDataRaceHolds == Spec => []NoDataRace
<1>1. BufferInv => NoDataRace
  <2> SUFFICES ASSUME BufferInv, NEW r \in d_readers,
                      NEW i \in 0 .. noutput_items - 1, NEW j \in 0 .. ninput_items[r] - 1,
                      wpc = "work", rpc[r] = "work",
                      index_add(d_write_index, i) = index_add(d_read_index[r], j)
               PROVE  FALSE
    BY DEF NoDataRace, WriteWindow, ReadWindow
  <2>1. TypeOK /\ r \in Readers
    BY DEF BufferInv, TypeOK
  <2>2. /\ noutput_items <= BufSize - items_available(r) - 1
        /\ ninput_items[r] <= items_available(r)
    BY DEF BufferInv, SnapshotsConservative
  <2>3. items_available(r) \in 0 .. BufSize - 1
    BY <2>1, AvailableType
  <2>n. noutput_items \in Nat /\ ninput_items[r] \in Nat /\ i \in Nat /\ j \in Nat
    BY <2>1, Scalars
  <2>4. j \in 0 .. items_available(r) - 1 /\ i \in 0 .. BufSize - 1
    BY <2>n, <2>2, <2>3
  <2>5. Cell(i) = Cell(j - items_available(r))
    BY <2>1, <2>4, ReaderCell, WriterCell
  <2>6. /\ j - items_available(r) \in 1 - BufSize .. BufSize - 1
        /\ j - items_available(r) < i
        /\ i - (j - items_available(r)) < BufSize
    BY <2>n, <2>2, <2>3, <2>4
  <2> QED
    BY <2>1, <2>4, <2>5, <2>6, CellDistinct
<1> QED
  BY <1>1, BufferInvariant, PTL

\* A reader sees every item of the stream once and in order, and never one that
\* has been overwritten, for every buffer size and any number of readers.
THEOREM ReadsInOrderHolds == Spec => []ReadsInOrder
<1>1. BufferInv => ReadsInOrder
  <2> SUFFICES ASSUME BufferInv, NEW r \in d_readers, rpc[r] = "work",
                      NEW i \in 0 .. ninput_items[r] - 1
               PROVE  store[index_add(d_read_index[r], i)]
                        = Item(base[r] + d_abs_read_offset[r] + i)
    BY DEF ReadsInOrder
  <2>1. TypeOK /\ r \in Readers
    BY DEF BufferInv, TypeOK
  <2>2. ninput_items[r] <= items_available(r)
    BY DEF BufferInv, SnapshotsConservative
  <2>3. items_available(r) \in 0 .. BufSize - 1
    BY <2>1, AvailableType
  <2>4. i \in 0 .. items_available(r) - 1
    <3>1. ninput_items[r] \in Nat
      BY <2>1, Scalars
    <3> QED
      BY <3>1, <2>2, <2>3
  <2> DEFINE d == i - items_available(r)
  <2>5. d \in 1 - BufSize .. nfilled - 1 /\ d >= 0 - items_available(r)
    <3>1. nfilled \in Nat
      BY <2>1, Scalars
    <3> QED
      BY <3>1, <2>3, <2>4
  <2>6. Needed(d)
    BY <2>5 DEF Needed
  <2>7. store[Cell(d)] = Item(d_abs_write_offset + d)
    BY <2>5, <2>6 DEF BufferInv, StreamIntact
  <2>8. d_abs_write_offset + d = base[r] + d_abs_read_offset[r] + i
    <3>1. items_available(r) = d_abs_write_offset - (base[r] + d_abs_read_offset[r])
      BY DEF BufferInv, OffsetsAgree
    <3>2. d_abs_write_offset \in Int /\ base[r] \in Int /\ d_abs_read_offset[r] \in Int
      BY <2>1, Scalars
    <3> QED
      BY ONLY <3>1, <3>2, <2>3, <2>4
  <2> QED
    BY <2>1, <2>4, <2>7, <2>8, ReaderCell
<1> QED
  BY <1>1, BufferInvariant, PTL

-----------------------------------------------------------------------------
(* A single reader receives every tag once, although the writing thread    *)
(* prunes tags while the reader is between consume() and propagate_tags(). *)
(* With two readers this is false.                                         *)

\* No tags yet, and nothing to prune.
LEMMA InitTagInv == SingleReader /\ Init => TagInv
<1> SUFFICES ASSUME SingleReader, Init PROVE TagInv
  OBVIOUS
<1>1. d_readers = Readers /\ base = [r \in Readers |-> 0 - Preload[r]]
  BY DEF SingleReader, Init
<1>2. TagsAhead
  BY <1>1 DEF Init, TagsAhead
<1>3. PruneBehind /\ TagsKept
  BY <1>1 DEF Init, PruneBehind, TagsKept, TagsFetched
<1>4. TagsDelivered
  BY <1>1 DEF Init, TagsDelivered, TagsFetched
<1> QED BY <1>1, <1>2, <1>3, <1>4 DEF TagInv

\* Steps that touch neither tags nor offsets nor the reader's place in its call.
LEMMA TagStutter ==
  ASSUME TagInv, UNCHANGED <<indexVars, tagVars, wpc, noutput_items, rpc, start_nitems_read>>
  PROVE  TagInv'
<1> USE DEF indexVars, tagVars
<1>1. \A r \in Readers : TagsFetched(r)' = TagsFetched(r)
  BY DEF TagsFetched
<1>2. TagsAhead' /\ PruneBehind' /\ TagsKept' /\ TagsDelivered'
  BY <1>1 DEF TagInv, TagsAhead, PruneBehind, TagsKept, TagsDelivered, TagsFetched
<1> QED BY <1>2 DEF TagInv

\* The writer looks for space and prunes what was passed at the last change.
LEMMA TagPrune ==
  ASSUME SingleReader, BufferInv, TagInv, SpaceAvailable
  PROVE  TagInv'
<1> USE DEF indexVars, readerVars
<1>r. PICK r \in Readers : Readers = {r}
  BY DEF SingleReader
<1>0. TypeOK /\ d_readers = {r} /\ r \in Readers
  BY <1>r DEF BufferInv, TagInv
<1>1. /\ UNCHANGED <<indexVars, added, received, readerVars>> /\ wpc = "idle"
      /\ wpc' # "work" => noutput_items' = 0
  BY DEF SpaceAvailable
<1>2. noutput_items' \in Nat
  BY <1>0, NextTypeOK, HalfFact DEF Next, TypeOK
<1>3. /\ d_last_min_items_read' = d_abs_read_offset[r]
      /\ \/ d_item_tags' = d_item_tags /\ d_last_min_items_read = d_abs_read_offset[r]
         \/ /\ d_item_tags' = {t \in d_item_tags : t >= d_last_min_items_read}
            /\ d_last_min_items_read # d_abs_read_offset[r]
  BY <1>0 DEF SpaceAvailable, prune_tags
<1>4. TagsFetched(r)' = TagsFetched(r) /\ TagsFetched(r) \in Nat
  BY <1>0, <1>1 DEF TagsFetched, TypeOK
<1>5. d_item_tags \subseteq TagOffsets /\ added \subseteq TagOffsets /\ TagOffsets \subseteq Nat
  BY <1>0, BoundsAssumption DEF TypeOK
<1>6. TagsAhead'
  <2>1. \A t \in added : t < d_abs_write_offset + noutput_items'
    <3>1. noutput_items = 0 /\ d_abs_write_offset \in Nat
      BY <1>0, <1>1 DEF TagInv, TagsAhead, TypeOK
    <3>2. \A t \in added : t < d_abs_write_offset + noutput_items
      BY DEF TagInv, TagsAhead
    <3>3. \A t \in added : t \in Nat
      BY <1>5
    <3> QED BY <1>2, <3>1, <3>2, <3>3
  <2> QED BY <1>1, <1>3, <2>1 DEF TagInv, TagsAhead
<1>7. PruneBehind'
  BY <1>0, <1>1, <1>3 DEF TagInv, PruneBehind
<1>8. TagsKept'
  <2> SUFFICES ASSUME NEW t \in added, t >= TagsFetched(r) PROVE t \in d_item_tags'
    BY <1>0, <1>1, <1>4 DEF TagsKept
  <2>1. t \in d_item_tags
    BY <1>0 DEF TagInv, TagsKept
  <2>2. d_last_min_items_read # d_abs_read_offset[r] => d_last_min_items_read <= TagsFetched(r)
    BY <1>0 DEF TagInv, PruneBehind
  <2>3. d_last_min_items_read \in Nat /\ t \in Nat
    BY <1>0, <1>5 DEF TypeOK
  <2> QED BY <1>3, <1>4, <2>1, <2>2, <2>3
<1>9. TagsDelivered'
  BY <1>0, <1>1, <1>4 DEF TagInv, TagsDelivered
<1> QED BY <1>1, <1>6, <1>7, <1>8, <1>9 DEF TagInv

\* A new tag lies ahead of the reader.
LEMMA TagAdd ==
  ASSUME SingleReader, BufferInv, TagInv, NEW t \in TagOffsets, add_item_tag(t)
  PROVE  TagInv'
<1> USE DEF indexVars, readerVars, writerVars
<1>r. PICK r \in Readers : Readers = {r}
  BY DEF SingleReader
<1>0. TypeOK /\ d_readers = {r} /\ r \in Readers
  BY <1>r DEF BufferInv, TagInv
<1>1. /\ UNCHANGED <<indexVars, d_last_min_items_read, received, writerVars, readerVars>>
      /\ d_item_tags' = d_item_tags \union {t} /\ added' = added \union {t} /\ t \notin added
  BY DEF add_item_tag
<1>2. t \in d_abs_write_offset .. d_abs_write_offset + noutput_items - 1
  <2>1. noutput_items \in Nat /\ d_abs_write_offset \in Nat
    BY <1>0, Scalars
  <2>2. CASE wpc = "work"
    BY <2>2 DEF add_item_tag, TagWindow, SingleReader
  <2>3. CASE wpc # "work"
    <3>1. noutput_items = 0
      BY <2>3 DEF TagInv, TagsAhead
    <3>2. t \in d_abs_write_offset - noutput_items .. d_abs_write_offset - 1
      BY <2>3 DEF add_item_tag, TagWindow
    <3> QED BY <2>1, <3>1, <3>2
  <2> QED BY <2>2, <2>3
<1>3. TagsFetched(r)' = TagsFetched(r) /\ TagsFetched(r) \in Nat
  BY <1>0, <1>1 DEF TagsFetched, TypeOK
<1>4. TagsFetched(r) <= t /\ t \in Nat
  <2>1. TagsFetched(r) <= d_abs_read_offset[r] /\ d_abs_read_offset[r] <= d_abs_write_offset
    BY <1>0 DEF TagInv, PruneBehind, TagsAhead, TagsFetched, TypeOK
  <2>2. d_abs_read_offset[r] \in Nat /\ d_abs_write_offset \in Nat
    BY <1>0 DEF TypeOK
  <2> QED BY <1>2, <1>3, <2>1, <2>2
<1>5. TagsAhead'
  <2>1. noutput_items \in Nat /\ d_abs_write_offset \in Nat
    BY <1>0, Scalars
  <2> QED BY <1>1, <1>2, <2>1 DEF TagInv, TagsAhead
<1>6. PruneBehind' /\ TagsKept'
  BY <1>0, <1>1, <1>3 DEF TagInv, PruneBehind, TagsKept
<1>7. TagsDelivered'
  <2> SUFFICES ASSUME NEW u \in TagOffsets
               PROVE  received[r][u] = IF u \in added' /\ u < TagsFetched(r) THEN 1 ELSE 0
    BY <1>0, <1>1, <1>3 DEF TagsDelivered
  <2>1. received[r][u] = IF u \in added /\ u < TagsFetched(r) THEN 1 ELSE 0
    BY <1>0 DEF TagInv, TagsDelivered
  <2>2. u = t => ~(u < TagsFetched(r))
    BY <1>3, <1>4
  <2> QED BY <1>1, <2>1, <2>2
<1> QED BY <1>1, <1>5, <1>6, <1>7 DEF TagInv

\* Publishing moves the write offset past the tags of this call.
LEMMA TagPublish ==
  ASSUME SingleReader, BufferInv, TagInv, NEW k \in 0 .. Half, update_write_pointer(k)
  PROVE  TagInv'
<1> USE DEF tagVars, readerVars
<1>r. PICK r \in Readers : Readers = {r}
  BY DEF SingleReader
<1>0. TypeOK /\ d_readers = {r} /\ r \in Readers
  BY <1>r DEF BufferInv, TagInv
<1>1. /\ UNCHANGED <<d_readers, d_abs_read_offset, base, tagVars, readerVars>>
      /\ d_abs_write_offset' = d_abs_write_offset + k /\ noutput_items' = 0
      /\ \A t \in added : t < d_abs_write_offset + k
  BY DEF update_write_pointer, SingleReader
<1>2. d_abs_write_offset \in Nat /\ k \in Nat /\ d_abs_read_offset[r] \in Nat
  BY <1>0, HalfFact DEF TypeOK
<1>3. TagsFetched(r)' = TagsFetched(r)
  BY <1>0, <1>1 DEF TagsFetched
<1>4. TagsAhead'
  <2>1. d_abs_read_offset[r] <= d_abs_write_offset
    BY <1>0 DEF TagInv, TagsAhead
  <2>2. \A t \in added : t < d_abs_write_offset' + noutput_items'
    BY <1>1, <1>2
  <2>3. d_item_tags \subseteq added
    BY DEF TagInv, TagsAhead
  <2> QED BY <1>0, <1>1, <1>2, <2>1, <2>2, <2>3 DEF TagsAhead
<1>5. PruneBehind' /\ TagsKept' /\ TagsDelivered'
  BY <1>0, <1>1, <1>3 DEF TagInv, PruneBehind, TagsKept, TagsDelivered
<1> QED BY <1>1, <1>4, <1>5 DEF TagInv

\* The reader notes where its call starts.
LEMMA TagStart ==
  ASSUME SingleReader, BufferInv, TagInv, NEW r \in Readers, ItemsAvailable(r)
  PROVE  TagInv'
<1> USE DEF indexVars, tagVars, writerVars
<1>0. TypeOK /\ d_readers = {r} /\ Readers = {r}
  BY DEF BufferInv, TagInv, SingleReader
<1>1. /\ UNCHANGED <<indexVars, tagVars, writerVars>> /\ rpc[r] = "idle"
      /\ start_nitems_read'[r] = d_abs_read_offset[r] /\ rpc'[r] = "work"
  BY <1>0 DEF ItemsAvailable, TypeOK
<1>2. TagsFetched(r)' = TagsFetched(r)
  BY <1>1 DEF TagsFetched
<1>3. TagsAhead'
  BY <1>1 DEF TagInv, TagsAhead
<1>4. PruneBehind' /\ TagsKept' /\ TagsDelivered'
  BY <1>0, <1>1, <1>2 DEF TagInv, PruneBehind, TagsKept, TagsDelivered
<1> QED BY <1>1, <1>3, <1>4 DEF TagInv

\* consume() moves the read offset, at most to the write offset since the
\* history stays in the buffer; the tags passed are still to be asked for.
LEMMA TagConsume ==
  ASSUME SingleReader, BufferInv, TagInv, NEW r \in Readers, NEW k \in 0 .. BufSize - 1,
         update_read_pointer(r, k)
  PROVE  TagInv'
<1> USE DEF tagVars, writerVars
<1>0. TypeOK /\ d_readers = {r} /\ Readers = {r}
  BY DEF BufferInv, TagInv, SingleReader
<1>1. /\ UNCHANGED <<d_abs_write_offset, d_readers, base, tagVars, writerVars, start_nitems_read>>
      /\ rpc[r] = "work" /\ rpc'[r] = "consumed"
      /\ d_abs_read_offset'[r] = d_abs_read_offset[r] + k
      /\ k = 0 \/ k <= ninput_items[r] - Preload[r]
  BY <1>0 DEF update_read_pointer, TypeOK, SingleReader
<1>2. /\ d_abs_write_offset \in Nat /\ k \in Nat /\ d_abs_read_offset[r] \in Nat
      /\ ninput_items[r] \in Nat /\ Preload[r] \in Nat /\ start_nitems_read[r] \in Nat
  BY <1>0, PreloadAssumption DEF TypeOK
<1>3. d_abs_read_offset[r] + k <= d_abs_write_offset
  <2>1. d_abs_read_offset[r] <= d_abs_write_offset
    BY <1>0 DEF TagInv, TagsAhead
  <2>2. ninput_items[r] <= items_available(r)
    BY <1>0, <1>1 DEF BufferInv, SnapshotsConservative
  <2>3. items_available(r) = d_abs_write_offset - (base[r] + d_abs_read_offset[r])
    BY <1>0 DEF BufferInv, OffsetsAgree
  <2>4. base[r] = 0 - Preload[r]
    BY DEF TagInv
  <2> QED BY <1>1, <1>2, <2>1, <2>2, <2>3, <2>4
<1>4. start_nitems_read[r] = d_abs_read_offset[r]
  BY <1>0, <1>1 DEF TagInv, PruneBehind
<1>5. TagsFetched(r)' = TagsFetched(r) /\ TagsFetched(r) = d_abs_read_offset[r]
  BY <1>1, <1>4 DEF TagsFetched
<1>6. TagsAhead'
  BY <1>0, <1>1, <1>3 DEF TagInv, TagsAhead
<1>7. PruneBehind'
  <2>1. d_last_min_items_read <= TagsFetched(r)
    BY <1>0, <1>2, <1>5 DEF TagInv, PruneBehind
  <2>2. start_nitems_read'[r] <= d_abs_read_offset'[r]
    BY <1>1, <1>2, <1>4
  <2> QED BY <1>0, <1>1, <1>5, <2>1, <2>2 DEF PruneBehind
<1>8. TagsKept' /\ TagsDelivered'
  BY <1>0, <1>1, <1>5 DEF TagInv, TagsKept, TagsDelivered
<1> QED BY <1>1, <1>6, <1>7, <1>8 DEF TagInv

\* propagate_tags finds every tag of the items consumed, and each for the first time.
LEMMA TagFetch ==
  ASSUME SingleReader, BufferInv, TagInv, NEW r \in Readers, get_tags_in_range(r)
  PROVE  TagInv'
<1> USE DEF indexVars, writerVars
<1>0. TypeOK /\ d_readers = {r} /\ Readers = {r}
  BY DEF BufferInv, TagInv, SingleReader
<1> DEFINE found == {t \in d_item_tags : t >= start_nitems_read[r] /\ t < d_abs_read_offset[r]}
<1>1. /\ UNCHANGED <<indexVars, d_item_tags, d_last_min_items_read, added, writerVars>>
      /\ rpc[r] = "consumed" /\ rpc'[r] = "idle"
  BY <1>0 DEF get_tags_in_range, TypeOK
<1>2. \A t \in TagOffsets :
        received'[r][t] = IF t \in found THEN received[r][t] + 1 ELSE received[r][t]
  BY <1>0 DEF get_tags_in_range, TypeOK
<1>3. /\ TagsFetched(r) = start_nitems_read[r] /\ TagsFetched(r)' = d_abs_read_offset[r]
      /\ start_nitems_read[r] <= d_abs_read_offset[r]
      /\ start_nitems_read[r] \in Nat /\ d_abs_read_offset[r] \in Nat
  BY <1>0, <1>1 DEF TagsFetched, TagInv, PruneBehind, TypeOK
<1>4. TagsAhead'
  BY <1>1 DEF TagInv, TagsAhead
<1>5. d_item_tags \subseteq added /\ added \subseteq Nat /\ TagOffsets \subseteq Nat
  BY <1>0, BoundsAssumption DEF TypeOK, TagInv, TagsAhead
<1>6. PruneBehind'
  <2>1. d_last_min_items_read \in Nat
    BY <1>0 DEF TypeOK
  <2>2. d_last_min_items_read <= d_abs_read_offset[r]
    BY <1>0, <1>3, <2>1 DEF TagInv, PruneBehind
  <2> QED BY <1>0, <1>1, <1>3, <2>2 DEF PruneBehind
<1>7. TagsKept'
  <2> SUFFICES ASSUME NEW t \in added, t >= d_abs_read_offset[r] PROVE t \in d_item_tags
    BY <1>0, <1>1, <1>3 DEF TagsKept
  <2>1. t \in Nat
    BY <1>5
  <2>2. t >= TagsFetched(r)
    BY <1>3, <2>1
  <2> QED BY <1>0, <2>2 DEF TagInv, TagsKept
<1>8. TagsDelivered'
  <2> SUFFICES ASSUME NEW t \in TagOffsets
               PROVE  received'[r][t] = IF t \in added /\ t < d_abs_read_offset[r] THEN 1 ELSE 0
    BY <1>0, <1>1, <1>3 DEF TagsDelivered
  <2>1. received[r][t] = IF t \in added /\ t < start_nitems_read[r] THEN 1 ELSE 0
    BY <1>0, <1>3 DEF TagInv, TagsDelivered
  <2>2. t \in added /\ t >= start_nitems_read[r] => t \in d_item_tags
    BY <1>0, <1>3 DEF TagInv, TagsKept
  <2>3. t \in Nat
    BY <1>5
  <2> QED BY <1>2, <1>3, <1>5, <2>1, <2>2, <2>3
<1> QED BY <1>1, <1>4, <1>6, <1>7, <1>8 DEF TagInv

\* Every step keeps the tags a single reader has yet to ask for.
LEMMA NextTagInv == SingleReader /\ BufferInv /\ TagInv /\ [Next]_vars => TagInv'
<1> SUFFICES ASSUME SingleReader, BufferInv, TagInv, [Next]_vars
             PROVE  TagInv'
  OBVIOUS
<1>1. ASSUME WriteItem \/ UNCHANGED vars PROVE TagInv'
  BY <1>1, TagStutter DEF WriteItem, vars, writerVars, readerVars
<1>2. ASSUME PropagateDone PROVE TagInv'
  <2>1. UNCHANGED <<indexVars, tagVars, rpc, start_nitems_read>>
    BY <1>2 DEF PropagateDone, readerVars
  <2>2. wpc # "work" /\ noutput_items = 0 /\ noutput_items' = 0
    BY <1>2 DEF PropagateDone, TagInv, TagsAhead
  <2>3. \A r \in Readers : TagsFetched(r)' = TagsFetched(r)
    BY <2>1 DEF TagsFetched, indexVars
  <2>4. TagsAhead'
    BY <2>1, <2>2 DEF TagInv, TagsAhead, indexVars, tagVars
  <2>5. PruneBehind' /\ TagsKept' /\ TagsDelivered'
    BY <2>1, <2>3 DEF TagInv, PruneBehind, TagsKept, TagsDelivered, indexVars, tagVars
  <2> QED BY <2>1, <2>4, <2>5 DEF TagInv, indexVars
<1>3. ASSUME NEW r \in Readers PROVE ~gr_buffer_add_reader(r) /\ ~drop_reader(r)
  BY DEF SingleReader, gr_buffer_add_reader, drop_reader
<1> QED
  BY <1>1, <1>2, <1>3, TagPrune, TagAdd, TagPublish, TagStart, TagConsume, TagFetch DEF Next

\* Between the calls of the writing thread and its one reader, prune_tags stays
\* behind what the reader has asked for, and keeps the rest.
THEOREM TagInvariant == ASSUME SingleReader PROVE Spec => []TagInv
<1>1. Init => TagInv
  BY InitTagInv
<1>2. BufferInv /\ TagInv /\ [Next]_vars => TagInv'
  BY NextTagInv
<1> QED
  BY <1>1, <1>2, BufferInvariant, PTL DEF Spec

\* A single reader that keeps its history in the buffer is handed every tag
\* exactly once, in the call of general_work that consumes the item it is
\* attached to, whenever the writing thread prunes.
THEOREM TagsDeliveredHolds == ASSUME SingleReader PROVE Spec => []TagsDelivered
<1>1. TagInv => TagsDelivered
  BY DEF TagInv
<1> QED
  BY <1>1, TagInvariant, PTL

-----------------------------------------------------------------------------
(* GrBuffer implements GrFifo. *)

\* The last k items of a stream of n, as LastItems of GrFifo.
Window(n, k) == [i \in 1 .. k |-> IF n - k + i <= 0 THEN 0 ELSE n - k + i]

Windows ==
  [r \in Readers |->
     IF r \in d_readers THEN Window(d_abs_write_offset, items_available(r)) ELSE <<>>]

\* A queue holds the last items of the stream, as many as are available.
LEMMA QueueIsWindow == BufferInv => Queues = Windows
<1> SUFFICES ASSUME BufferInv PROVE Queues = Windows
  OBVIOUS
<1>1. TypeOK /\ d_readers \subseteq Readers /\ d_abs_write_offset \in Nat /\ nfilled \in Nat
  BY Scalars DEF BufferInv, TypeOK
<1>2. ASSUME NEW r \in d_readers
      PROVE  [i \in 1 .. items_available(r) |-> store[index_add(d_read_index[r], i - 1)]]
               = Window(d_abs_write_offset, items_available(r))
  <2>1. r \in Readers /\ items_available(r) \in 0 .. BufSize - 1
    BY <1>1, <1>2, AvailableType
  <2> SUFFICES ASSUME NEW i \in 1 .. items_available(r)
               PROVE  store[index_add(d_read_index[r], i - 1)]
                        = IF d_abs_write_offset - items_available(r) + i <= 0 THEN 0
                          ELSE d_abs_write_offset - items_available(r) + i
    BY DEF Window
  <2> DEFINE d == i - 1 - items_available(r)
  <2>2. i - 1 \in 0 .. items_available(r) - 1
    BY <2>1
  <2>3. d \in 1 - BufSize .. nfilled - 1 /\ d >= 0 - items_available(r)
    BY <1>1, <2>1
  <2>4. Needed(d)
    BY <2>3, <1>2 DEF Needed
  <2>5. store[Cell(d)] = Item(d_abs_write_offset + d)
    BY <2>3, <2>4 DEF BufferInv, StreamIntact
  <2>6. index_add(d_read_index[r], i - 1) = Cell(d)
    BY <1>1, <2>1, <2>2, ReaderCell
  <2> QED
    BY <2>1, <2>5, <2>6, <1>1 DEF Item
<1> QED
  BY <1>2 DEF Queues, Windows

\* The same of the next state.
LEMMA QueueIsWindowNext == BufferInv' => (Queues = Windows)'
BY QueueIsWindow, PTL

\* What publishing and consuming do to a window of the stream.
LEMMA WindowType ==
  ASSUME NEW n \in Nat, NEW k \in Nat
  PROVE  Window(n, k) \in Seq(Nat) /\ Len(Window(n, k)) = k
BY DEF Window

\* A window that grows at its end gains one item.
LEMMA WindowAppend ==
  ASSUME NEW n \in Nat, NEW a \in Nat, NEW k \in Nat
  PROVE  Window(n + k, a + k) = Window(n, a) \o Window(n + k, k)
<1>1. /\ Window(n, a) \in Seq(Nat) /\ Len(Window(n, a)) = a
      /\ Window(n + k, k) \in Seq(Nat) /\ Len(Window(n + k, k)) = k
      /\ Window(n + k, a + k) \in Seq(Nat) /\ Len(Window(n + k, a + k)) = a + k
  BY WindowType
<1>c. /\ Window(n, a) \o Window(n + k, k) \in Seq(Nat)
      /\ Len(Window(n, a) \o Window(n + k, k)) = a + k
      /\ \A i \in 1 .. a + k : (Window(n, a) \o Window(n + k, k))[i]
           = IF i <= a THEN Window(n, a)[i] ELSE Window(n + k, k)[i - a]
  <2> DEFINE s == Window(n, a)
             t == Window(n + k, k)
  <2>1. s \in Seq(Nat) /\ t \in Seq(Nat) /\ Len(s) = a /\ Len(t) = k
    BY <1>1
  <2> HIDE DEF s, t
  <2>2. /\ s \o t \in Seq(Nat) /\ Len(s \o t) = Len(s) + Len(t)
        /\ \A i \in 1 .. Len(s) + Len(t) :
             (s \o t)[i] = IF i <= Len(s) THEN s[i] ELSE t[i - Len(s)]
    BY <2>1, ConcatProperties
  <2>3. /\ s \o t \in Seq(Nat) /\ Len(s \o t) = a + k
        /\ \A i \in 1 .. a + k : (s \o t)[i] = IF i <= a THEN s[i] ELSE t[i - a]
    BY <2>1, <2>2
  <2> QED BY <2>3 DEF s, t
<1>2. \A i \in 1 .. a + k : Window(n + k, a + k)[i] = (Window(n, a) \o Window(n + k, k))[i]
  <2> TAKE i \in 1 .. a + k
  <2>1. CASE i <= a
    <3>1. (Window(n, a) \o Window(n + k, k))[i] = Window(n, a)[i]
      BY <1>c, <2>1
    <3> QED BY <2>1, <3>1 DEF Window
  <2>2. CASE ~(i <= a)
    <3>1. (Window(n, a) \o Window(n + k, k))[i] = Window(n + k, k)[i - a]
      BY <1>c, <2>2
    <3>2. i - a \in 1 .. k
      BY <2>2
    <3>3. Window(n + k, a + k)[i] = Window(n + k, k)[i - a]
      BY <2>2, <3>2 DEF Window
    <3> QED BY <3>1, <3>3
  <2> QED BY <2>1, <2>2
<1> QED
  BY <1>1, <1>c, <1>2, SeqEqual

\* A window that shrinks at its start loses the items before it.
LEMMA WindowDrop ==
  ASSUME NEW n \in Nat, NEW a \in Nat, NEW k \in 0 .. a
  PROVE  Window(n, a - k) = SubSeq(Window(n, a), k + 1, a)
<1>0. a - k \in Nat
  OBVIOUS
<1>1. /\ Window(n, a) \in Seq(Nat) /\ Len(Window(n, a)) = a
      /\ Window(n, a - k) \in Seq(Nat) /\ Len(Window(n, a - k)) = a - k
  BY <1>0, WindowType
<1>2. /\ SubSeq(Window(n, a), k + 1, a) \in Seq(Nat)
      /\ Len(SubSeq(Window(n, a), k + 1, a)) = a - k
      /\ \A i \in 1 .. a - k : SubSeq(Window(n, a), k + 1, a)[i] = Window(n, a)[k + i]
  BY <1>1
<1>3. \A i \in 1 .. a - k : Window(n, a - k)[i] = Window(n, a)[k + i]
  BY DEF Window
<1> QED
  BY <1>1, <1>2, <1>3

\* The abstract Preload windows of GrFifo are windows of the stream.
LEMMA LastItemsIsWindow == \A n, k : Fifo!LastItems(n, k) = Window(n, k)
BY DEF Fifo!LastItems, Window

\* The readers' queues start with their history of zeros.
LEMMA FifoInitial == Init => Fifo!FifoInit
<1> SUFFICES ASSUME Init PROVE Fifo!FifoInit
  OBVIOUS
<1>1. \A r \in Readers : items_available(r) = Preload[r]
  BY HalfFact, PreloadAssumption DEF Init, items_available, index_sub
<1>2. d_abs_write_offset = 0 /\ d_readers = InitReaders
  BY DEF Init
<1>3. Queues = [r \in Readers |-> IF r \in InitReaders THEN Window(0, Preload[r]) ELSE <<>>]
  BY <1>1, <1>2, QueueIsWindow, InitBufferInv DEF Windows
<1> QED
  BY <1>2, <1>3, LastItemsIsWindow DEF Fifo!FifoInit

\* Steps that move no index change nothing the abstract queues can see.
LEMMA FifoStutter ==
  ASSUME BufferInv, BufferInv', UNCHANGED indexVars
  PROVE  UNCHANGED Fifo!fifoVars
<1>1. \A r \in Readers : items_available(r)' = items_available(r)
  BY DEF indexVars, items_available, index_sub
<1>2. d_abs_write_offset' = d_abs_write_offset /\ d_readers' = d_readers
  BY DEF indexVars
<1>3. Queues' = Queues
  BY <1>1, <1>2, QueueIsWindow, QueueIsWindowNext DEF Windows, Window
<1> QED
  BY <1>2, <1>3 DEF Fifo!fifoVars

\* The queues before and after a step, spelled out.
LEMMA WindowsHere ==
  ASSUME BufferInv
  PROVE  /\ Queues = [r \in Readers |->
                        IF r \in d_readers THEN Window(d_abs_write_offset, items_available(r))
                        ELSE <<>>]
         /\ d_abs_write_offset \in Nat /\ d_readers \subseteq Readers
         /\ d_write_index \in 0 .. BufSize - 1
         /\ d_read_index \in [Readers -> 0 .. BufSize - 1]
         /\ \A r \in Readers : items_available(r) \in 0 .. BufSize - 1
<1>1. TypeOK
  BY DEF BufferInv
<1> QED
  BY <1>1, QueueIsWindow, AvailableType DEF Windows, TypeOK

\* The windows after a step, written with primed variables.
LEMMA WindowsThere ==
  ASSUME BufferInv'
  PROVE  Queues' = [r \in Readers |->
                      IF r \in d_readers' THEN Window(d_abs_write_offset', items_available(r)')
                      ELSE <<>>]
<1>1. Queues' = Windows'
  BY QueueIsWindowNext
<1> QED
  BY <1>1 DEF Windows, Window

\* produce() and produce_each() append to every queue, within its capacity.
LEMMA FifoProduce ==
  ASSUME BufferInv, BufferInv', NEW k \in 0 .. Half, update_write_pointer(k)
  PROVE  [Fifo!FifoNext]_(Fifo!fifoVars)
<1>1. /\ wpc = "work" /\ k <= nfilled
      /\ d_write_index' = index_add(d_write_index, k)
      /\ d_abs_write_offset' = d_abs_write_offset + k
      /\ d_readers' = d_readers /\ d_read_index' = d_read_index
  BY DEF update_write_pointer
<1>2. \A r \in d_readers : /\ items_available(r) + k <= BufSize - 1
                           /\ items_available(r)' = items_available(r) + k
  <2> TAKE r \in d_readers
  <2>1. r \in Readers /\ items_available(r) \in 0 .. BufSize - 1
    BY WindowsHere
  <2>2. noutput_items \in Nat /\ nfilled \in Nat /\ k \in Nat
    BY HalfFact, Scalars DEF BufferInv
  <2>3. items_available(r) + k <= BufSize - 1
    <3>1. noutput_items <= BufSize - items_available(r) - 1 /\ nfilled <= noutput_items
      BY <1>1 DEF BufferInv, SnapshotsConservative
    <3> QED BY <3>1, <2>1, <2>2, <1>1
  <2>4. items_available(r)' = index_sub(index_add(d_write_index, k), d_read_index[r])
    BY <1>1 DEF items_available, index_sub
  <2>5. d_write_index \in 0 .. BufSize - 1 /\ d_read_index[r] \in 0 .. BufSize - 1
    BY <2>1, WindowsHere
  <2>6. items_available(r)' = items_available(r) + k
    BY <2>2, <2>3, <2>4, <2>5, AdvanceWrite DEF items_available
  <2> QED BY <2>3, <2>6
<1> DEFINE W == d_abs_write_offset
           A(r) == items_available(r)
<1>3. /\ W \in Nat /\ k \in Nat /\ d_readers \subseteq Readers
      /\ \A r \in d_readers : A(r) \in Nat
  BY WindowsHere, HalfFact
<1>4. \A r \in d_readers : /\ Queues[r] = Window(W, A(r)) /\ Len(Queues[r]) = A(r)
                           /\ Queues'[r] = Window(W + k, A(r) + k)
  <2> TAKE r \in d_readers
  <2>1. Queues[r] = Window(W, A(r))
    BY <1>3, WindowsHere
  <2>2. Queues'[r] = Window(W + k, A(r) + k)
    BY <1>1, <1>2, <1>3, WindowsThere
  <2> QED BY <2>1, <2>2, <1>3, WindowType
<1>5. Queues' = [r \in Readers |->
                   IF r \in d_readers THEN Queues[r] \o Window(W + k, k) ELSE Queues[r]]
  <2>1. Queues' = [r \in Readers |-> Queues'[r]]
    BY WindowsThere
  <2>2. \A r \in d_readers : Queues'[r] = Queues[r] \o Window(W + k, k)
    <3> TAKE r \in d_readers
    <3>1. W \in Nat /\ A(r) \in Nat /\ k \in Nat
      BY <1>3
    <3> HIDE DEF W, A
    <3>2. Window(W + k, A(r) + k) = Window(W, A(r)) \o Window(W + k, k)
      BY ONLY <3>1, WindowAppend
    <3> QED BY <3>2, <1>4
  <2>3. \A r \in Readers : r \notin d_readers => Queues'[r] = Queues[r]
    BY <1>1, WindowsHere, WindowsThere
  <2> QED BY <2>1, <2>2, <2>3
<1>6. CASE k = 0
  <2>1. Queues' = Queues
    <3>1. Queues = [r \in Readers |-> Queues[r]] /\ Queues' = [r \in Readers |-> Queues'[r]]
      BY WindowsHere, WindowsThere
    <3>2. \A r \in d_readers : W + k = W /\ A(r) + k = A(r)
      BY <1>3, <1>6
    <3>3. \A r \in Readers : Queues'[r] = Queues[r]
      BY <1>4, <1>5, <3>2
    <3> QED BY <3>1, <3>3
  <2> QED BY <2>1, <1>1, <1>3, <1>6 DEF Fifo!fifoVars
<1>7. CASE k # 0
  <2>1. k \in 1 .. BufSize - 1
    BY <1>7, HalfFact
  <2>2. Fifo!Produce(k)
    BY <1>1, <1>2, <1>4, <1>5, LastItemsIsWindow DEF Fifo!Produce
  <2> QED BY <2>1, <2>2 DEF Fifo!FifoNext
<1> QED BY <1>6, <1>7

\* A function on Readers that changes at one reader only.
LEMMA QueuesExcept ==
  ASSUME NEW f, NEW g, NEW r \in Readers, NEW v,
         f = [q \in Readers |-> f[q]], g = [q \in Readers |-> g[q]],
         \A q \in Readers : q # r => g[q] = f[q], g[r] = v
  PROVE  g = [f EXCEPT ![r] = v]
OBVIOUS

\* consume() removes items from the head of one queue.
LEMMA FifoConsume ==
  ASSUME BufferInv, BufferInv', NEW r \in Readers, NEW k \in 0 .. BufSize - 1,
         update_read_pointer(r, k)
  PROVE  [Fifo!FifoNext]_(Fifo!fifoVars)
<1>1. /\ rpc[r] = "work" /\ k <= ninput_items[r]
      /\ d_read_index' = [d_read_index EXCEPT ![r] = index_add(d_read_index[r], k)]
      /\ UNCHANGED <<d_write_index, d_abs_write_offset, d_readers>>
  BY DEF update_read_pointer
<1>2. r \in d_readers /\ ninput_items[r] <= items_available(r)
  BY <1>1 DEF BufferInv, SnapshotsConservative
<1> DEFINE W == d_abs_write_offset
           A(q) == items_available(q)
<1>3. W \in Nat /\ A(r) \in Nat /\ k \in 0 .. A(r) /\ A(r) <= BufSize - 1
  <2>1. ninput_items[r] \in Nat /\ items_available(r) \in 0 .. BufSize - 1
    BY WindowsHere, Scalars DEF BufferInv
  <2> QED BY <1>1, <1>2, <2>1, WindowsHere
<1>4. A(r)' = A(r) - k /\ \A q \in Readers : q # r => A(q)' = A(q)
  <2>1. d_write_index \in 0 .. BufSize - 1 /\ d_read_index \in [Readers -> 0 .. BufSize - 1]
    BY WindowsHere
  <2>2. A(r)' = index_sub(d_write_index, index_add(d_read_index[r], k))
    BY <1>1, <2>1 DEF items_available, index_sub
  <2>3. A(r)' = A(r) - k
    BY <1>3, <2>1, <2>2, AdvanceRead DEF items_available
  <2>4. \A q \in Readers : q # r => A(q)' = A(q)
    BY <1>1, <2>1 DEF items_available, index_sub
  <2> QED BY <2>3, <2>4
<1>5. /\ Queues = [q \in Readers |-> Queues[q]] /\ Queues' = [q \in Readers |-> Queues'[q]]
      /\ \A q \in Readers : q # r => Queues'[q] = Queues[q]
      /\ Queues[r] = Window(W, A(r)) /\ Queues'[r] = Window(W, A(r) - k)
  BY <1>1, <1>2, <1>4, WindowsHere, WindowsThere
<1>6. Len(Queues[r]) = A(r) /\ Queues'[r] = SubSeq(Queues[r], k + 1, Len(Queues[r]))
  <2> HIDE DEF W, A
  <2>1. Len(Window(W, A(r))) = A(r) /\ Window(W, A(r) - k) = SubSeq(Window(W, A(r)), k + 1, A(r))
    BY ONLY <1>3, WindowType, WindowDrop
  <2> QED BY <2>1, <1>5
<1>7. CASE k = 0
  <2>1. Queues'[r] = Queues[r]
    BY <1>3, <1>5, <1>7
  <2>2. Queues' = Queues
    BY <2>1, <1>5
  <2> QED BY <2>2, <1>1 DEF Fifo!fifoVars
<1>8. CASE k # 0
  <2>1. k \in 1 .. BufSize - 1
    BY <1>8
  <2>2. Queues' = [Queues EXCEPT ![r] = SubSeq(Queues[r], k + 1, Len(Queues[r]))]
    BY <1>5, <1>6, QueuesExcept
  <2>3. Fifo!Consume(r, k)
    BY <1>1, <1>2, <1>3, <1>6, <2>2 DEF Fifo!Consume
  <2> QED BY <2>1, <2>3 DEF Fifo!FifoNext
<1> QED BY <1>7, <1>8

\* gr_buffer_add_reader gives the new reader its history.
LEMMA FifoJoin ==
  ASSUME BufferInv, BufferInv', NEW r \in Readers, gr_buffer_add_reader(r)
  PROVE  Fifo!Join(r)
<1>1. /\ r \notin d_readers /\ d_readers' = d_readers \union {r}
      /\ d_read_index' = [d_read_index EXCEPT ![r] = index_sub(d_write_index, Preload[r])]
      /\ UNCHANGED <<d_write_index, d_abs_write_offset>>
  BY DEF gr_buffer_add_reader
<1>2. /\ d_write_index \in 0 .. BufSize - 1 /\ d_read_index \in [Readers -> 0 .. BufSize - 1]
      /\ Preload[r] \in 0 .. BufSize - 1
  BY WindowsHere, PreloadAssumption, HalfFact
<1>3. items_available(r)' = Preload[r]
  <2>1. items_available(r)' = index_sub(d_write_index, index_sub(d_write_index, Preload[r]))
    BY <1>1, <1>2 DEF items_available, index_sub
  <2> QED BY <1>2, <2>1, StepBack
<1>4. \A q \in Readers : q # r => items_available(q)' = items_available(q)
  BY <1>1, <1>2 DEF items_available, index_sub
<1>5. /\ Queues = [q \in Readers |-> Queues[q]] /\ Queues' = [q \in Readers |-> Queues'[q]]
      /\ \A q \in Readers : q # r => Queues'[q] = Queues[q]
      /\ Queues'[r] = Window(d_abs_write_offset, Preload[r])
  BY <1>1, <1>3, <1>4, WindowsHere, WindowsThere
<1>6. Queues' = [Queues EXCEPT ![r] = Window(d_abs_write_offset, Preload[r])]
  BY <1>5, QueuesExcept
<1> QED BY <1>1, <1>6, LastItemsIsWindow DEF Fifo!Join

\* drop_reader takes one queue away.
LEMMA FifoLeave ==
  ASSUME BufferInv, BufferInv', NEW r \in Readers, drop_reader(r)
  PROVE  Fifo!Leave(r)
<1>1. /\ r \in d_readers /\ d_readers' = d_readers \ {r}
      /\ d_read_index' = [d_read_index EXCEPT ![r] = 0]
      /\ UNCHANGED <<d_write_index, d_abs_write_offset>>
  BY DEF drop_reader
<1>2. \A q \in Readers : q # r => items_available(q)' = items_available(q)
  BY <1>1, WindowsHere DEF items_available, index_sub
<1>3. /\ Queues = [q \in Readers |-> Queues[q]] /\ Queues' = [q \in Readers |-> Queues'[q]]
      /\ \A q \in Readers : q # r => Queues'[q] = Queues[q]
      /\ Queues'[r] = <<>>
  BY <1>1, <1>2, WindowsHere, WindowsThere
<1>4. Queues' = [Queues EXCEPT ![r] = <<>>]
  BY <1>3, QueuesExcept
<1> QED BY <1>1, <1>4 DEF Fifo!Leave

\* Every step of the buffer is a step of the queues or leaves them alone.
LEMMA FifoStep == BufferInv /\ BufferInv' /\ [Next]_vars => [Fifo!FifoNext]_(Fifo!fifoVars)
<1> SUFFICES ASSUME BufferInv, BufferInv', [Next]_vars
             PROVE  [Fifo!FifoNext]_(Fifo!fifoVars)
  OBVIOUS
<1>1. ASSUME UNCHANGED indexVars PROVE [Fifo!FifoNext]_(Fifo!fifoVars)
  BY <1>1, FifoStutter
<1>2. ASSUME NEW nitems \in 0 .. Half, update_write_pointer(nitems)
      PROVE  [Fifo!FifoNext]_(Fifo!fifoVars)
  BY <1>2, FifoProduce
<1>3. ASSUME NEW r \in Readers, NEW nitems \in 0 .. BufSize - 1, update_read_pointer(r, nitems)
      PROVE  [Fifo!FifoNext]_(Fifo!fifoVars)
  BY <1>3, FifoConsume
<1>4. ASSUME NEW r \in Readers, gr_buffer_add_reader(r) PROVE Fifo!FifoNext
  BY <1>4, FifoJoin DEF Fifo!FifoNext
<1>5. ASSUME NEW r \in Readers, drop_reader(r) PROVE Fifo!FifoNext
  BY <1>5, FifoLeave DEF Fifo!FifoNext
<1>6. ASSUME \/ SpaceAvailable \/ WriteItem \/ PropagateDone \/ UNCHANGED vars
             \/ \E t \in TagOffsets : add_item_tag(t)
             \/ \E r \in Readers : ItemsAvailable(r) \/ get_tags_in_range(r)
      PROVE  UNCHANGED indexVars
  BY <1>6 DEF SpaceAvailable, WriteItem, PropagateDone, add_item_tag, ItemsAvailable,
     get_tags_in_range, vars
<1> QED
  BY <1>1, <1>2, <1>3, <1>4, <1>5, <1>6 DEF Next

\* A gr_buffer with its readers implements one bounded FIFO queue per reader:
\* whatever the threads do in between, the items between a reader's index and
\* the write index are the stream from where that reader stands, publishing
\* appends to all queues at once and consuming removes from the head of one.
THEOREM ImplementsFifoHolds == Spec => ImplementsFifo
<1>1. BufferInv /\ BufferInv' /\ [Next]_vars => [Fifo!FifoNext]_(Fifo!fifoVars)
  BY FifoStep
<1> QED
  BY <1>1, FifoInitial, BufferInvariant, PTL DEF Spec, ImplementsFifo, Fifo!FifoSpec
=============================================================================
