--------------------------- MODULE BlockLog_proofs ---------------------------
(***************************************************************************)
(* Proofs about BlockLog for logs of any length.                           *)
(***************************************************************************)
EXTENDS BlockLog, TLAPS

-----------------------------------------------------------------------------
(* The inductive invariant.  The two files are told apart only by their    *)
(* lengths; a stream that has no buffer to write out has everything on     *)
(* disk; and an open log's index is complete, except for a log of one      *)
(* block, which construct_index leaves without one.                        *)

TypeOK ==
    /\ blocks \in Seq([num : Nat, pos : Nat]) /\ index \in Seq(Nat)
    /\ block_disk \in 0 .. Len(blocks) /\ index_disk \in 0 .. Len(index)
    /\ head \in Nat

Files ==
    /\ \A i \in 1 .. Len(blocks) : blocks[i].num = i /\ blocks[i].pos = i - 1
    /\ \A i \in 1 .. Len(index) : index[i] = i - 1

Streams ==
    /\ ~(is_open /\ block_write) => block_disk = Len(blocks)
    /\ ~(is_open /\ index_write) => index_disk = Len(index)

Opened ==
    is_open => /\ head = Len(blocks)
               /\ Len(index) = Len(blocks) \/ (Len(blocks) = 1 /\ index = <<>>)

IInv == TypeOK /\ Files /\ Streams /\ Opened

-----------------------------------------------------------------------------
LEMMA InitIInv == Init => IInv
<1> SUFFICES ASSUME Init PROVE IInv
  OBVIOUS
<1>1. blocks = <<>> /\ index = <<>> /\ block_disk = 0 /\ index_disk = 0 /\ head = 0 /\ ~is_open
  BY DEF Init
<1>2. <<>> \in Seq([num : Nat, pos : Nat]) /\ <<>> \in Seq(Nat) /\ Len(<<>>) = 0
  OBVIOUS
<1> QED BY <1>1, <1>2 DEF IInv, TypeOK, Files, Streams, Opened

\* An index that is built anew has the position of every block, unless there
\* is only one.
LEMMA ReconstructedIs ==
    ASSUME IInv, blocks # <<>>
    PROVE  /\ Reconstructed(blocks) \in Seq(Nat)
           /\ Len(blocks) = 1 => Reconstructed(blocks) = <<>>
           /\ Len(blocks) # 1 => Len(Reconstructed(blocks)) = Len(blocks)
           /\ \A i \in 1 .. Len(Reconstructed(blocks)) : Reconstructed(blocks)[i] = i - 1
<1> PICK n \in Nat : n = Len(blocks) /\ n >= 1
  BY DEF IInv, TypeOK
<1>1. LastPos(blocks) = n - 1
  BY DEF IInv, Files, LastPos
<1>2. CASE n = 1
  <2>1. Reconstructed(blocks) = <<>>
    BY <1>1, <1>2 DEF Reconstructed
  <2> QED BY <1>2, <2>1
<1>3. CASE n # 1
  <2> DEFINE new == [i \in 1 .. n |-> blocks[i].pos]
  <2>1. Reconstructed(blocks) = new
    BY <1>1, <1>3 DEF Reconstructed
  <2>2. \A i \in 1 .. n : new[i] = i - 1 /\ new[i] \in Nat
    BY DEF IInv, Files
  <2>3. new \in Seq(Nat) /\ Len(new) = n
    BY <2>2
  <2> HIDE DEF new
  <2> QED BY <1>3, <2>1, <2>2, <2>3
<1> QED BY <1>2, <1>3

\* What open leaves of the index.
LEMMA MendedIs ==
    ASSUME IInv, ~is_open
    PROVE  /\ Mended \in Seq(Nat)
           /\ \A i \in 1 .. Len(Mended) : Mended[i] = i - 1
           /\ Len(Mended) = Len(blocks) \/ (Len(blocks) = 1 /\ Mended = <<>>)
           /\ SameHeads => Mended = index
<1>1. CASE blocks = <<>>
  <2>1. Mended = <<>> /\ ~SameHeads
    BY <1>1 DEF Mended, SameHeads
  <2> QED BY <1>1, <2>1
<1>2. CASE blocks # <<>> /\ SameHeads
  <2>1. Mended = index
    BY <1>2 DEF Mended
  <2>2. PICK n \in Nat, m \in Nat : n = Len(blocks) /\ m = Len(index) /\ n >= 1 /\ m >= 1
    BY <1>2 DEF IInv, TypeOK, SameHeads
  <2>3. blocks[n].pos = n - 1 /\ index[m] = m - 1
    BY <2>2 DEF IInv, Files
  <2>4. n = m
    BY <1>2, <2>2, <2>3 DEF SameHeads, LastPos
  <2> QED BY <2>1, <2>2, <2>4 DEF IInv, TypeOK, Files
<1>3. CASE blocks # <<>> /\ ~SameHeads
  <2>1. Mended = Reconstructed(blocks)
    BY <1>3 DEF Mended
  <2> QED BY <1>3, <2>1, ReconstructedIs
<1> QED BY <1>1, <1>2, <1>3

LEMMA OpenIInv ==
    ASSUME IInv, Open
    PROVE  IInv'
<1>1. /\ ~is_open /\ is_open' = TRUE /\ index' = Mended
      /\ block_write' = (blocks = <<>>) /\ index_write' = ~SameHeads
      /\ blocks' = blocks /\ block_disk' = block_disk
      /\ index_disk' = IF Mended = index THEN index_disk ELSE 0
  BY DEF Open
<1>2. head' = Len(blocks)
  <2> PICK n \in Nat : n = Len(blocks)
    BY DEF IInv, TypeOK
  <2>1. CASE blocks = <<>>
    BY <2>1 DEF Open
  <2>2. CASE blocks # <<>>
    <3>1. n >= 1
      BY <2>2 DEF IInv, TypeOK
    <3>2. LastPos(blocks) = n - 1 /\ blocks[n].num = n
      BY <3>1 DEF LastPos, IInv, Files
    <3>3. RecordAt(n - 1) = blocks[n]
      BY DEF RecordAt
    <3> QED BY <2>2, <3>2, <3>3 DEF Open
  <2> QED BY <2>1, <2>2
<1>3. block_disk = Len(blocks) /\ index_disk = Len(index)
  BY <1>1 DEF IInv, Streams
<1>4. TypeOK'
  <2>1. index_disk' \in 0 .. Len(index')
    <3>1. Len(Mended) \in Nat
      BY <1>1, MendedIs
    <3> QED BY <1>1, <1>3, <3>1 DEF IInv, TypeOK
  <2>2. head' \in Nat
    BY <1>2 DEF IInv, TypeOK
  <2> QED BY <1>1, <2>1, <2>2, MendedIs DEF IInv, TypeOK
<1>5. Files'
  BY <1>1, MendedIs DEF IInv, Files
<1>6. Streams'
  BY <1>1, <1>3, MendedIs DEF Streams
<1>7. Opened'
  BY <1>1, <1>2, MendedIs DEF Opened
<1> QED BY <1>4, <1>5, <1>6, <1>7 DEF IInv

LEMMA AppendBlockIs ==
    ASSUME IInv, AppendBlock, NEW n \in Nat, n = Len(blocks)
    PROVE  /\ head = n /\ Len(index) = n /\ NextNum = n + 1
           /\ blocks' \in Seq([num : Nat, pos : Nat]) /\ Len(blocks') = n + 1
           /\ blocks'[n + 1] = [num |-> n + 1, pos |-> n]
           /\ \A i \in 1 .. n : blocks'[i] = blocks[i]
           /\ index' \in Seq(Nat) /\ Len(index') = n + 1
           /\ index'[n + 1] = n
           /\ \A i \in 1 .. n : index'[i] = index[i]
<1>1. head = n /\ Len(index) = n /\ NextNum = n + 1
  BY DEF AppendBlock, IInv, Opened, IndexInPlace, NextNum
<1>2. blocks' = Append(blocks, [num |-> n + 1, pos |-> n]) /\ index' = Append(index, n)
  BY <1>1 DEF AppendBlock
<1>3. /\ blocks' \in Seq([num : Nat, pos : Nat]) /\ Len(blocks') = n + 1
      /\ blocks'[n + 1] = [num |-> n + 1, pos |-> n]
      /\ \A i \in 1 .. n : blocks'[i] = blocks[i]
  BY <1>2 DEF IInv, TypeOK
<1>4. /\ index' \in Seq(Nat) /\ Len(index') = n + 1
      /\ index'[n + 1] = n
      /\ \A i \in 1 .. n : index'[i] = index[i]
  BY <1>1, <1>2 DEF IInv, TypeOK
<1> QED BY <1>1, <1>3, <1>4

LEMMA AppendBlockIInv ==
    ASSUME IInv, AppendBlock
    PROVE  IInv'
<1> PICK n \in Nat : n = Len(blocks)
  BY DEF IInv, TypeOK
<1>1. head = n /\ Len(index) = n /\ NextNum = n + 1
  BY AppendBlockIs
<1>3. /\ blocks' \in Seq([num : Nat, pos : Nat]) /\ Len(blocks') = n + 1
      /\ blocks'[n + 1] = [num |-> n + 1, pos |-> n]
      /\ \A i \in 1 .. n : blocks'[i] = blocks[i]
  BY AppendBlockIs
<1>4. /\ index' \in Seq(Nat) /\ Len(index') = n + 1
      /\ index'[n + 1] = n
      /\ \A i \in 1 .. n : index'[i] = index[i]
  BY AppendBlockIs
<1>5. TypeOK'
  <2>1. block_disk' \in 0 .. n + 1 /\ index_disk' \in 0 .. n + 1
    BY <1>1 DEF AppendBlock, IInv, TypeOK
  <2> QED BY <1>1, <1>3, <1>4, <2>1 DEF AppendBlock, IInv, TypeOK
<1>6. Files'
  <2>1. ASSUME NEW i \in 1 .. n + 1
        PROVE  blocks'[i].num = i /\ blocks'[i].pos = i - 1 /\ index'[i] = i - 1
    <3>1. CASE i = n + 1
      BY <1>3, <1>4, <3>1
    <3>2. CASE i # n + 1
      <4>1. i \in 1 .. n
        BY <3>2
      <4> QED BY <1>1, <1>3, <1>4, <4>1 DEF IInv, Files
    <3> QED BY <3>1, <3>2
  <2> QED BY <1>3, <1>4, <2>1 DEF Files
<1>7. Streams' /\ Opened'
  BY <1>1, <1>3, <1>4 DEF AppendBlock, Streams, Opened
<1> QED BY <1>5, <1>6, <1>7 DEF IInv

\* What a crash keeps of a file.
LEMMA CutIs ==
    ASSUME NEW T, NEW f \in Seq(T), NEW disk \in 0 .. Len(f), NEW g \in Cut(f, disk)
    PROVE  /\ g \in Seq(T) /\ Len(g) \in disk .. Len(f)
           /\ g = SubSeq(f, 1, Len(g))
           /\ \A i \in 1 .. Len(g) : g[i] = f[i]
<1>1. PICK n \in disk .. Len(f) : g = SubSeq(f, 1, n)
  BY DEF Cut
<1>2. n \in Nat /\ n <= Len(f)
  OBVIOUS
<1>3. g \in Seq(T) /\ Len(g) = n /\ \A i \in 1 .. n : g[i] = f[i]
  BY <1>1, <1>2
<1> QED BY <1>1, <1>3

LEMMA CrashIInv ==
    ASSUME IInv, Crash
    PROVE  IInv'
<1>1. /\ blocks' \in Seq([num : Nat, pos : Nat]) /\ Len(blocks') \in 0 .. Len(blocks)
      /\ \A i \in 1 .. Len(blocks') : blocks'[i] = blocks[i]
  <2> DEFINE R == [num : Nat, pos : Nat]
  <2>1. blocks \in Seq(R) /\ block_disk \in 0 .. Len(blocks) /\ blocks' \in Cut(blocks, block_disk)
    BY DEF Crash, IInv, TypeOK
  <2> HIDE DEF R
  <2>2. /\ blocks' \in Seq(R) /\ Len(blocks') \in block_disk .. Len(blocks)
        /\ \A i \in 1 .. Len(blocks') : blocks'[i] = blocks[i]
    BY <2>1, CutIs
  <2>3. Len(blocks') \in 0 .. Len(blocks)
    BY <2>1, <2>2
  <2> QED BY <2>2, <2>3 DEF R
<1>2. /\ index' \in Seq(Nat) /\ Len(index') \in 0 .. Len(index)
      /\ \A i \in 1 .. Len(index') : index'[i] = index[i]
  <2>1. index \in Seq(Nat) /\ index_disk \in 0 .. Len(index) /\ index' \in Cut(index, index_disk)
    BY DEF Crash, IInv, TypeOK
  <2>2. /\ index' \in Seq(Nat) /\ Len(index') \in index_disk .. Len(index)
        /\ \A i \in 1 .. Len(index') : index'[i] = index[i]
    BY <2>1, CutIs
  <2> QED BY <2>1, <2>2
<1>3. TypeOK'
  BY <1>1, <1>2 DEF Crash, TypeOK
<1>4. Files'
  <2>1. ASSUME NEW i \in 1 .. Len(blocks') PROVE blocks'[i].num = i /\ blocks'[i].pos = i - 1
    <3>1. i \in 1 .. Len(blocks)
      BY <1>1 DEF IInv, TypeOK
    <3> QED BY <1>1, <3>1 DEF IInv, Files
  <2>2. ASSUME NEW i \in 1 .. Len(index') PROVE index'[i] = i - 1
    <3>1. i \in 1 .. Len(index)
      BY <1>2 DEF IInv, TypeOK
    <3> QED BY <1>2, <3>1 DEF IInv, Files
  <2> QED BY <2>1, <2>2 DEF Files
<1>5. Streams' /\ Opened'
  BY DEF Crash, Streams, Opened
<1> QED BY <1>3, <1>4, <1>5 DEF IInv

LEMMA NextIInv ==
    ASSUME IInv, [Next]_vars
    PROVE  IInv'
<1>1. CASE Open
  BY <1>1, OpenIInv
<1>2. CASE AppendBlock
  BY <1>2, AppendBlockIInv
<1>3. CASE AppendFails
  BY <1>3 DEF AppendFails, IInv, TypeOK, Files, Streams, Opened
<1>4. CASE Flush
  BY <1>4 DEF Flush, IInv, TypeOK, Files, Streams, Opened
<1>5. CASE \E n \in 0 .. MaxBlocks : ReadBlockByNum(n)
  <2>1. PICK n \in 0 .. MaxBlocks : ReadBlockByNum(n)
    BY <1>5
  <2>2. /\ UNCHANGED <<blocks, index, head, is_open>> /\ ~index_write' /\ index_disk' = Len(index)
        /\ \/ ~block_write' /\ block_disk' = Len(blocks)
           \/ UNCHANGED <<block_write, block_disk>>
    BY <2>1 DEF ReadBlockByNum
  <2>3. TypeOK /\ Files /\ Streams /\ Opened
    BY DEF IInv
  <2>4. Files' /\ Opened'
    BY <2>2, <2>3 DEF Files, Opened
  <2>5. TypeOK'
    BY <2>2, <2>3 DEF TypeOK
  <2>6. Streams'
    BY <2>2, <2>3 DEF Streams
  <2> QED BY <2>4, <2>5, <2>6 DEF IInv
<1>6. CASE Close
  BY <1>6 DEF Close, IInv, TypeOK, Files, Streams, Opened
<1>7. CASE Crash
  BY <1>7, CrashIInv
<1>8. CASE UNCHANGED vars
  BY <1>8 DEF vars, IInv, TypeOK, Files, Streams, Opened
<1> QED BY <1>1, <1>2, <1>3, <1>4, <1>5, <1>6, <1>7, <1>8 DEF Next

LEMMA Inductive == Spec => []IInv
<1>1. IInv /\ [Next]_vars => IInv'
  BY NextIInv
<1> QED BY <1>1, InitIInv, PTL DEF Spec

-----------------------------------------------------------------------------
\* However much of either file every crash kept, block_log::open leaves a log
\* whose head is the last block, in which every block is found by its number
\* and to which the next one can be appended.
THEOREM OpenMendsIndex == Spec => []IndexComplete
<1>1. IInv => IndexComplete
  <2> SUFFICES ASSUME IInv, is_open, head # 1
               PROVE  /\ head = Len(blocks)
                      /\ \A n \in 1 .. head : Finds(n)
                      /\ IndexInPlace
    BY DEF IndexComplete
  <2>1. PICK m \in Nat : m = head /\ m = Len(blocks) /\ m = Len(index)
    BY DEF IInv, TypeOK, Opened
  <2>2. ASSUME NEW n \in 1 .. m PROVE Finds(n)
    <3>1. index[n] = n - 1 /\ blocks[n].num = n
      BY <2>1 DEF IInv, Files
    <3>2. RecordAt(index[n]) = blocks[n]
      BY <3>1 DEF RecordAt
    <3> QED BY <2>1, <3>1, <3>2 DEF Finds
  <2>3. IndexInPlace
    BY <2>1 DEF IndexInPlace, NextNum
  <2> QED BY <2>1, <2>2, <2>3
<1> QED BY <1>1, Inductive, PTL

\* flush leaves nothing of either file in a buffer, whatever appends and reads
\* came before it (block_log::flush and check_block_read, check_index_read).
THEOREM FlushIsComplete == Spec => FlushReachesDisk
<1>1. IInv /\ [Next]_vars => [Flush => block_disk' = Len(blocks) /\ index_disk' = Len(index)]_vars
  <2> SUFFICES ASSUME IInv, Flush
               PROVE  block_disk' = Len(blocks) /\ index_disk' = Len(index)
    OBVIOUS
  <2> QED BY DEF Flush, IInv, Streams, TypeOK
<1> QED BY <1>1, Inductive, PTL DEF Spec, FlushReachesDisk

-----------------------------------------------------------------------------
(* The refinement.                                                         *)

LEMMA NumbersAre ==
    ASSUME IInv
    PROVE  /\ Numbers \in Seq(Nat) /\ Len(Numbers) = Len(blocks)
           /\ \A i \in 1 .. Len(blocks) : Numbers[i] = i
<1> PICK n \in Nat : n = Len(blocks)
  BY DEF IInv, TypeOK
<1>1. Numbers = [i \in 1 .. n |-> blocks[i].num]
  BY DEF Numbers
<1>2. \A i \in 1 .. n : blocks[i].num = i /\ i \in Nat
  BY DEF IInv, Files
<1> QED BY <1>1, <1>2

\* Sequences of the same length with the same elements are equal.
LEMMA SameNumbers ==
    ASSUME NEW u \in Seq(Nat), NEW w \in Seq(Nat), Len(u) = Len(w),
           \A i \in 1 .. Len(u) : u[i] = w[i]
    PROVE  u = w
OBVIOUS

LEMMA StepRefines ==
    ASSUME IInv, IInv', Next
    PROVE  [Store!Next]_(Store!vars)
<1> PICK n \in Nat : n = Len(blocks) /\ n = Len(Numbers)
  BY NumbersAre DEF IInv, TypeOK
<1>1. Numbers \in Seq(Nat) /\ \A i \in 1 .. n : Numbers[i] = i
  BY NumbersAre
<1>2. /\ Numbers' \in Seq(Nat) /\ Len(Numbers') = Len(blocks')
      /\ \A i \in 1 .. Len(blocks') : Numbers'[i] = i
  <2>1. IInv' => (/\ Numbers \in Seq(Nat) /\ Len(Numbers) = Len(blocks)
                  /\ \A i \in 1 .. Len(blocks) : Numbers[i] = i)'
    BY NumbersAre, PTL
  <2> QED BY <2>1
<1>3. ASSUME UNCHANGED blocks PROVE Numbers' = Numbers
  BY <1>3 DEF Numbers
<1>4. ASSUME UNCHANGED blocks, block_disk' \in block_disk .. n
      PROVE  Store!Flush
  BY <1>3, <1>4 DEF Store!Flush
<1>5. block_disk \in 0 .. n
  BY DEF IInv, TypeOK
<1>6. CASE Open
  BY <1>3, <1>6 DEF Open, Store!vars
<1>7. CASE AppendBlock
  <2>1. NextNum = n + 1
    BY <1>7 DEF AppendBlock, IInv, Opened, NextNum
  <2>2. Len(blocks') = n + 1 /\ block_disk' = block_disk
    <3>1. Len(blocks') = n + 1
      BY <1>7, AppendBlockIs
    <3> QED BY <1>7, <3>1 DEF AppendBlock
  <2>3. /\ Append(Numbers, n + 1) \in Seq(Nat) /\ Len(Append(Numbers, n + 1)) = n + 1
        /\ \A i \in 1 .. n + 1 : Append(Numbers, n + 1)[i] = i
    BY <1>1
  <2>4. Numbers' = Append(Numbers, n + 1)
    BY <1>2, <2>2, <2>3, SameNumbers
  <2> QED BY <2>2, <2>4 DEF Store!Next, Store!Append1
<1>8. CASE AppendFails
  BY <1>3, <1>8 DEF AppendFails, Store!vars
<1>9. CASE Flush
  <2>1. UNCHANGED blocks /\ block_disk' \in block_disk .. n
    <3>1. block_disk' = n \/ block_disk' = block_disk
      BY <1>9 DEF Flush
    <3> QED BY <1>5, <1>9, <3>1 DEF Flush
  <2> QED BY <1>4, <2>1 DEF Store!Next
<1>10. CASE \E m \in 0 .. MaxBlocks : ReadBlockByNum(m)
  <2>1. UNCHANGED blocks /\ block_disk' \in block_disk .. n
    BY <1>5, <1>10 DEF ReadBlockByNum
  <2> QED BY <1>4, <2>1 DEF Store!Next
<1>11. CASE Close
  <2>1. UNCHANGED blocks /\ block_disk' \in block_disk .. n
    <3>1. block_disk' = n /\ UNCHANGED blocks
      BY <1>11 DEF Close
    <3> QED BY <1>5, <3>1
  <2> QED BY <1>4, <2>1 DEF Store!Next
<1>12. CASE Crash
  <2>1. PICK m \in block_disk .. n : m = Len(blocks') /\ block_disk' = m
    BY <1>5, <1>12, CutIs DEF Crash, IInv, TypeOK
  <2>2. /\ SubSeq(Numbers, 1, m) \in Seq(Nat) /\ Len(SubSeq(Numbers, 1, m)) = m
        /\ \A i \in 1 .. m : SubSeq(Numbers, 1, m)[i] = i
    BY <1>1, <1>5
  <2>3. Numbers' = SubSeq(Numbers, 1, m)
    BY <1>2, <2>1, <2>2, SameNumbers
  <2> QED BY <2>1, <2>3 DEF Store!Next, Store!Lose
<1> QED BY <1>6, <1>7, <1>8, <1>9, <1>10, <1>11, <1>12 DEF Next

\* The two files, their streams and open's mending of the index implement the
\* log ChainDatabase relies on: blocks are added at the end in the order of
\* their numbers, and a crash takes only blocks that were not flushed.
THEOREM Refinement == Spec => ImplementsLogStore
<1>1. Init => Store!Init
  BY DEF Init, Store!Init, Numbers
<1>2. IInv /\ IInv' /\ [Next]_vars => [Store!Next]_(Store!vars)
  <2> SUFFICES ASSUME IInv, IInv', [Next]_vars PROVE [Store!Next]_(Store!vars)
    OBVIOUS
  <2>1. CASE Next
    BY <2>1, StepRefines
  <2>2. CASE UNCHANGED vars
    BY <2>2 DEF vars, Store!vars, Numbers
  <2> QED BY <2>1, <2>2
<1> QED BY <1>1, <1>2, Inductive, PTL DEF Spec, Store!Spec, ImplementsLogStore
=============================================================================
