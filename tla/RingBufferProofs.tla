-------------------------- MODULE RingBufferProofs ---------------------------
(***************************************************************************)
(* Proofs about RingBuffer, for every size of the array and every set of   *)
(* byte values: the counts the threads keep are safe, a peeked byte is the *)
(* one removed, and the buffer implements the bounded queue of Fifo.       *)
(***************************************************************************)
EXTENDS RingBuffer, SequenceTheorems, TLAPS

-----------------------------------------------------------------------------
(* The inductive invariant *)

\* In is as far behind the oldest byte as the count says, plus the slot of an
\* insertion that has moved it and not yet counted.
InPlace == In = Behind(First, IF ipc = "moved" THEN Count + 1 ELSE Count)

\* The byte being inserted lies just behind the counted ones.
Stored == ipc # "idle" => mem[Behind(First, Count)] = inserting

\* The bytes being removed and peeked are the oldest one.
Oldest ==
  /\ rpc # "idle" => removing = mem[First]
  /\ peeked # NoData => Count > 0 /\ peeked = mem[First]

RingInv == TypeOK /\ CachedCountsSafe /\ InPlace /\ Stored /\ Oldest

-----------------------------------------------------------------------------
(* Arithmetic of the slots *)

\* Slots behind a slot are slots, and different ones within a turn.
LEMMA BehindDistinct ==
  ASSUME NEW p \in Slots
  PROVE  /\ \A i \in 0..Size : Behind(p, i) \in Slots
         /\ \A i, j \in 0..(Size - 1) : i # j => Behind(p, i) # Behind(p, j)
         /\ Behind(p, 0) = p
BY SizeAssumption DEF Behind, Slots

\* Advancing is one place further, and shortens the way to every slot behind.
LEMMA AdvanceBehind ==
  ASSUME NEW p \in Slots
  PROVE  /\ Advance(p) \in Slots
         /\ \A i \in 0..(Size - 1) : Advance(Behind(p, i)) = Behind(p, i + 1)
         /\ \A i \in 0..(Size - 1) : Behind(Advance(p), i) = Behind(p, i + 1)
BY SizeAssumption DEF Behind, Advance, Slots

\* The oldest byte has a slot, and moving Out leaves it where it is.
LEMMA FirstSlot ==
  ASSUME Out \in Slots
  PROVE  /\ First \in Slots
         /\ rpc # "moved" => First = Out
         /\ rpc = "moved" => Out = Advance(First)
         /\ rpc = "read" /\ rpc' = "moved" /\ Out' = Advance(Out) => First' = First
         /\ rpc = "moved" /\ rpc' = "idle" /\ Out' = Out => First' = Advance(First)
         /\ rpc' = rpc /\ Out' = Out => First' = First
         /\ rpc = "idle" /\ rpc' = "read" /\ Out' = Out => First' = First
BY SizeAssumption DEF First, Advance, Slots

-----------------------------------------------------------------------------
(* The invariant is inductive *)

LEMMA RingInit == Init => RingInv
BY SizeAssumption, DataAssumption
   DEF Init, RingInv, TypeOK, CachedCountsSafe, InPlace, Stored, Oldest, First, Behind, Slots

LEMMA InvInserter ==
  ASSUME RingInv, Inserter
  PROVE  RingInv'
<1> USE SizeAssumption, DataAssumption
<1> USE DEF RingInv
<1>1. First \in Slots /\ First' = First
  BY FirstSlot DEF TypeOK, Inserter, GetFreeCount, InsertStore, InsertMove, InsertCount,
     removeVars
<1>2. CASE GetFreeCount
  BY <1>1, <1>2 DEF GetFreeCount, removeVars, TypeOK, CachedCountsSafe, InPlace, Stored, Oldest
<1>3. CASE \E d \in Data : InsertStore(d)
  <2>1. PICK d \in Data : InsertStore(d)
    BY <1>3
  <2>2. Count \in 0..(Size - 1) /\ In = Behind(First, Count)
    BY <2>1 DEF InsertStore, TypeOK, CachedCountsSafe, InPlace
  <2>3. In = Behind(First, Count) /\ mem'[Behind(First, Count)] = d
    BY <2>1, <2>2 DEF InsertStore, TypeOK
  <2>4. Count > 0 => mem'[First] = mem[First]
    <3>1. SUFFICES ASSUME Count > 0 PROVE Behind(First, Count) # First
      BY <1>1, <2>1, <2>2 DEF InsertStore, TypeOK
    <3>2. QED BY <3>1, <2>2, <1>1, BehindDistinct
  <2>5. TypeOK' /\ CachedCountsSafe'
    BY <2>1 DEF InsertStore, removeVars, TypeOK, CachedCountsSafe
  <2>6. InPlace' /\ Stored'
    BY <1>1, <2>1, <2>2, <2>3 DEF InsertStore, removeVars, InPlace, Stored, Behind
  <2>7. Oldest'
    BY <1>1, <2>1, <2>4 DEF InsertStore, removeVars, Oldest, CachedCountsSafe, TypeOK
  <2>8. QED BY <2>5, <2>6, <2>7
<1>4. CASE InsertMove
  <2>1. Count \in 0..(Size - 1)
    BY <1>4 DEF InsertMove, TypeOK, CachedCountsSafe
  <2>2. In' = Behind(First, Count + 1)
    BY <1>1, <1>4, <2>1, AdvanceBehind DEF InsertMove, InPlace
  <2>3. In' \in Slots
    BY <1>1, <2>1, <2>2, BehindDistinct
  <2>4. QED
    BY <1>1, <1>4, <2>2, <2>3 DEF InsertMove, removeVars, TypeOK, CachedCountsSafe, InPlace,
       Stored, Oldest, Behind
<1>5. CASE InsertCount
  BY <1>1, <1>5 DEF InsertCount, removeVars, TypeOK, CachedCountsSafe, InPlace, Stored, Oldest,
     Behind
<1>6. QED BY <1>2, <1>3, <1>4, <1>5 DEF Inserter

LEMMA InvRemover ==
  ASSUME RingInv, Remover
  PROVE  RingInv'
<1> USE SizeAssumption, DataAssumption
<1> USE DEF RingInv
<1>1. First \in Slots /\ Out \in Slots
  BY FirstSlot DEF TypeOK
<1>2. CASE GetCount
  <2>1. First' = First BY <1>1, <1>2, FirstSlot DEF GetCount
  <2>2. QED
    BY <2>1, <1>2 DEF GetCount, insertVars, TypeOK, CachedCountsSafe, InPlace, Stored, Oldest,
       Behind
<1>3. CASE Peek
  <2>1. First' = First /\ First = Out BY <1>1, <1>3, FirstSlot DEF Peek
  <2>2. QED
    BY <1>1, <2>1, <1>3 DEF Peek, insertVars, TypeOK, CachedCountsSafe, InPlace, Stored, Oldest,
       Behind
<1>4. CASE RemoveRead
  <2>1. First' = First /\ First = Out BY <1>1, <1>4, FirstSlot DEF RemoveRead
  <2>2. QED
    BY <1>1, <2>1, <1>4 DEF RemoveRead, insertVars, TypeOK, CachedCountsSafe, InPlace, Stored,
       Oldest, Behind
<1>5. CASE RemoveMove
  <2>1. First' = First BY <1>1, <1>5, FirstSlot DEF RemoveMove
  <2>2. Out' \in Slots BY <1>1, <1>5, AdvanceBehind DEF RemoveMove
  <2>3. QED
    BY <2>1, <2>2, <1>5 DEF RemoveMove, insertVars, TypeOK, CachedCountsSafe, InPlace, Stored,
       Oldest, Behind
<1>6. CASE RemoveCount
  <2>1. First' = Advance(First) BY <1>1, <1>6, FirstSlot DEF RemoveCount
  <2>2. Count \in 1..Size /\ Count' = Count - 1
    BY <1>6 DEF RemoveCount, TypeOK, CachedCountsSafe
  <2>3. \A i \in 0..(Size - 1) : Behind(First', i) = Behind(First, i + 1)
    BY <1>1, <2>1, AdvanceBehind
  <2>4. Behind(First', Count') = Behind(First, Count)
    BY <2>2, <2>3
  <2>5. TypeOK' /\ CachedCountsSafe'
    BY <1>6, <2>2 DEF RemoveCount, insertVars, TypeOK, CachedCountsSafe
  <2>6. InPlace'
    <3>1. ipc = "moved" => Count < Size
      BY DEF TypeOK, CachedCountsSafe
    <3>2. ipc = "moved" => Behind(First', Count' + 1) = Behind(First, Count + 1)
      BY <2>2, <2>3, <3>1
    <3>3. QED BY <1>6, <2>4, <3>2 DEF RemoveCount, insertVars, InPlace, Behind
  <2>7. Stored'
    BY <1>6, <2>4 DEF RemoveCount, insertVars, Stored, Behind
  <2>8. Oldest'
    BY <1>6 DEF RemoveCount, Oldest
  <2>9. QED BY <2>5, <2>6, <2>7, <2>8
<1>7. QED BY <1>2, <1>3, <1>4, <1>5, <1>6 DEF Remover

THEOREM RingInvariant == Spec => []RingInv
<1>1. RingInv /\ UNCHANGED vars => RingInv'
  BY DEF RingInv, TypeOK, CachedCountsSafe, InPlace, Stored, Oldest, First, Behind, vars,
     insertVars, removeVars
<1>2. RingInv /\ [Next]_vars => RingInv'
  BY <1>1, InvInserter, InvRemover DEF Next
<1>3. QED BY RingInit, <1>2, PTL DEF Spec

-----------------------------------------------------------------------------
(* The properties *)

\* What RingBuffer.TypeOK says of the pointers and the count, for every size.
THEOREM RingTypes == Spec => []TypeOK
BY RingInvariant, PTL DEF RingInv

\* CachedCountsSafe for every size: GetCount is a lower bound for the removing
\* thread, GetFreeCount for the inserting one.
THEOREM CountsStaySafe == Spec => []CachedCountsSafe
BY RingInvariant, PTL DEF RingInv

\* PeekedIsRemoved for every size: SendByte(Peek) followed by Remove, as in main.c,
\* sends and drops the same byte.
THEOREM PeekMeansRemove == Spec => PeekedIsRemoved
<1>1. RingInv /\ [Next]_vars
        => [rpc = "moved" /\ rpc' = "idle" /\ peeked # NoData => removed' = peeked]_vars
  BY DEF RingInv, Oldest, Next, Inserter, Remover, GetFreeCount, InsertStore, InsertMove,
     InsertCount, GetCount, Peek, RemoveRead, RemoveMove, RemoveCount, removeVars, vars
<1>2. QED BY <1>1, RingInvariant, PTL DEF Spec, PeekedIsRemoved

-----------------------------------------------------------------------------
(* The refinement *)

\* The queue is a sequence of bytes, and its elements are the slots behind First.
LEMMA QueueIsSeq ==
  ASSUME RingInv
  PROVE  /\ Queue \in Seq(Data) /\ Len(Queue) = Count
         /\ \A i \in 1..Count : Queue[i] = mem[Behind(First, i - 1)]
<1>1. First \in Slots BY FirstSlot DEF RingInv, TypeOK
<1>2. \A i \in 1..Count : Behind(First, i - 1) \in Slots
  BY <1>1, BehindDistinct, SizeAssumption DEF RingInv, TypeOK
<1>3. \A i \in 1..Count : mem[Behind(First, i - 1)] \in Data
  BY <1>2 DEF RingInv, TypeOK
<1>4. Count \in Nat BY SizeAssumption DEF RingInv, TypeOK
<1>5. QED BY <1>3, <1>4 DEF Queue

\* Where neither the count nor the counted slots change, the queue does not.
LEMMA QueueSame ==
  ASSUME RingInv, Count' = Count, First' = First,
         \A i \in 1..Count : mem'[Behind(First, i - 1)] = mem[Behind(First, i - 1)]
  PROVE  Queue' = Queue
<1>1. Queue' = [i \in 1..Count |-> mem'[Behind(First, i - 1)]]
  BY DEF Queue, Behind
<1>2. QED BY <1>1 DEF Queue

\* InsertCount is the moment at which the byte joins the queue.
LEMMA CountPuts ==
  ASSUME RingInv, InsertCount
  PROVE  Abstract!Put
<1>1. First' = First /\ First \in Slots
  BY FirstSlot DEF RingInv, TypeOK, InsertCount, removeVars
<1>2. Count \in Nat /\ Count < Size /\ Count' = Count + 1 /\ mem' = mem
  BY SizeAssumption DEF RingInv, TypeOK, CachedCountsSafe, InsertCount
<1>3. mem[Behind(First, Count)] = inserting /\ inserting \in Data
  BY DEF RingInv, Stored, InsertCount, TypeOK
<1>4. Queue' = [i \in 1..(Count + 1) |-> mem[Behind(First, i - 1)]]
  BY <1>1, <1>2 DEF Queue, Behind
<1>5. /\ Append(Queue, inserting) \in Seq(Data)
      /\ Len(Append(Queue, inserting)) = Count + 1
      /\ \A i \in 1..Count : Append(Queue, inserting)[i] = Queue[i]
      /\ Append(Queue, inserting)[Count + 1] = inserting
  BY <1>2, <1>3, QueueIsSeq, AppendProperties
<1>6. \A i \in 1..(Count + 1) : Append(Queue, inserting)[i] = mem[Behind(First, i - 1)]
  BY <1>2, <1>3, <1>5, QueueIsSeq
<1>7. Queue' = Append(Queue, inserting)
  <2>1. \A i \in 1..(Count + 1) : mem[Behind(First, i - 1)] \in Data
    BY <1>2, <1>5, <1>6, ElementOfSeq, Zenon
  <2>2. /\ Queue' \in Seq(Data) /\ Len(Queue') = Count + 1
        /\ \A i \in 1..(Count + 1) : Queue'[i] = mem[Behind(First, i - 1)]
    BY <1>2, <1>4, <2>1
  <2>3. QED BY <1>2, <1>5, <1>6, <2>2, SeqEqual, SMTT(30)
<1>8. Len(Queue) < Size BY <1>2, QueueIsSeq
<1>9. removed' = removed BY DEF InsertCount, removeVars
<1>10. QED BY <1>3, <1>7, <1>8, <1>9 DEF Abstract!Put

\* RemoveCount is the moment at which it leaves it.
LEMMA CountTakes ==
  ASSUME RingInv, RemoveCount
  PROVE  Abstract!Take
<1>1. First' = Advance(First) /\ First \in Slots
  BY FirstSlot DEF RingInv, TypeOK, RemoveCount
<1>2. Count \in Nat /\ 0 < Count /\ Count <= Size /\ Count' = Count - 1 /\ mem' = mem
  BY SizeAssumption DEF RingInv, TypeOK, CachedCountsSafe, RemoveCount
<1>3. Queue # <<>> BY <1>2, QueueIsSeq
<1>4. removed' = Head(Queue)
  <2>1. removed' = mem[First] BY DEF RingInv, Oldest, RemoveCount
  <2>2. Behind(First, 0) = First BY <1>1, BehindDistinct
  <2>3. Queue[1] = mem[First] BY <1>2, <2>2, QueueIsSeq
  <2>4. QED BY <1>3, <2>1, <2>3, QueueIsSeq
<1>5. Queue' = Tail(Queue)
  <2>1. Queue' = [i \in 1..(Count - 1) |-> mem[Behind(First', i - 1)]]
    BY <1>2 DEF Queue, Behind
  <2>2. /\ Tail(Queue) \in Seq(Data) /\ Len(Tail(Queue)) = Count - 1
        /\ \A i \in 1..(Count - 1) : Tail(Queue)[i] = Queue[i + 1]
    BY <1>2, <1>3, QueueIsSeq, HeadTailProperties
  <2>3. \A i \in 1..(Count - 1) : Behind(First', i - 1) = Behind(First, i)
    BY <1>1, <1>2, AdvanceBehind, SizeAssumption
  <2>4. \A i \in 1..(Count - 1) : mem[Behind(First', i - 1)] = Queue[i + 1]
    BY <1>2, <2>3, QueueIsSeq
  <2>5. \A i \in 1..(Count - 1) : Queue[i + 1] \in Data
    BY <1>2, QueueIsSeq, ElementOfSeq
  <2>6. /\ Queue' \in Seq(Data) /\ Len(Queue') = Count - 1
        /\ \A i \in 1..(Count - 1) : Queue'[i] = Queue[i + 1]
    BY <1>2, <2>1, <2>4, <2>5
  <2>7. QED BY <1>2, <2>2, <2>6, SeqEqual
<1>6. QED BY <1>3, <1>4, <1>5 DEF Abstract!Take

\* Every other step leaves the queue as it is.
LEMMA OthersStutter ==
  ASSUME RingInv, Next, ~InsertCount, ~RemoveCount
  PROVE  UNCHANGED Abstract!vars
<1> USE SizeAssumption
<1>1. First \in Slots /\ First' = First
  BY FirstSlot DEF RingInv, TypeOK, Next, Inserter, Remover, GetFreeCount, InsertStore,
     InsertMove, GetCount, Peek, RemoveRead, RemoveMove, removeVars
<1>2. Count' = Count /\ removed' = removed
  BY DEF Next, Inserter, Remover, GetFreeCount, InsertStore, InsertMove, GetCount, Peek,
     RemoveRead, RemoveMove, removeVars
<1>3. \A i \in 1..Count : mem'[Behind(First, i - 1)] = mem[Behind(First, i - 1)]
  <2>1. CASE mem' = mem BY <2>1
  <2>2. CASE \E d \in Data : InsertStore(d)
    <3>1. Count \in 0..(Size - 1) /\ In = Behind(First, Count)
      BY <2>2 DEF RingInv, TypeOK, CachedCountsSafe, InPlace, InsertStore
    <3>2. \A i \in 1..Count : Behind(First, i - 1) # In /\ Behind(First, i - 1) \in Slots
      BY <1>1, <3>1, BehindDistinct
    <3>3. QED BY <2>2, <3>2 DEF InsertStore, RingInv, TypeOK
  <2>3. QED
    BY <2>1, <2>2 DEF Next, Inserter, Remover, GetFreeCount, InsertMove, GetCount, Peek,
       RemoveRead, RemoveMove
<1>4. QED BY <1>1, <1>2, <1>3, QueueSame DEF Abstract!vars

\* ImplementsFifo for every size: all interleavings of one inserting and one
\* removing thread behave like a bounded queue.
THEOREM RingIsFifo == Spec => ImplementsFifo
<1>1. Init => Abstract!Init
  <2> SUFFICES ASSUME Init PROVE Queue = <<>> /\ removed \in Data
    BY DEF Abstract!Init
  <2>1. RingInv /\ Count = 0 BY RingInit DEF Init
  <2>2. QED BY <2>1, QueueIsSeq DEF RingInv, TypeOK
<1>2. RingInv /\ UNCHANGED vars => UNCHANGED Abstract!vars
  BY DEF vars, insertVars, removeVars, Abstract!vars, Queue, First, Behind
<1>3. RingInv /\ [Next]_vars => [Abstract!Next]_(Abstract!vars)
  BY <1>2, CountPuts, CountTakes, OthersStutter DEF Abstract!Next
<1>4. QED BY <1>1, <1>3, RingInvariant, PTL DEF Spec, ImplementsFifo, Abstract!Spec
=============================================================================
