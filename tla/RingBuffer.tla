----------------------------- MODULE RingBuffer ------------------------------
(***************************************************************************)
(* LUFA's ring buffer (RingBuffer.h) with one thread that inserts and one  *)
(* that removes, each of them the main program or an interrupt.  Only      *)
(* Count is accessed with interrupts disabled, so Insert and Remove are    *)
(* three steps each: the byte, the pointer, the count.  Both threads do    *)
(* what the comments ask of them: ask for the free space or the count,     *)
(* keep the answer, and insert or remove no more often than it allows.     *)
(***************************************************************************)
EXTENDS Naturals, Sequences

CONSTANTS
  Size,       \* bytes of the storage array
  Data,       \* the values of a byte
  NoData      \* nothing peeked

ASSUME SizeAssumption == Size \in Nat \ {0}
ASSUME DataAssumption == NoData \notin Data

VARIABLES
  mem,        \* the storage array
  In, Out,    \* Buffer->In and Buffer->Out, as indices
  Count,      \* Buffer->Count
  ipc,        \* progress of Insert: "idle", "stored", "moved"
  inserting,  \* its parameter
  room,       \* insertions left of the last GetFreeCount
  rpc,        \* progress of Remove: "idle", "read", "moved"
  removing,   \* its local variable Data
  avail,      \* removals left of the last GetCount
  peeked,     \* what Peek returned since the last removal
  removed     \* what the last Remove returned

insertVars == <<In, ipc, inserting, room>>
removeVars == <<Out, rpc, removing, avail, peeked, removed>>
vars == <<mem, Count, insertVars, removeVars>>

Slots == 0..(Size - 1)

\* RingBuffer_InitBuffer; the array holds anything.
Init ==
  /\ mem \in [Slots -> Data]
  /\ In = 0 /\ Out = 0 /\ Count = 0
  /\ ipc = "idle" /\ inserting \in Data /\ room = 0
  /\ rpc = "idle" /\ removing \in Data /\ avail = 0
  /\ peeked = NoData /\ removed \in Data

\* Faulty variant: one slot of the array is never used.
Advance_Short(p) == IF p + 1 >= Size - 1 THEN 0 ELSE p + 1

\* The next slot: at End, back to Start.
Advance(p) == IF p + 1 = Size THEN 0 ELSE p + 1

-----------------------------------------------------------------------------
(* The inserting thread *)

\* Faulty variant: one byte too many is promised.
GetFreeCount_OneMore ==
  /\ ipc = "idle" /\ room' = (Size - Count) + 1
  /\ UNCHANGED <<mem, Count, In, ipc, inserting, removeVars>>

\* RingBuffer_GetFreeCount and RingBuffer_IsFull.
GetFreeCount ==
  /\ ipc = "idle" /\ room' = Size - Count
  /\ UNCHANGED <<mem, Count, In, ipc, inserting, removeVars>>

InsertStore(d) ==
  /\ ipc = "idle" /\ room > 0
  /\ ipc' = "stored" /\ inserting' = d /\ room' = room - 1
  /\ mem' = [mem EXCEPT ![In] = d]
  /\ UNCHANGED <<Count, In, removeVars>>

InsertMove ==
  /\ ipc = "stored" /\ ipc' = "moved"
  /\ In' = Advance(In)
  /\ UNCHANGED <<mem, Count, inserting, room, removeVars>>

InsertCount ==
  /\ ipc = "moved" /\ ipc' = "idle"
  /\ Count' = Count + 1
  /\ UNCHANGED <<mem, In, inserting, room, removeVars>>

-----------------------------------------------------------------------------
(* The removing thread *)

\* Faulty variant: a byte is announced that is not there.
GetCount_OneMore ==
  /\ rpc = "idle" /\ avail' = Count + 1
  /\ UNCHANGED <<mem, Count, insertVars, Out, rpc, removing, peeked, removed>>

\* RingBuffer_GetCount and RingBuffer_IsEmpty.
GetCount ==
  /\ rpc = "idle" /\ avail' = Count
  /\ UNCHANGED <<mem, Count, insertVars, Out, rpc, removing, peeked, removed>>

Peek ==
  /\ rpc = "idle" /\ avail > 0
  /\ peeked' = mem[Out]
  /\ UNCHANGED <<mem, Count, insertVars, Out, rpc, removing, avail, removed>>

RemoveRead ==
  /\ rpc = "idle" /\ avail > 0
  /\ rpc' = "read" /\ removing' = mem[Out] /\ avail' = avail - 1
  /\ UNCHANGED <<mem, Count, insertVars, Out, peeked, removed>>

RemoveMove ==
  /\ rpc = "read" /\ rpc' = "moved"
  /\ Out' = Advance(Out)
  /\ UNCHANGED <<mem, Count, insertVars, removing, avail, peeked, removed>>

\* Faulty variant: the byte is returned from the slot Out has moved on to.
RemoveCount_Rereads ==
  /\ rpc = "moved" /\ rpc' = "idle"
  /\ Count' = Count - 1
  /\ removed' = mem[Out] /\ peeked' = NoData
  /\ UNCHANGED <<mem, insertVars, Out, removing, avail>>

RemoveCount ==
  /\ rpc = "moved" /\ rpc' = "idle"
  /\ Count' = Count - 1
  /\ removed' = removing /\ peeked' = NoData
  /\ UNCHANGED <<mem, insertVars, Out, removing, avail>>

-----------------------------------------------------------------------------
Inserter == GetFreeCount \/ (\E d \in Data : InsertStore(d)) \/ InsertMove \/ InsertCount
Remover == GetCount \/ Peek \/ RemoveRead \/ RemoveMove \/ RemoveCount

Next == Inserter \/ Remover

Spec == Init /\ [][Next]_vars

-----------------------------------------------------------------------------
(* The abstract queue *)

\* The slot i places behind p, for i up to Size.
Behind(p, i) == IF p + i >= Size THEN (p + i) - Size ELSE p + i

\* The slot of the oldest byte: Remove moves Out before it gives the slot free.
First ==
  IF rpc # "moved" THEN Out ELSE IF Out = 0 THEN Size - 1 ELSE Out - 1

Queue == [i \in 1..Count |-> mem[Behind(First, i - 1)]]

Abstract == INSTANCE Fifo WITH queue <- Queue

-----------------------------------------------------------------------------
(* Properties *)

\* Every variable has its type; in particular the count is never negative and
\* never more than the array holds.
TypeOK ==
  /\ mem \in [Slots -> Data]
  /\ In \in Slots /\ Out \in Slots /\ Count \in 0..Size
  /\ ipc \in {"idle", "stored", "moved"} /\ inserting \in Data /\ room \in 0..Size
  /\ rpc \in {"idle", "read", "moved"} /\ removing \in Data /\ avail \in 0..Size
  /\ peeked \in Data \cup {NoData} /\ removed \in Data

\* "The returned number should be used only to determine how many successive reads
\* may safely be performed" (RingBuffer.h:154, and :180 for writes): an answer kept
\* by one thread stays good whatever the other thread does meanwhile, because each
\* Insert counts last and each Remove gives its slot free last.
CachedCountsSafe ==
  /\ avail + (IF rpc = "idle" THEN 0 ELSE 1) <= Count
  /\ room + (IF ipc = "idle" THEN 0 ELSE 1) <= Size - Count

\* main.c sends what Peek returns and removes it once it is sent: the byte removed
\* is the one that was peeked, whatever is inserted in between.
PeekedIsRemoved ==
  [][rpc = "moved" /\ rpc' = "idle" /\ peeked # NoData => removed' = peeked]_vars

\* The threads see a bounded queue: no byte is lost, duplicated, reordered or
\* overwritten, in any interleaving of the steps of Insert and Remove.
ImplementsFifo == Abstract!Spec
=============================================================================
