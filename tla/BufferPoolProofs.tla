-------------------------- MODULE BufferPoolProofs --------------------------
(***************************************************************************)
(* Proofs about BufferPool for any goroutines and any limit.               *)
(***************************************************************************)
EXTENDS BufferPool, FiniteSetTheorems, TLAPS

\* A goroutine has a buffer in hand exactly between making or receiving it
\* and sending it.
InHand ==
  \A p \in Procs : (buf[p] # 0) <=> (pc[p] \in {"send", "hold", "done"})

\* Every buffer carries the number of a provisioned slot, so the next number
\* is new.
Provisioned ==
  /\ buffers \subseteq 1..count
  /\ \A p \in Procs : buf[p] <= count

\* The compare-and-swap is only tried below the limit.
BelowLimit == \A p \in Procs : pc[p] = "cas" => seen[p] < Cap

IndInv == TypeOK /\ InHand /\ Provisioned /\ BelowLimit /\ BufferInOnePlace

-----------------------------------------------------------------------------

\* newBufferPool always makes room for one buffer at least.
LEMMA CapType == Cap \in Nat /\ Cap >= 1
BY MaxBuffersAssumption DEF Cap

\* The state newBufferPool returns satisfies the inductive invariant.
LEMMA InitInv == Init => IndInv
BY CapType
DEF Init, IndInv, TypeOK, PCs, InHand, Provisioned, BelowLimit,
    BufferInOnePlace

\* Every step of Wait, addBuffer and Done preserves it.
LEMMA NextInv == IndInv /\ [Next]_vars => IndInv'
<1> SUFFICES ASSUME IndInv, [Next]_vars
             PROVE  IndInv'
  OBVIOUS
<1> USE CapType DEF IndInv, TypeOK, PCs, InHand, Provisioned, BelowLimit,
                    BufferInOnePlace, Goto
<1>1. ASSUME NEW p \in Procs, CallWait(p)
      PROVE  IndInv'
  BY <1>1 DEF CallWait
<1>2. ASSUME NEW p \in Procs, pc[p] \in {"wait", "recv"}, Receive(p)
      PROVE  IndInv'
  BY <1>2 DEF Receive
<1>3. ASSUME NEW p \in Procs, WaitDefault(p)
      PROVE  IndInv'
  BY <1>3 DEF WaitDefault
<1>4. ASSUME NEW p \in Procs, AddLoad(p)
      PROVE  IndInv'
  BY <1>4 DEF AddLoad
<1>5. ASSUME NEW p \in Procs, AddCAS(p)
      PROVE  IndInv'
  BY <1>5 DEF AddCAS
<1>6. ASSUME NEW p \in Procs, pc[p] \in {"send", "done"},
             NEW l \in {"recv", "idle"}, Send(p, l)
      PROVE  IndInv'
  <2>1. buf[p] \in 1..count /\ buf[p] \in 1..Cap /\ buf[p] \notin buffers
    BY <1>6
  <2>2. /\ buffers' = buffers \cup {buf[p]}
        /\ buf' = [buf EXCEPT ![p] = 0]
        /\ pc' = [pc EXCEPT ![p] = l]
        /\ count' = count /\ seen' = seen
    BY <1>6 DEF Send
  <2>3. TypeOK'
    <3>1. buffers' \subseteq 1..Cap
      BY <2>1, <2>2
    <3> QED
      BY <1>6, <2>2, <3>1
  <2>4. BelowLimit'
    BY <1>6, <2>2
  <2>5. InHand'
    BY <1>6, <2>2
  <2>6. Provisioned'
    <3>1. buffers' \subseteq 1..count'
      BY <2>1, <2>2
    <3> QED
      BY <2>2, <3>1
  <2>7. BufferInOnePlace'
    BY <1>6, <2>1, <2>2
  <2> QED
    BY <2>3, <2>4, <2>5, <2>6, <2>7
<1>7. ASSUME NEW p \in Procs, CallDone(p)
      PROVE  IndInv'
  BY <1>7 DEF CallDone
<1>8. CASE UNCHANGED vars
  BY <1>8 DEF vars
<1> QED
  BY <1>1, <1>2, <1>3, <1>4, <1>5, <1>6, <1>7, <1>8
  DEF Next, Step, WaitReady, WaitRecv, AddSend, Done

\* The channel cannot be full while a goroutine has a buffer to send: the
\* idle buffers are among the Cap buffers and that one is not one of them.
LEMMA RoomForSender == IndInv => SendNeverBlocks
<1> SUFFICES ASSUME IndInv, NEW p \in Procs, pc[p] \in {"send", "done"}
             PROVE  Cardinality(buffers) < Cap
  BY DEF SendNeverBlocks
<1>1. buffers \subseteq (1..Cap) \ {buf[p]} /\ buf[p] \in 1..Cap
  BY CapType DEF IndInv, TypeOK, InHand, BufferInOnePlace
<1>2. IsFiniteSet(1..Cap) /\ Cardinality(1..Cap) = Cap
  BY CapType, FS_Interval
<1>3. /\ IsFiniteSet((1..Cap) \ {buf[p]})
      /\ Cardinality((1..Cap) \ {buf[p]}) = Cap - 1
  BY <1>1, <1>2, FS_RemoveElement
<1>4. /\ IsFiniteSet(buffers)
      /\ Cardinality(buffers) <= Cardinality((1..Cap) \ {buf[p]})
  BY <1>1, <1>3, FS_Subset
<1>5. Cardinality(buffers) \in Nat
  BY <1>4, FS_CardinalityType
<1> QED
  BY <1>3, <1>4, <1>5, CapType

\* TypeOK: no more than Cap buffers are ever counted, whatever the interleaving
\* of Load and CompareAndSwap in addBuffer.
THEOREM BuffersBounded == Spec => []TypeOK
<1>1. IndInv => TypeOK
  BY DEF IndInv
<1> QED
  BY <1>1, InitInv, NextInv, PTL DEF Spec

\* BufferInOnePlace: a buffer is in hand or idle, never both and never in two
\* hands, from the compare-and-swap that counts it on.
THEOREM BuffersNotShared == Spec => []BufferInOnePlace
<1>1. IndInv => BufferInOnePlace
  BY DEF IndInv
<1> QED
  BY <1>1, InitInv, NextInv, PTL DEF Spec

\* buffer.Done and the send of addBuffer never block.
THEOREM DoneNeverBlocks == Spec => []SendNeverBlocks
BY InitInv, NextInv, RoomForSender, PTL DEF Spec
=============================================================================
