----------------------------- MODULE BufferPool -----------------------------
(***************************************************************************)
(* The buffer pool of the tar reader (hackpadfs/tar/bufferpool.go): a      *)
(* channel of idle buffers that is filled lazily, with an atomic counter   *)
(* that limits how many buffers are ever made.  "It's safe for concurrent  *)
(* use": every goroutine here takes a buffer with Wait, uses it and hands  *)
(* it back with Done, again and again.                                     *)
(*                                                                         *)
(* addBuffer allocates a new buffer for each slot that it counts; here the *)
(* buffer is the number of that slot.  Which idle buffer a receive yields  *)
(* does not matter, so the channel is a set.                               *)
(***************************************************************************)
EXTENDS Integers, FiniteSets

CONSTANTS
  Procs,      \* goroutines that use the pool
  MaxBuffers  \* the maxBuffers argument of newBufferPool

ASSUME MaxBuffersAssumption == MaxBuffers \in Nat

VARIABLES
  count,    \* bufferPool.count: slots provisioned so far
  buffers,  \* bufferPool.buffers: the idle buffers in the channel
  pc,       \* where each goroutine is
  seen,     \* addBuffer: the count it loaded
  buf       \* the buffer the goroutine has in hand, 0 if none

vars == <<count, buffers, pc, seen, buf>>

\* newBufferPool replaces a limit of 0 by 1.
Cap == IF MaxBuffers = 0 THEN 1 ELSE MaxBuffers

PCs == {"idle", "wait", "load", "cas", "send", "recv", "hold", "done"}

TypeOK ==
  /\ count \in 0..Cap
  /\ buffers \subseteq 1..Cap
  /\ pc \in [Procs -> PCs]
  /\ seen \in [Procs -> 0..Cap]
  /\ buf \in [Procs -> 0..Cap]

\* newBufferPool starts with one buffer.
Init ==
  /\ count = 1
  /\ buffers = {1}
  /\ pc = [p \in Procs |-> "idle"]
  /\ seen = [p \in Procs |-> 0]
  /\ buf = [p \in Procs |-> 0]

Goto(p, l) == pc' = [pc EXCEPT ![p] = l]

Receive(p) ==
  \E b \in buffers :
    /\ buffers' = buffers \ {b}
    /\ buf' = [buf EXCEPT ![p] = b]
    /\ Goto(p, "hold")
    /\ UNCHANGED <<count, seen>>

\* A channel send blocks while the channel is full.
Send(p, l) ==
  /\ Cardinality(buffers) < Cap
  /\ buffers' = buffers \cup {buf[p]}
  /\ buf' = [buf EXCEPT ![p] = 0]
  /\ Goto(p, l)
  /\ UNCHANGED <<count, seen>>

\* A goroutine calls Wait.
CallWait(p) ==
  /\ pc[p] = "idle"
  /\ Goto(p, "wait")
  /\ UNCHANGED <<count, buffers, seen, buf>>

\* The select of Wait: an idle buffer is taken at once.
WaitReady(p) == pc[p] = "wait" /\ Receive(p)

WaitDefault(p) ==
  /\ pc[p] = "wait"
  /\ buffers = {}
  /\ Goto(p, "load")
  /\ UNCHANGED <<count, buffers, seen, buf>>

\* Mutant of AddLoad: the limit is off by one.
AddLoadOneMore(p) ==
  /\ pc[p] = "load"
  /\ IF count > Cap
     THEN Goto(p, "recv") /\ UNCHANGED seen
     ELSE Goto(p, "cas") /\ seen' = [seen EXCEPT ![p] = count]
  /\ UNCHANGED <<count, buffers, buf>>

\* addBuffer: load the counter; at the limit there is nothing to add.
AddLoad(p) ==
  /\ pc[p] = "load"
  /\ IF count = Cap
     THEN Goto(p, "recv") /\ UNCHANGED seen
     ELSE Goto(p, "cas") /\ seen' = [seen EXCEPT ![p] = count]
  /\ UNCHANGED <<count, buffers, buf>>

\* Mutant of AddCAS: the counter is stored without comparing it.
AddStore(p) ==
  /\ pc[p] = "cas"
  /\ count' = seen[p] + 1
  /\ buf' = [buf EXCEPT ![p] = seen[p] + 1]
  /\ Goto(p, "send")
  /\ seen' = [seen EXCEPT ![p] = 0]
  /\ UNCHANGED buffers

\* addBuffer: provision a slot unless the counter has moved.  The new buffer
\* has the number of the slot.
AddCAS(p) ==
  /\ pc[p] = "cas"
  /\ IF count = seen[p]
     THEN /\ count' = count + 1
          /\ buf' = [buf EXCEPT ![p] = count + 1]
          /\ Goto(p, "send")
     ELSE UNCHANGED <<count, buf>> /\ Goto(p, "load")
  /\ seen' = [seen EXCEPT ![p] = 0]
  /\ UNCHANGED buffers

AddSend(p) == pc[p] = "send" /\ Send(p, "recv")

\* The blocking receive at the end of Wait.
WaitRecv(p) == pc[p] = "recv" /\ Receive(p)

\* The user is finished with the buffer.
CallDone(p) ==
  /\ pc[p] = "hold"
  /\ Goto(p, "done")
  /\ UNCHANGED <<count, buffers, seen, buf>>

\* Mutant of Done: the buffer is dropped.
DoneDropped(p) ==
  /\ pc[p] = "done"
  /\ buf' = [buf EXCEPT ![p] = 0]
  /\ Goto(p, "idle")
  /\ UNCHANGED <<count, buffers, seen>>

Done(p) == pc[p] = "done" /\ Send(p, "idle")

Step(p) ==
  \/ WaitReady(p) \/ WaitDefault(p) \/ AddLoad(p) \/ AddCAS(p) \/ AddSend(p)
  \/ WaitRecv(p) \/ CallDone(p) \/ Done(p)

Next == \E p \in Procs : CallWait(p) \/ Step(p)

Spec == Init /\ [][Next]_vars

\* Goroutines are scheduled, a buffer in use is given back in the end, and
\* the receivers of a channel are served in turn.
FairSpec == Spec /\ \A p \in Procs : SF_vars(Step(p))

-----------------------------------------------------------------------------
(* Properties                                                              *)

\* A slot has one buffer, which is in one place: no two goroutines make a
\* buffer for the same slot or hold the same buffer, and one in hand is not
\* idle in the channel, although the slot is counted (CompareAndSwap in
\* addBuffer) long before the buffer is sent.
BufferInOnePlace ==
  \A p, q \in Procs :
    buf[p] # 0 => /\ buf[p] \notin buffers
                  /\ p # q => buf[p] # buf[q]

\* A goroutine that sends, in addBuffer or in Done, always finds room: the
\* pool never holds more than cap(p.buffers) buffers, so Done never blocks.
SendNeverBlocks ==
  \A p \in Procs : pc[p] \in {"send", "done"} => Cardinality(buffers) < Cap

\* Every Wait returns a buffer, also when the new buffer that its own
\* addBuffer made is taken by another goroutine ("may not always get the new
\* buffer").
WaitReturns == \A p \in Procs : pc[p] = "wait" ~> pc[p] = "hold"
=============================================================================
