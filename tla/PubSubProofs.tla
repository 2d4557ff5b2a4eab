---------------------------- MODULE PubSubProofs ----------------------------
(***************************************************************************)
(* Proofs about PubSub for any waiters, emitters and keys.                 *)
(***************************************************************************)
EXTENDS PubSub, TLAPS

\* A waiter's cancel function is where it can still do its work: a blocked
\* waiter is subscribed, or taken out by an Emit that has yet to cancel it,
\* or canceled already.
WakeupPending ==
  \A w \in Waiters : wpc[w] = "blocked" =>
    \/ w \in subscribers[wkey[w]]
    \/ w \in canceled
    \/ \E e \in Emitters : epc[e] = "cancel" /\ w \in funcs[e]

\* Emit empties the list of a key in the section that marks it visited.
VisitedHasNoSubscribers == \A k \in visited : subscribers[k] = {}

\* Cancel functions sit under the key of their waiter, and they are taken
\* out and called only when that key is visited.
CancelMeansVisited ==
  /\ \A k \in Keys : \A w \in subscribers[k] : wkey[w] = k
  /\ \A e \in Emitters : \A w \in funcs[e] : wkey[w] \in visited
  /\ \A w \in canceled : wkey[w] \in visited

IndInv ==
  /\ TypeOK
  /\ WakeupPending
  /\ VisitedHasNoSubscribers
  /\ CancelMeansVisited
  /\ WaitReturnsOnlyReady

-----------------------------------------------------------------------------

\* The state newPubsub leaves satisfies the inductive invariant.
LEMMA InitInv == Init => IndInv
BY DEF Init, IndInv, TypeOK, WakeupPending, VisitedHasNoSubscribers,
       CancelMeansVisited, WaitReturnsOnlyReady

\* Every step of Wait, of Emit and of the context preserves it.
LEMMA NextInv == IndInv /\ [Next]_vars => IndInv'
<1> SUFFICES ASSUME IndInv, [Next]_vars
             PROVE  IndInv'
  OBVIOUS
<1> USE DEF IndInv, TypeOK, WakeupPending, VisitedHasNoSubscribers,
            CancelMeansVisited, WaitReturnsOnlyReady, wvars, evars
<1>1. ASSUME NEW w \in Waiters, CallWait(w)
      PROVE  IndInv'
  BY <1>1 DEF CallWait
<1>2. ASSUME NEW w \in Waiters, WaitEnter(w)
      PROVE  IndInv'
  BY <1>2 DEF WaitEnter
<1>3. ASSUME NEW w \in Waiters, WaitSubscribe(w)
      PROVE  IndInv'
  BY <1>3 DEF WaitSubscribe
<1>4. ASSUME NEW w \in Waiters, WaitWake(w)
      PROVE  IndInv'
  BY <1>4 DEF WaitWake
<1>5. ASSUME NEW e \in Emitters, NEW k \in Keys, CallEmit(e, k)
      PROVE  IndInv'
  BY <1>5 DEF CallEmit
<1>6. ASSUME NEW e \in Emitters, EmitCheck(e)
      PROVE  IndInv'
  BY <1>6 DEF EmitCheck
<1>7. ASSUME NEW e \in Emitters, EmitVisit(e)
      PROVE  IndInv'
  BY <1>7 DEF EmitVisit
<1>8. ASSUME NEW e \in Emitters, NEW w \in Waiters, EmitCancel(e, w)
      PROVE  IndInv'
  BY <1>8 DEF EmitCancel
<1>9. ASSUME NEW e \in Emitters, EmitReturn(e)
      PROVE  IndInv'
  BY <1>9 DEF EmitReturn
<1>10. CASE CancelContext
  BY <1>10 DEF CancelContext
<1>11. CASE UNCHANGED vars
  BY <1>11 DEF vars
<1> QED
  BY <1>1, <1>2, <1>3, <1>4, <1>5, <1>6, <1>7, <1>8, <1>9, <1>10, <1>11
  DEF Next, WaitStep, EmitStep

\* The variables of the pubsub keep their types and Wait returns only for an
\* emitted key or when the context is done.
THEOREM ReturnsOnlyReady == Spec => [](TypeOK /\ WaitReturnsOnlyReady)
<1>1. IndInv => TypeOK /\ WaitReturnsOnlyReady
  BY DEF IndInv
<1> QED
  BY <1>1, InitInv, NextInv, PTL DEF Spec

\* Emit never loses a waiter: one that is blocked on an emitted key has been
\* canceled or is about to be.
THEOREM WakeupNotLost == Spec => []NoLostWakeup
<1>1. IndInv => NoLostWakeup
  BY DEF IndInv, TypeOK, WakeupPending, VisitedHasNoSubscribers, NoLostWakeup
<1> QED
  BY <1>1, InitInv, NextInv, PTL DEF Spec
=============================================================================
