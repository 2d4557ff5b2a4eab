------------------------------- MODULE PubSub -------------------------------
(***************************************************************************)
(* pubsub of the tar reader (hackpadfs/tar/pubsub.go): Open blocks in Wait *)
(* until the file it wants has been unpacked (Emit) or the reader's        *)
(* context is done.  A waiter subscribes by leaving the cancel function of *)
(* a context of its own; Emit takes the subscribers out under the lock and *)
(* cancels them after it has let go of it.                                 *)
(*                                                                         *)
(* Every critical section is one step: none of them blocks inside.         *)
(***************************************************************************)
EXTENDS FiniteSets

CONSTANTS
  Waiters,   \* goroutines that call Wait
  Emitters,  \* goroutines that call Emit
  Keys       \* file names

VARIABLES
  visited,      \* pubsub.visited: keys that have been emitted
  subscribers,  \* pubsub.subscribers: per key, whose cancel functions
  ctxDone,      \* pubsub.ctx is canceled
  canceled,     \* the waiters whose own context is canceled
  wpc, wkey,    \* where each waiter is and for which key
  epc, ekey,    \* the same for the emitters
  funcs         \* per emitter, the cancel functions it still has to call

vars == <<visited, subscribers, ctxDone, canceled, wpc, wkey, epc, ekey, funcs>>
wvars == <<wpc, wkey>>
evars == <<epc, ekey, funcs>>

TypeOK ==
  /\ visited \subseteq Keys
  /\ subscribers \in [Keys -> SUBSET Waiters]
  /\ ctxDone \in BOOLEAN
  /\ canceled \subseteq Waiters
  /\ wpc \in [Waiters -> {"idle", "enter", "lock", "blocked", "returned"}]
  /\ wkey \in [Waiters -> Keys]
  /\ epc \in [Emitters -> {"idle", "check", "lock", "cancel"}]
  /\ ekey \in [Emitters -> Keys]
  /\ funcs \in [Emitters -> SUBSET Waiters]

Init ==
  /\ visited = {}
  /\ subscribers = [k \in Keys |-> {}]
  /\ ctxDone = FALSE
  /\ canceled = {}
  /\ wpc = [w \in Waiters |-> "idle"]
  /\ wkey \in [Waiters -> Keys]
  /\ epc = [e \in Emitters |-> "idle"]
  /\ ekey \in [Emitters -> Keys]
  /\ funcs = [e \in Emitters |-> {}]

-----------------------------------------------------------------------------
(* Wait.  A goroutine that waits is used for one call.                     *)

CallWait(w) ==
  /\ wpc[w] = "idle"
  /\ wpc' = [wpc EXCEPT ![w] = "enter"]
  /\ UNCHANGED <<visited, subscribers, ctxDone, canceled, wkey, evars>>

\* The first select.
WaitEnter(w) ==
  /\ wpc[w] = "enter"
  /\ wpc' = [wpc EXCEPT ![w] = IF ctxDone THEN "returned" ELSE "lock"]
  /\ UNCHANGED <<visited, subscribers, ctxDone, canceled, wkey, evars>>

\* Mutant of WaitSubscribe: visited is not looked at under the lock.
SubscribeUnchecked(w) ==
  /\ wpc[w] = "lock"
  /\ wpc' = [wpc EXCEPT ![w] = "blocked"]
  /\ subscribers' = [subscribers EXCEPT ![wkey[w]] = @ \cup {w}]
  /\ UNCHANGED <<visited, ctxDone, canceled, wkey, evars>>

\* A context made from a canceled parent is born canceled.
WaitSubscribe(w) ==
  /\ wpc[w] = "lock"
  /\ IF wkey[w] \in visited
     THEN /\ wpc' = [wpc EXCEPT ![w] = "returned"]
          /\ UNCHANGED subscribers
     ELSE /\ wpc' = [wpc EXCEPT ![w] = "blocked"]
          /\ subscribers' = [subscribers EXCEPT ![wkey[w]] = @ \cup {w}]
  /\ UNCHANGED <<visited, ctxDone, canceled, wkey, evars>>

\* The second select.
WaitWake(w) ==
  /\ wpc[w] = "blocked"
  /\ ctxDone \/ w \in canceled
  /\ wpc' = [wpc EXCEPT ![w] = "returned"]
  /\ UNCHANGED <<visited, subscribers, ctxDone, canceled, wkey, evars>>

-----------------------------------------------------------------------------
(* Emit.  An emitter emits any keys, any number of times.                  *)

CallEmit(e, k) ==
  /\ epc[e] = "idle"
  /\ epc' = [epc EXCEPT ![e] = "check"]
  /\ ekey' = [ekey EXCEPT ![e] = k]
  /\ UNCHANGED <<visited, subscribers, ctxDone, canceled, wvars, funcs>>

\* Under the read lock.
EmitCheck(e) ==
  /\ epc[e] = "check"
  /\ epc' = [epc EXCEPT ![e] = IF ekey[e] \in visited THEN "idle" ELSE "lock"]
  /\ UNCHANGED <<visited, subscribers, ctxDone, canceled, wvars, ekey, funcs>>

\* Mutant of EmitVisit: the subscribers of every key are taken.
EmitVisitAllKeys(e) ==
  /\ epc[e] = "lock"
  /\ visited' = visited \cup {ekey[e]}
  /\ funcs' = [funcs EXCEPT ![e] = UNION {subscribers[k] : k \in Keys}]
  /\ subscribers' = [k \in Keys |-> {}]
  /\ epc' = [epc EXCEPT ![e] = "cancel"]
  /\ UNCHANGED <<ctxDone, canceled, wvars, ekey>>

\* Under the write lock.  Another Emit of the key may have come between.
EmitVisit(e) ==
  /\ epc[e] = "lock"
  /\ visited' = visited \cup {ekey[e]}
  /\ funcs' = [funcs EXCEPT ![e] = subscribers[ekey[e]]]
  /\ subscribers' = [subscribers EXCEPT ![ekey[e]] = {}]
  /\ epc' = [epc EXCEPT ![e] = "cancel"]
  /\ UNCHANGED <<ctxDone, canceled, wvars, ekey>>

EmitCancel(e, w) ==
  /\ epc[e] = "cancel"
  /\ w \in funcs[e]
  /\ canceled' = canceled \cup {w}
  /\ funcs' = [funcs EXCEPT ![e] = @ \ {w}]
  /\ UNCHANGED <<visited, subscribers, ctxDone, wvars, epc, ekey>>

\* Mutant of EmitReturn: Emit may leave before it has canceled everyone.
EmitReturnEarly(e) ==
  /\ epc[e] = "cancel"
  /\ epc' = [epc EXCEPT ![e] = "idle"]
  /\ UNCHANGED <<visited, subscribers, ctxDone, canceled, wvars, ekey, funcs>>

EmitReturn(e) ==
  /\ epc[e] = "cancel"
  /\ funcs[e] = {}
  /\ epc' = [epc EXCEPT ![e] = "idle"]
  /\ UNCHANGED <<visited, subscribers, ctxDone, canceled, wvars, ekey, funcs>>

\* The context given to newPubsub ends.
CancelContext ==
  /\ ~ctxDone
  /\ ctxDone' = TRUE
  /\ UNCHANGED <<visited, subscribers, canceled, wvars, evars>>

-----------------------------------------------------------------------------

WaitStep(w) == WaitEnter(w) \/ WaitSubscribe(w) \/ WaitWake(w)

EmitStep(e) ==
  \/ EmitCheck(e) \/ EmitVisit(e) \/ EmitReturn(e)
  \/ \E w \in Waiters : EmitCancel(e, w)

Next ==
  \/ \E w \in Waiters : CallWait(w) \/ WaitStep(w)
  \/ \E e \in Emitters : EmitStep(e) \/ \E k \in Keys : CallEmit(e, k)
  \/ CancelContext

Spec == Init /\ [][Next]_vars

\* Goroutines inside a call are scheduled; nobody has to emit, to wait or to
\* cancel the context.
FairSpec ==
  /\ Spec
  /\ \A w \in Waiters : WF_vars(WaitStep(w))
  /\ \A e \in Emitters : WF_vars(EmitStep(e))

-----------------------------------------------------------------------------
(* Properties                                                              *)

\* Wait returns only for a key that has been emitted or when the context is
\* done: no stray wake-up lets Open see a file that is not unpacked.
WaitReturnsOnlyReady ==
  \A w \in Waiters : wpc[w] = "returned" => wkey[w] \in visited \/ ctxDone

\* No lost wake-up: while a waiter is blocked on a key that has been
\* emitted, its context is canceled or some Emit is still about to cancel
\* it, although Emit checks, collects and cancels in three sections.
NoLostWakeup ==
  \A w \in Waiters :
    (wpc[w] = "blocked" /\ wkey[w] \in visited) =>
      w \in canceled \/ \E e \in Emitters : epc[e] = "cancel" /\ w \in funcs[e]

\* A call of Wait returns once its key has been emitted or the context is
\* done, whichever comes first.
EmitUnblocksWait ==
  \A w \in Waiters :
    (wpc[w] \in {"enter", "lock", "blocked"} /\ (wkey[w] \in visited \/ ctxDone))
      ~> wpc[w] = "returned"
=============================================================================
