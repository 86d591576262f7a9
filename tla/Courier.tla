-------------------------------- MODULE Courier --------------------------------
(***************************************************************************)
(* What the outbox promises: an event is promised by the transaction that  *)
(* causes it, or never; only a promised event is ever handled, once or     *)
(* several times.                                                          *)
(***************************************************************************)
CONSTANT Events

VARIABLES
  promised,  \* events of committed transactions
  handled    \* events that reached their end: sent, given up, or marked

vars == <<promised, handled>>

Init == promised = {} /\ handled = {}

Promise(es) ==
  /\ es \cap promised = {}
  /\ promised' = promised \cup es
  /\ UNCHANGED handled

Handle(e) ==
  /\ e \in promised
  /\ handled' = handled \cup {e}
  /\ UNCHANGED promised

Next ==
  \/ \E es \in SUBSET Events : Promise(es)
  \/ \E e \in Events : Handle(e)

Spec == Init /\ [][Next]_vars
===============================================================================
