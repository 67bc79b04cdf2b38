------------------------------- MODULE Lease -------------------------------
(***************************************************************************)
(* What the task queue promises its workers, without rows, statuses,       *)
(* deadlines or requests: an item is in the hands of one holder at most,   *)
(* for a while; it is handed out a bounded number of times; and only when  *)
(* nobody holds it is that number forgiven.                                *)
(*                                                                         *)
(* Code: the claim, recovery and requeue of packages/db/task-queue.ts, as  *)
(* their callers may rely on them.                                         *)
(***************************************************************************)
EXTENDS Naturals

CONSTANTS
  Items,    \* what is handed out
  Holders,  \* who may hold it
  Budget    \* how often an item is handed out before it is forgiven

VARIABLES
  holders,  \* who holds each item
  granted   \* how often each was handed out

leaseVars == <<holders, granted>>

Init == holders = [i \in Items |-> {}] /\ granted = [i \in Items |-> 0]

\* An item nobody holds, to one who holds nothing.
Grant(i, h) ==
  /\ holders[i] = {} /\ granted[i] < Budget
  /\ \A j \in Items : h \notin holders[j]
  /\ holders' = [holders EXCEPT ![i] = {h}]
  /\ granted' = [granted EXCEPT ![i] = @ + 1]

\* Some leases end: the work is done or given up, its holder died, or time is up.
Release(ended) ==
  /\ holders' = [i \in Items |-> IF i \in ended THEN {} ELSE holders[i]]
  /\ UNCHANGED granted

\* An operator gives an item its attempts back.
Forgive(i) ==
  /\ holders[i] = {}
  /\ granted' = [granted EXCEPT ![i] = 0]
  /\ UNCHANGED holders

Next ==
  \/ \E i \in Items, h \in Holders : Grant(i, h)
  \/ \E ended \in SUBSET Items : Release(ended)
  \/ \E i \in Items : Forgive(i)

Spec == Init /\ [][Next]_leaseVars
=============================================================================
