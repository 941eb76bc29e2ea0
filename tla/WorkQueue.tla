----------------------------- MODULE WorkQueue -----------------------------
(***************************************************************************)
(* What Espial's durable journal promises those who append to it: an item  *)
(* waits until its effect is applied, exactly once, or until it was handed *)
(* out Limit times and is given up; either is final.  There are no clocks, *)
(* leases, batches, workers or crashes here: SignalJournal implements this *)
(* specification with them.                                                *)
(***************************************************************************)
EXTENDS Integers

CONSTANTS
    Items,   \* what can be put into the queue
    Limit    \* how often an item may be handed out

VARIABLES
    fate,    \* fate[i]: absent, waiting, processed or dead
    tries,   \* tries[i]: how often i was handed out
    effects  \* effects[i]: how often the effect of i was applied

vars == <<fate, tries, effects>>

Init ==
    /\ fate = [i \in Items |-> "absent"]
    /\ tries = [i \in Items |-> 0]
    /\ effects = [i \in Items |-> 0]

Put(i) ==
    /\ fate[i] = "absent"
    /\ fate' = [fate EXCEPT ![i] = "waiting"]
    /\ UNCHANGED <<tries, effects>>

(* Some waiting items are handed out together. *)
Hand(S) ==
    /\ \A i \in S : fate[i] = "waiting" /\ tries[i] < Limit
    /\ tries' = [i \in Items |-> IF i \in S THEN tries[i] + 1 ELSE tries[i]]
    /\ UNCHANGED <<fate, effects>>

(* The effect is applied and the item leaves the queue, in one step. *)
Finish(i) ==
    /\ fate[i] = "waiting" /\ tries[i] > 0
    /\ fate' = [fate EXCEPT ![i] = "processed"]
    /\ effects' = [effects EXCEPT ![i] = @ + 1]
    /\ UNCHANGED tries

GiveUp(i) ==
    /\ fate[i] = "waiting" /\ tries[i] = Limit
    /\ fate' = [fate EXCEPT ![i] = "dead"]
    /\ UNCHANGED <<tries, effects>>

Next ==
    \/ \E i \in Items : Put(i) \/ Finish(i) \/ GiveUp(i)
    \/ \E S \in SUBSET Items : Hand(S)

Spec == Init /\ [][Next]_vars
=============================================================================
