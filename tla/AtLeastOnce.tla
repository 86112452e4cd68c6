----------------------------- MODULE AtLeastOnce -----------------------------
(***************************************************************************)
(* What a queue between two parts of this system promises, with nothing of  *)
(* how: an entry that was accepted is forgotten only after somebody worked  *)
(* it or reported it, and is forgotten eventually.  Work may be repeated.   *)
(* An entry may be dropped unworked only where the caller says it may       *)
(* (a backlog beyond the queue's capacity).                                 *)
(***************************************************************************)
EXTENDS Naturals

CONSTANTS Items

VARIABLES accepted,   \* items handed to the queue
          worked,     \* items whose work was done at least once
          reported,   \* items somebody was told could not be worked
          forgotten,  \* items the queue no longer owes anybody
          dropped     \* items lost to a backlog beyond capacity

queue == <<accepted, worked, reported, forgotten, dropped>>

QInit == /\ accepted = {} /\ worked = {} /\ reported = {}
         /\ forgotten = {} /\ dropped = {}

\* Accepting may overflow the queue, dropping items nobody has been given yet.
Accept(i) == /\ i \notin accepted
             /\ accepted' = accepted \cup {i}
             /\ dropped' \in SUBSET accepted'
             /\ dropped \subseteq dropped'
             /\ (dropped' \ dropped) \cap (worked \cup reported \cup forgotten) = {}
             /\ UNCHANGED <<worked, reported, forgotten>>

Work(i) == /\ i \in accepted \ dropped
           /\ worked' = worked \cup {i}
           /\ UNCHANGED <<accepted, reported, forgotten, dropped>>

Report(i) == /\ i \in accepted \ dropped
             /\ reported' = reported \cup {i}
             /\ UNCHANGED <<accepted, worked, forgotten, dropped>>

Forget(i) == /\ i \in worked \cup reported
             /\ forgotten' = forgotten \cup {i}
             /\ UNCHANGED <<accepted, worked, reported, dropped>>

QNext == \E i \in Items : Accept(i) \/ Work(i) \/ Report(i) \/ Forget(i)

QSafe == QInit /\ [][QNext]_queue

Settled == \A i \in Items : i \in accepted ~> i \in forgotten \cup dropped
=============================================================================
