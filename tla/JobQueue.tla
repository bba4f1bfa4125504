----------------------------- MODULE JobQueue -----------------------------
(***************************************************************************)
(* What the executor's job queue promises to mod.main and main_enqueue: a  *)
(* first-in first-out queue of at most Limit jobs that makes room for a    *)
(* new job by dropping the oldest one.                                     *)
(***************************************************************************)
EXTENDS Naturals, Sequences

CONSTANTS Job,     \* the jobs
          Limit    \* most jobs that can wait

VARIABLE waiting   \* the jobs in the order they were pushed

Init == waiting = <<>>

\* The queue after pushing j.
Pushed(j) == Append(IF Len(waiting) < Limit THEN waiting ELSE Tail(waiting), j)

Push == \E j \in Job : waiting' = Pushed(j)

Pop == /\ waiting # <<>>
       /\ waiting' = Tail(waiting)

Next == Push \/ Pop

Spec == Init /\ [][Next]_waiting
=============================================================================
