----------------------------- MODULE JobRing -----------------------------
(***************************************************************************)
(* The ring buffer behind mod.main (core/executor.c 134-165): g_job with   *)
(* g_job_head and g_job_tail.  Any thread pushes (job_push) and the engine *)
(* thread pops (drain_jobs), each under g_lock, so each is one step.       *)
(* head = tail means empty, which leaves one slot of the array unused.     *)
(***************************************************************************)
EXTENDS Naturals, Sequences

CONSTANTS Job,       \* the jobs: a Lua reference or a C function each
          Unwritten,     \* content of a slot that was never written
          MAX_JOBS   \* size of the ring

ASSUME SizeAssumption == MAX_JOBS \in Nat /\ MAX_JOBS > 1
ASSUME JobAssumption == Unwritten \notin Job

VARIABLES ring,      \* g_job
          head,      \* g_job_head: the oldest job
          tail       \* g_job_tail: where the next job goes

ringVars == <<ring, head, tail>>

Ix == 0..MAX_JOBS-1
Succ(i) == (i + 1) % MAX_JOBS

PushKeepsOldest(j) ==
    /\ ring' = [ring EXCEPT ![tail] = j]
    /\ tail' = Succ(tail)
    /\ UNCHANGED head

\* job_push: store at the tail; a tail that catches up with the head drops the
\* oldest job.
Push(j) ==
    /\ ring' = [ring EXCEPT ![tail] = j]
    /\ tail' = Succ(tail)
    /\ head' = IF Succ(tail) = head THEN Succ(head) ELSE head

\* One turn of drain_jobs that finds a job.
Pop ==
    /\ head # tail
    /\ head' = Succ(head)
    /\ UNCHANGED <<ring, tail>>

RingInit ==
    /\ ring = [i \in Ix |-> Unwritten]
    /\ head = 0 /\ tail = 0

RingNext == Pop \/ \E j \in Job : Push(j)

RingSpec == RingInit /\ [][RingNext]_ringVars
-----------------------------------------------------------------------------
RingTypeOK ==
    /\ ring \in [Ix -> Job \cup {Unwritten}]
    /\ head \in Ix
    /\ tail \in Ix

Size == IF head <= tail THEN tail - head ELSE tail + MAX_JOBS - head

\* The slot of the i-th waiting job, counted from the oldest.
At(i) == (head + i - 1) % MAX_JOBS

Contents == [i \in 1..Size |-> ring[At(i)]]

\* The two indices that wrap independently, and the slot that stays unused,
\* behave as a FIFO queue of MAX_JOBS - 1 jobs that drops its oldest: a full
\* ring is never mistaken for an empty one, and no job is run twice, skipped or
\* reordered when an index wraps.
Queue == INSTANCE JobQueue WITH waiting <- Contents, Limit <- MAX_JOBS - 1
ImplementsQueue == Queue!Spec
=============================================================================
