-------------------------- MODULE ExecutorOnRing --------------------------
(***************************************************************************)
(* Executor composed with JobRing: the job queue of the executor is kept   *)
(* in the ring buffer g_job.  Whatever thread hands a job over pushes it   *)
(* (l_main and exec_enqueue_c call job_push), the safepoint pops one to    *)
(* run it (drain_jobs), and no other step touches the ring.                *)
(***************************************************************************)
EXTENDS Executor, JobRing

ASSUME RingAssumption == Job = JobId /\ QueueLimit = MAX_JOBS - 1

JobPushed == njobs' # njobs /\ queue' # queue /\ Push(njobs')
JobPopped == njobs' = njobs /\ queue' # queue /\ Pop
RingIdle == queue' = queue /\ UNCHANGED ringVars

RingStep == JobPushed \/ JobPopped \/ RingIdle

OnRingInit == Init /\ RingInit

OnRing == /\ OnRingInit
          /\ [][Next /\ RingStep]_<<vars, ringVars>>
          /\ WF_vars(InstallHook \/ InstallFails) /\ WF_vars(Safepoint)
-----------------------------------------------------------------------------
\* The two indices that wrap and the slot that stays empty hold, at every step
\* of every thread, exactly the jobs that wait, in the order they were handed
\* over: Executor may treat g_job as a sequence.
RingHoldsQueue == queue = Contents
=============================================================================
