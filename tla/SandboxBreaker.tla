---------------------------- MODULE SandboxBreaker ----------------------------
(***************************************************************************)
(* The circuit breaker a worker process puts between its judge jobs and    *)
(* the sandbox: calls that fail open the circuit, an open circuit pauses   *)
(* the process's BullMQ worker, a circuit that closes resumes it.          *)
(*                                                                         *)
(* One worker process.  Time appears only in two orders the constants of   *)
(* the code fix: a call in flight when the circuit opens times out before  *)
(* the circuit half-opens (timeout and resetTimeout are both 30 s), and so *)
(* does a fetch that was already blocked on the queue (10 s at most).      *)
(***************************************************************************)
EXTENDS Naturals, FiniteSets

CONSTANTS
    Slot,        \* concurrency of the BullMQ worker
    JudgeJob,    \* jobs in the queue
    Attempts, \* job option "attempts"
    Volume,      \* volumeThreshold
    MaxOutages    \* bound on outages of the sandbox and restarts of the process

ASSUME BreakerAssumption ==
    /\ IsFiniteSet(Slot) /\ Slot # {}
    /\ Attempts \in Nat \ {0}
    /\ Volume \in Nat \ {0}
    /\ MaxOutages \in Nat

VARIABLES
    circuit,  \* opossum's state
    paused,   \* the BullMQ worker fetches no job
    blocked,  \* a fetch was waiting for a job when the worker was paused
    slot,     \* what each slot does
    work,     \* the job a busy slot holds
    fate,     \* what became of each job
    made,     \* attempts a job has used
    fires,    \* calls in opossum's statistics window
    fails,    \* failed calls in that window
    rejected, \* calls rejected since the circuit last opened
    up,       \* the sandbox answers
    outages

breakerVars == <<circuit, paused, blocked, slot, work, fate, made, fires, fails, rejected, up, outages>>
stats == <<fires, fails>>

BreakerTypeOK ==
    /\ circuit \in {"closed", "open", "halfOpen"}
    /\ paused \in BOOLEAN /\ blocked \in BOOLEAN /\ up \in BOOLEAN
    /\ slot \in [Slot -> {"idle", "fetched", "calling"}]
    /\ work \in [Slot -> JudgeJob]
    /\ fate \in [JudgeJob -> {"waiting", "active", "done", "failed"}]
    /\ made \in [JudgeJob -> 0..Attempts]
    /\ fires \in 0..Volume /\ fails \in 0..fires
    /\ rejected \in Nat
    /\ outages \in 0..MaxOutages

BreakerInit ==
    /\ circuit = "closed" /\ paused = FALSE /\ blocked = FALSE
    /\ slot = [w \in Slot |-> "idle"]
    /\ work \in {[w \in Slot |-> j] : j \in JudgeJob}
    /\ fate = [j \in JudgeJob |-> "waiting"]
    /\ made = [j \in JudgeJob |-> 0]
    /\ fires = 0 /\ fails = 0 /\ rejected = 0
    /\ up = TRUE /\ outages = 0

-----------------------------------------------------------------------------
Fetch(w, j) ==
    /\ ~paused \/ blocked
    /\ slot[w] = "idle" /\ fate[j] = "waiting"
    /\ slot' = [slot EXCEPT ![w] = "fetched"]
    /\ work' = [work EXCEPT ![w] = j]
    /\ fate' = [fate EXCEPT ![j] = "active"]
    /\ blocked' = FALSE
    /\ UNCHANGED <<circuit, paused, made, stats, rejected, up, outages>>

\* A fetch that waited for a job when the worker was paused gives up.
FetchGivesUp ==
    /\ blocked
    /\ blocked' = FALSE
    /\ UNCHANGED <<circuit, paused, slot, work, fate, made, stats, rejected, up, outages>>

\* The statistics cover the last ten seconds; the window is capped at Volume calls.
Counted(n) == IF n < Volume THEN n + 1 ELSE n

WindowSlides ==
    /\ fires > 0
    /\ fires' \in 0..fires - 1
    /\ fails' \in 0..fails /\ fails' <= fires'
    /\ UNCHANGED <<circuit, paused, blocked, slot, work, fate, made, rejected, up, outages>>

\* breaker.fire lets the call through.
Call(w) ==
    /\ slot[w] = "fetched"
    /\ \/ circuit = "closed"
       \/ circuit = "halfOpen" /\ \A v \in Slot : slot[v] # "calling"
    /\ slot' = [slot EXCEPT ![w] = "calling"]
    /\ fires' = Counted(fires)
    /\ UNCHANGED <<circuit, paused, blocked, work, fate, made, fails, rejected, up, outages>>

\* Mutant: a job gives up one attempt late.
AttemptFailsLate(w) ==
    /\ slot' = [slot EXCEPT ![w] = "idle"]
    /\ made' = [made EXCEPT ![work[w]] = @ + 1]
    /\ fate' = [fate EXCEPT ![work[w]] =
                  IF made[work[w]] >= Attempts THEN "failed" ELSE "waiting"]

\* The processor throws and BullMQ counts the attempt.
AttemptFails(w) ==
    /\ slot' = [slot EXCEPT ![w] = "idle"]
    /\ made' = [made EXCEPT ![work[w]] = @ + 1]
    /\ fate' = [fate EXCEPT ![work[w]] =
                  IF made[work[w]] + 1 >= Attempts THEN "failed" ELSE "waiting"]

\* breaker.fire rejects the call; the fallback answers SYSTEM_ERROR, which throws.
Reject(w) ==
    /\ slot[w] = "fetched"
    /\ \/ circuit = "open"
       \/ circuit = "halfOpen" /\ \E v \in Slot : slot[v] = "calling"
    /\ AttemptFails(w)
    /\ rejected' = rejected + 1
    /\ UNCHANGED <<circuit, paused, blocked, work, stats, up, outages>>

\* Mutant: 'open' does not pause the worker.
OpenUnpaused ==
    /\ circuit' = "open"
    /\ rejected' = 0
    /\ UNCHANGED <<paused, blocked>>

\* 'open': the worker is paused; a fetch that already waits for a job, on behalf of a
\* slot that is free, is not recalled.
Open ==
    /\ circuit' = "open"
    /\ paused' = TRUE
    /\ blocked' \in {FALSE} \cup {\E v \in Slot : slot[v] = "idle"}
    /\ rejected' = 0

\* The call fails or times out: the circuit opens on a failed probe, or when enough
\* calls were made and more than half of them failed.
CallFails(w) ==
    /\ slot[w] = "calling"
    /\ ~up
    /\ AttemptFails(w)
    /\ fails' = IF fails < fires THEN fails + 1 ELSE fails
    /\ IF \/ circuit = "halfOpen"
          \/ circuit = "closed" /\ fires >= Volume /\ 2 * fails' > fires
       THEN Open
       ELSE UNCHANGED <<circuit, paused, blocked, rejected>>
    /\ UNCHANGED <<work, fires, up, outages>>

\* The sandbox answers; a success while half-open closes the circuit and resumes the
\* worker.
CallSucceeds(w) ==
    /\ slot[w] = "calling"
    /\ up
    /\ slot' = [slot EXCEPT ![w] = "idle"]
    /\ fate' = [fate EXCEPT ![work[w]] = "done"]
    /\ IF circuit = "halfOpen" THEN circuit' = "closed" /\ paused' = FALSE
                               ELSE UNCHANGED <<circuit, paused>>
    /\ UNCHANGED <<blocked, work, made, stats, rejected, up, outages>>

\* resetTimeout: the circuit is now waiting for one call to try the sandbox with.
HalfOpen ==
    /\ circuit = "open"
    /\ ~blocked /\ \A w \in Slot : slot[w] = "idle"
    /\ circuit' = "halfOpen"
    /\ UNCHANGED <<paused, blocked, slot, work, fate, made, stats, rejected, up, outages>>

\* A new process starts with a closed circuit; the jobs it held go back to the queue.
Restart ==
    /\ circuit' = "closed" /\ paused' = FALSE /\ blocked' = FALSE
    /\ slot' = [w \in Slot |-> "idle"]
    /\ fate' = [j \in JudgeJob |-> IF fate[j] = "active" THEN "waiting" ELSE fate[j]]
    /\ fires' = 0 /\ fails' = 0 /\ rejected' = 0
    /\ outages < MaxOutages /\ outages' = outages + 1
    /\ UNCHANGED <<work, made, up>>

SandboxDown ==
    /\ up /\ outages < MaxOutages
    /\ up' = FALSE /\ outages' = outages + 1
    /\ UNCHANGED <<circuit, paused, blocked, slot, work, fate, made, stats, rejected>>

SandboxUp ==
    /\ ~up
    /\ up' = TRUE
    /\ UNCHANGED <<circuit, paused, blocked, slot, work, fate, made, stats, rejected, outages>>

SlotStep(w) ==
    \/ \E j \in JudgeJob : Fetch(w, j)
    \/ Call(w) \/ Reject(w) \/ CallFails(w) \/ CallSucceeds(w)

BreakerNext ==
    \/ \E w \in Slot : SlotStep(w)
    \/ FetchGivesUp \/ WindowSlides \/ HalfOpen \/ Restart
    \/ SandboxDown \/ SandboxUp

BreakerSpec == BreakerInit /\ [][BreakerNext]_breakerVars

\* Slots run, timers fire and the sandbox comes back; nobody need restart the process.
FairSpec ==
    /\ BreakerSpec
    /\ \A w \in Slot : WF_breakerVars(SlotStep(w))
    /\ WF_breakerVars(FetchGivesUp) /\ WF_breakerVars(HalfOpen) /\ WF_breakerVars(SandboxUp)

-----------------------------------------------------------------------------
(* Properties                                                              *)

\* An outage costs few attempts: while the circuit is open, no more calls are rejected
\* than the other slots had begun when the worker was paused.
OpenCircuitSparesAttempts == rejected < Cardinality(Slot)

\* A half-open circuit with work at hand tries the sandbox and so leaves that state.
HalfOpenTriesSandbox ==
    circuit = "halfOpen" /\ (\E j \in JudgeJob : fate[j] = "waiting") ~> circuit # "halfOpen"

=============================================================================
