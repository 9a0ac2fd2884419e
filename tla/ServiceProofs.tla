------------------------------ MODULE ServiceProofs ------------------------------
(***************************************************************************)
(* Proofs about the other components of MCServices, for any number of      *)
(* slots and jobs, of executions and tests, of items and edits of a        *)
(* roadmap, of attempts without participants and their submissions:        *)
(* SandboxBreaker, SandboxRun, RoadmapItems and LegacyExam; and the types  *)
(* of all components together.                                             *)
(***************************************************************************)
EXTENDS MCServices, ProctoringProofs, FunctionTheorems, SequenceTheorems

-----------------------------------------------------------------------------
(* The circuit breaker of SandboxBreaker.                                      *)

Busy == {w \in Slot : slot[w] # "idle"}

\* While the circuit is open, what has been rejected and what still can be leave room for
\* the slot whose call opened it.
BreakerIInv ==
    /\ slot \in [Slot -> {"idle", "fetched", "calling"}]
    /\ rejected \in Nat /\ circuit \in {"closed", "open", "halfOpen"}
    /\ rejected < Cardinality(Slot)
    /\ circuit # "closed" => paused
    /\ circuit = "open" =>
          rejected + Cardinality(Busy) + (IF blocked THEN 1 ELSE 0) < Cardinality(Slot)
    /\ circuit = "halfOpen" => Busy = {} /\ ~blocked

LEMMA Slots == IsFiniteSet(Slot) /\ Cardinality(Slot) \in Nat /\ 0 < Cardinality(Slot)
<1>1. Cardinality(Slot) \in Nat /\ Cardinality(Slot) # 0
  BY BreakerAssumption, FS_CardinalityType, FS_EmptySet
<1> QED
  BY <1>1, BreakerAssumption

LEMMA BusySlots ==
    /\ IsFiniteSet(Busy) /\ Cardinality(Busy) \in Nat
    /\ Cardinality(Busy) <= Cardinality(Slot)
    /\ \A w \in Slot : slot[w] = "idle" => Cardinality(Busy) < Cardinality(Slot)
    /\ \A w \in Busy : 0 < Cardinality(Busy) /\ Cardinality(Busy \ {w}) = Cardinality(Busy) - 1
    /\ \A w \in Slot \ Busy : Cardinality(Busy \cup {w}) = Cardinality(Busy) + 1
<1>1. Busy \in SUBSET Slot
  BY DEF Busy
<1>2. /\ IsFiniteSet(Busy) /\ Cardinality(Busy) <= Cardinality(Slot)
      /\ Cardinality(Slot) = Cardinality(Busy) => Slot = Busy
  BY <1>1, Slots, FS_Subset
<1>3. Cardinality(Busy) \in Nat
  BY <1>2, FS_CardinalityType
<1>4. \A w \in Slot : slot[w] = "idle" => Cardinality(Busy) < Cardinality(Slot)
  <2>1. \A w \in Slot : slot[w] = "idle" => Slot # Busy
    BY DEF Busy
  <2> QED
    BY <1>2, <1>3, <2>1, Slots
<1>5. \A w \in Busy : Cardinality(Busy \ {w}) = Cardinality(Busy) - 1
  BY <1>2, FS_RemoveElement
<1>6. \A w \in Slot \ Busy : Cardinality(Busy \cup {w}) = Cardinality(Busy) + 1
  BY <1>2, FS_AddElement
<1>7. \A w \in Busy : 0 < Cardinality(Busy)
  <2>1. \A w \in Busy : Cardinality(Busy) # 0
    BY <1>2, FS_EmptySet
  <2> QED
    BY <1>3, <2>1
<1> QED
  BY <1>2, <1>3, <1>4, <1>5, <1>6, <1>7

LEMMA BreakerInitHolds == BreakerInit => BreakerIInv
BY Slots DEF BreakerInit, BreakerIInv

LEMMA BreakerStep == BreakerIInv /\ [BreakerNext]_breakerVars => BreakerIInv'
<1> SUFFICES ASSUME BreakerIInv, [BreakerNext]_breakerVars PROVE BreakerIInv'
  OBVIOUS
<1> USE DEF BreakerIInv
<1>1. ASSUME NEW w \in Slot, NEW s \in {"idle", "fetched", "calling"},
             slot' = [slot EXCEPT ![w] = s]
      PROVE  /\ slot' \in [Slot -> {"idle", "fetched", "calling"}]
             /\ s = "idle" => Busy' = Busy \ {w}
             /\ s # "idle" => Busy' = Busy \cup {w}
  BY <1>1 DEF Busy
<1>2. ASSUME NEW w \in Slot, NEW j \in JudgeJob, Fetch(w, j)
      PROVE  BreakerIInv'
  <2>1. /\ Busy' = Busy \cup {w} /\ w \in Slot \ Busy
        /\ slot' \in [Slot -> {"idle", "fetched", "calling"}]
    BY <1>1, <1>2 DEF Fetch, Busy
  <2>2. ~blocked' /\ (~paused \/ blocked) /\ UNCHANGED <<circuit, paused, rejected>>
    BY <1>2 DEF Fetch
  <2>3. Cardinality(Busy') = Cardinality(Busy) + 1 /\ Cardinality(Busy) \in Nat
    BY <2>1, BusySlots
  <2> QED
    BY <2>1, <2>2, <2>3, Slots
<1>3. ASSUME NEW w \in Slot, Call(w)
      PROVE  BreakerIInv'
  <2>1. circuit = "closed"
    BY <1>3 DEF Call, Busy
  <2>2. slot' \in [Slot -> {"idle", "fetched", "calling"}]
    BY <1>1, <1>3 DEF Call
  <2> QED
    BY <1>3, <2>1, <2>2 DEF Call
<1>4. ASSUME NEW w \in Slot, AttemptFails(w), w \in Busy
      PROVE  /\ Busy' = Busy \ {w} /\ slot' \in [Slot -> {"idle", "fetched", "calling"}]
             /\ Cardinality(Busy) \in Nat /\ 0 < Cardinality(Busy)
             /\ Cardinality(Busy') = Cardinality(Busy) - 1
  <2>1. Busy' = Busy \ {w} /\ slot' \in [Slot -> {"idle", "fetched", "calling"}]
    BY <1>1, <1>4 DEF AttemptFails
  <2> QED
    BY <1>4, <2>1, BusySlots
<1>5. ASSUME NEW w \in Slot, Reject(w)
      PROVE  BreakerIInv'
  <2>1. w \in Busy /\ circuit = "open"
    BY <1>5 DEF Reject, Busy
  <2>2. /\ rejected' = rejected + 1 /\ UNCHANGED <<circuit, paused, blocked>>
        /\ AttemptFails(w)
    BY <1>5 DEF Reject
  <2> QED
    BY <1>4, <2>1, <2>2, Slots
<1>6. ASSUME NEW w \in Slot, CallFails(w)
      PROVE  BreakerIInv'
  <2>1. w \in Busy /\ AttemptFails(w) /\ circuit # "halfOpen"
    BY <1>6 DEF CallFails, Busy
  <2>2. CASE Open
    <3>1. /\ circuit' = "open" /\ paused' = TRUE /\ rejected' = 0
          /\ blocked' => \E v \in Slot : slot[v] = "idle"
      BY <2>2 DEF Open
    <3>2. blocked' => Cardinality(Busy) < Cardinality(Slot)
      BY <3>1, BusySlots
    <3>3. Cardinality(Busy) <= Cardinality(Slot)
      BY BusySlots
    <3> QED
      BY <1>4, <2>1, <3>1, <3>2, <3>3, Slots
  <2>3. CASE UNCHANGED <<circuit, paused, blocked, rejected>>
    BY <1>4, <2>1, <2>3, Slots
  <2> QED
    BY <1>6, <2>2, <2>3 DEF CallFails
<1>7. ASSUME NEW w \in Slot, CallSucceeds(w)
      PROVE  BreakerIInv'
  <2>1. w \in Busy /\ circuit # "halfOpen"
    BY <1>7 DEF CallSucceeds, Busy
  <2>2. /\ UNCHANGED <<circuit, paused, blocked, rejected>>
        /\ Busy' = Busy \ {w} /\ slot' \in [Slot -> {"idle", "fetched", "calling"}]
    BY <1>1, <1>7, <2>1 DEF CallSucceeds
  <2>3. Cardinality(Busy') = Cardinality(Busy) - 1 /\ Cardinality(Busy) \in Nat
    BY <2>1, <2>2, BusySlots
  <2> QED
    BY <2>1, <2>2, <2>3, Slots
<1>8. CASE FetchGivesUp
  <2>1. Busy' = Busy
    BY <1>8 DEF FetchGivesUp, Busy
  <2> QED
    BY <1>8, <2>1, BusySlots, Slots DEF FetchGivesUp
<1>9. CASE WindowSlides \/ SandboxDown \/ SandboxUp
  BY <1>9 DEF WindowSlides, SandboxDown, SandboxUp, Busy
<1>10. CASE HalfOpen
  <2>1. Busy' = {}
    BY <1>10 DEF HalfOpen, Busy
  <2> QED
    BY <1>10, <2>1 DEF HalfOpen
<1>11. CASE Restart
  BY <1>11, Slots DEF Restart
<1>12. CASE UNCHANGED breakerVars
  BY <1>12 DEF breakerVars, Busy
<1> QED
  BY <1>2, <1>3, <1>5, <1>6, <1>7, <1>8, <1>9, <1>10, <1>11, <1>12
     DEF BreakerNext, SlotStep

\* For any number of slots and jobs, an outage costs few attempts: while the circuit is open,
\* fewer calls are rejected than the worker has slots (the pause on 'open').
THEOREM OutageCostsFewAttempts == BreakerSpec => []OpenCircuitSparesAttempts
<1>1. BreakerSpec => []BreakerIInv
  BY BreakerInitHolds, BreakerStep, PTL DEF BreakerSpec
<1>2. BreakerIInv => OpenCircuitSparesAttempts
  BY DEF BreakerIInv, OpenCircuitSparesAttempts
<1> QED
  BY <1>1, <1>2, PTL

\* A job has one slot, and attempts left, for as long as the queue offers it or a slot holds it.
JobsHeld ==
    /\ \A w \in Slot : slot[w] # "idle" =>
           /\ fate[work[w]] = "active"
           /\ \A v \in Slot \ {w} : slot[v] # "idle" => work[v] # work[w]
    /\ \A j \in JudgeJob : fate[j] \in {"waiting", "active"} => made[j] < Attempts

BreakerTyped == BreakerTypeOK /\ JobsHeld

LEMMA BreakerInitTyped == BreakerInit => BreakerTyped
<1> SUFFICES ASSUME BreakerInit PROVE BreakerTyped
  OBVIOUS
<1>1. PICK j \in JudgeJob : work = [w \in Slot |-> j]
  BY DEF BreakerInit
<1>2. work \in [Slot -> JudgeJob]
  BY <1>1
<1>3. /\ slot \in [Slot -> {"idle", "fetched", "calling"}]
      /\ fate \in [JudgeJob -> {"waiting", "active", "done", "failed"}]
      /\ made \in [JudgeJob -> 0..Attempts]
  BY BreakerAssumption DEF BreakerInit
<1>4. paused \in BOOLEAN /\ blocked \in BOOLEAN /\ up \in BOOLEAN
  BY Zenon DEF BreakerInit
<1>6. /\ circuit \in {"closed", "open", "halfOpen"} /\ fires \in 0..Volume /\ fails \in 0..fires
      /\ rejected \in Nat /\ outages \in 0..MaxOutages
  BY BreakerAssumption DEF BreakerInit
<1>5. JobsHeld
  BY <1>3, BreakerAssumption DEF BreakerInit, JobsHeld
<1> QED
  BY <1>2, <1>3, <1>4, <1>5, <1>6 DEF BreakerTyped, BreakerTypeOK

\* The attempt of a slot ends, and its job with it or not.
LEMMA AttemptEnds ==
    ASSUME BreakerTyped, NEW w \in Slot, slot[w] # "idle",
           \/ AttemptFails(w)
           \/ /\ slot' = [slot EXCEPT ![w] = "idle"] /\ made' = made
              /\ fate' = [fate EXCEPT ![work[w]] = "done"],
           work' = work
    PROVE  /\ slot' \in [Slot -> {"idle", "fetched", "calling"}]
           /\ fate' \in [JudgeJob -> {"waiting", "active", "done", "failed"}]
           /\ made' \in [JudgeJob -> 0..Attempts]
           /\ JobsHeld'
<1> DEFINE j == work[w]
<1>1. /\ slot \in [Slot -> {"idle", "fetched", "calling"}] /\ work \in [Slot -> JudgeJob]
      /\ fate \in [JudgeJob -> {"waiting", "active", "done", "failed"}]
      /\ made \in [JudgeJob -> 0..Attempts] /\ Attempts \in Nat
  BY BreakerAssumption DEF BreakerTyped, BreakerTypeOK
<1>2. j \in JudgeJob /\ made[j] < Attempts /\ fate[j] = "active"
  BY <1>1 DEF BreakerTyped, JobsHeld
<1>3. /\ slot' = [slot EXCEPT ![w] = "idle"]
      /\ \/ /\ made' = [made EXCEPT ![j] = @ + 1] 
            /\ fate' = [fate EXCEPT ![j] = IF made[j] + 1 >= Attempts THEN "failed" ELSE "waiting"]
         \/ made' = made /\ fate' = [fate EXCEPT ![j] = "done"]
  BY DEF AttemptFails
<1> HIDE DEF j
<1>4. /\ slot' \in [Slot -> {"idle", "fetched", "calling"}]
      /\ fate' \in [JudgeJob -> {"waiting", "active", "done", "failed"}]
      /\ made' \in [JudgeJob -> 0..Attempts]
  BY <1>1, <1>2, <1>3
<1>5. \A k \in JudgeJob : fate'[k] \in {"waiting", "active"} => made'[k] < Attempts
  <2> SUFFICES ASSUME NEW k \in JudgeJob, fate'[k] \in {"waiting", "active"}
               PROVE  made'[k] < Attempts
    OBVIOUS
  <2>1. CASE k = j
    BY <1>1, <1>2, <1>3, <2>1
  <2>2. CASE k # j
    BY <1>1, <1>3, <2>2 DEF BreakerTyped, JobsHeld
  <2> QED
    BY <2>1, <2>2
<1>6. ASSUME NEW v \in Slot, slot'[v] # "idle"
      PROVE  /\ v # w /\ slot[v] # "idle" /\ work[v] # j
             /\ fate'[work[v]] = fate[work[v]]
  <2>1. v # w /\ slot[v] # "idle"
    BY <1>1, <1>3, <1>6
  <2>2. work[v] # j /\ work[v] \in JudgeJob
    BY <1>1, <2>1 DEF BreakerTyped, JobsHeld, j
  <2> QED
    BY <1>1, <1>3, <2>1, <2>2
<1> QED
  BY <1>4, <1>5, <1>6 DEF BreakerTyped, JobsHeld

LEMMA BreakerTypeStep == BreakerTyped /\ [BreakerNext]_breakerVars => BreakerTyped'
<1> SUFFICES ASSUME BreakerTyped, [BreakerNext]_breakerVars PROVE BreakerTyped'
  OBVIOUS
<1>0. /\ Volume \in Nat \ {0} /\ MaxOutages \in Nat /\ fires \in 0..Volume /\ fails \in 0..fires
      /\ BreakerTypeOK
  BY BreakerAssumption DEF BreakerTyped, BreakerTypeOK
<1>1. ASSUME NEW w \in Slot, NEW j \in JudgeJob, Fetch(w, j) PROVE BreakerTyped'
  <2>1. /\ slot[w] = "idle" /\ fate[j] = "waiting"
        /\ slot' = [slot EXCEPT ![w] = "fetched"] /\ work' = [work EXCEPT ![w] = j]
        /\ fate' = [fate EXCEPT ![j] = "active"] /\ blocked' = FALSE
        /\ UNCHANGED <<circuit, paused, made, fires, fails, rejected, up, outages>>
    BY <1>1 DEF Fetch, stats
  <2>2. BreakerTypeOK'
    BY <1>0, <2>1 DEF BreakerTypeOK
  <2>3. JobsHeld'
    BY <1>0, <2>1 DEF BreakerTyped, JobsHeld, BreakerTypeOK
  <2> QED
    BY <2>2, <2>3 DEF BreakerTyped
<1>2. ASSUME NEW w \in Slot, Call(w) PROVE BreakerTyped'
  <2>1. /\ slot[w] = "fetched" /\ slot' = [slot EXCEPT ![w] = "calling"]
        /\ fires' = IF fires < Volume THEN fires + 1 ELSE fires
        /\ UNCHANGED <<circuit, paused, blocked, work, fate, made, fails, rejected, up, outages>>
    BY <1>2 DEF Call, Counted
  <2>2. fires' \in 0..Volume /\ fails' \in 0..fires'
    BY <1>0, <2>1
  <2>3. BreakerTypeOK'
    BY <1>0, <2>1, <2>2 DEF BreakerTypeOK
  <2>4. JobsHeld'
    BY <1>0, <2>1 DEF BreakerTyped, JobsHeld, BreakerTypeOK
  <2> QED
    BY <2>3, <2>4 DEF BreakerTyped
<1>3. ASSUME NEW w \in Slot, Reject(w) PROVE BreakerTyped'
  <2>1. /\ slot[w] # "idle" /\ AttemptFails(w) /\ rejected' = rejected + 1
        /\ UNCHANGED <<circuit, paused, blocked, work, fires, fails, up, outages>>
    BY <1>3 DEF Reject, stats
  <2> QED
    BY <1>0, <2>1, AttemptEnds DEF BreakerTypeOK, BreakerTyped
<1>4. ASSUME NEW w \in Slot, CallFails(w) PROVE BreakerTyped'
  <2>1. /\ slot[w] # "idle" /\ AttemptFails(w)
        /\ fails' = IF fails < fires THEN fails + 1 ELSE fails
        /\ UNCHANGED <<work, fires, up, outages>>
    BY <1>4 DEF CallFails
  <2>2. /\ circuit' \in {"closed", "open", "halfOpen"} /\ paused' \in BOOLEAN
        /\ blocked' \in BOOLEAN /\ rejected' \in Nat
    <3>1. Open \/ UNCHANGED <<circuit, paused, blocked, rejected>>
      BY <1>4 DEF CallFails
    <3>2. blocked' \in BOOLEAN
      <4>1. CASE Open
        <5>1. blocked' = FALSE \/ blocked' = (\E v \in Slot : slot[v] = "idle")
          BY <4>1 DEF Open
        <5> QED
          BY <5>1
      <4> QED
        BY <1>0, <3>1, <4>1 DEF BreakerTypeOK
    <3>3. paused' \in BOOLEAN
      <4>1. CASE Open
        BY <4>1, Zenon DEF Open
      <4> QED
        BY <1>0, <3>1, <4>1 DEF BreakerTypeOK
    <3>4. circuit' \in {"closed", "open", "halfOpen"} /\ rejected' \in Nat
      <4>1. circuit' \in {"open", circuit} /\ rejected' \in {0, rejected}
        BY <3>1, Zenon DEF Open
      <4> QED
        BY <1>0, <4>1 DEF BreakerTypeOK
    <3> QED
      BY <3>2, <3>3, <3>4
  <2>3. fails' \in 0..fires'
    BY <1>0, <2>1
  <2> QED
    BY <1>0, <2>1, <2>2, <2>3, AttemptEnds DEF BreakerTypeOK, BreakerTyped
<1>5. ASSUME NEW w \in Slot, CallSucceeds(w) PROVE BreakerTyped'
  <2>1. /\ slot[w] # "idle" /\ slot' = [slot EXCEPT ![w] = "idle"] /\ made' = made
        /\ fate' = [fate EXCEPT ![work[w]] = "done"]
        /\ circuit' \in {"closed", circuit} /\ paused' \in {FALSE, paused}
        /\ UNCHANGED <<blocked, work, fires, fails, rejected, up, outages>>
    BY <1>5 DEF CallSucceeds, stats
  <2> QED
    BY <1>0, <2>1, AttemptEnds DEF BreakerTypeOK, BreakerTyped
<1>6. CASE WindowSlides
  <2>1. fires' \in 0..Volume /\ fails' \in 0..fires'
    BY <1>0, <1>6 DEF WindowSlides
  <2> QED
    BY <1>0, <1>6, <2>1 DEF WindowSlides, BreakerTypeOK, BreakerTyped, JobsHeld
<1>7. CASE FetchGivesUp \/ HalfOpen
  BY ZenonT(60), <1>0, <1>7 DEF FetchGivesUp, HalfOpen, stats, BreakerTypeOK, BreakerTyped, JobsHeld
<1>8. CASE Restart
  <2>1. /\ slot' = [w \in Slot |-> "idle"]
        /\ fate' = [j \in JudgeJob |-> IF fate[j] = "active" THEN "waiting" ELSE fate[j]]
        /\ circuit' = "closed" /\ paused' = FALSE /\ blocked' = FALSE
        /\ fires' = 0 /\ fails' = 0 /\ rejected' = 0 /\ UNCHANGED <<work, made, up>>
        /\ outages' \in 0..MaxOutages
    BY <1>0, <1>8 DEF Restart, BreakerTypeOK
  <2>2. paused' \in BOOLEAN /\ blocked' \in BOOLEAN
    BY <2>1, Zenon
  <2>3. BreakerTypeOK'
    BY <1>0, <2>1, <2>2 DEF BreakerTypeOK
  <2>4. JobsHeld'
    BY <1>0, <2>1 DEF BreakerTypeOK, BreakerTyped, JobsHeld
  <2> QED
    BY <2>3, <2>4 DEF BreakerTyped
<1>9. CASE SandboxDown \/ SandboxUp
  <2>1. up' \in BOOLEAN
    BY <1>9, Zenon DEF SandboxDown, SandboxUp
  <2>2. /\ outages' \in 0..MaxOutages
        /\ UNCHANGED <<circuit, paused, blocked, slot, work, fate, made, fires, fails, rejected>>
    BY <1>0, <1>9 DEF SandboxDown, SandboxUp, BreakerTypeOK, stats
  <2> QED
    BY <1>0, <2>1, <2>2 DEF BreakerTypeOK, BreakerTyped, JobsHeld
<1>10. CASE UNCHANGED breakerVars
  BY <1>0, <1>10 DEF breakerVars, BreakerTypeOK, BreakerTyped, JobsHeld
<1> QED
  BY <1>1, <1>2, <1>3, <1>4, <1>5, <1>6, <1>7, <1>8, <1>9, <1>10 DEF BreakerNext, SlotStep

LEMMA BreakerAlwaysTyped == BreakerSpec => []BreakerTyped
BY BreakerInitTyped, BreakerTypeStep, PTL DEF BreakerSpec

\* Types of the breaker; in particular no job is given more attempts than it has, although a
\* restart puts jobs back while their slots are forgotten (attempts of the queue's jobs).
THEOREM BreakerTypes == BreakerSpec => []BreakerTypeOK
<1>1. BreakerTyped => BreakerTypeOK
  BY DEF BreakerTyped
<1> QED
  BY <1>1, BreakerAlwaysTyped, PTL

-----------------------------------------------------------------------------
(* The capacity and the verdicts of SandboxRun.                                *)

\* Types, the rows as a sequence.
ExecType == [pc : {"new", "compiling", "testing", "ended"}, by : Caller \cup {NoCaller},
             rows : Seq(TestRow), verdict : Status]

\* The map holds what runs, and an execution somebody waits for is that slot's call.
Held ==
    /\ activeJobs = {e \in Execution : Executing(e)}
    /\ \A e \in Execution : exec[e].by # NoCaller => call[exec[e].by] = e
    /\ \A w \in Caller : call[w] # Idle => Executing(call[w]) /\ exec[call[w]].by = w

\* A verdict is one that the rows of a complete run can come to.
Judged(e) == exec[e].verdict \notin {"none", "failed"} =>
    exec[e].pc = "ended" /\ Len(exec[e].rows) = Tests /\ exec[e].verdict \in Verdicts(exec[e].rows)

SandboxIInv ==
    /\ exec \in [Execution -> ExecType]
    /\ call \in [Caller -> Execution \cup {Idle}]
    /\ Held
    /\ \A e \in Execution : Len(exec[e].rows) <= Tests /\ Judged(e)

Failing == {"compilation_error", "time_limit_exceeded", "memory_limit_exceeded",
            "runtime_error", "wrong_answer"}

LEMMA Priorities == {Priority[i] : i \in DOMAIN Priority} = Failing
BY DEF Priority, Failing

LEMMA Ranks ==
    /\ Rank("compilation_error") = 1 /\ Rank("time_limit_exceeded") = 2
    /\ Rank("memory_limit_exceeded") = 3 /\ Rank("runtime_error") = 4
    /\ Rank("wrong_answer") = 5
<1>1. DOMAIN Priority = 1..5
  BY DEF Priority
<1>2. Rank("compilation_error") = 1
  BY <1>1 DEF Rank, Priority
<1>3. Rank("time_limit_exceeded") = 2
  BY <1>1 DEF Rank, Priority
<1>4. Rank("memory_limit_exceeded") = 3
  BY <1>1 DEF Rank, Priority
<1>5. Rank("runtime_error") = 4
  BY <1>1 DEF Rank, Priority
<1>6. Rank("wrong_answer") = 5
  BY <1>1 DEF Rank, Priority
<1> QED
  BY <1>2, <1>3, <1>4, <1>5, <1>6

LEMMA GravestIsOne ==
  ASSUME NEW S \in SUBSET Failing, S # {}
  PROVE  Gravest(S) \in S
<1>1. \E s \in S : \A t \in S : Rank(s) <= Rank(t)
  <2> DEFINE best == CHOOSE n \in 1..5 : (\E s \in S : Rank(s) = n) /\ \A t \in S : n <= Rank(t)
  <2>1. \A s \in S : Rank(s) \in 1..5
    BY Ranks DEF Failing
  <2>2. CASE \E s \in S : Rank(s) = 1
    BY <2>1, <2>2
  <2>3. CASE ~(\E s \in S : Rank(s) = 1) /\ \E s \in S : Rank(s) = 2
    BY <2>1, <2>3
  <2>4. CASE ~(\E s \in S : Rank(s) \in 1..2) /\ \E s \in S : Rank(s) = 3
    BY <2>1, <2>4
  <2>5. CASE ~(\E s \in S : Rank(s) \in 1..3) /\ \E s \in S : Rank(s) = 4
    BY <2>1, <2>5
  <2>6. CASE ~(\E s \in S : Rank(s) \in 1..4)
    BY <2>1, <2>6
  <2> QED
    BY <2>2, <2>3, <2>4, <2>5, <2>6
<1> QED
  BY <1>1 DEF Gravest

LEMMA RowStatus ==
  ASSUME NEW r \in TestRow, NEW k \in SUBSET Word
  PROVE  /\ LegacyStatus(r, k) \in Failing \cup {"accepted"}
         /\ LegacyStatus(r, k) = "accepted" <=> r.outcome = "passed"
         /\ r.outcome # "passed" /\ r.said = {} => LegacyStatus(r, k) = Class(r.outcome)
<1>1. \A words : /\ determineTestCaseStatus(TRUE, words) = "accepted"
                 /\ determineTestCaseStatus(FALSE, words) \in Failing
  BY DEF determineTestCaseStatus, Failing
<1>2. inferTestCaseStatus(r) = "accepted" <=> r.outcome = "passed"
  BY <1>1 DEF inferTestCaseStatus, Failing
<1>3. r.outcome \in Outcome
  BY DEF TestRow
<1>4. LegacyStatus(r, k) = determineTestCaseStatus(r.outcome = "passed",
                                                   Reason(r.outcome) \cup (r.said \cap k))
  BY <1>2 DEF LegacyStatus
<1>5. /\ LegacyStatus(r, k) \in Failing \cup {"accepted"}
      /\ LegacyStatus(r, k) = "accepted" <=> r.outcome = "passed"
  BY <1>1, <1>4 DEF Failing
<1>6. ASSUME r.outcome # "passed", r.said = {} PROVE LegacyStatus(r, k) = Class(r.outcome)
  <2>1. LegacyStatus(r, k) = determineTestCaseStatus(FALSE, Reason(r.outcome))
    <3>1. Reason(r.outcome) \cup (r.said \cap k) = Reason(r.outcome)
      BY <1>6
    <3>2. (r.outcome = "passed") = FALSE
      BY <1>6
    <3> QED
      BY <1>4, <3>1, <3>2
  <2> QED
    BY <1>3, <1>6, <2>1 DEF Reason, Class, determineTestCaseStatus, Outcome
<1> QED
  BY <1>5, <1>6

\* What a run that comes to v says of its rows.
LEMMA VerdictOfRows ==
  ASSUME NEW rs \in Seq(TestRow), Len(rs) = Tests, NEW v \in Verdicts(rs)
  PROVE  LET failed == {r \in {rs[i] : i \in DOMAIN rs} : r.outcome # "passed"}
         IN  /\ v \in Failing \cup {"accepted"}
             /\ v = "accepted" <=> failed = {}
             /\ failed # {} /\ (\A r \in failed : r.said = {}) =>
                    v = Gravest({Class(r.outcome) : r \in failed})
<1> DEFINE failed == {r \in {rs[i] : i \in DOMAIN rs} : r.outcome # "passed"}
<1>1. PICK kept \in [DOMAIN rs -> SUBSET Word] :
        v = determineFinalStatus({LegacyStatus(rs[i], kept[i]) : i \in DOMAIN rs})
  BY DEF Verdicts
<1> DEFINE all == {LegacyStatus(rs[i], kept[i]) : i \in DOMAIN rs}
<1>2. DOMAIN rs = 1..Tests /\ 1 \in DOMAIN rs
  BY SandboxAssumption
<1>3. \A i \in DOMAIN rs : rs[i] \in TestRow /\ kept[i] \in SUBSET Word
  BY <1>1
<1>4. \A i \in DOMAIN rs :
         /\ LegacyStatus(rs[i], kept[i]) \in Failing \cup {"accepted"}
         /\ LegacyStatus(rs[i], kept[i]) = "accepted" <=> rs[i].outcome = "passed"
         /\ rs[i].outcome # "passed" /\ rs[i].said = {} =>
               LegacyStatus(rs[i], kept[i]) = Class(rs[i].outcome)
  BY <1>3, RowStatus
<1>5. CASE failed = {}
  <2>1. all = {"accepted"}
    BY <1>2, <1>4, <1>5
  <2> QED
    BY <1>1, <1>5, <2>1 DEF determineFinalStatus
<1>6. CASE failed # {}
  <2>1. PICK i \in DOMAIN rs : rs[i].outcome # "passed"
    BY <1>6
  <2>2. all # {"accepted"} /\ all \ {"accepted"} # {} /\ all \ {"accepted"} \in SUBSET Failing
    BY <1>4, <2>1
  <2>3. v = Gravest(all \ {"accepted"})
    BY <1>1, <2>2 DEF determineFinalStatus
  <2>4. v \in Failing
    BY <2>2, <2>3, GravestIsOne
  <2>5. ASSUME \A r \in failed : r.said = {}
        PROVE  all \ {"accepted"} = {Class(r.outcome) : r \in failed}
    <3>1. ASSUME NEW s \in all \ {"accepted"} PROVE s \in {Class(r.outcome) : r \in failed}
      BY <1>4, <2>5, <3>1
    <3>2. ASSUME NEW r \in failed PROVE Class(r.outcome) \in all \ {"accepted"}
      BY <1>4, <2>5, <3>2
    <3> QED
      BY <3>1, <3>2
  <2>6. "accepted" \notin Failing
    BY DEF Failing
  <2> QED
    BY <1>6, <2>3, <2>4, <2>5, <2>6
<1> QED
  BY <1>5, <1>6

LEMMA SandboxInitHolds == SandboxInit => SandboxIInv
BY IdleAssumption, SandboxAssumption
   DEF SandboxInit, SandboxIInv, ExecType, Held, Judged, Fresh, Executing, Status

LEMMA AnswerStep ==
  ASSUME SandboxIInv, NEW e \in Execution, NEW v \in Status, Executing(e), Release(e, TRUE),
         Answer(e, v),
         v \notin {"none", "failed"} => Len(exec[e].rows) = Tests /\ v \in Verdicts(exec[e].rows)
  PROVE  SandboxIInv'
<1> USE DEF SandboxIInv, ExecType
<1>1. exec[e] \in ExecType
  OBVIOUS
<1>2. PICK x \in {v, "none"} :
        exec' = [exec EXCEPT ![e].pc = "ended", ![e].by = NoCaller, ![e].verdict = x]
  BY DEF Answer
<1>3. "none" \in Status
  BY DEF Status
<1>4. \A d \in Execution \ {e} : exec'[d] = exec[d]
  BY <1>2
<1>5. /\ exec'[e].pc = "ended" /\ exec'[e].by = NoCaller /\ exec'[e].verdict = x
      /\ exec'[e].rows = exec[e].rows
  BY <1>1, <1>2
<1>6. exec' \in [Execution -> ExecType]
  BY <1>1, <1>2, <1>3
<1>7. call' \in [Caller -> Execution \cup {Idle}]
  BY DEF Answer
<1>8. \A w \in Caller : call'[w] = IF call[w] = e THEN Idle ELSE call[w]
  BY DEF Answer
<1>9. Held'
  <2>1. activeJobs' = {d \in Execution : Executing(d)}'
    BY <1>4, <1>5 DEF Held, Executing, Release
  <2>2. ASSUME NEW d \in Execution, exec'[d].by # NoCaller PROVE call'[exec'[d].by] = d
    BY <1>4, <1>5, <1>8, <2>2 DEF Held
  <2>3. ASSUME NEW w \in Caller, call'[w] # Idle
        PROVE  exec'[call'[w]].pc \in {"compiling", "testing"} /\ exec'[call'[w]].by = w
    BY <1>4, <1>5, <1>8, <2>3 DEF Held, Executing
  <2> QED
    BY <2>1, <2>2, <2>3 DEF Held, Executing
<1>10. ASSUME NEW d \in Execution PROVE Len(exec'[d].rows) <= Tests /\ Judged(d)'
  BY <1>2, <1>4, <1>5 DEF Judged
<1> QED
  BY <1>6, <1>7, <1>9, <1>10

\* A step that changes one execution and leaves it where it was: running, and waited for.
LEMMA GoesOnStep ==
  ASSUME SandboxIInv, NEW e \in Execution, Executing(e), NEW rs \in Seq(TestRow),
         NEW pc \in {"compiling", "testing"}, Len(rs) <= Tests,
         exec' \in [Execution -> ExecType],
         exec'[e].pc = pc, exec'[e].by = exec[e].by, exec'[e].rows = rs,
         exec'[e].verdict = exec[e].verdict,
         \A d \in Execution \ {e} : exec'[d] = exec[d],
         UNCHANGED <<activeJobs, call>>
  PROVE  SandboxIInv'
<1> USE DEF SandboxIInv, ExecType
<1>1. exec[e].verdict \in {"none", "failed"}
  BY DEF Judged, Executing
<1>2. Held'
  <2>1. activeJobs' = {d \in Execution : Executing(d)}'
    BY DEF Held, Executing
  <2>2. ASSUME NEW d \in Execution, exec'[d].by # NoCaller PROVE call'[exec'[d].by] = d
    BY <2>2 DEF Held
  <2>3. ASSUME NEW w \in Caller, call'[w] # Idle
        PROVE  exec'[call'[w]].pc \in {"compiling", "testing"} /\ exec'[call'[w]].by = w
    <3>1. call'[w] = call[w] /\ call[w] \in Execution
      BY <2>3
    <3>2. Executing(call[w]) /\ exec[call[w]].by = w
      BY <2>3, <3>1 DEF Held
    <3>3. CASE call[w] = e
      BY <3>1, <3>2, <3>3
    <3>4. CASE call[w] # e
      BY <3>1, <3>2, <3>4 DEF Executing
    <3> QED
      BY <3>3, <3>4
  <2> QED
    BY <2>1, <2>2, <2>3 DEF Held, Executing
<1>3. ASSUME NEW d \in Execution PROVE Len(exec'[d].rows) <= Tests /\ Judged(d)'
  BY <1>1 DEF Judged
<1> QED
  BY <1>2, <1>3

LEMMA SandboxStep == SandboxIInv /\ [SandboxNext]_sandboxVars => SandboxIInv'
<1> SUFFICES ASSUME SandboxIInv, [SandboxNext]_sandboxVars PROVE SandboxIInv'
  OBVIOUS
<1> USE IdleAssumption, SandboxAssumption DEF SandboxIInv, ExecType
<1>0. {"none", "failed"} \subseteq Status
  BY DEF Status
<1>1. ASSUME NEW w \in Caller, NEW e \in Execution, ExecuteRefused(w, e) PROVE SandboxIInv'
  <2>1. /\ exec'[e].pc = "ended" /\ exec'[e].verdict = "failed"
        /\ exec'[e].by = exec[e].by /\ exec'[e].rows = exec[e].rows
        /\ \A d \in Execution \ {e} : exec'[d] = exec[d]
    BY <1>1 DEF ExecuteRefused
  <2>2. exec' \in [Execution -> ExecType]
    BY ZenonT(60), <1>0, <1>1 DEF ExecuteRefused
  <2>3. Held'
    BY <1>1, <2>1 DEF ExecuteRefused, Held, Executing
  <2> QED
    BY <1>1, <2>1, <2>2, <2>3 DEF ExecuteRefused, Judged
<1>2. ASSUME NEW w \in Caller, NEW e \in Execution, ExecuteBegins(w, e) PROVE SandboxIInv'
  <2>1. /\ exec'[e].pc = "compiling" /\ exec'[e].by = w
        /\ exec'[e].verdict = exec[e].verdict /\ exec'[e].rows = exec[e].rows
        /\ \A d \in Execution \ {e} : exec'[d] = exec[d]
    BY <1>2 DEF ExecuteBegins
  <2>2. exec' \in [Execution -> ExecType] /\ call' \in [Caller -> Execution \cup {Idle}]
    BY ZenonT(60), <1>2 DEF ExecuteBegins
  <2>3. call'[w] = e /\ \A v \in Caller \ {w} : call'[v] = call[v]
    BY <1>2 DEF ExecuteBegins
  <2>4. Held'
    <3>1. activeJobs' = {d \in Execution : Executing(d)}'
      BY <1>2, <2>1 DEF ExecuteBegins, Held, Executing
    <3>2. ASSUME NEW d \in Execution, exec'[d].by # NoCaller PROVE call'[exec'[d].by] = d
      BY <1>2, <2>1, <2>3, <3>2 DEF ExecuteBegins, Held
    <3>3. ASSUME NEW v \in Caller, call'[v] # Idle
          PROVE  exec'[call'[v]].pc \in {"compiling", "testing"} /\ exec'[call'[v]].by = v
      BY <1>2, <2>1, <2>3, <3>3 DEF ExecuteBegins, Held, Executing
    <3> QED
      BY <3>1, <3>2, <3>3 DEF Held, Executing
  <2> QED
    BY <1>2, <2>1, <2>2, <2>4 DEF ExecuteBegins, Judged
<1>3. ASSUME NEW e \in Execution, ExecuteFails(e) PROVE SandboxIInv'
  BY <1>0, <1>3, AnswerStep DEF ExecuteFails, Release, Executing
<1>4. ASSUME NEW e \in Execution, compileCode(e) PROVE SandboxIInv'
  <2>1. exec' \in [Execution -> ExecType]
    BY <1>4 DEF compileCode
  <2>2. /\ exec'[e].pc = "testing" /\ exec'[e].by = exec[e].by /\ exec'[e].rows = exec[e].rows
        /\ exec'[e].verdict = exec[e].verdict /\ \A d \in Execution \ {e} : exec'[d] = exec[d]
    BY <1>4 DEF compileCode
  <2> QED
    BY <1>4, <2>1, <2>2, GoesOnStep DEF compileCode, Executing
<1>5. ASSUME NEW e \in Execution, ExecuteEnds(e) PROVE SandboxIInv'
  <2>1. PICK v \in Verdicts(exec[e].rows) : Answer(e, v)
    BY <1>5 DEF ExecuteEnds
  <2>2. v \in Status
    BY <1>5, <2>1, VerdictOfRows, Priorities DEF ExecuteEnds, Status
  <2> QED
    BY <1>5, <2>1, <2>2, AnswerStep DEF ExecuteEnds, Executing
<1>6. ASSUME NEW e \in Execution, NEW said \in SUBSET Word, CompileRejects(e, said)
     PROVE  SandboxIInv'
  <2> DEFINE rs == [i \in 1..Tests |-> [outcome |-> "uncompiled", said |-> said]]
  <2>1. [outcome |-> "uncompiled", said |-> said] \in TestRow
    <3>1. "uncompiled" \in Outcome /\ said \in Quoted("uncompiled")
      BY DEF Outcome, Quoted
    <3> QED
      BY <3>1 DEF TestRow
  <2>2. rs \in Seq(TestRow) /\ Len(rs) <= Tests
    BY <2>1
  <2>3. exec' \in [Execution -> ExecType]
    BY ZenonT(60), <1>6, <2>2 DEF CompileRejects
  <2>4. /\ exec'[e].pc = "testing" /\ exec'[e].by = exec[e].by /\ exec'[e].rows = rs
        /\ exec'[e].verdict = exec[e].verdict /\ \A d \in Execution \ {e} : exec'[d] = exec[d]
    BY <1>6, <2>2 DEF CompileRejects
  <2> QED
    BY <1>6, <2>2, <2>3, <2>4, GoesOnStep DEF CompileRejects, Executing
<1>7. ASSUME NEW e \in Execution, NEW r \in TestRow, runWithNsjail(e, r) PROVE SandboxIInv'
  <2>1. Append(exec[e].rows, r) \in Seq(TestRow) /\ Len(Append(exec[e].rows, r)) <= Tests
    BY <1>7 DEF runWithNsjail
  <2>2. exec' \in [Execution -> ExecType]
    BY <1>7, <2>1 DEF runWithNsjail
  <2>3. /\ exec'[e].pc = "testing" /\ exec'[e].by = exec[e].by
        /\ exec'[e].rows = Append(exec[e].rows, r)
        /\ exec'[e].verdict = exec[e].verdict /\ \A d \in Execution \ {e} : exec'[d] = exec[d]
    BY <1>7, <2>1 DEF runWithNsjail
  <2> QED
    BY <1>7, <2>1, <2>2, <2>3, GoesOnStep DEF runWithNsjail, Executing
<1>8. ASSUME NEW w \in Caller, GivesUp(w) PROVE SandboxIInv'
  <2>0. call[w] \in Execution
    BY <1>8 DEF GivesUp
  <2>1. /\ exec'[call[w]].pc = exec[call[w]].pc /\ exec'[call[w]].by = NoCaller
        /\ exec'[call[w]].verdict = exec[call[w]].verdict
        /\ exec'[call[w]].rows = exec[call[w]].rows
        /\ \A d \in Execution \ {call[w]} : exec'[d] = exec[d]
    BY <1>8, <2>0 DEF GivesUp
  <2>2. exec' \in [Execution -> ExecType] /\ call' \in [Caller -> Execution \cup {Idle}]
    BY <1>8, <2>0 DEF GivesUp
  <2>3. call'[w] = Idle /\ \A v \in Caller \ {w} : call'[v] = call[v]
    BY <1>8 DEF GivesUp
  <2>4. Held'
    <3>1. activeJobs' = {d \in Execution : Executing(d)}'
      BY <1>8, <2>0, <2>1 DEF GivesUp, Held, Executing
    <3>2. ASSUME NEW d \in Execution, exec'[d].by # NoCaller PROVE call'[exec'[d].by] = d
      BY <1>8, <2>0, <2>1, <2>3, <3>2 DEF GivesUp, Held
    <3>3. ASSUME NEW v \in Caller, call'[v] # Idle
          PROVE  exec'[call'[v]].pc \in {"compiling", "testing"} /\ exec'[call'[v]].by = v
      BY <1>8, <2>0, <2>1, <2>3, <3>3 DEF GivesUp, Held, Executing
    <3> QED
      BY <3>1, <3>2, <3>3 DEF Held, Executing
  <2> QED
    BY ZenonT(60), <2>0, <2>1, <2>2, <2>4 DEF Judged
<1>9. CASE SandboxRestarts
  <2>1. \A e \in Execution :
           /\ exec'[e] \in ExecType
           /\ exec'[e].pc \notin {"compiling", "testing"} /\ exec'[e].by = NoCaller
           /\ exec'[e].rows = exec[e].rows
           /\ \/ exec'[e].verdict \in {"none", "failed"}
              \/ exec'[e] = exec[e]
    <3> TAKE e \in Execution
    <3>1. exec[e] \in ExecType
      OBVIOUS
    <3>2. CASE Executing(e)
      <4>1. PICK x \in {"none", "failed"} :
              exec'[e] = [exec[e] EXCEPT !.pc = "ended", !.by = NoCaller, !.verdict = x]
        BY <1>9, <3>2 DEF SandboxRestarts
      <4> HIDE DEF SandboxIInv
      <4> QED
        BY <1>0, <3>1, <4>1
    <3>3. CASE ~Executing(e)
      <4>1. exec'[e] = exec[e]
        BY <1>9, <3>3 DEF SandboxRestarts
      <4>2. exec[e].by = NoCaller
        BY <3>3 DEF Held
      <4> QED
        BY <3>1, <3>3, <4>1, <4>2 DEF Executing
    <3> QED
      BY <3>2, <3>3
  <2>2. exec' \in [Execution -> ExecType] /\ call' \in [Caller -> Execution \cup {Idle}]
    BY <1>9, <2>1 DEF SandboxRestarts
  <2>3. Held'
    <3>1. activeJobs' = {d \in Execution : Executing(d)}'
      BY <1>9, <2>1 DEF SandboxRestarts, Executing
    <3>2. \A e \in Execution : exec'[e].by = NoCaller
      BY <2>1
    <3>3. \A w \in Caller : call'[w] = Idle
      BY <1>9 DEF SandboxRestarts
    <3> QED
      BY <3>1, <3>2, <3>3 DEF Held
  <2> QED
    BY <2>1, <2>2, <2>3 DEF Judged
<1>10. CASE UNCHANGED sandboxVars
  BY <1>10 DEF sandboxVars, Held, Judged, Executing
<1> QED
  BY <1>1, <1>2, <1>3, <1>4, <1>5, <1>6, <1>7, <1>8, <1>9, <1>10 DEF SandboxNext

LEMMA SandboxTyped == SandboxIInv => SandboxTypeOK
<1> SUFFICES ASSUME SandboxIInv, NEW e \in Execution
             PROVE  exec[e].rows \in UNION {[1..n -> TestRow] : n \in 0..Tests}
  BY DEF SandboxIInv, SandboxTypeOK, ExecType, Held
<1>1. exec[e].rows \in [1..Len(exec[e].rows) -> TestRow] /\ Len(exec[e].rows) \in 0..Tests
  BY SandboxAssumption DEF SandboxIInv, ExecType
<1> QED
  BY <1>1

\* For any number of executions, slots, tests and words: types of the sandbox model.
THEOREM SandboxTypes == SandboxSpec => []SandboxTypeOK
<1>1. SandboxSpec => []SandboxIInv
  BY SandboxInitHolds, SandboxStep, PTL DEF SandboxSpec
<1> QED
  BY <1>1, SandboxTyped, PTL

\* For any number of tests, any output and any truncation: a submission is accepted exactly
\* when its tests passed, and one whose rows say nothing else gets the gravest of what its
\* runs came to (determineFinalStatus).
THEOREM VerdictsFit == SandboxSpec => []VerdictFits
<1>1. SandboxSpec => []SandboxIInv
  BY SandboxInitHolds, SandboxStep, PTL DEF SandboxSpec
<1>2. SandboxIInv => VerdictFits
  <2> SUFFICES ASSUME SandboxIInv, NEW e \in Execution, exec[e].verdict \notin {"none", "failed"}
               PROVE  LET failed == {r \in {exec[e].rows[i] : i \in DOMAIN exec[e].rows} :
                                        r.outcome # "passed"}
                      IN  /\ exec[e].verdict = "accepted" <=> failed = {}
                          /\ failed # {} /\ (\A r \in failed : r.said = {}) =>
                                exec[e].verdict = Gravest({Class(r.outcome) : r \in failed})
    BY DEF VerdictFits
  <2>1. exec[e].rows \in Seq(TestRow) /\ Len(exec[e].rows) = Tests
        /\ exec[e].verdict \in Verdicts(exec[e].rows)
    BY DEF SandboxIInv, ExecType, Judged
  <2> QED
    BY <2>1, VerdictOfRows
<1> QED
  BY <1>1, <1>2, PTL

\* For any number of executions and of slots within the limit: a sandbox that turns a call
\* away runs something that was given up (executeCode).
THEOREM RefusedBehindAbandoned == SandboxSpec => []RefusalMeansAbandoned
<1>1. SandboxSpec => []SandboxIInv
  BY SandboxInitHolds, SandboxStep, PTL DEF SandboxSpec
<1>2. SandboxIInv => RefusalMeansAbandoned
  <2> SUFFICES ASSUME SandboxIInv, NEW w \in Caller, call[w] = Idle, Full,
                      \A e \in activeJobs : exec[e].by # NoCaller
               PROVE FALSE
    BY DEF SandboxIInv, Held, RefusalMeansAbandoned
  <2> DEFINE Queued == Caller \ {w}
             f == [v \in {v \in Queued : call[v] \in activeJobs} |-> call[v]]
  <2>1. IsFiniteSet(Queued) /\ Cardinality(Queued) = Cardinality(Caller) - 1
    BY FS_RemoveElement, SandboxAssumption
  <2>2. /\ IsFiniteSet(DOMAIN f) /\ Cardinality(DOMAIN f) <= Cardinality(Queued)
    BY <2>1, FS_Subset
  <2>3. \A e \in activeJobs : exec[e].by \in DOMAIN f /\ f[exec[e].by] = e
    BY IdleAssumption DEF SandboxIInv, ExecType, Held
  <2>4. f \in Surjection(DOMAIN f, activeJobs)
    BY <2>3 DEF Surjection
  <2>5. Cardinality(activeJobs) <= Cardinality(DOMAIN f)
    BY <2>2, <2>4, FS_Surjection 
  <2>6. /\ Cardinality(Caller) \in Nat /\ Cardinality(DOMAIN f) \in Nat
        /\ IsFiniteSet(activeJobs) /\ Cardinality(activeJobs) \in Nat
    BY <2>2, <2>4, FS_Surjection, FS_CardinalityType, SandboxAssumption 
  <2> QED
    BY <2>1, <2>2, <2>5, <2>6, SandboxAssumption DEF Full
<1> QED
  BY <1>1, <1>2, PTL

-----------------------------------------------------------------------------
(* Roadmap items.                                                          *)

\* No order is missing below another.
Gapless(f) == \A i \in Item : f[i] > 1 => \E j \in Item : f[j] = f[i] - 1

\* What the rows will be when edit e has written its plan.
Planned(e) == [i \in Item |-> IF order[i] # 0 /\ edit[e].plan[i] # 0 THEN edit[e].plan[i]
                              ELSE order[i]]

\* An addition plans for a row that is not there and that no other plans for; if nothing was
\* removed or renumbered since, its order is the first or follows one that is taken.
AddFits(e) ==
    edit[e].op = "add" =>
        /\ \A i \in Item : edit[e].plan[i] # 0 =>
              /\ order[i] = 0
              /\ \A f \in Editor \ {e} : edit[f].op = "add" => edit[f].plan[i] = 0
        /\ ~edit[e].stale =>
              \A i \in Item : edit[e].plan[i] > 1 => \E j \in Item : order[j] = edit[e].plan[i] - 1

\* A renumbering that nobody has interfered with leaves no gap.
RenumberFits(e) == edit[e].op = "renumber" /\ ~edit[e].stale => Gapless(Planned(e))

\* A plan that gives rows that are there, whose orders are at most n, the orders 1 to n.
Permutes(e, n) ==
    /\ \A i \in Item : edit[e].plan[i] # 0 => order[i] \in 1..n /\ edit[e].plan[i] \in 1..n
    /\ \A v \in 1..n : \E i \in Item : edit[e].plan[i] = v

\* So does a new order, if there was no gap when it was asked for.
ReorderFits(e) ==
    edit[e].op = "reorder" /\ ~edit[e].stale /\ ~Removing /\ ~raced =>
        \E n \in Nat : Permutes(e, n)

EditFits(e) == AddFits(e) /\ RenumberFits(e) /\ ReorderFits(e)

RoadmapIInv == RoadmapTypeOK /\ (\A e \in Editor : EditFits(e)) /\ GapMeansRace

LEMMA RoadmapTypes ==
    ASSUME RoadmapIInv
    PROVE  order \in [Item -> Nat] /\ edit \in [Editor -> EditType] /\ raced \in BOOLEAN
BY DEF RoadmapIInv, RoadmapTypeOK

LEMMA NoEditFits == NoEdit \in EditType /\ NoEdit.op = "idle" /\ ~NoEdit.stale
BY DEF NoEdit, EditType

\* A numbering of n rows gives every order from 1 to n: it tells n rows apart.
LEMMA NumberingIsOnto ==
    ASSUME NEW f \in Numberings
    PROVE  /\ Cardinality(Present) \in Nat /\ f \in [Item -> Nat]
           /\ \A i \in Item : IF order[i] = 0 THEN f[i] = 0 ELSE f[i] \in 1..Cardinality(Present)
           /\ \A v \in 1..Cardinality(Present) : \E i \in Item : f[i] = v
<1> DEFINE n == Cardinality(Present)
           g == [i \in Present |-> f[i]]
<1>1. IsFiniteSet(Present) /\ n \in Nat
  BY RoadmapAssumption, FS_Subset, FS_CardinalityType DEF Present
<1>2. /\ f \in [Item -> 0..n] /\ \A i \in Item : f[i] = 0 <=> i \notin Present
      /\ \A i, j \in Present : f[i] = f[j] => i = j
  BY DEF Numberings
<1>3. Present \subseteq Item
  BY DEF Present
<1> HIDE DEF n
<1>4. g \in Injection(Present, 1..n)
  <2>1. \A i \in Present : f[i] \in 1..n
    BY <1>1, <1>2, <1>3
  <2>2. \A i, j \in Present : g[i] = g[j] => i = j
    BY <1>2
  <2> QED
    BY <2>1, <2>2 DEF Injection, IsInjective
<1>5. IsFiniteSet(1..n) /\ Cardinality(1..n) = n
  BY <1>1, FS_Interval
<1>6. g \in Surjection(Present, 1..n)
  BY <1>4, <1>5, FS_Injection DEF n
<1>7. \A v \in 1..n : \E i \in Item : f[i] = v
  BY <1>3, <1>6 DEF Surjection
<1>8. \A i \in Item : order[i] = 0 <=> i \notin Present
  BY DEF Present
<1> QED
  BY <1>1, <1>2, <1>7, <1>8 DEF n

\* So a plan for all rows that are there, or for those whose order changes, leaves no gap.
LEMMA NumberingIsGapless ==
    ASSUME NEW f \in Numberings
    PROVE  Gapless(f)
<1> DEFINE n == Cardinality(Present)
<1>1. n \in Nat /\ f \in [Item -> Nat]
      /\ (\A i \in Item : f[i] <= n) /\ \A v \in 1..n : \E i \in Item : f[i] = v
  BY NumberingIsOnto
<1> HIDE DEF n
<1>2. ASSUME NEW i \in Item, f[i] > 1 PROVE f[i] - 1 \in 1..n
  BY <1>1, <1>2
<1> QED
  BY <1>1, <1>2 DEF Gapless

\* Without a gap n rows have orders up to n: each of 1 to the highest is taken.
LEMMA GaplessIsBounded ==
    ASSUME order \in [Item -> Nat], Gapless(order), NEW i \in Item
    PROVE  order[i] <= Cardinality(Present)
<1> DEFINE m == order[i]
           Taken == {order[j] : j \in Present}
           Free  == {d \in Nat : d < m /\ m - d \notin Taken}
<1>1. IsFiniteSet(Present) /\ Present \subseteq Item /\ m \in Nat
  BY RoadmapAssumption, FS_Subset DEF Present
<1>2. Free = {}
  <2> SUFFICES ASSUME Free # {} PROVE FALSE
    OBVIOUS
  <2>1. PICK d \in Free : \A x \in Free : d <= x
    BY LeastExists
  <2>2. d \in Nat /\ d < m /\ m - d \notin Taken
    OBVIOUS
  <2>3. d # 0
    <3>1. CASE m = 0
      BY <2>2, <3>1
    <3>2. CASE m # 0
      <4>1. m \in Taken
        BY <3>2 DEF Present
      <4> QED
        BY <1>1, <2>2, <4>1
    <3> QED
      BY <3>1, <3>2
  <2>4. d - 1 \in Nat /\ d - 1 < m /\ d - 1 \notin Free
    BY <1>1, <2>1, <2>2, <2>3
  <2>5. m - (d - 1) \in Taken
    BY <2>4
  <2>6. PICK j \in Present : order[j] = m - (d - 1)
    BY <2>5
  <2>7. order[j] > 1 /\ order[j] - 1 = m - d /\ j \in Item
    BY <1>1, <2>2, <2>3, <2>6
  <2>8. PICK k \in Item : order[k] = m - d
    BY <2>7 DEF Gapless
  <2>9. k \in Present
    BY <1>1, <2>2, <2>8 DEF Present
  <2> QED
    BY <2>2, <2>8, <2>9
<1>3. 1..m \subseteq Taken
  <2> SUFFICES ASSUME NEW v \in 1..m PROVE v \in Taken
    OBVIOUS
  <2>1. m - v \in Nat /\ m - v < m /\ m - (m - v) = v
    BY <1>1
  <2> QED
    BY <1>2, <2>1
<1>4. IsFiniteSet(Taken) /\ Cardinality(Taken) <= Cardinality(Present)
  <2> DEFINE g == [j \in Present |-> order[j]]
  <2>1. g \in Surjection(Present, Taken)
    BY DEF Surjection
  <2> QED
    BY <1>1, <2>1, FS_Surjection
<1>5. m <= Cardinality(Taken)
  <2>1. Cardinality(1..m) = m
    BY <1>1, FS_Interval
  <2>2. Cardinality(1..m) <= Cardinality(Taken)
    BY <1>3, <1>4, FS_Subset
  <2> QED
    BY <2>1, <2>2
<1>6. Cardinality(Taken) \in Nat /\ Cardinality(Present) \in Nat
  BY <1>1, <1>4, FS_CardinalityType
<1> HIDE DEF m, Taken
<1>7. m <= Cardinality(Present)
  BY <1>1, <1>4, <1>5, <1>6
<1> QED
  BY <1>7 DEF m

\* Some row has the highest order.
LEMMA HighestOrder ==
    ASSUME order \in [Item -> Nat], NEW i \in Item
    PROVE  /\ getMaxOrderByRoadmap \in Nat /\ \E j \in Item : order[j] = getMaxOrderByRoadmap
           /\ \A j \in Item : order[j] <= getMaxOrderByRoadmap
<1> DEFINE S == {order[j] : j \in Item}
<1>1. order \in Surjection(Item, S)
  BY DEF Surjection
<1>2. IsFiniteSet(S) /\ S \in SUBSET Nat /\ S # {}
  BY <1>1, RoadmapAssumption, FS_Surjection
<1>3. \E m \in S : \A x \in S : x <= m
  BY <1>2, GreatestExists
<1>4. \E m \in S : \A j \in Item : order[j] <= m
  BY <1>3
<1>5. getMaxOrderByRoadmap \in S /\ \A j \in Item : order[j] <= getMaxOrderByRoadmap
  BY <1>4 DEF getMaxOrderByRoadmap
<1> QED
  BY <1>2, <1>5

LEMMA RoadmapInitHolds == RoadmapInit => RoadmapIInv
<1> SUFFICES ASSUME RoadmapInit PROVE RoadmapIInv
  OBVIOUS
<1>1. order \in Numberings /\ edit = [e \in Editor |-> NoEdit] /\ raced = FALSE
  BY DEF RoadmapInit
<1>2. order \in [Item -> Nat] /\ Gapless(order)
  BY <1>1, NumberingIsOnto, NumberingIsGapless
<1>3. RoadmapTypeOK
  BY <1>1, <1>2, NoEditFits DEF RoadmapTypeOK
<1>4. GapMeansRace
  BY <1>2 DEF GapMeansRace, Gapless, Present
<1> QED
  BY <1>1, <1>3, <1>4, NoEditFits
     DEF RoadmapIInv, EditFits, AddFits, RenumberFits, ReorderFits

LEMMA NoGap ==
    ASSUME order \in [Item -> Nat]
    PROVE  GapMeansRace <=> (~Removing /\ ~raced => Gapless(order))
BY DEF GapMeansRace, Gapless, Present

\* What Writes leaves of the edits.
LEMMA Written ==
    ASSUME RoadmapIInv, NEW e \in Editor, NEW r \in EditType, NEW ops, Writes(e, r, ops)
    PROVE  /\ edit' \in [Editor -> EditType] /\ edit'[e] = r
           /\ \A f \in Editor \ {e} : /\ edit'[f].op = edit[f].op /\ edit'[f].plan = edit[f].plan
                                      /\ edit'[f].stale <=> (edit[f].stale \/ edit[f].op \in ops)
<1>1. \A f \in Editor : edit[f] \in EditType
  BY RoadmapTypes
<1>2. \A f \in Editor : [edit[f] EXCEPT !.stale = TRUE] \in EditType
  BY <1>1 DEF EditType
<1>3. edit' \in [Editor -> EditType]
  BY <1>1, <1>2 DEF Writes
<1> QED
  BY <1>1, <1>3 DEF Writes, EditType

\* Steps that write no row: only the edit that moves has anything to show.
LEMMA RowsStay ==
    ASSUME RoadmapIInv, NEW e \in Editor, NEW r \in EditType,
           order' = order, edit' = [edit EXCEPT ![e] = r],
           raced' \in BOOLEAN, raced => raced', ~Removing' /\ ~raced' => ~Removing,
           r.op = "add" => \A i \in Item : r.plan[i] # 0 =>
               \A f \in Editor \ {e} : edit[f].op = "add" => edit[f].plan[i] = 0,
           EditFits(e)'
    PROVE  RoadmapIInv'
<1>1. order \in [Item -> Nat] /\ edit \in [Editor -> EditType]
  BY RoadmapTypes
<1>2. RoadmapTypeOK'
  BY <1>1 DEF RoadmapTypeOK
<1>3. ASSUME NEW f \in Editor, f # e PROVE EditFits(f)'
  <2>1. EditFits(f) /\ edit'[f] = edit[f] /\ edit'[e] = r
    BY <1>1, <1>3 DEF RoadmapIInv
  <2>2. AddFits(f)'
    BY <1>1, <1>3, <2>1 DEF EditFits, AddFits
  <2>3. RenumberFits(f)'
    BY <2>1 DEF EditFits, RenumberFits, Planned, Gapless
  <2>4. ReorderFits(f)'
    <3>1. ASSUME NEW n \in Nat, Permutes(f, n) PROVE Permutes(f, n)'
      BY <2>1, <3>1 DEF Permutes
    <3>2. CASE ~Removing' /\ ~raced' /\ edit'[f].op = "reorder" /\ ~edit'[f].stale
      <4>1. PICK n \in Nat : Permutes(f, n)
        BY <2>1, <3>2 DEF EditFits, ReorderFits
      <4> QED
        BY <3>1, <4>1 DEF ReorderFits
    <3> QED
      BY <3>2 DEF ReorderFits
  <2> QED
    BY <2>2, <2>3, <2>4 DEF EditFits
<1>4. GapMeansRace'
  BY DEF RoadmapIInv, GapMeansRace, Present
<1> QED
  BY <1>2, <1>3, <1>4 DEF RoadmapIInv

LEMMA AddReadsStep ==
    ASSUME RoadmapIInv, NEW e \in Editor, NEW i \in Item, AddReads(e, i)
    PROVE  RoadmapIInv'
<1> DEFINE m == getMaxOrderByRoadmap
           plan == [NoEdit.plan EXCEPT ![i] = m + 1]
           r == [op |-> "add", stale |-> FALSE, plan |-> plan]
<1>1. order \in [Item -> Nat] /\ edit \in [Editor -> EditType] /\ raced \in BOOLEAN
  BY RoadmapTypes
<1>2. m \in Nat /\ \E j \in Item : order[j] = m
  BY <1>1, HighestOrder
<1> HIDE DEF m
<1>3. plan = [k \in Item |-> IF k = i THEN m + 1 ELSE 0]
  BY DEF NoEdit
<1>4. r \in EditType
  <2> HIDE DEF plan
  <2>1. plan \in [Item -> Nat]
    BY <1>2, <1>3
  <2> QED
    BY <2>1 DEF EditType
<1>5. /\ order' = order /\ raced' = raced /\ edit' = [edit EXCEPT ![e] = r] /\ order[i] = 0
      /\ edit[e].op = "idle" /\ \A f \in Editor : edit[f].op = "add" => edit[f].plan[i] = 0
  BY DEF AddReads, m
<1>6. edit'[e] = r /\ \A f \in Editor \ {e} : edit'[f] = edit[f]
  BY <1>1, <1>5
<1>7. ~Removing' => ~Removing
  BY <1>5, <1>6 DEF Removing
<1>8. EditFits(e)'
  <2>1. AddFits(e)'
    BY <1>2, <1>3, <1>5, <1>6 DEF AddFits
  <2> QED
    BY <1>6, <2>1 DEF EditFits, RenumberFits, ReorderFits
<1> HIDE DEF r, plan
<1> QED
  BY <1>1, <1>3, <1>4, <1>5, <1>7, <1>8, RowsStay DEF r

LEMMA CompactReadsStep ==
    ASSUME RoadmapIInv, NEW e \in Editor, CompactReads(e)
    PROVE  RoadmapIInv'
<1>1. order \in [Item -> Nat] /\ edit \in [Editor -> EditType] /\ raced \in BOOLEAN
  BY RoadmapTypes
<1>2. PICK f \in Numberings :
         edit' = [edit EXCEPT ![e] =
                    [op |-> "renumber", stale |-> FALSE,
                     plan |-> [i \in Item |-> IF f[i] = order[i] THEN 0 ELSE f[i]]]]
  BY DEF CompactReads
<1> DEFINE plan == [i \in Item |-> IF f[i] = order[i] THEN 0 ELSE f[i]]
           r == [op |-> "renumber", stale |-> FALSE, plan |-> plan]
<1>3. /\ f \in [Item -> Nat] /\ Gapless(f) /\ Cardinality(Present) \in Nat
      /\ \A i \in Item : IF order[i] = 0 THEN f[i] = 0 ELSE f[i] \in 1..Cardinality(Present)
  BY NumberingIsOnto, NumberingIsGapless
<1>4. r \in EditType
  BY <1>1, <1>3 DEF EditType
<1>5. order' = order /\ raced' = raced /\ edit' = [edit EXCEPT ![e] = r] /\ edit[e].op = "removed"
  BY <1>2 DEF CompactReads
<1>6. edit'[e] = r
  BY <1>1, <1>5
<1>7. Removing'
  BY <1>6 DEF Removing
<1>8. EditFits(e)'
  <2>1. \A i \in Item : Planned(e)'[i] = f[i]
    BY <1>3, <1>5, <1>6 DEF Planned
  <2>2. Gapless(Planned(e))'
    BY <1>3, <2>1 DEF Gapless
  <2> QED
    BY <1>6, <2>2 DEF EditFits, AddFits, RenumberFits, ReorderFits
<1>9. r.op = "renumber"
  OBVIOUS
<1> HIDE DEF r
<1> QED
  BY <1>1, <1>4, <1>5, <1>7, <1>8, <1>9, RowsStay

LEMMA ReorderReadsStep ==
    ASSUME RoadmapIInv, NEW e \in Editor, ReorderReads(e)
    PROVE  RoadmapIInv'
<1>1. order \in [Item -> Nat] /\ edit \in [Editor -> EditType] /\ raced \in BOOLEAN
  BY RoadmapTypes
<1>2. PICK f \in Numberings :
         edit' = [edit EXCEPT ![e] = [op |-> "reorder", stale |-> FALSE, plan |-> f]]
  BY DEF ReorderReads
<1> DEFINE r == [op |-> "reorder", stale |-> FALSE, plan |-> f]
           n == Cardinality(Present)
<1>3. /\ f \in [Item -> Nat] /\ n \in Nat
      /\ \A i \in Item : IF order[i] = 0 THEN f[i] = 0 ELSE f[i] \in 1..n
      /\ \A v \in 1..n : \E i \in Item : f[i] = v
  BY NumberingIsOnto
<1>4. r \in EditType
  BY <1>3 DEF EditType
<1>5. order' = order /\ raced' = raced /\ edit' = [edit EXCEPT ![e] = r] /\ edit[e].op = "idle"
  BY <1>2 DEF ReorderReads
<1>6. edit'[e] = r /\ \A g \in Editor \ {e} : edit'[g] = edit[g]
  BY <1>1, <1>5
<1>7. ~Removing' => ~Removing
  BY <1>5, <1>6 DEF Removing
<1>8. EditFits(e)'
  <2>1. ASSUME ~Removing', ~raced' PROVE Permutes(e, n)'
    <3>1. Gapless(order)
      BY <1>1, <1>5, <1>7, <2>1, NoGap DEF RoadmapIInv
    <3>2. \A i \in Item : order[i] <= n
      BY <1>1, <3>1, GaplessIsBounded
    <3> HIDE DEF n
    <3>3. \A i \in Item : f[i] # 0 => order[i] \in 1..n /\ f[i] \in 1..n
      BY <1>1, <1>3, <3>2
    <3>4. n' = n
      BY <1>5 DEF n, Present
    <3> QED
      BY <1>3, <1>5, <1>6, <3>3, <3>4 DEF Permutes
  <2>2. ReorderFits(e)'
    <3>1. n' \in Nat
      BY <1>3, <1>5 DEF Present
    <3> QED
      BY <2>1, <3>1 DEF ReorderFits
  <2> QED
    BY <1>6, <2>2 DEF EditFits, AddFits, RenumberFits
<1>9. r.op = "reorder"
  OBVIOUS
<1> HIDE DEF r
<1> QED
  BY <1>1, <1>4, <1>5, <1>7, <1>8, <1>9, RowsStay

LEMMA EditEndsStep ==
    ASSUME RoadmapIInv, NEW e \in Editor, EditEnds(e)
    PROVE  RoadmapIInv'
<1>1. order \in [Item -> Nat] /\ edit \in [Editor -> EditType] /\ raced \in BOOLEAN
  BY RoadmapTypes
<1>2. /\ order' = order /\ edit' = [edit EXCEPT ![e] = NoEdit]
      /\ raced' = (raced \/ edit[e].op \in {"removed", "renumber"})
  BY DEF EditEnds
<1>3. edit'[e] = NoEdit /\ \A g \in Editor \ {e} : edit'[g] = edit[g]
  BY <1>1, <1>2
<1>4. ~Removing' /\ ~raced' => ~Removing
  BY <1>2, <1>3 DEF Removing
<1>5. EditFits(e)'
  BY <1>3, NoEditFits DEF EditFits, AddFits, RenumberFits, ReorderFits
<1> QED
  BY <1>1, <1>2, <1>4, <1>5, NoEditFits, RowsStay

\* Steps that write rows: what they do to the edits of others.
LEMMA AddFitsOn ==
    ASSUME RoadmapIInv, NEW f \in Editor, edit'[f].op = edit[f].op, edit'[f].plan = edit[f].plan,
           \A g \in Editor :
              edit'[g].op = "add" => edit[g].op = "add" /\ edit'[g].plan = edit[g].plan,
           edit[f].op = "add" => \A i \in Item : edit[f].plan[i] # 0 => order'[i] = 0,
           \/ edit[f].op = "add" => edit'[f].stale
           \/ /\ edit'[f].stale <=> edit[f].stale
              /\ \A i \in Item : order[i] # 0 => order'[i] = order[i]
    PROVE  AddFits(f)'
<1>1. AddFits(f) /\ edit[f].plan \in [Item -> Nat] /\ order \in [Item -> Nat]
  BY RoadmapTypes DEF RoadmapIInv, EditFits, EditType
<1> SUFFICES ASSUME edit[f].op = "add" PROVE AddFits(f)'
  BY DEF AddFits
<1>2. ASSUME ~edit'[f].stale, NEW i \in Item, edit[f].plan[i] > 1
      PROVE  \E j \in Item : order'[j] = edit[f].plan[i] - 1
  <2>1. PICK j \in Item : order[j] = edit[f].plan[i] - 1
    BY <1>1, <1>2 DEF AddFits
  <2>2. order[j] # 0
    BY <1>1, <1>2, <2>1
  <2> QED
    BY <1>2, <2>1, <2>2
<1>3. ASSUME NEW i \in Item, edit[f].plan[i] # 0, NEW g \in Editor \ {f}, edit'[g].op = "add"
      PROVE  edit'[g].plan[i] = 0
  BY <1>1, <1>3 DEF AddFits
<1> QED
  BY <1>2, <1>3 DEF AddFits

LEMMA AddStep ==
    ASSUME RoadmapIInv, NEW e \in Editor, addItemToRoadmap(e)
    PROVE  RoadmapIInv'
<1> DEFINE plan == edit[e].plan
<1>1. order \in [Item -> Nat] /\ edit \in [Editor -> EditType] /\ raced \in BOOLEAN
      /\ plan \in [Item -> Nat]
  BY RoadmapTypes DEF EditType
<1>2. /\ edit[e].op = "add" /\ raced' = (raced \/ edit[e].stale)
      /\ order' = [i \in Item |-> IF plan[i] # 0 THEN plan[i] ELSE order[i]]
      /\ Writes(e, NoEdit, {"renumber"})
  BY DEF addItemToRoadmap
<1>3. /\ edit' \in [Editor -> EditType] /\ edit'[e] = NoEdit
      /\ \A f \in Editor \ {e} : /\ edit'[f].op = edit[f].op /\ edit'[f].plan = edit[f].plan
                                 /\ edit'[f].stale <=> (edit[f].stale \/ edit[f].op = "renumber")
  BY <1>2, NoEditFits, Written
<1>4. AddFits(e)
  BY DEF RoadmapIInv, EditFits
<1>5. \A i \in Item : order[i] # 0 => order'[i] = order[i]
  BY <1>2, <1>4 DEF AddFits
<1>6. Removing' => Removing
  BY <1>3, NoEditFits DEF Removing
<1>7. Removing => Removing'
  BY <1>2, <1>3 DEF Removing
<1>8. RoadmapTypeOK'
  BY <1>1, <1>2, <1>3 DEF RoadmapTypeOK
<1>9. GapMeansRace'
  <2> SUFFICES ASSUME ~Removing', ~raced' PROVE Gapless(order')
    BY <1>8 DEF RoadmapTypeOK, GapMeansRace, Gapless, Present
  <2>1. Gapless(order) /\ ~edit[e].stale
    BY <1>1, <1>2, <1>7, NoGap DEF RoadmapIInv
  <2> SUFFICES ASSUME NEW i \in Item, order'[i] > 1 PROVE \E j \in Item : order'[j] = order'[i] - 1
    BY DEF Gapless
  <2>2. PICK j \in Item : order[j] = order'[i] - 1
    BY <1>2, <1>4, <2>1 DEF AddFits, Gapless
  <2>3. order[j] # 0
    BY <1>8, <2>2 DEF RoadmapTypeOK
  <2> QED
    BY <1>5, <2>2, <2>3
<1>10. ASSUME NEW f \in Editor, f # e PROVE EditFits(f)'
  <2>1. EditFits(f) /\ edit'[f].op = edit[f].op /\ edit'[f].plan = edit[f].plan
        /\ edit[f].plan \in [Item -> Nat]
    BY <1>1, <1>3, <1>10 DEF RoadmapIInv, EditType
  <2>2. AddFits(f)'
    <3>1. \A g \in Editor :
              edit'[g].op = "add" => edit[g].op = "add" /\ edit'[g].plan = edit[g].plan
      BY <1>3, NoEditFits
    <3>2. edit[f].op = "add" => \A i \in Item : edit[f].plan[i] # 0 => order'[i] = 0
      BY <1>2, <1>10, <2>1 DEF EditFits, AddFits
    <3>3. edit[f].op = "add" => (edit'[f].stale <=> edit[f].stale)
      BY <1>3, <1>10
    <3>4. CASE edit[f].op = "add"
      BY <1>5, <2>1, <3>1, <3>2, <3>3, <3>4, AddFitsOn
    <3> QED
      BY <2>1, <3>4 DEF AddFits
  <2>3. RenumberFits(f)'
    BY <1>3, <1>10 DEF RenumberFits
  <2>4. ReorderFits(f)'
    <3> SUFFICES ASSUME edit[f].op = "reorder", ~edit'[f].stale, ~Removing', ~raced'
                 PROVE  \E n \in Nat : Permutes(f, n)'
      BY <2>1 DEF ReorderFits
    <3>1. PICK n \in Nat : Permutes(f, n)
      BY <1>2, <1>3, <1>7, <1>10, <2>1 DEF EditFits, ReorderFits
    <3>2. Permutes(f, n)'
      BY <1>5, <2>1, <3>1 DEF Permutes
    <3> QED
      BY <3>2
  <2> QED
    BY <2>2, <2>3, <2>4 DEF EditFits
<1>11. EditFits(e)'
  BY <1>3, NoEditFits DEF EditFits, AddFits, RenumberFits, ReorderFits
<1> QED
  BY <1>8, <1>9, <1>10, <1>11 DEF RoadmapIInv

\* A step that takes rows away or renumbers them makes every plan stale.
LEMMA StaleFits ==
    ASSUME RoadmapIInv, NEW e \in Editor, NEW r \in EditType, r.op \in {"idle", "removed"},
           Writes(e, r, {"add", "renumber", "reorder"}),
           \A i \in Item : order[i] = 0 => order'[i] = 0
    PROVE  \A f \in Editor : EditFits(f)'
<1>1. /\ edit' \in [Editor -> EditType] /\ edit'[e] = r
      /\ \A f \in Editor \ {e} :
            /\ edit'[f].op = edit[f].op /\ edit'[f].plan = edit[f].plan
            /\ edit'[f].stale <=> (edit[f].stale \/ edit[f].op \in {"add", "renumber", "reorder"})
  BY Written
<1>2. EditFits(e)'
  BY <1>1 DEF EditFits, AddFits, RenumberFits, ReorderFits
<1>3. ASSUME NEW f \in Editor \ {e} PROVE EditFits(f)'
  <2>1. edit'[f].op \in {"add", "renumber", "reorder"} => edit'[f].stale
    BY <1>1
  <2>2. AddFits(f)'
    <3>1. \A g \in Editor :
              edit'[g].op = "add" => edit[g].op = "add" /\ edit'[g].plan = edit[g].plan
      BY <1>1
    <3>2. edit[f].op = "add" => \A i \in Item : edit[f].plan[i] # 0 => order'[i] = 0
      BY DEF RoadmapIInv, EditFits, AddFits
    <3> QED
      BY <1>1, <2>1, <3>1, <3>2, AddFitsOn
  <2> QED
    BY <2>1, <2>2 DEF EditFits, RenumberFits, ReorderFits
<1> QED
  BY <1>2, <1>3

LEMMA RemoveStep ==
    ASSUME RoadmapIInv, NEW e \in Editor, NEW i \in Item, removeItemFromRoadmap(e, i)
    PROVE  RoadmapIInv'
<1> DEFINE r == [NoEdit EXCEPT !.op = "removed"]
<1>1. order \in [Item -> Nat] /\ raced \in BOOLEAN
  BY RoadmapTypes
<1>2. r \in EditType /\ r.op = "removed"
  BY NoEditFits DEF EditType
<1>3. /\ order' = [order EXCEPT ![i] = 0] /\ raced' = raced
      /\ Writes(e, r, {"add", "renumber", "reorder"})
  BY DEF removeItemFromRoadmap
<1>4. edit' \in [Editor -> EditType] /\ edit'[e] = r
  BY <1>2, <1>3, Written
<1>5. \A f \in Editor : EditFits(f)'
  <2>1. \A k \in Item : order[k] = 0 => order'[k] = 0
    BY <1>1, <1>3
  <2> HIDE DEF r
  <2> QED
    BY <1>2, <1>3, <2>1, StaleFits
<1>6. RoadmapTypeOK'
  BY <1>1, <1>3, <1>4 DEF RoadmapTypeOK
<1>7. GapMeansRace'
  BY <1>2, <1>4 DEF GapMeansRace, Removing
<1> QED
  BY <1>5, <1>6, <1>7 DEF RoadmapIInv

\* A new order that nobody has interfered with leaves no gap: a row it does not name was added
\* since, and follows one that is there or had an order the plan has given to another.
LEMMA PermutedIsGapless ==
    ASSUME RoadmapIInv, NEW e \in Editor, NEW n \in Nat, Permutes(e, n), Gapless(order)
    PROVE  Gapless(Planned(e))
<1> DEFINE plan == edit[e].plan
           f == Planned(e)
<1>1. order \in [Item -> Nat] /\ plan \in [Item -> Nat]
  BY RoadmapTypes DEF EditType
<1>2. f = [i \in Item |-> IF order[i] # 0 /\ plan[i] # 0 THEN plan[i] ELSE order[i]]
  BY DEF Planned
<1>3. /\ \A i \in Item : plan[i] # 0 => order[i] \in 1..n /\ plan[i] \in 1..n
      /\ \A v \in 1..n : \E i \in Item : plan[i] = v
  BY DEF Permutes
<1> HIDE DEF plan, f
<1>4. \A v \in 1..n : \E i \in Item : f[i] = v
  <2> SUFFICES ASSUME NEW v \in 1..n PROVE \E i \in Item : f[i] = v
    OBVIOUS
  <2>1. PICK i \in Item : plan[i] = v
    BY <1>3
  <2>2. order[i] # 0 /\ plan[i] # 0
    BY <1>3, <2>1
  <2> QED
    BY <1>2, <2>1, <2>2
<1>5. ASSUME NEW i \in Item, f[i] > 1 PROVE \E j \in Item : f[j] = f[i] - 1
  <2>1. CASE plan[i] # 0
    <3>1. f[i] \in 1..n
      BY <1>2, <1>3, <2>1
    <3>2. f[i] - 1 \in 1..n
      BY <1>5, <3>1
    <3> QED
      BY <1>4, <3>2
  <2>2. CASE plan[i] = 0
    <3>1. f[i] = order[i]
      BY <1>2, <2>2
    <3>2. PICK j \in Item : order[j] = f[i] - 1
      BY <1>5, <3>1 DEF Gapless
    <3>3. CASE plan[j] = 0
      BY <1>2, <3>2, <3>3
    <3>4. CASE plan[j] # 0
      BY <1>3, <1>4, <3>2, <3>4
    <3> QED
      BY <3>3, <3>4
  <2> QED
    BY <2>1, <2>2
<1> QED
  BY <1>5 DEF Gapless, f

LEMMA RenumberStep ==
    ASSUME RoadmapIInv, NEW e \in Editor, Renumber(e)
    PROVE  RoadmapIInv'
<1>1. order \in [Item -> Nat] /\ edit \in [Editor -> EditType] /\ raced \in BOOLEAN
      /\ edit[e].plan \in [Item -> Nat]
  BY RoadmapTypes DEF EditType
<1>2. /\ edit[e].op \in {"renumber", "reorder"} /\ raced' = (raced \/ edit[e].stale)
      /\ order' = Planned(e) /\ Writes(e, NoEdit, {"add", "renumber", "reorder"})
  BY DEF Renumber, Planned
<1>3. /\ edit' \in [Editor -> EditType] /\ edit'[e] = NoEdit
      /\ \A f \in Editor \ {e} : edit'[f].op = edit[f].op
  BY <1>2, NoEditFits, Written
<1>4. order' \in [Item -> Nat]
  BY <1>1, <1>2 DEF Planned
<1>5. RoadmapTypeOK'
  BY <1>1, <1>2, <1>3, <1>4 DEF RoadmapTypeOK
<1>6. \A f \in Editor : EditFits(f)'
  <2>1. \A i \in Item : order[i] = 0 => order'[i] = 0
    BY <1>2 DEF Planned
  <2> QED
    BY <1>2, <2>1, NoEditFits, StaleFits
<1>7. ASSUME ~Removing', ~raced' PROVE Gapless(order')
  <2>1. ~raced /\ ~edit[e].stale /\ EditFits(e)
    BY <1>2, <1>7 DEF RoadmapIInv
  <2>2. CASE edit[e].op = "renumber"
    BY <1>2, <2>1, <2>2 DEF EditFits, RenumberFits
  <2>3. CASE edit[e].op = "reorder"
    <3>1. ~Removing
      BY <1>3, <1>7, <2>3 DEF Removing
    <3>2. PICK n \in Nat : Permutes(e, n)
      BY <2>1, <2>3, <3>1 DEF EditFits, ReorderFits
    <3>3. Gapless(order)
      BY <1>1, <2>1, <3>1, NoGap DEF RoadmapIInv
    <3> QED
      BY <1>2, <3>2, <3>3, PermutedIsGapless
  <2> QED
    BY <1>2, <2>2, <2>3
<1>8. GapMeansRace'
  BY <1>4, <1>7 DEF GapMeansRace, Gapless, Present
<1> QED
  BY <1>5, <1>6, <1>8 DEF RoadmapIInv

LEMMA RoadmapStep == RoadmapIInv /\ [RoadmapNext]_roadmapVars => RoadmapIInv'
<1> SUFFICES ASSUME RoadmapIInv, [RoadmapNext]_roadmapVars PROVE RoadmapIInv'
  OBVIOUS
<1>1. CASE UNCHANGED roadmapVars
  BY <1>1
     DEF roadmapVars, RoadmapIInv, RoadmapTypeOK, EditFits, AddFits, RenumberFits, ReorderFits,
         Permutes, Planned, Gapless, GapMeansRace, Removing, Present
<1>2. CASE RoadmapNext
  BY <1>2, AddReadsStep, RemoveStep, AddStep, CompactReadsStep, ReorderReadsStep, RenumberStep,
     EditEndsStep
     DEF RoadmapNext
<1> QED
  BY <1>1, <1>2

LEMMA RoadmapInvariant == RoadmapSpec => []RoadmapIInv
BY RoadmapInitHolds, RoadmapStep, PTL DEF RoadmapSpec

\* For any number of items and of overlapping edits: the types.
THEOREM RoadmapAlwaysTyped == RoadmapSpec => []RoadmapTypeOK
<1>1. RoadmapIInv => RoadmapTypeOK
  BY DEF RoadmapIInv
<1> QED
  BY <1>1, RoadmapInvariant, PTL

\* For any number of items and of overlapping edits: a missing order means a removal under way,
\* or edits that raced or were cut short (addItemToRoadmap, compactOrdersAfterDelete,
\* reorderItems).
THEOREM GapsAlwaysMeanRaces == RoadmapSpec => []GapMeansRace
<1>1. RoadmapIInv => GapMeansRace
  BY DEF RoadmapIInv
<1> QED
  BY <1>1, RoadmapInvariant, PTL
-----------------------------------------------------------------------------
(* The exam endpoints without participants.                                *)

VisitPc == {"idle", "expire", "completed", "insert", "reset", "join", "sync", "program", "score",
            "results", "finish"}
Pick == UNION {[Q -> 1..MaxSubs] : Q \in SUBSET Problem}
VisitType == [pc : VisitPc, a : 0..MaxRows, n : 0..(MaxStamp + Cardinality(Problem)),
              p : Problem \cup {NoProblem}, seen : 0..(2 * MaxSubs), pick : Pick]

\* What was scored while the submissions were as they are now is what they come to.
UpToDate(mark, points, a) ==
    mark <= Progress /\ (mark = Progress => points = Points(selectedByProblem(a)))

\* What a request relies on: what it is about to write, and that its attempt exists.
VisitFits(c) ==
    /\ c.pc = "sync" => c.n <= MaxStamp
    /\ c.pc = "program" => c.p \in Problem
    /\ c.pc \in {"score", "results", "finish"} => c.a \in DOMAIN tries
    /\ c.pc = "results" => UpToDate(c.seen, Points(c.pick), c.a)
    /\ c.pc = "finish" => c.n <= Cardinality(Problem) /\ UpToDate(c.seen, c.n, c.a)

TryFits(a) ==
    /\ ~tries[a].over => tries[a].closed = MaxSubs
    /\ tries[a].score # 0 => UpToDate(tries[a].seen, tries[a].score - 1, a)

LegacyIInv ==
    /\ LegacyTypeOK
    /\ \A t \in Visit : VisitFits(visit[t])
    /\ \A a \in DOMAIN tries : TryFits(a)

\* What a step may do to the answers of an attempt.
AnswersKept ==
    \A a \in DOMAIN tries :
        Finished(a) /\ tries'[a].answers # tries[a].answers =>
            \E t \in Visit : visit[t].pc = "reset" /\ visit[t].a = a

LEMMA LegacyConstants ==
    /\ MaxTries \in Nat /\ MaxRows \in Nat /\ MaxSubs \in Nat /\ MaxStamp \in Nat
    /\ IsFiniteSet(Problem) /\ Cardinality(Problem) \in Nat
BY LegacyAssumption, FS_CardinalityType

LEMMA LegacyTypes ==
    ASSUME LegacyIInv
    PROVE  /\ tries \in Seq(TryType) /\ Len(tries) \in 0..MaxRows /\ DOMAIN tries = 1..Len(tries)
           /\ subs \in Seq(SubType) /\ Len(subs) \in 0..MaxSubs /\ DOMAIN subs = 1..Len(subs)
           /\ visit \in [Visit -> VisitType] /\ ending \in 0..MaxRows
           /\ \A a \in DOMAIN tries : tries[a] \in TryType
           /\ \A i \in DOMAIN subs : subs[i] \in SubType
<1>1. /\ tries \in Seq(TryType) /\ Len(tries) <= MaxRows
      /\ subs \in Seq(SubType) /\ Len(subs) <= MaxSubs
      /\ visit \in [Visit -> VisitType] /\ ending \in 0..MaxRows
  BY DEF LegacyIInv, LegacyTypeOK, VisitType, VisitPc, Pick
<1>2. Len(tries) \in Nat /\ DOMAIN tries = 1..Len(tries) /\ Len(subs) \in Nat
      /\ DOMAIN subs = 1..Len(subs)
  BY <1>1
<1> QED
  BY <1>1, <1>2, LegacyConstants

LEMMA ProgressIsNat ==
    ASSUME LegacyIInv
    PROVE  /\ Progress \in 0..(2 * MaxSubs)
           /\ IsFiniteSet({i \in DOMAIN subs : subs[i].st # "pending"})
<1> DEFINE Graded == {i \in DOMAIN subs : subs[i].st # "pending"}
<1>1. Len(subs) \in 0..MaxSubs /\ Graded \subseteq 1..Len(subs) /\ MaxSubs \in Nat
  BY LegacyTypes, LegacyConstants
<1>2. IsFiniteSet(1..Len(subs)) /\ Cardinality(1..Len(subs)) = Len(subs)
  <2> DEFINE n == Len(subs)
  <2>1. n \in Nat
    BY <1>1
  <2> HIDE DEF n
  <2>2. IsFiniteSet(1..n) /\ Cardinality(1..n) = n
    BY <2>1, FS_Interval
  <2> QED
    BY <2>2 DEF n
<1>3. IsFiniteSet(Graded) /\ Cardinality(Graded) <= Len(subs)
  BY <1>1, <1>2, FS_Subset
<1>4. Cardinality(Graded) \in Nat
  BY <1>3, FS_CardinalityType
<1> HIDE DEF Graded
<1>5. Len(subs) + Cardinality(Graded) \in 0..(2 * MaxSubs)
  BY <1>1, <1>3, <1>4
<1> QED
  BY <1>3, <1>5 DEF Progress, Graded

LEMMA PointsAreFew ==
    ASSUME NEW pick, DOMAIN pick \subseteq Problem
    PROVE  Points(pick) \in 0..Cardinality(Problem)
<1> DEFINE Passed == {p \in DOMAIN pick : subs[pick[p]].st = "passed"}
<1>1. Passed \subseteq Problem
  OBVIOUS
<1>2. IsFiniteSet(Passed) /\ Cardinality(Passed) <= Cardinality(Problem)
  BY <1>1, LegacyConstants, FS_Subset
<1>3. Cardinality(Passed) \in Nat
  BY <1>2, FS_CardinalityType
<1> HIDE DEF Passed
<1>4. Cardinality(Passed) \in 0..Cardinality(Problem)
  BY <1>2, <1>3, LegacyConstants
<1> QED
  BY <1>4 DEF Points, Passed

\* Where calculateExamScore and the leaderboard look for the submission of a problem.
Looked(a, p) == IF Linked(a, p) # {} THEN Linked(a, p) ELSE Within(a, p)
Tried(a) == {p \in Problem : Linked(a, p) \cup Within(a, p) # {}}

LEMMA Latest ==
    ASSUME LegacyIInv, NEW a
    PROVE  /\ selectedByProblem(a) = [p \in Tried(a) |-> Max(Looked(a, p))]
           /\ \A p \in Tried(a) :
                 /\ Max(Looked(a, p)) \in Looked(a, p) /\ Looked(a, p) \subseteq DOMAIN subs
                 /\ \A i \in Looked(a, p) : i <= Max(Looked(a, p))
<1>1. selectedByProblem(a) = [p \in Tried(a) |-> Max(Looked(a, p))]
  BY DEF selectedByProblem, LatestOf, Tried, Looked
<1>2. ASSUME NEW p \in Tried(a)
      PROVE  /\ Max(Looked(a, p)) \in Looked(a, p) /\ Looked(a, p) \subseteq DOMAIN subs
             /\ \A i \in Looked(a, p) : i <= Max(Looked(a, p))
  <2>1. Looked(a, p) \subseteq DOMAIN subs /\ Looked(a, p) # {}
    BY DEF Tried, Looked, Linked, Within
  <2>2. IsFiniteSet(DOMAIN subs) /\ DOMAIN subs \subseteq Nat
    BY LegacyTypes, FS_Interval
  <2>3. IsFiniteSet(Looked(a, p)) /\ Looked(a, p) \in SUBSET Nat
    BY <2>1, <2>2, FS_Subset
  <2> QED
    BY <2>1, <2>3, MaxIsGreatest
<1> QED
  BY <1>1, <1>2

LEMMA SelectedArePicks == ASSUME LegacyIInv, NEW a PROVE selectedByProblem(a) \in Pick
<1>1. DOMAIN subs \subseteq 1..MaxSubs
  BY LegacyTypes, LegacyConstants
<1>2. selectedByProblem(a) \in [Tried(a) -> 1..MaxSubs]
  BY <1>1, Latest
<1>3. Tried(a) \in SUBSET Problem
  BY DEF Tried
<1> QED
  BY <1>2, <1>3 DEF Pick

\* The two pieces of code that score agree on the same submissions and the same attempt.
LEMMA ScoreIsBoard ==
    ASSUME LegacyIInv, NEW a
    PROVE  Points(selectedByProblem(a)) = getExamLeaderboard(a)
<1> DEFINE L(p) == Looked(a, p)
<1>1. Points(selectedByProblem(a))
          = Cardinality({p \in Tried(a) : subs[Max(L(p))].st = "passed"})
  <2> DEFINE picks == selectedByProblem(a)
  <2>1. picks = [p \in Tried(a) |-> Max(L(p))]
    BY Latest
  <2> HIDE DEF picks, L
  <2>2. DOMAIN picks = Tried(a) /\ \A p \in Tried(a) : picks[p] = Max(L(p))
    BY <2>1
  <2>3. {p \in DOMAIN picks : subs[picks[p]].st = "passed"}
            = {p \in Tried(a) : subs[Max(L(p))].st = "passed"}
    BY <2>2
  <2>4. Points(picks) = Cardinality({p \in Tried(a) : subs[Max(L(p))].st = "passed"})
    BY <2>3 DEF Points
  <2> QED
    BY <2>4 DEF picks
<1>2. getExamLeaderboard(a)
          = Cardinality({p \in Problem :
                            \E i \in L(p) : subs[i].st = "passed" /\ \A k \in L(p) : k <= i})
  <2>1. \A p \in Problem :
           (IF Linked(a, p) # {}
            THEN \E i \in Linked(a, p) : subs[i].st = "passed" /\ \A k \in Linked(a, p) : k <= i
            ELSE \E i \in Within(a, p) : subs[i].st = "passed" /\ \A k \in Within(a, p) : k <= i)
           <=> \E i \in L(p) : subs[i].st = "passed" /\ \A k \in L(p) : k <= i
    BY DEF Looked
  <2> QED
    BY <2>1 DEF getExamLeaderboard
<1>3. ASSUME NEW p \in Problem
      PROVE  (p \in Tried(a) /\ subs[Max(L(p))].st = "passed")
             <=> \E i \in L(p) : subs[i].st = "passed" /\ \A k \in L(p) : k <= i
  <2>1. CASE p \in Tried(a)
    <3>1. /\ Max(L(p)) \in L(p) /\ L(p) \subseteq Nat
          /\ \A i \in L(p) : i <= Max(L(p))
      BY <2>1, Latest, LegacyTypes
    <3> HIDE DEF L
    <3>2. \A i \in L(p) : (\A k \in L(p) : k <= i) => i = Max(L(p))
      BY <3>1
    <3> QED
      BY <2>1, <3>1, <3>2
  <2>2. CASE p \notin Tried(a)
    BY <2>2 DEF Tried, Looked
  <2> QED
    BY <2>1, <2>2
<1>4. Tried(a) \subseteq Problem
  BY DEF Tried
<1> HIDE DEF L
<1>5. {p \in Tried(a) : subs[Max(L(p))].st = "passed"}
          = {p \in Problem : \E i \in L(p) : subs[i].st = "passed" /\ \A k \in L(p) : k <= i}
  BY <1>3, <1>4
<1> QED
  BY <1>1, <1>2, <1>5

\* An end of the attempt that comes to be known, at or after the last submission, changes
\* nothing in what is selected.
LEMMA SameSelection ==
    ASSUME LegacyIInv, subs' = subs, NEW a \in DOMAIN tries,
           tries'[a].opened = tries[a].opened,
           \/ tries'[a].closed = tries[a].closed
           \/ tries[a].closed = MaxSubs /\ tries'[a].closed = Len(subs)
    PROVE  \A mark, points : UpToDate(mark, points, a) => UpToDate(mark, points, a)'
<1>1. \A p : Linked(a, p)' = Linked(a, p)
  BY DEF Linked
<1>2. \A p : Within(a, p)' = Within(a, p)
  <2>1. \A i \in DOMAIN subs : i \in Nat /\ i <= Len(subs) /\ i <= MaxSubs
    BY LegacyTypes, LegacyConstants
  <2>2. \A i \in DOMAIN subs : i <= tries'[a].closed <=> i <= tries[a].closed
    BY <2>1
  <2> QED
    BY <2>2 DEF Within
<1>3. selectedByProblem(a)' = selectedByProblem(a)
  BY <1>1, <1>2 DEF selectedByProblem, LatestOf
<1>4. Points(selectedByProblem(a))' = Points(selectedByProblem(a)) /\ Progress' = Progress
  BY <1>3 DEF Points, Progress
<1> QED
  BY <1>4 DEF UpToDate

LEMMA NothingPicked == <<>> \in Pick
<1>1. <<>> \in [{} -> 1..MaxSubs]
  OBVIOUS
<1> QED
  BY <1>1 DEF Pick

LEMMA NoVisitTyped == NoVisit \in VisitType /\ NoVisit.pc = "idle" /\ VisitFits(NoVisit)
BY NothingPicked, LegacyConstants DEF VisitType, VisitPc, NoVisit, VisitFits

LEMMA LegacyInitHolds == LegacyInit => LegacyIInv
<1> SUFFICES ASSUME LegacyInit PROVE LegacyIInv
  OBVIOUS
<1>1. /\ tries \in Seq(TryType) /\ Len(tries) <= MaxRows
      /\ subs \in Seq(SubType) /\ Len(subs) <= MaxSubs /\ ending \in 0..MaxRows
  BY LegacyConstants DEF LegacyInit
<1>2. visit \in [Visit -> VisitType]
  BY NoVisitTyped DEF LegacyInit
<1>3. LegacyTypeOK
  BY <1>1, <1>2 DEF LegacyTypeOK, VisitType, VisitPc, Pick
<1> QED
  BY <1>3, NoVisitTyped DEF LegacyInit, LegacyIInv

LEMMA LegacyTyped ==
    ASSUME tries \in Seq(TryType), Len(tries) <= MaxRows, subs \in Seq(SubType),
           Len(subs) <= MaxSubs, visit \in [Visit -> VisitType], ending \in 0..MaxRows
    PROVE  LegacyTypeOK
BY DEF LegacyTypeOK, VisitType, VisitPc, Pick

\* What a request relies on outlasts what leaves the submissions alone and what is up to date.
LEMMA VisitFitsOn ==
    ASSUME subs' = subs, DOMAIN tries \subseteq DOMAIN tries', NEW c, VisitFits(c),
           \A a \in DOMAIN tries : 
               \A mark, points : UpToDate(mark, points, a) => UpToDate(mark, points, a)'
    PROVE  VisitFits(c)'
<1>1. Points(c.pick)' = Points(c.pick)
  BY DEF Points
<1>2. c.pc \in {"results", "finish"} => c.a \in DOMAIN tries
  BY DEF VisitFits
<1>3. c.pc = "results" => UpToDate(c.seen, Points(c.pick), c.a)'
  <2>1. CASE c.pc = "results"
    <3>1. UpToDate(c.seen, Points(c.pick), c.a)
      BY <2>1 DEF VisitFits
    <3> DEFINE n == Points(c.pick)
    <3>2. \A points : UpToDate(c.seen, points, c.a) => UpToDate(c.seen, points, c.a)'
      BY <1>2, <2>1
    <3> QED
      BY <1>1, <3>1, <3>2
  <2> QED
    BY <2>1
<1>4. c.pc = "finish" => UpToDate(c.seen, c.n, c.a)'
  BY <1>2 DEF VisitFits
<1> QED
  BY <1>3, <1>4 DEF VisitFits

LEMMA TryFitsOn ==
    ASSUME NEW a \in DOMAIN tries, tries'[a] = tries[a], TryFits(a),
           \A mark, points : UpToDate(mark, points, a) => UpToDate(mark, points, a)'
    PROVE  TryFits(a)'
<1>1. tries[a].score # 0 => UpToDate(tries[a].seen, tries[a].score - 1, a)'
  BY DEF TryFits
<1> QED
  BY <1>1 DEF TryFits

LEMMA VisitsFitOn ==
    ASSUME LegacyIInv, subs' = subs, DOMAIN tries \subseteq DOMAIN tries', NEW c, VisitFits(c),
           \A u \in Visit : visit'[u] = visit[u] \/ visit'[u] = c,
           \A a \in DOMAIN tries : 
               \A mark, points : UpToDate(mark, points, a) => UpToDate(mark, points, a)'
    PROVE  \A u \in Visit : VisitFits(visit[u])'
<1> SUFFICES ASSUME NEW u \in Visit PROVE VisitFits(visit[u])'
  OBVIOUS
<1>1. VisitFits(visit[u])
  BY DEF LegacyIInv
<1>2. PICK d : d = visit'[u]
  OBVIOUS
<1>3. VisitFits(d)
  BY <1>1, <1>2
<1>4. VisitFits(d)'
  BY <1>3, VisitFitsOn
<1> QED
  BY <1>2, <1>4

\* Steps that only move a request.
LEMMA VisitGoes ==
    ASSUME LegacyIInv, NEW t \in Visit, NEW c \in VisitType, VisitFits(c),
           Turns(t, c), UNCHANGED <<tries, subs, ending>>
    PROVE  LegacyIInv' /\ AnswersKept
<1>1. visit' \in [Visit -> VisitType] /\ \A u \in Visit : visit'[u] = visit[u] \/ visit'[u] = c
  BY LegacyTypes DEF Turns
<1>2. LegacyTypeOK'
  <2>1. /\ tries' \in Seq(TryType) /\ Len(tries') <= MaxRows
        /\ subs' \in Seq(SubType) /\ Len(subs') <= MaxSubs /\ ending' \in 0..MaxRows
    BY LegacyTypes, LegacyConstants
  <2> QED
    BY <1>1, <2>1 DEF LegacyTypeOK, VisitType, VisitPc, Pick
<1>3. \A a \in DOMAIN tries : 
          \A mark, points : UpToDate(mark, points, a) => UpToDate(mark, points, a)'
  BY SameSelection
<1>4. \A u \in Visit : VisitFits(visit[u])'
  BY <1>1, <1>3, VisitsFitOn
<1>5. \A a \in DOMAIN tries : TryFits(a)'
  BY <1>3, TryFitsOn DEF LegacyIInv
<1> QED
  BY <1>2, <1>4, <1>5 DEF LegacyIInv, AnswersKept

\* A request that moves on without having read the submissions, or that leaves.
LEMMA PlainVisit ==
    ASSUME NEW c \in VisitType,
           c.pc \in {"idle", "expire", "completed", "insert", "reset", "join"}
    PROVE  VisitFits(c)
BY DEF VisitFits

LEMMA VisitMoves ==
    ASSUME LegacyIInv, NEW t \in Visit,
           \/ SessionReads(t) \/ SessionLooks(t) \/ JoinReads(t) \/ ScoreSelects(t)
           \/ ScoreCounts(t) \/ VisitStops(t) \/ (\E a \in DOMAIN tries : SubmitReads(t, a))
           \/ (\E a \in DOMAIN tries, s \in 1..MaxStamp : SyncReads(t, a, s))
           \/ (\E p \in Problem, a \in {0} \cup DOMAIN tries : ProgramChecked(t, p, a))
    PROVE  LegacyIInv' /\ AnswersKept
<1>1. UNCHANGED <<tries, subs, ending>>
  BY DEF SessionReads, SessionLooks, JoinReads, ScoreSelects, ScoreCounts, VisitStops,
         SubmitReads, SyncReads, ProgramChecked
<1>2. \E c \in VisitType : VisitFits(c) /\ Turns(t, c)
  <2>0. visit[t] \in VisitType /\ DOMAIN tries \subseteq 0..MaxRows /\ VisitFits(visit[t])
    BY LegacyTypes, LegacyConstants DEF LegacyIInv
  <2> USE NoVisitTyped
  <2>1. ASSUME NEW pc \in {"completed", "insert", "join"}, Turns(t, [NoVisit EXCEPT !.pc = pc])
        PROVE  \E c \in VisitType : VisitFits(c) /\ Turns(t, c)
    <3>1. [NoVisit EXCEPT !.pc = pc] \in VisitType /\ [NoVisit EXCEPT !.pc = pc].pc = pc
      BY DEF VisitType, VisitPc
    <3> QED
      BY <2>1, <3>1, PlainVisit
  <2>2. ASSUME NEW a \in DOMAIN tries, Turns(t, [NoVisit EXCEPT !.pc = "expire", !.a = a])
        PROVE  \E c \in VisitType : VisitFits(c) /\ Turns(t, c)
    <3> DEFINE c == [NoVisit EXCEPT !.pc = "expire", !.a = a]
    <3>1. c \in VisitType /\ c.pc = "expire"
      BY <2>0 DEF VisitType, VisitPc
    <3> QED
      BY <2>2, <3>1, PlainVisit
  <2>3. CASE SessionReads(t) \/ SessionLooks(t) \/ JoinReads(t) \/ VisitStops(t)
    BY <2>1, <2>2, <2>3 DEF SessionReads, SessionLooks, JoinReads, VisitStops, Leaves
  <2>4. CASE ScoreSelects(t)
    <3> DEFINE c == [visit[t] EXCEPT !.pc = "results", !.seen = Progress,
                                     !.pick = selectedByProblem(visit[t].a)]
    <3>1. c \in VisitType
      BY <2>0, SelectedArePicks, ProgressIsNat DEF VisitType, VisitPc
    <3>2. c.pc = "results" /\ c.a = visit[t].a /\ c.seen = Progress
          /\ c.pick = selectedByProblem(visit[t].a)
      BY <2>0 DEF VisitType
    <3>3. visit[t].a \in DOMAIN tries
      BY <2>0, <2>4 DEF ScoreSelects, VisitFits
    <3> HIDE DEF c
    <3>4. VisitFits(c)
      BY <3>2, <3>3, ProgressIsNat DEF VisitFits, UpToDate
    <3> QED
      BY <2>4, <3>1, <3>4 DEF ScoreSelects, c
  <2>5. CASE ScoreCounts(t)
    <3> DEFINE n == Points(visit[t].pick)
               c == [visit[t] EXCEPT !.pc = "finish", !.n = n, !.pick = <<>>]
    <3>1. n \in 0..Cardinality(Problem)
      <4>1. DOMAIN visit[t].pick \subseteq Problem
        BY <2>0 DEF VisitType, Pick
      <4> QED
        BY <4>1, PointsAreFew
    <3>2. UpToDate(visit[t].seen, n, visit[t].a) /\ visit[t].a \in DOMAIN tries
      BY <2>0, <2>5 DEF ScoreCounts, VisitFits
    <3> HIDE DEF n
    <3>3. c \in VisitType
      <4>1. n \in 0..(MaxStamp + Cardinality(Problem))
        BY <3>1, LegacyConstants
      <4> QED
        BY <2>0, <4>1, NothingPicked DEF VisitType, VisitPc
    <3>4. c.pc = "finish" /\ c.a = visit[t].a /\ c.seen = visit[t].seen /\ c.n = n
      BY <2>0 DEF VisitType
    <3> HIDE DEF c
    <3>5. VisitFits(c)
      BY <3>1, <3>2, <3>4, LegacyConstants DEF VisitFits
    <3> QED
      BY <2>5, <3>3, <3>5 DEF ScoreCounts, c, n
  <2>6. ASSUME NEW a \in DOMAIN tries, SubmitReads(t, a)
        PROVE  \E c \in VisitType : VisitFits(c) /\ Turns(t, c)
    <3> DEFINE c == [NoVisit EXCEPT !.pc = "score", !.a = a]
    <3>1. c \in VisitType /\ c.pc = "score" /\ c.a = a
      BY <2>0 DEF VisitType, VisitPc
    <3>2. VisitFits(c)
      BY <3>1 DEF VisitFits
    <3> QED
      BY <2>6, <3>1, <3>2 DEF SubmitReads
  <2>7. ASSUME NEW a \in DOMAIN tries, NEW s \in 1..MaxStamp, SyncReads(t, a, s)
        PROVE  \E c \in VisitType : VisitFits(c) /\ Turns(t, c)
    <3> DEFINE n == IF s >= tries[a].answers THEN s ELSE tries[a].answers
               c == [NoVisit EXCEPT !.pc = "sync", !.a = a, !.n = n]
    <3>1. n \in 0..MaxStamp
      BY LegacyTypes, LegacyConstants DEF TryType
    <3> HIDE DEF n
    <3>2. n \in 0..(MaxStamp + Cardinality(Problem)) /\ n <= MaxStamp
      BY <3>1, LegacyConstants
    <3>3. c \in VisitType /\ c.pc = "sync" /\ c.n = n
      BY <2>0, <3>2 DEF VisitType, VisitPc
    <3>4. VisitFits(c)
      BY <3>2, <3>3 DEF VisitFits
    <3> QED
      BY <2>7, <3>3, <3>4 DEF SyncReads, n
  <2>8. ASSUME NEW p \in Problem, NEW a \in {0} \cup DOMAIN tries, ProgramChecked(t, p, a)
        PROVE  \E c \in VisitType : VisitFits(c) /\ Turns(t, c)
    <3> DEFINE c == [NoVisit EXCEPT !.pc = "program", !.a = a, !.p = p]
    <3>1. a \in 0..MaxRows /\ p \in Problem \cup {NoProblem}
      BY <2>0, LegacyConstants
    <3>2. c \in VisitType /\ c.pc = "program" /\ c.p = p
      BY <3>1 DEF VisitType, VisitPc
    <3>3. VisitFits(c)
      BY <3>2 DEF VisitFits
    <3> QED
      BY <2>8, <3>2, <3>3 DEF ProgramChecked
  <2> QED
    BY <2>3, <2>4, <2>5, <2>6, <2>7, <2>8
<1> QED
  BY SMTT(30), <1>1, <1>2, VisitGoes

\* Changes of one attempt: of its answers only if it is in progress or being reset, of its end
\* only to where the submissions are, and of its score to what is up to date.  A step that
\* changes no attempt is the case of a = 0, which is the number of none.
LEMMA TryChanges ==
    ASSUME LegacyIInv, NEW a, NEW r,
           tries' = [tries EXCEPT ![a] = r], subs' = subs, ending' \in 0..MaxRows,
           a \in DOMAIN tries =>
               /\ r \in TryType /\ r.opened = tries[a].opened
               /\ \/ r.closed = tries[a].closed
                  \/ tries[a].closed = MaxSubs /\ r.closed = Len(subs)
               /\ ~r.over => r.closed = MaxSubs
               /\ r.score # 0 => UpToDate(r.seen, r.score - 1, a)
               /\ Finished(a) /\ r.answers # tries[a].answers =>
                    \E t \in Visit : visit[t].pc = "reset" /\ visit[t].a = a,
           visit' \in [Visit -> VisitType],
           \A t \in Visit : visit'[t] = visit[t] \/ visit'[t] = NoVisit
    PROVE  LegacyIInv' /\ AnswersKept
<1>1. tries' \in Seq(TryType) /\ Len(tries') = Len(tries) /\ DOMAIN tries' = DOMAIN tries
  <2> DEFINE n == Len(tries)
  <2>1. DOMAIN tries = 1..n /\ n \in Nat /\ \A b \in 1..n : tries[b] \in TryType
    BY LegacyTypes
  <2>2. tries' = [b \in 1..n |-> IF b = a THEN r ELSE tries[b]]
    BY <2>1, LegacyTypes
  <2>3. \A b \in 1..n : (IF b = a THEN r ELSE tries[b]) \in TryType
    BY <2>1
  <2> HIDE DEF n
  <2>4. [b \in 1..n |-> IF b = a THEN r ELSE tries[b]] \in Seq(TryType)
    BY <2>1, <2>3
  <2>5. tries' \in Seq(TryType) /\ DOMAIN tries' = 1..n
    BY <2>2, <2>4
  <2>6. Len(tries') = n
    BY <2>1, <2>5, LenProperties
  <2> QED
    BY <2>1, <2>5, <2>6 DEF n
<1>2. \A b \in DOMAIN tries : tries'[b] = IF b = a THEN r ELSE tries[b]
  BY LegacyTypes
<1>3. \A b \in DOMAIN tries : 
          \A mark, points : UpToDate(mark, points, b) => UpToDate(mark, points, b)'
  <2>1. \A b \in DOMAIN tries :
           /\ tries'[b].opened = tries[b].opened
           /\ \/ tries'[b].closed = tries[b].closed
              \/ tries[b].closed = MaxSubs /\ tries'[b].closed = Len(subs)
    BY <1>2
  <2> QED
    BY <2>1, SameSelection
<1>4. LegacyTypeOK'
  BY SMTT(30), <1>1, LegacyTypes DEF LegacyTypeOK, VisitType, VisitPc, Pick
<1>5. \A t \in Visit : VisitFits(visit[t])'
  BY <1>1, <1>3, VisitsFitOn, NoVisitTyped
<1>6. ASSUME NEW b \in DOMAIN tries PROVE TryFits(b)'
  <2>1. CASE b = a
    <3>1. tries'[b] = r
      BY <1>2, <2>1
    <3>2. r.score # 0 => UpToDate(r.seen, r.score - 1, b)'
      BY <1>3, <2>1
    <3> QED
      BY <2>1, <3>1, <3>2 DEF TryFits
  <2>2. CASE b # a
    BY <1>2, <1>3, <2>2, TryFitsOn DEF LegacyIInv
  <2> QED
    BY <2>1, <2>2
<1>7. AnswersKept
  BY <1>2 DEF AnswersKept
<1> QED
  BY <1>1, <1>4, <1>5, <1>6, <1>7 DEF LegacyIInv

\* Steps that write an attempt.
LEMMA TryWrites ==
    ASSUME LegacyIInv, NEW t \in Visit,
           \/ SessionExpires(t) \/ SessionResets(t) \/ SyncWrites(t) \/ SubmitWrites(t)
    PROVE  LegacyIInv' /\ AnswersKept
<1>1. /\ visit' \in [Visit -> VisitType] /\ subs' = subs /\ ending' \in 0..MaxRows
      /\ \A u \in Visit : visit'[u] = visit[u] \/ visit'[u] = NoVisit
  BY NoVisitTyped, LegacyTypes
     DEF SessionExpires, SessionResets, SyncWrites, SubmitWrites, Leaves, Turns
<1>2. visit[t] \in VisitType /\ VisitFits(visit[t])
  BY LegacyTypes DEF LegacyIInv
<1> DEFINE a == visit[t].a
           Old == tries[a]
<1>3. a \in DOMAIN tries => Old \in TryType /\ TryFits(a)
  BY LegacyTypes DEF LegacyIInv
<1>4. CASE SessionExpires(t)
  <2> DEFINE r == [Old EXCEPT !.st = "EXPIRED"]
  <2>1. tries' = [tries EXCEPT ![a] = r]
    BY <1>4 DEF SessionExpires
  <2>2. a \in DOMAIN tries =>
           /\ r \in TryType /\ r.answers = Old.answers /\ r.opened = Old.opened
           /\ r.closed = Old.closed /\ r.over = Old.over /\ r.score = Old.score /\ r.seen = Old.seen
    BY <1>3 DEF TryType
  <2> HIDE DEF r, a
  <2> QED
    BY <1>1, <1>3, <2>1, <2>2, TryChanges DEF TryFits
<1>5. CASE SessionResets(t)
  <2> DEFINE r == [Old EXCEPT !.answers = 0, !.st = "IN_PROGRESS"]
  <2>1. tries' = [tries EXCEPT ![a] = r] /\ visit[t].pc = "reset"
    BY <1>5 DEF SessionResets
  <2>2. a \in DOMAIN tries =>
           /\ r \in TryType /\ r.opened = Old.opened
           /\ r.closed = Old.closed /\ r.over = Old.over /\ r.score = Old.score /\ r.seen = Old.seen
    <3>1. 0 \in 0..MaxStamp
      BY LegacyConstants
    <3> QED
      BY <1>3, <3>1 DEF TryType
  <2>3. visit[t].a = a
    OBVIOUS
  <2> HIDE DEF r, a
  <2> QED
    BY ZenonT(60), <1>1, <1>3, <2>1, <2>2, <2>3, TryChanges DEF TryFits
<1>6. CASE SyncWrites(t)
  <2> DEFINE r == IF Finished(a) \/ Old.expired THEN Old
                  ELSE [Old EXCEPT !.answers = visit[t].n]
  <2>1. tries' = [tries EXCEPT ![a] = r] /\ visit[t].n \in 0..MaxStamp
    <3>1. tries = [tries EXCEPT ![a] = Old]
      BY LegacyTypes
    <3>2. visit[t].n \in 0..MaxStamp
      BY <1>2, <1>6, LegacyConstants DEF SyncWrites, VisitFits, VisitType
    <3> QED
      BY <1>6, <3>1, <3>2 DEF SyncWrites
  <2>2. a \in DOMAIN tries =>
           /\ r \in TryType /\ r.opened = Old.opened
           /\ r.closed = Old.closed /\ r.over = Old.over /\ r.score = Old.score /\ r.seen = Old.seen
           /\ Finished(a) => r.answers = Old.answers
    BY <1>3, <2>1 DEF TryType
  <2> HIDE DEF r, a
  <2> QED
    BY <1>1, <1>3, <2>1, <2>2, TryChanges DEF TryFits
<1>7. CASE SubmitWrites(t)
  <2> DEFINE n == visit[t].n
             r == [Old EXCEPT !.st = "SUBMITTED", !.expired = TRUE,
                              !.score = n + 1, !.seen = visit[t].seen]
  <2>1. tries' = [tries EXCEPT ![a] = r] /\ visit[t].pc = "finish"
    BY <1>7 DEF SubmitWrites
  <2>2. /\ n \in 0..Cardinality(Problem) /\ visit[t].seen \in 0..(2 * MaxSubs)
        /\ UpToDate(visit[t].seen, n, a) /\ a \in DOMAIN tries
    BY <1>2, <2>1, LegacyConstants DEF VisitFits, VisitType
  <2> HIDE DEF n
  <2>3. n + 1 \in 0..(Cardinality(Problem) + 1) /\ (n + 1) - 1 = n
    BY <2>2, LegacyConstants
  <2>4. /\ r \in TryType /\ r.answers = Old.answers /\ r.opened = Old.opened
        /\ r.closed = Old.closed /\ r.over = Old.over /\ r.score = n + 1 /\ r.seen = visit[t].seen
    BY <1>3, <2>2, <2>3 DEF TryType
  <2>5. r.score # 0 => UpToDate(r.seen, r.score - 1, a)
    BY <2>2, <2>3, <2>4
  <2> HIDE DEF r, a
  <2> QED
    BY <1>1, <1>3, <2>1, <2>2, <2>4, <2>5, TryChanges DEF TryFits
<1> QED
  BY <1>4, <1>5, <1>6, <1>7

\* Attempts that are added leave the others alone.
LEMMA TryAdded ==
    ASSUME LegacyIInv, NEW t \in Visit, SessionInserts(t) \/ JoinInserts(t)
    PROVE  LegacyIInv' /\ AnswersKept
<1> DEFINE c == IF SessionInserts(t) THEN [NoVisit EXCEPT !.pc = "reset", !.a = Len(tries) + 1]
                ELSE NoVisit
<1>1. /\ tries' = Append(tries, NewTry) /\ Len(tries) < MaxRows /\ subs' = subs /\ ending' = ending
      /\ Turns(t, c)
  BY DEF SessionInserts, JoinInserts, Leaves
<1>2. c \in VisitType /\ c.pc \in {"idle", "reset"}
  <2>1. Len(tries) + 1 \in 0..MaxRows
    BY <1>1, LegacyTypes, LegacyConstants
  <2> QED
    BY <2>1, NoVisitTyped DEF VisitType, VisitPc
<1> HIDE DEF c
<1>3. NewTry \in TryType /\ ~NewTry.over /\ NewTry.closed = MaxSubs /\ NewTry.score = 0
  BY LegacyTypes, LegacyConstants DEF NewTry, TryType
<1>4. /\ tries' \in Seq(TryType) /\ Len(tries') = Len(tries) + 1 /\ tries'[Len(tries) + 1] = NewTry
      /\ DOMAIN tries' = DOMAIN tries \cup {Len(tries) + 1}
      /\ \A a \in DOMAIN tries : tries'[a] = tries[a]
  BY <1>1, <1>3, LegacyTypes
<1>5. visit' \in [Visit -> VisitType] /\ \A u \in Visit : visit'[u] = visit[u] \/ visit'[u] = c
  BY <1>1, <1>2, LegacyTypes DEF Turns
<1>6. LegacyTypeOK'
  <2>1. Len(tries') <= MaxRows
    BY <1>1, <1>4, LegacyTypes, LegacyConstants
  <2> QED
    BY SMTT(30), <1>1, <1>4, <1>5, <2>1, LegacyTypes DEF LegacyTypeOK, VisitType, VisitPc, Pick
<1>7. \A a \in DOMAIN tries : 
          \A mark, points : UpToDate(mark, points, a) => UpToDate(mark, points, a)'
  BY <1>1, <1>4, SameSelection
<1>8. \A u \in Visit : VisitFits(visit[u])'
  BY <1>1, <1>2, <1>4, <1>5, <1>7, PlainVisit, VisitsFitOn
<1>9. \A a \in DOMAIN tries : TryFits(a)'
  BY <1>4, <1>7, TryFitsOn DEF LegacyIInv
<1>10. ASSUME NEW b, b = Len(tries) + 1 PROVE TryFits(b)'
  <2>1. ~tries'[b].over /\ tries'[b].closed = MaxSubs /\ tries'[b].score = 0
    BY <1>3, <1>4, <1>10
  <2> QED
    BY <2>1 DEF TryFits
<1>11. \A a \in DOMAIN tries' : TryFits(a)'
  BY <1>4, <1>9, <1>10
<1> QED
  BY <1>4, <1>6, <1>8, <1>11 DEF LegacyIInv, AnswersKept

\* A program submitted or judged makes every score there is out of date.
LEMMA SubmissionsMove ==
    ASSUME LegacyIInv, Progress' = Progress + 1, tries' = tries, ending' = ending,
           subs' \in Seq(SubType), Len(subs') <= MaxSubs, visit' \in [Visit -> VisitType],
           \A t \in Visit : visit'[t] = visit[t] \/ visit'[t] = NoVisit
    PROVE  LegacyIInv' /\ AnswersKept
<1>1. LegacyTypeOK'
  BY LegacyTypes DEF LegacyTypeOK, VisitType, VisitPc, Pick
<1>2. ASSUME NEW mark \in Nat, NEW more, NEW a, mark <= Progress PROVE UpToDate(mark, more, a)'
  <2>1. mark < Progress'
    BY <1>2, ProgressIsNat
  <2>2. Progress' \in Nat
    BY ProgressIsNat
  <2>3. mark <= Progress' /\ mark # Progress'
    BY <2>1, <2>2
  <2> QED
    BY <2>3 DEF UpToDate
<1>3. ASSUME NEW c \in VisitType, VisitFits(c) PROVE VisitFits(c)'
  <2>1. c.seen \in Nat
    BY LegacyConstants DEF VisitType
  <2>2. c.pc \in {"results", "finish"} => c.seen <= Progress
    BY <1>3 DEF VisitFits, UpToDate
  <2>3. ASSUME c.pc = "results" PROVE UpToDate(c.seen, Points(c.pick), c.a)'
    <3>1. PICK more : more = Points(c.pick)'
      OBVIOUS
    <3>2. UpToDate(c.seen, more, c.a)'
      BY <1>2, <2>1, <2>2, <2>3
    <3> QED
      BY <3>1, <3>2
  <2> QED
    BY <1>2, <1>3, <2>1, <2>2, <2>3 DEF VisitFits
<1>4. ASSUME NEW t \in Visit PROVE VisitFits(visit[t])'
  <2>1. PICK c : c = visit'[t]
    OBVIOUS
  <2>2. c \in VisitType /\ VisitFits(c)
    BY <2>1, NoVisitTyped, LegacyTypes DEF LegacyIInv
  <2> QED
    BY <1>3, <2>1, <2>2
<1>5. ASSUME NEW a \in DOMAIN tries PROVE TryFits(a)'
  <2>1. tries[a].seen \in Nat
    BY LegacyTypes, LegacyConstants DEF TryType
  <2>2. tries[a].score # 0 => tries[a].seen <= Progress
    BY DEF LegacyIInv, TryFits, UpToDate
  <2>3. tries[a].score # 0 => UpToDate(tries[a].seen, tries[a].score - 1, a)'
    BY <1>2, <2>1, <2>2
  <2> QED
    BY <2>3 DEF LegacyIInv, TryFits
<1> QED
  BY <1>1, <1>4, <1>5 DEF LegacyIInv, AnswersKept

LEMMA ProgramStep ==
    ASSUME LegacyIInv, NEW t \in Visit, ProgramInserted(t)
    PROVE  LegacyIInv' /\ AnswersKept
<1> DEFINE r == [problem |-> visit[t].p, link |-> visit[t].a, st |-> "pending"]
           n == Len(subs)
<1>1. /\ subs' = Append(subs, r) /\ tries' = tries /\ ending' = ending /\ n < MaxSubs
      /\ visit[t].pc = "program"
  BY DEF ProgramInserted
<1>2. visit[t] \in VisitType /\ visit[t].p \in Problem
  BY <1>1, LegacyTypes DEF LegacyIInv, VisitFits
<1>3. r \in SubType /\ r.st = "pending"
  BY <1>2 DEF SubType, VisitType
<1> HIDE DEF r, n
<1>4. /\ subs' \in Seq(SubType) /\ Len(subs') = n + 1 /\ subs'[n + 1] = r
      /\ DOMAIN subs' = DOMAIN subs \cup {n + 1}
      /\ \A i \in DOMAIN subs : subs'[i] = subs[i]
  BY <1>1, <1>3, LegacyTypes DEF n
<1>5. {i \in DOMAIN subs' : subs'[i].st # "pending"} = {i \in DOMAIN subs : subs[i].st # "pending"}
  BY <1>3, <1>4
<1>6. Progress' = Progress + 1
  <2> DEFINE judged == Cardinality({i \in DOMAIN subs : subs[i].st # "pending"})
  <2>1. Progress' = (n + 1) + judged /\ Progress = n + judged
    BY <1>4, <1>5 DEF Progress, n
  <2>2. n \in Nat /\ judged \in Nat
    BY LegacyTypes, LegacyConstants, ProgressIsNat, FS_CardinalityType DEF n
  <2> HIDE DEF judged
  <2> QED
    BY <2>1, <2>2
<1>7. Len(subs') <= MaxSubs
  BY <1>1, <1>4, LegacyTypes, LegacyConstants DEF n
<1>8. /\ visit' \in [Visit -> VisitType]
      /\ \A u \in Visit : visit'[u] = visit[u] \/ visit'[u] = NoVisit
  BY NoVisitTyped, LegacyTypes DEF ProgramInserted, Leaves, Turns
<1> QED
  BY <1>1, <1>4, <1>6, <1>7, <1>8, SubmissionsMove

LEMMA JudgedStep ==
    ASSUME LegacyIInv, NEW i \in DOMAIN subs, ProgramJudged(i)
    PROVE  LegacyIInv' /\ AnswersKept
<1>1. PICK st \in {"passed", "failed"} : subs' = [subs EXCEPT ![i].st = st]
  BY DEF ProgramJudged
<1> DEFINE r == [subs[i] EXCEPT !.st = st]
           n == Len(subs)
           Graded == {k \in DOMAIN subs : subs[k].st # "pending"}
<1>2. n \in Nat /\ n <= MaxSubs /\ DOMAIN subs = 1..n /\ \A k \in 1..n : subs[k] \in SubType
  BY LegacyTypes, LegacyConstants
<1>3. r \in SubType /\ r.st = st /\ subs[i].st = "pending"
  BY <1>2 DEF SubType, ProgramJudged
<1>4. subs' = [k \in 1..n |-> IF k = i THEN r ELSE subs[k]]
  BY <1>1, <1>2, LegacyTypes
<1>5. subs' \in Seq(SubType) /\ DOMAIN subs' = 1..n
  <2>1. \A k \in 1..n : (IF k = i THEN r ELSE subs[k]) \in SubType
    BY <1>2, <1>3
  <2> HIDE DEF r, n
  <2> QED
    BY <1>2, <1>4, <2>1
<1>6. Len(subs') = n
  BY <1>2, <1>5, LenProperties
<1>7. {k \in DOMAIN subs' : subs'[k].st # "pending"} = Graded \cup {i}
  <2>1. subs'[i] = r /\ \A k \in 1..n : k # i => subs'[k] = subs[k]
    BY <1>2, <1>4
  <2> HIDE DEF r, n
  <2> QED
    BY <1>2, <1>3, <1>5, <2>1
<1>8. IsFiniteSet(Graded) /\ Cardinality(Graded) \in Nat /\ i \notin Graded
  BY <1>3, ProgressIsNat, FS_CardinalityType
<1>9. Progress' = Progress + 1
  <2> HIDE DEF Graded, n
  <2>1. Cardinality(Graded \cup {i}) = Cardinality(Graded) + 1
    BY <1>8, FS_AddElement
  <2>2. Progress' = n + Cardinality(Graded \cup {i})
    BY <1>6, <1>7 DEF Progress
  <2>3. Progress = n + Cardinality(Graded)
    BY DEF Progress, n, Graded
  <2> QED
    BY <1>2, <1>8, <2>1, <2>2, <2>3
<1>10. tries' = tries /\ visit' = visit /\ ending' = ending
  BY DEF ProgramJudged
<1> QED
  BY <1>2, <1>5, <1>6, <1>9, <1>10, LegacyTypes, SubmissionsMove

\* Time and the timer.
LEMMA TimeStep ==
    ASSUME LegacyIInv,
           TimerWrites \/ (\E a \in DOMAIN tries : TimeIsOver(a) \/ TimerReads(a))
    PROVE  LegacyIInv' /\ AnswersKept
<1>0. /\ \A a \in DOMAIN tries : tries[a] \in TryType /\ TryFits(a) /\ a \in 0..MaxRows
      /\ 0 \in 0..MaxRows
  BY LegacyTypes, LegacyConstants DEF LegacyIInv
<1>1. ASSUME NEW a \in DOMAIN tries, TimeIsOver(a) PROVE LegacyIInv' /\ AnswersKept
  <2> DEFINE r == [tries[a] EXCEPT !.over = TRUE, !.expired = TRUE, !.closed = Len(subs)]
  <2>1. /\ tries' = [tries EXCEPT ![a] = r] /\ subs' = subs /\ visit' = visit /\ ending' = ending
        /\ ~tries[a].over
    BY <1>1 DEF TimeIsOver
  <2>2. tries[a].closed = MaxSubs /\ tries[a] \in TryType /\ Len(subs) \in 0..MaxSubs
    BY <1>0, <2>1, LegacyTypes DEF TryFits
  <2>3. /\ r \in TryType /\ r.answers = tries[a].answers /\ r.opened = tries[a].opened
        /\ r.closed = Len(subs) /\ r.over /\ r.score = tries[a].score /\ r.seen = tries[a].seen
    BY <2>2 DEF TryType
  <2> HIDE DEF r
  <2> QED
    BY <1>0, <2>1, <2>2, <2>3, LegacyTypes, TryChanges DEF TryFits
<1>2. CASE TimerWrites
  <2> DEFINE r == [tries[ending] EXCEPT !.st = "EXPIRED"]
  <2>1. tries' = [tries EXCEPT ![ending] = r] /\ subs' = subs /\ visit' = visit /\ ending' = 0
    BY <1>2 DEF TimerWrites
  <2>2. ending \in DOMAIN tries =>
           /\ r \in TryType /\ r.answers = tries[ending].answers
           /\ r.opened = tries[ending].opened /\ r.closed = tries[ending].closed
           /\ r.over = tries[ending].over /\ r.score = tries[ending].score
           /\ r.seen = tries[ending].seen
    BY <1>0 DEF TryType
  <2> HIDE DEF r
  <2> QED
    BY <1>0, <2>1, <2>2, LegacyTypes, TryChanges DEF TryFits
<1>3. ASSUME NEW a \in DOMAIN tries, TimerReads(a) PROVE LegacyIInv' /\ AnswersKept
  <2>1. UNCHANGED <<tries, subs, visit>> /\ ending' \in 0..MaxRows
    BY <1>0, <1>3 DEF TimerReads
  <2>2. tries' = [tries EXCEPT ![0] = NewTry] /\ 0 \notin DOMAIN tries
    BY <2>1, LegacyTypes
  <2> QED
    BY <2>1, <2>2, LegacyTypes, TryChanges
<1> QED
  BY <1>1, <1>2, <1>3

LEMMA LegacyStep ==
    LegacyIInv /\ [LegacyNext]_legacyVars => LegacyIInv' /\ [AnswersKept]_legacyVars
<1> SUFFICES ASSUME LegacyIInv, [LegacyNext]_legacyVars
             PROVE  LegacyIInv' /\ [AnswersKept]_legacyVars
  OBVIOUS
<1>1. CASE UNCHANGED legacyVars
  <2>1. UNCHANGED <<tries, subs, visit, ending>>
    BY <1>1 DEF legacyVars
  <2>2. tries' = [tries EXCEPT ![0] = NewTry] /\ 0 \notin DOMAIN tries
    BY <2>1, LegacyTypes
  <2> QED
    BY <2>1, <2>2, LegacyTypes, TryChanges
<1>2. CASE LegacyNext
  BY <1>2, VisitMoves, TryWrites, TryAdded, ProgramStep, JudgedStep, TimeStep DEF LegacyNext
<1> QED
  BY <1>1, <1>2

LEMMA LegacyInvariant == LegacySpec => []LegacyIInv
BY LegacyInitHolds, LegacyStep, PTL DEF LegacySpec

\* For any number of requests, problems, attempts and submissions: the types.
THEOREM LegacyAlwaysTyped == LegacySpec => []LegacyTypeOK
<1>1. LegacyIInv => LegacyTypeOK
  BY DEF LegacyIInv
<1> QED
  BY <1>1, LegacyInvariant, PTL

\* For any number of requests, problems, attempts and submissions: an attempt that has ended
\* keeps its answers (updateSyncState), but for the request that has yet to initialise them.
THEOREM EndedAlwaysKeepAnswers == LegacySpec => EndedKeepsAnswers
<1>1. LegacyIInv /\ [LegacyNext]_legacyVars => [AnswersKept]_legacyVars
  BY LegacyStep
<1>2. LegacySpec => [][AnswersKept]_legacyVars
  BY <1>1, LegacyInvariant, PTL DEF LegacySpec
<1> QED
  BY <1>2 DEF EndedKeepsAnswers, AnswersKept

\* For any number of requests, problems, attempts and submissions: what calculateExamScore has
\* stored is what getExamLeaderboard works out, until a program is submitted or judged.
THEOREM ScoresMatchBoard == LegacySpec => []ScoreMatchesBoard
<1>1. ASSUME LegacyIInv PROVE ScoreMatchesBoard
  <2> SUFFICES ASSUME NEW a \in DOMAIN tries, tries[a].score # 0, tries[a].seen = Progress
               PROVE  tries[a].score = getExamLeaderboard(a) + 1
    BY DEF ScoreMatchesBoard
  <2>1. tries[a].score - 1 = Points(selectedByProblem(a))
    BY <1>1 DEF LegacyIInv, TryFits, UpToDate
  <2>2. tries[a].score \in Nat
    BY <1>1, LegacyTypes, LegacyConstants DEF TryType
  <2> QED
    BY <1>1, <2>1, <2>2, ScoreIsBoard
<1> QED
  BY <1>1, LegacyInvariant, PTL

-----------------------------------------------------------------------------
(* The components together: a step of one leaves the others alone.             *)

ComponentsHold ==
    /\ SocketTyped /\ TelemetryIInv /\ AiJobsIInv
    /\ RoadmapIInv /\ BreakerTyped /\ SandboxIInv /\ LegacyIInv

LEMMA ComponentsInit == Init => ComponentsHold
BY SocketInitTyped, TelemetryInitHolds, AiJobsInitHolds, RoadmapInitHolds, BreakerInitTyped,
   SandboxInitHolds, LegacyInitHolds DEF Init, ComponentsHold

LEMMA ComponentsMove ==
    ASSUME [Next]_vars
    PROVE  /\ [SocketNext]_socketVars /\ [TelemetryNext]_telemetryVars /\ [AiJobsNext]_aiJobsVars
           /\ [RoadmapNext]_roadmapVars /\ [BreakerNext]_breakerVars
           /\ [SandboxNext]_sandboxVars /\ [LegacyNext]_legacyVars
<1>1. CASE Proctoring
  BY <1>1 DEF Proctoring, otherVars
<1>2. CASE Others
  BY <1>2 DEF Others, proctoringVars
<1>3. CASE UNCHANGED vars
  BY <1>3 DEF vars, proctoringVars, otherVars
<1> QED
  BY <1>1, <1>2, <1>3 DEF Next

LEMMA ComponentsStep == ComponentsHold /\ [Next]_vars => ComponentsHold'
BY ComponentsMove, SocketTypeStep, TelemetryStep, AiJobsStepHolds, RoadmapStep, BreakerTypeStep,
   SandboxStep, LegacyStep DEF ComponentsHold

\* Types of the components of MCServices, whichever of them a behaviour moves.
THEOREM ServicesTypes == Spec => []TypeOK
<1>1. Spec => []ComponentsHold
  BY ComponentsInit, ComponentsStep, PTL DEF Spec
<1>2. ComponentsHold => TypeOK
  BY SandboxTyped DEF ComponentsHold, TypeOK, SocketTyped, TelemetryIInv, AiJobsIInv,
                      RoadmapIInv, BreakerTyped, LegacyIInv
<1> QED
  BY <1>1, <1>2, PTL

=============================================================================
