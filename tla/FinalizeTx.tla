------------------------------ MODULE FinalizeTx ------------------------------
(***************************************************************************)
(* finalizeSubmissionResult as PostgreSQL runs it: concurrent READ         *)
(* COMMITTED transactions, one per worker run that has a verdict, taking   *)
(* the advisory lock of the (user, problem) pair, row locks on what they   *)
(* write, and showing their writes to the others only when they commit.    *)
(***************************************************************************)
EXTENDS Naturals, FiniteSets

CONSTANTS
    Submission, Key, KeyOf, Exam,
    Roadmap,     \* roadmap_progress rows: (user, roadmap) pairs
    RoadmapsOf,  \* the roadmaps of the user that list the problem of a pair
    Tx,          \* database sessions
    Free         \* no session

ASSUME TxAssumption ==
    /\ KeyOf \in [Submission -> Key]
    /\ Exam \subseteq Submission
    /\ RoadmapsOf \in [Key -> SUBSET Roadmap]
    /\ Free \notin Tx

VARIABLES
    verdict,   \* committed submissions.status
    awards,    \* committed points, in units of the problem's total
    completed, \* committed user_item_completions, by the pair they come from
    progress,  \* committed roadmap_progress rows
    tx,        \* the session's transaction
    pairLock,  \* holder of the advisory lock of a pair
    rowLock,   \* holder of the row lock of a submission
    progLock   \* holder of the row lock (or unique key) of a progress row

committed == <<verdict, awards, completed, progress>>
locks == <<pairLock, rowLock, progLock>>
vars == <<verdict, awards, completed, progress, tx, pairLock, rowLock, progLock>>

Verdict == {"accepted", "rejected", "system_error"}
Status == {"absent", "pending"} \cup Verdict

\* pts: hasSolvedBefore was false.  seen: the progress rows as the transaction read
\* them.  todo: roadmaps it still has to write.
NoRow == [exists |-> FALSE, items |-> {}]
ProgressRow == [exists : BOOLEAN, items : SUBSET Key]
TxType == [pc : {"idle", "lock", "check", "update", "load", "store", "commit"},
           sub : Submission, v : Verdict, pts : BOOLEAN,
           seen : [Roadmap -> ProgressRow], todo : SUBSET Roadmap]

TypeOK ==
    /\ verdict \in [Submission -> Status]
    /\ awards \in [Key -> Nat]
    /\ completed \in SUBSET Key
    /\ progress \in [Roadmap -> ProgressRow]
    /\ tx \in [Tx -> TxType]
    /\ pairLock \in [Key -> Tx \cup {Free}]
    /\ rowLock \in [Submission -> Tx \cup {Free}]
    /\ progLock \in [Roadmap -> Tx \cup {Free}]

\* Submissions are recorded by the API, before or while others are finalized.
Init ==
    /\ verdict = [s \in Submission |-> "absent"]
    /\ awards = [k \in Key |-> 0]
    /\ completed = {}
    /\ progress \in [Roadmap -> {NoRow, [exists |-> TRUE, items |-> {}]}]
    /\ \E s \in Submission :
           tx = [t \in Tx |-> [pc |-> "idle", sub |-> s, v |-> "rejected", pts |-> FALSE,
                               seen |-> progress, todo |-> {}]]
    /\ pairLock = [k \in Key |-> Free]
    /\ rowLock = [s \in Submission |-> Free]
    /\ progLock = [r \in Roadmap |-> Free]

PairOf(t) == KeyOf[tx[t].sub]

\* ACCEPTED and not in an exam: the branch that locks the pair and moves roadmaps.
Counts(t) == tx[t].v = "accepted" /\ tx[t].sub \notin Exam

\* hasUserSolvedProblem reads committed rows.
Solved(k) == \E s \in Submission \ Exam : KeyOf[s] = k /\ verdict[s] = "accepted"

Goto(t, pc) == tx' = [tx EXCEPT ![t].pc = pc]

\* The end of a transaction gives back every lock of the session.
Released(t, lock) == [x \in DOMAIN lock |-> IF lock[x] = t THEN Free ELSE lock[x]]
Release(t) ==
    /\ pairLock' = Released(t, pairLock)
    /\ rowLock' = Released(t, rowLock)
    /\ progLock' = Released(t, progLock)
    /\ Goto(t, "idle")

-----------------------------------------------------------------------------
Record(s) ==
    /\ verdict[s] = "absent"
    /\ verdict' = [verdict EXCEPT ![s] = "pending"]
    /\ UNCHANGED <<awards, completed, progress, tx, locks>>

\* findSubmissionById: a missing row ends the transaction at once.
Begin(t, s, v) ==
    /\ tx[t].pc = "idle"
    /\ verdict[s] # "absent"
    /\ tx' = [tx EXCEPT ![t] = [@ EXCEPT !.sub = s, !.v = v, !.pts = FALSE, !.todo = {},
                    !.pc = IF v = "accepted" /\ s \notin Exam THEN "lock" ELSE "update"]]
    /\ UNCHANGED <<committed, locks>>

\* Mutant: the advisory lock is shared.
LockPairShared(t) ==
    /\ tx[t].pc = "lock"
    /\ pairLock' = [pairLock EXCEPT ![PairOf(t)] = t]
    /\ Goto(t, "check")
    /\ UNCHANGED <<committed, rowLock, progLock>>

\* pg_advisory_xact_lock
LockPair(t) ==
    /\ tx[t].pc = "lock"
    /\ pairLock[PairOf(t)] = Free
    /\ pairLock' = [pairLock EXCEPT ![PairOf(t)] = t]
    /\ Goto(t, "check")
    /\ UNCHANGED <<committed, rowLock, progLock>>

CheckSolved(t) ==
    /\ tx[t].pc = "check"
    /\ tx' = [tx EXCEPT ![t].pc = "update", ![t].pts = ~Solved(PairOf(t))]
    /\ UNCHANGED <<committed, locks>>

\* updateSubmissionStatusIdempotent waits for the row and re-reads it: no matching
\* row means the transaction commits nothing and returns null.
UpdateRow(t) ==
    /\ tx[t].pc = "update"
    /\ rowLock[tx[t].sub] = Free
    /\ verdict[tx[t].sub] = "pending"
    /\ rowLock' = [rowLock EXCEPT ![tx[t].sub] = t]
    /\ Goto(t, IF Counts(t) THEN "load" ELSE "commit")
    /\ UNCHANGED <<committed, pairLock, progLock>>

UpdateMisses(t) ==
    /\ tx[t].pc = "update"
    /\ rowLock[tx[t].sub] = Free
    /\ verdict[tx[t].sub] # "pending"
    /\ Release(t)
    /\ UNCHANGED committed

\* updateRoadmapProgressForProblem: the progress rows are read without a lock...
LoadProgress(t) ==
    /\ tx[t].pc = "load"
    /\ tx' = [tx EXCEPT ![t].pc = "store", ![t].seen = progress,
                        ![t].todo = RoadmapsOf[PairOf(t)]]
    /\ UNCHANGED <<committed, locks>>

\* ...and written back one by one: an update of a row that was seen, unless it holds
\* the item already, or an insert that the unique key rejects if another one won.
StoreProgress(t, r) ==
    /\ tx[t].pc = "store"
    /\ r \in tx[t].todo
    /\ IF PairOf(t) \in tx[t].seen[r].items
       THEN UNCHANGED progLock
       ELSE /\ progLock[r] \in {Free, t}
            /\ tx[t].seen[r].exists \/ ~progress[r].exists
            /\ progLock' = [progLock EXCEPT ![r] = t]
    /\ tx' = [tx EXCEPT ![t].todo = @ \ {r}]
    /\ UNCHANGED <<committed, pairLock, rowLock>>

StoredAll(t) ==
    /\ tx[t].pc = "store"
    /\ tx[t].todo = {}
    /\ Goto(t, "commit")
    /\ UNCHANGED <<committed, locks>>

\* Mutant: only the roadmaps the user has started get their completions.
CompletionsOfStarted(t) ==
    IF Counts(t) /\ \E r \in Roadmap : tx[t].seen[r].exists
    THEN completed \cup {PairOf(t)} ELSE completed

\* The missing rows of user_item_completions are inserted.
Completions(t) == IF Counts(t) THEN completed \cup {PairOf(t)} ELSE completed

\* The progress row is written from what was read, not from what is there now.
Stored(t, r) == [exists |-> TRUE, items |-> tx[t].seen[r].items \cup {PairOf(t)}]

\* incrementRankingPoint adds in place; then everything becomes visible together.
Commit(t) ==
    /\ tx[t].pc = "commit"
    /\ verdict' = [verdict EXCEPT ![tx[t].sub] = tx[t].v]
    /\ awards' = IF tx[t].pts THEN [awards EXCEPT ![PairOf(t)] = @ + 1] ELSE awards
    /\ completed' = Completions(t)
    /\ progress' = [r \in Roadmap |-> IF progLock[r] = t THEN Stored(t, r) ELSE progress[r]]
    /\ Release(t)

\* Any statement may fail (unique key, deadlock victim, lost connection): rollback.
Abort(t) ==
    /\ tx[t].pc # "idle"
    /\ Release(t)
    /\ UNCHANGED committed

TxStep(t) ==
    \/ \E s \in Submission, v \in Verdict : Begin(t, s, v)
    \/ LockPair(t) \/ CheckSolved(t) \/ UpdateRow(t) \/ UpdateMisses(t)
    \/ LoadProgress(t) \/ StoredAll(t) \/ Commit(t) \/ Abort(t)
    \/ \E r \in Roadmap : StoreProgress(t, r)

Next == (\E s \in Submission : Record(s)) \/ (\E t \in Tx : TxStep(t))

Spec == Init /\ [][Next]_vars

-----------------------------------------------------------------------------
(* Properties                                                              *)

\* To everyone outside, the transaction is one step of the ledger: the advisory lock
\* makes the check and the award atomic, the row lock the verdict.
Ledger == INSTANCE SubmissionLedger
ImplementsLedger == Ledger!Spec

\* The points of a problem are on the ranking exactly when the user has an accepted
\* submission for it outside exams, and then once, though transactions race.
AwardedOnce == Ledger!AwardedOnce

\* An accepted submission outside an exam completes the problem in every roadmap the
\* user sees: roadmap.service merges completions and progress rows.
RoadmapShowsAccepted ==
    \A s \in Submission \ Exam : verdict[s] = "accepted" => KeyOf[s] \in completed

\* A progress row never claims an item the user has not completed.
ProgressIsEarned == \A r \in Roadmap : progress[r].items \subseteq completed

=============================================================================
