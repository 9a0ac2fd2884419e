-------------------------- MODULE FinalizeTxProofs --------------------------
(***************************************************************************)
(* The transaction of finalizeSubmissionResult is one step of the ledger,  *)
(* for any number of submissions, pairs, roadmaps and sessions.            *)
(***************************************************************************)
EXTENDS FinalizeTx, TLAPS

Locked == {"check", "update", "load", "store", "commit"}
Written == {"load", "store", "commit"}

\* The advisory lock is held from the check to the end, and nothing else than its
\* holder can solve the pair, so what the check saw is still true.
HoldsPair(t) ==
    /\ tx[t].pc \in {"lock", "check", "load", "store"} => Counts(t)
    /\ tx[t].pc \in Locked /\ Counts(t) => pairLock[PairOf(t)] = t
    /\ tx[t].pc \in {"update", "load", "store", "commit"} =>
           (tx[t].pts <=> Counts(t) /\ ~Solved(PairOf(t)))

\* From the guarded update to the end the row is locked and its committed status is
\* the pending one the update saw.
HoldsRow(t) ==
    tx[t].pc \in Written => rowLock[tx[t].sub] = t /\ verdict[tx[t].sub] = "pending"

LockInv == TypeOK /\ \A t \in Tx : HoldsPair(t) /\ HoldsRow(t)

LEMMA TypeInit == Init => TypeOK
<1> SUFFICES ASSUME Init PROVE TypeOK
  OBVIOUS
<1>1. progress \in [Roadmap -> ProgressRow]
  <2>1. NoRow \in ProgressRow /\ [exists |-> TRUE, items |-> {}] \in ProgressRow
    BY DEF NoRow, ProgressRow
  <2>2. progress \in [Roadmap -> {NoRow, [exists |-> TRUE, items |-> {}]}]
    BY DEF Init
  <2> QED
    BY <2>1, <2>2
<1>2. tx \in [Tx -> TxType]
  <2>1. PICK s \in Submission :
           tx = [t \in Tx |-> [pc |-> "idle", sub |-> s, v |-> "rejected", pts |-> FALSE,
                               seen |-> progress, todo |-> {}]]
    BY DEF Init
  <2> QED
    BY <1>1, <2>1 DEF TxType, Verdict
<1> QED
  BY <1>1, <1>2 DEF Init, TypeOK, Status

Pc == {"idle", "lock", "check", "update", "load", "store", "commit"}

\* A transaction stays well-typed when its fields are set to values of their types.
LEMMA TypeSetPc ==
    ASSUME NEW r \in TxType, NEW p \in Pc
    PROVE  [r EXCEPT !.pc = p] \in TxType
BY DEF TxType, Pc

LEMMA TypeSetPts ==
    ASSUME NEW r \in TxType, NEW p \in Pc, NEW b \in BOOLEAN
    PROVE  [r EXCEPT !.pc = p, !.pts = b] \in TxType
BY DEF TxType, Pc

LEMMA TypeSetNew ==
    ASSUME NEW r \in TxType, NEW p \in Pc, NEW s \in Submission, NEW v \in Verdict
    PROVE  [r EXCEPT !.sub = s, !.v = v, !.pts = FALSE, !.todo = {}, !.pc = p] \in TxType
BY DEF TxType, Pc

LEMMA TypeSetSeen ==
    ASSUME NEW r \in TxType, NEW p \in Pc,
           NEW seen \in [Roadmap -> ProgressRow], NEW todo \in SUBSET Roadmap
    PROVE  [r EXCEPT !.pc = p, !.seen = seen, !.todo = todo] \in TxType
BY DEF TxType, Pc

LEMMA TypeSetTodo ==
    ASSUME NEW r \in TxType, NEW todo \in SUBSET Roadmap
    PROVE  [r EXCEPT !.todo = todo] \in TxType
BY DEF TxType

LEMMA TypeGoto ==
    ASSUME TypeOK, NEW t \in Tx, NEW p \in Pc, Goto(t, p)
    PROVE  tx' \in [Tx -> TxType]
BY TypeSetPc DEF TypeOK, Goto

LEMMA TypeRelease ==
    ASSUME TypeOK, NEW t \in Tx, Release(t)
    PROVE  /\ tx' \in [Tx -> TxType]
           /\ pairLock' \in [Key -> Tx \cup {Free}]
           /\ rowLock' \in [Submission -> Tx \cup {Free}]
           /\ progLock' \in [Roadmap -> Tx \cup {Free}]
<1>1. tx' \in [Tx -> TxType]
  BY TypeGoto DEF Release, Pc
<1>2. pairLock' \in [Key -> Tx \cup {Free}]
  BY DEF TypeOK, Release, Released
<1>3. rowLock' \in [Submission -> Tx \cup {Free}]
  BY DEF TypeOK, Release, Released
<1>4. progLock' \in [Roadmap -> Tx \cup {Free}]
  BY DEF TypeOK, Release, Released
<1> QED
  BY <1>1, <1>2, <1>3, <1>4

LEMMA TypeNext == TypeOK /\ [Next]_vars => TypeOK'
<1> SUFFICES ASSUME TypeOK, [Next]_vars PROVE TypeOK'
  OBVIOUS
<1> USE TxAssumption
<1>1. ASSUME NEW s \in Submission, Record(s) PROVE TypeOK'
  BY <1>1 DEF Record, TypeOK, Status, locks
<1>2. ASSUME NEW t \in Tx, NEW s \in Submission, NEW v \in Verdict, Begin(t, s, v)
      PROVE  TypeOK'
  <2> DEFINE p == IF v = "accepted" /\ s \notin Exam THEN "lock" ELSE "update"
             new == [tx[t] EXCEPT !.sub = s, !.v = v, !.pts = FALSE, !.todo = {}, !.pc = p]
  <2>1. p \in Pc /\ tx[t] \in TxType
    BY DEF TypeOK, Pc
  <2>2. new \in TxType
    <3> HIDE DEF p
    <3> QED BY <2>1, TypeSetNew
  <2>3. tx' = [tx EXCEPT ![t] = new]
    BY <1>2 DEF Begin
  <2>4. tx' \in [Tx -> TxType]
    <3> HIDE DEF new
    <3> QED BY <2>2, <2>3 DEF TypeOK
  <2> QED
    BY <1>2, <2>4 DEF Begin, TypeOK, committed, locks
<1>3. ASSUME NEW t \in Tx, LockPair(t) PROVE TypeOK'
  <2>1. tx' \in [Tx -> TxType]
    BY <1>3, TypeGoto DEF LockPair, Pc
  <2>2. pairLock' \in [Key -> Tx \cup {Free}]
    BY <1>3 DEF LockPair, TypeOK
  <2> QED
    BY <1>3, <2>1, <2>2 DEF LockPair, TypeOK, committed
<1>4. ASSUME NEW t \in Tx, CheckSolved(t) PROVE TypeOK'
  <2>1. (~Solved(PairOf(t))) \in BOOLEAN /\ tx[t] \in TxType /\ "update" \in Pc
    BY DEF TypeOK, Pc
  <2>2. tx' = [tx EXCEPT ![t] = [@ EXCEPT !.pc = "update", !.pts = ~Solved(PairOf(t))]]
    BY <1>4 DEF CheckSolved
  <2>3. tx' \in [Tx -> TxType]
    BY <2>1, <2>2, TypeSetPts DEF TypeOK
  <2> QED
    BY <1>4, <2>3 DEF CheckSolved, TypeOK, committed, locks
<1>5. ASSUME NEW t \in Tx, UpdateRow(t) PROVE TypeOK'
  <2>1. tx' \in [Tx -> TxType]
    <3>1. CASE Counts(t)
      BY <1>5, <3>1, TypeGoto DEF UpdateRow, Pc
    <3>2. CASE ~Counts(t)
      BY <1>5, <3>2, TypeGoto DEF UpdateRow, Pc
    <3> QED
      BY <3>1, <3>2
  <2>2. rowLock' \in [Submission -> Tx \cup {Free}]
    BY <1>5 DEF UpdateRow, TypeOK
  <2> QED
    BY <1>5, <2>1, <2>2 DEF UpdateRow, TypeOK, committed
<1>6. ASSUME NEW t \in Tx, UpdateMisses(t) PROVE TypeOK'
  BY <1>6, TypeRelease DEF UpdateMisses, TypeOK, committed
<1>7. ASSUME NEW t \in Tx, LoadProgress(t) PROVE TypeOK'
  <2>1. tx[t] \in TxType /\ progress \in [Roadmap -> ProgressRow]
    BY DEF TypeOK
  <2>2. RoadmapsOf[PairOf(t)] \in SUBSET Roadmap /\ "store" \in Pc
    BY <2>1 DEF TxType, PairOf, Pc
  <2>3. tx' = [tx EXCEPT ![t] = [@ EXCEPT !.pc = "store", !.seen = progress,
                                          !.todo = RoadmapsOf[PairOf(t)]]]
    BY <1>7 DEF LoadProgress
  <2>4. tx' \in [Tx -> TxType]
    BY <2>1, <2>2, <2>3, TypeSetSeen DEF TypeOK
  <2> QED
    BY <1>7, <2>4 DEF LoadProgress, TypeOK, committed, locks
<1>8. ASSUME NEW t \in Tx, NEW r \in Roadmap, StoreProgress(t, r) PROVE TypeOK'
  <2>1. tx[t] \in TxType /\ tx[t].todo \ {r} \in SUBSET Roadmap
    BY DEF TypeOK, TxType
  <2>2. tx' = [tx EXCEPT ![t] = [@ EXCEPT !.todo = tx[t].todo \ {r}]]
    BY <1>8 DEF StoreProgress
  <2>3. tx' \in [Tx -> TxType]
    BY <2>1, <2>2, TypeSetTodo DEF TypeOK
  <2>4. progLock' \in [Roadmap -> Tx \cup {Free}]
    BY <1>8 DEF StoreProgress, TypeOK
  <2> QED
    BY <1>8, <2>3, <2>4 DEF StoreProgress, TypeOK, committed
<1>9. ASSUME NEW t \in Tx, StoredAll(t) PROVE TypeOK'
  BY <1>9, TypeGoto DEF StoredAll, TypeOK, Pc, committed, locks
<1>10. ASSUME NEW t \in Tx, Commit(t) PROVE TypeOK'
  <2>1. tx[t] \in TxType /\ PairOf(t) \in Key
    BY DEF TypeOK, TxType, PairOf
  <2>2. verdict' \in [Submission -> Status] /\ awards' \in [Key -> Nat]
    BY <1>10, <2>1 DEF Commit, TypeOK, TxType, Status
  <2>3. completed' \in SUBSET Key
    BY <1>10, <2>1 DEF Commit, Completions, TypeOK
  <2>4. \A r \in Roadmap : Stored(t, r) \in ProgressRow
    BY <2>1 DEF Stored, TxType, ProgressRow
  <2>5. progress' \in [Roadmap -> ProgressRow]
    BY <1>10, <2>4 DEF Commit, TypeOK
  <2> QED
    BY <1>10, <2>2, <2>3, <2>5, TypeRelease DEF Commit, TypeOK
<1>11. ASSUME NEW t \in Tx, Abort(t) PROVE TypeOK'
  BY <1>11, TypeRelease DEF Abort, TypeOK, committed
<1>12. CASE UNCHANGED vars
  BY <1>12 DEF vars, TypeOK
<1> QED
  BY <1>1, <1>2, <1>3, <1>4, <1>5, <1>6, <1>7, <1>8, <1>9, <1>10, <1>11, <1>12 DEF Next, TxStep

\* Every variable keeps its type: transactions, locks and committed rows.
THEOREM FinalizeTypeOK == Spec => []TypeOK
BY TypeInit, TypeNext, PTL DEF Spec

\* A session that an action leaves alone, with its locks and the rows it depends on,
\* still holds what it held.
LEMMA Undisturbed ==
    ASSUME TypeOK, NEW u \in Tx, HoldsPair(u), HoldsRow(u),
           tx'[u] = tx[u],
           \A k \in Key : pairLock[k] = u => pairLock'[k] = u,
           \A s \in Submission : rowLock[s] = u => rowLock'[s] = u,
           tx[u].pc \in Written => verdict'[tx[u].sub] = verdict[tx[u].sub],
           tx[u].pc \in Locked /\ Counts(u) => (Solved(PairOf(u))' <=> Solved(PairOf(u)))
    PROVE  HoldsPair(u)' /\ HoldsRow(u)'
<1>1. tx[u] \in TxType /\ tx[u].sub \in Submission /\ PairOf(u) \in Key
  BY TxAssumption DEF TypeOK, TxType, PairOf
<1>2. HoldsPair(u)'
  BY <1>1 DEF HoldsPair, Locked, Counts, PairOf, Solved
<1>3. HoldsRow(u)'
  BY <1>1 DEF HoldsRow, Written
<1> QED
  BY <1>2, <1>3

LEMMA LockInit == Init => LockInv
<1> SUFFICES ASSUME Init PROVE \A t \in Tx : HoldsPair(t) /\ HoldsRow(t)
  BY TypeInit DEF LockInv
<1>1. \A t \in Tx : tx[t].pc = "idle"
  BY DEF Init
<1> QED
  BY <1>1 DEF HoldsPair, HoldsRow, Locked, Written

\* The end of a transaction, with or without a commit, takes no lock from another
\* session and leaves this one idle.
LEMMA ReleaseFacts ==
    ASSUME TypeOK, NEW t \in Tx, Release(t)
    PROVE  /\ tx'[t].pc = "idle"
           /\ \A u \in Tx \ {t} : tx'[u] = tx[u]
           /\ \A u \in Tx \ {t}, k \in Key : pairLock[k] = u => pairLock'[k] = u
           /\ \A u \in Tx \ {t}, s \in Submission : rowLock[s] = u => rowLock'[s] = u
BY DEF Release, Released, Goto, TypeOK, TxType

LEMMA IdleHolds ==
    ASSUME NEW t \in Tx, tx'[t].pc = "idle"
    PROVE  HoldsPair(t)' /\ HoldsRow(t)'
BY DEF HoldsPair, HoldsRow, Locked, Written

LEMMA LockNext == LockInv /\ [Next]_vars => LockInv'
<1> SUFFICES ASSUME LockInv, [Next]_vars, NEW u \in Tx PROVE HoldsPair(u)' /\ HoldsRow(u)'
  BY TypeNext DEF LockInv
<1> USE TxAssumption
<1>0. TypeOK /\ HoldsPair(u) /\ HoldsRow(u) /\ tx[u] \in TxType /\ PairOf(u) \in Key
  BY DEF LockInv, TypeOK, TxType, PairOf
<1>1. ASSUME NEW s \in Submission, Record(s) PROVE HoldsPair(u)' /\ HoldsRow(u)'
  BY <1>0, <1>1, Undisturbed DEF Record, locks, HoldsRow, Solved, PairOf, TypeOK, Status
<1>2. ASSUME NEW t \in Tx, NEW s \in Submission, NEW v \in Verdict, Begin(t, s, v)
      PROVE  HoldsPair(u)' /\ HoldsRow(u)'
  <2>1. CASE u = t
    <3>1. tx'[t].v = v /\ tx'[t].sub = s /\ tx'[t].pts = FALSE
          /\ tx'[t].pc = IF v = "accepted" /\ s \notin Exam THEN "lock" ELSE "update"
      BY <1>0, <1>2, <2>1 DEF Begin, TypeOK, TxType
    <3> QED
      BY <2>1, <3>1 DEF HoldsPair, HoldsRow, Counts, Locked, Written
  <2>2. CASE u # t
    BY <1>0, <1>2, <2>2, Undisturbed DEF Begin, committed, locks, Solved, PairOf, TypeOK
  <2> QED
    BY <2>1, <2>2
<1>3. ASSUME NEW t \in Tx, LockPair(t) PROVE HoldsPair(u)' /\ HoldsRow(u)'
  <2>1. CASE u = t
    <3>1. tx'[t] = [tx[t] EXCEPT !.pc = "check"] /\ pairLock'[PairOf(t)] = t
      BY <1>0, <1>3, <2>1 DEF LockPair, Goto, TypeOK
    <3> QED
      BY <1>0, <1>3, <2>1, <3>1
      DEF LockPair, HoldsPair, HoldsRow, Counts, PairOf, Locked, Written, TxType
  <2>2. CASE u # t
    <3>1. \A k \in Key : pairLock[k] = u => pairLock'[k] = u
      BY <1>0, <1>3, <2>2 DEF LockPair, TypeOK
    <3> QED
      BY <1>0, <1>3, <2>2, <3>1, Undisturbed
      DEF LockPair, Goto, committed, Solved, PairOf, TypeOK
  <2> QED
    BY <2>1, <2>2
<1>4. ASSUME NEW t \in Tx, CheckSolved(t) PROVE HoldsPair(u)' /\ HoldsRow(u)'
  <2>1. CASE u = t
    <3>1. tx'[t] = [tx[t] EXCEPT !.pc = "update", !.pts = ~Solved(PairOf(t))]
      BY <1>0, <1>4, <2>1 DEF CheckSolved, TypeOK
    <3>2. tx'[t].pc = "update" /\ tx'[t].pts = ~Solved(PairOf(t))
          /\ tx'[t].sub = tx[t].sub /\ tx'[t].v = tx[t].v
      BY <1>0, <2>1, <3>1 DEF TxType
    <3>3. Counts(u)' = Counts(u) /\ PairOf(u)' = PairOf(u)
      BY <2>1, <3>2 DEF Counts, PairOf
    <3>4. Solved(PairOf(u))' = Solved(PairOf(u)) /\ pairLock' = pairLock
      BY <1>4, <2>1, <3>3 DEF CheckSolved, Solved, committed, locks
    <3>5. Counts(u) /\ pairLock[PairOf(u)] = u
      BY <1>0, <1>4, <2>1 DEF CheckSolved, HoldsPair, Locked
    <3>6. HoldsRow(u)'
      BY <3>2, <2>1 DEF HoldsRow, Written
    <3>7. (tx[u].pts)' = ~Solved(PairOf(u))'
      BY <3>2, <3>4, <2>1, Zenon
    <3> QED
      BY <2>1, <3>2, <3>3, <3>4, <3>5, <3>6, <3>7 DEF HoldsPair, Locked
  <2>2. CASE u # t
    BY <1>0, <1>4, <2>2, Undisturbed DEF CheckSolved, committed, locks, Solved, PairOf, TypeOK
  <2> QED
    BY <2>1, <2>2
<1>5. ASSUME NEW t \in Tx, UpdateRow(t) PROVE HoldsPair(u)' /\ HoldsRow(u)'
  <2>1. CASE u = t
    <3>1. tx'[t] = [tx[t] EXCEPT !.pc = IF Counts(t) THEN "load" ELSE "commit"]
          /\ rowLock'[tx[t].sub] = t
      BY <1>0, <1>5, <2>1 DEF UpdateRow, Goto, TypeOK, TxType
    <3>2. tx'[t].pc = (IF Counts(t) THEN "load" ELSE "commit") /\ tx'[t].pts = tx[t].pts
          /\ tx'[t].sub = tx[t].sub /\ tx'[t].v = tx[t].v
      BY <1>0, <2>1, <3>1 DEF TxType
    <3> QED
      BY <1>0, <1>5, <2>1, <3>1, <3>2
      DEF UpdateRow, HoldsPair, HoldsRow, Counts, PairOf, Locked, Written, Solved, committed
  <2>2. CASE u # t
    <3>1. \A s \in Submission : rowLock[s] = u => rowLock'[s] = u
      BY <1>0, <1>5, <2>2 DEF UpdateRow, TypeOK
    <3> QED
      BY <1>0, <1>5, <2>2, <3>1, Undisturbed
      DEF UpdateRow, Goto, committed, Solved, PairOf, TypeOK
  <2> QED
    BY <2>1, <2>2
<1>6. ASSUME NEW t \in Tx, Release(t), UNCHANGED committed PROVE HoldsPair(u)' /\ HoldsRow(u)'
  <2>1. CASE u = t
    BY <1>0, <1>6, <2>1, ReleaseFacts, IdleHolds
  <2>2. CASE u # t
    BY <1>0, <1>6, <2>2, ReleaseFacts, Undisturbed DEF committed, Solved, PairOf
  <2> QED
    BY <2>1, <2>2
<1>7. ASSUME NEW t \in Tx, NEW pc \in {"load", "store", "commit"}, tx[t].pc \in {"load", "store"},
             tx'[t].pc = pc, tx'[t].sub = tx[t].sub, tx'[t].v = tx[t].v, tx'[t].pts = tx[t].pts,
             \A x \in Tx \ {t} : tx'[x] = tx[x],
             UNCHANGED <<verdict, pairLock, rowLock>>
      PROVE  HoldsPair(u)' /\ HoldsRow(u)'
  <2>1. CASE u = t
    BY <1>0, <1>7, <2>1 DEF HoldsPair, HoldsRow, Counts, PairOf, Locked, Written, Solved
  <2>2. CASE u # t
    BY <1>0, <1>7, <2>2, Undisturbed DEF Solved, PairOf
  <2> QED
    BY <2>1, <2>2
<1>8. ASSUME NEW t \in Tx, LoadProgress(t) PROVE HoldsPair(u)' /\ HoldsRow(u)'
  <2>1. tx[t] \in TxType /\ tx'[t] = [tx[t] EXCEPT !.pc = "store", !.seen = progress,
                                                    !.todo = RoadmapsOf[PairOf(t)]]
    BY <1>0, <1>8 DEF LoadProgress, TypeOK
  <2> QED
    BY <1>0, <1>7, <1>8, <2>1 DEF LoadProgress, TypeOK, TxType, committed, locks
<1>9. ASSUME NEW t \in Tx, NEW r \in Roadmap, StoreProgress(t, r)
      PROVE  HoldsPair(u)' /\ HoldsRow(u)'
  <2>1. tx[t] \in TxType /\ tx'[t] = [tx[t] EXCEPT !.todo = tx[t].todo \ {r}]
    BY <1>0, <1>9 DEF StoreProgress, TypeOK
  <2> QED
    BY <1>0, <1>7, <1>9, <2>1 DEF StoreProgress, TypeOK, TxType, committed
<1>10. ASSUME NEW t \in Tx, StoredAll(t) PROVE HoldsPair(u)' /\ HoldsRow(u)'
  <2>1. tx[t] \in TxType /\ tx'[t] = [tx[t] EXCEPT !.pc = "commit"]
    BY <1>0, <1>10 DEF StoredAll, Goto, TypeOK
  <2> QED
    BY <1>0, <1>7, <1>10, <2>1 DEF StoredAll, Goto, TypeOK, TxType, committed, locks
<1>11. ASSUME NEW t \in Tx, Commit(t) PROVE HoldsPair(u)' /\ HoldsRow(u)'
  <2>0. Release(t) /\ HoldsRow(t) /\ HoldsPair(t) /\ tx[t] \in TxType
    BY <1>0, <1>11 DEF Commit, LockInv, TypeOK
  <2>1. CASE u = t
    BY <1>0, <2>0, <2>1, ReleaseFacts, IdleHolds
  <2>2. CASE u # t
    <3>1. verdict' = [verdict EXCEPT ![tx[t].sub] = tx[t].v] /\ verdict[tx[t].sub] = "pending"
          /\ rowLock[tx[t].sub] = t
      BY <1>11, <2>0 DEF Commit, HoldsRow, Written
    <3>2. tx[u].pc \in Written => verdict'[tx[u].sub] = verdict[tx[u].sub]
      BY <1>0, <2>2, <3>1 DEF HoldsRow, TypeOK, TxType
    <3>3. \A s \in Submission : s # tx[t].sub => verdict'[s] = verdict[s]
      BY <1>0, <3>1 DEF TypeOK
    <3>4. verdict'[tx[t].sub] = tx[t].v
      BY <1>0, <2>0, <3>1 DEF TypeOK, TxType
    <3>5. ASSUME tx[u].pc \in Locked, Counts(u) PROVE Solved(PairOf(u))' <=> Solved(PairOf(u))
      <4>1. pairLock[PairOf(u)] = u
        BY <1>0, <3>5 DEF HoldsPair
      <4>2. CASE Counts(t)
        <5>1. pairLock[PairOf(t)] = t
          BY <1>11, <2>0, <4>2 DEF HoldsPair, Commit, Locked
        <5>2. PairOf(t) # PairOf(u)
          BY <2>2, <4>1, <5>1
        <5> QED
          BY <2>2, <2>0, <3>1, <3>3, <5>2, ReleaseFacts, <1>0 DEF Solved, PairOf
      <4>3. CASE ~Counts(t)
        BY <2>2, <2>0, <3>1, <3>3, <3>4, <4>3, ReleaseFacts, <1>0 DEF Solved, PairOf, Counts
      <4> QED
        BY <4>2, <4>3
    <3> QED
      BY <1>0, <2>0, <2>2, <3>2, <3>5, ReleaseFacts, Undisturbed
  <2> QED
    BY <2>1, <2>2
<1>12. CASE UNCHANGED vars
  BY <1>0, <1>12, Undisturbed DEF vars, Solved, PairOf
<1> QED
  BY <1>1, <1>2, <1>3, <1>4, <1>5, <1>6, <1>8, <1>9, <1>10, <1>11, <1>12
  DEF Next, TxStep, UpdateMisses, Abort

\* To everyone outside, finalizeSubmissionResult is one step of the ledger: a commit
\* judges a pending submission and adds points exactly if it is the first accepted one.
THEOREM FinalizeImplementsLedger == Spec => ImplementsLedger
<1>1. Init => Ledger!Init
  BY DEF Init, Ledger!Init
<1>2. LockInv /\ [Next]_vars => [Ledger!Next]_(Ledger!ledgerVars)
  <2> SUFFICES ASSUME LockInv, [Next]_vars,
                      ~ UNCHANGED <<verdict, awards>>
               PROVE  Ledger!Next
    BY DEF Ledger!ledgerVars
  <2>1. ASSUME NEW s \in Submission, Record(s) PROVE Ledger!Next
    BY <2>1 DEF Record, Ledger!Next, Ledger!Record
  <2>2. ASSUME NEW t \in Tx, Commit(t) PROVE Ledger!Next
    <3>1. tx[t] \in TxType /\ HoldsPair(t) /\ HoldsRow(t) /\ tx[t].pc = "commit"
      BY <2>2 DEF LockInv, TypeOK, Commit
    <3>2. tx[t].sub \in Submission /\ tx[t].v \in Ledger!Verdict
          /\ verdict[tx[t].sub] = "pending"
      BY <3>1 DEF TxType, HoldsRow, Written, Verdict, Ledger!Verdict
    <3>3. tx[t].pts <=> Ledger!Earns(tx[t].sub, tx[t].v)
      BY <3>1 DEF HoldsPair, Counts, PairOf, Solved, Ledger!Earns, Ledger!Solved
    <3>4. Ledger!Judge(tx[t].sub, tx[t].v)
      BY <2>2, <3>2, <3>3 DEF Commit, PairOf, Ledger!Judge
    <3> QED
      BY <3>2, <3>4 DEF Ledger!Next
  <2>3. ASSUME NEW t \in Tx, TxStep(t), ~Commit(t) PROVE FALSE
    BY <2>3 DEF TxStep, Begin, LockPair, CheckSolved, UpdateRow, UpdateMisses, LoadProgress,
                StoreProgress, StoredAll, Abort, committed
  <2> QED
    BY <2>1, <2>2, <2>3 DEF Next, vars
<1> QED
  BY <1>1, <1>2, LockInit, LockNext, PTL DEF Spec, ImplementsLedger, Ledger!Spec

\* What a transaction read of the progress rows is still covered by completions, and
\* only a transaction that counts locks a progress row.
ReadsEarned(t) ==
    /\ tx[t].pc \in {"store", "commit"} /\ Counts(t) =>
           \A r \in Roadmap : tx[t].seen[r].items \subseteq completed
    /\ \A r \in Roadmap : progLock[r] = t => tx[t].pc \in {"store", "commit"} /\ Counts(t)

RoadmapInv ==
    /\ RoadmapShowsAccepted
    /\ ProgressIsEarned
    /\ \A t \in Tx : ReadsEarned(t)

LEMMA RoadmapNext == LockInv /\ RoadmapInv /\ [Next]_vars => RoadmapInv'
<1> SUFFICES ASSUME LockInv, RoadmapInv, [Next]_vars PROVE RoadmapInv'
  OBVIOUS
<1> USE TxAssumption
<1>0. TypeOK /\ RoadmapShowsAccepted /\ ProgressIsEarned /\ \A t \in Tx : ReadsEarned(t)
  BY DEF LockInv, RoadmapInv
<1>1. ASSUME NEW t \in Tx, Commit(t) PROVE RoadmapInv'
  <2>1. tx[t] \in TxType /\ HoldsPair(t) /\ HoldsRow(t) /\ ReadsEarned(t)
        /\ tx[t].pc = "commit" /\ Release(t)
    BY <1>0, <1>1 DEF LockInv, TypeOK, Commit
  <2>2. completed \subseteq completed' /\ (Counts(t) => PairOf(t) \in completed')
    BY <1>1 DEF Commit, Completions
  <2>3. RoadmapShowsAccepted'
    <3> SUFFICES ASSUME NEW s \in Submission \ Exam, verdict'[s] = "accepted"
                 PROVE  KeyOf[s] \in completed'
      BY DEF RoadmapShowsAccepted
    <3>1. CASE s = tx[t].sub
      BY <1>0, <1>1, <2>1, <2>2, <3>1 DEF Commit, Counts, PairOf, TypeOK, TxType
    <3>2. CASE s # tx[t].sub
      BY <1>0, <1>1, <2>2, <3>2 DEF Commit, RoadmapShowsAccepted, TypeOK
    <3> QED
      BY <3>1, <3>2
  <2>4. ProgressIsEarned'
    <3> SUFFICES ASSUME NEW r \in Roadmap PROVE progress'[r].items \subseteq completed'
      BY DEF ProgressIsEarned
    <3>1. CASE progLock[r] = t
      <4>1. progress'[r].items = tx[t].seen[r].items \cup {PairOf(t)}
        BY <1>1, <3>1 DEF Commit, Stored
      <4> QED
        BY <2>1, <2>2, <3>1, <4>1 DEF ReadsEarned
    <3>2. CASE progLock[r] # t
      BY <1>0, <1>1, <2>2, <3>2 DEF Commit, ProgressIsEarned
    <3> QED
      BY <3>1, <3>2
  <2>5. ASSUME NEW u \in Tx PROVE ReadsEarned(u)'
    <3>1. CASE u = t
      <4>1. tx'[t].pc = "idle" /\ \A r \in Roadmap : progLock'[r] # t
        BY <1>0, <2>1, ReleaseFacts DEF Release, Released, TypeOK
      <4> QED
        BY <3>1, <4>1 DEF ReadsEarned
    <3>2. CASE u # t
      <4>1. tx'[u] = tx[u] /\ \A r \in Roadmap : progLock'[r] = u => progLock[r] = u
        BY <1>0, <2>1, <3>2, ReleaseFacts DEF Release, Released, TypeOK
      <4> QED
        BY <1>0, <2>2, <4>1 DEF ReadsEarned, Counts
    <3> QED
      BY <3>1, <3>2
  <2> QED
    BY <2>3, <2>4, <2>5 DEF RoadmapInv
<1>2. ASSUME UNCHANGED <<completed, progress>>,
             \A s \in Submission : verdict'[s] = "accepted" => verdict[s] = "accepted"
      PROVE  RoadmapShowsAccepted' /\ ProgressIsEarned'
  BY <1>0, <1>2 DEF RoadmapShowsAccepted, ProgressIsEarned
<1>3. ASSUME NEW s \in Submission, Record(s) PROVE RoadmapInv'
  <2>1. \A x \in Submission : verdict'[x] = "accepted" => verdict[x] = "accepted"
    BY <1>0, <1>3 DEF Record, TypeOK
  <2> QED
    BY <1>0, <1>2, <1>3, <2>1 DEF Record, locks, RoadmapInv, ReadsEarned, Counts
<1>4. ASSUME NEW t \in Tx, UNCHANGED committed,
             \A x \in Tx \ {t} : tx'[x] = tx[x],
             \A x \in Tx \ {t}, r \in Roadmap : progLock'[r] = x => progLock[r] = x,
             ReadsEarned(t)'
      PROVE  RoadmapInv'
  <2>1. ASSUME NEW u \in Tx, u # t PROVE ReadsEarned(u)'
    BY <1>0, <1>4, <2>1 DEF ReadsEarned, Counts, committed
  <2> QED
    BY <1>2, <1>4, <2>1 DEF RoadmapInv, committed
<1>5. ASSUME NEW t \in Tx, Release(t), UNCHANGED committed PROVE RoadmapInv'
  <2>1. tx'[t].pc = "idle" /\ (\A x \in Tx \ {t} : tx'[x] = tx[x])
        /\ \A r \in Roadmap : progLock'[r] # t
                              /\ \A x \in Tx \ {t} : progLock'[r] = x => progLock[r] = x
    BY <1>0, <1>5, ReleaseFacts DEF Release, Released, TypeOK
  <2>2. ReadsEarned(t)'
    BY <2>1 DEF ReadsEarned
  <2> QED
    BY <1>4, <1>5, <2>1, <2>2
<1>6. ASSUME NEW t \in Tx, TxStep(t), UNCHANGED <<committed, progLock>>,
             \A x \in Tx \ {t} : tx'[x] = tx[x],
             tx'[t].pc \in {"store", "commit"} /\ Counts(t)' =>
                 \A r \in Roadmap : tx'[t].seen[r].items \subseteq completed,
             tx[t].pc \in {"store", "commit"} /\ Counts(t) =>
                 tx'[t].pc \in {"store", "commit"} /\ Counts(t)'
      PROVE  RoadmapInv'
  <2>1. ReadsEarned(t)'
    BY <1>0, <1>6 DEF ReadsEarned, committed
  <2> QED
    BY <1>4, <1>6, <2>1
<1>7. ASSUME NEW t \in Tx, NEW s \in Submission, NEW v \in Verdict, Begin(t, s, v)
      PROVE  RoadmapInv'
  <2>1. tx'[t].pc \notin {"store", "commit"} /\ tx[t].pc = "idle"
    BY <1>0, <1>7 DEF Begin, TypeOK, TxType
  <2> QED
    BY <1>0, <1>6, <1>7, <2>1 DEF TxStep, Begin, TypeOK, locks
<1>8. ASSUME NEW t \in Tx, LockPair(t) \/ CheckSolved(t) PROVE RoadmapInv'
  <2>1. tx'[t].pc \notin {"store", "commit"} /\ tx[t].pc \notin {"store", "commit"}
    BY <1>0, <1>8 DEF LockPair, CheckSolved, Goto, TypeOK, TxType
  <2> QED
    BY <1>0, <1>6, <1>8, <2>1 DEF TxStep, LockPair, CheckSolved, Goto, TypeOK, locks
<1>9. ASSUME NEW t \in Tx, UpdateRow(t) PROVE RoadmapInv'
  <2>1. tx[t] \in TxType /\ tx[t].pc = "update"
        /\ tx'[t] = [tx[t] EXCEPT !.pc = IF Counts(t) THEN "load" ELSE "commit"]
    BY <1>0, <1>9 DEF UpdateRow, Goto, TypeOK
  <2>2. tx'[t].v = tx[t].v /\ tx'[t].sub = tx[t].sub
        /\ tx'[t].pc = IF Counts(t) THEN "load" ELSE "commit"
    BY <2>1 DEF TxType
  <2>3. Counts(t)' <=> Counts(t)
    BY <2>2 DEF Counts
  <2>4. ~(tx'[t].pc \in {"store", "commit"} /\ Counts(t)')
    BY <2>2, <2>3
  <2>5. \A x \in Tx \ {t} : tx'[x] = tx[x]
    BY <1>0, <1>9 DEF UpdateRow, Goto, TypeOK
  <2>6. UNCHANGED <<committed, progLock>> /\ TxStep(t)
    BY <1>9 DEF UpdateRow, TxStep
  <2> QED
    BY <1>6, <2>1, <2>4, <2>5, <2>6
<1>10. ASSUME NEW t \in Tx, LoadProgress(t) PROVE RoadmapInv'
  <2>1. tx[t] \in TxType /\ tx[t].pc = "load"
        /\ tx'[t] = [tx[t] EXCEPT !.pc = "store", !.seen = progress,
                                   !.todo = RoadmapsOf[PairOf(t)]]
    BY <1>0, <1>10 DEF LoadProgress, TypeOK
  <2>2. tx'[t].seen = progress
    BY <2>1 DEF TxType
  <2>3. \A r \in Roadmap : tx'[t].seen[r].items \subseteq completed
    BY <1>0, <2>2 DEF ProgressIsEarned
  <2> QED
    BY <1>0, <1>6, <1>10, <2>1, <2>3 DEF TxStep, LoadProgress, TypeOK, locks
<1>11. ASSUME NEW t \in Tx, NEW r \in Roadmap, StoreProgress(t, r) PROVE RoadmapInv'
  <2>1. tx[t] \in TxType /\ tx[t].pc = "store" /\ ReadsEarned(t) /\ HoldsPair(t)
        /\ tx'[t] = [tx[t] EXCEPT !.todo = tx[t].todo \ {r}]
    BY <1>0, <1>11 DEF StoreProgress, TypeOK, LockInv
  <2>2. tx'[t].pc = "store" /\ tx'[t].seen = tx[t].seen /\ (Counts(t)' <=> Counts(t))
        /\ Counts(t)
    BY <2>1 DEF TxType, Counts, HoldsPair
  <2>3. ReadsEarned(t)'
    BY <1>11, <2>1, <2>2 DEF StoreProgress, ReadsEarned, committed
  <2>4. \A x \in Tx \ {t}, q \in Roadmap : progLock'[q] = x => progLock[q] = x
    BY <1>0, <1>11 DEF StoreProgress, TypeOK
  <2> QED
    BY <1>0, <1>4, <1>11, <2>3, <2>4 DEF StoreProgress, TypeOK
<1>12. ASSUME NEW t \in Tx, StoredAll(t) PROVE RoadmapInv'
  <2>1. tx[t] \in TxType /\ tx[t].pc = "store" /\ ReadsEarned(t)
        /\ tx'[t] = [tx[t] EXCEPT !.pc = "commit"]
    BY <1>0, <1>12 DEF StoredAll, Goto, TypeOK
  <2>2. tx'[t].pc = "commit" /\ tx'[t].seen = tx[t].seen /\ (Counts(t)' <=> Counts(t))
    BY <2>1 DEF TxType, Counts
  <2>3. \A r \in Roadmap : Counts(t)' => tx'[t].seen[r].items \subseteq completed
    BY <2>1, <2>2 DEF ReadsEarned
  <2>4. \A x \in Tx \ {t} : tx'[x] = tx[x]
    BY <1>0, <1>12 DEF StoredAll, Goto, TypeOK
  <2>5. UNCHANGED <<committed, progLock>> /\ TxStep(t)
    BY <1>12 DEF StoredAll, TxStep, locks
  <2> QED
    BY <1>6, <2>2, <2>3, <2>4, <2>5
<1>13. CASE UNCHANGED vars
  BY <1>0, <1>13 DEF vars, RoadmapInv, RoadmapShowsAccepted, ProgressIsEarned, ReadsEarned, Counts
<1> QED
  BY <1>1, <1>3, <1>5, <1>7, <1>8, <1>9, <1>10, <1>11, <1>12, <1>13
  DEF Next, TxStep, UpdateMisses, Abort

LEMMA RoadmapInit == Init => RoadmapInv
<1> SUFFICES ASSUME Init PROVE RoadmapInv
  OBVIOUS
<1>1. \A r \in Roadmap : progress[r].items = {} /\ progLock[r] = Free
  BY DEF Init, NoRow
<1>2. \A t \in Tx : tx[t].pc = "idle"
  BY DEF Init
<1> QED
  BY <1>1, <1>2, TxAssumption
  DEF Init, RoadmapInv, RoadmapShowsAccepted, ProgressIsEarned, ReadsEarned

\* An accepted submission outside an exam shows in every roadmap of the user.
THEOREM RoadmapAlwaysShows == Spec => []RoadmapShowsAccepted
BY LockInit, LockNext, RoadmapInit, RoadmapNext, PTL DEF Spec, RoadmapInv

\* A progress row never claims an item without a completion, though it is rewritten
\* from a read made without a lock.
THEOREM ProgressAlwaysEarned == Spec => []ProgressIsEarned
BY LockInit, LockNext, RoadmapInit, RoadmapNext, PTL DEF Spec, RoadmapInv

-----------------------------------------------------------------------------
(* What the ledger promises, and so the transactions                       *)

LedgerInv == Ledger!LedgerTypeOK /\ Ledger!AwardedOnce

\* A verdict solves the pair of its submission and no other, and a pair stays
\* solved: no verdict replaces another (hasUserSolvedProblem after the update).
LEMMA SolvedAfterJudge ==
    ASSUME Ledger!LedgerTypeOK,
           NEW s \in Submission, NEW v \in Ledger!Verdict, Ledger!Judge(s, v), NEW k \in Key
    PROVE  Ledger!Solved(k)' <=> Ledger!Solved(k) \/ (v = "accepted" /\ s \notin Exam /\ k = KeyOf[s])
<1>1. verdict[s] = "pending" /\ verdict' = [verdict EXCEPT ![s] = v]
  BY DEF Ledger!Judge
<1>2. \A t \in Submission : verdict'[t] = IF t = s THEN v ELSE verdict[t]
  BY <1>1 DEF Ledger!LedgerTypeOK
<1> QED
  BY <1>1, <1>2 DEF Ledger!Solved

\* The points of a (user, problem) pair are added once, with its first accepted
\* submission outside an exam.
THEOREM LedgerAwardsOnce == Ledger!Spec => []Ledger!AwardedOnce
<1>1. Ledger!Init => LedgerInv
  BY DEF Ledger!Init, LedgerInv, Ledger!LedgerTypeOK, Ledger!AwardedOnce, Ledger!Solved, Ledger!Status
<1>2. LedgerInv /\ [Ledger!Next]_(Ledger!ledgerVars) => LedgerInv'
  <2> SUFFICES ASSUME LedgerInv, [Ledger!Next]_(Ledger!ledgerVars) PROVE LedgerInv'
    OBVIOUS
  <2> USE TxAssumption DEF LedgerInv
  <2>1. ASSUME NEW s \in Submission, Ledger!Record(s) PROVE LedgerInv'
    <3>1. Ledger!LedgerTypeOK'
      BY <2>1 DEF Ledger!Record, Ledger!LedgerTypeOK, Ledger!Status
    <3>2. \A k \in Key : Ledger!Solved(k)' <=> Ledger!Solved(k)
      BY <2>1 DEF Ledger!Record, Ledger!LedgerTypeOK, Ledger!Solved
    <3> QED
      BY <2>1, <3>1, <3>2 DEF Ledger!AwardedOnce, Ledger!Record
  <2>2. ASSUME NEW s \in Submission, NEW v \in Ledger!Verdict, Ledger!Judge(s, v) PROVE LedgerInv'
    <3>1. Ledger!LedgerTypeOK'
      BY <2>2 DEF Ledger!Judge, Ledger!LedgerTypeOK, Ledger!Status
    <3>2. \A k \in Key :
             Ledger!Solved(k)' <=> Ledger!Solved(k) \/ (v = "accepted" /\ s \notin Exam /\ k = KeyOf[s])
      BY <2>2, SolvedAfterJudge
    <3>3. \A k \in Key :
             awards'[k] = IF k = KeyOf[s] /\ Ledger!Earns(s, v) THEN awards[k] + 1 ELSE awards[k]
      BY <2>2 DEF Ledger!Judge, Ledger!LedgerTypeOK
    <3>4. Ledger!AwardedOnce'
      <4> SUFFICES ASSUME NEW k \in Key PROVE awards'[k] = IF Ledger!Solved(k)' THEN 1 ELSE 0
        BY DEF Ledger!AwardedOnce
      <4>1. awards[k] = IF Ledger!Solved(k) THEN 1 ELSE 0
        BY DEF Ledger!AwardedOnce
      <4> QED
        BY <3>2, <3>3, <4>1 DEF Ledger!Earns
    <3> QED
      BY <3>1, <3>4
  <2>3. CASE UNCHANGED Ledger!ledgerVars
    BY <2>3 DEF Ledger!ledgerVars, Ledger!LedgerTypeOK, Ledger!AwardedOnce, Ledger!Solved
  <2> QED
    BY <2>1, <2>2, <2>3 DEF Ledger!Next
<1> QED
  BY <1>1, <1>2, PTL DEF Ledger!Spec, LedgerInv

\* Racing transactions add the points of a (user, problem) pair once.
THEOREM FinalizeAwardsOnce == Spec => []AwardedOnce
BY FinalizeImplementsLedger, LedgerAwardsOnce, PTL DEF ImplementsLedger, AwardedOnce

=============================================================================
