------------------------------- MODULE LegacyExam -------------------------------
(***************************************************************************)
(* The exam endpoints that know no participants: a user joins an exam or   *)
(* opens a session of it, syncs answers, submits programs and submits the  *)
(* attempt, which is scored, while the timer ends attempts whose time is   *)
(* over.  One exam and one user.  There is no key on (exam, user), so an   *)
(* attempt is what its requests read of it some statements ago.            *)
(***************************************************************************)
EXTENDS Naturals, Sequences, FiniteSetsExt

CONSTANTS
    Visit,       \* requests of the user in flight
    Problem,     \* problems of the exam, one point each
    NoProblem,   \* what a visit that submits no program is about
    MaxTries,    \* exam.maxAttempts, which joinExam alone looks at
    MaxRows,     \* bound on attempts
    MaxSubs,     \* bound on submissions
    MaxStamp     \* bound on the time stamps of answers

ASSUME LegacyAssumption ==
    /\ MaxTries \in Nat \ {0} /\ MaxRows \in Nat /\ MaxSubs \in Nat /\ MaxStamp \in Nat
    /\ NoProblem \notin Problem /\ IsFiniteSet(Problem)

VARIABLES
    tries,      \* exam_participations of the user, oldest first
    subs,       \* submissions of the user, oldest first
    visit,      \* the requests in flight, with what they have read
    ending      \* the attempt the timer is about to end, or 0

legacyVars == <<tries, subs, visit, ending>>

\* answers: the time stamp of the answer stored; one that carries no time, which is always
\* taken, is left out.  expired: expiresAt has passed, which submitting moves; over: the end
\* by duration and exam has, which nothing moves.  opened, closed: how many submissions
\* there were at the start and at the end.  score: 1 more than the points, 0 is none.
\* seen is history: how far the submissions had come when the score was worked out.
TryType == [st : {"IN_PROGRESS", "SUBMITTED", "EXPIRED"}, answers : 0..MaxStamp,
            expired : BOOLEAN, over : BOOLEAN, opened : 0..MaxSubs, closed : 0..MaxSubs,
            score : 0..(Cardinality(Problem) + 1), seen : 0..(2 * MaxSubs)]
NewTry == [st |-> "IN_PROGRESS", answers |-> 0, expired |-> FALSE, over |-> FALSE,
           opened |-> Len(subs), closed |-> MaxSubs, score |-> 0, seen |-> 0]
SubType == [problem : Problem, link : 0..MaxRows, st : {"pending", "passed", "failed"}]

\* pick: the submission chosen for each problem that has one.
NoVisit == [pc |-> "idle", a |-> 0, n |-> 0, p |-> NoProblem, pick |-> <<>>, seen |-> 0]

LegacyTypeOK ==
    /\ tries \in Seq(TryType) /\ Len(tries) <= MaxRows
    /\ subs \in Seq(SubType) /\ Len(subs) <= MaxSubs
    /\ visit \in [Visit -> [pc : {"idle", "expire", "completed", "insert", "reset", "join",
                                "sync", "program", "score", "results", "finish"},
                          a : 0..MaxRows, n : 0..(MaxStamp + Cardinality(Problem)),
                          p : Problem \cup {NoProblem}, seen : 0..(2 * MaxSubs),
                          pick : UNION {[Q -> 1..MaxSubs] : Q \in SUBSET Problem}]]
    /\ ending \in 0..MaxRows

LegacyInit == tries = <<>> /\ subs = <<>> /\ visit = [t \in Visit |-> NoVisit] /\ ending = 0

Progress == Len(subs) + Cardinality({i \in DOMAIN subs : subs[i].st # "pending"})

Finished(a) == tries[a].st # "IN_PROGRESS"
Turns(t, c) == visit' = [visit EXCEPT ![t] = c]
Leaves(t) == Turns(t, NoVisit)

-----------------------------------------------------------------------------
(* getOrCreateSession and joinExam                                         *)

\* An attempt in progress is handed back, or ended if its time is over.
SessionReads(t) ==
    /\ visit[t].pc = "idle"
    /\ \/ \E a \in DOMAIN tries :
             ~Finished(a) /\ tries[a].expired /\ Turns(t, [NoVisit EXCEPT !.pc = "expire", !.a = a])
       \/ (\A a \in DOMAIN tries : Finished(a)) /\ Turns(t, [NoVisit EXCEPT !.pc = "completed"])
    /\ UNCHANGED <<tries, subs, ending>>

SessionExpires(t) ==
    /\ visit[t].pc = "expire"
    /\ tries' = [tries EXCEPT ![visit[t].a].st = "EXPIRED"]
    /\ Leaves(t)
    /\ UNCHANGED <<subs, ending>>

\* findCompletedByExamAndUser
SessionLooks(t) ==
    /\ visit[t].pc = "completed"
    /\ IF \E a \in DOMAIN tries : Finished(a)
       THEN Leaves(t) ELSE Turns(t, [NoVisit EXCEPT !.pc = "insert"])
    /\ UNCHANGED <<tries, subs, ending>>

\* The row is inserted and then updated by id, whatever has become of it.
SessionInserts(t) ==
    /\ visit[t].pc = "insert" /\ Len(tries) < MaxRows
    /\ tries' = Append(tries, NewTry)
    /\ Turns(t, [NoVisit EXCEPT !.pc = "reset", !.a = Len(tries) + 1])
    /\ UNCHANGED <<subs, ending>>

SessionResets(t) ==
    /\ visit[t].pc = "reset"
    /\ tries' = [tries EXCEPT ![visit[t].a].answers = 0, ![visit[t].a].st = "IN_PROGRESS"]
    /\ Leaves(t)
    /\ UNCHANGED <<subs, ending>>

JoinReads(t) ==
    /\ visit[t].pc = "idle"
    /\ \A a \in DOMAIN tries : Finished(a)
    /\ Len(tries) < MaxTries
    /\ Turns(t, [NoVisit EXCEPT !.pc = "join"])
    /\ UNCHANGED <<tries, subs, ending>>

JoinInserts(t) ==
    /\ visit[t].pc = "join" /\ Len(tries) < MaxRows
    /\ tries' = Append(tries, NewTry)
    /\ Leaves(t)
    /\ UNCHANGED <<subs, ending>>

-----------------------------------------------------------------------------
(* syncSession                                                             *)

\* mergeAnswers keeps the newer of two answers.  The status is not looked at here.
SyncReads(t, a, stamp) ==
    /\ visit[t].pc = "idle" /\ ~tries[a].expired
    /\ Turns(t, [NoVisit EXCEPT !.pc = "sync", !.a = a,
                               !.n = IF stamp >= tries[a].answers THEN stamp ELSE tries[a].answers])
    /\ UNCHANGED <<tries, subs, ending>>

\* Mutant: the write trusts what the request has read.
SyncWritesBlindly(t) ==
    /\ visit[t].pc = "sync"
    /\ tries' = [tries EXCEPT ![visit[t].a].answers = visit[t].n]
    /\ Leaves(t)
    /\ UNCHANGED <<subs, ending>>

\* updateSyncState: nothing is written to an attempt that has ended meanwhile.
SyncWrites(t) ==
    /\ visit[t].pc = "sync"
    /\ tries' = IF Finished(visit[t].a) \/ tries[visit[t].a].expired THEN tries
                ELSE [tries EXCEPT ![visit[t].a].answers = visit[t].n]
    /\ Leaves(t)
    /\ UNCHANGED <<subs, ending>>

-----------------------------------------------------------------------------
(* Programs, their scores, and the end of an attempt                       *)

\* validateExamParticipation looks at the time of the attempt only, not at its status; the
\* row is inserted some statements later.  Programs may also be submitted outside the exam.
ProgramChecked(t, p, a) ==
    /\ visit[t].pc = "idle"
    /\ a # 0 => ~tries[a].over
    /\ Turns(t, [NoVisit EXCEPT !.pc = "program", !.a = a, !.p = p])
    /\ UNCHANGED <<tries, subs, ending>>

ProgramInserted(t) ==
    /\ visit[t].pc = "program" /\ Len(subs) < MaxSubs
    /\ subs' = Append(subs, [problem |-> visit[t].p, link |-> visit[t].a, st |-> "pending"])
    /\ Leaves(t)
    /\ UNCHANGED <<tries, ending>>

ProgramJudged(i) ==
    /\ subs[i].st = "pending"
    /\ \E st \in {"passed", "failed"} : subs' = [subs EXCEPT ![i].st = st]
    /\ UNCHANGED <<tries, visit, ending>>

Linked(a, p) == {i \in DOMAIN subs : subs[i].problem = p /\ subs[i].link = a}
Within(a, p) == {i \in DOMAIN subs : /\ subs[i].problem = p
                                     /\ i > tries[a].opened /\ i <= tries[a].closed}
\* Per problem with a submission the latest of the first set, or of the other if that is empty.
LatestOf(first, other) ==
    [p \in {q \in Problem : first[q] \cup other[q] # {}} |->
        Max(IF first[p] # {} THEN first[p] ELSE other[p])]

\* Mutant: what was submitted in time overrides what is linked to the attempt.
SelectedByTime(a) == LatestOf([p \in Problem |-> Within(a, p)], [p \in Problem |-> Linked(a, p)])

\* The latest submission linked to the attempt is entered over the latest made in its time.
selectedByProblem(a) == LatestOf([p \in Problem |-> Linked(a, p)], [p \in Problem |-> Within(a, p)])

Points(pick) == Cardinality({p \in DOMAIN pick : subs[pick[p]].st = "passed"})

\* The leaderboard asks for each problem anew, and for a time window only if no submission
\* is linked.
getExamLeaderboard(a) ==
    Cardinality({p \in Problem :
        IF Linked(a, p) # {}
        THEN \E i \in Linked(a, p) : subs[i].st = "passed" /\ \A k \in Linked(a, p) : k <= i
        ELSE \E i \in Within(a, p) : subs[i].st = "passed" /\ \A k \in Within(a, p) : k <= i})

SubmitReads(t, a) ==
    /\ visit[t].pc = "idle" /\ ~Finished(a) /\ ~tries[a].over
    /\ Turns(t, [NoVisit EXCEPT !.pc = "score", !.a = a])
    /\ UNCHANGED <<tries, subs, ending>>

\* calculateExamScore: first the submissions, then their results.
ScoreSelects(t) ==
    /\ visit[t].pc = "score"
    /\ Turns(t, [visit[t] EXCEPT !.pc = "results", !.seen = Progress,
                                !.pick = selectedByProblem(visit[t].a)])
    /\ UNCHANGED <<tries, subs, ending>>

ScoreCounts(t) ==
    /\ visit[t].pc = "results"
    /\ Turns(t, [visit[t] EXCEPT !.pc = "finish", !.n = Points(visit[t].pick), !.pick = <<>>])
    /\ UNCHANGED <<tries, subs, ending>>

SubmitWrites(t) ==
    /\ visit[t].pc = "finish"
    /\ tries' = [tries EXCEPT ![visit[t].a] =
                     [@ EXCEPT !.st = "SUBMITTED", !.expired = TRUE,
                               !.score = visit[t].n + 1, !.seen = visit[t].seen]]
    /\ Leaves(t)
    /\ UNCHANGED <<subs, ending>>

-----------------------------------------------------------------------------
(* Time, and the timer                                                     *)

TimeIsOver(a) ==
    /\ ~tries[a].over
    /\ tries' = [tries EXCEPT ![a].over = TRUE, ![a].expired = TRUE, ![a].closed = Len(subs)]
    /\ UNCHANGED <<subs, visit, ending>>

TimerReads(a) ==
    /\ ending = 0 /\ ~Finished(a) /\ tries[a].over
    /\ ending' = a
    /\ UNCHANGED <<tries, subs, visit>>

TimerWrites ==
    /\ ending # 0
    /\ tries' = [tries EXCEPT ![ending].st = "EXPIRED"]
    /\ ending' = 0
    /\ UNCHANGED <<subs, visit>>

\* A check refuses, a statement fails or the process dies.
VisitStops(t) == visit[t].pc # "idle" /\ Leaves(t) /\ UNCHANGED <<tries, subs, ending>>

LegacyNext ==
    \/ \E t \in Visit :
          \/ SessionReads(t) \/ SessionExpires(t) \/ SessionLooks(t) \/ SessionInserts(t)
          \/ SessionResets(t) \/ JoinReads(t) \/ JoinInserts(t) \/ SyncWrites(t)
          \/ ProgramInserted(t) \/ ScoreSelects(t) \/ ScoreCounts(t) \/ SubmitWrites(t) \/ VisitStops(t)
          \/ \E a \in DOMAIN tries : SubmitReads(t, a) \/ \E s \in 1..MaxStamp : SyncReads(t, a, s)
          \/ \E p \in Problem, a \in {0} \cup DOMAIN tries : ProgramChecked(t, p, a)
    \/ \E a \in DOMAIN tries : TimeIsOver(a) \/ TimerReads(a)
    \/ TimerWrites
    \/ \E i \in DOMAIN subs : ProgramJudged(i)

LegacySpec == LegacyInit /\ [][LegacyNext]_legacyVars

-----------------------------------------------------------------------------
(* Properties                                                              *)

\* The answers of an attempt that has ended stay as they are, whatever syncs are still in
\* flight, unless the request that made the attempt has yet to write its initial answers.
EndedKeepsAnswers ==
    [][\A a \in DOMAIN tries :
          Finished(a) /\ tries'[a].answers # tries[a].answers =>
              \E t \in Visit : visit[t].pc = "reset" /\ visit[t].a = a]_legacyVars

\* The score stored with an attempt is what the leaderboard works out for it, unless a
\* program has been submitted or judged since the attempt was scored: the comment in
\* calculateExamScore says the two are aligned.
ScoreMatchesBoard ==
    \A a \in DOMAIN tries :
        tries[a].score # 0 /\ tries[a].seen = Progress =>
            tries[a].score = getExamLeaderboard(a) + 1
=============================================================================
