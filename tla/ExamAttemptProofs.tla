-------------------------- MODULE ExamAttemptProofs --------------------------
(***************************************************************************)
(* For any number of tabs, timer passes, sessions and attempts: types, one *)
(* attempt per session; when requests for the access state do not overlap, *)
(* the limit of attempts and a single attempt in progress; and when no     *)
(* requests overlap, what a sync confirms and a submission made in time    *)
(* stand.                                                                  *)
(***************************************************************************)
EXTENDS ExamAttempt, SequenceTheorems, FiniteSetTheorems, TLAPS

\* The steps at which a request uses the session, or the attempt, it has read.
OnSession == {"expire", "find", "count", "create", "link", "reload"}
OnAttempt == {"link", "check", "store", "flush", "finish", "complete"}

RefersTo(r, sessions, attempts) ==
    /\ r.s <= sessions /\ r.a <= attempts /\ r.n <= attempts
    /\ r.pc \in OnSession => r.s # 0
    /\ r.pc \in OnAttempt => r.a # 0

RequestInv ==
    /\ req \in [Tab -> RequestType]
    /\ \A t \in Tab : RefersTo(req[t], Len(sess), Len(att))

\* A session is linked from the moment it makes an attempt, and never unlinked again:
\* that is why it cannot make another one.
StoreInv ==
    /\ sess \in Seq(SessionType) /\ Len(sess) <= MaxSessions
    /\ att \in Seq(AttemptType) /\ Len(att) <= Len(sess)
    /\ \A s \in 1..Len(sess) : sess[s].part <= Len(att)
    /\ \A a \in 1..Len(att) :
          att[a].from \in 1..Len(sess) /\ sess[att[a].from].part # 0
    /\ SessionStartsOneAttempt

FlagsInv ==
    /\ access \in {"none", "eligible", "active", "completed", "revoked"}
    /\ approved \in BOOLEAN /\ ended \in BOOLEAN /\ published \in BOOLEAN
    /\ admin \in 0..MaxAdmin

TickInv == tick \in [Tick -> 0..MaxSessions] /\ \A k \in Tick : tick[k] <= Len(att)

IInv == StoreInv /\ RequestInv /\ TickInv /\ FlagsInv

LEMMA IInvTypes == IInv => TypeOK
BY DEF IInv, StoreInv, RequestInv, TickInv, FlagsInv, TypeOK

-----------------------------------------------------------------------------
(* Sequences and sizes                                                     *)

LEMMA SessionPut ==
    ASSUME NEW q \in Seq(SessionType), NEW i \in 1..Len(q), NEW r \in SessionType
    PROVE  /\ [q EXCEPT ![i] = r] \in Seq(SessionType)
           /\ Len([q EXCEPT ![i] = r]) = Len(q)
           /\ [q EXCEPT ![i] = r][i] = r
           /\ \A j \in 1..Len(q) : j # i => [q EXCEPT ![i] = r][j] = q[j]
BY ExceptSeq

LEMMA AttemptPut ==
    ASSUME NEW q \in Seq(AttemptType), NEW i \in 1..Len(q), NEW r \in AttemptType
    PROVE  /\ [q EXCEPT ![i] = r] \in Seq(AttemptType)
           /\ Len([q EXCEPT ![i] = r]) = Len(q)
           /\ [q EXCEPT ![i] = r][i] = r
           /\ \A j \in 1..Len(q) : j # i => [q EXCEPT ![i] = r][j] = q[j]
BY ExceptSeq

\* No more attempts than sessions: from maps the former one to one into the latter.
LEMMA AttemptsFit ==
    ASSUME NEW m \in Nat, NEW n \in Nat, NEW f \in [1..m -> 1..n],
           \A a, b \in 1..m : f[a] = f[b] => a = b
    PROVE  m <= n
<1>1. f \in Injection(1..m, 1..n)
  BY DEF Injection, IsInjective
<1>2. IsFiniteSet(1..n) /\ Cardinality(1..n) = n
  BY FS_Interval
<1>3. Cardinality(1..m) = m
  BY FS_Interval
<1>4. Cardinality(1..m) <= Cardinality(1..n)
  BY <1>1, <1>2, FS_Injection
<1> QED
  BY <1>2, <1>3, <1>4

-----------------------------------------------------------------------------
(* What a step does to sessions and attempts                               *)

\* The attempts are the same; what changes in one of them does not start it again.
SameAttempts ==
    /\ att' \in Seq(AttemptType) /\ Len(att') = Len(att)
    /\ \A a \in 1..Len(att) :
          att'[a].from = att[a].from /\ (InProgress(a)' => InProgress(a))

\* The sessions are the same, and the linked ones stay linked.
SameSessions ==
    /\ sess' \in Seq(SessionType) /\ Len(sess') = Len(sess)
    /\ \A s \in 1..Len(sess) :
          sess'[s].part <= Len(att) /\ (sess[s].part # 0 => sess'[s].part # 0)

NewSession == att' = att /\ sess' = Append(sess, [st |-> "eligible", part |-> 0])

\* An attempt and the mark on the session that makes it.
NewStart(s) ==
    /\ sess[s].st = "eligible" /\ sess[s].part = 0
    /\ att' = Append(att, NewAttempt(s))
    /\ sess' = [sess EXCEPT ![s] = [st |-> "started", part |-> Len(att) + 1]]

LEMMA StoreUnchanged ==
    ASSUME StoreInv, UNCHANGED <<sess, att>>
    PROVE  SameSessions /\ SameAttempts
BY DEF StoreInv, SameSessions, SameAttempts, InProgress

LEMMA OneSessionChanges ==
    ASSUME StoreInv, NEW i \in 1..Len(sess), NEW r \in SessionType,
           sess' = [sess EXCEPT ![i] = r], att' = att,
           r.part <= Len(att), sess[i].part # 0 => r.part # 0
    PROVE  SameSessions /\ SameAttempts
<1>1. sess \in Seq(SessionType) /\ att \in Seq(AttemptType)
      /\ \A s \in 1..Len(sess) : sess[s].part <= Len(att)
  BY DEF StoreInv
<1>2. sess' \in Seq(SessionType) /\ Len(sess') = Len(sess) /\ sess'[i] = r
      /\ \A j \in 1..Len(sess) : j # i => sess'[j] = sess[j]
  BY <1>1, SessionPut
<1> QED
  BY <1>1, <1>2 DEF SameSessions, SameAttempts, InProgress

LEMMA OneAttemptChanges ==
    ASSUME StoreInv, NEW i \in 1..Len(att), NEW r \in AttemptType,
           att' = [att EXCEPT ![i] = r], sess' = sess,
           r.from = att[i].from, r.st = "IN_PROGRESS" => InProgress(i)
    PROVE  SameSessions /\ SameAttempts
<1>1. sess \in Seq(SessionType) /\ att \in Seq(AttemptType)
      /\ \A s \in 1..Len(sess) : sess[s].part <= Len(att)
  BY DEF StoreInv
<1>2. att' \in Seq(AttemptType) /\ Len(att') = Len(att) /\ att'[i] = r
      /\ \A j \in 1..Len(att) : j # i => att'[j] = att[j]
  BY <1>1, AttemptPut
<1> QED
  BY <1>1, <1>2 DEF SameSessions, SameAttempts, InProgress

LEMMA StoreSame ==
    ASSUME StoreInv, SameSessions, SameAttempts
    PROVE  StoreInv'
<1>1. Len(sess) \in Nat /\ Len(att) \in Nat /\ DOMAIN att = 1..Len(att)
      /\ DOMAIN att' = 1..Len(att)
  BY LenProperties DEF StoreInv, SameAttempts
<1> QED
  BY <1>1 DEF StoreInv, SameSessions, SameAttempts, SessionStartsOneAttempt

LEMMA StoreGrows ==
    ASSUME StoreInv, NewSession, Len(sess) < MaxSessions
    PROVE  StoreInv' /\ Len(sess') = Len(sess) + 1 /\ sess'[Len(sess) + 1].part = 0
           /\ \A s \in 1..Len(sess) : sess'[s] = sess[s]
<1> DEFINE r == [st |-> "eligible", part |-> 0]
<1>1. sess \in Seq(SessionType) /\ att \in Seq(AttemptType)
      /\ Len(sess) \in Nat /\ Len(att) \in Nat /\ DOMAIN att = 1..Len(att)
  BY LenProperties DEF StoreInv
<1>2. r \in SessionType
  BY AttemptAssumption DEF SessionType
<1>3. sess' \in Seq(SessionType) /\ Len(sess') = Len(sess) + 1
      /\ sess'[Len(sess) + 1] = r /\ \A s \in 1..Len(sess) : sess'[s] = sess[s]
  BY <1>1, <1>2, AppendProperties DEF NewSession
<1>4. (\A s \in 1..Len(sess') : sess'[s].part <= Len(att'))
  BY <1>1, <1>3 DEF StoreInv, NewSession
<1> QED
  BY <1>1, <1>3, <1>4, AttemptAssumption DEF StoreInv, NewSession, SessionStartsOneAttempt

LEMMA StoreStarts ==
    ASSUME StoreInv, ended \in BOOLEAN, NEW s \in 1..Len(sess), NewStart(s)
    PROVE  /\ StoreInv'
           /\ Len(sess') = Len(sess) /\ Len(att') = Len(att) + 1
           /\ sess'[s] = [st |-> "started", part |-> Len(att) + 1]
           /\ \A x \in 1..Len(sess) : x # s => sess'[x] = sess[x]
           /\ att'[Len(att) + 1] = NewAttempt(s)
           /\ \A a \in 1..Len(att) : att'[a] = att[a]
<1> DEFINE r == [st |-> "started", part |-> Len(att) + 1]
<1>1. sess \in Seq(SessionType) /\ att \in Seq(AttemptType)
      /\ Len(sess) \in Nat /\ Len(att) \in Nat /\ DOMAIN att = 1..Len(att)
      /\ MaxSessions \in Nat /\ Len(sess) <= MaxSessions
  BY LenProperties, AttemptAssumption DEF StoreInv
<1>2. NewAttempt(s) \in AttemptType /\ NewAttempt(s).from = s
  BY <1>1 DEF NewAttempt, AttemptType
<1>3. att' \in Seq(AttemptType) /\ Len(att') = Len(att) + 1
      /\ att'[Len(att) + 1] = NewAttempt(s) /\ \A a \in 1..Len(att) : att'[a] = att[a]
      /\ DOMAIN att' = 1..Len(att) + 1
  BY <1>1, <1>2, AppendProperties, LenProperties DEF NewStart
<1>4. \A a \in 1..Len(att) : att[a].from \in 1..Len(sess) /\ att[a].from # s
  BY DEF StoreInv, NewStart
<1>a. \A a, b \in 1..Len(att) : att[a].from = att[b].from => a = b
  BY <1>1 DEF StoreInv, SessionStartsOneAttempt
<1>b. \A a \in 1..Len(att) + 1 :
          (a \in 1..Len(att) /\ att'[a].from = att[a].from)
          \/ (a = Len(att) + 1 /\ att'[a].from = s)
  BY <1>1, <1>2, <1>3
<1>5. ASSUME NEW a \in 1..Len(att) + 1, NEW b \in 1..Len(att) + 1,
             att'[a].from = att'[b].from
      PROVE  a = b
  BY <1>4, <1>5, <1>a, <1>b
<1>6. Len(att) + 1 <= Len(sess)
  <2> DEFINE f == [a \in 1..Len(att) + 1 |-> att'[a].from]
  <2>1. f \in [1..Len(att) + 1 -> 1..Len(sess)]
    BY <1>1, <1>2, <1>3, <1>4
  <2>2. \A a, b \in 1..Len(att) + 1 : f[a] = f[b] => a = b
    BY <1>5
  <2>3. Len(att) + 1 \in Nat
    BY <1>1
  <2> HIDE DEF f
  <2> QED
    BY <1>1, <2>1, <2>2, <2>3, AttemptsFit
<1>7. r \in SessionType
  BY <1>1, <1>6 DEF SessionType
<1>8. sess' \in Seq(SessionType) /\ Len(sess') = Len(sess) /\ sess'[s] = r
      /\ \A x \in 1..Len(sess) : x # s => sess'[x] = sess[x]
  BY <1>1, <1>7, SessionPut DEF NewStart
<1>9. ASSUME NEW x \in 1..Len(sess') PROVE sess'[x].part <= Len(att')
  <2>1. x \in 1..Len(sess)
    BY <1>8
  <2>2. sess[x] \in SessionType
    BY <1>1, <2>1, ElementOfSeq
  <2>3. sess[x].part \in Nat /\ sess[x].part <= Len(att)
    BY <1>1, <2>1, <2>2 DEF StoreInv, SessionType
  <2> QED
    BY <1>1, <1>3, <1>8, <2>1, <2>3
<1>10. ASSUME NEW a \in 1..Len(att')
       PROVE  att'[a].from \in 1..Len(sess') /\ sess'[att'[a].from].part # 0
  <2>1. CASE a \in 1..Len(att)
    BY SMTT(30), <1>1, <1>4, <1>8, <1>b, <2>1, <1>3 DEF StoreInv
  <2>2. CASE a = Len(att) + 1
    BY <1>1, <1>8, <1>b, <2>2
  <2> QED
    BY <1>1, <1>3, <2>1, <2>2
<1> QED
  BY <1>1, <1>3, <1>5, <1>6, <1>8, <1>9, <1>10 DEF StoreInv, SessionStartsOneAttempt

-----------------------------------------------------------------------------
(* The three shapes of a step                                              *)

Grows == Len(sess) <= Len(sess') /\ Len(att) <= Len(att')

Shape ==
    \/ SameSessions /\ SameAttempts
    \/ NewSession /\ Len(sess) < MaxSessions
    \/ \E s \in 1..Len(sess) : NewStart(s)

LEMMA ShapeKeeps ==
    ASSUME IInv, Shape
    PROVE  StoreInv' /\ Grows
<1>1. StoreInv /\ ended \in BOOLEAN /\ Len(sess) \in Nat /\ Len(att) \in Nat
  BY LenProperties DEF IInv, StoreInv, FlagsInv
<1>2. CASE SameSessions /\ SameAttempts
  BY <1>1, <1>2, StoreSame DEF SameSessions, SameAttempts, Grows
<1>3. CASE NewSession /\ Len(sess) < MaxSessions
  BY <1>1, <1>3, StoreGrows DEF NewSession, Grows
<1>4. CASE \E s \in 1..Len(sess) : NewStart(s)
  BY <1>1, <1>4, StoreStarts DEF Grows
<1> QED
  BY <1>2, <1>3, <1>4 DEF Shape

\* Where the references of a request point.
LEMMA Pointers ==
    ASSUME IInv, NEW t \in Tab
    PROVE  /\ Len(sess) \in Nat /\ Len(att) \in Nat
           /\ Len(att) <= Len(sess) /\ Len(sess) <= MaxSessions
           /\ DOMAIN sess = 1..Len(sess) /\ DOMAIN att = 1..Len(att)
           /\ req[t] \in RequestType /\ RefersTo(req[t], Len(sess), Len(att))
           /\ req[t].pc \in OnSession => req[t].s \in 1..Len(sess)
           /\ req[t].pc \in OnAttempt => req[t].a \in 1..Len(att)
           /\ req[t].s # 0 => req[t].s \in 1..Len(sess)
           /\ \A s \in 1..Len(sess) : sess[s] \in SessionType /\ sess[s].part <= Len(att)
           /\ \A a \in 1..Len(att) : att[a] \in AttemptType
<1>1. sess \in Seq(SessionType) /\ att \in Seq(AttemptType)
      /\ Len(att) <= Len(sess) /\ Len(sess) <= MaxSessions
      /\ \A s \in 1..Len(sess) : sess[s].part <= Len(att)
  BY DEF IInv, StoreInv
<1>2. Len(sess) \in Nat /\ Len(att) \in Nat
      /\ DOMAIN sess = 1..Len(sess) /\ DOMAIN att = 1..Len(att)
  BY <1>1, LenProperties
<1>3. req[t] \in RequestType /\ RefersTo(req[t], Len(sess), Len(att))
  BY DEF IInv, RequestInv
<1>4. req[t].s \in Nat /\ req[t].a \in Nat
  BY <1>3 DEF RequestType
<1>5. (\A s \in 1..Len(sess) : sess[s] \in SessionType)
      /\ (\A a \in 1..Len(att) : att[a] \in AttemptType)
  BY <1>1, ElementOfSeq
<1> QED
  BY <1>1, <1>2, <1>3, <1>4, <1>5 DEF RefersTo

-----------------------------------------------------------------------------
(* Requests                                                                *)

LEMMA RequestPut ==
    ASSUME IInv, StoreInv', Grows, NEW t \in Tab, NEW r \in RequestType,
           RefersTo(r, Len(sess'), Len(att')), req' = [req EXCEPT ![t] = r]
    PROVE  RequestInv'
<1>1. req' \in [Tab -> RequestType] /\ req'[t] = r
      /\ \A u \in Tab \ {t} : req'[u] = req[u]
  BY DEF IInv, RequestInv
<1>2. ASSUME NEW u \in Tab \ {t} PROVE RefersTo(req'[u], Len(sess'), Len(att'))
  <2>1. Len(sess) \in Nat /\ Len(att) \in Nat /\ req[u] \in RequestType
        /\ RefersTo(req[u], Len(sess), Len(att))
    BY Pointers
  <2>2. Len(sess') \in Nat /\ Len(att') \in Nat
    BY LenProperties DEF StoreInv
  <2> QED
    BY <1>1, <2>1, <2>2 DEF RefersTo, Grows, RequestType
<1> QED
  BY <1>1, <1>2 DEF RequestInv

PcSet == {"idle", "verify", "resume", "expire", "find", "count", "create", "link",
          "activate", "check", "store", "flush", "release", "reload", "finish", "complete"}

\* x is a request with these fields.
IsRequest(x, pc, s, a, n) ==
    x \in RequestType /\ x.pc = pc /\ x.s = s /\ x.a = a /\ x.n = n

\* What the updates of a request in the specification make of it.
LEMMA PutPc ==
    ASSUME NEW r \in RequestType, NEW pc \in PcSet
    PROVE  IsRequest([r EXCEPT !.pc = pc], pc, r.s, r.a, r.n)
BY DEF RequestType, PcSet, IsRequest

LEMMA PutSession ==
    ASSUME NEW r \in RequestType, NEW pc \in PcSet, NEW s \in 0..MaxSessions
    PROVE  IsRequest([r EXCEPT !.pc = pc, !.s = s], pc, s, r.a, r.n)
BY DEF RequestType, PcSet, IsRequest

LEMMA PutSessionOk ==
    ASSUME NEW r \in RequestType, NEW pc \in PcSet, NEW s \in 0..MaxSessions, NEW ok \in BOOLEAN
    PROVE  IsRequest([r EXCEPT !.pc = pc, !.s = s, !.ok = ok], pc, s, r.a, r.n)
BY DEF RequestType, PcSet, IsRequest

LEMMA PutAttempt ==
    ASSUME NEW r \in RequestType, NEW pc \in PcSet, NEW a \in 0..MaxSessions
    PROVE  IsRequest([r EXCEPT !.pc = pc, !.a = a], pc, r.s, a, r.n)
BY DEF RequestType, PcSet, IsRequest

LEMMA PutAttemptAnswers ==
    ASSUME NEW r \in RequestType, NEW pc \in PcSet,
           NEW a \in 0..MaxSessions, NEW ans \in SUBSET Answer
    PROVE  IsRequest([r EXCEPT !.pc = pc, !.a = a, !.ans = ans], pc, r.s, a, r.n)
BY DEF RequestType, PcSet, IsRequest

LEMMA PutSubmission ==
    ASSUME NEW r \in RequestType, NEW pc \in PcSet,
           NEW a \in 0..MaxSessions, NEW ans \in SUBSET Answer, NEW n \in 0..MaxSessions
    PROVE  IsRequest([r EXCEPT !.pc = pc, !.a = a, !.ans = ans, !.n = n], pc, r.s, a, n)
BY DEF RequestType, PcSet, IsRequest

LEMMA PutAnswers ==
    ASSUME NEW r \in RequestType, NEW pc \in PcSet, NEW ans \in SUBSET Answer
    PROVE  IsRequest([r EXCEPT !.pc = pc, !.ans = ans], pc, r.s, r.a, r.n)
BY DEF RequestType, PcSet, IsRequest

LEMMA PutOk ==
    ASSUME NEW r \in RequestType, NEW ok \in BOOLEAN
    PROVE  IsRequest([r EXCEPT !.ok = ok], r.pc, r.s, r.a, r.n)
BY DEF RequestType, PcSet, IsRequest

LEMMA PutPcOk ==
    ASSUME NEW r \in RequestType, NEW pc \in PcSet, NEW ok \in BOOLEAN
    PROVE  IsRequest([r EXCEPT !.pc = pc, !.ok = ok], pc, r.s, r.a, r.n)
BY DEF RequestType, PcSet, IsRequest

LEMMA IdleRecord == IsRequest(Idle, "idle", 0, 0, 0)
BY AttemptAssumption DEF Idle, RequestType, IsRequest

\* A request goes on with a session and an attempt that are there.
LEMMA MoveKeeps ==
    ASSUME IInv, StoreInv', Grows, NEW t \in Tab, NEW r, NEW pc, NEW s, NEW a, NEW n,
           IsRequest(r, pc, s, a, n), req' = [req EXCEPT ![t] = r],
           s <= Len(sess), a <= Len(att), n <= Len(att),
           pc \in OnSession => s # 0, pc \in OnAttempt => a # 0
    PROVE  RequestInv'
<1>1. Len(sess) \in Nat /\ Len(att) \in Nat
  BY Pointers
<1>2. Len(sess') \in Nat /\ Len(att') \in Nat
  BY LenProperties DEF StoreInv
<1>3. r.s \in Nat /\ r.a \in Nat /\ r.n \in Nat
  BY DEF IsRequest, RequestType
<1>4. RefersTo(r, Len(sess'), Len(att'))
  BY <1>1, <1>2, <1>3 DEF RefersTo, Grows, IsRequest
<1> QED
  BY <1>4, RequestPut DEF IsRequest

LEMMA GoesKeeps ==
    ASSUME IInv, StoreInv', Grows, NEW t \in Tab, NEW pc \in PcSet, Goes(t, pc),
           pc \in OnSession => req[t].s # 0, pc \in OnAttempt => req[t].a # 0
    PROVE  RequestInv'
<1> DEFINE r == [req[t] EXCEPT !.pc = pc]
<1>1. req[t] \in RequestType /\ RefersTo(req[t], Len(sess), Len(att))
  BY Pointers
<1>2. IsRequest(r, pc, req[t].s, req[t].a, req[t].n)
  BY <1>1, PutPc
<1>3. req' = [req EXCEPT ![t] = r]
  BY DEF Goes
<1> HIDE DEF r
<1> QED
  BY <1>1, <1>2, <1>3, MoveKeeps DEF RefersTo

LEMMA DoneKeeps ==
    ASSUME IInv, StoreInv', Grows, NEW t \in Tab, Done(t)
    PROVE  RequestInv'
<1>1. Len(sess) \in Nat /\ Len(att) \in Nat
  BY Pointers
<1>2. req' = [req EXCEPT ![t] = Idle] /\ "idle" \notin OnSession /\ "idle" \notin OnAttempt
  BY DEF Done, OnSession, OnAttempt
<1>3. 0 <= Len(sess) /\ 0 <= Len(att)
  BY <1>1
<1> QED
  BY <1>2, <1>3, IdleRecord, MoveKeeps

\* A step of a request that changes neither a session nor an attempt.
LEMMA ReadKeeps ==
    ASSUME IInv, UNCHANGED <<sess, att>>
    PROVE  Shape /\ StoreInv' /\ Grows
BY StoreUnchanged, ShapeKeeps DEF IInv, Shape

\* One that changes a session and goes on.
LEMMA LinkKeeps ==
    ASSUME IInv, NEW t \in Tab, NEW i \in 1..Len(sess), NEW r \in SessionType,
           sess' = [sess EXCEPT ![i] = r], att' = att,
           r.part <= Len(att), sess[i].part # 0 => r.part # 0
    PROVE  Shape /\ StoreInv' /\ Grows
BY OneSessionChanges, ShapeKeeps DEF IInv, Shape

\* One that changes an attempt.
LEMMA WriteKeeps ==
    ASSUME IInv, NEW i \in 1..Len(att), NEW r \in AttemptType,
           att' = [att EXCEPT ![i] = r], sess' = sess,
           r.from = att[i].from, r.st = "IN_PROGRESS" => InProgress(i)
    PROVE  Shape /\ StoreInv' /\ Grows
BY OneAttemptChanges, ShapeKeeps DEF IInv, Shape

LEMMA AccessSteps ==
    ASSUME IInv, NEW t \in Tab,
           AccessRead(t) \/ VerifyRead(t) \/ VerifyWrite(t) \/ ExpireSession(t)
    PROVE  Shape /\ RequestInv'
<1>0. Len(sess) \in Nat /\ Len(att) \in Nat /\ DOMAIN sess = 1..Len(sess)
      /\ MaxSessions \in Nat /\ Len(sess) <= MaxSessions
      /\ req[t] \in RequestType /\ RefersTo(req[t], Len(sess), Len(att))
      /\ (req[t].pc \in OnSession => req[t].s \in 1..Len(sess))
      /\ (req[t].s # 0 => req[t].s \in 1..Len(sess))
      /\ \A s \in 1..Len(sess) : sess[s] \in SessionType /\ sess[s].part <= Len(att)
  BY Pointers, AttemptAssumption
<1>1. CASE AccessRead(t)
  <2>1. Shape /\ StoreInv' /\ Grows /\ sess' = sess /\ att' = att
    BY <1>1, ReadKeeps DEF AccessRead
  <2>2. CASE ended
    <3>1. PICK s \in DOMAIN sess : req' = [req EXCEPT ![t] = [Idle EXCEPT !.pc = "expire", !.s = s]]
      BY <1>1, <2>2 DEF AccessRead, Begins
    <3>2. s \in 1..Len(sess) /\ s \in 0..MaxSessions
      BY <1>0
    <3>3. Idle \in RequestType /\ "expire" \in PcSet
      BY IdleRecord DEF PcSet, IsRequest
    <3> DEFINE r == [Idle EXCEPT !.pc = "expire", !.s = s]
    <3>4. IsRequest(r, "expire", s, Idle.a, Idle.n)
      BY <3>2, <3>3, PutSession
    <3> HIDE DEF r
    <3>5. IsRequest(r, "expire", s, 0, 0)
      BY <3>4, IdleRecord DEF IsRequest
    <3>6. s <= Len(sess) /\ s # 0 /\ 0 <= Len(att) /\ "expire" \notin OnAttempt
      BY <1>0, <3>2 DEF OnAttempt
    <3>7. req' = [req EXCEPT ![t] = r]
      BY <3>1 DEF r
    <3> QED
      BY <2>1, <3>5, <3>6, <3>7, MoveKeeps
  <2>3. CASE ~ended
    <3>1. req' = [req EXCEPT ![t] = [Idle EXCEPT !.pc = "verify"]]
      BY <1>1, <2>3 DEF AccessRead, Begins
    <3>2. IsRequest([Idle EXCEPT !.pc = "verify"], "verify", 0, 0, 0)
      <4> DEFINE r == [Idle EXCEPT !.pc = "verify"]
      <4>1. Idle \in RequestType /\ "verify" \in PcSet
        BY IdleRecord DEF PcSet, IsRequest
      <4>2. IsRequest(r, "verify", Idle.s, Idle.a, Idle.n)
        BY <4>1, PutPc
      <4> HIDE DEF r
      <4>3. IsRequest(r, "verify", 0, 0, 0)
        BY <4>2, IdleRecord DEF IsRequest
      <4> QED
        BY <4>3 DEF r
    <3>3. 0 <= Len(sess) /\ 0 <= Len(att) /\ "verify" \notin OnSession /\ "verify" \notin OnAttempt
      BY <1>0 DEF OnSession, OnAttempt
    <3> QED
      BY <2>1, <3>1, <3>2, <3>3, MoveKeeps
  <2> QED
    BY <2>2, <2>3
<1>2. CASE VerifyRead(t)
  <2> DEFINE s == IF sess # <<>> /\ sess[Len(sess)].st # "expired" /\ sess[Len(sess)].part = 0
                  THEN Len(sess) ELSE 0
             r == [req[t] EXCEPT !.pc = "resume", !.s = s]
  <2>1. Shape /\ StoreInv' /\ Grows
    BY <1>2, ReadKeeps DEF VerifyRead
  <2>2. req' = [req EXCEPT ![t] = r]
    BY <1>2 DEF VerifyRead
  <2>3. s \in 0..Len(sess) /\ s \in 0..MaxSessions /\ s <= Len(sess)
    BY <1>0
  <2> HIDE DEF s
  <2>4. IsRequest(r, "resume", s, req[t].a, req[t].n)
    BY <1>0, <2>3, PutSession DEF PcSet
  <2> HIDE DEF r
  <2>5. req[t].a <= Len(att) /\ req[t].n <= Len(att)
        /\ "resume" \notin OnSession /\ "resume" \notin OnAttempt
    BY <1>0 DEF RefersTo, OnSession, OnAttempt
  <2> QED
    BY <2>1, <2>2, <2>3, <2>4, <2>5, MoveKeeps
<1>3. CASE VerifyWrite(t)
  <2>1. Shape /\ StoreInv' /\ Grows
    <3>1. CASE req[t].s # 0
      <4> DEFINE i == req[t].s
                 r == [sess[i] EXCEPT !.st = "eligible"]
      <4>1. i \in 1..Len(sess) /\ sess[i] \in SessionType /\ sess[i].part <= Len(att)
        BY <1>0, <3>1
      <4>2. r \in SessionType /\ r.part = sess[i].part
        BY <4>1 DEF SessionType
      <4>3. sess' = [sess EXCEPT ![i] = r] /\ att' = att
        BY <1>3, <3>1 DEF VerifyWrite
      <4> HIDE DEF i, r
      <4> QED
        BY <4>1, <4>2, <4>3, LinkKeeps
    <3>2. CASE req[t].s = 0
      <4>1. NewSession /\ Len(sess) < MaxSessions
        BY <1>3, <3>2 DEF VerifyWrite, NewSession
      <4> QED
        BY <4>1, ShapeKeeps DEF Shape
    <3> QED
      BY <3>1, <3>2
  <2> QED
    BY <1>3, <2>1, DoneKeeps DEF VerifyWrite
<1>4. CASE ExpireSession(t)
  <2> DEFINE i == req[t].s
             r == [sess[i] EXCEPT !.st = "expired"]
  <2>1. i \in 1..Len(sess) /\ sess[i] \in SessionType /\ sess[i].part <= Len(att)
    BY <1>0, <1>4 DEF ExpireSession, OnSession
  <2>2. r \in SessionType /\ r.part = sess[i].part
    BY <2>1 DEF SessionType
  <2>3. sess' = [sess EXCEPT ![i] = r] /\ att' = att /\ Done(t)
    BY <1>4 DEF ExpireSession
  <2> HIDE DEF i, r
  <2>4. Shape /\ StoreInv' /\ Grows
    BY <2>1, <2>2, <2>3, LinkKeeps
  <2> QED
    BY <2>3, <2>4, DoneKeeps
<1> QED
  BY <1>1, <1>2, <1>3, <1>4

LEMMA StartReadSteps ==
    ASSUME IInv, NEW t \in Tab, NEW s \in 1..Len(sess), StartRead(t, s)
    PROVE  Shape /\ RequestInv'
<1>0. Len(sess) \in Nat /\ Len(att) \in Nat /\ MaxSessions \in Nat
      /\ Len(att) <= MaxSessions /\ s \in 0..MaxSessions
      /\ sess[s] \in SessionType /\ sess[s].part <= Len(att)
  BY Pointers, AttemptAssumption
<1>1. Shape /\ StoreInv' /\ Grows
  BY ReadKeeps DEF StartRead
<1>2. CASE sess[s].st = "started" /\ sess[s].part # 0
  <2> DEFINE a == sess[s].part
             r == [Idle EXCEPT !.pc = "finish", !.a = a]
  <2>1. a \in 0..MaxSessions /\ a # 0 /\ a <= Len(att)
    BY <1>0, <1>2 DEF SessionType
  <2>2. req' = [req EXCEPT ![t] = r]
    BY <1>2 DEF StartRead, Begins
  <2> HIDE DEF a
  <2>p. Idle \in RequestType /\ "finish" \in PcSet
    BY IdleRecord DEF IsRequest, PcSet
  <2>3. IsRequest(r, "finish", Idle.s, a, Idle.n)
    BY <2>1, <2>p, PutAttempt
  <2>4. IsRequest(r, "finish", 0, a, 0)
    BY <2>3, IdleRecord DEF IsRequest
  <2> HIDE DEF r
  <2>5. 0 <= Len(sess) /\ 0 <= Len(att) /\ "finish" \notin OnSession
    BY <1>0 DEF OnSession
  <2> QED
    BY <1>1, <2>1, <2>2, <2>4, <2>5, MoveKeeps
<1>3. CASE ~(sess[s].st = "started" /\ sess[s].part # 0)
  <2> DEFINE ok == sess[s].st = "eligible" /\ MayEnter
             r == [Idle EXCEPT !.pc = "find", !.s = s, !.ok = ok]
  <2>1. ok \in BOOLEAN
    OBVIOUS
  <2>2. req' = [req EXCEPT ![t] = r]
    BY <1>3 DEF StartRead, Begins
  <2> HIDE DEF ok
  <2>p. Idle \in RequestType /\ "find" \in PcSet
    BY IdleRecord DEF IsRequest, PcSet
  <2>3. IsRequest(r, "find", s, Idle.a, Idle.n)
    BY <1>0, <2>1, <2>p, PutSessionOk
  <2>4. IsRequest(r, "find", s, 0, 0)
    BY <2>3, IdleRecord DEF IsRequest
  <2> HIDE DEF r
  <2>5. s <= Len(sess) /\ s # 0 /\ 0 <= Len(att) /\ "find" \notin OnAttempt
    BY <1>0 DEF OnAttempt
  <2> QED
    BY <1>1, <2>2, <2>4, <2>5, MoveKeeps
<1> QED
  BY <1>2, <1>3

LEMMA StartSteps ==
    ASSUME IInv, NEW t \in Tab,
           StartFind(t) \/ StartLink(t) \/ StartCount(t) \/ StartCreate(t)
           \/ StartReload(t) \/ StartActivate(t)
    PROVE  Shape /\ RequestInv'
<1>0. Len(sess) \in Nat /\ Len(att) \in Nat /\ DOMAIN att = 1..Len(att)
      /\ MaxSessions \in Nat /\ Len(att) <= MaxSessions
      /\ req[t] \in RequestType /\ RefersTo(req[t], Len(sess), Len(att))
      /\ (req[t].pc \in OnSession => req[t].s \in 1..Len(sess))
      /\ (req[t].pc \in OnAttempt => req[t].a \in 1..Len(att))
      /\ \A s \in 1..Len(sess) : sess[s] \in SessionType /\ sess[s].part <= Len(att)
  BY Pointers, AttemptAssumption
<1>1. CASE StartFind(t)
  <2>1. Shape /\ StoreInv' /\ Grows
    BY <1>1, ReadKeeps DEF StartFind
  <2>2. req[t].s \in 1..Len(sess) /\ req[t].s # 0
    BY <1>0, <1>1 DEF StartFind, OnSession
  <2>3. CASE \E a \in DOMAIN att : req' = [req EXCEPT ![t].pc = "link", ![t].a = a]
    <3>1. PICK a \in 1..Len(att) : req' = [req EXCEPT ![t].pc = "link", ![t].a = a]
      BY <1>0, <2>3
    <3> DEFINE r == [req[t] EXCEPT !.pc = "link", !.a = a]
    <3>2. req' = [req EXCEPT ![t] = r]
      BY <3>1
    <3>3. a \in 0..MaxSessions /\ a # 0 /\ a <= Len(att)
      BY <1>0
    <3>4. IsRequest(r, "link", req[t].s, a, req[t].n)
      BY <1>0, <3>3, PutAttempt DEF PcSet
    <3> HIDE DEF r
    <3>5. req[t].s <= Len(sess) /\ req[t].n <= Len(att)
      BY <1>0 DEF RefersTo
    <3> QED
      BY <2>1, <2>2, <3>2, <3>3, <3>4, <3>5, MoveKeeps
  <2>4. CASE Goes(t, "expire") \/ Goes(t, "count")
    <3>1. "expire" \in PcSet /\ "count" \in PcSet /\ "expire" \notin OnAttempt
          /\ "count" \notin OnAttempt
      BY DEF PcSet, OnAttempt
    <3> QED
      BY <2>1, <2>2, <2>4, <3>1, GoesKeeps
  <2>5. CASE Done(t)
    BY <2>1, <2>5, DoneKeeps
  <2> QED
    BY <1>1, <2>3, <2>4, <2>5 DEF StartFind
<1>2. CASE StartLink(t)
  <2> DEFINE i == req[t].s
             r == [st |-> "started", part |-> req[t].a]
  <2>1. i \in 1..Len(sess) /\ req[t].a \in 1..Len(att)
    BY <1>0, <1>2 DEF StartLink, OnSession, OnAttempt
  <2>2. r \in SessionType /\ r.part <= Len(att) /\ r.part # 0
    BY <1>0, <2>1 DEF SessionType
  <2>3. sess' = [sess EXCEPT ![i] = r] /\ att' = att
    BY <1>2 DEF StartLink
  <2> HIDE DEF i, r
  <2>4. Shape /\ StoreInv' /\ Grows
    BY <2>1, <2>2, <2>3, LinkKeeps
  <2>5. "activate" \in PcSet /\ "activate" \notin OnAttempt /\ "activate" \notin OnSession
    BY DEF PcSet, OnAttempt, OnSession
  <2> QED
    BY <1>2, <2>4, <2>5, GoesKeeps DEF StartLink
<1>3. CASE StartCount(t)
  <2>1. Shape /\ StoreInv' /\ Grows
    BY <1>3, ReadKeeps DEF StartCount
  <2>2. req[t].s # 0 /\ "create" \in PcSet /\ "create" \notin OnAttempt
    BY <1>0, <1>3 DEF StartCount, OnSession, OnAttempt, PcSet
  <2>3. CASE Goes(t, "create")
    BY <2>1, <2>2, <2>3, GoesKeeps
  <2>4. CASE Done(t)
    BY <2>1, <2>4, DoneKeeps
  <2> QED
    BY <1>3, <2>3, <2>4 DEF StartCount
<1>4. CASE StartCreate(t)
  <2>1. req[t].s \in 1..Len(sess) /\ req[t].s # 0
    BY <1>0, <1>4 DEF StartCreate, OnSession
  <2>2. CASE sess[req[t].s] = [st |-> "eligible", part |-> 0]
    <3>1. NewStart(req[t].s) /\ Goes(t, "activate")
      BY <1>4, <2>2 DEF StartCreate, NewStart
    <3>2. Shape
      BY <2>1, <3>1 DEF Shape
    <3>3. StoreInv' /\ Grows
      BY <3>2, ShapeKeeps
    <3>4. "activate" \in PcSet /\ "activate" \notin OnAttempt /\ "activate" \notin OnSession
      BY DEF PcSet, OnAttempt, OnSession
    <3> QED
      BY <3>1, <3>2, <3>3, <3>4, GoesKeeps
  <2>3. CASE sess[req[t].s] # [st |-> "eligible", part |-> 0]
    <3>1. Goes(t, "reload") /\ UNCHANGED <<att, sess>>
      BY <1>4, <2>3 DEF StartCreate
    <3>2. Shape /\ StoreInv' /\ Grows
      BY <3>1, ReadKeeps
    <3>3. "reload" \in PcSet /\ "reload" \notin OnAttempt
      BY DEF PcSet, OnAttempt
    <3> QED
      BY <2>1, <3>1, <3>2, <3>3, GoesKeeps
  <2> QED
    BY <2>2, <2>3
<1>5. CASE StartReload(t)
  <2>1. Shape /\ StoreInv' /\ Grows
    BY <1>5, ReadKeeps DEF StartReload
  <2>2. CASE Done(t)
    BY <2>1, <2>2, DoneKeeps
  <2>3. CASE ~Done(t)
    <3> DEFINE a == sess[req[t].s].part
               r == [Idle EXCEPT !.pc = "finish", !.a = a]
    <3>1. a \in 0..MaxSessions /\ a # 0 /\ a <= Len(att)
      BY <1>0, <1>5, <2>3 DEF StartReload, SessionType, OnSession
    <3>2. req' = [req EXCEPT ![t] = r]
      BY <1>5, <2>3 DEF StartReload
    <3> HIDE DEF a
    <3>p. Idle \in RequestType /\ "finish" \in PcSet
      BY IdleRecord DEF IsRequest, PcSet
    <3>3. IsRequest(r, "finish", Idle.s, a, Idle.n)
      BY <3>1, <3>p, PutAttempt
    <3>4. IsRequest(r, "finish", 0, a, 0)
      BY <3>3, IdleRecord DEF IsRequest
    <3> HIDE DEF r
    <3>5. 0 <= Len(sess) /\ 0 <= Len(att) /\ "finish" \notin OnSession
      BY <1>0 DEF OnSession
    <3> QED
      BY <2>1, <3>1, <3>2, <3>4, <3>5, MoveKeeps
  <2> QED
    BY <2>2, <2>3
<1>6. CASE StartActivate(t)
  <2>1. Shape /\ StoreInv' /\ Grows
    BY <1>6, ReadKeeps DEF StartActivate
  <2> QED
    BY <1>6, <2>1, DoneKeeps DEF StartActivate
<1> QED
  BY <1>1, <1>2, <1>3, <1>4, <1>5, <1>6

LEMMA ReadSteps ==
    ASSUME IInv, NEW t \in Tab, NEW a \in 1..Len(att), SyncRead(t, a) \/ SubmitRead(t, a)
    PROVE  Shape /\ RequestInv'
<1>0. Len(sess) \in Nat /\ Len(att) \in Nat /\ Len(att) <= MaxSessions
      /\ MaxSessions \in Nat /\ att[a] \in AttemptType
  BY Pointers, AttemptAssumption
<1>1. Shape /\ StoreInv' /\ Grows
  BY ReadKeeps DEF SyncRead, SubmitRead
<1>2. att[a].answers \in SUBSET Answer /\ a \in 0..MaxSessions /\ Len(att) \in 0..MaxSessions
  BY <1>0 DEF AttemptType
<1>3. Idle \in RequestType /\ "check" \in PcSet /\ "flush" \in PcSet
      /\ "check" \notin OnSession /\ "flush" \notin OnSession
  BY IdleRecord DEF IsRequest, PcSet, OnSession
<1>4. 0 <= Len(sess) /\ 0 <= Len(att) /\ a <= Len(att) /\ a # 0 /\ Len(att) <= Len(att)
  BY <1>0
<1>5. CASE SyncRead(t, a)
  <2> DEFINE r == [Idle EXCEPT !.pc = "check", !.a = a, !.ans = att[a].answers]
  <2>1. req' = [req EXCEPT ![t] = r]
    BY <1>5 DEF SyncRead, Begins
  <2>2. IsRequest(r, "check", Idle.s, a, Idle.n)
    BY <1>2, <1>3, PutAttemptAnswers
  <2>3. IsRequest(r, "check", 0, a, 0)
    BY <2>2, IdleRecord DEF IsRequest
  <2> HIDE DEF r
  <2> QED
    BY <1>1, <1>3, <1>4, <2>1, <2>3, MoveKeeps
<1>6. CASE SubmitRead(t, a)
  <2> DEFINE m == Len(att)
             r == [Idle EXCEPT !.pc = "flush", !.a = a, !.ans = att[a].answers, !.n = m]
  <2>1. req' = [req EXCEPT ![t] = r]
    BY <1>6 DEF SubmitRead, Begins
  <2>2. IsRequest(r, "flush", Idle.s, a, m)
    BY <1>2, <1>3, PutSubmission
  <2>3. IsRequest(r, "flush", 0, a, m)
    BY <2>2, IdleRecord DEF IsRequest
  <2> HIDE DEF r
  <2> QED
    BY <1>1, <1>3, <1>4, <2>1, <2>3, MoveKeeps
<1> QED
  BY <1>5, <1>6

\* What the writes make of an attempt.
LEMMA AttemptStored ==
    ASSUME NEW r \in AttemptType, NEW x \in SUBSET Answer, NEW y \in SUBSET Answer
    PROVE  [r EXCEPT !.answers = x, !.acked = y] \in AttemptType
           /\ [r EXCEPT !.answers = x, !.acked = y].from = r.from
           /\ [r EXCEPT !.answers = x, !.acked = y].st = r.st
BY DEF AttemptType

LEMMA AttemptExpired ==
    ASSUME NEW r \in AttemptType, NEW x \in SUBSET Answer
    PROVE  LET z == [r EXCEPT !.st = "EXPIRED", !.snapshot = x, !.locked = TRUE, !.inTime = FALSE]
           IN  z \in AttemptType /\ z.from = r.from /\ z.st = "EXPIRED"
BY DEF AttemptType

LEMMA AttemptMarked ==
    ASSUME NEW r \in AttemptType
    PROVE  /\ [r EXCEPT !.st = "EXPIRED"] \in AttemptType
           /\ [r EXCEPT !.st = "EXPIRED"].from = r.from
           /\ [r EXCEPT !.st = "EXPIRED"].st = "EXPIRED"
           /\ [r EXCEPT !.late = TRUE] \in AttemptType
           /\ [r EXCEPT !.late = TRUE].from = r.from
           /\ [r EXCEPT !.late = TRUE].st = r.st
BY DEF AttemptType

LEMMA SyncSteps ==
    ASSUME IInv, NEW t \in Tab, SyncCheck(t) \/ \E x \in Answer : SyncStore(t, x)
    PROVE  Shape /\ RequestInv'
<1>0. req[t] \in RequestType /\ (req[t].pc \in OnAttempt => req[t].a \in 1..Len(att))
      /\ \A a \in 1..Len(att) : att[a] \in AttemptType
  BY Pointers
<1>1. CASE SyncCheck(t)
  <2>1. Shape /\ StoreInv' /\ Grows
    BY <1>1, ReadKeeps DEF SyncCheck
  <2>2. req[t].a # 0 /\ "finish" \in PcSet /\ "store" \in PcSet
        /\ "finish" \notin OnSession /\ "store" \notin OnSession
    BY <1>0, <1>1 DEF SyncCheck, OnSession, OnAttempt, PcSet
  <2>3. Done(t) \/ Goes(t, "finish") \/ Goes(t, "store")
    BY <1>1 DEF SyncCheck
  <2>4. CASE Done(t)
    BY <2>1, <2>4, DoneKeeps
  <2>5. CASE Goes(t, "finish") \/ Goes(t, "store")
    BY <2>1, <2>2, <2>5, GoesKeeps
  <2> QED
    BY <2>3, <2>4, <2>5
<1>2. ASSUME NEW x \in Answer, SyncStore(t, x) PROVE Shape /\ RequestInv'
  <2> DEFINE i == req[t].a
             y == req[t].ans \cup {x}
             z == att[i].acked \cup {x}
             r == [att[i] EXCEPT !.answers = y, !.acked = z]
  <2>1. i \in 1..Len(att) /\ att[i] \in AttemptType
    BY <1>0, <1>2 DEF SyncStore, OnAttempt
  <2>2. y \in SUBSET Answer /\ z \in SUBSET Answer
    BY <1>0, <2>1 DEF RequestType, AttemptType
  <2>3. att' = [att EXCEPT ![i] = r] /\ sess' = sess
    BY ZenonT(60), <1>2, <2>1 DEF SyncStore
  <2> HIDE DEF i, y, z
  <2>4. r \in AttemptType /\ r.from = att[i].from /\ r.st = att[i].st
    BY ZenonT(60), <2>1, <2>2, AttemptStored
  <2> HIDE DEF r
  <2>5. Shape /\ StoreInv' /\ Grows
    BY <2>1, <2>3, <2>4, WriteKeeps DEF InProgress
  <2> QED
    BY <1>2, <2>5, DoneKeeps DEF SyncStore
<1> QED
  BY <1>1, <1>2

LEMMA FinishSteps ==
    ASSUME IInv, NEW t \in Tab,
           FinishRead(t) \/ FinishWrite(t) \/ FinishAccess(t) \/ SubmitWrite(t)
           \/ SubmitAccess(t) \/ Drop(t)
    PROVE  Shape /\ RequestInv'
<1>0. req[t] \in RequestType /\ (req[t].pc \in OnAttempt => req[t].a \in 1..Len(att))
      /\ RefersTo(req[t], Len(sess), Len(att))
      /\ \A a \in 1..Len(att) : att[a] \in AttemptType
  BY Pointers
<1>1. req[t].s <= Len(sess) /\ req[t].a <= Len(att) /\ req[t].n <= Len(att)
      /\ (req[t].pc \in OnAttempt => req[t].a # 0)
  BY <1>0 DEF RefersTo
<1>2. CASE FinishRead(t)
  <2> DEFINE i == req[t].a
             x == att[i].answers
             r == [req[t] EXCEPT !.pc = "complete", !.ans = x]
  <2>1. Shape /\ StoreInv' /\ Grows
    BY <1>2, ReadKeeps DEF FinishRead
  <2>2. i \in 1..Len(att) /\ i # 0 /\ x \in SUBSET Answer
    BY <1>0, <1>2 DEF FinishRead, OnAttempt, AttemptType
  <2>3. req' = [req EXCEPT ![t] = r]
    BY <1>2 DEF FinishRead
  <2> HIDE DEF x
  <2>4. "complete" \in PcSet /\ "complete" \notin OnSession
    BY DEF PcSet, OnSession
  <2>5. IsRequest(r, "complete", req[t].s, i, req[t].n)
    BY <1>0, <2>2, <2>4, PutAnswers
  <2> HIDE DEF r
  <2> QED
    BY <1>1, <2>1, <2>2, <2>3, <2>4, <2>5, MoveKeeps
<1>3. CASE FinishWrite(t)
  <2> DEFINE i == req[t].a
             x == req[t].ans
             r == [att[i] EXCEPT !.st = "EXPIRED", !.snapshot = x, !.locked = TRUE,
                                 !.inTime = FALSE]
             q == [req[t] EXCEPT !.ok = TRUE]
  <2>1. i \in 1..Len(att) /\ i # 0 /\ att[i] \in AttemptType /\ x \in SUBSET Answer
        /\ req[t].pc = "complete"
    BY <1>0, <1>3 DEF FinishWrite, OnAttempt, RequestType
  <2>2. att' = [att EXCEPT ![i] = r] /\ sess' = sess /\ req' = [req EXCEPT ![t] = q]
    BY <1>3 DEF FinishWrite
  <2> HIDE DEF x
  <2>3. r \in AttemptType /\ r.from = att[i].from /\ r.st = "EXPIRED"
    BY <2>1, AttemptExpired
  <2>4. IsRequest(q, "complete", req[t].s, i, req[t].n)
    BY <1>0, <2>1, PutOk
  <2> HIDE DEF r, q
  <2>5. Shape /\ StoreInv' /\ Grows
    BY <2>1, <2>2, <2>3, WriteKeeps
  <2>6. "complete" \notin OnSession
    BY DEF OnSession
  <2> QED
    BY <1>1, <2>1, <2>2, <2>4, <2>5, <2>6, MoveKeeps
<1>4. CASE SubmitWrite(t)
  <2> DEFINE i == req[t].a
             x == req[t].ans
             b == ~att[i].late
             k == req[t].n < MaxAttempts /\ ~ended
             r == [att[i] EXCEPT !.st = "SUBMITTED", !.snapshot = x, !.locked = TRUE, !.inTime = b]
             q == [req[t] EXCEPT !.pc = "release", !.ok = k]
  <2>1. i \in 1..Len(att) /\ att[i] \in AttemptType /\ x \in SUBSET Answer
        /\ b \in BOOLEAN /\ k \in BOOLEAN
    BY <1>0, <1>4 DEF SubmitWrite, OnAttempt, RequestType
  <2>2. att' = [att EXCEPT ![i] = r] /\ sess' = sess /\ req' = [req EXCEPT ![t] = q]
    BY <1>4 DEF SubmitWrite
  <2> HIDE DEF x, b, k
  <2>3. r \in AttemptType /\ r.from = att[i].from /\ r.st = "SUBMITTED"
    <3>1. PICK c \in BOOLEAN : c = b
      BY <2>1
    <3> DEFINE z == [att[i] EXCEPT !.st = "SUBMITTED", !.snapshot = x, !.locked = TRUE,
                                   !.inTime = c]
    <3>2. z \in AttemptType /\ z.from = att[i].from /\ z.st = "SUBMITTED"
      BY <2>1 DEF AttemptType
    <3>3. r = z
      BY <3>1
    <3> HIDE DEF r, z
    <3> QED
      BY <3>2, <3>3
  <2>4. "release" \in PcSet /\ "release" \notin OnSession /\ "release" \notin OnAttempt
    BY DEF OnSession, OnAttempt, PcSet
  <2>5. IsRequest(q, "release", req[t].s, i, req[t].n)
    BY <1>0, <2>1, <2>4, PutPcOk
  <2> HIDE DEF r, q
  <2>6. Shape /\ StoreInv' /\ Grows
    BY <2>1, <2>2, <2>3, WriteKeeps
  <2> QED
    BY <1>1, <2>2, <2>4, <2>5, <2>6, MoveKeeps
<1>5. CASE FinishAccess(t) \/ SubmitAccess(t) \/ Drop(t)
  <2>1. Shape /\ StoreInv' /\ Grows
    BY <1>5, ReadKeeps DEF FinishAccess, SubmitAccess, Drop
  <2> QED
    BY <1>5, <2>1, DoneKeeps DEF FinishAccess, SubmitAccess, Drop
<1> QED
  BY <1>2, <1>3, <1>4, <1>5

-----------------------------------------------------------------------------
(* The timer, the clock and the administrators                             *)

LEMMA TimeSteps ==
    ASSUME IInv,
           \/ \E k \in Tick : TimerStep(k)
           \/ \E a \in DOMAIN att : TimeIsUp(a)
           \/ ExamEnds
           \/ Approve \/ Reject \/ Revoke \/ Archive
    PROVE  Shape /\ tick' \in [Tick -> 0..MaxSessions] /\ (\A k \in Tick : tick'[k] <= Len(att))
           /\ req' = req
<1>0. Len(sess) \in Nat /\ Len(att) \in Nat /\ DOMAIN att = 1..Len(att)
      /\ MaxSessions \in Nat /\ Len(att) <= MaxSessions
      /\ \A a \in 1..Len(att) : att[a] \in AttemptType
  <2>1. sess \in Seq(SessionType) /\ att \in Seq(AttemptType)
        /\ Len(att) <= Len(sess) /\ Len(sess) <= MaxSessions
    BY DEF IInv, StoreInv
  <2> QED
    BY <2>1, LenProperties, ElementOfSeq, AttemptAssumption
<1>1. tick \in [Tick -> 0..MaxSessions] /\ \A k \in Tick : tick[k] <= Len(att)
  BY DEF IInv, TickInv
<1>2. ASSUME NEW k \in Tick, TimerRead(k)
      PROVE  Shape /\ tick' \in [Tick -> 0..MaxSessions]
             /\ (\A j \in Tick : tick'[j] <= Len(att)) /\ req' = req
  <2>1. PICK a \in 1..Len(att) : tick' = [tick EXCEPT ![k] = a]
    BY <1>0, <1>2 DEF TimerRead
  <2>2. Shape /\ req' = req
    BY <1>2, ReadKeeps DEF TimerRead
  <2> QED
    BY <1>0, <1>1, <2>1, <2>2
<1>3. ASSUME NEW k \in Tick, TimerWrite(k)
      PROVE  Shape /\ tick' \in [Tick -> 0..MaxSessions]
             /\ (\A j \in Tick : tick'[j] <= Len(att)) /\ req' = req
  <2> DEFINE i == tick[k]
             r == [att[i] EXCEPT !.st = "EXPIRED"]
  <2>1. i \in 1..Len(att)
    BY <1>0, <1>1, <1>3 DEF TimerWrite
  <2>2. att' = [att EXCEPT ![i] = r] /\ sess' = sess /\ req' = req
        /\ tick' = [tick EXCEPT ![k] = 0]
    BY <1>3 DEF TimerWrite
  <2>3. r \in AttemptType /\ r.from = att[i].from /\ r.st = "EXPIRED"
    BY <1>0, <2>1, AttemptMarked
  <2>4. tick' \in [Tick -> 0..MaxSessions] /\ \A j \in Tick : tick'[j] <= Len(att)
    BY <1>0, <1>1, <2>2
  <2> HIDE DEF i, r
  <2> QED
    BY <2>1, <2>2, <2>3, <2>4, WriteKeeps
<1>4. ASSUME NEW a \in DOMAIN att, TimeIsUp(a)
      PROVE  Shape /\ tick' = tick /\ req' = req
  <2> DEFINE r == [att[a] EXCEPT !.late = TRUE]
  <2>1. r \in AttemptType /\ r.from = att[a].from /\ r.st = att[a].st /\ a \in 1..Len(att)
    BY <1>0, AttemptMarked
  <2>2. att' = [att EXCEPT ![a] = r] /\ sess' = sess /\ tick' = tick /\ req' = req
    BY <1>4 DEF TimeIsUp
  <2> HIDE DEF r
  <2> QED
    BY <2>1, <2>2, WriteKeeps DEF InProgress
<1>5. CASE ExamEnds
  <2> DEFINE F(a) == [att[a] EXCEPT !.late = TRUE]
  <2>1. \A a \in 1..Len(att) :
           F(a) \in AttemptType /\ F(a).from = att[a].from /\ F(a).st = att[a].st
    BY <1>0, AttemptMarked
  <2>2. att' = [a \in 1..Len(att) |-> F(a)] /\ sess' = sess /\ tick' = tick /\ req' = req
    BY <1>0, <1>5 DEF ExamEnds
  <2> HIDE DEF F
  <2>3. att' \in Seq(AttemptType) /\ Len(att') = Len(att)
        /\ \A a \in 1..Len(att) : att'[a] = F(a)
    BY <1>0, <2>1, <2>2, IsASeq, LenProperties
  <2>4. SameAttempts
    BY <2>1, <2>3 DEF SameAttempts, InProgress
  <2>5. SameSessions
    BY <2>2 DEF SameSessions, IInv, StoreInv
  <2> QED
    BY <1>1, <2>2, <2>4, <2>5 DEF Shape
<1>6. CASE Approve \/ Reject \/ Revoke \/ Archive
  <2>1. UNCHANGED <<sess, att, req, tick>>
    BY <1>6 DEF Approve, Reject, Revoke, Archive, Decide
  <2> QED
    BY <1>1, <2>1, ReadKeeps
<1> QED
  BY <1>1, <1>2, <1>3, <1>4, <1>5, <1>6 DEF TimerStep

\* No step takes a flag out of its type.
LEMMA FlagSteps ==
    ASSUME IInv, [Next]_vars
    PROVE  FlagsInv'
<1>1. FlagsInv /\ MaxAdmin \in Nat
  BY AttemptAssumption DEF IInv
<1>2. ASSUME NEW t \in Tab, RequestStep(t) PROVE FlagsInv'
  <2>1. UNCHANGED <<approved, ended, published, admin>>
    BY ZenonT(60), <1>2 DEF RequestStep, AccessRead, VerifyRead, VerifyWrite, ExpireSession,
       StartRead, StartFind, StartLink, StartCount, StartCreate, StartReload, StartActivate,
       SyncRead, SubmitRead, SyncCheck, SyncStore, FinishRead, FinishWrite, FinishAccess,
       SubmitWrite, SubmitAccess, Drop
  <2>2. access' = access \/ access' \in {"active", "eligible", "completed"}
    BY <1>2 DEF RequestStep, AccessRead, VerifyRead, VerifyWrite, ExpireSession,
       StartRead, StartFind, StartLink, StartCount, StartCreate, StartReload, StartActivate,
       SyncRead, SubmitRead, SyncCheck, SyncStore, FinishRead, FinishWrite, FinishAccess,
       SubmitWrite, SubmitAccess, Drop
  <2> QED
    BY SMTT(30), <1>1, <2>1, <2>2 DEF FlagsInv
<1>3. ASSUME NEW k \in Tick, TimerStep(k) PROVE FlagsInv'
  BY <1>1, <1>3 DEF FlagsInv, TimerStep, TimerRead, TimerWrite
<1>4. ASSUME \/ \E a \in DOMAIN att : TimeIsUp(a)
             \/ ExamEnds \/ Approve \/ Reject \/ Revoke \/ Archive
      PROVE  FlagsInv'
  <2>1. access' \in {"none", "eligible", "active", "completed", "revoked"}
        /\ admin' \in 0..MaxAdmin
    BY <1>1, <1>4 DEF FlagsInv, TimeIsUp, ExamEnds, Approve, Reject, Revoke, Archive, Decide
  <2>2. approved' \in BOOLEAN
    BY <1>1, <1>4, Zenon
       DEF FlagsInv, TimeIsUp, ExamEnds, Approve, Reject, Revoke, Archive, Decide
  <2>3. ended' \in BOOLEAN
    BY <1>1, <1>4, Zenon
       DEF FlagsInv, TimeIsUp, ExamEnds, Approve, Reject, Revoke, Archive, Decide
  <2>4. published' \in BOOLEAN
    BY <1>1, <1>4, Zenon
       DEF FlagsInv, TimeIsUp, ExamEnds, Approve, Reject, Revoke, Archive, Decide
  <2> QED
    BY <2>1, <2>2, <2>3, <2>4 DEF FlagsInv
<1>5. CASE UNCHANGED vars
  BY <1>1, <1>5 DEF FlagsInv, vars
<1> QED
  BY <1>2, <1>3, <1>4, <1>5 DEF Next

LEMMA RequestSteps ==
    ASSUME IInv, NEW t \in Tab, RequestStep(t)
    PROVE  Shape /\ RequestInv' /\ tick' = tick
<1>1. DOMAIN sess = 1..Len(sess) /\ DOMAIN att = 1..Len(att)
  BY SMTT(30), Pointers
<1>2. tick' = tick
  BY DEF RequestStep, AccessRead, VerifyRead, VerifyWrite, ExpireSession,
     StartRead, StartFind, StartLink, StartCount, StartCreate, StartReload, StartActivate,
     SyncRead, SubmitRead, SyncCheck, SyncStore, FinishRead, FinishWrite, FinishAccess,
     SubmitWrite, SubmitAccess, Drop
<1> QED
  BY <1>1, <1>2, AccessSteps, StartReadSteps, StartSteps, ReadSteps, SyncSteps, FinishSteps
     DEF RequestStep

\* Requests and timer passes that stand still refer to what is still there.
LEMMA RefersOn ==
    ASSUME IInv, StoreInv', Grows, req' = req
    PROVE  RequestInv'
<1>1. Len(sess') \in Nat /\ Len(att') \in Nat
  BY LenProperties DEF StoreInv
<1>2. ASSUME NEW t \in Tab PROVE RefersTo(req[t], Len(sess'), Len(att'))
  <2>1. Len(sess) \in Nat /\ Len(att) \in Nat /\ req[t] \in RequestType
        /\ RefersTo(req[t], Len(sess), Len(att))
    BY Pointers
  <2> QED
    BY <1>1, <2>1 DEF RefersTo, Grows, RequestType
<1> QED
  BY <1>2 DEF IInv, RequestInv

\* The invariant is inductive, and every step has one of the three shapes.
LEMMA IInvKept ==
    ASSUME IInv, [Next]_vars
    PROVE  Shape /\ IInv'
<1>1. Shape
  <2>1. CASE UNCHANGED vars
    BY <2>1, ReadKeeps DEF vars
  <2> QED
    BY <2>1, RequestSteps, TimeSteps DEF Next
<1>2. StoreInv' /\ Grows
  BY <1>1, ShapeKeeps
<1>3. RequestInv'
  <2>1. CASE \E t \in Tab : RequestStep(t)
    BY <2>1, RequestSteps
  <2>2. CASE ~\E t \in Tab : RequestStep(t)
    <3>1. req' = req
      BY <2>2, TimeSteps DEF Next, vars
    <3> QED
      BY <1>2, <3>1, RefersOn
  <2> QED
    BY <2>1, <2>2
<1>4. TickInv'
  <2>1. tick \in [Tick -> 0..MaxSessions] /\ \A k \in Tick : tick[k] <= Len(att)
    BY DEF IInv, TickInv
  <2>2. tick' \in [Tick -> 0..MaxSessions] /\ \A k \in Tick : tick'[k] <= Len(att)
    BY <2>1, RequestSteps, TimeSteps DEF Next, vars
  <2>3. Len(att) \in Nat /\ Len(att') \in Nat
    BY <1>2, LenProperties DEF IInv, StoreInv
  <2>4. ASSUME NEW k \in Tick PROVE tick'[k] <= Len(att')
    BY <1>2, <2>2, <2>3, AttemptAssumption DEF Grows
  <2> QED
    BY <2>2, <2>4 DEF TickInv
<1> QED
  BY <1>1, <1>2, <1>3, <1>4, FlagSteps DEF IInv

LEMMA IInvInit == Init => IInv
<1> SUFFICES ASSUME Init PROVE IInv
  OBVIOUS
<1>1. sess = <<>> /\ att = <<>> /\ Len(sess) = 0 /\ Len(att) = 0
  BY DEF Init
<1>2. sess \in Seq(SessionType) /\ att \in Seq(AttemptType)
  BY <1>1
<1>3. StoreInv
  BY <1>1, <1>2, AttemptAssumption DEF StoreInv, SessionStartsOneAttempt
<1>4. RequestInv
  BY <1>1, IdleRecord DEF Init, RequestInv, IsRequest, RefersTo, OnSession, OnAttempt
<1>5. TickInv
  BY <1>1, AttemptAssumption DEF Init, TickInv
<1>6. FlagsInv
  <2>1. approved \in BOOLEAN /\ ended \in BOOLEAN /\ published \in BOOLEAN
    BY Zenon DEF Init
  <2>2. access = "eligible" /\ admin \in 0..MaxAdmin
    BY AttemptAssumption DEF Init
  <2> QED
    BY <2>1, <2>2 DEF FlagsInv
<1> QED
  BY <1>3, <1>4, <1>5, <1>6 DEF IInv

-----------------------------------------------------------------------------
(* Theorems                                                                *)

\* Requests, timer passes and the two tables keep their types, and there are never more
\* attempts than sessions, whatever is interleaved.
THEOREM ExamTypeOK == Spec => []TypeOK
<1>1. IInv /\ [Next]_vars => IInv'
  BY IInvKept
<1> QED
  BY <1>1, IInvInit, IInvTypes, PTL DEF Spec

\* However many tabs race on it, and though getAccessState may set a started session
\* back to eligible, a session makes one attempt: it stays linked to it.
THEOREM SessionsStartOnce == Spec => []SessionStartsOneAttempt
<1>1. IInv /\ [Next]_vars => IInv'
  BY IInvKept
<1>2. IInv => SessionStartsOneAttempt
  BY DEF IInv, StoreInv
<1> QED
  BY <1>1, <1>2, IInvInit, PTL DEF Spec

-----------------------------------------------------------------------------

SerialAccess == \A t, u \in AccessTab : t = u

\* A session that makes no attempt: it is linked to one, or expired.
Closed(s) == sess[s].part # 0 \/ sess[s].st = "expired"

\* Only the latest session can make an attempt.
OlderClosed == \A s \in 1..Len(sess) : s < Len(sess) => Closed(s)

AccessAlone == \A t \in Tab : req[t].pc \in {"verify", "resume"} => t \in AccessTab

\* A request makes a session only if the latest one is closed, and otherwise resumes it.
ResumesLatest ==
    \A t \in Tab : req[t].pc = "resume" =>
        IF req[t].s = 0 THEN Len(sess) = 0 \/ Closed(Len(sess)) ELSE req[t].s = Len(sess)

\* What a start has checked on the way to its transaction is still so, as long as its
\* session is the latest one and is not linked.
StartsFree ==
    \A t \in Tab :
        req[t].pc \in {"count", "create"} /\ req[t].s = Len(sess) /\ sess[Len(sess)].part = 0 =>
            /\ \A a \in 1..Len(att) : ~InProgress(a)
            /\ req[t].pc = "create" => Len(att) < MaxAttempts

SerialInv ==
    /\ OlderClosed /\ AccessAlone /\ ResumesLatest /\ StartsFree
    /\ AttemptsWithinLimit /\ OneAttemptInProgress

-----------------------------------------------------------------------------
(* Steps that tell these requests nothing new                              *)

Guarded == {"verify", "resume", "count", "create"}
Waiting == \A t \in Tab : req'[t].pc \in Guarded => req'[t] = req[t]

Quiet ==
    /\ SameAttempts /\ Waiting
    /\ Len(sess') = Len(sess)
    /\ \A s \in 1..Len(sess) :
          (sess[s].part # 0 => sess'[s].part # 0) /\ (Closed(s) => Closed(s)')

LEMMA QuietKeeps ==
    ASSUME IInv, SerialInv, Quiet
    PROVE  SerialInv'
<1>1. Len(sess) \in Nat /\ Len(att) \in Nat
      /\ DOMAIN att = 1..Len(att) /\ DOMAIN att' = 1..Len(att) /\ Len(att') = Len(att)
  BY LenProperties DEF IInv, StoreInv, Quiet, SameAttempts
<1>2. OlderClosed'
  BY <1>1 DEF SerialInv, OlderClosed, Quiet
<1>3. AccessAlone'
  BY DEF SerialInv, AccessAlone, Quiet, Waiting, Guarded
<1>4. ResumesLatest'
  BY <1>1 DEF SerialInv, ResumesLatest, Quiet, Waiting, Guarded
<1>5. ASSUME NEW t \in Tab, req'[t].pc \in {"count", "create"},
             req'[t].s = Len(sess'), sess'[Len(sess')].part = 0
      PROVE  /\ \A a \in 1..Len(att') : ~InProgress(a)'
             /\ req'[t].pc = "create" => Len(att') < MaxAttempts
  <2>1. req'[t] = req[t] /\ Len(sess') = Len(sess)
    BY <1>5 DEF Quiet, Waiting, Guarded
  <2>2. Len(sess) \in 1..Len(sess)
    <3>1. req[t].s \in 1..Len(sess)
      BY <1>5, <2>1, Pointers DEF OnSession
    <3> QED
      BY <1>5, <2>1, <3>1
  <2>3. sess[Len(sess)].part = 0
    BY <1>5, <2>1, <2>2 DEF Quiet
  <2> QED
    BY <1>1, <1>5, <2>1, <2>3 DEF SerialInv, StartsFree, Quiet, SameAttempts
<1>6. AttemptsWithinLimit'
  BY <1>1 DEF SerialInv, AttemptsWithinLimit
<1>7. OneAttemptInProgress'
  BY <1>1 DEF SerialInv, OneAttemptInProgress, Quiet, SameAttempts
<1> QED
  BY <1>2, <1>3, <1>4, <1>5, <1>6, <1>7 DEF SerialInv, StartsFree

\* A step that leaves the sessions alone starts no attempt.
LEMMA NoStart ==
    ASSUME IInv, Shape, sess' = sess
    PROVE  SameAttempts
<1>1. sess \in Seq(SessionType) /\ Len(sess) \in Nat /\ Len(att) \in Nat
  BY LenProperties DEF IInv, StoreInv
<1>2. ~NewSession
  <2>1. [st |-> "eligible", part |-> 0] \in SessionType
    BY AttemptAssumption DEF SessionType
  <2> QED
    BY <1>1, <2>1, AppendProperties DEF NewSession
<1>3. ASSUME NEW s \in 1..Len(sess), NewStart(s) PROVE FALSE
  <2>1. sess'[s] = [st |-> "started", part |-> Len(att) + 1] /\ sess[s].part = 0
    BY <1>1, <1>3, StoreStarts DEF NewStart, IInv, FlagsInv
  <2> QED
    BY <1>1, <2>1
<1> QED
  BY <1>2, <1>3 DEF Shape

LEMMA QuietIfKept ==
    ASSUME IInv, Shape, sess' = sess, Waiting
    PROVE  Quiet
BY NoStart DEF Quiet, Closed

\* A request that moves to a step that is not guarded.
LEMMA MovesOn ==
    ASSUME IInv, NEW t \in Tab, NEW r, r.pc \notin Guarded, req' = [req EXCEPT ![t] = r]
    PROVE  Waiting
BY DEF Waiting, IInv, RequestInv

LEMMA GoesOn ==
    ASSUME IInv, NEW t \in Tab, NEW pc \in PcSet, pc \notin Guarded, Goes(t, pc)
    PROVE  Waiting
<1>1. [req[t] EXCEPT !.pc = pc].pc = pc
  BY Pointers, PutPc DEF IsRequest
<1> QED
  BY <1>1, MovesOn DEF Goes

LEMMA EndsHere ==
    ASSUME IInv, NEW t \in Tab, Done(t)
    PROVE  Waiting
<1>1. Idle.pc \notin Guarded
  BY DEF Idle, Guarded
<1> QED
  BY <1>1, MovesOn DEF Done

\* Every step but those of an access request before the end of the exam, of a start that
\* passes a check, and of the transaction that makes an attempt.
LEMMA FreshSteps ==
    ASSUME IInv, NEW t \in Tab,
           \/ \E s \in 1..Len(sess) : StartRead(t, s)
           \/ \E a \in 1..Len(att) : SyncRead(t, a) \/ SubmitRead(t, a)
           \/ AccessRead(t) /\ ended
    PROVE  Waiting /\ sess' = sess
<1>1. sess' = sess
  BY DEF StartRead, SyncRead, SubmitRead, AccessRead
<1>2. \A pc \in {"expire", "finish", "find", "check", "flush"} : pc \notin Guarded
  BY DEF Guarded
<1>3. ASSUME NEW s, req' = [req EXCEPT ![t] = [Idle EXCEPT !.pc = "expire", !.s = s]]
      PROVE  Waiting
  <2>1. [Idle EXCEPT !.pc = "expire", !.s = s].pc = "expire"
    BY DEF Idle
  <2> QED
    BY <1>2, <1>3, <2>1, MovesOn
<1>4. ASSUME NEW a, req' = [req EXCEPT ![t] = [Idle EXCEPT !.pc = "finish", !.a = a]]
      PROVE  Waiting
  <2>1. [Idle EXCEPT !.pc = "finish", !.a = a].pc = "finish"
    BY DEF Idle
  <2> QED
    BY <1>2, <1>4, <2>1, MovesOn
<1>5. ASSUME NEW s, NEW ok,
             req' = [req EXCEPT ![t] = [Idle EXCEPT !.pc = "find", !.s = s, !.ok = ok]]
      PROVE  Waiting
  <2>1. [Idle EXCEPT !.pc = "find", !.s = s, !.ok = ok].pc = "find"
    BY DEF Idle
  <2> QED
    BY <1>2, <1>5, <2>1, MovesOn
<1>6. ASSUME NEW a, NEW x,
             req' = [req EXCEPT ![t] = [Idle EXCEPT !.pc = "check", !.a = a, !.ans = x]]
      PROVE  Waiting
  <2>1. [Idle EXCEPT !.pc = "check", !.a = a, !.ans = x].pc = "check"
    BY DEF Idle
  <2> QED
    BY <1>2, <1>6, <2>1, MovesOn
<1>7. ASSUME NEW a, NEW x, NEW n,
             req' = [req EXCEPT ![t] = [Idle EXCEPT !.pc = "flush", !.a = a, !.ans = x, !.n = n]]
      PROVE  Waiting
  <2>1. [Idle EXCEPT !.pc = "flush", !.a = a, !.ans = x, !.n = n].pc = "flush"
    BY DEF Idle
  <2> QED
    BY ZenonT(60), <1>2, <1>7, <2>1, MovesOn
<1>8. ASSUME NEW s \in 1..Len(sess), StartRead(t, s) PROVE Waiting
  BY <1>4, <1>5, <1>8 DEF StartRead, Begins
<1>9. ASSUME NEW a \in 1..Len(att), SyncRead(t, a) \/ SubmitRead(t, a) PROVE Waiting
  BY <1>6, <1>7, <1>9 DEF SyncRead, SubmitRead, Begins
<1>10. CASE AccessRead(t) /\ ended
  BY <1>3, <1>10 DEF AccessRead, Begins
<1> QED
  BY <1>1, <1>8, <1>9, <1>10

LEMMA StartQuiet ==
    ASSUME IInv, NEW t \in Tab,
           \/ StartFind(t) /\ ~Goes(t, "count")
           \/ StartCount(t) /\ ~Goes(t, "create")
           \/ StartCreate(t) /\ sess' = sess
           \/ StartReload(t) \/ StartActivate(t)
    PROVE  Waiting /\ sess' = sess
<1>0. "expire" \in PcSet \ Guarded /\ "reload" \in PcSet \ Guarded
      /\ "activate" \in PcSet \ Guarded
  BY DEF PcSet, Guarded
<1>1. sess' = sess
  BY DEF StartFind, StartCount, StartCreate, StartReload, StartActivate
<1>2. CASE StartFind(t) /\ ~Goes(t, "count")
  <2>1. CASE \E a \in DOMAIN att : req' = [req EXCEPT ![t].pc = "link", ![t].a = a]
    <3>1. PICK a : req' = [req EXCEPT ![t] = [req[t] EXCEPT !.pc = "link", !.a = a]]
      BY <2>1
    <3>2. [req[t] EXCEPT !.pc = "link", !.a = a].pc = "link"
      BY Pointers DEF RequestType
    <3>3. [req[t] EXCEPT !.pc = "link", !.a = a].pc \notin Guarded
      BY <3>2 DEF Guarded
    <3> QED
      BY <1>1, <3>1, <3>3, MovesOn
  <2>2. CASE Goes(t, "expire") \/ Done(t)
    BY <1>0, <1>1, <2>2, GoesOn, EndsHere
  <2> QED
    BY <1>2, <2>1, <2>2 DEF StartFind
<1>3. CASE StartCount(t) /\ ~Goes(t, "create")
  BY <1>1, <1>3, EndsHere DEF StartCount
<1>4. CASE StartCreate(t)
  BY SMTT(30), <1>0, <1>1, <1>4, GoesOn DEF StartCreate
<1>5. CASE StartReload(t)
  <2>1. CASE Done(t)
    BY <1>1, <2>1, EndsHere
  <2>2. CASE \E a : req' = [req EXCEPT ![t] = [Idle EXCEPT !.pc = "finish", !.a = a]]
    <3>1. PICK a : req' = [req EXCEPT ![t] = [Idle EXCEPT !.pc = "finish", !.a = a]]
      BY <2>2
    <3>2. [Idle EXCEPT !.pc = "finish", !.a = a].pc = "finish"
      BY DEF Idle
    <3>3. [Idle EXCEPT !.pc = "finish", !.a = a].pc \notin Guarded
      BY <3>2 DEF Guarded
    <3> QED
      BY <1>1, <3>1, <3>3, MovesOn
  <2> QED
    BY <1>5, <2>1, <2>2 DEF StartReload
<1>6. CASE StartActivate(t)
  BY <1>1, <1>6, EndsHere DEF StartActivate
<1> QED
  BY <1>2, <1>3, <1>4, <1>5, <1>6

LEMMA AnswerQuiet ==
    ASSUME IInv, NEW t \in Tab,
           \/ SyncCheck(t) \/ \E x \in Answer : SyncStore(t, x)
           \/ FinishRead(t) \/ FinishWrite(t) \/ FinishAccess(t)
           \/ SubmitWrite(t) \/ SubmitAccess(t) \/ Drop(t)
    PROVE  Waiting /\ sess' = sess
<1>0. "finish" \in PcSet \ Guarded /\ "store" \in PcSet \ Guarded
  BY DEF PcSet, Guarded
<1>1. sess' = sess
  BY DEF SyncCheck, SyncStore, FinishRead, FinishWrite, FinishAccess, SubmitWrite,
     SubmitAccess, Drop
<1>2. CASE SyncCheck(t)
  <2>1. Done(t) \/ Goes(t, "finish") \/ Goes(t, "store")
    BY <1>2 DEF SyncCheck
  <2> QED
    BY <1>0, <1>1, <2>1, GoesOn, EndsHere
<1>3. CASE Done(t)
  BY <1>1, <1>3, EndsHere
<1>4. "complete" \notin Guarded /\ "release" \notin Guarded /\ req[t] \in RequestType
  BY Pointers DEF Guarded
<1>5. CASE FinishRead(t)
  <2> DEFINE r == [req[t] EXCEPT !.pc = "complete", !.ans = att[req[t].a].answers]
  <2>1. req' = [req EXCEPT ![t] = r]
    BY <1>5 DEF FinishRead
  <2>2. r.pc = "complete"
    BY <1>4 DEF RequestType
  <2> HIDE DEF r
  <2> QED
    BY <1>1, <1>4, <2>1, <2>2, MovesOn
<1>6. CASE FinishWrite(t)
  <2> DEFINE r == [req[t] EXCEPT !.ok = TRUE]
  <2>1. req' = [req EXCEPT ![t] = r]
    BY <1>6 DEF FinishWrite
  <2>2. r.pc = "complete"
    BY <1>4, <1>6 DEF RequestType, FinishWrite
  <2> HIDE DEF r
  <2> QED
    BY <1>1, <1>4, <2>1, <2>2, MovesOn
<1>7. CASE SubmitWrite(t)
  <2> DEFINE k == req[t].n < MaxAttempts /\ ~ended
             r == [req[t] EXCEPT !.pc = "release", !.ok = k]
  <2>1. req' = [req EXCEPT ![t] = r]
    BY <1>7 DEF SubmitWrite
  <2> HIDE DEF k
  <2>2. r.pc = "release"
    BY <1>4 DEF RequestType
  <2> HIDE DEF r
  <2> QED
    BY <1>1, <1>4, <2>1, <2>2, MovesOn
<1> QED
  BY <1>2, <1>3, <1>5, <1>6, <1>7 DEF SyncStore, FinishAccess, SubmitAccess, Drop

\* The two steps that mark a session leave a closed one closed.
LEMMA MarkQuiet ==
    ASSUME IInv, NEW t \in Tab, ExpireSession(t) \/ StartLink(t)
    PROVE  Quiet
<1>0. Len(sess) \in Nat /\ sess \in Seq(SessionType) /\ req[t] \in RequestType
      /\ (req[t].pc \in OnSession => req[t].s \in 1..Len(sess))
      /\ (req[t].pc \in OnAttempt => req[t].a \in 1..Len(att))
      /\ \A s \in 1..Len(sess) : sess[s] \in SessionType
  BY Pointers DEF IInv, StoreInv
<1>1. CASE ExpireSession(t)
  <2> DEFINE i == req[t].s
             r == [sess[i] EXCEPT !.st = "expired"]
  <2>1. i \in 1..Len(sess) /\ sess[i] \in SessionType
    BY <1>0, <1>1 DEF ExpireSession, OnSession
  <2>2. r \in SessionType /\ r.part = sess[i].part /\ r.st = "expired"
    BY <2>1 DEF SessionType
  <2>3. sess' = [sess EXCEPT ![i] = r] /\ att' = att
    BY <1>1 DEF ExpireSession
  <2> HIDE DEF i, r
  <2>4. Len(sess') = Len(sess) /\ sess'[i] = r
        /\ \A s \in 1..Len(sess) : s # i => sess'[s] = sess[s]
    BY <1>0, <2>1, <2>2, <2>3, SessionPut
  <2>5. Waiting
    BY <1>1, EndsHere DEF ExpireSession
  <2>6. SameAttempts
    BY <2>3 DEF SameAttempts, IInv, StoreInv, InProgress
  <2> QED
    BY <2>1, <2>2, <2>4, <2>5, <2>6 DEF Quiet, Closed
<1>2. CASE StartLink(t)
  <2> DEFINE i == req[t].s
             r == [st |-> "started", part |-> req[t].a]
  <2>1. i \in 1..Len(sess) /\ req[t].a \in 1..Len(att) /\ req[t].a \in 0..MaxSessions
    BY <1>0, <1>2 DEF StartLink, OnSession, OnAttempt, RequestType
  <2>2. r \in SessionType /\ r.part # 0
    BY <2>1 DEF SessionType
  <2>3. sess' = [sess EXCEPT ![i] = r] /\ att' = att
    BY <1>2 DEF StartLink
  <2> HIDE DEF i, r
  <2>4. Len(sess') = Len(sess) /\ sess'[i] = r
        /\ \A s \in 1..Len(sess) : s # i => sess'[s] = sess[s]
    BY <1>0, <2>1, <2>2, <2>3, SessionPut
  <2>5. Waiting
    <3>1. "activate" \in PcSet /\ "activate" \notin Guarded
      BY DEF PcSet, Guarded
    <3> QED
      BY <1>2, <3>1, GoesOn DEF StartLink
  <2>6. SameAttempts
    BY <2>3 DEF SameAttempts, IInv, StoreInv, InProgress
  <2> QED
    BY <2>1, <2>2, <2>4, <2>5, <2>6 DEF Quiet, Closed
<1> QED
  BY <1>1, <1>2

-----------------------------------------------------------------------------
(* The steps that matter                                                   *)

\* An access request, alone, decides whether to resume the latest session.
LEMMA AccessKeeps ==
    ASSUME IInv, SerialInv, SerialAccess, NEW t \in Tab,
           (AccessRead(t) /\ ~ended) \/ VerifyRead(t)
    PROVE  SerialInv'
<1>1. sess' = sess /\ att' = att
  BY DEF AccessRead, VerifyRead
<1>2. PICK r : req' = [req EXCEPT ![t] = r]
  BY DEF AccessRead, VerifyRead, Begins
<1>3. req'[t] = r /\ \A u \in Tab \ {t} : req'[u] = req[u]
  BY <1>2 DEF IInv, RequestInv
<1>4. t \in AccessTab /\ req'[t].pc \in {"verify", "resume"}
  <2>1. CASE AccessRead(t) /\ ~ended
    <3>1. r = [Idle EXCEPT !.pc = "verify"]
      BY <1>3, <2>1 DEF AccessRead, Begins, IInv, RequestInv
    <3>2. r.pc = "verify"
      BY <3>1 DEF Idle
    <3> QED
      BY <1>3, <2>1, <3>2 DEF AccessRead
  <2>2. CASE VerifyRead(t)
    <3>1. t \in AccessTab
      BY <2>2 DEF SerialInv, AccessAlone, VerifyRead
    <3>2. req'[t].pc = "resume"
      BY <2>2, Pointers DEF VerifyRead, IInv, RequestInv, RequestType
    <3> QED
      BY <3>1, <3>2
  <2> QED
    BY <2>1, <2>2
<1>5. req'[t].pc = "resume" =>
         IF req'[t].s = 0 THEN Len(sess) = 0 \/ Closed(Len(sess)) ELSE req'[t].s = Len(sess)
  <2>1. CASE AccessRead(t) /\ ~ended
    <3>1. r = [Idle EXCEPT !.pc = "verify"]
      BY <1>3, <2>1 DEF AccessRead, Begins, IInv, RequestInv
    <3>2. r.pc = "verify"
      BY <3>1 DEF Idle
    <3> QED
      BY <1>3, <3>2
  <2>2. CASE VerifyRead(t)
    <3>1. req'[t].s = IF sess # <<>> /\ sess[Len(sess)].st # "expired" /\ sess[Len(sess)].part = 0
                      THEN Len(sess) ELSE 0
      BY <2>2, Pointers DEF VerifyRead, IInv, RequestInv, RequestType
    <3>2. sess = <<>> => Len(sess) = 0
      OBVIOUS
    <3> QED
      BY <3>1, <3>2 DEF Closed
  <2> QED
    BY <2>1, <2>2
<1>6. AccessAlone'
  BY <1>3, <1>4 DEF SerialInv, AccessAlone
<1>7. ResumesLatest'
  BY <1>1, <1>3, <1>5 DEF SerialInv, ResumesLatest, Closed
<1>8. StartsFree'
  BY <1>1, <1>3, <1>4 DEF SerialInv, StartsFree, InProgress
<1>9. OlderClosed' /\ AttemptsWithinLimit' /\ OneAttemptInProgress'
  BY <1>1 DEF SerialInv, OlderClosed, Closed, AttemptsWithinLimit, OneAttemptInProgress, InProgress
<1> QED
  BY <1>6, <1>7, <1>8, <1>9 DEF SerialInv

\* A start that finds no attempt in progress, or counts few enough.
LEMMA CheckKeeps ==
    ASSUME IInv, SerialInv, NEW t \in Tab,
           (StartFind(t) /\ Goes(t, "count")) \/ (StartCount(t) /\ Goes(t, "create"))
    PROVE  SerialInv'
<1>1. sess' = sess /\ att' = att
  BY DEF StartFind, StartCount
<1>2. req[t] \in RequestType /\ DOMAIN att = 1..Len(att)
  BY Pointers
<1>3. req'[t].pc \in {"count", "create"} /\ req'[t].s = req[t].s
      /\ \A u \in Tab \ {t} : req'[u] = req[u]
  BY <1>2 DEF Goes, IInv, RequestInv, RequestType
<1>4. CASE StartFind(t) /\ Goes(t, "count")
  <2>1. req'[t].pc = "count"
    BY <1>2, <1>4 DEF Goes, IInv, RequestInv, RequestType
  <2>2. \A a \in DOMAIN att : ~InProgress(a)
    <3>1. ASSUME NEW a, req' = [req EXCEPT ![t].pc = "link", ![t].a = a] PROVE FALSE
      <4>1. [req[t] EXCEPT !.pc = "link", !.a = a].pc = "link"
        BY <1>2 DEF RequestType
      <4>2. req'[t] = [req[t] EXCEPT !.pc = "link", !.a = a]
        BY <3>1 DEF IInv, RequestInv
      <4> QED
        BY <2>1, <4>1, <4>2
    <3> QED
      BY <1>4, <3>1 DEF StartFind
  <2> QED
    BY <1>1, <1>2, <1>3, <2>1, <2>2
       DEF SerialInv, OlderClosed, Closed, AccessAlone, ResumesLatest, StartsFree,
           AttemptsWithinLimit, OneAttemptInProgress, InProgress
<1>5. CASE StartCount(t) /\ Goes(t, "create")
  <2>1. req[t].pc = "count"
    BY <1>5 DEF StartCount
  <2>2. Len(att) < MaxAttempts
    <3>1. req'[t].pc = "create"
      BY <1>2, <1>5 DEF Goes, IInv, RequestInv, RequestType
    <3>2. ~Done(t)
      BY <3>1 DEF Done, Idle, IInv, RequestInv
    <3> QED
      BY <1>5, <3>2 DEF StartCount
  <2> QED
    BY <1>1, <1>2, <1>3, <2>1, <2>2
       DEF SerialInv, OlderClosed, Closed, AccessAlone, ResumesLatest, StartsFree,
           AttemptsWithinLimit, OneAttemptInProgress, InProgress
<1> QED
  BY <1>4, <1>5

\* The session of an access request that found the latest one closed is the latest now;
\* a session that is resumed already was.
LEMMA VerifyKeeps ==
    ASSUME IInv, SerialInv, SerialAccess, NEW t \in Tab, VerifyWrite(t)
    PROVE  SerialInv'
<1>0. Len(sess) \in Nat /\ Len(att) \in Nat /\ sess \in Seq(SessionType)
      /\ (req[t].s # 0 => req[t].s \in 1..Len(sess))
      /\ \A s \in 1..Len(sess) : sess[s] \in SessionType
  BY Pointers DEF IInv, StoreInv
<1>1. att' = att /\ req'[t] = Idle /\ \A u \in Tab \ {t} : req'[u] = req[u]
  BY DEF VerifyWrite, Done, IInv, RequestInv
<1>2. Idle.pc = "idle"
  BY DEF Idle
<1>3. \A u \in Tab : req'[u].pc \notin {"verify", "resume"}
  BY <1>1, <1>2 DEF SerialInv, AccessAlone, SerialAccess, VerifyWrite
<1>4. AccessAlone' /\ ResumesLatest'
  BY <1>3 DEF AccessAlone, ResumesLatest
<1>5. AttemptsWithinLimit' /\ OneAttemptInProgress'
  BY <1>1 DEF SerialInv, AttemptsWithinLimit, OneAttemptInProgress, InProgress
<1>6. CASE req[t].s # 0
  <2> DEFINE i == req[t].s
             r == [sess[i] EXCEPT !.st = "eligible"]
  <2>1. i \in 1..Len(sess) /\ i = Len(sess) /\ sess[i] \in SessionType
    BY <1>0, <1>6 DEF SerialInv, ResumesLatest, VerifyWrite
  <2>2. r \in SessionType /\ r.part = sess[i].part
    BY <2>1 DEF SessionType
  <2>3. sess' = [sess EXCEPT ![i] = r]
    BY <1>6 DEF VerifyWrite
  <2> HIDE DEF i, r
  <2>4. Len(sess') = Len(sess) /\ sess'[i] = r
        /\ \A s \in 1..Len(sess) : s # i => sess'[s] = sess[s]
    BY <1>0, <2>1, <2>2, <2>3, SessionPut
  <2>5. OlderClosed'
    BY <1>0, <2>1, <2>4 DEF SerialInv, OlderClosed, Closed
  <2>6. StartsFree'
    BY <1>1, <1>2, <2>1, <2>2, <2>4 DEF SerialInv, StartsFree, InProgress
  <2> QED
    BY <1>4, <1>5, <2>5, <2>6 DEF SerialInv
<1>7. CASE req[t].s = 0
  <2>1. NewSession /\ Len(sess) < MaxSessions
    BY <1>7 DEF VerifyWrite, NewSession
  <2>2. Len(sess') = Len(sess) + 1 /\ \A s \in 1..Len(sess) : sess'[s] = sess[s]
    BY <2>1, StoreGrows DEF IInv
  <2>3. Len(sess) = 0 \/ Closed(Len(sess))
    BY <1>7 DEF SerialInv, ResumesLatest, VerifyWrite
  <2>4. OlderClosed'
    <3>1. ASSUME NEW s \in 1..Len(sess'), s < Len(sess') PROVE Closed(s)'
      <4>1. s \in 1..Len(sess) /\ sess'[s] = sess[s]
        BY <1>0, <2>2, <3>1
      <4>2. Closed(s)
        BY <1>0, <2>3, <4>1 DEF SerialInv, OlderClosed
      <4> QED
        BY <4>1, <4>2 DEF Closed
    <3> QED
      BY <3>1 DEF OlderClosed
  <2>5. ASSUME NEW u \in Tab PROVE req'[u].s # Len(sess')
    <3>1. req[u].s <= Len(sess) /\ req[u].s \in Nat
      BY Pointers DEF RefersTo, RequestType
    <3> QED
      BY <1>0, <1>1, <2>2, <3>1 DEF Idle
  <2>6. StartsFree'
    BY <2>5 DEF StartsFree
  <2> QED
    BY <1>4, <1>5, <2>4, <2>6 DEF SerialInv
<1> QED
  BY <1>6, <1>7

\* The transaction runs on the latest session, as no other can be eligible and not
\* linked; so what the start has checked is still so.
LEMMA CreateKeeps ==
    ASSUME IInv, SerialInv, NEW t \in Tab, StartCreate(t), sess' # sess
    PROVE  SerialInv'
<1> DEFINE s == req[t].s
<1>0. Len(sess) \in Nat /\ Len(att) \in Nat /\ DOMAIN att = 1..Len(att)
      /\ s \in 1..Len(sess) /\ req[t].pc = "create"
  BY Pointers DEF StartCreate, OnSession
<1>1. NewStart(s) /\ Goes(t, "activate")
  BY DEF StartCreate, NewStart
<1>2. Len(sess') = Len(sess) /\ Len(att') = Len(att) + 1
      /\ sess'[s] = [st |-> "started", part |-> Len(att) + 1]
      /\ (\A x \in 1..Len(sess) : x # s => sess'[x] = sess[x])
      /\ att'[Len(att) + 1] = NewAttempt(s)
      /\ (\A a \in 1..Len(att) : att'[a] = att[a])
      /\ DOMAIN att' = 1..Len(att) + 1
  <2>1. att' \in Seq(AttemptType)
    BY <1>0, <1>1, StoreStarts DEF IInv, FlagsInv, StoreInv
  <2> HIDE DEF s
  <2> QED
    BY <1>0, <1>1, <2>1, StoreStarts, LenProperties DEF IInv, FlagsInv
<1>3. s = Len(sess) /\ sess[s].part = 0
  BY <1>0, <1>1 DEF SerialInv, OlderClosed, Closed, NewStart
<1>4. Len(att) < MaxAttempts /\ \A a \in 1..Len(att) : ~InProgress(a)
  BY <1>0, <1>3 DEF SerialInv, StartsFree
<1>5. Waiting
  <2>1. "activate" \in PcSet /\ "activate" \notin Guarded
    BY DEF PcSet, Guarded
  <2> QED
    BY <1>1, <2>1, GoesOn
<1>6. Closed(Len(sess))' /\ sess'[Len(sess')].part # 0
  BY <1>0, <1>2, <1>3 DEF Closed
<1> HIDE DEF s
<1>7. OlderClosed'
  BY <1>0, <1>2, <1>3 DEF SerialInv, OlderClosed, Closed
<1>8. AccessAlone'
  BY <1>5 DEF SerialInv, AccessAlone, Waiting, Guarded
<1>9. ResumesLatest'
  BY <1>2, <1>5, <1>6 DEF SerialInv, ResumesLatest, Waiting, Guarded
<1>10. StartsFree'
  BY <1>6 DEF StartsFree
<1>11. AttemptsWithinLimit'
  BY <1>0, <1>2, <1>4, AttemptAssumption DEF AttemptsWithinLimit
<1>12. OneAttemptInProgress'
  <2>1. \A a \in DOMAIN att' : InProgress(a)' => a = Len(att) + 1
    BY <1>0, <1>2, <1>4 DEF InProgress
  <2> QED
    BY <2>1 DEF OneAttemptInProgress
<1> QED
  BY <1>7, <1>8, <1>9, <1>10, <1>11, <1>12 DEF SerialInv

LEMMA SerialKept ==
    ASSUME IInv, SerialInv, SerialAccess, [Next]_vars
    PROVE  SerialInv'
<1>0. DOMAIN sess = 1..Len(sess) /\ DOMAIN att = 1..Len(att)
  BY LenProperties DEF IInv, StoreInv
<1>1. Shape
  BY IInvKept
<1>2. ASSUME Waiting, sess' = sess PROVE SerialInv'
  BY <1>1, <1>2, QuietIfKept, QuietKeeps
<1>3. ASSUME NEW t \in Tab, RequestStep(t) PROVE SerialInv'
  <2>1. CASE \/ \E s \in 1..Len(sess) : StartRead(t, s)
             \/ \E a \in 1..Len(att) : SyncRead(t, a) \/ SubmitRead(t, a)
             \/ AccessRead(t) /\ ended
    BY <1>2, <2>1, FreshSteps
  <2>2. CASE \/ StartFind(t) /\ ~Goes(t, "count")
             \/ StartCount(t) /\ ~Goes(t, "create")
             \/ StartCreate(t) /\ sess' = sess
             \/ StartReload(t) \/ StartActivate(t)
    BY <1>2, <2>2, StartQuiet
  <2>3. CASE \/ SyncCheck(t) \/ \E x \in Answer : SyncStore(t, x)
             \/ FinishRead(t) \/ FinishWrite(t) \/ FinishAccess(t)
             \/ SubmitWrite(t) \/ SubmitAccess(t) \/ Drop(t)
    BY <1>2, <2>3, AnswerQuiet
  <2>4. CASE ExpireSession(t) \/ StartLink(t)
    BY <2>4, MarkQuiet, QuietKeeps
  <2>5. CASE (AccessRead(t) /\ ~ended) \/ VerifyRead(t)
    BY <2>5, AccessKeeps
  <2>6. CASE (StartFind(t) /\ Goes(t, "count")) \/ (StartCount(t) /\ Goes(t, "create"))
    BY <2>6, CheckKeeps
  <2>7. CASE VerifyWrite(t)
    BY <2>7, VerifyKeeps
  <2>8. CASE StartCreate(t) /\ sess' # sess
    BY <2>8, CreateKeeps
  <2> QED
    BY <1>0, <1>3, <2>1, <2>2, <2>3, <2>4, <2>5, <2>6, <2>7, <2>8 DEF RequestStep
<1>4. ASSUME sess' = sess, req' = req PROVE SerialInv'
  BY <1>2, <1>4 DEF Waiting
<1>5. CASE \E k \in Tick : TimerStep(k)
  BY <1>4, <1>5 DEF TimerStep, TimerRead, TimerWrite
<1>6. CASE \/ \E a \in DOMAIN att : TimeIsUp(a)
           \/ ExamEnds \/ Approve \/ Reject \/ Revoke \/ Archive
  BY <1>4, <1>6 DEF TimeIsUp, ExamEnds, Approve, Reject, Revoke, Archive, Decide
<1>7. CASE UNCHANGED vars
  BY <1>4, <1>7 DEF vars
<1> QED
  BY <1>3, <1>5, <1>6, <1>7 DEF Next

LEMMA SerialInit == Init => SerialInv
<1> SUFFICES ASSUME Init PROVE SerialInv
  OBVIOUS
<1>1. Len(sess) = 0 /\ Len(att) = 0 /\ DOMAIN att = {}
  BY DEF Init
<1>2. \A t \in Tab : req[t].pc = "idle"
  BY DEF Init, Idle
<1> QED
  BY <1>1, <1>2, AttemptAssumption
     DEF SerialInv, OlderClosed, AccessAlone, ResumesLatest, StartsFree, AttemptsWithinLimit,
         OneAttemptInProgress

-----------------------------------------------------------------------------
(* Theorems                                                                *)

\* exam.maxAttempts is respected as long as requests for the access state do not
\* overlap, though countAttemptsByParticipant runs before the transaction that adds one.
THEOREM AttemptLimitHolds ==
    ASSUME SerialAccess
    PROVE  Spec => []AttemptsWithinLimit
<1>1. IInv /\ SerialInv /\ [Next]_vars => IInv' /\ SerialInv'
  BY IInvKept, SerialKept
<1>2. SerialInv => AttemptsWithinLimit
  BY DEF SerialInv
<1>3. Init => IInv /\ SerialInv
  BY IInvInit, SerialInit
<1> QED
  BY <1>1, <1>2, <1>3, PTL DEF Spec

\* Under the same assumption startEntrySession never starts an attempt beside another
\* that is in progress, however many starts race.
THEOREM AttemptsOneAtATime ==
    ASSUME SerialAccess
    PROVE  Spec => []OneAttemptInProgress
<1>1. IInv /\ SerialInv /\ [Next]_vars => IInv' /\ SerialInv'
  BY IInvKept, SerialKept
<1>2. SerialInv => OneAttemptInProgress
  BY DEF SerialInv
<1>3. Init => IInv /\ SerialInv
  BY IInvInit, SerialInit
<1> QED
  BY <1>1, <1>2, <1>3, PTL DEF Spec

-----------------------------------------------------------------------------
(* A participant with one request in flight at a time                      *)

OneTab == \A t, u \in Tab : t = u

\* What is confirmed is on record and, once the attempt is locked, in its snapshot; only
\* a submission locks an attempt whose time is not over.
SoundAttempt(x) ==
    /\ x.acked \subseteq x.answers
    /\ x.locked => x.acked \subseteq x.snapshot
    /\ x.locked => x.st = "SUBMITTED" \/ x.late

SubmittedOnTime(x) == x.st = "SUBMITTED" /\ x.inTime

\* A timer pass holds an attempt whose time is over.
TickFits(x) == x.late /\ ~SubmittedOnTime(x)

\* What a request has read still holds, for no other request submits the attempt or
\* confirms an answer meanwhile: the timer ends it, but neither locks it nor touches
\* its answers.
Reads == {"check", "store", "flush", "complete"}
Ends == {"finish", "complete"}
Syncs == {"check", "store"}
HoldsFit(r, x) ==
    /\ r.pc \in Reads => x.acked \subseteq r.ans
    /\ r.pc = "store" => ~x.locked
    /\ r.pc \in Ends => x.late
    /\ r.pc \in Ends \cup Syncs => x.st # "SUBMITTED"

AttemptsSound == \A a \in 1..Len(att) : SoundAttempt(att[a])
TicksFit == \A k \in Tick : tick[k] # 0 => TickFits(att[tick[k]])
RequestsFit == \A t \in Tab : req[t].pc \in OnAttempt => HoldsFit(req[t], att[req[t].a])
OneTabInv == AttemptsSound /\ TicksFit /\ RequestsFit

\* What the two properties say of one attempt and of one step.
LEMMA SoundKeepsConfirmed ==
    ASSUME IInv, OneTabInv
    PROVE  LockedKeepsConfirmed
<1>1. DOMAIN att = 1..Len(att)
  BY LenProperties DEF IInv, StoreInv
<1> QED
  BY <1>1 DEF OneTabInv, AttemptsSound, SoundAttempt, LockedKeepsConfirmed

StandsOnTime ==
    \A a \in 1..Len(att) : SubmittedOnTime(att[a]) => att'[a].st = "SUBMITTED"

\* Only one attempt changes, and keeps what a timer pass relies on.
LEMMA ChangeKeeps ==
    ASSUME IInv, OneTabInv, NEW i \in 1..Len(att), NEW z \in AttemptType,
           att' = [att EXCEPT ![i] = z], SoundAttempt(z),
           TickFits(att[i]) => TickFits(z),
           SubmittedOnTime(att[i]) => z.st = "SUBMITTED",
           \A k \in Tick : tick'[k] = tick[k] \/ tick'[k] = 0
    PROVE  AttemptsSound' /\ TicksFit' /\ StandsOnTime /\ att'[i] = z
<1>1. att \in Seq(AttemptType) /\ Len(att) \in Nat
  BY LenProperties DEF IInv, StoreInv
<1>2. Len(att') = Len(att) /\ att'[i] = z /\ \A j \in 1..Len(att) : j # i => att'[j] = att[j]
  BY <1>1, AttemptPut
<1>3. AttemptsSound'
  BY <1>2 DEF OneTabInv, AttemptsSound
<1>4. ASSUME NEW k \in Tick, tick'[k] # 0 PROVE TickFits(att'[tick'[k]])
  <2>1. PICK a \in 0..MaxSessions : a = tick[k] /\ a <= Len(att)
    BY DEF IInv, TickInv
  <2>2. a \in 1..Len(att) /\ tick'[k] = a /\ TickFits(att[a])
    BY <1>1, <1>4, <2>1 DEF OneTabInv, TicksFit
  <2> QED
    BY <1>2, <2>2
<1>5. StandsOnTime
  BY <1>2 DEF StandsOnTime, SubmittedOnTime
<1>6. TicksFit'
  <2>1. ASSUME NEW k \in Tick, tick'[k] # 0 PROVE TickFits(att[tick[k]])'
    BY <1>4, <2>1 DEF TickFits, SubmittedOnTime
  <2> QED
    BY <2>1 DEF TicksFit
<1> QED
  BY <1>2, <1>3, <1>5, <1>6

LEMMA AttemptsKept ==
    ASSUME IInv, OneTabInv, att' = att, \A k \in Tick : tick'[k] = tick[k] \/ tick'[k] = 0
    PROVE  AttemptsSound' /\ TicksFit' /\ StandsOnTime
BY DEF OneTabInv, AttemptsSound, TicksFit, StandsOnTime, SubmittedOnTime, TickFits

\* The one request in flight becomes r.
LEMMA OnlyRequest ==
    ASSUME IInv, OneTab, NEW t \in Tab, NEW r, req' = [req EXCEPT ![t] = r],
           r.pc \in OnAttempt => HoldsFit(r, att'[r.a])
    PROVE  RequestsFit'
<1>1. \A u \in Tab : req'[u] = r
  BY DEF OneTab, IInv, RequestInv
<1>2. ASSUME NEW u \in Tab, req'[u].pc \in OnAttempt
      PROVE  HoldsFit(req[u], att[req[u].a])'
  BY <1>1, <1>2 DEF HoldsFit
<1> QED
  BY <1>2 DEF RequestsFit

\* A request that refers to no attempt, or is over, asks nothing.
LEMMA RequestEnds ==
    ASSUME IInv, OneTab, NEW t \in Tab, Done(t)
    PROVE  RequestsFit'
<1>1. "idle" \notin OnAttempt /\ Idle.pc = "idle"
  BY DEF OnAttempt, Idle
<1> QED
  BY <1>1, OnlyRequest DEF Done

LEMMA RequestGoes ==
    ASSUME IInv, OneTab, NEW t \in Tab, NEW pc, Goes(t, pc),
           pc \in OnAttempt => HoldsFit([req[t] EXCEPT !.pc = pc], att'[req[t].a])
    PROVE  RequestsFit'
<1> DEFINE r == [req[t] EXCEPT !.pc = pc]
<1>1. r.pc = pc /\ r.a = req[t].a
  BY DEF IInv, RequestInv, RequestType
<1>2. req' = [req EXCEPT ![t] = r]
  BY DEF Goes
<1> HIDE DEF r
<1> QED
  BY <1>1, <1>2, OnlyRequest DEF r

\* A request for the access state, or for a start, learns of an attempt only to resume it.
LEMMA EntryFits ==
    ASSUME IInv, OneTab, OneTabInv, NEW t \in Tab,
           \/ AccessRead(t) \/ VerifyRead(t) \/ VerifyWrite(t) \/ ExpireSession(t)
           \/ \E s \in 1..Len(sess) : StartRead(t, s)
           \/ StartFind(t) \/ StartLink(t) \/ StartCount(t)
           \/ StartReload(t) \/ StartActivate(t)
    PROVE  RequestsFit' /\ att' = att /\ tick' = tick
<1>0. req \in [Tab -> RequestType] /\ req[t] \in RequestType
  BY SMTT(30) DEF IInv, RequestInv
<1>1. att' = att /\ tick' = tick
  BY DEF AccessRead, VerifyRead, VerifyWrite, ExpireSession, StartRead, StartFind,
     StartLink, StartCount, StartReload, StartActivate
<1> SUFFICES RequestsFit'
  BY <1>1
<1>2. CASE VerifyWrite(t) \/ ExpireSession(t) \/ StartActivate(t)
  BY <1>2, RequestEnds DEF VerifyWrite, ExpireSession, StartActivate
<1>3. CASE AccessRead(t)
  <2> DEFINE F(s) == [Idle EXCEPT !.pc = "expire", !.s = s]
             g == [Idle EXCEPT !.pc = "verify"]
  <2>1. (\E s \in DOMAIN sess : req' = [req EXCEPT ![t] = F(s)]) \/ req' = [req EXCEPT ![t] = g]
    BY <1>3 DEF AccessRead, Begins
  <2>2. (\A s : F(s).pc \notin OnAttempt) /\ g.pc \notin OnAttempt
    BY DEF Idle, OnAttempt
  <2> HIDE DEF F, g
  <2> QED
    BY <2>1, <2>2, OnlyRequest
<1>4. CASE VerifyRead(t)
  <2> DEFINE s == IF sess # <<>> /\ sess[Len(sess)].st # "expired" /\ sess[Len(sess)].part = 0
                  THEN Len(sess) ELSE 0
             r == [req[t] EXCEPT !.pc = "resume", !.s = s]
  <2>1. req' = [req EXCEPT ![t] = r] /\ r.pc = "resume"
    BY <1>0, <1>4 DEF VerifyRead, RequestType
  <2> HIDE DEF r
  <2>2. r.pc \notin OnAttempt
    BY <2>1 DEF OnAttempt
  <2> QED
    BY <2>1, <2>2, OnlyRequest
<1>5. ASSUME NEW s \in 1..Len(sess), StartRead(t, s) PROVE RequestsFit'
  <2>1. CASE sess[s].st = "started" /\ sess[s].part # 0
    <3> DEFINE r == [Idle EXCEPT !.pc = "finish", !.a = sess[s].part]
    <3>1. req' = [req EXCEPT ![t] = r] /\ InProgress(sess[s].part) /\ att[sess[s].part].late
      BY <1>5, <2>1 DEF StartRead, Begins
    <3>2. r.pc = "finish" /\ r.a = sess[s].part
      BY DEF Idle
    <3> HIDE DEF r
    <3>3. HoldsFit(r, att'[r.a])
      BY <1>1, <3>1, <3>2 DEF HoldsFit, InProgress, Reads, Ends, Syncs
    <3> QED
      BY <3>1, <3>3, OnlyRequest
  <2>2. CASE ~(sess[s].st = "started" /\ sess[s].part # 0)
    <3> DEFINE ok == sess[s].st = "eligible" /\ MayEnter
               r == [Idle EXCEPT !.pc = "find", !.s = s, !.ok = ok]
    <3>1. req' = [req EXCEPT ![t] = r]
      BY <1>5, <2>2 DEF StartRead, Begins
    <3> HIDE DEF ok
    <3>2. r.pc = "find" /\ "find" \notin OnAttempt
      BY DEF OnAttempt, Idle
    <3> HIDE DEF r
    <3> QED
      BY <3>1, <3>2, OnlyRequest
  <2> QED
    BY <2>1, <2>2
<1>6. CASE StartFind(t)
  <2>1. CASE \E a \in DOMAIN att : req' = [req EXCEPT ![t].pc = "link", ![t].a = a]
    <3>p. PICK a \in DOMAIN att : req' = [req EXCEPT ![t].pc = "link", ![t].a = a]
      BY <2>1
    <3> DEFINE r == [req[t] EXCEPT !.pc = "link", !.a = a]
    <3>1. req' = [req EXCEPT ![t] = r] /\ r.pc = "link"
      BY <1>0, <3>p DEF RequestType
    <3> HIDE DEF r
    <3>2. HoldsFit(r, att'[r.a])
      BY <3>1 DEF HoldsFit, Reads, Ends, Syncs
    <3> QED
      BY <3>1, <3>2, OnlyRequest
  <2>2. CASE Goes(t, "expire") \/ Goes(t, "count")
    <3>1. "expire" \notin OnAttempt /\ "count" \notin OnAttempt
      BY DEF OnAttempt
    <3> QED
      BY <2>2, <3>1, RequestGoes
  <2>3. CASE Done(t)
    BY <2>3, RequestEnds
  <2> QED
    BY <1>6, <2>1, <2>2, <2>3 DEF StartFind
<1>7. CASE StartLink(t) \/ StartCount(t)
  <2>1. "activate" \notin OnAttempt /\ "create" \notin OnAttempt
    BY DEF OnAttempt
  <2>2. Goes(t, "activate") \/ Goes(t, "create") \/ Done(t)
    BY <1>7 DEF StartLink, StartCount
  <2> QED
    BY <2>1, <2>2, RequestGoes, RequestEnds
<1>8. CASE StartReload(t)
  <2> DEFINE a == sess[req[t].s].part
             r == [Idle EXCEPT !.pc = "finish", !.a = a]
  <2>1. CASE Done(t)
    BY <2>1, RequestEnds
  <2>2. CASE ~Done(t)
    <3>1. req' = [req EXCEPT ![t] = r] /\ InProgress(a) /\ att[a].late
      BY <1>8, <2>2 DEF StartReload
    <3>2. r.pc = "finish" /\ r.a = a
      BY DEF Idle
    <3> HIDE DEF r, a
    <3>3. HoldsFit(r, att'[r.a])
      BY <1>1, <3>1, <3>2 DEF HoldsFit, InProgress, Reads, Ends, Syncs
    <3> QED
      BY <3>1, <3>3, OnlyRequest
  <2> QED
    BY <2>1, <2>2
<1> QED
  BY <1>2, <1>3, <1>4, <1>5, <1>6, <1>7, <1>8

\* A sync or a submission reads what is on record; a late one goes on to end the attempt.
LEMMA ReadingFits ==
    ASSUME IInv, OneTab, OneTabInv, NEW t \in Tab,
           \/ \E a \in 1..Len(att) : SyncRead(t, a) \/ SubmitRead(t, a)
           \/ SyncCheck(t) \/ FinishRead(t) \/ FinishAccess(t) \/ SubmitAccess(t) \/ Drop(t)
    PROVE  RequestsFit' /\ att' = att /\ tick' = tick
<1>0. req \in [Tab -> RequestType] /\ req[t] \in RequestType
      /\ (req[t].pc \in OnAttempt => req[t].a \in 1..Len(att))
  BY SMTT(30), Pointers DEF IInv, RequestInv
<1>1. att' = att /\ tick' = tick
  BY DEF SyncRead, SubmitRead, SyncCheck, FinishRead, FinishAccess, SubmitAccess, Drop
<1> SUFFICES RequestsFit'
  BY <1>1
<1>2. ASSUME NEW a \in 1..Len(att), SyncRead(t, a) PROVE RequestsFit'
  <2> DEFINE r == [Idle EXCEPT !.pc = "check", !.a = a, !.ans = att[a].answers]
  <2>1. req' = [req EXCEPT ![t] = r] /\ att[a].st # "SUBMITTED"
    BY <1>2 DEF SyncRead, Begins
  <2>2. r.pc = "check" /\ r.a = a /\ r.ans = att[a].answers
    BY DEF Idle
  <2> HIDE DEF r
  <2>3. HoldsFit(r, att'[r.a])
    BY <1>1, <2>1, <2>2
       DEF HoldsFit, OneTabInv, AttemptsSound, SoundAttempt, Reads, Ends, Syncs
  <2> QED
    BY <2>1, <2>3, OnlyRequest
<1>3. ASSUME NEW a \in 1..Len(att), SubmitRead(t, a) PROVE RequestsFit'
  <2> DEFINE m == Len(att)
             r == [Idle EXCEPT !.pc = "flush", !.a = a, !.ans = att[a].answers, !.n = m]
  <2>1. req' = [req EXCEPT ![t] = r]
    BY <1>3 DEF SubmitRead, Begins
  <2>2. r.pc = "flush" /\ r.a = a /\ r.ans = att[a].answers
    BY DEF Idle
  <2> HIDE DEF r
  <2>3. HoldsFit(r, att'[r.a])
    BY <1>1, <2>2
       DEF HoldsFit, OneTabInv, AttemptsSound, SoundAttempt, Reads, Ends, Syncs
  <2> QED
    BY <2>1, <2>3, OnlyRequest
<1>4. CASE SyncCheck(t)
  <2> DEFINE x == att[req[t].a]
  <2>1. req[t].pc = "check" /\ req[t].a \in 1..Len(att)
    BY <1>0, <1>4 DEF SyncCheck, OnAttempt
  <2>2. SoundAttempt(x) /\ HoldsFit(req[t], x)
    BY <2>1 DEF OneTabInv, AttemptsSound, RequestsFit, OnAttempt
  <2>3. x.acked \subseteq req[t].ans /\ x.st # "SUBMITTED" /\ (x.locked => x.late)
    BY <2>1, <2>2 DEF HoldsFit, SoundAttempt, Reads, Syncs
  <2> HIDE DEF x
  <2>4. CASE Done(t)
    BY <2>4, RequestEnds
  <2>5. CASE x.late /\ Goes(t, "finish")
    <3>1. HoldsFit([req[t] EXCEPT !.pc = "finish"], x)
      BY <1>0, <2>3, <2>5 DEF HoldsFit, RequestType, Reads, Ends, Syncs
    <3> QED
      BY <1>1, <2>5, <3>1, RequestGoes DEF x
  <2>6. CASE ~x.late /\ Goes(t, "store")
    <3>1. HoldsFit([req[t] EXCEPT !.pc = "store"], x)
      BY <1>0, <2>3, <2>6 DEF HoldsFit, RequestType, Reads, Ends, Syncs
    <3> QED
      BY <1>1, <2>6, <3>1, RequestGoes DEF x
  <2> QED
    BY <1>4, <2>4, <2>5, <2>6 DEF SyncCheck, x
<1>5. CASE FinishRead(t)
  <2> DEFINE x == att[req[t].a]
             r == [req[t] EXCEPT !.pc = "complete", !.ans = x.answers]
  <2>1. req[t].pc = "finish" /\ req[t].a \in 1..Len(att)
    BY <1>0, <1>5 DEF FinishRead, OnAttempt
  <2>2. SoundAttempt(x) /\ HoldsFit(req[t], x)
    BY <2>1 DEF OneTabInv, AttemptsSound, RequestsFit, OnAttempt
  <2>3. req' = [req EXCEPT ![t] = r]
    BY <1>5 DEF FinishRead
  <2>4. r.pc = "complete" /\ r.a = req[t].a /\ r.ans = x.answers
    BY <1>0 DEF RequestType
  <2> HIDE DEF r, x
  <2>5. HoldsFit(r, x)
    BY <2>1, <2>2, <2>4 DEF HoldsFit, SoundAttempt, Reads, Ends, Syncs
  <2> QED
    BY <1>1, <2>3, <2>4, <2>5, OnlyRequest DEF x
<1>6. CASE FinishAccess(t) \/ SubmitAccess(t) \/ Drop(t)
  BY <1>6, RequestEnds DEF FinishAccess, SubmitAccess, Drop
<1> QED
  BY <1>1, <1>2, <1>3, <1>4, <1>5, <1>6


\* The statements that write an attempt.
LEMMA SyncStoreFits ==
    ASSUME IInv, OneTab, OneTabInv, NEW t \in Tab, NEW x \in Answer, SyncStore(t, x)
    PROVE  OneTabInv' /\ StandsOnTime
<1> DEFINE i == req[t].a
           y == req[t].ans \cup {x}
           w == att[i].acked \cup {x}
           z == [att[i] EXCEPT !.answers = y, !.acked = w]
<1>1. i \in 1..Len(att) /\ att[i] \in AttemptType /\ req[t].ans \in SUBSET Answer
      /\ req[t].pc = "store"
  BY Pointers DEF SyncStore, OnAttempt, RequestType
<1>2. y \in SUBSET Answer /\ w \in SUBSET Answer
  BY <1>1 DEF AttemptType
<1>3. att' = [att EXCEPT ![i] = z] /\ Done(t) /\ tick' = tick
  BY <1>1 DEF SyncStore
<1>4. SoundAttempt(att[i]) /\ HoldsFit(req[t], att[i])
  BY <1>1 DEF OneTabInv, AttemptsSound, RequestsFit, OnAttempt
<1>5. att[i].acked \subseteq req[t].ans /\ ~att[i].locked
  BY <1>1, <1>4 DEF HoldsFit, Reads
<1>6. w \subseteq y
  BY <1>5
<1> HIDE DEF i, y, w
<1>7. z \in AttemptType /\ z.acked = w /\ z.answers = y /\ z.locked = att[i].locked
      /\ z.st = att[i].st /\ z.late = att[i].late /\ z.inTime = att[i].inTime
  BY <1>1, <1>2 DEF AttemptType
<1> HIDE DEF z
<1>8. SoundAttempt(z)
  BY <1>5, <1>6, <1>7 DEF SoundAttempt
<1>9. (TickFits(att[i]) => TickFits(z)) /\ (SubmittedOnTime(att[i]) => z.st = "SUBMITTED")
  BY <1>7 DEF TickFits, SubmittedOnTime
<1>10. AttemptsSound' /\ TicksFit' /\ StandsOnTime
  BY <1>1, <1>3, <1>7, <1>8, <1>9, ChangeKeeps
<1> QED
  BY <1>3, <1>10, RequestEnds DEF OneTabInv

LEMMA FinishWriteFits ==
    ASSUME IInv, OneTab, OneTabInv, NEW t \in Tab, FinishWrite(t)
    PROVE  OneTabInv' /\ StandsOnTime
<1> DEFINE i == req[t].a
           y == req[t].ans
           z == [att[i] EXCEPT !.st = "EXPIRED", !.snapshot = y, !.locked = TRUE, !.inTime = FALSE]
           r == [req[t] EXCEPT !.ok = TRUE]
<1>1. i \in 1..Len(att) /\ att[i] \in AttemptType /\ y \in SUBSET Answer
      /\ req[t] \in RequestType /\ req[t].pc = "complete"
  BY Pointers DEF FinishWrite, OnAttempt, RequestType
<1>2. att' = [att EXCEPT ![i] = z] /\ req' = [req EXCEPT ![t] = r] /\ tick' = tick
  BY DEF FinishWrite
<1>3. SoundAttempt(att[i]) /\ HoldsFit(req[t], att[i])
  BY <1>1 DEF OneTabInv, AttemptsSound, RequestsFit, OnAttempt
<1>4. att[i].acked \subseteq y /\ att[i].acked \subseteq att[i].answers
      /\ att[i].late /\ att[i].st # "SUBMITTED"
  BY <1>1, <1>3 DEF HoldsFit, SoundAttempt, Reads, Ends
<1>5. r.pc = "complete" /\ r.a = i /\ r.ans = y
  BY <1>1 DEF RequestType
<1> HIDE DEF i, y, r
<1>6. z \in AttemptType /\ z.acked = att[i].acked /\ z.answers = att[i].answers
      /\ z.snapshot = y /\ z.st = "EXPIRED" /\ z.late = att[i].late
  BY <1>1 DEF AttemptType
<1> HIDE DEF z
<1>7. SoundAttempt(z)
  BY <1>4, <1>6 DEF SoundAttempt
<1>8. (TickFits(att[i]) => TickFits(z)) /\ (SubmittedOnTime(att[i]) => z.st = "SUBMITTED")
  BY <1>4, <1>6 DEF TickFits, SubmittedOnTime
<1>9. AttemptsSound' /\ TicksFit' /\ StandsOnTime /\ att'[i] = z
  BY <1>1, <1>2, <1>6, <1>7, <1>8, ChangeKeeps
<1>10. HoldsFit(r, att'[r.a])
  BY <1>4, <1>5, <1>6, <1>9 DEF HoldsFit, Reads, Ends, Syncs
<1> QED
  BY <1>2, <1>9, <1>10, OnlyRequest DEF OneTabInv

\* A submission sets inTime only on an attempt that no timer pass can be holding.
LEMMA SubmitWriteFits ==
    ASSUME IInv, OneTab, OneTabInv, NEW t \in Tab, SubmitWrite(t)
    PROVE  OneTabInv' /\ StandsOnTime
<1> DEFINE i == req[t].a
           y == req[t].ans
           b == ~att[i].late
           k == req[t].n < MaxAttempts /\ ~ended
           z == [att[i] EXCEPT !.st = "SUBMITTED", !.snapshot = y, !.locked = TRUE, !.inTime = b]
           r == [req[t] EXCEPT !.pc = "release", !.ok = k]
<1>1. i \in 1..Len(att) /\ att[i] \in AttemptType /\ y \in SUBSET Answer /\ b \in BOOLEAN
      /\ req[t] \in RequestType /\ req[t].pc = "flush"
  BY Pointers DEF SubmitWrite, OnAttempt, RequestType
<1>2. att' = [att EXCEPT ![i] = z] /\ req' = [req EXCEPT ![t] = r] /\ tick' = tick
  BY DEF SubmitWrite
<1>3. SoundAttempt(att[i]) /\ HoldsFit(req[t], att[i])
  BY <1>1 DEF OneTabInv, AttemptsSound, RequestsFit, OnAttempt
<1>4. att[i].acked \subseteq y /\ att[i].acked \subseteq att[i].answers
  BY <1>1, <1>3 DEF HoldsFit, SoundAttempt, Reads
<1>5. r.pc = "release" /\ "release" \notin OnAttempt
  BY <1>1 DEF RequestType, OnAttempt
<1> HIDE DEF r, y
<1>6. z.acked = att[i].acked /\ z.answers = att[i].answers
      /\ z.snapshot = y /\ z.st = "SUBMITTED" /\ z.late = att[i].late
  BY <1>1 DEF AttemptType
<1>7. z \in AttemptType /\ (z.inTime => ~att[i].late)
  <2>1. PICK c \in BOOLEAN : c = b
    BY <1>1
  <2> DEFINE v == [att[i] EXCEPT !.st = "SUBMITTED", !.snapshot = y, !.locked = TRUE, !.inTime = c]
  <2>2. v \in AttemptType /\ v.inTime = c
    BY <1>1 DEF AttemptType
  <2>3. v = z
    BY <2>1
  <2> HIDE DEF v, z, i
  <2> QED
    BY <2>1, <2>2, <2>3
<1> HIDE DEF z, i
<1>8. SoundAttempt(z)
  BY <1>4, <1>6 DEF SoundAttempt
<1>9. (TickFits(att[i]) => TickFits(z)) /\ (SubmittedOnTime(att[i]) => z.st = "SUBMITTED")
  BY <1>6, <1>7 DEF TickFits, SubmittedOnTime
<1>10. AttemptsSound' /\ TicksFit' /\ StandsOnTime
  BY <1>1, <1>2, <1>7, <1>8, <1>9, ChangeKeeps
<1> QED
  BY <1>2, <1>5, <1>10, OnlyRequest DEF OneTabInv

LEMMA StartCreateFits ==
    ASSUME IInv, OneTab, OneTabInv, NEW t \in Tab, StartCreate(t)
    PROVE  OneTabInv' /\ StandsOnTime
<1>1. tick' = tick
  BY DEF StartCreate
<1>2. CASE sess[req[t].s] = [st |-> "eligible", part |-> 0]
  <2>1. req[t].s \in 1..Len(sess) /\ ended \in BOOLEAN /\ StoreInv
    BY Pointers DEF StartCreate, OnSession, IInv, FlagsInv
  <2>2. NewStart(req[t].s) /\ Goes(t, "activate")
    BY <1>2 DEF StartCreate, NewStart
  <2> DEFINE s == req[t].s
             n == Len(att) + 1
  <2>3. Len(att') = n /\ att'[n] = NewAttempt(s) /\ \A a \in 1..Len(att) : att'[a] = att[a]
    BY <2>1, <2>2, StoreStarts
  <2>4. SoundAttempt(NewAttempt(s))
    BY DEF SoundAttempt, NewAttempt
  <2>5. Len(att) \in Nat
    BY Pointers
  <2> HIDE DEF s
  <2>6. AttemptsSound'
    <3>1. ASSUME NEW a \in 1..n PROVE SoundAttempt(att'[a])
      <4>1. a \in 1..Len(att) \/ a = n
        BY <2>5
      <4> QED
        BY <2>3, <2>4, <4>1 DEF OneTabInv, AttemptsSound
    <3>2. ASSUME NEW a \in 1..n PROVE SoundAttempt(att[a])'
      BY <3>1 DEF SoundAttempt
    <3> QED
      BY <2>3, <3>2 DEF AttemptsSound
  <2>7. TicksFit'
    <3>1. ASSUME NEW k \in Tick, tick'[k] # 0 PROVE TickFits(att[tick[k]])'
      <4>1. PICK a \in 0..MaxSessions : a = tick[k] /\ a <= Len(att)
        BY DEF IInv, TickInv
      <4>2. a \in 1..Len(att) /\ tick'[k] = a /\ TickFits(att[a])
        BY <1>1, <2>5, <3>1, <4>1 DEF OneTabInv, TicksFit
      <4> QED
        BY <2>3, <4>2 DEF TickFits, SubmittedOnTime
    <3> QED
      BY <3>1 DEF TicksFit
  <2>8. StandsOnTime
    BY <2>3 DEF StandsOnTime, SubmittedOnTime
  <2>9. "activate" \notin OnAttempt
    BY DEF OnAttempt
  <2> QED
    BY <2>2, <2>6, <2>7, <2>8, <2>9, RequestGoes DEF OneTabInv
<1>3. CASE sess[req[t].s] # [st |-> "eligible", part |-> 0]
  <2>1. Goes(t, "reload") /\ att' = att /\ "reload" \notin OnAttempt
    BY <1>3 DEF StartCreate, OnAttempt
  <2> QED
    BY <1>1, <2>1, AttemptsKept, RequestGoes DEF OneTabInv
<1> QED
  BY <1>2, <1>3


-----------------------------------------------------------------------------
(* Time, and the theorems for one tab                                      *)

\* Nothing but the clock and the timer write an attempt that a request holds.
LEMMA HeldKept ==
    ASSUME IInv, OneTabInv, req' = req,
           \A a \in 1..Len(att) :
              /\ att'[a].acked = att[a].acked /\ att'[a].locked = att[a].locked
              /\ att[a].late => att'[a].late
              /\ att'[a].st = "SUBMITTED" => att[a].st = "SUBMITTED"
    PROVE  RequestsFit'
<1>1. ASSUME NEW t \in Tab, req'[t].pc \in OnAttempt
      PROVE  HoldsFit(req[t], att[req[t].a])'
  <2>1. req[t].pc \in OnAttempt /\ req[t].a \in 1..Len(att) /\ req'[t] = req[t]
    BY <1>1, Pointers
  <2>2. HoldsFit(req[t], att[req[t].a])
    BY <2>1 DEF OneTabInv, RequestsFit
  <2> QED
    BY <2>1, <2>2 DEF HoldsFit
<1> QED
  BY <1>1 DEF RequestsFit

LEMMA TimerFits ==
    ASSUME IInv, OneTabInv, NEW k \in Tick, TimerStep(k)
    PROVE  OneTabInv' /\ StandsOnTime
<1>0. tick \in [Tick -> 0..MaxSessions] /\ tick[k] <= Len(att)
      /\ att \in Seq(AttemptType) /\ Len(att) \in Nat /\ DOMAIN att = 1..Len(att)
  BY LenProperties DEF IInv, TickInv, StoreInv
<1>1. CASE TimerRead(k)
  <2>1. PICK a \in 1..Len(att) : InProgress(a) /\ att[a].late /\ tick' = [tick EXCEPT ![k] = a]
    BY <1>0, <1>1 DEF TimerRead
  <2>2. att' = att /\ req' = req
    BY <1>1 DEF TimerRead
  <2>3. AttemptsSound' /\ StandsOnTime /\ RequestsFit'
    BY <2>2 DEF OneTabInv, AttemptsSound, RequestsFit, StandsOnTime, SubmittedOnTime, HoldsFit
  <2>4. ASSUME NEW j \in Tick, tick'[j] # 0 PROVE TickFits(att[tick[j]])'
    <3>1. tick'[k] = a /\ TickFits(att[a])
      BY <1>0, <2>1 DEF TickFits, SubmittedOnTime, InProgress
    <3>2. j # k => tick'[j] = tick[j]
      BY <1>0, <2>1
    <3> QED
      BY <2>2, <2>4, <3>1, <3>2 DEF OneTabInv, TicksFit, TickFits, SubmittedOnTime
  <2> QED
    BY <2>3, <2>4 DEF OneTabInv, TicksFit
<1>2. CASE TimerWrite(k)
  <2> DEFINE i == tick[k]
             z == [att[i] EXCEPT !.st = "EXPIRED"]
  <2>1. i \in 1..Len(att) /\ att' = [att EXCEPT ![i] = z] /\ req' = req
        /\ tick' = [tick EXCEPT ![k] = 0]
    BY <1>0, <1>2 DEF TimerWrite
  <2>2. att[i] \in AttemptType /\ TickFits(att[i]) /\ SoundAttempt(att[i])
    BY <1>0, <1>2, <2>1, ElementOfSeq
       DEF TimerWrite, OneTabInv, TicksFit, AttemptsSound
  <2>3. \A j \in Tick : tick'[j] = tick[j] \/ tick'[j] = 0
    BY <1>0, <2>1
  <2>4. z \in AttemptType /\ z.st = "EXPIRED" /\ z.acked = att[i].acked
        /\ z.answers = att[i].answers /\ z.snapshot = att[i].snapshot
        /\ z.locked = att[i].locked /\ z.late = att[i].late
    BY <2>2 DEF AttemptType
  <2> HIDE DEF z, i
  <2>5. SoundAttempt(z) /\ TickFits(z)
    BY <2>2, <2>4 DEF SoundAttempt, TickFits, SubmittedOnTime
  <2>6. SubmittedOnTime(att[i]) => z.st = "SUBMITTED"
    BY <2>2 DEF TickFits
  <2>7. AttemptsSound' /\ TicksFit' /\ StandsOnTime /\ att'[i] = z
    BY <2>1, <2>3, <2>4, <2>5, <2>6, ChangeKeeps
  <2>8. \A a \in 1..Len(att) : a # i => att'[a] = att[a]
    BY <1>0, <2>1, <2>4, AttemptPut
  <2>9. RequestsFit'
    BY <2>1, <2>4, <2>7, <2>8, HeldKept
  <2> QED
    BY <2>7, <2>9 DEF OneTabInv
<1> QED
  BY <1>1, <1>2 DEF TimerStep

\* The clock touches no more than the time of some attempts.
LEMMA ClockFits ==
    ASSUME IInv, OneTabInv, (\E a \in DOMAIN att : TimeIsUp(a)) \/ ExamEnds
    PROVE  OneTabInv' /\ StandsOnTime
<1> DEFINE F(a) == [att[a] EXCEPT !.late = TRUE]
<1>0. tick \in [Tick -> 0..MaxSessions] /\ (\A k \in Tick : tick[k] <= Len(att))
      /\ att \in Seq(AttemptType) /\ Len(att) \in Nat /\ DOMAIN att = 1..Len(att)
  BY LenProperties DEF IInv, TickInv, StoreInv
<1>1. tick' = tick /\ req' = req
  BY DEF TimeIsUp, ExamEnds
<1>2. \A a \in 1..Len(att) : att[a] \in AttemptType
  BY <1>0, ElementOfSeq
<1>3. ASSUME NEW a \in 1..Len(att)
      PROVE  /\ F(a) \in AttemptType /\ F(a).st = att[a].st /\ F(a).acked = att[a].acked
             /\ F(a).answers = att[a].answers /\ F(a).snapshot = att[a].snapshot
             /\ F(a).locked = att[a].locked /\ F(a).inTime = att[a].inTime
             /\ F(a).late
  BY <1>2 DEF AttemptType
<1>4. Len(att') = Len(att) /\ \A a \in 1..Len(att) : att'[a] = att[a] \/ att'[a] = F(a)
  <2>1. ASSUME NEW i \in 1..Len(att), TimeIsUp(i)
        PROVE  Len(att') = Len(att) /\ \A a \in 1..Len(att) : att'[a] = att[a] \/ att'[a] = F(a)
    <3>1. att' = [att EXCEPT ![i] = F(i)]
      BY <2>1 DEF TimeIsUp
    <3>2. F(i) \in AttemptType
      BY <1>3
    <3> HIDE DEF F
    <3> QED
      BY <1>0, <3>1, <3>2, AttemptPut
  <2>2. CASE ExamEnds
    <3>1. att' = [a \in 1..Len(att) |-> F(a)]
      BY <1>0, <2>2 DEF ExamEnds
    <3>2. \A a \in 1..Len(att) : F(a) \in AttemptType
      BY <1>3
    <3> HIDE DEF F
    <3> QED
      BY <1>0, <3>1, <3>2, IsASeq, LenProperties
  <2> QED
    BY <1>0, <2>1, <2>2
<1> HIDE DEF F
<1>5. ASSUME NEW a \in 1..Len(att)
      PROVE  /\ att'[a].st = att[a].st /\ att'[a].acked = att[a].acked
             /\ att'[a].answers = att[a].answers /\ att'[a].snapshot = att[a].snapshot
             /\ att'[a].locked = att[a].locked /\ att'[a].inTime = att[a].inTime
             /\ (att[a].late => att'[a].late)
  <2>1. CASE att'[a] = att[a]
    BY <2>1
  <2>2. CASE att'[a] = F(a)
    BY <1>3, <2>2
  <2> QED
    BY <1>4, <2>1, <2>2
<1>6. AttemptsSound'
  <2>1. ASSUME NEW a \in 1..Len(att) PROVE SoundAttempt(att[a])'
    <3>1. SoundAttempt(att[a])
      BY DEF OneTabInv, AttemptsSound
    <3> QED
      BY <1>5, <3>1 DEF SoundAttempt
  <2> QED
    BY <1>4, <2>1 DEF AttemptsSound
<1>7. TicksFit'
  <2>1. ASSUME NEW k \in Tick, tick'[k] # 0 PROVE TickFits(att[tick[k]])'
    <3>1. tick[k] \in 1..Len(att) /\ tick'[k] = tick[k] /\ TickFits(att[tick[k]])
      BY <1>0, <1>1, <2>1 DEF OneTabInv, TicksFit
    <3> QED
      BY <1>5, <3>1 DEF TickFits, SubmittedOnTime
  <2> QED
    BY <2>1 DEF TicksFit
<1>8. StandsOnTime
  BY <1>5 DEF StandsOnTime, SubmittedOnTime
<1>9. RequestsFit'
  BY <1>1, <1>5, HeldKept
<1> QED
  BY <1>6, <1>7, <1>8, <1>9 DEF OneTabInv

LEMMA OneTabKept ==
    ASSUME IInv, OneTab, OneTabInv, [Next]_vars
    PROVE  OneTabInv' /\ StandsOnTime
<1>0. DOMAIN sess = 1..Len(sess) /\ DOMAIN att = 1..Len(att)
  BY LenProperties DEF IInv, StoreInv
<1>1. ASSUME NEW t \in Tab, RequestStep(t) PROVE OneTabInv' /\ StandsOnTime
  <2>1. ASSUME RequestsFit' /\ att' = att /\ tick' = tick PROVE OneTabInv' /\ StandsOnTime
    BY <2>1, AttemptsKept DEF OneTabInv
  <2>2. CASE \/ AccessRead(t) \/ VerifyRead(t) \/ VerifyWrite(t) \/ ExpireSession(t)
             \/ \E s \in 1..Len(sess) : StartRead(t, s)
             \/ StartFind(t) \/ StartLink(t) \/ StartCount(t)
             \/ StartReload(t) \/ StartActivate(t)
    BY <2>1, <2>2, EntryFits
  <2>3. CASE \/ \E a \in 1..Len(att) : SyncRead(t, a) \/ SubmitRead(t, a)
             \/ SyncCheck(t) \/ FinishRead(t) \/ FinishAccess(t) \/ SubmitAccess(t) \/ Drop(t)
    BY <2>1, <2>3, ReadingFits
  <2>4. CASE StartCreate(t)
    BY <2>4, StartCreateFits
  <2>5. CASE \E x \in Answer : SyncStore(t, x)
    BY <2>5, SyncStoreFits
  <2>6. CASE FinishWrite(t) \/ SubmitWrite(t)
    BY <2>6, FinishWriteFits, SubmitWriteFits
  <2> QED
    BY <1>0, <1>1, <2>2, <2>3, <2>4, <2>5, <2>6 DEF RequestStep
<1>2. CASE \E k \in Tick : TimerStep(k)
  BY <1>2, TimerFits
<1>3. CASE (\E a \in DOMAIN att : TimeIsUp(a)) \/ ExamEnds
  BY <1>3, ClockFits
<1>4. CASE Approve \/ Reject \/ Revoke \/ Archive \/ UNCHANGED vars
  <2>1. att' = att /\ req' = req /\ tick' = tick
    BY <1>4 DEF Approve, Reject, Revoke, Archive, Decide, vars
  <2> QED
    BY <2>1, AttemptsKept DEF OneTabInv, RequestsFit, HoldsFit
<1> QED
  BY <1>1, <1>2, <1>3, <1>4 DEF Next

LEMMA OneTabInit == Init => OneTabInv
<1> SUFFICES ASSUME Init PROVE OneTabInv
  OBVIOUS
<1>1. Len(att) = 0 /\ \A k \in Tick : tick[k] = 0
  BY DEF Init
<1>2. \A t \in Tab : req[t].pc = "idle"
  BY DEF Init, Idle
<1> QED
  BY <1>1, <1>2 DEF OneTabInv, AttemptsSound, TicksFit, RequestsFit, OnAttempt

\* With one request in flight at a time, what syncParticipation confirmed is in the
\* answers that a submission or finalizeExpiredParticipation locks in, whatever the timer
\* and the administrators do meanwhile.
THEOREM ConfirmedStaysLocked ==
    ASSUME OneTab
    PROVE  Spec => []LockedKeepsConfirmed
<1>1. IInv /\ OneTabInv /\ [Next]_vars => IInv' /\ OneTabInv'
  BY IInvKept, OneTabKept
<1>2. IInv /\ OneTabInv => LockedKeepsConfirmed
  BY SoundKeepsConfirmed
<1>3. Init => IInv /\ OneTabInv
  BY IInvInit, OneTabInit
<1> QED
  BY <1>1, <1>2, <1>3, PTL DEF Spec

\* Under the same assumption neither the timer nor a late sync turns a submission made in
\* time into an expired attempt: autoSubmitExam reads the attempt before it writes it, but
\* only when its time is over.
THEOREM SubmissionsStand ==
    ASSUME OneTab
    PROVE  Spec => OnTimeSubmissionStands
<1>1. IInv /\ OneTabInv /\ [Next]_vars => IInv' /\ OneTabInv'
  BY IInvKept, OneTabKept
<1>2. IInv /\ OneTabInv /\ [Next]_vars
      => [\A a \in DOMAIN att :
             att[a].st = "SUBMITTED" /\ att[a].inTime => att'[a].st = "SUBMITTED"]_vars
  <2> SUFFICES ASSUME IInv, OneTabInv, [Next]_vars
               PROVE  \A a \in DOMAIN att :
                         att[a].st = "SUBMITTED" /\ att[a].inTime => att'[a].st = "SUBMITTED"
    OBVIOUS
  <2>1. DOMAIN att = 1..Len(att)
    BY LenProperties DEF IInv, StoreInv
  <2>2. StandsOnTime
    BY OneTabKept
  <2> QED
    BY <2>1, <2>2 DEF StandsOnTime, SubmittedOnTime
<1>3. Init => IInv /\ OneTabInv
  BY IInvInit, OneTabInit
<1> QED
  BY <1>1, <1>2, <1>3, PTL DEF Spec, OnTimeSubmissionStands

=============================================================================
