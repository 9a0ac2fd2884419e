------------------------------ MODULE ExamAttempt ------------------------------
(***************************************************************************)
(* The attempts of one participant at one exam: HTTP requests that open an *)
(* entry session, start or resume an attempt, sync its answers and submit  *)
(* it, the timer that ends attempts whose time is over, and the            *)
(* administrators who approve, reject or revoke the participant.           *)
(*                                                                         *)
(* A request is a sequence of database statements with awaits between      *)
(* them.  The participant registered with an account and the exam has      *)
(* started; invitations, OTP and merging of participants are left out.     *)
(***************************************************************************)
EXTENDS Naturals, Sequences, FiniteSets

CONSTANTS
    Tab,         \* requests the participant may have in flight
    AccessTab,   \* those that may ask for the access state
    Tick,        \* passes of the auto-submit timer that may overlap
    Answer,      \* answers the participant may give
    MaxAttempts, \* exam.maxAttempts
    MaxSessions, \* bound on entry sessions
    MaxAdmin,    \* bound on what administrators do
    MayArchive   \* an administrator may archive the exam once it has ended

ASSUME AttemptAssumption ==
    /\ AccessTab \subseteq Tab
    /\ MaxAttempts \in Nat \ {0}
    /\ MaxSessions \in Nat
    /\ MaxAdmin \in Nat
    /\ MayArchive \in BOOLEAN

VARIABLES
    access,    \* exam_participants.accessStatus
    approved,  \* exam_participants.approvalStatus = 'approved'
    sess,      \* exam_entry_sessions of the participant, oldest first
    att,       \* exam_participations of the participant, oldest first
    req,       \* the requests in flight
    tick,      \* the attempt a timer pass is about to end, or 0
    ended,     \* exam.endDate has passed
    published, \* exam.status = 'published'
    admin      \* what administrators have done so far

vars == <<access, approved, sess, att, req, tick, ended, published, admin>>

\* part: the attempt a session is linked to, or 0.
SessionType == [st : {"eligible", "started", "expired"}, part : 0..MaxSessions]

\* late: expiresAt has passed.  locked: answersLockedAt is set, inTime: and is not after
\* expiresAt.  from and acked are history: the session whose start request made the
\* attempt, and the answers a sync was confirmed for.
AttemptType == [st : {"IN_PROGRESS", "SUBMITTED", "EXPIRED"}, late : BOOLEAN,
                answers : SUBSET Answer, snapshot : SUBSET Answer,
                locked : BOOLEAN, inTime : BOOLEAN,
                from : 1..MaxSessions, acked : SUBSET Answer]

\* What a request has read: a session, an attempt, answers, a count, whether the
\* session and the participant allowed a start.
Idle == [pc |-> "idle", s |-> 0, a |-> 0, ans |-> {}, n |-> 0, ok |-> FALSE]
RequestType ==
    [pc : {"idle", "verify", "resume", "expire", "find", "count", "create", "link",
           "activate", "check", "store", "flush", "release", "reload", "finish", "complete"},
     s : 0..MaxSessions, a : 0..MaxSessions, ans : SUBSET Answer,
     n : 0..MaxSessions, ok : BOOLEAN]

TypeOK ==
    /\ access \in {"none", "eligible", "active", "completed", "revoked"}
    /\ approved \in BOOLEAN /\ ended \in BOOLEAN /\ published \in BOOLEAN
    /\ sess \in Seq(SessionType) /\ Len(sess) <= MaxSessions
    /\ att \in Seq(AttemptType) /\ Len(att) <= Len(sess)
    /\ req \in [Tab -> RequestType]
    /\ tick \in [Tick -> 0..MaxSessions]
    /\ admin \in 0..MaxAdmin

Init ==
    /\ access = "eligible" /\ approved = TRUE
    /\ sess = <<>> /\ att = <<>>
    /\ req = [t \in Tab |-> Idle]
    /\ tick = [k \in Tick |-> 0]
    /\ ended = FALSE /\ published = TRUE /\ admin = 0

InProgress(a) == att[a].st = "IN_PROGRESS"
MayEnter == access \notin {"revoked", "completed"}

\* The request goes on at pc; Done(t) ends it.
Goes(t, pc) == req' = [req EXCEPT ![t].pc = pc]
Done(t) == req' = [req EXCEPT ![t] = Idle]
Begins(t, r) == req[t].pc = "idle" /\ req' = [req EXCEPT ![t] = r]

-----------------------------------------------------------------------------
(* getAccessState                                                          *)

\* Before the end of the exam an approved participant without an attempt in progress
\* is given a session; after it, the latest session and the one of the attempt in
\* progress are marked expired.
AccessRead(t) ==
    /\ t \in AccessTab
    /\ published \/ att # <<>>
    /\ IF ended
       THEN \E s \in DOMAIN sess :
               /\ s = Len(sess) \/ (sess[s].part # 0 /\ InProgress(sess[s].part))
               /\ sess[s].st # "expired"
               /\ Begins(t, [Idle EXCEPT !.pc = "expire", !.s = s])
       ELSE /\ approved /\ MayEnter
            /\ \A a \in DOMAIN att : ~InProgress(a)
            /\ Begins(t, [Idle EXCEPT !.pc = "verify"])
    /\ UNCHANGED <<access, approved, sess, att, tick, ended, published, admin>>

\* createOrResumeVerifiedSession: the latest session, if it is neither expired nor
\* linked, else a new one.
VerifyRead(t) ==
    /\ req[t].pc = "verify"
    /\ req' = [req EXCEPT ![t].pc = "resume", ![t].s =
                  IF sess # <<>> /\ sess[Len(sess)].st # "expired" /\ sess[Len(sess)].part = 0
                  THEN Len(sess) ELSE 0]
    /\ UNCHANGED <<access, approved, sess, att, tick, ended, published, admin>>

\* The update is by id alone: the session may have been started since.
VerifyWrite(t) ==
    /\ req[t].pc = "resume"
    /\ IF req[t].s # 0
       THEN sess' = [sess EXCEPT ![req[t].s].st = "eligible"]
       ELSE /\ Len(sess) < MaxSessions
            /\ sess' = Append(sess, [st |-> "eligible", part |-> 0])
    /\ Done(t)
    /\ UNCHANGED <<access, approved, att, tick, ended, published, admin>>

\* markExpired
ExpireSession(t) ==
    /\ req[t].pc = "expire"
    /\ sess' = [sess EXCEPT ![req[t].s].st = "expired"]
    /\ Done(t)
    /\ UNCHANGED <<access, approved, att, tick, ended, published, admin>>

-----------------------------------------------------------------------------
(* startEntrySession                                                       *)

\* A session that was started resumes its attempt, which ends it if its time is over;
\* any other goes on to look for an attempt in progress.
StartRead(t, s) ==
    /\ IF sess[s].st = "started" /\ sess[s].part # 0
       THEN /\ MayEnter
            /\ InProgress(sess[s].part) /\ att[sess[s].part].late
            /\ Begins(t, [Idle EXCEPT !.pc = "finish", !.a = sess[s].part])
       ELSE /\ published
            /\ Begins(t, [Idle EXCEPT !.pc = "find", !.s = s,
                                      !.ok = sess[s].st = "eligible" /\ MayEnter])
    /\ UNCHANGED <<access, approved, sess, att, tick, ended, published, admin>>

\* findActiveParticipationForUser, then the checks of the session, the dates and the
\* participant as they were read.
StartFind(t) ==
    /\ req[t].pc = "find"
    /\ \/ \E a \in DOMAIN att :
             InProgress(a) /\ req' = [req EXCEPT ![t].pc = "link", ![t].a = a]
       \/ /\ \A a \in DOMAIN att : ~InProgress(a)
          /\ \/ ended /\ Goes(t, "expire")
             \/ ~ended /\ req[t].ok /\ Goes(t, "count")
             \/ ~ended /\ ~req[t].ok /\ Done(t)
    /\ UNCHANGED <<access, approved, sess, att, tick, ended, published, admin>>

\* markStarted on the session, whatever it has become.
StartLink(t) ==
    /\ req[t].pc = "link"
    /\ sess' = [sess EXCEPT ![req[t].s] = [st |-> "started", part |-> req[t].a]]
    /\ Goes(t, "activate")
    /\ UNCHANGED <<access, approved, att, tick, ended, published, admin>>

\* Mutant: one attempt too many is let through.
StartCountsLate(t) ==
    /\ req[t].pc = "count"
    /\ IF Len(att) <= MaxAttempts THEN Goes(t, "create") ELSE Done(t)
    /\ UNCHANGED <<access, approved, sess, att, tick, ended, published, admin>>

\* countAttemptsByParticipant.
StartCount(t) ==
    /\ req[t].pc = "count"
    /\ IF Len(att) < MaxAttempts THEN Goes(t, "create") ELSE Done(t)
    /\ UNCHANGED <<access, approved, sess, att, tick, ended, published, admin>>

NewAttempt(s) ==
    [st |-> "IN_PROGRESS", late |-> ended, answers |-> {}, snapshot |-> {},
     locked |-> FALSE, inTime |-> FALSE, from |-> s, acked |-> {}]

\* Mutants: a session that was made eligible again may start a second attempt; the
\* attempt stays when the session could not be marked.
StartCreateTwice(t) ==
    /\ req[t].pc = "create"
    /\ IF sess[req[t].s].st = "eligible"
       THEN /\ att' = Append(att, NewAttempt(req[t].s))
            /\ sess' = [sess EXCEPT ![req[t].s] = [st |-> "started", part |-> Len(att) + 1]]
            /\ Goes(t, "activate")
       ELSE Goes(t, "reload") /\ UNCHANGED <<att, sess>>
    /\ UNCHANGED <<access, approved, tick, ended, published, admin>>
StartCreateKept(t) ==
    /\ req[t].pc = "create"
    /\ att' = Append(att, NewAttempt(req[t].s))
    /\ IF sess[req[t].s] = [st |-> "eligible", part |-> 0]
       THEN /\ sess' = [sess EXCEPT ![req[t].s] = [st |-> "started", part |-> Len(att) + 1]]
            /\ Goes(t, "activate")
       ELSE Goes(t, "reload") /\ UNCHANGED sess
    /\ UNCHANGED <<access, approved, tick, ended, published, admin>>

\* createAttemptAndMarkStartedIfEligible: the attempt and the mark on the session are
\* one transaction, rolled back unless the session is eligible and not linked.
StartCreate(t) ==
    /\ req[t].pc = "create"
    /\ IF sess[req[t].s] = [st |-> "eligible", part |-> 0]
       THEN /\ att' = Append(att, NewAttempt(req[t].s))
            /\ sess' = [sess EXCEPT ![req[t].s] = [st |-> "started", part |-> Len(att) + 1]]
            /\ Goes(t, "activate")
       ELSE Goes(t, "reload") /\ UNCHANGED <<att, sess>>
    /\ UNCHANGED <<access, approved, tick, ended, published, admin>>

\* The request that lost resumes the attempt of the one that won.
StartReload(t) ==
    /\ req[t].pc = "reload"
    /\ LET a == sess[req[t].s].part
       IN  IF sess[req[t].s].st = "started" /\ a # 0 /\ InProgress(a) /\ att[a].late
           THEN req' = [req EXCEPT ![t] = [Idle EXCEPT !.pc = "finish", !.a = a]]
           ELSE Done(t)
    /\ UNCHANGED <<access, approved, sess, att, tick, ended, published, admin>>

StartActivate(t) ==
    /\ req[t].pc = "activate"
    /\ access' = "active"
    /\ Done(t)
    /\ UNCHANGED <<approved, sess, att, tick, ended, published, admin>>

-----------------------------------------------------------------------------
(* syncParticipation                                                       *)

SyncRead(t, a) ==
    /\ att[a].st # "SUBMITTED"
    /\ Begins(t, [Idle EXCEPT !.pc = "check", !.a = a, !.ans = att[a].answers])
    /\ UNCHANGED <<access, approved, sess, att, tick, ended, published, admin>>

\* The participant is read and the clock looked at; the status is not read again.
SyncCheck(t) ==
    /\ req[t].pc = "check"
    /\ IF access = "revoked" THEN Done(t)
       ELSE Goes(t, IF att[req[t].a].late THEN "finish" ELSE "store")
    /\ UNCHANGED <<access, approved, sess, att, tick, ended, published, admin>>

\* Mutant: the answers sent replace those on record.
SyncReplaces(t, x) ==
    /\ req[t].pc = "store"
    /\ att' = [att EXCEPT ![req[t].a].answers = {x}, ![req[t].a].acked = @ \cup {x}]
    /\ Done(t)
    /\ UNCHANGED <<access, approved, sess, tick, ended, published, admin>>

\* The answers as they were read, and the new one, are written whatever the attempt has
\* become, and the client is told that they are kept.
SyncStore(t, x) ==
    /\ req[t].pc = "store"
    /\ att' = [att EXCEPT ![req[t].a].answers = req[t].ans \cup {x},
                          ![req[t].a].acked = @ \cup {x}]
    /\ Done(t)
    /\ UNCHANGED <<access, approved, sess, tick, ended, published, admin>>

-----------------------------------------------------------------------------
(* finalizeExpiredParticipation, called by a sync or a resume that is late *)

FinishRead(t) ==
    /\ req[t].pc = "finish"
    /\ req' = [req EXCEPT ![t].pc = "complete", ![t].ans = att[req[t].a].answers]
    /\ UNCHANGED <<access, approved, sess, att, tick, ended, published, admin>>

\* The status is overwritten, and the participant is completed in the next statement.
FinishWrite(t) ==
    /\ req[t].pc = "complete" /\ ~req[t].ok
    /\ att' = [att EXCEPT ![req[t].a] =
                  [@ EXCEPT !.st = "EXPIRED", !.snapshot = req[t].ans,
                            !.locked = TRUE, !.inTime = FALSE]]
    /\ req' = [req EXCEPT ![t].ok = TRUE]
    /\ UNCHANGED <<access, approved, sess, tick, ended, published, admin>>

FinishAccess(t) ==
    /\ req[t].pc = "complete" /\ req[t].ok
    /\ access' = "completed"
    /\ Done(t)
    /\ UNCHANGED <<approved, sess, att, tick, ended, published, admin>>

-----------------------------------------------------------------------------
(* submitActiveParticipation                                               *)

\* The participations are read, the latest one in progress is chosen; then the request
\* may wait for the proctoring client's final flush.
SubmitRead(t, a) ==
    /\ InProgress(a) /\ \A b \in DOMAIN att : InProgress(b) => b <= a
    /\ Begins(t, [Idle EXCEPT !.pc = "flush", !.a = a, !.ans = att[a].answers, !.n = Len(att)])
    /\ UNCHANGED <<access, approved, sess, att, tick, ended, published, admin>>

\* The attempt is submitted with the answers read before the wait.
SubmitWrite(t) ==
    /\ req[t].pc = "flush"
    /\ att' = [att EXCEPT ![req[t].a] =
                  [@ EXCEPT !.st = "SUBMITTED", !.snapshot = req[t].ans,
                            !.locked = TRUE, !.inTime = ~att[req[t].a].late]]
    /\ req' = [req EXCEPT ![t].pc = "release", ![t].ok = req[t].n < MaxAttempts /\ ~ended]
    /\ UNCHANGED <<access, approved, sess, tick, ended, published, admin>>

SubmitAccess(t) ==
    /\ req[t].pc = "release"
    /\ access' = IF req[t].ok THEN "eligible" ELSE "completed"
    /\ Done(t)
    /\ UNCHANGED <<approved, sess, att, tick, ended, published, admin>>

\* A check refuses the request, a statement fails or the process dies: what was
\* written so far stays.
Drop(t) ==
    /\ req[t].pc # "idle"
    /\ Done(t)
    /\ UNCHANGED <<access, approved, sess, att, tick, ended, published, admin>>

RequestStep(t) ==
    \/ AccessRead(t) \/ VerifyRead(t) \/ VerifyWrite(t) \/ ExpireSession(t)
    \/ \E s \in DOMAIN sess : StartRead(t, s)
    \/ StartFind(t) \/ StartLink(t) \/ StartCount(t) \/ StartCreate(t)
    \/ StartReload(t) \/ StartActivate(t)
    \/ \E a \in DOMAIN att : SyncRead(t, a) \/ SubmitRead(t, a)
    \/ SyncCheck(t) \/ \E x \in Answer : SyncStore(t, x)
    \/ FinishRead(t) \/ FinishWrite(t) \/ FinishAccess(t)
    \/ SubmitWrite(t) \/ SubmitAccess(t)
    \/ Drop(t)

-----------------------------------------------------------------------------
(* The auto-submit timer                                                   *)

\* Mutants: the status found by the scan is not read again; exams that are over are
\* not scanned.
TimerTrustsScan(k) ==
    /\ tick[k] = 0 /\ published
    /\ \E a \in DOMAIN att : att[a].late /\ tick' = [tick EXCEPT ![k] = a]
    /\ UNCHANGED <<access, approved, sess, att, req, ended, published, admin>>
TimerSkipsEnded(k) ==
    /\ tick[k] = 0 /\ published /\ ~ended
    /\ \E a \in DOMAIN att :
           InProgress(a) /\ att[a].late /\ tick' = [tick EXCEPT ![k] = a]
    /\ UNCHANGED <<access, approved, sess, att, req, ended, published, admin>>

\* finalizeExpiredParticipations scans the published exams; autoSubmitExam reads each
\* attempt again and goes on if it is in progress and its time is over.
TimerRead(k) ==
    /\ tick[k] = 0 /\ published
    /\ \E a \in DOMAIN att :
           InProgress(a) /\ att[a].late /\ tick' = [tick EXCEPT ![k] = a]
    /\ UNCHANGED <<access, approved, sess, att, req, ended, published, admin>>

\* No snapshot is taken and the participant keeps its access.
TimerWrite(k) ==
    /\ tick[k] # 0
    /\ att' = [att EXCEPT ![tick[k]].st = "EXPIRED"]
    /\ tick' = [tick EXCEPT ![k] = 0]
    /\ UNCHANGED <<access, approved, sess, req, ended, published, admin>>

TimerStep(k) == TimerRead(k) \/ TimerWrite(k)

-----------------------------------------------------------------------------
(* Time and administrators                                                 *)

TimeIsUp(a) ==
    /\ ~att[a].late
    /\ att' = [att EXCEPT ![a].late = TRUE]
    /\ UNCHANGED <<access, approved, sess, req, tick, ended, published, admin>>

ExamEnds ==
    /\ ~ended /\ ended' = TRUE
    /\ att' = [a \in DOMAIN att |-> [att[a] EXCEPT !.late = TRUE]]
    /\ UNCHANGED <<access, approved, sess, req, tick, published, admin>>

\* approveParticipant, rejectParticipant and revokeParticipant look at no status.
Decide(status, ok) ==
    /\ admin < MaxAdmin /\ admin' = admin + 1
    /\ access' = status /\ approved' = ok
    /\ UNCHANGED <<sess, att, req, tick, ended, published>>
Approve == Decide("eligible", TRUE)
Reject == Decide("none", FALSE)
Revoke == Decide("revoked", approved)

\* archiveExam, once the exam has ended.
Archive ==
    /\ MayArchive /\ published /\ ended
    /\ published' = FALSE
    /\ UNCHANGED <<access, approved, sess, att, req, tick, ended, admin>>

Next ==
    \/ \E t \in Tab : RequestStep(t)
    \/ \E k \in Tick : TimerStep(k)
    \/ (\E a \in DOMAIN att : TimeIsUp(a)) \/ ExamEnds
    \/ Approve \/ Reject \/ Revoke \/ Archive

Spec == Init /\ [][Next]_vars

\* Time passes and the timer keeps its schedule; the participant and the administrators
\* owe nothing, and no request need end.
FairSpec ==
    /\ Spec
    /\ WF_vars(ExamEnds)
    /\ \A k \in Tick : WF_vars(TimerStep(k))

-----------------------------------------------------------------------------
(* Properties                                                              *)

\* However many tabs race to start an entry session, and though its status may be set
\* back to eligible under them, it makes one attempt.
SessionStartsOneAttempt ==
    \A a, b \in DOMAIN att : att[a].from = att[b].from => a = b

\* The attempts counted before the transaction that adds one still bound their number:
\* exam.maxAttempts is respected.
AttemptsWithinLimit == Len(att) <= MaxAttempts

\* Nor are two attempts in progress at once, though a start looks for one long before
\* its transaction adds another.
OneAttemptInProgress ==
    \A a, b \in DOMAIN att : InProgress(a) /\ InProgress(b) => a = b

\* An attempt submitted before its time was over is not turned into an expired one by
\* the timer or a late sync.
OnTimeSubmissionStands ==
    [][\A a \in DOMAIN att :
          att[a].st = "SUBMITTED" /\ att[a].inTime => att'[a].st = "SUBMITTED"]_vars

\* What a sync confirmed is in the answers that are locked in.
LockedKeepsConfirmed ==
    \A a \in DOMAIN att : att[a].locked => att[a].acked \subseteq att[a].snapshot

\* Every attempt ends, also when its participant has gone away.
EveryAttemptEnds ==
    \A a \in 1..MaxSessions :
        (a \in DOMAIN att /\ InProgress(a)) ~> (a \in DOMAIN att /\ ~InProgress(a))

=============================================================================
