----------------------------- MODULE ExamLifecycle -----------------------------
(***************************************************************************)
(* The life of one exam: it is created as a draft or published at once,    *)
(* published, cancelled while nobody takes part, archived once it has      *)
(* ended, edited and deleted, by requests that read the exam, await, and   *)
(* write; meanwhile candidates register for it and join it.  There are two *)
(* services: exam-access.service.ts, whose edits look at the status only,  *)
(* and exam.service.ts, whose edits and deletions look for attempts.       *)
(*                                                                         *)
(* What an attempt depends on - duration, dates, number of attempts and    *)
(* challenges - are the terms of the exam, known by the time they end at.  *)
(* Each candidate joins once: another attempt is another candidate's.      *)
(***************************************************************************)
EXTENDS Integers

CONSTANTS
    Staff,      \* requests of teachers and administrators under way at a time
    Candidate,  \* people who register and join
    LastDay     \* bound: days that pass, and the times an exam can end at

ASSUME LifecycleAssumption == LastDay \in Nat \ {0}

VARIABLES
    exam,          \* its row, and whether an audit log refers to it
    participants,  \* candidates with a row in exam_participants
    attempts,      \* candidates with a row in exam_participations
    day,           \* the time
    admin,         \* each request: where it is, its input, the time it read and, as history,
                   \* whose attempts there were when it looked
    candidate,     \* each candidate's request, and the terms it has read
    late,          \* history: who may be a participant since the exam was cancelled
    excused        \* history: candidates whose terms were changed under a known exception

lifecycleVars == <<exam, participants, attempts, day, admin, candidate, late, excused>>

Terms == 1..LastDay
Keep  == 0                       \* a field the request leaves out
Live  == {"draft", "published", "cancelled", "archived"}

Edit  == [terms : Terms \cup {Keep}, isVisible : {"keep", "show", "hide"}]
AdminPc == {"publish", "count", "cancel", "archiveEnded", "archiveCancelled", "edit",
            "compare", "legacyEdit", "delete", "log"}

NoEditMade == [terms |-> Keep, isVisible |-> "keep"]
NoRequest  == [pc |-> "idle", edit |-> NoEditMade, seen |-> {}, now |-> 1]

LifecycleTypeOK ==
    /\ exam \in [status : Live \cup {"none", "deleted"}, isVisible : BOOLEAN,
                 terms : Terms, logged : BOOLEAN]
    /\ participants \subseteq Candidate /\ attempts \subseteq Candidate
    /\ day \in 1..LastDay
    /\ admin \in [Staff -> [pc : AdminPc \cup {"idle"}, edit : Edit,
                            seen : SUBSET Candidate, now : 1..LastDay]]
    /\ candidate \in [Candidate -> [pc : {"idle", "register", "add", "join", "joined"},
                                    terms : Terms]]
    /\ late \subseteq Candidate /\ excused \subseteq Candidate

LifecycleInit ==
    /\ exam = [status |-> "none", isVisible |-> FALSE, terms |-> 1, logged |-> FALSE]
    /\ participants = {} /\ attempts = {} /\ day = 1
    /\ admin = [r \in Staff |-> NoRequest]
    /\ candidate = [c \in Candidate |-> [pc |-> "idle", terms |-> 1]]
    /\ late = Candidate /\ excused = {}

ExamExists == exam.status \in Live
Over(terms) == day > terms

Proceeds(r, pc) == admin' = [admin EXCEPT ![r] = [NoRequest EXCEPT !.pc = pc]]
Closes(r)     == admin' = [admin EXCEPT ![r] = NoRequest]
Doing(pc)   == {c \in Candidate : candidate[c].pc = pc}

-----------------------------------------------------------------------------
createExamWithChallenges(status, terms, shown) ==
    /\ exam.status = "none"
    /\ exam' = [exam EXCEPT !.status = status, !.terms = terms, !.isVisible = shown]

\* The legacy service leaves the status at its default.
createExam(r, terms, shown) ==
    /\ admin[r].pc = "idle"
    /\ createExamWithChallenges("draft", terms, shown)
    /\ UNCHANGED <<participants, attempts, day, admin, candidate, late, excused>>

createAdminExam(r, terms, shown) ==
    /\ admin[r].pc = "idle"
    /\ createExamWithChallenges(IF shown THEN "published" ELSE "draft", terms, shown)
    /\ Proceeds(r, "log")
    /\ UNCHANGED <<participants, attempts, day, candidate, late, excused>>

\* The log refers to the exam, which must exist; the request ends either way.
writeAuditLog(r) ==
    /\ admin[r].pc = "log"
    /\ exam' = [exam EXCEPT !.logged = @ \/ ExamExists]
    /\ Closes(r)
    /\ UNCHANGED <<participants, attempts, day, candidate, late, excused>>

-----------------------------------------------------------------------------
PublishReads(r) ==
    /\ admin[r].pc = "idle" /\ exam.status = "draft" /\ ~Over(exam.terms)
    /\ Proceeds(r, "publish")
    /\ UNCHANGED <<exam, participants, attempts, day, candidate, late, excused>>

\* One UPDATE with a condition; a request it does not serve reads the exam again for its
\* error and ends.
publishIfDraft(r) ==
    /\ admin[r].pc = "publish"
    /\ \/ /\ exam.status = "draft"
          /\ exam' = [exam EXCEPT !.status = "published", !.isVisible = TRUE]
          /\ Proceeds(r, "log")
       \/ exam.status # "draft" /\ exam' = exam /\ Closes(r)
    /\ UNCHANGED <<participants, attempts, day, candidate, late, excused>>

CancelReads(r) ==
    /\ admin[r].pc = "idle" /\ exam.status = "published"
    /\ Proceeds(r, "count")
    /\ UNCHANGED <<exam, participants, attempts, day, candidate, late, excused>>

countActiveParticipants(r) ==
    /\ admin[r].pc = "count"
    /\ Proceeds(r, IF participants = {} THEN "cancel" ELSE "idle")
    /\ UNCHANGED <<exam, participants, attempts, day, candidate, late, excused>>

\* Mutant: the UPDATE trusts the count.
TrustCount == exam.status = "published"

MayCancel == exam.status = "published" /\ participants = {}

\* From here on only those whose registration is under way may still become participants.
cancelIfPublishedWithoutParticipants(r) ==
    /\ admin[r].pc = "cancel"
    /\ \/ /\ MayCancel
          /\ exam' = [exam EXCEPT !.status = "cancelled", !.isVisible = FALSE]
          /\ late' = Doing("register")
          /\ Proceeds(r, "log")
       \/ ~MayCancel /\ Closes(r) /\ UNCHANGED <<exam, late>>
    /\ UNCHANGED <<participants, attempts, day, candidate, excused>>

ArchiveReads(r) ==
    /\ admin[r].pc = "idle"
    /\ \/ exam.status = "published" /\ Over(exam.terms)
       \/ exam.status = "cancelled"
    /\ admin' = [admin EXCEPT ![r] = [NoRequest EXCEPT
                   !.pc = IF exam.status = "cancelled" THEN "archiveCancelled" ELSE "archiveEnded",
                   !.now = day]]
    /\ UNCHANGED <<exam, participants, attempts, day, candidate, late, excused>>

\* archivePublishedIfEnded compares the end with the time the request read.
ArchiveWrites(r) ==
    LET ended == /\ admin[r].pc = "archiveEnded"
                 /\ exam.status = "published" /\ exam.terms < admin[r].now
        may   == ended \/ (admin[r].pc = "archiveCancelled" /\ exam.status = "cancelled")
    IN  /\ admin[r].pc \in {"archiveEnded", "archiveCancelled"}
        /\ \/ /\ may
              /\ exam' = [exam EXCEPT !.status = "archived", !.isVisible = FALSE]
              /\ Proceeds(r, "log")
           \/ ~may /\ exam' = exam /\ Closes(r)
        /\ UNCHANGED <<participants, attempts, day, candidate, late, excused>>

-----------------------------------------------------------------------------
\* The row with the edited fields; an UPDATE by id of a deleted exam changes nothing.
Edited(e) ==
    IF ~ExamExists THEN exam
    ELSE [exam EXCEPT !.terms = IF e.terms = Keep THEN @ ELSE e.terms,
                      !.isVisible = IF e.isVisible = "keep" THEN @ ELSE e.isVisible = "show"]

\* Whoever joined, or is joining, when the terms change, "spared" ones excepted.
Excuse(spared) ==
    excused' = IF exam'.terms = exam.terms THEN excused
               ELSE excused \cup ((Doing("join") \cup Doing("joined")) \ spared)

\* An exam is shown only when it is published and not over.
updateAdminExam(r, e) ==
    LET terms == IF e.terms = Keep THEN exam.terms ELSE e.terms
    IN  /\ admin[r].pc = "idle" /\ ExamExists
        /\ e.isVisible = "show" => exam.status = "published" /\ ~Over(terms)
        /\ admin' = [admin EXCEPT ![r] = [NoRequest EXCEPT !.pc = "edit", !.edit = e]]
        /\ UNCHANGED <<exam, participants, attempts, day, candidate, late, excused>>

\* No condition on the status or the attempts; an edit of dates is logged.
AdminEditWrites(r) ==
    /\ admin[r].pc = "edit"
    /\ exam' = Edited(admin[r].edit)
    /\ Excuse({})
    /\ \/ Closes(r)
       \/ admin[r].edit.terms # Keep /\ ExamExists /\ Proceeds(r, "log")
    /\ UNCHANGED <<participants, attempts, day, candidate, late>>

\* Mutant: nobody's attempts are found.
SeesNobody == {}

\* findByExamId.
SeenAttempts == attempts

\* A request for an exam that is gone changes nothing, and is left out.
updateExam(r, e) ==
    /\ admin[r].pc = "idle" /\ ExamExists
    /\ admin' = [admin EXCEPT ![r] =
                   [NoRequest EXCEPT !.edit = e, !.seen = attempts,
                                     !.pc = IF SeenAttempts = {} THEN "legacyEdit" ELSE "compare"]]
    /\ UNCHANGED <<exam, participants, attempts, day, candidate, late, excused>>

\* With attempts, new terms are refused: those of the exam as it is read now are kept.
CompareTerms(r) ==
    /\ admin[r].pc = "compare"
    /\ IF ExamExists /\ admin[r].edit.terms \in {Keep, exam.terms}
       THEN admin' = [admin EXCEPT ![r].pc = "legacyEdit"]
       ELSE Closes(r)
    /\ UNCHANGED <<exam, participants, attempts, day, candidate, late, excused>>

LegacyEditWrites(r) ==
    /\ admin[r].pc = "legacyEdit"
    /\ exam' = Edited(admin[r].edit)
    /\ Excuse(admin[r].seen)
    /\ Closes(r)
    /\ UNCHANGED <<participants, attempts, day, candidate, late>>

\* The exam is read before the attempts, and only tells that it exists.
deleteExam(r) ==
    /\ admin[r].pc = "idle" /\ ExamExists
    /\ SeenAttempts = {}
    /\ Proceeds(r, "delete")
    /\ UNCHANGED <<exam, participants, attempts, day, candidate, late, excused>>

\* One transaction deletes links, attempts and exam; participants or logs that refer to the
\* exam make it fail.
deleteExamWithRelations(r) ==
    /\ admin[r].pc = "delete"
    /\ \/ /\ ExamExists /\ participants = {} /\ ~exam.logged
          /\ exam' = [exam EXCEPT !.status = "deleted"]
          /\ attempts' = {}
          /\ excused' = excused \cup Doing("join") \cup Doing("joined")
       \/ UNCHANGED <<exam, attempts, excused>>
    /\ Closes(r)
    /\ UNCHANGED <<participants, day, candidate, late>>

\* An await fails, or the process ends.
RequestStops(r) ==
    /\ admin[r].pc # "idle"
    /\ Closes(r)
    /\ UNCHANGED <<exam, participants, attempts, day, candidate, late, excused>>

-----------------------------------------------------------------------------
Stands(c, pc) == candidate' = [candidate EXCEPT ![c].pc = pc]

assertExamPublishedForAccess == exam.status = "published"

\* Self-registration, and no participant of that identity yet.
registerForExam(c) ==
    /\ candidate[c].pc = "idle"
    /\ assertExamPublishedForAccess /\ c \notin participants
    /\ Stands(c, "register")
    /\ UNCHANGED <<exam, participants, attempts, day, admin, late, excused>>

\* An administrator adds the candidate, whatever the status.
addAdminExamParticipants(c) ==
    /\ candidate[c].pc = "idle"
    /\ ExamExists /\ c \notin participants
    /\ Stands(c, "add")
    /\ UNCHANGED <<exam, participants, attempts, day, admin, late, excused>>

\* The row refers to the exam: the insert fails once that is deleted.
CreateParticipant(c) ==
    /\ candidate[c].pc \in {"register", "add"}
    /\ Stands(c, "idle")
    /\ participants' = IF ExamExists THEN participants \cup {c} ELSE participants
    /\ late' = IF candidate[c].pc = "add" THEN late \cup {c} ELSE late
    /\ UNCHANGED <<exam, attempts, day, admin, excused>>

\* With the password, before the end and with no attempt yet; the status plays no part.
joinExam(c) ==
    /\ candidate[c].pc = "idle"
    /\ ExamExists /\ ~Over(exam.terms) /\ c \notin attempts
    /\ candidate' = [candidate EXCEPT ![c] = [pc |-> "join", terms |-> exam.terms]]
    /\ excused' = excused \ {c}
    /\ UNCHANGED <<exam, participants, attempts, day, admin, late>>

createExamParticipationWithExpiry(c) ==
    /\ candidate[c].pc = "join"
    /\ IF ExamExists THEN attempts' = attempts \cup {c} /\ Stands(c, "joined")
                 ELSE UNCHANGED attempts /\ Stands(c, "idle")
    /\ UNCHANGED <<exam, participants, day, admin, late, excused>>

CandidateStops(c) ==
    /\ candidate[c].pc \in {"register", "add", "join"}
    /\ Stands(c, "idle")
    /\ UNCHANGED <<exam, participants, attempts, day, admin, late, excused>>

DayPasses ==
    /\ day < LastDay
    /\ day' = day + 1
    /\ UNCHANGED <<exam, participants, attempts, admin, candidate, late, excused>>

-----------------------------------------------------------------------------
StaffStep(r) ==
    \/ \E terms \in Terms, shown \in BOOLEAN :
         createExam(r, terms, shown) \/ createAdminExam(r, terms, shown)
    \/ \E e \in Edit : updateAdminExam(r, e) \/ updateExam(r, e)
    \/ PublishReads(r) \/ publishIfDraft(r)
    \/ CancelReads(r) \/ countActiveParticipants(r) \/ cancelIfPublishedWithoutParticipants(r)
    \/ ArchiveReads(r) \/ ArchiveWrites(r)
    \/ AdminEditWrites(r) \/ CompareTerms(r) \/ LegacyEditWrites(r)
    \/ deleteExam(r) \/ deleteExamWithRelations(r)
    \/ writeAuditLog(r) \/ RequestStops(r)

CandidateStep(c) ==
    \/ registerForExam(c) \/ addAdminExamParticipants(c) \/ CreateParticipant(c)
    \/ joinExam(c) \/ createExamParticipationWithExpiry(c) \/ CandidateStops(c)

LifecycleNext ==
    \/ \E r \in Staff : StaffStep(r)
    \/ \E c \in Candidate : CandidateStep(c)
    \/ DayPasses

LifecycleSpec == LifecycleInit /\ [][LifecycleNext]_lifecycleVars

-----------------------------------------------------------------------------
\* A cancelled exam stays empty, archived or not: its participants registered while it was
\* being cancelled, or were added by an administrator.  The count that cancelExam makes
\* first is stale by the time it writes, and a registration reads the status long before
\* it inserts.
CancelledStaysEmpty == participants \subseteq late

\* Who has joined keeps the attempt, under the terms it was given: the legacy service refuses
\* to change terms or delete the exam once there are attempts.  The exceptions are those of
\* the code: edits through the administration, which do not look, and requests that looked
\* for attempts before this one was made.
JoinedKeepsTerms ==
    \A c \in Doing("joined") \ excused : c \in attempts /\ exam.terms = candidate[c].terms
=============================================================================
