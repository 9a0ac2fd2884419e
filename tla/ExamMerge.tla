------------------------------- MODULE ExamMerge -------------------------------
(***************************************************************************)
(* An administrator merges two participants of an exam, usually one person *)
(* known under two e-mail addresses: mergeParticipants reads both rows,    *)
(* hands the source's invites, entry sessions and attempts over, copies    *)
(* the source's account to the target and marks the source as merged, one  *)
(* statement after the other and in no transaction.                        *)
(*                                                                         *)
(* An account is bound to a participant by its e-mail address, and both    *)
(* addresses and accounts are unique in an exam: the account of p's        *)
(* address is called p.  Rows that agree in kind, account and participant  *)
(* are one.                                                                *)
(***************************************************************************)
EXTENDS FiniteSets

CONSTANTS
    Participant,  \* participants of the exam
    NoAccount,    \* not a participant
    Merger        \* merge requests

ASSUME MergeAssumption == NoAccount \notin Participant

VARIABLES
    userId,    \* the account bound to each participant
    rows,      \* rows of other tables: kind, account it is of, participant it is with
    merged,    \* participants with mergedIntoParticipantId
    merge,     \* each request: where it is, its input and what it read
    overtaken  \* history: somebody else changed a participant of a merge under way

mergeVars == <<userId, rows, merged, merge, overtaken>>

Account == Participant \cup {NoAccount}
Kind == {"invite", "session", "attempt"}
Ended == {"idle", "done", "denied", "stopped"}

MergeTypeOK ==
    /\ userId \in [Participant -> Account]
    /\ rows \subseteq [kind : Kind, user : Account, at : Participant]
    /\ merged \subseteq Participant
    /\ merge \in [Merger -> [pc : Ended \cup Kind \cup {"reads", "update", "mark"},
                             src : Participant, tgt : Participant,
                             srcUser : Account, tgtUser : Account]]
    /\ overtaken \in BOOLEAN

MergeInit ==
    /\ userId = [p \in Participant |-> NoAccount]
    /\ rows = {} /\ merged = {} /\ overtaken = FALSE
    /\ \E p \in Participant :
         merge = [m \in Merger |-> [pc |-> "idle", src |-> p, tgt |-> p,
                                    srcUser |-> NoAccount, tgtUser |-> NoAccount]]

InMerge(p) == \E m \in Merger : merge[m].pc \notin Ended /\ p \in {merge[m].src, merge[m].tgt}

-----------------------------------------------------------------------------
\* The participant's e-mail address is verified, or an administrator binds the account.
BindsAccount(p) ==
    /\ p \notin merged
    /\ \A q \in Participant \ {p} : userId[q] # p
    /\ userId' = [userId EXCEPT ![p] = p]
    /\ overtaken' = (overtaken \/ InMerge(p))
    /\ UNCHANGED <<rows, merged, merge>>

\* An invite is sent, opened to a session, or a bound participant begins an attempt.
GetsRow(p, k) ==
    /\ p \notin merged
    /\ k = "attempt" => userId[p] # NoAccount
    /\ rows' = rows \cup {[kind |-> k, at |-> p,
                           user |-> IF k = "attempt" THEN userId[p] ELSE NoAccount]}
    /\ overtaken' = (overtaken \/ InMerge(p))
    /\ UNCHANGED <<userId, merged, merge>>

-----------------------------------------------------------------------------
ReadSource(m, s, t) ==
    /\ merge[m].pc = "idle" /\ s # t
    /\ s \notin merged
    /\ merge' = [merge EXCEPT ![m] = [pc |-> "reads", src |-> s, tgt |-> t,
                                      srcUser |-> userId[s], tgtUser |-> NoAccount]]
    /\ overtaken' = (overtaken \/ InMerge(s) \/ InMerge(t))
    /\ UNCHANGED <<userId, rows, merged>>

\* Mutant: participants of different users are merged.
DifferentNever(a, b) == FALSE

DifferentUsers(a, b) == a # NoAccount /\ b # NoAccount /\ a # b

ReadTarget(m) ==
    /\ merge[m].pc = "reads"
    /\ LET t == merge[m].tgt
           denied == t \in merged \/ DifferentUsers(merge[m].srcUser, userId[t])
       IN  merge' = [merge EXCEPT ![m].tgtUser = userId[t],
                                  ![m].pc = IF denied THEN "denied" ELSE "invite"]
    /\ UNCHANGED <<userId, rows, merged, overtaken>>

AfterKind == [invite |-> "session", session |-> "attempt", attempt |-> "update"]

\* reassignParticipant of each table in turn.
HandOver(m) ==
    /\ merge[m].pc \in Kind
    /\ LET moves(r) == r.kind = merge[m].pc /\ r.at = merge[m].src
       IN  rows' = {r \in rows : ~moves(r)}
                     \cup {[r EXCEPT !.at = merge[m].tgt] : r \in {r \in rows : moves(r)}}
    /\ merge' = [merge EXCEPT ![m].pc = AfterKind[@]]
    /\ UNCHANGED <<userId, merged, overtaken>>

\* The target gets the account it had when it was read, or the source's; the unique key
\* refuses one that another participant holds, the source included.
UpdateTarget(m) ==
    /\ merge[m].pc = "update"
    /\ LET t == merge[m].tgt
           a == IF merge[m].tgtUser # NoAccount THEN merge[m].tgtUser ELSE merge[m].srcUser
           taken == a # NoAccount /\ \E p \in Participant \ {t} : userId[p] = a
       IN  /\ userId' = IF taken THEN userId ELSE [userId EXCEPT ![t] = a]
           /\ merge' = [merge EXCEPT ![m].pc = IF taken THEN "stopped" ELSE "mark"]
    /\ UNCHANGED <<rows, merged, overtaken>>

MarkMerged(m) ==
    /\ merge[m].pc = "mark"
    /\ merged' = merged \cup {merge[m].src}
    /\ merge' = [merge EXCEPT ![m].pc = "done"]
    /\ UNCHANGED <<userId, rows, overtaken>>

\* A statement fails, or the process dies.
MergeStops(m) ==
    /\ merge[m].pc \notin Ended
    /\ merge' = [merge EXCEPT ![m].pc = "stopped"]
    /\ UNCHANGED <<userId, rows, merged, overtaken>>

MergeNext ==
    \/ \E p \in Participant : BindsAccount(p) \/ \E k \in Kind : GetsRow(p, k)
    \/ \E m \in Merger :
         \/ \E s, t \in Participant : ReadSource(m, s, t)
         \/ ReadTarget(m) \/ HandOver(m) \/ UpdateTarget(m) \/ MarkMerged(m) \/ MergeStops(m)

MergeSpec == MergeInit /\ [][MergeNext]_mergeVars

-----------------------------------------------------------------------------
(* Property                                                                *)

\* The source of a merge that stopped still has account a: only the rows have moved.
LeftBehind(a) ==
    \E m \in Merger : merge[m].pc = "stopped" /\ merge[m].srcUser = a /\ userId[merge[m].src] = a

\* Merges that are over, done or stopped after any statement, with nobody else at their
\* participants meanwhile, lose nothing and mix up nobody: what a merged participant had
\* is with one that is not merged, no account vanishes with a merged participant, and an
\* attempt is with the participant of the account that made it.  The exception is an
\* account whose participant was the source of a merge that stopped: its attempts may have
\* gone ahead, to a participant others are merged into, but the account is not lost.
MergeLosesNothing ==
    (~overtaken /\ \A m \in Merger : merge[m].pc \in Ended) =>
        /\ \A r \in rows : /\ r.at \notin merged
                           /\ r.user \in {NoAccount, userId[r.at]} \/ LeftBehind(r.user)
        /\ \A p \in merged : userId[p] = NoAccount
=============================================================================
