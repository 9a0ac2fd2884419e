------------------------------- MODULE ExamEntry -------------------------------
(***************************************************************************)
(* One person's way into an exam of hybrid access mode: self-registration  *)
(* or being added by an administrator, invite links, one-time codes, and   *)
(* the entry session they lead to.  What a session is good for is          *)
(* ExamAttempt's subject; here it is only started.  The model ends with    *)
(* the exam: no entry session expires earlier                              *)
(* (computeEntrySessionExpiresAt).                                         *)
(*                                                                         *)
(* Participants are unique by (exam, email), so a person has one row and   *)
(* persons do not meet, except when an administrator merges two            *)
(* participants, which is left out.                                        *)
(***************************************************************************)
EXTENDS Naturals, Sequences

CONSTANTS
    Request,     \* HTTP requests of the person in flight
    Admin,       \* requests of administrators in flight
    MaxInvites,  \* bound on invites
    MaxSessions, \* bound on entry sessions
    MaxDecisions \* bound on what administrators do

ASSUME EntryAssumption ==
    /\ Request \cap Admin = {}
    /\ MaxInvites \in Nat /\ MaxSessions \in Nat /\ MaxDecisions \in Nat

VARIABLES
    account,   \* the person's row of users: none, real or shadow
    part,      \* the row of exam_participants, or NoPart
    inv,       \* exam_invites, oldest first
    sess,      \* exam_entry_sessions, oldest first
    otp,       \* otpStore has a code for the email
    req,       \* the requests in flight
    decisions  \* what administrators have done so far

entryVars == <<account, part, inv, sess, otp, req, decisions>>

NoPart == [source |-> "none", bound |-> FALSE, approval |-> "pending", access |-> "none"]
PartType == [source : {"none", "self_registration", "manual_add"}, bound : BOOLEAN,
             approval : {"pending", "approved", "rejected"},
             access : {"none", "invited", "eligible", "active", "revoked"}]
InviteType == [opened : BOOLEAN, used : BOOLEAN, revoked : BOOLEAN]
SessionType == [st : {"opened", "eligible", "started"}, linked : BOOLEAN, inv : 0..MaxInvites]

\* via: how the person proves who it is.  i, s: the invite and the session a request
\* works on, or 0.
Idle == [pc |-> "idle", via |-> "login", i |-> 0, s |-> 0]
Place == {"idle", "register", "open", "lookup", "create", "send", "read", "find", "shadow",
          "bind", "verify", "resume", "grant", "use", "revoke", "resend", "invite", "invited"}
Way == {"login", "anonymous", "invite", "otp"}
RequestType == [pc : Place, via : Way, i : 0..MaxInvites, s : 0..MaxSessions]

EntryTypeOK ==
    /\ account \in {"none", "real", "shadow"}
    /\ part \in PartType
    /\ inv \in Seq(InviteType) /\ Len(inv) <= MaxInvites
    /\ sess \in Seq(SessionType) /\ Len(sess) <= MaxSessions
    /\ otp \in BOOLEAN
    /\ req \in [Request \cup Admin -> RequestType]
    /\ decisions \in 0..MaxDecisions

EntryInit ==
    /\ account \in {"none", "real"}
    /\ part = NoPart
    /\ inv = <<>> /\ sess = <<>> /\ otp = FALSE
    /\ req = [t \in Request \cup Admin |-> Idle]
    /\ decisions = 0

Exists == part.source # "none"

\* participantRequiresInviteFlow
InviteFlow == part.source = "manual_add"

Begins(t, pc, via, i) ==
    /\ req[t].pc = "idle"
    /\ req' = [req EXCEPT ![t] = [pc |-> pc, via |-> via, i |-> i, s |-> 0]]
Moves(t, pc, i, s) == req' = [req EXCEPT ![t] = [pc |-> pc, via |-> @.via, i |-> i, s |-> s]]
Goes(t, pc) == Moves(t, pc, req[t].i, req[t].s)
Done(t) == req' = [req EXCEPT ![t] = Idle]

-----------------------------------------------------------------------------
(* The entry session: ensureVerifiedEntrySession                           *)

\* bindUser: the account has the participant's email, so it is always the same one.
Bind(t) ==
    /\ req[t].pc = "bind"
    /\ part' = [part EXCEPT !.bound = TRUE]
    /\ Goes(t, "verify")
    /\ UNCHANGED <<account, inv, sess, otp, decisions>>

\* The latest session, unless an attempt is linked to it.
VerifyRead(t) ==
    /\ req[t].pc = "verify"
    /\ Moves(t, "resume", req[t].i,
             IF sess # <<>> /\ ~sess[Len(sess)].linked THEN Len(sess) ELSE 0)
    /\ UNCHANGED <<account, part, inv, sess, otp, decisions>>

AfterSession(t) ==
    IF req[t].via = "login" THEN Done(t)
    ELSE Moves(t, IF req[t].via = "otp" THEN "grant" ELSE "use", req[t].i, 0)

\* It keeps its invite unless the request brings one; a new one is made otherwise.
VerifyWrite(t) ==
    /\ req[t].pc = "resume"
    /\ IF req[t].s # 0
       THEN sess' = [sess EXCEPT ![req[t].s] =
                        [st |-> "eligible", linked |-> @.linked,
                         inv |-> IF req[t].i # 0 THEN req[t].i ELSE @.inv]]
       ELSE /\ Len(sess) < MaxSessions
            /\ sess' = Append(sess, [st |-> "eligible", linked |-> FALSE, inv |-> req[t].i])
    /\ AfterSession(t)
    /\ UNCHANGED <<account, part, inv, otp, decisions>>

\* The person starts an attempt from the session: the outcome of startEntrySession,
\* whose steps are those of ExamAttempt.
Start(s) ==
    /\ part.bound /\ sess[s].st = "eligible" /\ ~sess[s].linked
    /\ sess' = [sess EXCEPT ![s].st = "started", ![s].linked = TRUE]
    /\ part' = [part EXCEPT !.access = "active"]
    /\ UNCHANGED <<account, inv, otp, req, decisions>>

-----------------------------------------------------------------------------
(* registerForExam and getAccessState                                      *)

\* A person with a real account has to sign in; an existing participant is returned.
RegisterRead(t, via) ==
    /\ via = "anonymous" => account # "real"
    /\ via = "login" => account # "none"
    /\ ~Exists
    /\ Begins(t, "register", via, 0)
    /\ UNCHANGED <<account, part, inv, sess, otp, decisions>>

\* The unique key rejects a second row.  An approved account gets its session at once;
\* approval is automatic or manual.
RegisterCreate(t) ==
    /\ req[t].pc = "register" /\ ~Exists
    /\ \E approved \in BOOLEAN :
          /\ part' = [source |-> "self_registration", bound |-> req[t].via = "login",
                      approval |-> IF approved THEN "approved" ELSE "pending",
                      access |-> IF approved THEN "eligible" ELSE "none"]
          /\ IF approved /\ req[t].via = "login" THEN Goes(t, "bind") ELSE Done(t)
    /\ UNCHANGED <<account, inv, sess, otp, decisions>>

\* Mutant: participants of the invite flow are given a session as well.
AccessAnyone(t) ==
    /\ part.bound /\ part.approval = "approved" /\ part.access # "revoked"
    /\ Begins(t, "verify", "login", 0)
    /\ UNCHANGED <<account, part, inv, sess, otp, decisions>>

\* shouldAutoResumeEntrySession, for a participant found by its account.
AccessRead(t) ==
    /\ part.bound /\ part.approval = "approved" /\ part.access # "revoked"
    /\ ~InviteFlow
    /\ Begins(t, "verify", "login", 0)
    /\ UNCHANGED <<account, part, inv, sess, otp, decisions>>

-----------------------------------------------------------------------------
(* resolveInvite                                                           *)

ResolveRead(t, i, via) ==
    /\ ~inv[i].revoked /\ ~inv[i].used
    /\ via = "invite" => account # "none"
    /\ Begins(t, "open", via, i)
    /\ UNCHANGED <<account, part, inv, sess, otp, decisions>>

\* Mutant: the invite counts as used when it is opened.
OpenUses(t) ==
    /\ req[t].pc = "open"
    /\ inv' = [inv EXCEPT ![req[t].i].opened = TRUE, ![req[t].i].used = TRUE]
    /\ Goes(t, IF req[t].via = "invite" THEN "bind" ELSE "lookup")
    /\ UNCHANGED <<account, part, sess, otp, decisions>>

\* markOpened; a person who signed in is bound, anyone else gets an opened session.
Open(t) ==
    /\ req[t].pc = "open"
    /\ inv' = [inv EXCEPT ![req[t].i].opened = TRUE]
    /\ Goes(t, IF req[t].via = "invite" THEN "bind" ELSE "lookup")
    /\ UNCHANGED <<account, part, sess, otp, decisions>>

\* createOrResumeOpenedSession looks at the unlinked session that was touched last,
\* whichever that is.
LookupOpened(t) ==
    /\ req[t].pc = "lookup"
    /\ \/ /\ \E s \in DOMAIN sess : ~sess[s].linked /\ sess[s].st = "opened"
          /\ Done(t)
       \/ /\ \/ \A s \in DOMAIN sess : sess[s].linked
             \/ \E s \in DOMAIN sess : ~sess[s].linked /\ sess[s].st # "opened"
          /\ Goes(t, "create")
    /\ UNCHANGED <<account, part, inv, sess, otp, decisions>>

CreateOpened(t) ==
    /\ req[t].pc = "create" /\ Len(sess) < MaxSessions
    /\ sess' = Append(sess, [st |-> "opened", linked |-> FALSE, inv |-> req[t].i])
    /\ Done(t)
    /\ UNCHANGED <<account, part, inv, otp, decisions>>

MarkUsed(t) ==
    /\ req[t].pc = "use"
    /\ inv' = [inv EXCEPT ![req[t].i].used = TRUE]
    /\ Done(t)
    /\ UNCHANGED <<account, part, sess, otp, decisions>>

-----------------------------------------------------------------------------
(* sendOtp and verifyOtp                                                   *)

\* A code is for an approved participant that no account is bound to.
MayUseCode == Exists /\ part.approval = "approved" /\ ~part.bound /\ account # "real"

\* requireOpenedInviteEntrySession looks at the latest session.
LinkOpened == sess # <<>> /\ sess[Len(sess)].st = "opened"

SendRead(t) ==
    /\ MayUseCode
    /\ Begins(t, "send", "login", 0)
    /\ UNCHANGED <<account, part, inv, sess, otp, decisions>>

SendCode(t) ==
    /\ req[t].pc = "send"
    /\ InviteFlow => LinkOpened
    /\ otp' = TRUE
    /\ Done(t)
    /\ UNCHANGED <<account, part, inv, sess, decisions>>

\* The code is deleted however the comparison ends.
VerifyCode(t) ==
    /\ otp
    /\ otp' = FALSE
    /\ \/ UNCHANGED req
       \/ Begins(t, "read", "otp", 0)
    /\ UNCHANGED <<account, part, inv, sess, decisions>>

OtpRead(t) ==
    /\ req[t].pc = "read"
    /\ IF MayUseCode THEN Goes(t, "find") ELSE Done(t)
    /\ UNCHANGED <<account, part, inv, sess, otp, decisions>>

\* The invite is that of the opened session, whatever has been sent since.
OtpFind(t) ==
    /\ req[t].pc = "find"
    /\ IF InviteFlow
       THEN IF LinkOpened
            THEN Moves(t, "shadow", sess[Len(sess)].inv, 0)
            ELSE Done(t)
       ELSE Goes(t, "shadow")
    /\ UNCHANGED <<account, part, inv, sess, otp, decisions>>

\* findOrCreateShadowUser; a racing insert is answered with the row that won.
OtpShadow(t) ==
    /\ req[t].pc = "shadow"
    /\ account' = IF account = "none" THEN "shadow" ELSE account
    /\ Goes(t, "bind")
    /\ UNCHANGED <<part, inv, sess, otp, decisions>>

\* updateAccessStatus has no condition on what administrators decided meanwhile.
OtpGrant(t) ==
    /\ req[t].pc = "grant"
    /\ part' = [part EXCEPT !.access = "eligible"]
    /\ IF req[t].i # 0 THEN Goes(t, "use") ELSE Done(t)
    /\ UNCHANGED <<account, inv, sess, otp, decisions>>

-----------------------------------------------------------------------------
(* Administrators                                                          *)

Decides == decisions < MaxDecisions /\ decisions' = decisions + 1

\* addAdminExamParticipants, with an account or an email alone.
Add(bound) ==
    /\ Decides /\ ~Exists /\ (bound => account # "none")
    /\ part' = [source |-> "manual_add", bound |-> bound, approval |-> "approved",
                access |-> "invited"]
    /\ UNCHANGED <<account, inv, sess, otp, req>>

ApprovedAccess == IF InviteFlow THEN "invited" ELSE "eligible"

Approve ==
    /\ Decides /\ Exists
    /\ part' = [part EXCEPT !.approval = "approved", !.access = ApprovedAccess]
    /\ UNCHANGED <<account, inv, sess, otp, req>>

Reject ==
    /\ Decides /\ Exists
    /\ part' = [part EXCEPT !.approval = "rejected", !.access = "none"]
    /\ UNCHANGED <<account, inv, sess, otp, req>>

\* bindParticipantAccount
BindAccount ==
    /\ Decides /\ Exists /\ account # "none"
    /\ part' = [part EXCEPT !.bound = TRUE]
    /\ UNCHANGED <<account, inv, sess, otp, req>>

\* revokeActiveByParticipant: neither revoked nor used.
Withdrawn == [i \in DOMAIN inv |->
                 IF inv[i].used THEN inv[i] ELSE [inv[i] EXCEPT !.revoked = TRUE]]

RevokeInvites(t) ==
    /\ Decides /\ Exists
    /\ Begins(t, "revoke", "login", 0)
    /\ inv' = Withdrawn
    /\ UNCHANGED <<account, part, sess, otp>>

RevokeAccess(t) ==
    /\ req[t].pc = "revoke"
    /\ part' = [part EXCEPT !.access = "revoked"]
    /\ Done(t)
    /\ UNCHANGED <<account, inv, sess, otp, decisions>>

\* resendInvite: earlier invites are revoked, then one is created and sent.
ResendRead(t) ==
    /\ Decides /\ InviteFlow /\ part.approval = "approved" /\ part.access # "revoked"
    /\ Begins(t, "resend", "login", 0)
    /\ UNCHANGED <<account, part, inv, sess, otp>>

\* Mutant: the invites sent before stay valid.
ResendKeeps(t) ==
    /\ req[t].pc = "resend"
    /\ Goes(t, "invite")
    /\ UNCHANGED <<account, part, inv, sess, otp, decisions>>

ResendRevoke(t) ==
    /\ req[t].pc = "resend"
    /\ inv' = Withdrawn
    /\ Goes(t, "invite")
    /\ UNCHANGED <<account, part, sess, otp, decisions>>

ResendCreate(t) ==
    /\ req[t].pc = "invite" /\ Len(inv) < MaxInvites
    /\ inv' = Append(inv, [opened |-> FALSE, used |-> FALSE, revoked |-> FALSE])
    /\ Goes(t, "invited")
    /\ UNCHANGED <<account, part, sess, otp, decisions>>

ResendAccess(t) ==
    /\ req[t].pc = "invited"
    /\ part' = [part EXCEPT !.access = "invited"]
    /\ Done(t)
    /\ UNCHANGED <<account, inv, sess, otp, decisions>>

-----------------------------------------------------------------------------
\* A check refuses a request, a statement fails or the process dies.
Drop(t) ==
    /\ req[t].pc # "idle"
    /\ Done(t)
    /\ UNCHANGED <<account, part, inv, sess, otp, decisions>>

PersonStep(t) ==
    \/ (\E via \in {"login", "anonymous"} : RegisterRead(t, via)) \/ RegisterCreate(t)
    \/ AccessRead(t)
    \/ \E i \in DOMAIN inv, via \in {"invite", "anonymous"} : ResolveRead(t, i, via)
    \/ Open(t) \/ LookupOpened(t) \/ CreateOpened(t)
    \/ SendRead(t) \/ SendCode(t)
    \/ VerifyCode(t) \/ OtpRead(t) \/ OtpFind(t) \/ OtpShadow(t)
    \/ Bind(t) \/ VerifyRead(t) \/ VerifyWrite(t) \/ OtpGrant(t) \/ MarkUsed(t)
    \/ Drop(t)

AdminStep(t) ==
    \/ RevokeInvites(t) \/ RevokeAccess(t)
    \/ ResendRead(t) \/ ResendRevoke(t) \/ ResendCreate(t) \/ ResendAccess(t)
    \/ Drop(t)

EntryNext ==
    \/ \E t \in Request : PersonStep(t)
    \/ \E t \in Admin : AdminStep(t)
    \/ \E s \in DOMAIN sess : Start(s)
    \/ (\E bound \in BOOLEAN : Add(bound)) \/ Approve \/ Reject \/ BindAccount

EntrySpec == EntryInit /\ [][EntryNext]_entryVars

-----------------------------------------------------------------------------
(* Properties                                                              *)

\* A session can be started only by the account its participant is bound to: none is
\* made eligible, by login, invite or code, before there is one.
EligibleIsBound == \A s \in DOMAIN sess : sess[s].st # "opened" => part.bound

\* A participant who was added by an administrator gets no session that can be started
\* without having opened an invite, through whichever endpoint and however they race.
InviteFlowNeedsInvite ==
    InviteFlow =>
        \A s \in DOMAIN sess :
            sess[s].st # "opened" => sess[s].inv # 0 /\ inv[sess[s].inv].opened

\* An invite is used up only once it has led to a session: a request that fails on the
\* way leaves a link that can be opened again.
UsedInviteOpensDoor ==
    (\E i \in DOMAIN inv : inv[i].used) => \E s \in DOMAIN sess : sess[s].st # "opened"

\* Sending an invite again leaves one link that works, if administrators do not send
\* two at once.
OneWorkingLink ==
    \A i, j \in DOMAIN inv :
        /\ ~inv[i].revoked /\ ~inv[i].used
        /\ ~inv[j].revoked /\ ~inv[j].used
        => i = j

=============================================================================
