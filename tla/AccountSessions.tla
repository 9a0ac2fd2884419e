----------------------------- MODULE AccountSessions -----------------------------
(***************************************************************************)
(* Passwords and refresh tokens, and the queue of last-login writes: logins *)
(* with a password or with Google that read the user some statements before *)
(* they make a token, changes and resets of the password that revoke the    *)
(* tokens afterwards, one-time codes kept in memory, and a process that may *)
(* end between any two statements.                                          *)
(***************************************************************************)
EXTENDS Naturals, FiniteSets

CONSTANTS
    User,
    NoUser,
    Login,          \* requests login and loginWithGoogle; each makes one token at most
    Change,         \* requests changePassword and resetPassword
    AuditConcurrency,   \* AUTH_LAST_LOGIN_AUDIT_CONCURRENCY
    AuditMaxPending     \* AUTH_LAST_LOGIN_AUDIT_MAX_PENDING

ASSUME AccountsAssumption ==
    /\ NoUser \notin User
    /\ IsFiniteSet(User)
    /\ AuditConcurrency \in Nat \ {0} /\ AuditMaxPending \in Nat \ {0}

VARIABLES
    password,       \* per user, how often it has been changed
    token,          \* per login, the refresh token it made
    login,          \* per login, where it is and the password it has read
    change,         \* per change or reset, where it is
    otpStore,       \* users with a one-time code
    pendingAudits,  \* users whose last login is still to be written
    activeAudits,   \* writes under way
    drainScheduled,
    overlapped      \* logins that were between reading and writing when tokens were revoked

accountVars == <<password, token, login, change, otpStore,
                 pendingAudits, activeAudits, drainScheduled, overlapped>>
auditVars == <<pendingAudits, activeAudits, drainScheduled>>

AccountTypeOK ==
    /\ password \in [User -> Nat]
    /\ token \in [Login -> {"none", "live", "expired", "revoked"}]
    /\ login \in [Login -> [pc : {"new", "verified", "known", "ended"},
                            user : User \cup {NoUser}, read : Nat]]
    /\ change \in [Change -> [pc : {"new", "update", "revoke", "ended", "stopped"},
                              user : User \cup {NoUser}, code : BOOLEAN, made : Nat]]
    /\ otpStore \subseteq User
    /\ pendingAudits \subseteq User
    /\ activeAudits \in 0..AuditConcurrency
    /\ drainScheduled \in BOOLEAN
    /\ overlapped \subseteq Login

AccountInit ==
    /\ password = [u \in User |-> 0]
    /\ token = [l \in Login |-> "none"]
    /\ login = [l \in Login |-> [pc |-> "new", user |-> NoUser, read |-> 0]]
    /\ change = [c \in Change |-> [pc |-> "new", user |-> NoUser, code |-> FALSE, made |-> 0]]
    /\ otpStore = {} /\ pendingAudits = {} /\ activeAudits = 0 /\ drainScheduled = FALSE
    /\ overlapped = {}

-----------------------------------------------------------------------------
(* The queue of last-login writes                                          *)

recordLastLogin(u) ==
    IF u \notin pendingAudits /\ Cardinality(pendingAudits) >= AuditMaxPending
    THEN UNCHANGED auditVars
    ELSE /\ pendingAudits' = pendingAudits \cup {u}
         /\ drainScheduled' = TRUE
         /\ UNCHANGED activeAudits

\* The loop takes entries until the limit is reached or the queue is empty.
drainLastLoginAuditQueue ==
    /\ drainScheduled
    /\ drainScheduled' = FALSE
    /\ \E taken \in SUBSET pendingAudits :
          /\ activeAudits + Cardinality(taken) <= AuditConcurrency
          /\ taken = pendingAudits \/ activeAudits + Cardinality(taken) = AuditConcurrency
          /\ pendingAudits' = pendingAudits \ taken
          /\ activeAudits' = activeAudits + Cardinality(taken)
    /\ UNCHANGED <<password, token, login, change, otpStore, overlapped>>

\* Mutant: the write that ends leaves the rest to the next login.
EndQuietly ==
    /\ activeAudits > 0
    /\ activeAudits' = activeAudits - 1
    /\ UNCHANGED <<password, token, login, change, otpStore, pendingAudits, drainScheduled, overlapped>>

\* A write ends, whether it succeeded or failed.
AuditEnds ==
    /\ activeAudits > 0
    /\ activeAudits' = activeAudits - 1
    /\ drainScheduled' = (drainScheduled \/ pendingAudits # {})
    /\ UNCHANGED <<password, token, login, change, otpStore, pendingAudits, overlapped>>

-----------------------------------------------------------------------------
(* Logins                                                                  *)

\* findByEmail: the password is compared with the hash read here.
LoginReads(l, u) ==
    /\ login[l].pc = "new"
    /\ \E pc \in {"verified", "known"} :
          login' = [login EXCEPT ![l] = [pc |-> pc, user |-> u, read |-> password[u]]]
    /\ UNCHANGED <<password, token, change, otpStore, auditVars, overlapped>>

CreateToken(l) ==
    /\ login' = [login EXCEPT ![l].pc = "ended"]
    /\ token' = [token EXCEPT ![l] = "live"]
    /\ UNCHANGED <<password, change, otpStore, overlapped>>

LoginEnds(l) ==
    /\ login[l].pc = "verified"
    /\ CreateToken(l)
    /\ recordLastLogin(login[l].user)

\* Google vouched for the user; the last login was written before.
GoogleLoginEnds(l) ==
    /\ login[l].pc = "known"
    /\ CreateToken(l)
    /\ UNCHANGED auditVars

TokenExpires(l) ==
    /\ token[l] = "live"
    /\ token' = [token EXCEPT ![l] = "expired"]
    /\ UNCHANGED <<password, login, change, otpStore, auditVars, overlapped>>

\* An expired token is revoked when it is presented; a live one is handed back as it is.
refreshToken(l) ==
    /\ token[l] = "expired"
    /\ token' = [token EXCEPT ![l] = "revoked"]
    /\ UNCHANGED <<password, login, change, otpStore, auditVars, overlapped>>

logout(l) ==
    /\ token[l] \in {"live", "expired"}
    /\ token' = [token EXCEPT ![l] = "revoked"]
    /\ UNCHANGED <<password, login, change, otpStore, auditVars, overlapped>>

\* Mutant: only the tokens made on the password of now are revoked.
RevokeCurrent(u) ==
    /\ token' = [l \in Login |-> IF login[l].user = u /\ token[l] # "none" /\ login[l].read = password[u]
                                 THEN "revoked" ELSE token[l]]
    /\ overlapped' = overlapped \cup {l \in Login : login[l].user = u /\ login[l].pc \in {"verified", "known"}}

revokeAllUserTokens(u) ==
    /\ token' = [l \in Login |-> IF login[l].user = u /\ token[l] # "none" THEN "revoked" ELSE token[l]]
    /\ overlapped' = overlapped \cup {l \in Login : login[l].user = u /\ login[l].pc \in {"verified", "known"}}

logoutAll(u) ==
    /\ \E l \in Login : login[l].user = u /\ token[l] \in {"live", "expired"}
    /\ revokeAllUserTokens(u)
    /\ UNCHANGED <<password, login, change, otpStore, auditVars>>

-----------------------------------------------------------------------------
(* Changes and resets of the password                                      *)

\* sendVerificationCode replaces an earlier code.
SendResetCode(u) ==
    /\ otpStore' = otpStore \cup {u}
    /\ UNCHANGED <<password, token, login, change, auditVars, overlapped>>

\* A wrong or expired code uses up the one that is stored.
CodeRejected(u) ==
    /\ u \in otpStore
    /\ otpStore' = otpStore \ {u}
    /\ UNCHANGED <<password, token, login, change, auditVars, overlapped>>

\* The current password was compared with the row read here.
ChangeReads(c, u) ==
    /\ change[c].pc = "new"
    /\ change' = [change EXCEPT ![c].pc = "update", ![c].user = u]
    /\ UNCHANGED <<password, token, login, otpStore, auditVars, overlapped>>

\* verifyOTP takes the code off the store in the turn that compares it.
ResetReads(c, u) ==
    /\ change[c].pc = "new"
    /\ u \in otpStore
    /\ otpStore' = otpStore \ {u}
    /\ change' = [change EXCEPT ![c].pc = "update", ![c].user = u, ![c].code = TRUE]
    /\ UNCHANGED <<password, token, login, auditVars, overlapped>>

\* updatePassword, and in a reset the deletion of the code, which may be a newer one.
UpdatePassword(c) ==
    LET u == change[c].user IN
    /\ change[c].pc = "update"
    /\ password' = [password EXCEPT ![u] = @ + 1]
    /\ otpStore' = IF change[c].code THEN otpStore \ {u} ELSE otpStore
    /\ change' = [change EXCEPT ![c].pc = "revoke", ![c].made = password[u] + 1]
    /\ UNCHANGED <<token, login, auditVars, overlapped>>

RevokeSessions(c) ==
    /\ change[c].pc = "revoke"
    /\ revokeAllUserTokens(change[c].user)
    /\ change' = [change EXCEPT ![c].pc = "ended"]
    /\ UNCHANGED <<password, login, otpStore, auditVars>>

\* The database rejects a statement.
ChangeStops(c) ==
    /\ change[c].pc \in {"update", "revoke"}
    /\ change' = [change EXCEPT ![c].pc = "stopped"]
    /\ UNCHANGED <<password, token, login, otpStore, auditVars, overlapped>>

\* The process ends and with it what it kept in memory.
ProcessEnds ==
    /\ login' = [l \in Login |-> IF login[l].pc = "new" THEN login[l]
                                 ELSE [login[l] EXCEPT !.pc = "ended"]]
    /\ change' = [c \in Change |-> IF change[c].pc \in {"update", "revoke"}
                                   THEN [change[c] EXCEPT !.pc = "stopped"] ELSE change[c]]
    /\ otpStore' = {} /\ pendingAudits' = {} /\ activeAudits' = 0 /\ drainScheduled' = FALSE
    /\ UNCHANGED <<password, token, overlapped>>

AccountNext ==
    \/ \E l \in Login, u \in User : LoginReads(l, u)
    \/ \E l \in Login : LoginEnds(l) \/ GoogleLoginEnds(l) \/ TokenExpires(l) \/ refreshToken(l) \/ logout(l)
    \/ \E u \in User : logoutAll(u) \/ SendResetCode(u) \/ CodeRejected(u)
    \/ \E c \in Change, u \in User : ChangeReads(c, u) \/ ResetReads(c, u)
    \/ \E c \in Change : UpdatePassword(c) \/ RevokeSessions(c) \/ ChangeStops(c)
    \/ drainLastLoginAuditQueue
    \/ AuditEnds
    \/ ProcessEnds

AccountSpec == AccountInit /\ [][AccountNext]_accountVars

-----------------------------------------------------------------------------
(* Properties                                                              *)

\* A token made on a password that has been replaced since opens nothing any more, unless
\* its login was under way while tokens were revoked, or the request that replaced the
\* password has not come to revoking them or stopped before.
OldSessionsEnd ==
    \A l \in Login : token[l] = "live" /\ login[l].read < password[login[l].user] =>
        \/ l \in overlapped
        \/ \E c \in Change : /\ change[c].user = login[l].user
                             /\ change[c].pc \in {"revoke", "stopped"}
                             /\ change[c].made > login[l].read

\* A last login that waits to be written is never left behind: a drain of the queue is
\* scheduled, or a write is under way whose end schedules one.
AuditsMove == pendingAudits # {} => drainScheduled \/ activeAudits > 0
=============================================================================
