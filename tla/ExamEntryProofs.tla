---------------------------- MODULE ExamEntryProofs ----------------------------
(* Proofs about ExamEntry, for any number of requests, invites and sessions. *)
EXTENDS ExamEntry, TLAPS

Thread == Request \cup Admin

\* What a request that holds the record r relies on.
Fits(r) ==
    /\ r.i <= Len(inv) /\ r.s <= Len(sess)
    /\ r.pc \notin {"idle", "register", "read"} => Exists
    /\ r.pc \in {"verify", "resume", "grant", "use"} => part.bound
    /\ r.pc \in {"open", "lookup", "create"} => r.i # 0
    /\ r.i # 0 /\ r.pc # "open" => inv[r.i].opened
    /\ InviteFlow /\ r.pc \in {"shadow", "bind", "verify", "resume"} => r.i # 0
    /\ r.pc \in {"grant", "use"} => \E s \in DOMAIN sess : sess[s].st # "opened"

RequestsFit == \A t \in Thread : Fits(req[t])

\* An entry session was made for an opened invite, where one is needed.
SessionsFit ==
    \A s \in DOMAIN sess :
        /\ sess[s].inv <= Len(inv)
        /\ sess[s].inv # 0 => inv[sess[s].inv].opened
        /\ InviteFlow => sess[s].inv # 0
        /\ sess[s].st # "opened" => part.bound

NothingBefore == ~Exists => part = NoPart /\ inv = <<>> /\ sess = <<>>

IInv == EntryTypeOK /\ NothingBefore /\ RequestsFit /\ SessionsFit /\ UsedInviteOpensDoor

\* What no step takes back.
Grows ==
    /\ Exists => part'.source = part.source
    /\ part.bound => part'.bound
    /\ Len(inv) <= Len(inv')
    /\ \A i \in DOMAIN inv : inv[i].opened => inv'[i].opened
    /\ Len(sess) <= Len(sess')
    /\ \A s \in DOMAIN sess : sess[s].st # "opened" => sess'[s].st # "opened"

-----------------------------------------------------------------------------
LEMMA DomainOf ==
    ASSUME NEW S, NEW q \in Seq(S)
    PROVE  DOMAIN q = 1..Len(q) /\ Len(q) \in Nat
OBVIOUS

\* Requests that a step leaves alone keep what they rely on.
LEMMA OthersFit ==
    ASSUME IInv, EntryTypeOK', Grows,
           \A u \in Thread : req'[u] = req[u] \/ Fits(req[u])'
    PROVE  RequestsFit'
<1> SUFFICES ASSUME NEW u \in Thread, req'[u] = req[u] PROVE Fits(req[u])'
  BY DEF RequestsFit
<1> DEFINE r == req[u]
<1>1. r \in RequestType /\ req'[u] = r
  BY DEF IInv, EntryTypeOK, Thread
<1>2. Fits(r)
  BY DEF IInv, RequestsFit
<1>3. /\ DOMAIN inv = 1..Len(inv) /\ Len(inv) \in Nat
      /\ DOMAIN sess = 1..Len(sess) /\ Len(sess) \in Nat
      /\ DOMAIN sess' = 1..Len(sess') /\ Len(sess') \in Nat
      /\ Len(inv') \in Nat
  BY DomainOf DEF IInv, EntryTypeOK
<1>4. r.i \in Nat /\ r.s \in Nat
  BY <1>1, EntryAssumption DEF RequestType
<1> HIDE DEF r
<1>5. r.i <= Len(inv') /\ r.s <= Len(sess')
  BY <1>2, <1>3, <1>4 DEF Fits, Grows
<1>6. r.pc \notin {"idle", "register", "read"} => Exists /\ Exists'
  BY <1>2 DEF Fits, Grows, Exists
<1>7. r.pc \in {"verify", "resume", "grant", "use"} => part'.bound
  BY <1>2 DEF Fits, Grows
<1>8. r.i # 0 /\ r.pc # "open" => inv'[r.i].opened
  BY <1>2, <1>3, <1>4 DEF Fits, Grows
<1>9. InviteFlow' /\ r.pc \in {"shadow", "bind", "verify", "resume"} => r.i # 0
  BY <1>2, <1>6 DEF Fits, Grows, InviteFlow
<1>10. r.pc \in {"grant", "use"} => \E s \in DOMAIN sess' : sess'[s].st # "opened"
  <2> SUFFICES ASSUME r.pc \in {"grant", "use"}
               PROVE  \E s \in DOMAIN sess' : sess'[s].st # "opened"
    OBVIOUS
  <2>1. PICK s \in DOMAIN sess : sess[s].st # "opened"
    BY <1>2 DEF Fits
  <2> QED BY <2>1, <1>3 DEF Grows
<1> QED BY <1>1, <1>2, <1>5, <1>6, <1>7, <1>8, <1>9, <1>10 DEF Fits

LEMMA InitInv == EntryInit => IInv
<1> SUFFICES ASSUME EntryInit PROVE IInv
  OBVIOUS
<1>1. Idle \in RequestType /\ NoPart \in PartType
  BY EntryAssumption DEF Idle, RequestType, Place, Way, NoPart, PartType
<1>2. inv = <<>> /\ sess = <<>> /\ Len(inv) = 0 /\ Len(sess) = 0 /\ decisions \in 0..MaxDecisions
  BY EntryAssumption DEF EntryInit
<1>3. inv \in Seq(InviteType) /\ sess \in Seq(SessionType) /\ DOMAIN inv = {} /\ DOMAIN sess = {}
  BY <1>2
<1>4. EntryTypeOK
  <2>1. req \in [Request \cup Admin -> RequestType]
    BY <1>1 DEF EntryInit
  <2>2. Len(inv) <= MaxInvites /\ Len(sess) <= MaxSessions
    BY <1>2, EntryAssumption
  <2> QED BY <1>1, <1>2, <1>3, <2>1, <2>2 DEF EntryInit, EntryTypeOK
<1>5. NothingBefore /\ SessionsFit /\ UsedInviteOpensDoor
  BY <1>3 DEF EntryInit, NothingBefore, SessionsFit, UsedInviteOpensDoor
<1>6. RequestsFit
  BY <1>2 DEF EntryInit, RequestsFit, Fits, Idle, Thread
<1> QED BY <1>4, <1>5, <1>6 DEF IInv

\* A step that only takes a request further.
LEMMA Quiet ==
    ASSUME IInv, NEW t \in Thread, NEW r \in RequestType,
           req' = [req EXCEPT ![t] = r], UNCHANGED <<part, inv, sess>>,
           account' \in {"none", "real", "shadow"}, otp' \in BOOLEAN,
           decisions' \in 0..MaxDecisions, Fits(r)
    PROVE  IInv'
<1>1. EntryTypeOK' /\ req'[t] = r /\ \A u \in Thread \ {t} : req'[u] = req[u]
  BY DEF IInv, EntryTypeOK, Thread
<1>2. Grows
  BY DomainOf DEF IInv, EntryTypeOK, Grows
<1>3. Fits(req[t])'
  BY <1>1 DEF Fits, Exists, InviteFlow
<1>4. \A u \in Thread : req'[u] = req[u] \/ Fits(req[u])'
  BY <1>1, <1>3
<1>6. RequestsFit'
  BY <1>1, <1>2, <1>4, OthersFit
<1>5. NothingBefore' /\ SessionsFit' /\ UsedInviteOpensDoor'
  BY DEF IInv, NothingBefore, SessionsFit, UsedInviteOpensDoor, Exists, InviteFlow
<1> QED BY <1>1, <1>5, <1>6 DEF IInv

LEMMA IdleFits == ASSUME IInv PROVE Idle \in RequestType /\ Fits(Idle)
BY DomainOf, EntryAssumption DEF IInv, EntryTypeOK, Fits, Idle, RequestType, Place, Way

LEMMA DoneKeeps ==
    ASSUME IInv, NEW t \in Thread, Done(t), UNCHANGED <<part, inv, sess>>,
           account' \in {"none", "real", "shadow"}, otp' \in BOOLEAN,
           decisions' \in 0..MaxDecisions
    PROVE  IInv'
BY IdleFits, Quiet DEF Done

LEMMA TypeFacts ==
    ASSUME IInv, NEW t \in Thread
    PROVE  /\ req[t] \in RequestType /\ Fits(req[t])
           /\ req[t].pc \in Place /\ req[t].via \in Way
           /\ req[t].i \in 0..Len(inv) /\ req[t].s \in 0..Len(sess)
           /\ DOMAIN inv = 1..Len(inv) /\ Len(inv) \in 0..MaxInvites
           /\ DOMAIN sess = 1..Len(sess) /\ Len(sess) \in 0..MaxSessions
           /\ account \in {"none", "real", "shadow"} /\ otp \in BOOLEAN
           /\ decisions \in 0..MaxDecisions
<1>1. req[t] \in RequestType /\ Fits(req[t])
  BY DEF IInv, EntryTypeOK, RequestsFit, Thread
<1>2. /\ DOMAIN inv = 1..Len(inv) /\ Len(inv) \in 0..MaxInvites
      /\ DOMAIN sess = 1..Len(sess) /\ Len(sess) \in 0..MaxSessions
  BY DomainOf, EntryAssumption DEF IInv, EntryTypeOK
<1>3. req[t].i \in 0..Len(inv) /\ req[t].s \in 0..Len(sess)
  BY <1>1, <1>2, EntryAssumption DEF RequestType, Fits
<1> QED BY <1>1, <1>2, <1>3, EntryAssumption DEF IInv, EntryTypeOK, RequestType

\* A request goes on to p with the invite i and the session s.
LEMMA PlaceKeeps ==
    ASSUME IInv, NEW t \in Thread, NEW p \in Place, NEW v \in Way,
           NEW i \in 0..Len(inv), NEW s \in 0..Len(sess),
           req' = [req EXCEPT ![t] = [pc |-> p, via |-> v, i |-> i, s |-> s]],
           UNCHANGED <<part, inv, sess>>,
           account' \in {"none", "real", "shadow"}, otp' \in BOOLEAN,
           decisions' \in 0..MaxDecisions,
           p \notin {"idle", "register", "read"} => Exists,
           p \in {"verify", "resume", "grant", "use"} => part.bound,
           p \in {"open", "lookup", "create"} => i # 0,
           i # 0 /\ p # "open" => inv[i].opened,
           InviteFlow /\ p \in {"shadow", "bind", "verify", "resume"} => i # 0,
           p \in {"grant", "use"} => \E k \in DOMAIN sess : sess[k].st # "opened"
    PROVE  IInv'
<1> DEFINE r == [pc |-> p, via |-> v, i |-> i, s |-> s]
<1>1. i \in 0..MaxInvites /\ s \in 0..MaxSessions
  BY TypeFacts, EntryAssumption
<1>2. r \in RequestType
  BY <1>1 DEF RequestType
<1>3. i <= Len(inv) /\ s <= Len(sess)
  BY TypeFacts, EntryAssumption
<1>4. Fits(r)
  BY <1>3 DEF Fits
<1>5. req' = [req EXCEPT ![t] = r]
  OBVIOUS
<1> HIDE DEF r
<1> QED BY <1>2, <1>4, <1>5, Quiet

LEMMA MovesOn ==
    ASSUME IInv, NEW t \in Thread, NEW p \in Place,
           NEW i \in 0..Len(inv), NEW s \in 0..Len(sess), Moves(t, p, i, s),
           UNCHANGED <<part, inv, sess>>,
           account' \in {"none", "real", "shadow"}, otp' \in BOOLEAN,
           decisions' \in 0..MaxDecisions,
           p \notin {"idle", "register", "read"} => Exists,
           p \in {"verify", "resume", "grant", "use"} => part.bound,
           p \in {"open", "lookup", "create"} => i # 0,
           i # 0 /\ p # "open" => inv[i].opened,
           InviteFlow /\ p \in {"shadow", "bind", "verify", "resume"} => i # 0,
           p \in {"grant", "use"} => \E k \in DOMAIN sess : sess[k].st # "opened"
    PROVE  IInv'
<1>1. req' = [req EXCEPT ![t] = [pc |-> p, via |-> req[t].via, i |-> i, s |-> s]]
  BY DEF Moves
<1>2. req[t].via \in Way
  BY TypeFacts
<1> QED BY <1>1, <1>2, PlaceKeeps

-----------------------------------------------------------------------------
(* Steps that leave the participant, the invites and the sessions as they are. *)

LEMMA PersonQuiet ==
    ASSUME IInv, NEW t \in Thread,
           \/ Drop(t) \/ SendCode(t) \/ LookupOpened(t) \/ OtpRead(t) \/ OtpShadow(t)
           \/ OtpFind(t) \/ VerifyRead(t)
    PROVE  IInv'
<1>a. /\ Fits(req[t]) /\ req[t].pc \in Place
      /\ req[t].i \in 0..Len(inv) /\ req[t].s \in 0..Len(sess)
      /\ DOMAIN sess = 1..Len(sess) /\ Len(sess) \in Nat
      /\ account \in {"none", "real", "shadow"} /\ otp \in BOOLEAN
      /\ decisions \in 0..MaxDecisions
  BY TypeFacts, EntryAssumption
<1>b. {"create", "find", "shadow", "bind", "resume"} \subseteq Place
  BY DEF Place
<1>1. CASE Drop(t)
  BY <1>a, <1>1, DoneKeeps DEF Drop
<1>2. CASE SendCode(t)
  BY <1>a, <1>2, DoneKeeps DEF SendCode
<1>3. CASE LookupOpened(t)
  <2>1. CASE Done(t)
    BY <1>a, <1>3, <2>1, DoneKeeps DEF LookupOpened
  <2>2. CASE Goes(t, "create")
    <3>1. Moves(t, "create", req[t].i, req[t].s) /\ req[t].pc = "lookup"
      BY <1>3, <2>2 DEF LookupOpened, Goes
    <3>2. Exists /\ req[t].i # 0 /\ inv[req[t].i].opened
      BY <1>a, <3>1 DEF Fits
    <3>3. UNCHANGED <<account, part, inv, sess, otp, decisions>>
      BY <1>3 DEF LookupOpened
    <3> QED BY <1>a, <1>b, <3>1, <3>2, <3>3, MovesOn
  <2> QED BY <1>3, <2>1, <2>2 DEF LookupOpened
<1>4. CASE OtpRead(t)
  <2>1. CASE ~MayUseCode
    BY <1>a, <1>4, <2>1, DoneKeeps DEF OtpRead
  <2>2. CASE MayUseCode
    <3>1. Moves(t, "find", req[t].i, req[t].s) /\ req[t].pc = "read" /\ Exists
      BY <1>4, <2>2 DEF OtpRead, Goes, MayUseCode
    <3>2. req[t].i # 0 => inv[req[t].i].opened
      BY <1>a, <3>1 DEF Fits
    <3>3. UNCHANGED <<account, part, inv, sess, otp, decisions>>
      BY <1>4 DEF OtpRead
    <3> QED BY <1>a, <1>b, <3>1, <3>2, <3>3, MovesOn
  <2> QED BY <2>1, <2>2
<1>5. CASE OtpShadow(t)
  <2>1. Moves(t, "bind", req[t].i, req[t].s) /\ req[t].pc = "shadow"
    BY <1>5 DEF OtpShadow, Goes
  <2>2. Exists /\ (req[t].i # 0 => inv[req[t].i].opened) /\ (InviteFlow => req[t].i # 0)
    BY <1>a, <2>1 DEF Fits
  <2>3. UNCHANGED <<part, inv, sess, otp, decisions>> /\ account' \in {"none", "real", "shadow"}
    BY <1>a, <1>5 DEF OtpShadow
  <2> QED BY <1>a, <1>b, <2>1, <2>2, <2>3, MovesOn
<1>6. CASE OtpFind(t)
  <2>0. UNCHANGED <<account, part, inv, sess, otp, decisions>> /\ req[t].pc = "find"
    BY <1>6 DEF OtpFind
  <2>1. CASE Done(t)
    BY <1>a, <2>0, <2>1, DoneKeeps
  <2>2. CASE InviteFlow /\ LinkOpened /\ Moves(t, "shadow", sess[Len(sess)].inv, 0)
    <3>1. Len(sess) \in DOMAIN sess /\ sess[Len(sess)] \in SessionType
      BY <1>a, <2>2 DEF LinkOpened, IInv, EntryTypeOK
    <3>2. /\ sess[Len(sess)].inv \in Nat /\ sess[Len(sess)].inv <= Len(inv)
          /\ sess[Len(sess)].inv # 0 /\ inv[sess[Len(sess)].inv].opened
      BY <2>2, <3>1, EntryAssumption DEF IInv, SessionsFit, SessionType
    <3>3. sess[Len(sess)].inv \in 0..Len(inv) /\ 0 \in 0..Len(sess)
      BY <1>a, <3>2, TypeFacts
    <3>4. Exists
      BY <2>2 DEF InviteFlow, Exists
    <3> QED BY <1>a, <1>b, <2>0, <2>2, <3>2, <3>3, <3>4, MovesOn
  <2>3. CASE ~InviteFlow /\ Goes(t, "shadow")
    <3>1. Moves(t, "shadow", req[t].i, req[t].s)
      BY <2>3 DEF Goes
    <3>2. Exists /\ (req[t].i # 0 => inv[req[t].i].opened)
      BY <1>a, <2>0 DEF Fits
    <3> QED BY <1>a, <1>b, <2>0, <2>3, <3>1, <3>2, MovesOn
  <2> QED BY <1>6, <2>1, <2>2, <2>3 DEF OtpFind
<1>7. CASE VerifyRead(t)
  <2> DEFINE k == IF sess # <<>> /\ ~sess[Len(sess)].linked THEN Len(sess) ELSE 0
  <2>1. k \in 0..Len(sess)
    BY <1>a
  <2>2. Moves(t, "resume", req[t].i, k) /\ req[t].pc = "verify"
    BY <1>7 DEF VerifyRead
  <2> HIDE DEF k
  <2>3. /\ Exists /\ part.bound /\ (req[t].i # 0 => inv[req[t].i].opened)
        /\ (InviteFlow => req[t].i # 0)
    BY <1>a, <2>2 DEF Fits
  <2>4. UNCHANGED <<account, part, inv, sess, otp, decisions>>
    BY <1>7 DEF VerifyRead
  <2> QED BY <1>a, <1>b, <2>1, <2>2, <2>3, <2>4, MovesOn
<1> QED BY <1>1, <1>2, <1>3, <1>4, <1>5, <1>6, <1>7

LEMMA BeginsOn ==
    ASSUME IInv, NEW t \in Thread, NEW p \in Place, NEW v \in Way, NEW i \in 0..Len(inv),
           Begins(t, p, v, i), UNCHANGED <<part, inv, sess>>,
           account' \in {"none", "real", "shadow"}, otp' \in BOOLEAN,
           decisions' \in 0..MaxDecisions,
           p \in {"register", "read"} \/ Exists,
           p \in {"register", "read", "send", "revoke", "resend"}
           \/ (p = "open" /\ i # 0) \/ (p = "verify" /\ part.bound /\ ~InviteFlow),
           i # 0 => p = "open"
    PROVE  IInv'
<1>1. req' = [req EXCEPT ![t] = [pc |-> p, via |-> v, i |-> i, s |-> 0]] /\ 0 \in 0..Len(sess)
  BY TypeFacts, EntryAssumption DEF Begins
<1> QED BY ZenonT(60), <1>1, PlaceKeeps

LEMMA BeginningQuiet ==
    ASSUME IInv, NEW t \in Thread,
           \/ \E via \in {"login", "anonymous"} : RegisterRead(t, via)
           \/ \E i \in DOMAIN inv, via \in {"invite", "anonymous"} : ResolveRead(t, i, via)
           \/ AccessRead(t) \/ SendRead(t) \/ VerifyCode(t) \/ ResendRead(t)
    PROVE  IInv'
<1>a. /\ DOMAIN inv = 1..Len(inv) /\ Len(inv) \in Nat /\ 0 \in 0..Len(inv)
      /\ account \in {"none", "real", "shadow"} /\ otp \in BOOLEAN
      /\ decisions \in 0..MaxDecisions
  BY TypeFacts, EntryAssumption
<1>b. /\ {"register", "open", "verify", "send", "read", "resend"} \subseteq Place
      /\ {"login", "anonymous", "invite", "otp"} = Way
  BY DEF Place, Way
<1>1. ASSUME NEW via \in {"login", "anonymous"}, RegisterRead(t, via) PROVE IInv'
  <2>1. Begins(t, "register", via, 0) /\ UNCHANGED <<account, part, inv, sess, otp, decisions>>
    BY <1>1 DEF RegisterRead
  <2> QED BY <1>a, <1>b, <2>1, BeginsOn
<1>2. ASSUME NEW i \in DOMAIN inv, NEW via \in {"invite", "anonymous"}, ResolveRead(t, i, via)
      PROVE  IInv'
  <2>1. Begins(t, "open", via, i) /\ UNCHANGED <<account, part, inv, sess, otp, decisions>>
    BY <1>2 DEF ResolveRead
  <2>2. inv # <<>> /\ i # 0 /\ i \in 0..Len(inv)
    BY <1>a
  <2>3. Exists
    BY <2>2 DEF IInv, NothingBefore
  <2> QED BY <1>a, <1>b, <2>1, <2>2, <2>3, BeginsOn
<1>3. CASE AccessRead(t)
  <2>1. /\ Begins(t, "verify", "login", 0)
        /\ UNCHANGED <<account, part, inv, sess, otp, decisions>>
        /\ part.bound /\ ~InviteFlow
    BY <1>3 DEF AccessRead
  <2>2. Exists
    BY <2>1 DEF IInv, NothingBefore, NoPart
  <2> QED BY <1>a, <1>b, <2>1, <2>2, BeginsOn
<1>4. CASE SendRead(t)
  <2>1. Begins(t, "send", "login", 0) /\ UNCHANGED <<account, part, inv, sess, otp, decisions>>
    BY <1>4 DEF SendRead
  <2>2. Exists
    BY <1>4 DEF SendRead, MayUseCode
  <2> QED BY <1>a, <1>b, <2>1, <2>2, BeginsOn
<1>5. CASE VerifyCode(t)
  <2>1. UNCHANGED <<account, part, inv, sess, decisions>> /\ otp' \in BOOLEAN
    BY <1>5 DEF VerifyCode
  <2>2. CASE Begins(t, "read", "otp", 0)
    BY <1>a, <1>b, <2>1, <2>2, BeginsOn
  <2>3. CASE UNCHANGED req
    <3>1. req' = [req EXCEPT ![t] = req[t]]
      BY <2>3 DEF IInv, EntryTypeOK, Thread
    <3> QED BY <1>a, <2>1, <3>1, TypeFacts, Quiet
  <2> QED BY <1>5, <2>2, <2>3 DEF VerifyCode
<1>6. CASE ResendRead(t)
  <2>1. Begins(t, "resend", "login", 0) /\ UNCHANGED <<account, part, inv, sess, otp>>
    BY <1>6 DEF ResendRead
  <2>2. Exists /\ decisions' \in 0..MaxDecisions
    BY <1>a, <1>6, EntryAssumption DEF ResendRead, InviteFlow, Exists, Decides
  <2> QED BY <1>a, <1>b, <2>1, <2>2, BeginsOn
<1> QED BY <1>1, <1>2, <1>3, <1>4, <1>5, <1>6

-----------------------------------------------------------------------------
(* Steps that change the participant. *)

LEMMA PartChanges ==
    ASSUME IInv, Exists, part' \in PartType, part'.source = part.source,
           part.bound => part'.bound, UNCHANGED <<inv, sess>>,
           account' \in {"none", "real", "shadow"}, otp' \in BOOLEAN,
           decisions' \in 0..MaxDecisions, req' \in [Thread -> RequestType],
           \A u \in Thread : req'[u] = req[u] \/ Fits(req[u])'
    PROVE  IInv'
<1>1. EntryTypeOK'
  BY DEF IInv, EntryTypeOK, Thread
<1>2. Grows
  BY DomainOf DEF IInv, EntryTypeOK, Grows
<1>3. RequestsFit'
  BY <1>1, <1>2, OthersFit
<1>4. Exists' /\ (InviteFlow' <=> InviteFlow)
  BY DEF Exists, InviteFlow
<1>5. NothingBefore' /\ SessionsFit' /\ UsedInviteOpensDoor'
  BY <1>4 DEF IInv, NothingBefore, SessionsFit, UsedInviteOpensDoor
<1> QED BY <1>1, <1>3, <1>5 DEF IInv

LEMMA PartFields ==
    ASSUME IInv
    PROVE  /\ part \in PartType /\ part.source \in {"none", "self_registration", "manual_add"}
           /\ part.bound \in BOOLEAN
           /\ LET q == [part EXCEPT !.bound = TRUE]
              IN  q \in PartType /\ q.source = part.source /\ q.bound
           /\ \A a \in {"none", "invited", "eligible", "active", "revoked"} :
                 LET q == [part EXCEPT !.access = a]
                 IN  q \in PartType /\ q.source = part.source /\ q.bound = part.bound
           /\ \A p \in {"pending", "approved", "rejected"},
                 a \in {"none", "invited", "eligible", "active", "revoked"} :
                 LET q == [part EXCEPT !.approval = p, !.access = a]
                 IN  q \in PartType /\ q.source = part.source /\ q.bound = part.bound
BY DEF IInv, EntryTypeOK, PartType

LEMMA DecisionSteps ==
    ASSUME IInv, Approve \/ Reject \/ BindAccount
    PROVE  IInv'
<1>1. /\ Exists /\ UNCHANGED <<account, inv, sess, otp, req>> /\ decisions' \in 0..MaxDecisions
      /\ part' \in PartType /\ part'.source = part.source /\ (part.bound => part'.bound)
  <2>1. decisions' \in 0..MaxDecisions
    BY EntryAssumption DEF IInv, EntryTypeOK, Approve, Reject, BindAccount, Decides
  <2>2. CASE Approve
    <3>1. ApprovedAccess \in {"invited", "eligible"}
      BY DEF ApprovedAccess
    <3>2. part' = [part EXCEPT !.approval = "approved", !.access = ApprovedAccess]
      BY <2>2 DEF Approve
    <3>3. part' \in PartType /\ part'.source = part.source /\ part'.bound = part.bound
      BY <3>1, <3>2, PartFields
    <3> QED BY <2>1, <2>2, <3>3 DEF Approve
  <2>3. CASE Reject
    <3>1. part' = [part EXCEPT !.approval = "rejected", !.access = "none"]
      BY <2>3 DEF Reject
    <3>2. part' \in PartType /\ part'.source = part.source /\ part'.bound = part.bound
      BY <3>1, PartFields
    <3> QED BY <2>1, <2>3, <3>2 DEF Reject
  <2>4. CASE BindAccount
    <3>1. part' = [part EXCEPT !.bound = TRUE]
      BY <2>4 DEF BindAccount
    <3>2. part' \in PartType /\ part'.source = part.source /\ part'.bound
      BY <3>1, PartFields
    <3> QED BY <2>1, <2>4, <3>2 DEF BindAccount
  <2> QED BY <2>2, <2>3, <2>4
<1>2. /\ account' \in {"none", "real", "shadow"} /\ otp' \in BOOLEAN
      /\ req' \in [Thread -> RequestType] /\ \A u \in Thread : req'[u] = req[u]
  BY <1>1 DEF IInv, EntryTypeOK, Thread
<1> QED BY <1>1, <1>2, PartChanges

\* The request that changes the participant goes on, or is done.
LEMMA PartMoves ==
    ASSUME IInv, NEW t \in Thread, Exists, part' \in PartType, part'.source = part.source,
           part.bound => part'.bound, UNCHANGED <<account, inv, sess, otp, decisions>>,
           NEW r \in RequestType, req' = [req EXCEPT ![t] = r],
           r.i <= Len(inv), r.s <= Len(sess), r.i # 0 => inv[r.i].opened,
           r.pc \in {"idle", "verify", "use"},
           r.pc # "idle" => part'.bound,
           InviteFlow /\ r.pc = "verify" => r.i # 0,
           r.pc = "use" => \E s \in DOMAIN sess : sess[s].st # "opened"
    PROVE  IInv'
<1>1. /\ req' \in [Thread -> RequestType] /\ req'[t] = r
      /\ \A u \in Thread \ {t} : req'[u] = req[u]
  BY DEF IInv, EntryTypeOK, Thread
<1>3. Exists' /\ (InviteFlow' <=> InviteFlow)
  BY DEF Exists, InviteFlow
<1>4. Fits(r)'
  BY <1>3 DEF Fits
<1>5. \A u \in Thread : req'[u] = req[u] \/ Fits(req[u])'
  BY <1>1, <1>4
<1>6. /\ account' \in {"none", "real", "shadow"} /\ otp' \in BOOLEAN
      /\ decisions' \in 0..MaxDecisions
  BY DEF IInv, EntryTypeOK
<1> QED BY <1>1, <1>5, <1>6, PartChanges

LEMMA PartSteps ==
    ASSUME IInv, NEW t \in Thread,
           Bind(t) \/ RevokeAccess(t) \/ ResendAccess(t) \/ OtpGrant(t)
    PROVE  IInv'
<1>a. /\ req[t] \in RequestType /\ Fits(req[t])
      /\ Idle \in RequestType /\ Idle.i = 0 /\ Idle.s = 0 /\ Idle.pc = "idle"
      /\ 0 <= Len(inv) /\ 0 <= Len(sess)
  BY TypeFacts, IdleFits, EntryAssumption DEF Idle
<1>1. CASE Bind(t)
  <2> DEFINE r == [pc |-> "verify", via |-> req[t].via, i |-> req[t].i, s |-> req[t].s]
  <2>1. r \in RequestType /\ r.pc = "verify" /\ r.i = req[t].i /\ r.s = req[t].s
    BY <1>a DEF RequestType, Place
  <2>2. req' = [req EXCEPT ![t] = r]
    BY <1>1 DEF Bind, Goes, Moves
  <2> HIDE DEF r
  <2>3. /\ Exists /\ r.i <= Len(inv) /\ r.s <= Len(sess) /\ (r.i # 0 => inv[r.i].opened)
        /\ (InviteFlow => r.i # 0)
    BY <1>a, <1>1, <2>1 DEF Bind, Fits
  <2>4. part' = [part EXCEPT !.bound = TRUE]
    BY <1>1 DEF Bind
  <2>5. part' \in PartType /\ part'.source = part.source /\ part'.bound
    BY <2>4, PartFields
  <2>6. UNCHANGED <<account, inv, sess, otp, decisions>>
    BY <1>1 DEF Bind
  <2> QED BY <2>1, <2>2, <2>3, <2>5, <2>6, PartMoves
<1>2. CASE RevokeAccess(t) \/ ResendAccess(t)
  <2>1. /\ req' = [req EXCEPT ![t] = Idle] /\ UNCHANGED <<account, inv, sess, otp, decisions>>
        /\ req[t].pc \in {"revoke", "invited"}
        /\ \E a \in {"revoked", "invited"} : part' = [part EXCEPT !.access = a]
    BY <1>2 DEF RevokeAccess, ResendAccess, Done
  <2>2. Exists
    BY <1>a, <2>1 DEF Fits
  <2>3. part' \in PartType /\ part'.source = part.source /\ part'.bound = part.bound
    BY <2>1, PartFields
  <2> QED BY <1>a, <2>1, <2>2, <2>3, PartMoves
<1>3. CASE OtpGrant(t)
  <2>1. /\ req[t].pc = "grant" /\ part' = [part EXCEPT !.access = "eligible"]
        /\ UNCHANGED <<account, inv, sess, otp, decisions>>
    BY <1>3 DEF OtpGrant
  <2>2. /\ Exists /\ part.bound /\ req[t].i <= Len(inv) /\ req[t].s <= Len(sess)
        /\ (req[t].i # 0 => inv[req[t].i].opened)
        /\ \E s \in DOMAIN sess : sess[s].st # "opened"
    BY <1>a, <2>1 DEF Fits
  <2>3. part' \in PartType /\ part'.source = part.source /\ part'.bound = part.bound
    BY <2>1, PartFields
  <2>4. CASE Done(t)
    BY <1>a, <2>1, <2>2, <2>3, <2>4, PartMoves DEF Done
  <2>5. CASE Goes(t, "use")
    <3> DEFINE r == [pc |-> "use", via |-> req[t].via, i |-> req[t].i, s |-> req[t].s]
    <3>1. r \in RequestType /\ r.pc = "use" /\ r.i = req[t].i /\ r.s = req[t].s
      BY <1>a DEF RequestType, Place
    <3>2. req' = [req EXCEPT ![t] = r]
      BY <2>5 DEF Goes, Moves
    <3> HIDE DEF r
    <3> QED BY <2>1, <2>2, <2>3, <3>1, <3>2, PartMoves
  <2> QED BY <1>3, <2>4, <2>5 DEF OtpGrant
<1> QED BY <1>1, <1>2, <1>3

\* The participant comes into being: nothing was there that could rely on it.
LEMMA PartAppears ==
    ASSUME IInv, ~Exists, part' \in PartType, Exists', UNCHANGED <<account, inv, sess, otp>>,
           decisions' \in 0..MaxDecisions, req' \in [Thread -> RequestType],
           \A u \in Thread : req'[u] = req[u] \/ Fits(req[u])'
    PROVE  IInv'
<1>1. EntryTypeOK'
  BY DEF IInv, EntryTypeOK, Thread
<1>2. ~part.bound /\ inv = <<>> /\ sess = <<>> /\ DOMAIN sess = {}
  BY DEF IInv, NothingBefore, NoPart
<1>3. Grows
  BY <1>2 DEF Grows
<1>4. RequestsFit'
  BY <1>1, <1>3, OthersFit
<1>5. NothingBefore' /\ SessionsFit' /\ UsedInviteOpensDoor'
  BY <1>2 DEF IInv, NothingBefore, SessionsFit, UsedInviteOpensDoor
<1> QED BY <1>1, <1>4, <1>5 DEF IInv

LEMMA AppearingSteps ==
    ASSUME IInv,
           \/ \E t \in Thread : RegisterCreate(t)
           \/ \E bound \in BOOLEAN : Add(bound)
    PROVE  IInv'
<1>1. ASSUME NEW t \in Thread, RegisterCreate(t) PROVE IInv'
  <2>1. ~Exists /\ UNCHANGED <<account, inv, sess, otp, decisions>>
    BY <1>1 DEF RegisterCreate
  <2>2. PICK approved \in BOOLEAN :
          /\ part' = [source |-> "self_registration", bound |-> req[t].via = "login",
                      approval |-> IF approved THEN "approved" ELSE "pending",
                      access |-> IF approved THEN "eligible" ELSE "none"]
          /\ IF approved /\ req[t].via = "login" THEN Goes(t, "bind") ELSE Done(t)
    BY <1>1 DEF RegisterCreate
  <2>3. part' \in PartType /\ Exists' /\ ~InviteFlow'
    BY <2>2 DEF PartType, Exists, InviteFlow
  <2>4. /\ Fits(req[t]) /\ req[t] \in RequestType /\ req[t].pc = "register"
        /\ Idle \in RequestType /\ Fits(Idle)
    BY <1>1, TypeFacts, IdleFits DEF RegisterCreate
  <2>5. PICK r \in RequestType :
           r = [pc |-> "bind", via |-> req[t].via, i |-> req[t].i, s |-> req[t].s]
    BY <2>4 DEF RequestType, Place
  <2>11. /\ r.pc = "bind" /\ r.i <= Len(inv) /\ r.s <= Len(sess)
         /\ r.i # 0 => inv[r.i].opened
    BY <2>4, <2>5 DEF Fits
  <2>6. Fits(r)' /\ Fits(Idle)'
    BY <2>1, <2>3, <2>4, <2>11 DEF Fits, Idle
  <2>7. req' = [req EXCEPT ![t] = r] \/ req' = [req EXCEPT ![t] = Idle]
    BY <2>2, <2>5 DEF Goes, Moves, Done
  <2>8. /\ req' \in [Thread -> RequestType]
        /\ \A u \in Thread : req'[u] = req[u] \/ req'[u] \in {r, Idle}
    BY <2>4, <2>5, <2>7 DEF IInv, EntryTypeOK, Thread
  <2>9. \A u \in Thread : req'[u] = req[u] \/ Fits(req[u])'
    BY <2>6, <2>8
  <2>10. decisions' \in 0..MaxDecisions
    BY <2>1 DEF IInv, EntryTypeOK
  <2> QED BY <2>1, <2>3, <2>8, <2>9, <2>10, PartAppears
<1>2. ASSUME NEW bound \in BOOLEAN, Add(bound) PROVE IInv'
  <2>1. /\ ~Exists /\ UNCHANGED <<account, inv, sess, otp, req>>
        /\ decisions' \in 0..MaxDecisions
    BY <1>2, EntryAssumption DEF Add, Decides, IInv, EntryTypeOK
  <2>2. part' \in PartType /\ Exists'
    BY <1>2 DEF Add, PartType, Exists
  <2>3. req' \in [Thread -> RequestType] /\ \A u \in Thread : req'[u] = req[u]
    BY <2>1 DEF IInv, EntryTypeOK, Thread
  <2> QED BY <2>1, <2>2, <2>3, PartAppears
<1> QED BY <1>1, <1>2

-----------------------------------------------------------------------------
(* Steps that change invites. *)

LEMMA InvitesChange ==
    ASSUME IInv, NEW t \in Thread, Exists, UNCHANGED <<account, part, sess, otp>>,
           inv' \in Seq(InviteType), Len(inv') <= MaxInvites, Len(inv) <= Len(inv'),
           \A i \in DOMAIN inv : inv[i].opened => inv'[i].opened,
           UsedInviteOpensDoor', decisions' \in 0..MaxDecisions,
           NEW r \in RequestType, req' = [req EXCEPT ![t] = r],
           r.i <= Len(inv'), r.s <= Len(sess), r.i # 0 => inv'[r.i].opened,
           r.pc \in {"idle", "bind", "lookup", "revoke", "invite", "invited"},
           r.pc \in {"bind", "lookup"} => r.i # 0
    PROVE  IInv'
<1>1. /\ req' \in [Thread -> RequestType] /\ req'[t] = r
      /\ \A u \in Thread \ {t} : req'[u] = req[u]
  BY DEF IInv, EntryTypeOK, Thread
<1>2. EntryTypeOK'
  BY <1>1 DEF IInv, EntryTypeOK, Thread
<1>3. Grows
  BY DomainOf DEF IInv, EntryTypeOK, Grows
<1>4. Exists' /\ (InviteFlow' <=> InviteFlow)
  BY DEF Exists, InviteFlow
<1>5. Fits(r)'
  BY <1>4 DEF Fits
<1>6. \A u \in Thread : req'[u] = req[u] \/ Fits(req[u])'
  BY <1>1, <1>5
<1>7. RequestsFit'
  BY <1>2, <1>3, <1>6, OthersFit
<1>8. SessionsFit'
  <2> SUFFICES ASSUME NEW s \in DOMAIN sess
               PROVE  /\ sess[s].inv <= Len(inv')
                      /\ sess[s].inv # 0 => inv'[sess[s].inv].opened
                      /\ InviteFlow => sess[s].inv # 0
                      /\ sess[s].st # "opened" => part.bound
    BY <1>4 DEF SessionsFit
  <2>1. /\ sess[s].inv <= Len(inv) /\ (sess[s].inv # 0 => inv[sess[s].inv].opened)
        /\ (InviteFlow => sess[s].inv # 0) /\ (sess[s].st # "opened" => part.bound)
    BY DEF IInv, SessionsFit
  <2>2. sess[s].inv \in Nat
    <3>1. sess[s] \in SessionType
      BY DEF IInv, EntryTypeOK
    <3> QED BY <3>1, EntryAssumption DEF SessionType
  <2>3. DOMAIN inv = 1..Len(inv) /\ Len(inv) \in Nat /\ Len(inv') \in Nat
    BY DomainOf DEF IInv, EntryTypeOK
  <2> QED BY <2>1, <2>2, <2>3
<1> QED BY <1>2, <1>4, <1>7, <1>8 DEF IInv, NothingBefore

LEMMA RevokedInvite ==
    ASSUME NEW v \in InviteType
    PROVE  LET w == [v EXCEPT !.revoked = TRUE]
           IN  w \in InviteType /\ w.opened = v.opened /\ w.used = v.used /\ w.revoked
BY DEF InviteType

LEMMA WithdrawnFacts ==
    ASSUME IInv
    PROVE  /\ Withdrawn \in Seq(InviteType) /\ Len(Withdrawn) = Len(inv)
           /\ \A i \in DOMAIN inv :
                 /\ Withdrawn[i].opened = inv[i].opened /\ Withdrawn[i].used = inv[i].used
                 /\ Withdrawn[i].used \/ Withdrawn[i].revoked
<1>1. inv \in Seq(InviteType) /\ DOMAIN inv = 1..Len(inv) /\ Len(inv) \in Nat
  BY DomainOf DEF IInv, EntryTypeOK
<1>2. \A i \in DOMAIN inv :
         /\ inv[i] \in InviteType /\ [inv[i] EXCEPT !.revoked = TRUE] \in InviteType
         /\ [inv[i] EXCEPT !.revoked = TRUE].opened = inv[i].opened
         /\ [inv[i] EXCEPT !.revoked = TRUE].used = inv[i].used
         /\ [inv[i] EXCEPT !.revoked = TRUE].revoked
  <2> SUFFICES ASSUME NEW i \in DOMAIN inv
               PROVE  /\ inv[i] \in InviteType /\ [inv[i] EXCEPT !.revoked = TRUE] \in InviteType
                      /\ [inv[i] EXCEPT !.revoked = TRUE].opened = inv[i].opened
                      /\ [inv[i] EXCEPT !.revoked = TRUE].used = inv[i].used
                      /\ [inv[i] EXCEPT !.revoked = TRUE].revoked
    OBVIOUS
  <2>1. inv[i] \in InviteType
    BY <1>1
  <2> QED BY <2>1, RevokedInvite
<1>3. DOMAIN Withdrawn = 1..Len(inv) /\ \A i \in 1..Len(inv) : Withdrawn[i] \in InviteType
  BY <1>1, <1>2 DEF Withdrawn
<1>4. Withdrawn \in Seq(InviteType) /\ Len(Withdrawn) = Len(inv)
  BY <1>1, <1>3 DEF Withdrawn
<1>5. \A i \in DOMAIN inv :
         /\ Withdrawn[i].opened = inv[i].opened /\ Withdrawn[i].used = inv[i].used
         /\ Withdrawn[i].used \/ Withdrawn[i].revoked
  BY <1>2 DEF Withdrawn
<1> QED BY <1>4, <1>5

LEMMA InviteSteps ==
    ASSUME IInv, NEW t \in Thread,
           \/ Open(t) \/ MarkUsed(t) \/ RevokeInvites(t) \/ ResendRevoke(t) \/ ResendCreate(t)
    PROVE  IInv'
<1>a. /\ req[t] \in RequestType /\ Fits(req[t])
      /\ req[t].i \in 0..Len(inv) /\ req[t].s \in 0..Len(sess)
      /\ inv \in Seq(InviteType) /\ DOMAIN inv = 1..Len(inv) /\ Len(inv) \in 0..MaxInvites
      /\ decisions \in 0..MaxDecisions /\ Idle \in RequestType
      /\ Idle.i = 0 /\ Idle.s = 0 /\ Idle.pc = "idle" /\ Len(sess) \in Nat
  BY TypeFacts, IdleFits, EntryAssumption DEF Idle, IInv, EntryTypeOK
<1>b. \A i \in DOMAIN inv : inv[i] \in InviteType
  BY <1>a
<1>1. CASE Open(t)
  <2> DEFINE i == req[t].i
  <2>1. /\ req[t].pc = "open" /\ inv' = [inv EXCEPT ![i].opened = TRUE]
        /\ UNCHANGED <<account, part, sess, otp, decisions>>
    BY <1>1 DEF Open
  <2>2. Exists /\ i # 0 /\ i \in DOMAIN inv
    BY <1>a, <2>1 DEF Fits
  <2>3. [inv[i] EXCEPT !.opened = TRUE] \in InviteType
    BY <1>b, <2>2 DEF InviteType
  <2>4. /\ inv' \in Seq(InviteType) /\ Len(inv') = Len(inv)
        /\ \A k \in DOMAIN inv : inv[k].opened => inv'[k].opened
        /\ \A k \in DOMAIN inv : inv'[k].used = inv[k].used
        /\ inv'[i].opened /\ DOMAIN inv' = DOMAIN inv
    BY <1>a, <1>b, <2>1, <2>2, <2>3 DEF InviteType
  <2>5. UsedInviteOpensDoor'
    BY <2>1, <2>4 DEF IInv, UsedInviteOpensDoor
  <2>6. PICK r \in RequestType :
           /\ r.pc \in {"bind", "lookup"} /\ r.i = i /\ r.s = req[t].s
           /\ req' = [req EXCEPT ![t] = r]
    <3> DEFINE p == IF req[t].via = "invite" THEN "bind" ELSE "lookup"
    <3>1. req' = [req EXCEPT ![t] = [pc |-> p, via |-> req[t].via, i |-> i, s |-> req[t].s]]
      BY <1>1 DEF Open, Goes, Moves
    <3>2. [pc |-> p, via |-> req[t].via, i |-> i, s |-> req[t].s] \in RequestType
      BY <1>a DEF RequestType, Place
    <3> QED BY <3>1, <3>2
  <2>7. /\ Len(inv') <= MaxInvites /\ Len(inv) <= Len(inv') /\ r.i <= Len(inv') /\ r.s <= Len(sess)
        /\ (r.i # 0 => inv'[r.i].opened) /\ decisions' \in 0..MaxDecisions
    BY <1>a, <2>1, <2>4, <2>6, EntryAssumption
  <2>8. r.pc \in {"bind", "lookup"} => r.i # 0
    BY <2>2, <2>6
  <2> HIDE DEF i
  <2> QED BY <2>1, <2>2, <2>4, <2>5, <2>6, <2>7, <2>8, InvitesChange
<1>2. CASE MarkUsed(t)
  <2> DEFINE i == req[t].i
  <2>1. /\ req[t].pc = "use" /\ inv' = [inv EXCEPT ![i].used = TRUE]
        /\ req' = [req EXCEPT ![t] = Idle] /\ UNCHANGED <<account, part, sess, otp, decisions>>
    BY <1>2 DEF MarkUsed, Done
  <2>2. Exists /\ \E s \in DOMAIN sess : sess[s].st # "opened"
    BY <1>a, <2>1 DEF Fits
  <2>3. \A k \in DOMAIN inv : /\ [inv[k] EXCEPT !.used = TRUE] \in InviteType
                              /\ [inv[k] EXCEPT !.used = TRUE].opened = inv[k].opened
    BY <1>b DEF InviteType
  <2>4. /\ inv' \in Seq(InviteType) /\ Len(inv') = Len(inv)
        /\ \A k \in DOMAIN inv : inv[k].opened => inv'[k].opened
    <3>1. /\ DOMAIN inv' = DOMAIN inv
          /\ \A k \in DOMAIN inv :
                inv'[k] = IF k = i THEN [inv[k] EXCEPT !.used = TRUE] ELSE inv[k]
      BY <2>1
    <3> HIDE DEF i
    <3>2. \A k \in DOMAIN inv : inv'[k] \in InviteType /\ inv'[k].opened = inv[k].opened
      BY <1>b, <2>3, <3>1
    <3>3. inv' = [k \in 1..Len(inv) |-> inv'[k]]
      BY <1>a, <2>1
    <3> QED BY <1>a, <3>1, <3>2, <3>3
  <2>5. UsedInviteOpensDoor'
    BY <2>1, <2>2 DEF UsedInviteOpensDoor
  <2>6. /\ Len(inv') <= MaxInvites /\ Len(inv) <= Len(inv')
        /\ Idle.i <= Len(inv') /\ Idle.s <= Len(sess) /\ decisions' \in 0..MaxDecisions
    BY <1>a, <2>1, <2>4, EntryAssumption
  <2> QED BY <1>a, <2>1, <2>2, <2>4, <2>5, <2>6, InvitesChange
<1>3. CASE RevokeInvites(t)
  <2>1. /\ Exists /\ decisions' \in 0..MaxDecisions /\ inv' = Withdrawn
        /\ UNCHANGED <<account, part, sess, otp>>
    BY <1>a, <1>3, EntryAssumption DEF RevokeInvites, Decides
  <2>2. PICK r \in RequestType :
           r.pc = "revoke" /\ r.i = 0 /\ r.s = 0 /\ req' = [req EXCEPT ![t] = r]
    <3>1. [pc |-> "revoke", via |-> "login", i |-> 0, s |-> 0] \in RequestType
      BY EntryAssumption DEF RequestType, Place, Way
    <3>2. req' = [req EXCEPT ![t] = [pc |-> "revoke", via |-> "login", i |-> 0, s |-> 0]]
      BY <1>3 DEF RevokeInvites, Begins
    <3> QED BY <3>1, <3>2
  <2>3. UsedInviteOpensDoor'
    BY <1>a, <2>1, WithdrawnFacts DEF IInv, UsedInviteOpensDoor
  <2>4. /\ Len(inv') <= MaxInvites /\ Len(inv) <= Len(inv') /\ r.i <= Len(inv') /\ r.s <= Len(sess)
        /\ (r.i # 0 => inv'[r.i].opened) /\ decisions' \in 0..MaxDecisions
    BY <1>a, <2>1, <2>2, WithdrawnFacts, EntryAssumption
  <2>5. inv' \in Seq(InviteType) /\ \A k \in DOMAIN inv : inv[k].opened => inv'[k].opened
    BY <2>1, WithdrawnFacts
  <2> QED BY <2>1, <2>2, <2>3, <2>4, <2>5, InvitesChange
<1>4. CASE ResendRevoke(t)
  <2>1. /\ req[t].pc = "resend" /\ inv' = Withdrawn
        /\ UNCHANGED <<account, part, sess, otp, decisions>>
    BY <1>4 DEF ResendRevoke
  <2>2. Exists /\ (req[t].i # 0 => inv[req[t].i].opened)
    BY <1>a, <2>1 DEF Fits
  <2>3. PICK r \in RequestType :
           /\ r.pc = "invite" /\ r.i = req[t].i /\ r.s = req[t].s
           /\ req' = [req EXCEPT ![t] = r]
    <3>1. [pc |-> "invite", via |-> req[t].via, i |-> req[t].i, s |-> req[t].s] \in RequestType
      BY <1>a DEF RequestType, Place
    <3>2. req' = [req EXCEPT ![t] =
                    [pc |-> "invite", via |-> req[t].via, i |-> req[t].i, s |-> req[t].s]]
      BY <1>4 DEF ResendRevoke, Goes, Moves
    <3> QED BY <3>1, <3>2
  <2>4. UsedInviteOpensDoor'
    BY <1>a, <2>1, WithdrawnFacts DEF IInv, UsedInviteOpensDoor
  <2>5. /\ Len(inv') <= MaxInvites /\ Len(inv) <= Len(inv') /\ r.i <= Len(inv') /\ r.s <= Len(sess)
        /\ (r.i # 0 => inv'[r.i].opened) /\ decisions' \in 0..MaxDecisions
    BY <1>a, <2>1, <2>2, <2>3, WithdrawnFacts, EntryAssumption
  <2>6. inv' \in Seq(InviteType) /\ \A k \in DOMAIN inv : inv[k].opened => inv'[k].opened
    BY <2>1, WithdrawnFacts
  <2> QED BY <2>1, <2>2, <2>3, <2>4, <2>5, <2>6, InvitesChange
<1>5. CASE ResendCreate(t)
  <2> DEFINE v == [opened |-> FALSE, used |-> FALSE, revoked |-> FALSE]
  <2>1. /\ req[t].pc = "invite" /\ inv' = Append(inv, v) /\ Len(inv) < MaxInvites
        /\ UNCHANGED <<account, part, sess, otp, decisions>>
    BY <1>5 DEF ResendCreate
  <2>2. Exists /\ (req[t].i # 0 => inv[req[t].i].opened)
    BY <1>a, <2>1 DEF Fits
  <2>3. PICK r \in RequestType :
           /\ r.pc = "invited" /\ r.i = req[t].i /\ r.s = req[t].s
           /\ req' = [req EXCEPT ![t] = r]
    <3>1. [pc |-> "invited", via |-> req[t].via, i |-> req[t].i, s |-> req[t].s] \in RequestType
      BY <1>a DEF RequestType, Place
    <3>2. req' = [req EXCEPT ![t] =
                    [pc |-> "invited", via |-> req[t].via, i |-> req[t].i, s |-> req[t].s]]
      BY <1>5 DEF ResendCreate, Goes, Moves
    <3> QED BY <3>1, <3>2
  <2>4. v \in InviteType /\ ~v.used
    BY DEF InviteType
  <2> HIDE DEF v
  <2>5. /\ inv' \in Seq(InviteType) /\ Len(inv') = Len(inv) + 1
        /\ \A k \in DOMAIN inv : inv'[k] = inv[k]
        /\ inv'[Len(inv) + 1] = v /\ DOMAIN inv' = 1..(Len(inv) + 1)
    BY <1>a, <2>1, <2>4
  <2>6. Len(inv') <= MaxInvites /\ Len(inv) <= Len(inv')
    BY <1>a, <2>1, <2>5, EntryAssumption
  <2>7. UsedInviteOpensDoor'
    <3> SUFFICES ASSUME NEW k \in DOMAIN inv', inv'[k].used
                 PROVE  \E s \in DOMAIN sess : sess[s].st # "opened"
      BY <2>1 DEF UsedInviteOpensDoor
    <3>1. k \in DOMAIN inv
      BY <1>a, <2>4, <2>5
    <3>2. inv[k].used
      BY <2>5, <3>1
    <3> QED BY <3>1, <3>2 DEF IInv, UsedInviteOpensDoor
  <2>8. req[t].i # 0 => inv'[req[t].i].opened
    BY <1>a, <2>2, <2>5
  <2>9. /\ Len(inv') <= MaxInvites /\ Len(inv) <= Len(inv') /\ r.i <= Len(inv') /\ r.s <= Len(sess)
        /\ (r.i # 0 => inv'[r.i].opened) /\ decisions' \in 0..MaxDecisions
    BY <1>a, <2>1, <2>3, <2>5, <2>6, <2>8, EntryAssumption
  <2> QED BY <2>1, <2>2, <2>3, <2>5, <2>7, <2>9, InvitesChange
<1> QED BY <1>1, <1>2, <1>3, <1>4, <1>5

-----------------------------------------------------------------------------
(* Steps that change sessions. *)

LEMMA SessionsChange ==
    ASSUME IInv, Exists, UNCHANGED <<account, inv, otp, decisions>>,
           part' \in PartType, part'.source = part.source, part.bound => part'.bound,
           sess' \in Seq(SessionType), Len(sess') <= MaxSessions, Len(sess) <= Len(sess'),
           \A s \in DOMAIN sess : sess[s].st # "opened" => sess'[s].st # "opened",
           SessionsFit', req' \in [Thread -> RequestType],
           \A u \in Thread : req'[u] = req[u] \/ Fits(req[u])'
    PROVE  IInv'
<1>1. EntryTypeOK'
  BY DEF IInv, EntryTypeOK, Thread
<1>2. /\ DOMAIN sess = 1..Len(sess) /\ Len(sess) \in Nat
      /\ DOMAIN sess' = 1..Len(sess') /\ Len(sess') \in Nat /\ Len(inv) \in Nat
  BY DomainOf DEF IInv, EntryTypeOK
<1>3. Grows
  BY <1>2 DEF Grows
<1>4. RequestsFit'
  BY <1>1, <1>3, OthersFit
<1>5. UsedInviteOpensDoor'
  <2> SUFFICES ASSUME \E k \in DOMAIN inv : inv[k].used
               PROVE  \E s \in DOMAIN sess' : sess'[s].st # "opened"
    BY DEF UsedInviteOpensDoor
  <2>1. PICK s \in DOMAIN sess : sess[s].st # "opened"
    BY DEF IInv, UsedInviteOpensDoor
  <2> QED BY <1>2, <2>1
<1>6. NothingBefore'
  BY DEF NothingBefore, Exists
<1> QED BY <1>1, <1>4, <1>5, <1>6 DEF IInv

LEMMA CreateOpenedKeeps ==
    ASSUME IInv, NEW t \in Thread, CreateOpened(t)
    PROVE  IInv'
<1> DEFINE e == [st |-> "opened", linked |-> FALSE, inv |-> req[t].i]
<1>1. /\ req[t] \in RequestType /\ Fits(req[t]) /\ req[t].i \in 0..Len(inv)
      /\ sess \in Seq(SessionType) /\ DOMAIN sess = 1..Len(sess) /\ Len(sess) \in Nat
      /\ Len(inv) \in Nat /\ Idle \in RequestType /\ Fits(Idle)
  BY TypeFacts, IdleFits, EntryAssumption DEF IInv, EntryTypeOK
<1>2. /\ req[t].pc = "create" /\ sess' = Append(sess, e) /\ Len(sess) < MaxSessions
      /\ req' = [req EXCEPT ![t] = Idle] /\ UNCHANGED <<account, part, inv, otp, decisions>>
  BY DEF CreateOpened, Done
<1>3. Exists /\ req[t].i # 0 /\ inv[req[t].i].opened
  BY <1>1, <1>2 DEF Fits
<1>4. e \in SessionType /\ e.st = "opened" /\ e.inv = req[t].i
  BY <1>1 DEF SessionType, RequestType
<1> HIDE DEF e
<1>5. /\ sess' \in Seq(SessionType) /\ Len(sess') = Len(sess) + 1
      /\ \A s \in DOMAIN sess : sess'[s] = sess[s]
      /\ sess'[Len(sess) + 1] = e /\ DOMAIN sess' = 1..(Len(sess) + 1)
  BY <1>1, <1>2, <1>4
<1>6. Len(sess') <= MaxSessions /\ Len(sess) <= Len(sess')
  BY <1>1, <1>2, <1>5, EntryAssumption
<1>7. SessionsFit'
  <2> SUFFICES ASSUME NEW s \in DOMAIN sess'
               PROVE  /\ sess'[s].inv <= Len(inv)
                      /\ sess'[s].inv # 0 => inv[sess'[s].inv].opened
                      /\ InviteFlow => sess'[s].inv # 0
                      /\ sess'[s].st # "opened" => part.bound
    BY <1>2 DEF SessionsFit, InviteFlow
  <2>1. CASE s \in DOMAIN sess
    BY <1>5, <2>1 DEF IInv, SessionsFit
  <2>2. CASE s = Len(sess) + 1
    BY <1>1, <1>3, <1>4, <1>5, <2>2
  <2> QED BY <1>1, <1>5, <2>1, <2>2
<1>8. Fits(Idle)'
  BY <1>1, <1>2, <1>6, <1>5, IdleFits, EntryAssumption DEF Fits, Idle
<1>9. req' \in [Thread -> RequestType] /\ \A u \in Thread : req'[u] = req[u] \/ req'[u] = Idle
  BY <1>1, <1>2 DEF IInv, EntryTypeOK, Thread
<1>10. \A u \in Thread : req'[u] = req[u] \/ Fits(req[u])'
  BY <1>8, <1>9
<1>11. part' \in PartType /\ part'.source = part.source /\ (part.bound => part'.bound)
  BY <1>2 DEF IInv, EntryTypeOK
<1> QED BY <1>2, <1>3, <1>5, <1>6, <1>7, <1>9, <1>10, <1>11, SessionsChange

LEMMA StartKeeps ==
    ASSUME IInv, NEW k \in DOMAIN sess, Start(k)
    PROVE  IInv'
<1>1. /\ sess \in Seq(SessionType) /\ DOMAIN sess = 1..Len(sess) /\ Len(sess) \in Nat
      /\ sess[k] \in SessionType /\ Len(sess) <= MaxSessions
  BY DomainOf DEF IInv, EntryTypeOK
<1>2. /\ part.bound /\ UNCHANGED <<account, inv, otp, req, decisions>>
      /\ part' = [part EXCEPT !.access = "active"]
  BY DEF Start
<1>3. Exists
  BY <1>2 DEF IInv, NothingBefore, NoPart
<1>4. PICK e \in SessionType : sess' = [sess EXCEPT ![k] = e] /\ e.inv = sess[k].inv /\ e.st # "opened"
  <2> DEFINE e == [st |-> "started", linked |-> TRUE, inv |-> sess[k].inv]
  <2>1. e \in SessionType
    BY <1>1 DEF SessionType
  <2>2. sess' = [sess EXCEPT ![k] = e]
    BY SMTT(30), <1>1 DEF Start, SessionType
  <2> QED BY <2>1, <2>2
<1>5. /\ sess' \in Seq(SessionType) /\ Len(sess') = Len(sess) /\ DOMAIN sess' = DOMAIN sess
      /\ \A s \in DOMAIN sess : s # k => sess'[s] = sess[s]
      /\ sess'[k] = e
  BY <1>1, <1>4
<1>6. part' \in PartType /\ part'.source = part.source /\ part'.bound = part.bound
  BY <1>2, PartFields
<1>7. SessionsFit'
  BY <1>2, <1>4, <1>5, <1>6 DEF IInv, SessionsFit, InviteFlow
<1>8. req' \in [Thread -> RequestType] /\ \A u \in Thread : req'[u] = req[u]
  BY <1>2 DEF IInv, EntryTypeOK, Thread
<1>9. \A s \in DOMAIN sess : sess[s].st # "opened" => sess'[s].st # "opened"
  BY <1>4, <1>5
<1>10. Len(sess') <= MaxSessions /\ Len(sess) <= Len(sess')
  BY <1>1, <1>5
<1> QED BY <1>2, <1>3, <1>5, <1>6, <1>7, <1>8, <1>9, <1>10, SessionsChange

\* Making a session eligible.
LEMMA VerifyWriteKeeps ==
    ASSUME IInv, NEW t \in Thread, VerifyWrite(t)
    PROVE  IInv'
<1>1. /\ req[t] \in RequestType /\ Fits(req[t]) /\ req[t].i \in 0..Len(inv)
      /\ req[t].s \in 0..Len(sess) /\ req[t].i \in 0..MaxInvites
      /\ sess \in Seq(SessionType) /\ DOMAIN sess = 1..Len(sess) /\ Len(sess) \in Nat
      /\ Len(sess) <= MaxSessions
      /\ Len(inv) \in Nat /\ Idle \in RequestType
  BY TypeFacts, IdleFits, EntryAssumption DEF IInv, EntryTypeOK, RequestType
<1>2. req[t].pc = "resume" /\ UNCHANGED <<account, part, inv, otp, decisions>>
  BY DEF VerifyWrite
<1>3. /\ Exists /\ part.bound /\ (req[t].i # 0 => inv[req[t].i].opened)
      /\ (InviteFlow => req[t].i # 0)
  BY <1>1, <1>2 DEF Fits
<1>4. /\ sess' \in Seq(SessionType) /\ Len(sess) <= Len(sess') /\ Len(sess') <= MaxSessions
      /\ \A s \in DOMAIN sess : sess[s].st # "opened" => sess'[s].st # "opened"
      /\ SessionsFit' /\ \E s \in DOMAIN sess' : sess'[s].st # "opened"
  <2>1. CASE req[t].s # 0
    <3> DEFINE k == req[t].s
    <3>1. k \in DOMAIN sess /\ sess[k] \in SessionType
      BY <1>1, <2>1
    <3>2. PICK e \in SessionType :
             /\ sess' = [sess EXCEPT ![k] = e] /\ e.st = "eligible"
             /\ e.inv = IF req[t].i # 0 THEN req[t].i ELSE sess[k].inv
      <4> DEFINE j == IF req[t].i # 0 THEN req[t].i ELSE sess[k].inv
      <4> DEFINE e == [st |-> "eligible", linked |-> sess[k].linked, inv |-> j]
      <4>1. e \in SessionType
        BY <1>1, <3>1 DEF SessionType
      <4>2. sess' = [sess EXCEPT ![k] = e]
        BY <2>1 DEF VerifyWrite
      <4> QED BY <4>1, <4>2
    <3>3. e.inv <= Len(inv) /\ (e.inv # 0 => inv[e.inv].opened) /\ (InviteFlow => e.inv # 0)
      BY <1>1, <1>3, <3>1, <3>2 DEF IInv, SessionsFit
    <3> HIDE DEF k
    <3>4. /\ sess' \in Seq(SessionType) /\ Len(sess') = Len(sess) /\ DOMAIN sess' = DOMAIN sess
          /\ \A s \in DOMAIN sess : s # k => sess'[s] = sess[s]
          /\ sess'[k] = e
      BY <1>1, <3>1, <3>2
    <3>5. SessionsFit'
      BY <1>2, <1>3, <3>3, <3>4 DEF IInv, SessionsFit, InviteFlow
    <3>6. \A s \in DOMAIN sess : sess[s].st # "opened" => sess'[s].st # "opened"
      BY <3>2, <3>4
    <3>7. \E s \in DOMAIN sess' : sess'[s].st # "opened"
      BY <3>1, <3>2, <3>4
    <3> QED BY <1>1, <3>4, <3>5, <3>6, <3>7
  <2>2. CASE req[t].s = 0
    <3> DEFINE e == [st |-> "eligible", linked |-> FALSE, inv |-> req[t].i]
    <3>1. e \in SessionType /\ e.st = "eligible" /\ e.inv = req[t].i
      BY <1>1 DEF SessionType
    <3>2. Len(sess) < MaxSessions /\ sess' = Append(sess, e)
      BY <2>2 DEF VerifyWrite
    <3> HIDE DEF e
    <3>3. /\ sess' \in Seq(SessionType) /\ Len(sess') = Len(sess) + 1
          /\ \A s \in DOMAIN sess : sess'[s] = sess[s]
          /\ sess'[Len(sess) + 1] = e /\ DOMAIN sess' = 1..(Len(sess) + 1)
      BY <1>1, <3>1, <3>2
    <3>4. Len(sess) <= Len(sess') /\ Len(sess') <= MaxSessions
      BY <1>1, <3>2, <3>3, EntryAssumption
    <3>5. SessionsFit'
      <4> SUFFICES ASSUME NEW s \in DOMAIN sess'
                   PROVE  /\ sess'[s].inv <= Len(inv)
                          /\ sess'[s].inv # 0 => inv[sess'[s].inv].opened
                          /\ InviteFlow => sess'[s].inv # 0
                          /\ sess'[s].st # "opened" => part.bound
        BY <1>2 DEF SessionsFit, InviteFlow
      <4>1. CASE s \in DOMAIN sess
        BY <3>3, <4>1 DEF IInv, SessionsFit
      <4>2. CASE s = Len(sess) + 1
        BY <1>1, <1>3, <3>1, <3>3, <4>2
      <4> QED BY <1>1, <3>3, <4>1, <4>2
    <3>6. \E s \in DOMAIN sess' : sess'[s].st # "opened"
      BY <1>1, <3>1, <3>3
    <3> QED BY <3>3, <3>4, <3>5, <3>6
  <2> QED BY <2>1, <2>2
<1>5. PICK r \in RequestType :
         /\ req' = [req EXCEPT ![t] = r] /\ r.s = 0 /\ r.i \in {0, req[t].i}
         /\ r.pc \in {"idle", "grant", "use"}
  <2>1. CASE Done(t)
    BY <1>1, <2>1 DEF Done, Idle
  <2>2. CASE Moves(t, IF req[t].via = "otp" THEN "grant" ELSE "use", req[t].i, 0)
    <3> DEFINE p == IF req[t].via = "otp" THEN "grant" ELSE "use"
    <3>1. [pc |-> p, via |-> req[t].via, i |-> req[t].i, s |-> 0] \in RequestType
      BY <1>1, EntryAssumption DEF RequestType, Place
    <3>2. req' = [req EXCEPT ![t] = [pc |-> p, via |-> req[t].via, i |-> req[t].i, s |-> 0]]
      BY <2>2 DEF Moves
    <3> QED BY <3>1, <3>2
  <2> QED BY <2>1, <2>2 DEF VerifyWrite, AfterSession
<1>6. Fits(r)'
  <2>1. r.i <= Len(inv') /\ r.s <= Len(sess') /\ (r.i # 0 => inv'[r.i].opened)
    BY <1>1, <1>2, <1>3, <1>4, <1>5, DomainOf
  <2>2. Exists' /\ part'.bound
    BY <1>2, <1>3 DEF Exists
  <2> QED BY <1>4, <1>5, <2>1, <2>2 DEF Fits
<1>7. req' \in [Thread -> RequestType] /\ \A u \in Thread : req'[u] = req[u] \/ req'[u] = r
  BY <1>5 DEF IInv, EntryTypeOK, Thread
<1>8. \A u \in Thread : req'[u] = req[u] \/ Fits(req[u])'
  BY <1>6, <1>7
<1>9. part' \in PartType /\ part'.source = part.source /\ (part.bound => part'.bound)
  BY <1>2 DEF IInv, EntryTypeOK
<1> QED BY <1>2, <1>3, <1>4, <1>7, <1>8, <1>9, SessionsChange

-----------------------------------------------------------------------------
LEMMA InductiveStep == IInv /\ [EntryNext]_entryVars => IInv'
<1> SUFFICES ASSUME IInv, [EntryNext]_entryVars PROVE IInv'
  OBVIOUS
<1>1. ASSUME NEW t \in Request, PersonStep(t) PROVE IInv'
  <2>1. t \in Thread
    BY DEF Thread
  <2> QED BY <1>1, <2>1, PersonQuiet, BeginningQuiet, PartSteps, AppearingSteps, InviteSteps,
             CreateOpenedKeeps, VerifyWriteKeeps DEF PersonStep
<1>2. ASSUME NEW t \in Admin, AdminStep(t) PROVE IInv'
  <2>1. t \in Thread
    BY DEF Thread
  <2> QED BY <1>2, <2>1, PersonQuiet, BeginningQuiet, PartSteps, InviteSteps DEF AdminStep
<1>3. ASSUME NEW s \in DOMAIN sess, Start(s) PROVE IInv'
  BY <1>3, StartKeeps
<1>4. CASE (\E bound \in BOOLEAN : Add(bound)) \/ Approve \/ Reject \/ BindAccount
  BY <1>4, AppearingSteps, DecisionSteps
<1>5. CASE UNCHANGED entryVars
  BY <1>5 DEF entryVars, IInv, EntryTypeOK, NothingBefore, RequestsFit, Fits, SessionsFit,
              UsedInviteOpensDoor, Exists, InviteFlow
<1> QED BY <1>1, <1>2, <1>3, <1>4, <1>5 DEF EntryNext

LEMMA Inductive == EntrySpec => []IInv
BY InitInv, InductiveStep, PTL DEF EntrySpec

\* The types of the model, for any number of requests, invites and sessions.
THEOREM EntryTypes == EntrySpec => []EntryTypeOK
<1>1. IInv => EntryTypeOK
  BY DEF IInv
<1> QED BY <1>1, Inductive, PTL

\* No entry session becomes eligible before its participant has an account.
THEOREM EligibleAlwaysBound == EntrySpec => []EligibleIsBound
<1>1. IInv => EligibleIsBound
  BY DEF IInv, SessionsFit, EligibleIsBound
<1> QED BY <1>1, Inductive, PTL

\* Participants that administrators added get in through an invite they opened.
THEOREM InviteAlwaysOpened == EntrySpec => []InviteFlowNeedsInvite
<1>1. IInv => InviteFlowNeedsInvite
  BY DEF IInv, SessionsFit, InviteFlowNeedsInvite
<1> QED BY <1>1, Inductive, PTL

\* An invite is used up only once there is a session to show for it.
THEOREM UsedInviteAlwaysOpens == EntrySpec => []UsedInviteOpensDoor
<1>1. IInv => UsedInviteOpensDoor
  BY DEF IInv
<1> QED BY <1>1, Inductive, PTL

-----------------------------------------------------------------------------
(* One administrator's request at a time: the links that were revoked before  *)
(* the new one is made are still revoked when it is.                          *)

OneAdmin == \A a, b \in Admin : a = b

LinkInv ==
    /\ \A t \in Request :
          req[t].pc \notin {"resend", "invite", "invited"}
    /\ (\E t \in Thread : req[t].pc = "invite") =>
          \A i \in DOMAIN inv : inv[i].revoked \/ inv[i].used
    /\ OneWorkingLink

\* No link comes back.
NoneRevived ==
    /\ DOMAIN inv' = DOMAIN inv
    /\ \A i \in DOMAIN inv : (inv[i].revoked \/ inv[i].used) => (inv'[i].revoked \/ inv'[i].used)

\* A step that neither revives a link nor brings a request to where one is made.
Harmless ==
    /\ NoneRevived
    /\ \A u \in Thread :
          \/ req'[u] = req[u]
          \/ req'[u].pc \notin {"resend", "invite", "invited"}
          \/ u \in Admin /\ req'[u].pc = "resend"

LEMMA HarmlessKeeps ==
    ASSUME IInv, LinkInv, Harmless
    PROVE  LinkInv'
<1>1. \A t \in Request : t \in Thread /\ t \notin Admin
  BY EntryAssumption DEF Thread
<1>2. \A t \in Request : req'[t].pc \notin {"resend", "invite", "invited"}
  BY <1>1 DEF LinkInv, Harmless
<1>3. \A t \in Thread : req'[t].pc = "invite" => req[t].pc = "invite"
  BY DEF Harmless
<1>4. (\E t \in Thread : req'[t].pc = "invite") =>
          \A i \in DOMAIN inv' : inv'[i].revoked \/ inv'[i].used
  BY <1>3 DEF LinkInv, Harmless, NoneRevived
<1>5. OneWorkingLink'
  <2> SUFFICES ASSUME NEW i \in DOMAIN inv', NEW j \in DOMAIN inv',
                      ~inv'[i].revoked, ~inv'[i].used, ~inv'[j].revoked, ~inv'[j].used
               PROVE  i = j
    BY DEF OneWorkingLink
  <2>1. /\ i \in DOMAIN inv /\ j \in DOMAIN inv
        /\ ~(inv[i].revoked \/ inv[i].used) /\ ~(inv[j].revoked \/ inv[j].used)
    BY DEF Harmless, NoneRevived
  <2> QED BY <2>1 DEF LinkInv, OneWorkingLink
<1> QED BY <1>2, <1>4, <1>5 DEF LinkInv

\* No request comes to a place of resendInvite.
Elsewhere ==
    \A u \in Thread : req'[u] = req[u] \/ req'[u].pc \notin {"resend", "invite", "invited"}

LEMMA Replaced ==
    ASSUME IInv, NEW t \in Thread, NEW r, req' = [req EXCEPT ![t] = r]
    PROVE  \A u \in Thread : req'[u] = req[u] \/ (u = t /\ req'[u] = r)
BY DEF IInv, EntryTypeOK, Thread

LEMMA MovesElsewhere ==
    ASSUME IInv, NEW t \in Thread, NEW p, NEW i, NEW s, Moves(t, p, i, s),
           p \notin {"resend", "invite", "invited"}
    PROVE  Elsewhere
BY Replaced DEF Moves, Elsewhere

LEMMA GoesElsewhere ==
    ASSUME IInv, NEW t \in Thread, NEW p, Goes(t, p), p \notin {"resend", "invite", "invited"}
    PROVE  Elsewhere
BY MovesElsewhere DEF Goes

LEMMA BeginsElsewhere ==
    ASSUME IInv, NEW t \in Thread, NEW p, NEW v, NEW i, Begins(t, p, v, i),
           p \notin {"resend", "invite", "invited"}
    PROVE  Elsewhere
BY Replaced DEF Begins, Elsewhere

LEMMA DoneElsewhere == ASSUME IInv, NEW t \in Thread, Done(t) PROVE Elsewhere
BY Replaced DEF Done, Idle, Elsewhere

\* Opening an invite or using it up revives none.
LEMMA MarkedInvite ==
    ASSUME IInv, NEW i \in Nat,
           \/ inv' = [inv EXCEPT ![i].opened = TRUE]
           \/ inv' = [inv EXCEPT ![i].used = TRUE]
    PROVE  NoneRevived
<1>1. inv \in Seq(InviteType)
  BY DEF IInv, EntryTypeOK
<1>2. \A k \in DOMAIN inv : inv[k] \in InviteType
  BY <1>1
<1>3. ASSUME NEW v \in InviteType
      PROVE  /\ v.used => [v EXCEPT !.opened = TRUE].used
             /\ v.revoked => [v EXCEPT !.opened = TRUE].revoked
             /\ [v EXCEPT !.used = TRUE].used
  BY DEF InviteType
<1>4. /\ DOMAIN inv' = DOMAIN inv
      /\ \A k \in DOMAIN inv : inv'[k] \in {inv[k], [inv[k] EXCEPT !.opened = TRUE],
                                            [inv[k] EXCEPT !.used = TRUE]}
  BY <1>1
<1>5. ASSUME NEW k \in DOMAIN inv, inv[k].revoked \/ inv[k].used
      PROVE  inv'[k].revoked \/ inv'[k].used
  <2>1. inv[k] \in InviteType
    BY <1>2
  <2>2. CASE inv'[k] = inv[k]
    BY <1>5, <2>2
  <2>3. CASE inv'[k] = [inv[k] EXCEPT !.opened = TRUE]
    BY <1>3, <1>5, <2>1, <2>3
  <2>4. CASE inv'[k] = [inv[k] EXCEPT !.used = TRUE]
    BY <1>3, <2>1, <2>4
  <2> QED BY <1>4, <2>2, <2>3, <2>4
<1> QED BY <1>4, <1>5 DEF NoneRevived

LEMMA PersonHarmless ==
    ASSUME IInv, NEW t \in Request, PersonStep(t)
    PROVE  Harmless
<1>1. t \in Thread
  BY DEF Thread
<1>2. ASSUME UNCHANGED inv, Elsewhere PROVE Harmless
  BY <1>2 DEF NoneRevived, Elsewhere, Harmless
<1>3. CASE \E via \in {"login", "anonymous"} : RegisterRead(t, via)
  <2>1. PICK via : Begins(t, "register", via, 0) /\ UNCHANGED inv
    BY <1>3 DEF RegisterRead
  <2> QED BY <1>1, <1>2, <2>1, BeginsElsewhere
<1>4. CASE RegisterCreate(t)
  <2>1. (Goes(t, "bind") \/ Done(t)) /\ UNCHANGED inv
    BY <1>4 DEF RegisterCreate
  <2> QED BY <1>1, <1>2, <2>1, GoesElsewhere, DoneElsewhere
<1>5. CASE AccessRead(t) \/ SendRead(t) \/ VerifyCode(t)
  <2>1. /\ \/ Begins(t, "verify", "login", 0) \/ Begins(t, "send", "login", 0)
           \/ Begins(t, "read", "otp", 0) \/ UNCHANGED req
        /\ UNCHANGED inv
    BY <1>5 DEF AccessRead, SendRead, VerifyCode
  <2>2. CASE UNCHANGED req
    BY <1>2, <2>1, <2>2 DEF Elsewhere
  <2> QED BY <1>1, <1>2, <2>1, <2>2, BeginsElsewhere
<1>6. CASE \E i \in DOMAIN inv, via \in {"invite", "anonymous"} : ResolveRead(t, i, via)
  <2>1. PICK i, via : Begins(t, "open", via, i) /\ UNCHANGED inv
    BY <1>6 DEF ResolveRead
  <2> QED BY <1>1, <1>2, <2>1, BeginsElsewhere
<1>7. CASE Open(t) \/ MarkUsed(t)
  <2>1. req[t].i \in Nat
    BY <1>1, TypeFacts, EntryAssumption
  <2>2. NoneRevived
    BY <1>7, <2>1, MarkedInvite DEF Open, MarkUsed
  <2>3. Goes(t, "bind") \/ Goes(t, "lookup") \/ Done(t)
    BY <1>7 DEF Open, MarkUsed
  <2>4. Elsewhere
    BY <1>1, <2>3, GoesElsewhere, DoneElsewhere
  <2> QED BY <2>2, <2>4 DEF Elsewhere, Harmless
<1>8. CASE LookupOpened(t) \/ CreateOpened(t) \/ SendCode(t) \/ Drop(t)
  <2>1. (Goes(t, "create") \/ Done(t)) /\ UNCHANGED inv
    BY <1>8 DEF LookupOpened, CreateOpened, SendCode, Drop
  <2> QED BY <1>1, <1>2, <2>1, GoesElsewhere, DoneElsewhere
<1>9. CASE OtpRead(t) \/ OtpFind(t) \/ OtpShadow(t) \/ OtpGrant(t)
  <2>1. /\ \/ Goes(t, "find") \/ Goes(t, "shadow") \/ Goes(t, "bind") \/ Goes(t, "use")
           \/ Moves(t, "shadow", sess[Len(sess)].inv, 0) \/ Done(t)
        /\ UNCHANGED inv
    BY <1>9 DEF OtpRead, OtpFind, OtpShadow, OtpGrant
  <2> QED BY <1>1, <1>2, <2>1, GoesElsewhere, MovesElsewhere, DoneElsewhere
<1>10. CASE Bind(t)
  BY <1>1, <1>2, <1>10, GoesElsewhere DEF Bind
<1>11. CASE VerifyRead(t)
  <2>1. (\E s : Moves(t, "resume", req[t].i, s)) /\ UNCHANGED inv
    BY <1>11 DEF VerifyRead
  <2> QED BY <1>1, <1>2, <2>1, MovesElsewhere
<1>12. CASE VerifyWrite(t)
  <2>1. /\ \/ Done(t)
           \/ Moves(t, "grant", req[t].i, 0) \/ Moves(t, "use", req[t].i, 0)
        /\ UNCHANGED inv
    BY <1>12 DEF VerifyWrite, AfterSession
  <2> QED BY <1>1, <1>2, <2>1, MovesElsewhere, DoneElsewhere
<1> QED BY <1>3, <1>4, <1>5, <1>6, <1>7, <1>8, <1>9, <1>10, <1>11, <1>12 DEF PersonStep

LEMMA WithdrawnRevivesNone == ASSUME IInv, inv' = Withdrawn PROVE NoneRevived
<1>1. DOMAIN Withdrawn = DOMAIN inv
  BY DEF Withdrawn
<1>2. \A i \in DOMAIN inv : Withdrawn[i].used \/ Withdrawn[i].revoked
  BY WithdrawnFacts
<1> QED BY <1>1, <1>2 DEF NoneRevived

\* Every step but the two that make a new link.
LEMMA AdminHarmless ==
    ASSUME IInv, NEW t \in Admin,
           \/ RevokeInvites(t) \/ RevokeAccess(t) \/ ResendRead(t) \/ ResendAccess(t) \/ Drop(t)
    PROVE  Harmless
<1>1. t \in Thread
  BY DEF Thread
<1>2. ASSUME NoneRevived, Elsewhere PROVE Harmless
  BY <1>2 DEF Elsewhere, Harmless
<1>3. CASE RevokeInvites(t)
  <2>1. Begins(t, "revoke", "login", 0) /\ inv' = Withdrawn
    BY <1>3 DEF RevokeInvites
  <2> QED BY <1>1, <1>2, <2>1, BeginsElsewhere, WithdrawnRevivesNone
<1>4. CASE RevokeAccess(t) \/ ResendAccess(t) \/ Drop(t)
  <2>1. Done(t) /\ UNCHANGED inv
    BY <1>4 DEF RevokeAccess, ResendAccess, Drop
  <2> QED BY <1>1, <1>2, <2>1, DoneElsewhere DEF NoneRevived
<1>5. CASE ResendRead(t)
  <2>1. Begins(t, "resend", "login", 0) /\ UNCHANGED inv
    BY <1>5 DEF ResendRead
  <2>2. \A u \in Thread : req'[u] = req[u] \/ (u = t /\ req'[u].pc = "resend")
    BY <1>1, <2>1, Replaced DEF Begins
  <2> QED BY <2>1, <2>2 DEF NoneRevived, Harmless
<1> QED BY <1>3, <1>4, <1>5

LEMMA LinkStep ==
    ASSUME OneAdmin
    PROVE  IInv /\ LinkInv /\ [EntryNext]_entryVars => LinkInv'
<1> SUFFICES ASSUME IInv, LinkInv, [EntryNext]_entryVars PROVE LinkInv'
  OBVIOUS
<1>0. /\ \A t \in Request : t \in Thread /\ t \notin Admin
      /\ \A t \in Admin : t \in Thread
      /\ inv \in Seq(InviteType) /\ DOMAIN inv = 1..Len(inv) /\ Len(inv) \in Nat
  BY EntryAssumption, DomainOf DEF Thread, IInv, EntryTypeOK
<1>1. ASSUME NEW t \in Request, PersonStep(t) PROVE LinkInv'
  BY <1>1, PersonHarmless, HarmlessKeeps
<1>2. ASSUME NEW t \in Admin, ResendRevoke(t) PROVE LinkInv'
  <2>1. /\ inv' = Withdrawn /\ \A u \in Thread : u # t => req'[u] = req[u]
    BY <1>0, <1>2 DEF ResendRevoke, Goes, Moves, IInv, EntryTypeOK, Thread
  <2>2. DOMAIN Withdrawn = DOMAIN inv /\ \A i \in DOMAIN inv : Withdrawn[i].revoked \/ Withdrawn[i].used
    BY WithdrawnFacts DEF Withdrawn
  <2>3. \A u \in Request : req'[u].pc \notin {"resend", "invite", "invited"}
    BY <1>0, <2>1 DEF LinkInv
  <2> QED BY <2>1, <2>2, <2>3 DEF LinkInv, OneWorkingLink
<1>3. ASSUME NEW t \in Admin, ResendCreate(t) PROVE LinkInv'
  <2> DEFINE v == [opened |-> FALSE, used |-> FALSE, revoked |-> FALSE]
  <2>1. req[t].pc = "invite" /\ inv' = Append(inv, v) /\ Moves(t, "invited", req[t].i, req[t].s)
    BY <1>3 DEF ResendCreate, Goes
  <2>2. \A u \in Thread : (u # t => req'[u] = req[u]) /\ req'[t].pc = "invited"
    BY <1>0, <2>1 DEF Moves, IInv, EntryTypeOK, Thread
  <2>3. \A u \in Request : req'[u].pc \notin {"resend", "invite", "invited"}
    BY <1>0, <2>2 DEF LinkInv
  <2>4. \A u \in Thread : req'[u].pc # "invite"
    BY <2>2, <2>3 DEF OneAdmin, Thread
  <2>5. \A i \in DOMAIN inv : inv[i].revoked \/ inv[i].used
    BY <1>0, <2>1 DEF LinkInv
  <2> HIDE DEF v
  <2>6. DOMAIN inv' = 1..(Len(inv) + 1) /\ \A i \in DOMAIN inv : inv'[i] = inv[i]
    BY <1>0, <2>1
  <2>7. OneWorkingLink'
    <3> SUFFICES ASSUME NEW i \in DOMAIN inv', NEW j \in DOMAIN inv',
                        ~inv'[i].revoked, ~inv'[i].used, ~inv'[j].revoked, ~inv'[j].used
                 PROVE  i = j
      BY DEF OneWorkingLink
    <3>1. i \notin DOMAIN inv /\ j \notin DOMAIN inv
      BY <2>5, <2>6
    <3> QED BY <1>0, <2>6, <3>1
  <2> QED BY <2>3, <2>4, <2>7 DEF LinkInv
<1>4. ASSUME NEW t \in Admin, AdminStep(t), ~ResendRevoke(t), ~ResendCreate(t) PROVE LinkInv'
  BY <1>4, AdminHarmless, HarmlessKeeps DEF AdminStep
<1>5. CASE \/ \E s \in DOMAIN sess : Start(s)
           \/ (\E bound \in BOOLEAN : Add(bound)) \/ Approve \/ Reject \/ BindAccount
           \/ UNCHANGED entryVars
  <2>1. UNCHANGED <<inv, req>>
    BY <1>5 DEF Start, Add, Approve, Reject, BindAccount, entryVars
  <2>2. Harmless
    BY <2>1 DEF Harmless, NoneRevived
  <2> QED BY <2>2, HarmlessKeeps
<1> QED BY <1>1, <1>2, <1>3, <1>4, <1>5 DEF EntryNext

\* Sending an invite again leaves one working link, if administrators' requests do not
\* overlap, for any number of the person's requests and of invites.
THEOREM OneLinkWorks ==
    ASSUME OneAdmin
    PROVE  EntrySpec => []OneWorkingLink
<1>1. EntryInit => LinkInv
  BY DEF EntryInit, LinkInv, OneWorkingLink, Idle, Thread
<1>2. IInv /\ LinkInv /\ [EntryNext]_entryVars => LinkInv'
  BY LinkStep
<1>3. LinkInv => OneWorkingLink
  BY DEF LinkInv
<1> QED BY <1>1, <1>2, <1>3, Inductive, PTL DEF EntrySpec
=============================================================================
