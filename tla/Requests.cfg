SPECIFICATION Spec
SYMMETRY Tabs
CONSTANTS
    t1 = t1
    t2 = t2
    Request = {t1, t2}
    Admin = {a1}
    MaxInvites = 2
    MaxSessions = 2
    MaxDecisions = 3
    Participant = {a, b, c}
    NoAccount = none
    Merger = {m1, m2}
    m1 = m1
    Staff = {r1, r2}
    Candidate = {v1, v2}
    LastDay = 2
    p1 = p1
    Process = {p1, p2}
    q1 = q1
    Query = {q1, q2}
    NoQuery = none
    Ttl = 1
    MaxEdits = 1
    MaxTime = 1
    u1 = u1
    l1 = l1
    l2 = l2
    l3 = l3
    c1 = c1
    User = {u1, u2, u3}
    NoUser = unknown
    Login = {l1, l2, l3}
    Change = {c1, c2}
    AuditConcurrency = 1
    AuditMaxPending = 2
INVARIANTS InviteFlowNeedsInvite UsedInviteOpensDoor OneWorkingLink MergeLosesNothing CancelledStaysEmpty JoinedKeepsTerms EditIsSeen OldSessionsEnd AuditsMove
CHECK_DEADLOCK FALSE
