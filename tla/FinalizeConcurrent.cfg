CONSTANTS
    s1 = s1
    s2 = s2
    s3 = s3
    s4 = s4
    p1 = p1
    p2 = p2
    rm = rm
    Submission = {s1, s2, s3, s4}
    Key = {p1, p2}
    KeyOf <- KeyOfFour
    Exam = {s4}
    Roadmap = {rm}
    RoadmapsOf <- OneRoadmap
    Tx = {t1, t2}
    Free = Free

SPECIFICATION Spec
SYMMETRY Interchangeable
INVARIANTS RoadmapShowsAccepted
PROPERTY ImplementsLedger
