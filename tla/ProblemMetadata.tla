---------------------------- MODULE ProblemMetadata ----------------------------
(***************************************************************************)
(* What submissions know of one problem.  Each API process caches the      *)
(* promise of a load that reads the problem and then its test cases; an    *)
(* administrator's edit writes the two in separate statements and drops    *)
(* the entry of the process it runs in, and of no other: there an entry    *)
(* lasts until its time to live is over.  A problem with submissions is    *)
(* not edited.  Time is a count of ticks.                                  *)
(***************************************************************************)
EXTENDS Naturals

CONSTANTS
    Process,  \* API processes
    Query,    \* requests to submit or run code
    NoQuery,  \* none of them
    Ttl,      \* ttlMs, in ticks
    MaxEdits, \* bound on edits
    MaxTime   \* bound on time

ASSUME MetadataAssumption ==
    NoQuery \notin Query /\ Ttl \in Nat /\ MaxEdits \in Nat /\ MaxTime \in Nat

VARIABLES
    problem,   \* the edit the row of problems is from
    testcases, \* the edit the rows of testcases are from
    submitted, \* the problem has a submission
    edits,     \* edits so far
    editing,   \* the edit under way
    finished,  \* history: the edits that came to their end, where and when
    now,
    cache,     \* the entry of the problem in each process
    load,      \* the loads, by the request that began each
    query      \* the requests

metadataVars ==
    <<problem, testcases, submitted, edits, editing, finished, now, cache, load, query>>

Version == 0..MaxEdits
Finish == [edit : Version, at : Process, time : 0..MaxTime]

NoEntry == [load |-> NoQuery, expiresAt |-> 0]
NoLoad == [pc |-> "none", problem |-> 0, testcases |-> 0]

\* due: the last edit the request has to know of.
MetadataTypeOK ==
    /\ problem \in Version /\ testcases \in Version /\ edits \in Version
    /\ submitted \in BOOLEAN
    /\ editing \in [pc : {"idle", "problem", "testcases", "invalidate"}, at : Process]
    /\ finished \in SUBSET Finish
    /\ now \in 0..MaxTime
    /\ cache \in [Process -> [load : Query \cup {NoQuery}, expiresAt : Nat]]
    /\ load \in [Query -> [pc : {"none", "problem", "testcases", "resolved", "rejected"},
                           problem : Version, testcases : Version]]
    /\ query \in [Query -> [pc : {"idle", "waiting", "served", "done"}, at : Process,
                            via : Query \cup {NoQuery}, due : Version]]

MetadataInit ==
    /\ problem = 0 /\ testcases = 0 /\ submitted = FALSE /\ edits = 0
    /\ \E i \in Process :
          /\ editing = [pc |-> "idle", at |-> i]
          /\ query = [q \in Query |-> [pc |-> "idle", at |-> i, via |-> NoQuery, due |-> 0]]
    /\ finished = {} /\ now = 0
    /\ cache = [i \in Process |-> NoEntry]
    /\ load = [q \in Query |-> NoLoad]

problemVars == <<problem, testcases, submitted, edits, editing, finished>>
cacheVars == <<cache, load, query>>

-----------------------------------------------------------------------------
(* TtlPromiseCache and its use by submitCode and runCode                   *)

\* An edit that ended in this process is known here at once, any other when an entry made
\* before its end has expired.
KnownAt(i) == {f.edit : f \in {g \in finished : g.at = i \/ g.time + Ttl <= now}}

\* An entry that has not expired is shared, whether its load has ended or not; otherwise
\* the request begins a load and its promise takes the place of the entry.
getOrLoad(q, i) ==
    /\ query[q].pc = "idle"
    /\ \E due \in {0} \cup KnownAt(i) :
          /\ \A v \in KnownAt(i) : v <= due
          /\ LET hit == cache[i].load # NoQuery /\ cache[i].expiresAt > now
             IN  /\ query' = [query EXCEPT ![q] = [pc |-> "waiting", at |-> i, due |-> due,
                                                   via |-> IF hit THEN cache[i].load ELSE q]]
                 /\ IF hit
                    THEN UNCHANGED <<cache, load>>
                    ELSE /\ load' = [load EXCEPT ![q].pc = "problem"]
                         /\ cache' = [cache EXCEPT ![i] = [load |-> q, expiresAt |-> now + Ttl]]
    /\ UNCHANGED <<problemVars, now>>

LoadProblem(q) ==
    /\ load[q].pc = "problem"
    /\ load' = [load EXCEPT ![q] = [@ EXCEPT !.pc = "testcases", !.problem = problem]]
    /\ UNCHANGED <<problemVars, now, cache, query>>

LoadTestcases(q) ==
    /\ load[q].pc = "testcases"
    /\ load' = [load EXCEPT ![q] = [@ EXCEPT !.pc = "resolved", !.testcases = testcases]]
    /\ UNCHANGED <<problemVars, now, cache, query>>

\* The entry of a load that fails is dropped, unless it is another's by now.
DropOwnEntry(q) ==
    cache' = [i \in Process |-> IF cache[i].load = q THEN NoEntry ELSE cache[i]]

\* A statement fails, the problem is gone or is not fit to be judged.
LoadFails(q) ==
    /\ load[q].pc \in {"problem", "testcases"}
    /\ load' = [load EXCEPT ![q].pc = "rejected"]
    /\ DropOwnEntry(q)
    /\ UNCHANGED <<problemVars, now, query>>

\* The requests that share a load go on when it has ended, or fail with it.
Served(q) ==
    /\ query[q].pc = "waiting"
    /\ \/ load[query[q].via].pc = "resolved" /\ query' = [query EXCEPT ![q].pc = "served"]
       \/ load[query[q].via].pc = "rejected" /\ query' = [query EXCEPT ![q].pc = "done"]
    /\ UNCHANGED <<problemVars, now, cache, load>>

\* The job takes the metadata along; a request to run code makes no submission.
QueryEnds(q) ==
    /\ query[q].pc = "served"
    /\ query' = [query EXCEPT ![q].pc = "done"]
    /\ submitted' \in {submitted, TRUE}
    /\ UNCHANGED <<problem, testcases, edits, editing, finished, now, cache, load>>

\* enforceMaxSize and cleanup, on behalf of other problems.
enforceMaxSize(i) ==
    /\ cache[i] # NoEntry
    /\ cache' = [cache EXCEPT ![i] = NoEntry]
    /\ UNCHANGED <<problemVars, now, load, query>>

-----------------------------------------------------------------------------
(* updateChallenge                                                         *)

EditBegins(i) ==
    /\ editing.pc = "idle" /\ ~submitted /\ edits < MaxEdits
    /\ edits' = edits + 1
    /\ editing' = [pc |-> "problem", at |-> i]
    /\ UNCHANGED <<problem, testcases, submitted, finished, now, cacheVars>>

EditProblem ==
    /\ editing.pc = "problem"
    /\ problem' = edits
    /\ editing' = [editing EXCEPT !.pc = "testcases"]
    /\ UNCHANGED <<testcases, submitted, edits, finished, now, cacheVars>>

EditTestcases ==
    /\ editing.pc = "testcases"
    /\ testcases' = edits
    /\ editing' = [editing EXCEPT !.pc = "invalidate"]
    /\ UNCHANGED <<problem, submitted, edits, finished, now, cacheVars>>

Finishes ==
    /\ editing' = [editing EXCEPT !.pc = "idle"]
    /\ finished' = finished \cup {[edit |-> edits, at |-> editing.at, time |-> now]}

\* Mutant: an entry whose load has not ended is left to its request.
InvalidateResolved ==
    /\ editing.pc = "invalidate"
    /\ LET q == cache[editing.at].load
       IN  cache' = IF q # NoQuery /\ load[q].pc = "resolved"
                    THEN [cache EXCEPT ![editing.at] = NoEntry] ELSE cache
    /\ Finishes
    /\ UNCHANGED <<problem, testcases, submitted, edits, now, load, query>>

\* invalidateProblem, in the process of the edit: also an entry whose load is under way.
invalidateProblem ==
    /\ editing.pc = "invalidate"
    /\ cache' = [cache EXCEPT ![editing.at] = NoEntry]
    /\ Finishes
    /\ UNCHANGED <<problem, testcases, submitted, edits, now, load, query>>

\* An edit that fails half-way drops no entry.
EditFails ==
    /\ editing.pc # "idle"
    /\ editing' = [editing EXCEPT !.pc = "idle"]
    /\ UNCHANGED <<problem, testcases, submitted, edits, finished, now, cacheVars>>

Tick ==
    /\ now < MaxTime
    /\ now' = now + 1
    /\ UNCHANGED <<problemVars, cacheVars>>

MetadataNext ==
    \/ \E q \in Query :
          \/ \E i \in Process : getOrLoad(q, i)
          \/ LoadProblem(q) \/ LoadTestcases(q) \/ LoadFails(q)
          \/ Served(q) \/ QueryEnds(q)
    \/ \E i \in Process : enforceMaxSize(i) \/ EditBegins(i)
    \/ EditProblem \/ EditTestcases \/ invalidateProblem \/ EditFails
    \/ Tick

MetadataSpec == MetadataInit /\ [][MetadataNext]_metadataVars

-----------------------------------------------------------------------------
(* Properties                                                              *)

\* Stale data stays within its bounds: a request never works with a problem or test
\* cases from before an edit that ended in its process before it came, or in another
\* one a time to live ago, though loads overlap edits and requests share loads.
EditIsSeen ==
    \A q \in Query : query[q].pc = "served" =>
        /\ load[query[q].via].problem >= query[q].due
        /\ load[query[q].via].testcases >= query[q].due

\* A load that failed is not shared with requests that come later.
FailureIsForgotten ==
    \A i \in Process : cache[i].load # NoQuery => load[cache[i].load].pc # "rejected"

=============================================================================
