----------------------------- MODULE RoadmapItems -----------------------------
(***************************************************************************)
(* The items of one roadmap and the requests of its owner, from several    *)
(* tabs, that add one, remove one or put all in another order.  An item's  *)
(* place is the column "order"; no key of the table forbids two items the  *)
(* same one.  Adding reads the highest order before it inserts; removing   *)
(* deletes the row and renumbers the others in a transaction of its own,   *)
(* which, like that of reordering, writes by id what it has worked out     *)
(* from rows it read before, READ COMMITTED.                               *)
(***************************************************************************)
EXTENDS Naturals, FiniteSets

CONSTANTS
    Item,    \* rows of roadmap_items, present or not
    Editor,  \* requests that may overlap
    MaxOrder \* bound on the orders

ASSUME RoadmapAssumption == IsFiniteSet(Item) /\ MaxOrder \in Nat

VARIABLES
    order, \* roadmap_items."order"; 0 for an item that is not there
    edit,  \* the requests
    raced  \* history: an edit was written over one it had not seen, or was cut short

roadmapVars == <<order, edit, raced>>

\* plan: the orders a request is about to write, 0 for rows it leaves alone.  stale: the
\* rows have changed since it worked them out.
NoEdit == [op |-> "idle", plan |-> [i \in Item |-> 0], stale |-> FALSE]
EditType == [op : {"idle", "add", "removed", "renumber", "reorder"},
             plan : [Item -> Nat], stale : BOOLEAN]

RoadmapTypeOK ==
    /\ order \in [Item -> Nat]
    /\ edit \in [Editor -> EditType]
    /\ raced \in BOOLEAN

Present == {i \in Item : order[i] # 0}

\* The ways to number the items that are there from 1 on.
Numberings ==
    {f \in [Item -> 0..Cardinality(Present)] :
        /\ \A i \in Item : f[i] = 0 <=> i \notin Present
        /\ \A i, j \in Present : f[i] = f[j] => i = j}

RoadmapInit ==
    /\ order \in [Item -> 0..Cardinality(Item)] /\ order \in Numberings
    /\ edit = [e \in Editor |-> NoEdit]
    /\ raced = FALSE

\* Editor e ends or goes on with r, and what the others have worked out in ops is stale.
Writes(e, r, ops) ==
    edit' = [f \in Editor |-> IF f = e THEN r
                              ELSE IF edit[f].op \in ops THEN [edit[f] EXCEPT !.stale = TRUE]
                              ELSE edit[f]]

-----------------------------------------------------------------------------
\* Mutant, the code before its fix: the number of items is taken for the highest order.
countItems == Cardinality(Present)

getMaxOrderByRoadmap ==
    CHOOSE m \in {order[i] : i \in Item} : \A i \in Item : order[i] <= m

\* addItemToRoadmap of the service reads the highest order...
AddReads(e, i) ==
    /\ edit[e].op = "idle" /\ order[i] = 0
    /\ \A f \in Editor : edit[f].op = "add" => edit[f].plan[i] = 0
    /\ getMaxOrderByRoadmap < MaxOrder
    /\ edit' = [edit EXCEPT ![e] = [op |-> "add", stale |-> FALSE,
                                    plan |-> [NoEdit.plan EXCEPT ![i] = getMaxOrderByRoadmap + 1]]]
    /\ UNCHANGED <<order, raced>>

\* ...and inserts.  Other additions and a reordering, which names its items, do not mind.
addItemToRoadmap(e) ==
    /\ edit[e].op = "add"
    /\ order' = [i \in Item |-> IF edit[e].plan[i] # 0 THEN edit[e].plan[i] ELSE order[i]]
    /\ Writes(e, NoEdit, {"renumber"})
    /\ raced' = (raced \/ edit[e].stale)

removeItemFromRoadmap(e, i) ==
    /\ edit[e].op = "idle" /\ order[i] # 0
    /\ order' = [order EXCEPT ![i] = 0]
    /\ Writes(e, [NoEdit EXCEPT !.op = "removed"], {"add", "renumber", "reorder"})
    /\ UNCHANGED raced

\* compactOrdersAfterDelete selects the rows by order, ties in any order, and updates
\* those whose order is not their position.
CompactReads(e) ==
    /\ edit[e].op = "removed"
    /\ \E f \in Numberings :
          /\ \A i, j \in Present : order[i] < order[j] => f[i] < f[j]
          /\ edit' = [edit EXCEPT ![e] =
                        [op |-> "renumber", stale |-> FALSE,
                         plan |-> [i \in Item |-> IF f[i] = order[i] THEN 0 ELSE f[i]]]]
    /\ UNCHANGED <<order, raced>>

\* reorderItems: the client's list has to name the items that are there.
ReorderReads(e) ==
    /\ edit[e].op = "idle"
    /\ \E f \in Numberings :
          edit' = [edit EXCEPT ![e] = [op |-> "reorder", stale |-> FALSE, plan |-> f]]
    /\ UNCHANGED <<order, raced>>

\* The transaction commits: every row that is still there gets the order planned for it.
Renumber(e) ==
    /\ edit[e].op \in {"renumber", "reorder"}
    /\ order' = [i \in Item |-> IF order[i] # 0 /\ edit[e].plan[i] # 0
                                THEN edit[e].plan[i] ELSE order[i]]
    /\ Writes(e, NoEdit, {"add", "renumber", "reorder"})
    /\ raced' = (raced \/ edit[e].stale)

\* A check refuses the request, a statement fails or the process dies; a removal that
\* ends here leaves its gap.
EditEnds(e) ==
    /\ edit[e].op # "idle"
    /\ edit' = [edit EXCEPT ![e] = NoEdit]
    /\ raced' = (raced \/ edit[e].op \in {"removed", "renumber"})
    /\ UNCHANGED order

RoadmapNext ==
    \E e \in Editor :
        \/ \E i \in Item : AddReads(e, i) \/ removeItemFromRoadmap(e, i)
        \/ addItemToRoadmap(e) \/ CompactReads(e) \/ ReorderReads(e) \/ Renumber(e)
        \/ EditEnds(e)

RoadmapSpec == RoadmapInit /\ [][RoadmapNext]_roadmapVars

-----------------------------------------------------------------------------
(* Properties                                                              *)

Removing == \E e \in Editor : edit[e].op \in {"removed", "renumber"}

\* An order is missing only while a removal is under way or after edits that raced or
\* were cut short: additions may tie, but leave no gap, and a learner who completes the
\* item after a gap is answered with an internal error.
GapMeansRace ==
    ~Removing /\ ~raced =>
        \A i \in Present : order[i] > 1 => \E j \in Present : order[j] = order[i] - 1

\* What addItemToRoadmap's comment promises of additions that run at the same time.
OrdersAreDistinct == \A i, j \in Present : order[i] = order[j] => i = j

=============================================================================
