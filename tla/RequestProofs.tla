------------------------------ MODULE RequestProofs ------------------------------
(***************************************************************************)
(* Proofs about components whose statements race only with those of other  *)
(* requests, for any number of participants and merges, of logins and      *)
(* changes of passwords, of edits and candidates of an exam, of processes  *)
(* and requests: ExamMerge, AccountSessions, ExamLifecycle and             *)
(* ProblemMetadata.                                                        *)
(***************************************************************************)
EXTENDS ExamMerge, AccountSessions, ExamLifecycle, ProblemMetadata, FiniteSetTheorems, TLAPS

-----------------------------------------------------------------------------
(* The merges of ExamMerge.  The invariant speaks of behaviours nothing has disturbed: *)
(* as soon as a merge is overtaken, MergeLosesNothing says no more.                    *)

MergeType == [pc : Ended \cup Kind \cup {"reads", "update", "mark"},
              src : Participant, tgt : Participant, srcUser : Account, tgtUser : Account]
RowType == [kind : Kind, user : Account, at : Participant]

Active(m) == merge[m].pc \notin Ended

Gone(pc) == CASE pc = "session" -> {"invite"}
              [] pc = "attempt" -> {"invite", "session"}
              [] pc \in {"update", "mark"} -> Kind
              [] OTHER -> {}

\* A merge under way still knows what it has read; one that gets as far as marking its
\* source merges one without an account, because the unique key refuses the other case.
Merging(m) ==
    LET c == merge[m] IN
    /\ c.src # c.tgt /\ c.src \notin merged /\ c.srcUser = userId[c.src]
    /\ c.pc # "reads" => /\ c.tgt \notin merged /\ c.tgtUser = userId[c.tgt]
                         /\ c.srcUser = NoAccount \/ c.tgtUser = NoAccount
    /\ c.pc = "mark" => c.srcUser = NoAccount
    /\ \A r \in rows : r.at = c.src => r.kind \notin Gone(c.pc)

AccountsAreOwn == \A p \in Participant : userId[p] \in {NoAccount, p}
MergedAreEmpty == \A p \in merged : userId[p] = NoAccount /\ \A r \in rows : r.at # p

\* Rows of account a may be on their way, or stay behind with the target of a merge that
\* stopped; the account is still the source's.
Handing == {"session", "attempt", "update", "mark", "stopped"}
HandedOver(a) ==
    \E m \in Merger : merge[m].pc \in Handing /\ merge[m].srcUser = a /\ userId[merge[m].src] = a
Belongs(r) == r.user \in {NoAccount, userId[r.at]} \/ HandedOver(r.user)

MergesAreApart ==
    \A m, n \in Merger : m # n /\ Active(m) /\ Active(n) =>
        {merge[m].src, merge[m].tgt} \cap {merge[n].src, merge[n].tgt} = {}

Undisturbed ==
    /\ AccountsAreOwn /\ MergedAreEmpty /\ (\A r \in rows : Belongs(r))
    /\ (\A m \in Merger : Active(m) => Merging(m)) /\ MergesAreApart

MergeTypes ==
    /\ userId \in [Participant -> Account] /\ rows \subseteq RowType
    /\ merged \subseteq Participant /\ merge \in [Merger -> MergeType]

MergeIInv == MergeTypes /\ (~overtaken => Undisturbed)

LEMMA MergeInitHolds == MergeInit => MergeIInv
<1> SUFFICES ASSUME MergeInit PROVE MergeIInv
  OBVIOUS
<1>1. MergeTypes
  BY DEF MergeInit, MergeTypes, MergeType, RowType, Account, Ended
<1>2. \A m \in Merger : ~Active(m)
  BY DEF MergeInit, Active, Ended
<1>3. AccountsAreOwn /\ MergedAreEmpty /\ (\A r \in rows : Belongs(r)) /\ MergesAreApart
  BY <1>2 DEF MergeInit, AccountsAreOwn, MergedAreEmpty, MergesAreApart
<1> QED
  BY <1>1, <1>2, <1>3 DEF MergeIInv, Undisturbed

\* The merges under way when none of the participants at hand is in one.
LEMMA OutsideMerges ==
    ASSUME NEW p \in Participant, ~InMerge(p), NEW m \in Merger, Active(m)
    PROVE  p # merge[m].src /\ p # merge[m].tgt
BY DEF InMerge, Active

LEMMA MergeTypeStep == MergeTypes /\ [MergeNext]_mergeVars => MergeTypes'
<1> SUFFICES ASSUME MergeTypes, [MergeNext]_mergeVars PROVE MergeTypes'
  OBVIOUS
<1> USE DEF MergeTypes
<1>1. ASSUME NEW p \in Participant, BindsAccount(p)
      PROVE  MergeTypes'
  BY <1>1 DEF BindsAccount, Account
<1>2. ASSUME NEW p \in Participant, NEW k \in Kind, GetsRow(p, k)
      PROVE  MergeTypes'
  <2>1. [kind |-> k, at |-> p, user |-> IF k = "attempt" THEN userId[p] ELSE NoAccount]
           \in RowType
    BY DEF RowType, Account
  <2> QED
    BY <1>2, <2>1 DEF GetsRow
<1>3. ASSUME NEW m \in Merger, NEW s \in Participant, NEW t \in Participant,
             ReadSource(m, s, t)
      PROVE  MergeTypes'
  <2>1. [pc |-> "reads", src |-> s, tgt |-> t, srcUser |-> userId[s],
         tgtUser |-> NoAccount] \in MergeType
    BY DEF MergeType, Account
  <2> QED
    BY <1>3, <2>1 DEF ReadSource
<1>4. ASSUME NEW m \in Merger, ReadTarget(m)
      PROVE  MergeTypes'
  <2>0. merge[m] \in MergeType
    OBVIOUS
  <2>1. PICK pc \in {"denied", "invite"} :
          merge' = [merge EXCEPT ![m] = [merge[m] EXCEPT !.tgtUser = userId[merge[m].tgt],
                                                         !.pc = pc]]
    BY <1>4 DEF ReadTarget
  <2>2. userId[merge[m].tgt] \in Account
    BY <2>0 DEF MergeType
  <2>3. [merge[m] EXCEPT !.tgtUser = userId[merge[m].tgt], !.pc = pc] \in MergeType
    BY <2>0, <2>2 DEF MergeType, Ended, Kind
  <2> QED
    BY <1>4, <2>1, <2>3 DEF ReadTarget
<1>5. ASSUME NEW m \in Merger, HandOver(m) \/ UpdateTarget(m) \/ MarkMerged(m) \/ MergeStops(m)
      PROVE  MergeTypes'
  <2>0. merge[m] \in MergeType
    OBVIOUS
  <2>1. PICK pc \in {"session", "attempt", "update", "mark", "done", "stopped"} :
          merge' = [merge EXCEPT ![m] = [merge[m] EXCEPT !.pc = pc]]
    BY <1>5 DEF HandOver, UpdateTarget, MarkMerged, MergeStops, AfterKind, Kind
  <2>2. [merge[m] EXCEPT !.pc = pc] \in MergeType
    BY <2>0 DEF MergeType, Ended, Kind
  <2>3. merge' \in [Merger -> MergeType]
    BY <2>1, <2>2
  <2>4. rows' \subseteq RowType
    <3>1. ASSUME HandOver(m) PROVE rows' \subseteq RowType
      <4>1. merge[m].tgt \in Participant
        BY <2>0 DEF MergeType
      <4>2. \A r \in RowType : [r EXCEPT !.at = merge[m].tgt] \in RowType
        BY <4>1 DEF RowType
      <4> QED
        BY <3>1, <4>2 DEF HandOver
    <3> QED
      BY <1>5, <3>1 DEF UpdateTarget, MarkMerged, MergeStops
  <2>5. userId' \in [Participant -> Account] /\ merged' \subseteq Participant
    BY <1>5, <2>0 DEF HandOver, UpdateTarget, MarkMerged, MergeStops, MergeType
  <2> QED
    BY <2>3, <2>4, <2>5
<1>6. CASE UNCHANGED mergeVars
  BY <1>6 DEF mergeVars
<1> QED
  BY <1>1, <1>2, <1>3, <1>4, <1>5, <1>6 DEF MergeNext

\* Somebody else's step, at a participant of no merge.
LEMMA OthersStep ==
    ASSUME MergeTypes, Undisturbed, ~overtaken',
           \/ \E p \in Participant : BindsAccount(p)
           \/ \E p \in Participant, k \in Kind : GetsRow(p, k)
    PROVE  Undisturbed'
<1> USE DEF MergeTypes
<1>1. ASSUME NEW p \in Participant, BindsAccount(p)
      PROVE  Undisturbed'
  <2>1. /\ ~InMerge(p) /\ p \notin merged /\ userId' = [userId EXCEPT ![p] = p]
        /\ UNCHANGED <<rows, merged, merge>>
    BY <1>1 DEF BindsAccount
  <2>2. AccountsAreOwn' /\ MergedAreEmpty' /\ MergesAreApart'
    BY <2>1 DEF Undisturbed, AccountsAreOwn, MergedAreEmpty, MergesAreApart, Active
  <2>3. \A r \in rows' : Belongs(r)'
    <3>1. TAKE r \in rows'
    <3>2. r \in RowType /\ Belongs(r)
      BY <2>1 DEF Undisturbed
    <3>3. userId[r.at] \in {NoAccount, r.at} /\ r.at \in Participant
      BY <3>2 DEF Undisturbed, AccountsAreOwn, RowType
    <3>4. r.user \in {NoAccount, userId[r.at]} => r.user \in {NoAccount, userId'[r.at]}
      BY <2>1, <3>3
    <3>5. HandedOver(r.user) => r.user \in {NoAccount, userId'[r.at]} \/ HandedOver(r.user)'
      <4>1. SUFFICES ASSUME NEW m \in Merger, merge[m].pc \in Handing,
                            merge[m].srcUser = r.user, userId[merge[m].src] = r.user,
                            r.user # NoAccount
                     PROVE  HandedOver(r.user)'
        BY DEF HandedOver
      <4>2. merge[m].src \in Participant
        BY DEF MergeType
      <4>3. userId'[merge[m].src] = r.user
        BY <2>1, <4>1, <4>2 DEF Undisturbed, AccountsAreOwn
      <4> QED
        BY <2>1, <4>1, <4>3 DEF HandedOver
    <3> QED
      BY <2>1, <3>2, <3>4, <3>5 DEF Belongs
  <2>4. ASSUME NEW m \in Merger, Active(m)'
        PROVE  Merging(m)'
    <3>1. Active(m) /\ Merging(m) /\ merge[m] \in MergeType
      BY <2>1, <2>4 DEF Active, Undisturbed
    <3>2. /\ userId'[merge[m].src] = userId[merge[m].src]
          /\ userId'[merge[m].tgt] = userId[merge[m].tgt]
      BY <2>1, <3>1, OutsideMerges DEF MergeType
    <3> QED
      BY <2>1, <3>1, <3>2 DEF Merging
  <2> QED
    BY <2>2, <2>3, <2>4 DEF Undisturbed
<1>2. ASSUME NEW p \in Participant, NEW k \in Kind, GetsRow(p, k)
      PROVE  Undisturbed'
  <2> DEFINE new == [kind |-> k, at |-> p, user |-> IF k = "attempt" THEN userId[p] ELSE NoAccount]
  <2>1. /\ ~InMerge(p) /\ p \notin merged /\ rows' = rows \cup {new}
        /\ UNCHANGED <<userId, merged, merge>>
    BY <1>2 DEF GetsRow
  <2>2. AccountsAreOwn' /\ MergedAreEmpty' /\ MergesAreApart'
    BY <2>1 DEF Undisturbed, AccountsAreOwn, MergedAreEmpty, MergesAreApart, Active
  <2>3. \A r \in rows' : Belongs(r)'
    BY <2>1 DEF Undisturbed, Belongs, HandedOver
  <2>4. ASSUME NEW m \in Merger, Active(m)'
        PROVE  Merging(m)'
    <3>1. Active(m) /\ Merging(m)
      BY <2>1, <2>4 DEF Active, Undisturbed
    <3>2. p # merge[m].src
      BY <2>1, <3>1, OutsideMerges
    <3> QED
      BY <2>1, <3>1, <3>2 DEF Merging
  <2> QED
    BY <2>2, <2>3, <2>4 DEF Undisturbed
<1> QED
  BY <1>1, <1>2

\* What follows for the other merges when one of them moves.
LEMMA OneMerges ==
    ASSUME MergeTypes, Undisturbed, NEW m \in Merger, Active(m), NEW c \in MergeType,
           c.src = merge[m].src, c.tgt = merge[m].tgt,
           merge' = [merge EXCEPT ![m] = c]
    PROVE  /\ MergesAreApart'
           /\ \A n \in Merger \ {m} : merge'[n] = merge[n]
           /\ merge'[m] = c
<1>1. /\ \A n \in Merger \ {m} : merge'[n] = merge[n]
      /\ merge'[m] = c
  BY DEF MergeTypes
<1>2. MergesAreApart
  BY DEF Undisturbed
<1>3. ASSUME NEW n \in Merger, NEW o \in Merger, n # o, Active(n)', Active(o)'
      PROVE  {merge'[n].src, merge'[n].tgt} \cap {merge'[o].src, merge'[o].tgt} = {}
  <2>1. Active(n) /\ Active(o)
    BY <1>1, <1>3 DEF Active
  <2>2. /\ merge'[n].src = merge[n].src /\ merge'[n].tgt = merge[n].tgt
        /\ merge'[o].src = merge[o].src /\ merge'[o].tgt = merge[o].tgt
    BY <1>1
  <2> QED
    BY <1>2, <1>3, <2>1, <2>2 DEF MergesAreApart
<1> QED
  BY <1>1, <1>3 DEF MergesAreApart

LEMMA MergingNow ==
    ASSUME NEW n \in Merger, NEW c, merge'[n] = c,
           c.src # c.tgt, c.src \notin merged', c.srcUser = userId'[c.src],
           c.pc # "reads" => /\ c.tgt \notin merged' /\ c.tgtUser = userId'[c.tgt]
                             /\ (c.srcUser = NoAccount \/ c.tgtUser = NoAccount),
           c.pc = "mark" => c.srcUser = NoAccount,
           \A r \in rows' : r.at = c.src => r.kind \notin Gone(c.pc)
    PROVE  Merging(n)'
BY DEF Merging

LEMMA StillMerging ==
    ASSUME NEW n \in Merger, Merging(n), merge'[n] = merge[n], userId' = userId,
           merge[n].src \notin merged', merge[n].pc # "reads" => merge[n].tgt \notin merged',
           \A r \in rows' : r.at = merge[n].src => r.kind \notin Gone(merge[n].pc)
    PROVE  Merging(n)'
BY DEF Merging

LEMMA StillHandedOver ==
    ASSUME NEW a, HandedOver(a), userId' = userId,
           \A n \in Merger : merge[n].pc \in Handing =>
               \/ a = NoAccount
               \/ /\ merge'[n].pc \in Handing
                  /\ merge'[n].src = merge[n].src /\ merge'[n].srcUser = merge[n].srcUser
    PROVE  a = NoAccount \/ HandedOver(a)'
BY DEF HandedOver

LEMMA StillBelongs ==
    ASSUME NEW r \in rows, Belongs(r), userId' = userId,
           \A n \in Merger : merge[n].pc \in Handing =>
               \/ r.user = NoAccount
               \/ /\ merge'[n].pc \in Handing
                  /\ merge'[n].src = merge[n].src /\ merge'[n].srcUser = merge[n].srcUser
    PROVE  Belongs(r)'
BY StillHandedOver DEF Belongs

LEMMA ReadSourceStep ==
    ASSUME MergeTypes, Undisturbed, ~overtaken', NEW m \in Merger,
           NEW s \in Participant, NEW t \in Participant, ReadSource(m, s, t)
    PROVE  Undisturbed'
<1> USE DEF MergeTypes
<1> DEFINE c == [pc |-> "reads", src |-> s, tgt |-> t, srcUser |-> userId[s],
                 tgtUser |-> NoAccount]
<1>1. /\ merge[m].pc = "idle" /\ s # t /\ s \notin merged /\ ~InMerge(s) /\ ~InMerge(t)
      /\ merge' = [merge EXCEPT ![m] = c] /\ UNCHANGED <<userId, rows, merged>>
  BY DEF ReadSource
<1>2. merge'[m] = c /\ \A n \in Merger \ {m} : merge'[n] = merge[n]
  BY <1>1
<1>3. AccountsAreOwn' /\ MergedAreEmpty'
  BY <1>1 DEF Undisturbed, AccountsAreOwn, MergedAreEmpty
<1>4. \A r \in rows' : Belongs(r)'
  <2>1. \A r \in rows : Belongs(r)
    BY DEF Undisturbed
  <2> QED
    BY <1>1, <1>2, <2>1, StillBelongs DEF Handing
<1>5. ASSUME NEW n \in Merger, Active(n)'
      PROVE  Merging(n)'
  <2>1. CASE n = m
    BY <1>1, <1>2, <2>1 DEF Merging, Gone
  <2>2. CASE n # m
    <3>1. Active(n) /\ Merging(n)
      BY <1>2, <1>5, <2>2 DEF Active, Undisturbed
    <3> QED
      BY <1>1, <1>2, <2>2, <3>1 DEF Merging
  <2> QED
    BY <2>1, <2>2
<1>6. MergesAreApart'
  <2>1. ASSUME NEW n \in Merger \ {m}, Active(n)'
        PROVE  {merge'[n].src, merge'[n].tgt} \cap {s, t} = {}
    <3>1. Active(n) /\ merge'[n] = merge[n]
      BY <1>2, <2>1 DEF Active
    <3> QED
      BY <1>1, <3>1, OutsideMerges
  <2>2. ASSUME NEW n \in Merger \ {m}, NEW o \in Merger \ {m}, n # o, Active(n)', Active(o)'
        PROVE  {merge'[n].src, merge'[n].tgt} \cap {merge'[o].src, merge'[o].tgt} = {}
    BY <1>2, <2>2 DEF Undisturbed, MergesAreApart, Active
  <2>3. merge'[m].src = s /\ merge'[m].tgt = t
    BY <1>2
  <2> QED
    BY <2>1, <2>2, <2>3 DEF MergesAreApart
<1> QED
  BY <1>3, <1>4, <1>5, <1>6 DEF Undisturbed

LEMMA ReadTargetStep ==
    ASSUME MergeTypes, Undisturbed, NEW m \in Merger, ReadTarget(m)
    PROVE  Undisturbed'
<1> USE DEF MergeTypes
<1>0. merge[m] \in MergeType /\ Active(m) /\ Merging(m) /\ merge[m].pc = "reads"
  BY DEF ReadTarget, Active, Ended, Undisturbed
<1> DEFINE t == merge[m].tgt
<1>1. PICK pc \in {"denied", "invite"} :
        /\ merge' = [merge EXCEPT ![m] = [merge[m] EXCEPT !.tgtUser = userId[t], !.pc = pc]]
        /\ pc = "invite" => t \notin merged /\ ~DifferentUsers(merge[m].srcUser, userId[t])
        /\ UNCHANGED <<userId, rows, merged>>
  BY DEF ReadTarget
<1> DEFINE c == [merge[m] EXCEPT !.tgtUser = userId[t], !.pc = pc]
<1>2. /\ c \in MergeType /\ c.src = merge[m].src /\ c.tgt = t /\ c.tgtUser = userId[t]
      /\ c.pc = pc /\ c.srcUser = merge[m].srcUser /\ t \in Participant
  BY <1>0 DEF MergeType, Ended, Kind
<1>3. /\ MergesAreApart' /\ merge'[m] = c
      /\ \A n \in Merger \ {m} : merge'[n] = merge[n]
  BY <1>0, <1>1, <1>2, OneMerges
<1>4. AccountsAreOwn' /\ MergedAreEmpty'
  BY <1>1 DEF Undisturbed, AccountsAreOwn, MergedAreEmpty
<1>5. \A r \in rows' : Belongs(r)'
  <2>1. \A r \in rows : Belongs(r)
    BY DEF Undisturbed
  <2> QED
    BY <1>0, <1>1, <1>3, <2>1, StillBelongs DEF Handing
<1>6. ASSUME NEW n \in Merger, Active(n)'
      PROVE  Merging(n)'
  <2>1. CASE n = m
    <3>1. c.pc = "invite"
      BY <1>2, <1>3, <1>6, <2>1 DEF Active, Ended
    <3>2. /\ t \notin merged /\ merge[m].srcUser = userId[merge[m].src]
          /\ merge[m].src # t /\ merge[m].src \notin merged
      BY <1>0, <1>1, <1>2, <3>1 DEF Merging
    <3>3. merge[m].srcUser = NoAccount \/ userId[t] = NoAccount
      <4>1. userId[t] \in {NoAccount, t}
        BY <1>2 DEF Undisturbed, AccountsAreOwn
      <4>2. userId[merge[m].src] \in {NoAccount, merge[m].src}
        BY <1>0 DEF Undisturbed, AccountsAreOwn, MergeType
      <4> QED
        BY <1>1, <1>2, <3>1, <3>2, <4>1, <4>2 DEF DifferentUsers
    <3> QED
      BY <1>1, <1>2, <1>3, <2>1, <3>1, <3>2, <3>3 DEF Merging, Gone
  <2>2. CASE n # m
    <3>1. Active(n) /\ Merging(n)
      BY <1>3, <1>6, <2>2 DEF Active, Undisturbed
    <3> QED
      BY <1>1, <1>3, <2>2, <3>1 DEF Merging
  <2> QED
    BY <2>1, <2>2
<1> QED
  BY <1>3, <1>4, <1>5, <1>6 DEF Undisturbed

LEMMA HandOverStep ==
    ASSUME MergeTypes, Undisturbed, NEW m \in Merger, HandOver(m)
    PROVE  Undisturbed'
<1> USE DEF MergeTypes
<1>0. merge[m] \in MergeType /\ Active(m) /\ Merging(m) /\ merge[m].pc \in Kind
  BY DEF HandOver, Active, Ended, Kind, Undisturbed
<1> DEFINE s == merge[m].src
           t == merge[m].tgt
           k == merge[m].pc
           moves(r) == r.kind = k /\ r.at = s
           c == [merge[m] EXCEPT !.pc = AfterKind[k]]
<1>1. /\ rows' = {r \in rows : ~moves(r)} \cup {[r EXCEPT !.at = t] : r \in {r \in rows : moves(r)}}
      /\ merge' = [merge EXCEPT ![m] = c] /\ UNCHANGED <<userId, merged>>
  BY DEF HandOver
<1>2. /\ c \in MergeType /\ c.src = s /\ c.tgt = t /\ c.pc = AfterKind[k]
      /\ c.srcUser = merge[m].srcUser /\ c.tgtUser = merge[m].tgtUser
      /\ c.pc \in {"session", "attempt", "update"}
  BY <1>0 DEF MergeType, Ended, Kind, AfterKind
<1>3. /\ MergesAreApart' /\ merge'[m] = c
      /\ \A n \in Merger \ {m} : merge'[n] = merge[n]
  BY <1>0, <1>1, <1>2, OneMerges
<1>4. /\ s # t /\ s \notin merged /\ t \notin merged /\ s \in Participant /\ t \in Participant
      /\ merge[m].srcUser = userId[s]
  BY <1>0 DEF Merging, MergeType, Kind
<1>5. ASSUME NEW r \in rows'
      PROVE  \E q \in rows : /\ r.kind = q.kind /\ r.user = q.user
                             /\ \/ r = q /\ ~moves(q)
                                \/ moves(q) /\ r.at = t
  <2>1. CASE r \in rows /\ ~moves(r)
    BY <2>1
  <2>2. CASE \E q \in rows : moves(q) /\ r = [q EXCEPT !.at = t]
    <3>1. PICK q \in rows : moves(q) /\ r = [q EXCEPT !.at = t]
      BY <2>2
    <3>2. q \in RowType
      OBVIOUS
    <3>3. r.kind = q.kind /\ r.user = q.user /\ r.at = t
      BY <3>1, <3>2 DEF RowType
    <3> QED
      BY <3>1, <3>3
  <2> QED
    BY <1>1, <1>5, <2>1, <2>2
<1>6. AccountsAreOwn' /\ MergedAreEmpty'
  <2>1. AccountsAreOwn /\ MergedAreEmpty
    BY DEF Undisturbed
  <2>2. AccountsAreOwn'
    BY <1>1, <2>1 DEF AccountsAreOwn
  <2>3. \A p \in merged, r \in rows' : r.at # p
    BY <1>4, <1>5, <2>1 DEF MergedAreEmpty
  <2> QED
    BY <1>1, <2>1, <2>2, <2>3 DEF MergedAreEmpty
<1>7. ASSUME NEW r \in rows'
      PROVE  Belongs(r)'
  <2>1. PICK q \in rows : /\ r.kind = q.kind /\ r.user = q.user
                          /\ \/ r = q /\ ~moves(q)
                             \/ moves(q) /\ r.at = t
    BY <1>5
  <2>2. Belongs(q)
    BY DEF Undisturbed
  <2>3. \A n \in Merger : merge[n].pc \in Handing =>
          /\ merge'[n].pc \in Handing
          /\ merge'[n].src = merge[n].src /\ merge'[n].srcUser = merge[n].srcUser
    BY <1>2, <1>3 DEF Handing
  <2>4. CASE r = q
    BY <1>1, <2>2, <2>3, <2>4, StillBelongs
  <2>5. CASE moves(q) /\ r.at = t
    <3>1. CASE q.user \in {NoAccount, userId[s]}
      <4>1. merge'[m].pc \in Handing /\ merge'[m].src = s /\ merge'[m].srcUser = userId'[s]
        BY <1>1, <1>2, <1>3, <1>4 DEF Handing
      <4> QED
        BY <1>1, <2>1, <3>1, <4>1 DEF Belongs, HandedOver
    <3>2. CASE q.user \notin {NoAccount, userId[s]}
      <4>1. HandedOver(q.user)
        BY <2>2, <2>5, <3>2 DEF Belongs
      <4>2. HandedOver(q.user)'
        BY <1>1, <2>3, <3>2, <4>1, StillHandedOver
      <4> QED
        BY <2>1, <4>2 DEF Belongs
    <3> QED
      BY <3>1, <3>2
  <2> QED
    BY <2>1, <2>4, <2>5
<1>8. ASSUME NEW n \in Merger, Active(n)'
      PROVE  Merging(n)'
  <2>1. CASE n = m
    <3>1. ASSUME NEW r \in rows', r.at = s
          PROVE  r.kind \notin Gone(AfterKind[k])
      <4>1. r \in rows /\ ~moves(r)
        BY <1>4, <1>5, <3>1
      <4>2. r.kind # k /\ r.kind \notin Gone(k)
        BY <1>0, <3>1, <4>1 DEF Merging
      <4>3. Gone(AfterKind[k]) \subseteq Gone(k) \cup {k}
        BY <1>0 DEF Gone, AfterKind, Kind
      <4> QED
        BY <4>2, <4>3
    <3>2. /\ k # "reads"
          /\ merge[m].tgtUser = userId[t]
          /\ merge[m].srcUser = NoAccount \/ merge[m].tgtUser = NoAccount
      BY <1>0 DEF Merging, Kind
    <3>3. /\ merge'[m].src = s /\ merge'[m].tgt = t /\ merge'[m].srcUser = merge[m].srcUser
          /\ merge'[m].tgtUser = merge[m].tgtUser /\ merge'[m].pc = AfterKind[k]
          /\ merge'[m].pc # "mark"
      BY <1>2, <1>3
    <3>4. \A r \in rows' : r.at = merge'[m].src => r.kind \notin Gone(merge'[m].pc)
      BY <3>1, <3>3
    <3> HIDE DEF c, s, t, k
    <3>5. /\ merge'[m].src # merge'[m].tgt /\ merge'[m].src \notin merged'
          /\ merge'[m].srcUser = userId'[merge'[m].src]
          /\ merge'[m].tgt \notin merged' /\ merge'[m].tgtUser = userId'[merge'[m].tgt]
          /\ merge'[m].srcUser = NoAccount \/ merge'[m].tgtUser = NoAccount
      BY <1>1, <1>4, <3>2, <3>3
    <3> QED
      BY <2>1, <3>3, <3>4, <3>5 DEF Merging
  <2>2. CASE n # m
    <3>1. Active(n) /\ Merging(n) /\ merge'[n] = merge[n]
      BY <1>3, <1>8, <2>2 DEF Active, Undisturbed
    <3>2. t # merge[n].src
      BY <1>0, <2>2, <3>1 DEF Undisturbed, MergesAreApart
    <3>3. \A r \in rows' : r.at = merge[n].src => r.kind \notin Gone(merge[n].pc)
      BY <1>5, <3>1, <3>2 DEF Merging
    <3>4. merge[n].src \notin merged' /\ (merge[n].pc # "reads" => merge[n].tgt \notin merged')
      BY <1>1, <3>1 DEF Merging
    <3> QED
      BY <1>1, <3>1, <3>3, <3>4, StillMerging
  <2> QED
    BY <2>1, <2>2
<1> QED
  BY <1>3, <1>6, <1>7, <1>8 DEF Undisturbed

LEMMA UpdateTargetStep ==
    ASSUME MergeTypes, Undisturbed, NEW m \in Merger, UpdateTarget(m), merge'[m].pc # "stopped"
    PROVE  Undisturbed'
<1> USE DEF MergeTypes
<1>0. merge[m] \in MergeType /\ Active(m) /\ Merging(m) /\ merge[m].pc = "update"
  BY DEF UpdateTarget, Active, Ended, Kind, Undisturbed
<1> DEFINE s == merge[m].src
           t == merge[m].tgt
           a == IF merge[m].tgtUser # NoAccount THEN merge[m].tgtUser ELSE merge[m].srcUser
           c == [merge[m] EXCEPT !.pc = "mark"]
<1>1. /\ userId' = [userId EXCEPT ![t] = a] /\ merge' = [merge EXCEPT ![m] = c]
      /\ UNCHANGED <<rows, merged>>
      /\ a # NoAccount => \A p \in Participant \ {t} : userId[p] # a
  <2> DEFINE taken == a # NoAccount /\ \E p \in Participant \ {t} : userId[p] = a
  <2>1. /\ userId' = IF taken THEN userId ELSE [userId EXCEPT ![t] = a]
        /\ merge' = [merge EXCEPT
              ![m] = [merge[m] EXCEPT !.pc = IF taken THEN "stopped" ELSE "mark"]]
        /\ UNCHANGED <<rows, merged>>
    BY DEF UpdateTarget
  <2> HIDE DEF a, taken
  <2>2. ~taken
    BY <1>0, <2>1 DEF MergeType
  <2> USE DEF taken
  <2> QED
    BY <2>1, <2>2
<1>2. /\ c \in MergeType /\ c.src = s /\ c.tgt = t /\ c.pc = "mark"
      /\ c.srcUser = merge[m].srcUser /\ c.tgtUser = merge[m].tgtUser
  BY <1>0 DEF MergeType
<1>3. /\ MergesAreApart' /\ merge'[m] = c
      /\ \A n \in Merger \ {m} : merge'[n] = merge[n]
  BY <1>0, <1>1, <1>2, OneMerges
<1>4. /\ s # t /\ s \in Participant /\ t \in Participant /\ merge[m].srcUser = userId[s]
      /\ merge[m].tgtUser = userId[t]
      /\ merge[m].srcUser = NoAccount \/ merge[m].tgtUser = NoAccount
  BY <1>0 DEF Merging, MergeType
<1>5. merge[m].srcUser = NoAccount
  BY <1>1, <1>4
<1>6. userId' = userId
  BY <1>1, <1>4, <1>5
<1>7. AccountsAreOwn' /\ MergedAreEmpty'
  BY <1>1, <1>6 DEF Undisturbed, AccountsAreOwn, MergedAreEmpty
<1>8. ASSUME NEW r \in rows'
      PROVE  Belongs(r)'
  <2>1. Belongs(r)
    BY <1>1 DEF Undisturbed
  <2>2. \A n \in Merger : merge[n].pc \in Handing =>
          /\ merge'[n].pc \in Handing
          /\ merge'[n].src = merge[n].src /\ merge'[n].srcUser = merge[n].srcUser
    BY <1>2, <1>3 DEF Handing
  <2> QED
    BY <1>1, <1>6, <2>1, <2>2, StillBelongs
<1>9. ASSUME NEW n \in Merger, Active(n)'
      PROVE  Merging(n)'
  <2>1. CASE n = m
    <3>1. Gone("mark") = Gone("update")
      BY DEF Gone
    <3>2. \A r \in rows : r.at = s => r.kind \notin Gone("mark")
      BY <1>0, <3>1 DEF Merging
    <3>3. /\ merge'[m].src = s /\ merge'[m].tgt = t /\ merge'[m].pc = "mark"
          /\ merge'[m].srcUser = merge[m].srcUser /\ merge'[m].tgtUser = merge[m].tgtUser
      BY <1>2, <1>3
    <3>4. s \notin merged /\ t \notin merged
      BY <1>0 DEF Merging
    <3> HIDE DEF c, s, t, a
    <3>5. /\ merge'[m].src # merge'[m].tgt /\ merge'[m].src \notin merged'
          /\ merge'[m].srcUser = userId'[merge'[m].src] /\ merge'[m].tgt \notin merged'
          /\ merge'[m].tgtUser = userId'[merge'[m].tgt] /\ merge'[m].srcUser = NoAccount
      BY <1>1, <1>4, <1>5, <1>6, <3>3, <3>4
    <3>6. \A r \in rows' : r.at = merge'[m].src => r.kind \notin Gone(merge'[m].pc)
      BY <1>1, <3>2, <3>3
    <3> QED
      BY <2>1, <3>5, <3>6, MergingNow
  <2>2. CASE n # m
    <3>1. Active(n) /\ Merging(n) /\ merge'[n] = merge[n]
      BY <1>3, <1>9, <2>2 DEF Active, Undisturbed
    <3>2. \A r \in rows' : r.at = merge[n].src => r.kind \notin Gone(merge[n].pc)
      BY <1>1, <3>1 DEF Merging
    <3>3. merge[n].src \notin merged' /\ (merge[n].pc # "reads" => merge[n].tgt \notin merged')
      BY <1>1, <3>1 DEF Merging
    <3> QED
      BY <1>6, <3>1, <3>2, <3>3, StillMerging
  <2> QED
    BY <2>1, <2>2
<1> QED
  BY <1>3, <1>7, <1>8, <1>9 DEF Undisturbed

LEMMA MarkMergedStep ==
    ASSUME MergeTypes, Undisturbed, NEW m \in Merger, MarkMerged(m)
    PROVE  Undisturbed'
<1> USE DEF MergeTypes
<1>0. merge[m] \in MergeType /\ Active(m) /\ Merging(m) /\ merge[m].pc = "mark"
  BY DEF MarkMerged, Active, Ended, Kind, Undisturbed
<1> DEFINE s == merge[m].src
           c == [merge[m] EXCEPT !.pc = "done"]
<1>1. /\ merged' = merged \cup {s} /\ merge' = [merge EXCEPT ![m] = c]
      /\ UNCHANGED <<userId, rows>>
  BY DEF MarkMerged
<1>2. /\ c \in MergeType /\ c.src = s /\ c.tgt = merge[m].tgt /\ c.pc = "done"
  BY <1>0 DEF MergeType, Ended
<1>3. /\ MergesAreApart' /\ merge'[m] = c
      /\ \A n \in Merger \ {m} : merge'[n] = merge[n]
  BY <1>0, <1>1, <1>2, OneMerges
<1>4. /\ userId[s] = NoAccount /\ merge[m].srcUser = NoAccount
      /\ \A r \in rows : r.at # s
  <2>1. Gone("mark") = Kind /\ \A r \in rows : r.kind \in Kind
    BY DEF Gone, RowType
  <2> QED
    BY <1>0, <2>1 DEF Merging
<1>5. AccountsAreOwn' /\ MergedAreEmpty'
  BY <1>1, <1>4 DEF Undisturbed, AccountsAreOwn, MergedAreEmpty
<1>6. ASSUME NEW r \in rows'
      PROVE  Belongs(r)'
  <2>1. Belongs(r)
    BY <1>1 DEF Undisturbed
  <2>2. CASE r.user \in {NoAccount, userId[r.at]}
    BY <1>1, <2>2 DEF Belongs
  <2>3. CASE r.user # NoAccount /\ HandedOver(r.user)
    <3>1. PICK n \in Merger : /\ merge[n].pc \in Handing /\ merge[n].srcUser = r.user
                              /\ userId[merge[n].src] = r.user
      BY <2>3 DEF HandedOver
    <3>2. merge'[n] = merge[n]
      BY <1>3, <1>4, <2>3, <3>1
    <3> QED
      BY <1>1, <3>1, <3>2 DEF Belongs, HandedOver
  <2> QED
    BY <2>1, <2>2, <2>3 DEF Belongs
<1>7. ASSUME NEW n \in Merger, Active(n)'
      PROVE  Merging(n)'
  <2>1. n # m
    BY <1>2, <1>3, <1>7 DEF Active, Ended
  <2>2. Active(n) /\ Merging(n) /\ merge'[n] = merge[n]
    BY <1>3, <1>7, <2>1 DEF Active, Undisturbed
  <2>3. s # merge[n].src /\ s # merge[n].tgt
    BY <1>0, <2>1, <2>2 DEF Undisturbed, MergesAreApart
  <2> QED
    BY <1>1, <2>2, <2>3 DEF Merging
<1> QED
  BY <1>3, <1>5, <1>6, <1>7 DEF Undisturbed

\* A merge that stops, wherever it is, leaves things as they are.
LEMMA StopStep ==
    ASSUME MergeTypes, Undisturbed, NEW m \in Merger, Active(m),
           merge' = [merge EXCEPT ![m] = [merge[m] EXCEPT !.pc = "stopped"]],
           UNCHANGED <<userId, rows, merged>>
    PROVE  Undisturbed'
<1> USE DEF MergeTypes
<1> DEFINE c == [merge[m] EXCEPT !.pc = "stopped"]
<1>1. /\ c \in MergeType /\ c.src = merge[m].src /\ c.tgt = merge[m].tgt /\ c.pc = "stopped"
      /\ c.srcUser = merge[m].srcUser
  BY DEF MergeType, Ended
<1>2. /\ MergesAreApart' /\ merge'[m] = c
      /\ \A n \in Merger \ {m} : merge'[n] = merge[n]
  BY <1>1, OneMerges
<1>3. AccountsAreOwn' /\ MergedAreEmpty'
  BY DEF Undisturbed, AccountsAreOwn, MergedAreEmpty
<1>4. ASSUME NEW r \in rows'
      PROVE  Belongs(r)'
  <2>1. r \in rows /\ Belongs(r)
    BY DEF Undisturbed
  <2>2. \A n \in Merger : merge[n].pc \in Handing =>
          /\ merge'[n].pc \in Handing
          /\ merge'[n].src = merge[n].src /\ merge'[n].srcUser = merge[n].srcUser
    BY <1>1, <1>2 DEF Handing
  <2> QED
    BY <2>1, <2>2, StillBelongs
<1>5. ASSUME NEW n \in Merger, Active(n)'
      PROVE  Merging(n)'
  <2>1. n # m
    BY <1>1, <1>2, <1>5 DEF Active, Ended
  <2>2. Active(n) /\ Merging(n) /\ merge'[n] = merge[n]
    BY <1>2, <1>5, <2>1 DEF Active, Undisturbed
  <2>3. /\ merge[n].src \notin merged' /\ (merge[n].pc # "reads" => merge[n].tgt \notin merged')
        /\ \A r \in rows' : r.at = merge[n].src => r.kind \notin Gone(merge[n].pc)
    BY <2>2 DEF Merging
  <2> QED
    BY <2>2, <2>3, StillMerging
<1> QED
  BY <1>2, <1>3, <1>4, <1>5 DEF Undisturbed

LEMMA MergeStep == MergeIInv /\ [MergeNext]_mergeVars => MergeIInv'
<1> SUFFICES ASSUME MergeIInv, [MergeNext]_mergeVars, ~overtaken' PROVE Undisturbed'
  BY MergeTypeStep DEF MergeIInv
<1>0. ~overtaken
  BY DEF MergeNext, BindsAccount, GetsRow, ReadSource, ReadTarget, HandOver, UpdateTarget,
         MarkMerged, MergeStops, mergeVars
<1>1. MergeTypes /\ Undisturbed
  BY <1>0 DEF MergeIInv
<1>2. ASSUME NEW m \in Merger, UpdateTarget(m) PROVE Undisturbed'
  <2>1. CASE merge'[m].pc = "stopped"
    <3>1. Active(m) /\ merge[m] \in MergeType
      BY <1>1, <1>2 DEF UpdateTarget, Active, Ended, MergeTypes
    <3>2. /\ merge' = [merge EXCEPT ![m] = [merge[m] EXCEPT !.pc = "stopped"]]
          /\ UNCHANGED <<userId, rows, merged>>
      <4> DEFINE t == merge[m].tgt
                 a == IF merge[m].tgtUser # NoAccount THEN merge[m].tgtUser ELSE merge[m].srcUser
                 taken == a # NoAccount /\ \E p \in Participant \ {t} : userId[p] = a
      <4>1. /\ userId' = IF taken THEN userId ELSE [userId EXCEPT ![t] = a]
            /\ merge' = [merge EXCEPT
                  ![m] = [merge[m] EXCEPT !.pc = IF taken THEN "stopped" ELSE "mark"]]
            /\ UNCHANGED <<rows, merged>>
        BY <1>2 DEF UpdateTarget
      <4> HIDE DEF a, taken
      <4> QED
        BY <1>1, <2>1, <3>1, <4>1 DEF MergeTypes, MergeType
    <3> QED
      BY <1>1, <3>1, <3>2, StopStep
  <2>2. CASE merge'[m].pc # "stopped"
    BY <1>1, <1>2, <2>2, UpdateTargetStep
  <2> QED
    BY <2>1, <2>2
<1>3. ASSUME NEW m \in Merger, MergeStops(m) PROVE Undisturbed'
  BY <1>1, <1>3, StopStep DEF MergeStops, Active
<1>4. CASE UNCHANGED mergeVars
  BY <1>1, <1>4 DEF mergeVars, Undisturbed, AccountsAreOwn, MergedAreEmpty, MergesAreApart,
                    Belongs, HandedOver, Merging, Active
<1> QED
  BY <1>1, <1>2, <1>3, <1>4, OthersStep, ReadSourceStep, ReadTargetStep, HandOverStep,
     MarkMergedStep DEF MergeNext

\* For any number of participants and of merges at the same time: merges nobody overtook,
\* done or stopped after any of their statements, lost nothing, and only the attempts of an
\* account whose merge stopped, and which its own participant still has, are with another
\* participant (mergeParticipants).
THEOREM MergesLoseNothing == MergeSpec => []MergeLosesNothing
<1>1. MergeSpec => []MergeIInv
  BY MergeInitHolds, MergeStep, PTL DEF MergeSpec
<1>2. MergeIInv => MergeLosesNothing
  <2> SUFFICES ASSUME MergeIInv, ~overtaken, \A m \in Merger : merge[m].pc \in Ended
               PROVE  /\ \A r \in rows :
                           /\ r.at \notin merged
                           /\ r.user \in {NoAccount, userId[r.at]} \/ LeftBehind(r.user)
                      /\ \A p \in merged : userId[p] = NoAccount
    BY DEF MergeLosesNothing
  <2>1. Undisturbed
    BY DEF MergeIInv
  <2>2. \A r \in rows : r.user \in {NoAccount, userId[r.at]} \/ LeftBehind(r.user)
    BY <2>1 DEF Undisturbed, Belongs, HandedOver, Handing, LeftBehind, Ended
  <2> QED
    BY <2>1, <2>2 DEF Undisturbed, MergedAreEmpty
<1> QED
  BY <1>1, <1>2, PTL

\* For any number of participants and of merges: the types of the merging model.
THEOREM MergeKeepsTypes == MergeSpec => []MergeTypeOK
<1>1. MergeInit => overtaken \in BOOLEAN
  BY DEF MergeInit
<1>2. overtaken \in BOOLEAN /\ [MergeNext]_mergeVars => (overtaken \in BOOLEAN)'
  BY DEF MergeNext, BindsAccount, GetsRow, ReadSource, ReadTarget, HandOver, UpdateTarget,
         MarkMerged, MergeStops, mergeVars
<1>3. MergeIInv /\ overtaken \in BOOLEAN => MergeTypeOK
  BY DEF MergeIInv, MergeTypes, MergeType, RowType, MergeTypeOK
<1> QED
  BY <1>1, <1>2, <1>3, MergeInitHolds, MergeStep, PTL DEF MergeSpec

-----------------------------------------------------------------------------
(* The sessions and audits of AccountSessions.                                 *)

\* A login that may still leave a token behind, or has one.
Alive(l) == token[l] = "live" \/ login[l].pc \in {"verified", "known"}

\* The request that replaced the password a login has read, and has revoked nothing.
Replaced(l) == \E c \in Change : /\ change[c].user = login[l].user
                                 /\ change[c].pc \in {"revoke", "stopped"}
                                 /\ change[c].made > login[l].read

AccountIInv ==
    /\ AccountTypeOK
    /\ \A c \in Change : change[c].pc # "new" => change[c].user \in User
    /\ \A l \in Login : login[l].pc # "new" => login[l].user \in User
    /\ \A l \in Login : token[l] # "none" => login[l].pc = "ended"
    /\ \A l \in Login : Alive(l) /\ login[l].read < password[login[l].user] =>
                           l \in overlapped \/ Replaced(l)
    /\ AuditsMove

LEMMA AccountInitHolds == AccountInit => AccountIInv
<1> SUFFICES ASSUME AccountInit PROVE AccountIInv
  OBVIOUS
<1>1. AccountTypeOK
  <2>1. /\ password \in [User -> Nat]
        /\ token \in [Login -> {"none", "live", "expired", "revoked"}]
    BY DEF AccountInit
  <2>2. login \in [Login -> [pc : {"new", "verified", "known", "ended"},
                            user : User \cup {NoUser}, read : Nat]]
    BY DEF AccountInit
  <2>3. change \in [Change -> [pc : {"new", "update", "revoke", "ended", "stopped"},
                              user : User \cup {NoUser}, code : BOOLEAN, made : Nat]]
    BY DEF AccountInit
  <2>4. activeAudits \in 0..AuditConcurrency
    BY AccountsAssumption DEF AccountInit
  <2>5. drainScheduled \in BOOLEAN
    BY Zenon DEF AccountInit
  <2> QED
    BY <2>1, <2>2, <2>3, <2>4, <2>5 DEF AccountInit, AccountTypeOK
<1>2. \A l \in Login : login[l].pc = "new" /\ token[l] = "none"
  BY DEF AccountInit
<1>3. \A c \in Change : change[c].pc = "new"
  BY DEF AccountInit
<1> QED
  BY <1>1, <1>2, <1>3 DEF AccountInit, AccountIInv, AuditsMove, Alive

LEMMA AuditStep ==
  ASSUME AccountIInv, NEW u \in User, recordLastLogin(u)
  PROVE  /\ pendingAudits' \subseteq User /\ activeAudits' = activeAudits
         /\ drainScheduled' \in BOOLEAN /\ AuditsMove'
BY DEF AccountIInv, AccountTypeOK, AuditsMove, recordLastLogin, auditVars

LEMMA RevokeStep ==
  ASSUME AccountIInv, NEW u \in User, revokeAllUserTokens(u)
  PROVE  /\ token' \in [Login -> {"none", "live", "expired", "revoked"}]
         /\ overlapped' \subseteq Login /\ overlapped \subseteq overlapped'
         /\ \A l \in Login : token'[l] # "none" <=> token[l] # "none"
         /\ \A l \in Login : token'[l] = "live" => token[l] = "live" /\ login[l].user # u
         /\ \A l \in Login : login[l].user = u /\ login[l].pc \in {"verified", "known"} =>
                                 l \in overlapped'
BY DEF AccountIInv, AccountTypeOK, revokeAllUserTokens

LEMMA AccountStep == AccountIInv /\ [AccountNext]_accountVars => AccountIInv'
<1> SUFFICES ASSUME AccountIInv, [AccountNext]_accountVars PROVE AccountIInv'
  OBVIOUS
<1> USE AccountsAssumption DEF AccountIInv, AccountTypeOK
<1>1. ASSUME NEW l \in Login, NEW u \in User, LoginReads(l, u) PROVE AccountIInv'
  <2>1. PICK pc \in {"verified", "known"} :
          login' = [login EXCEPT ![l] = [pc |-> pc, user |-> u, read |-> password[u]]]
    BY <1>1 DEF LoginReads
  <2>2. AccountTypeOK' /\ AuditsMove'
    BY <1>1, <2>1 DEF LoginReads, auditVars, AuditsMove
  <2>3. ASSUME NEW k \in Login, Alive(k)', login'[k].read < password'[login'[k].user]
        PROVE  k \in overlapped' \/ Replaced(k)'
    <3>1. CASE k = l
      BY <1>1, <2>1, <2>3, <3>1 DEF LoginReads
    <3>2. CASE k # l
      BY <1>1, <2>1, <2>3, <3>2 DEF LoginReads, Alive, Replaced
    <3> QED
      BY <3>1, <3>2
  <2> QED
    BY <1>1, <2>1, <2>2, <2>3 DEF LoginReads
<1>2. ASSUME NEW l \in Login, LoginEnds(l) \/ GoogleLoginEnds(l) PROVE AccountIInv'
  <2>1. /\ login' = [login EXCEPT ![l].pc = "ended"]
        /\ token' = [token EXCEPT ![l] = "live"]
        /\ UNCHANGED <<password, change, otpStore, overlapped>>
        /\ login[l].pc \in {"verified", "known"} /\ login[l].user \in User
    BY <1>2 DEF LoginEnds, GoogleLoginEnds, CreateToken
  <2>2. /\ pendingAudits' \subseteq User /\ activeAudits' = activeAudits
        /\ drainScheduled' \in BOOLEAN /\ AuditsMove'
    <3>1. CASE LoginEnds(l)
      BY <2>1, <3>1, AuditStep DEF LoginEnds
    <3>2. CASE GoogleLoginEnds(l)
      BY <3>2 DEF GoogleLoginEnds, auditVars, AuditsMove
    <3> QED
      BY <1>2, <3>1, <3>2
  <2>3. AccountTypeOK'
    BY <2>1, <2>2
  <2>4. \A k \in Login : /\ login'[k].user = login[k].user /\ login'[k].read = login[k].read
                         /\ Alive(k)' => Alive(k)
    BY <2>1 DEF Alive
  <2>5. ASSUME NEW k \in Login, Alive(k)', login'[k].read < password'[login'[k].user]
        PROVE  k \in overlapped' \/ Replaced(k)'
    BY <2>1, <2>4, <2>5 DEF Replaced
  <2>6. \A k \in Login : /\ login'[k].pc # "new" => login'[k].user \in User
                         /\ token'[k] # "none" => login'[k].pc = "ended"
    BY <2>1
  <2>7. \A c \in Change : change'[c].pc # "new" => change'[c].user \in User
    BY <2>1
  <2> QED
    BY <2>2, <2>3, <2>5, <2>6, <2>7
<1>3. ASSUME NEW l \in Login, TokenExpires(l) \/ refreshToken(l) \/ logout(l) PROVE AccountIInv'
  <2>1. PICK t \in {"expired", "revoked"} :
          /\ token' = [token EXCEPT ![l] = t] /\ token[l] # "none"
          /\ UNCHANGED <<password, login, change, otpStore, auditVars, overlapped>>
    BY <1>3 DEF TokenExpires, refreshToken, logout
  <2>2. \A k \in Login : Alive(k)' => Alive(k)
    BY <2>1 DEF Alive
  <2>3. ASSUME NEW k \in Login, Alive(k)', login'[k].read < password'[login'[k].user]
        PROVE  k \in overlapped' \/ Replaced(k)'
    BY <2>1, <2>2, <2>3 DEF Replaced
  <2>4. AccountTypeOK' /\ AuditsMove'
    BY <2>1 DEF auditVars, AuditsMove
  <2> QED
    BY <2>1, <2>3, <2>4
<1>4. ASSUME NEW u \in User, logoutAll(u) PROVE AccountIInv'
  <2>1. /\ revokeAllUserTokens(u)
        /\ UNCHANGED <<password, login, change, otpStore, auditVars>>
    BY <1>4 DEF logoutAll
  <2>2. AccountTypeOK' /\ AuditsMove'
    BY <2>1, RevokeStep DEF auditVars, AuditsMove
  <2>3. ASSUME NEW k \in Login, Alive(k)', login'[k].read < password'[login'[k].user]
        PROVE  k \in overlapped' \/ Replaced(k)'
    BY <2>1, <2>3, RevokeStep DEF Alive, Replaced
  <2> QED
    BY <2>1, <2>2, <2>3, RevokeStep
<1>5. ASSUME NEW u \in User, SendResetCode(u) \/ CodeRejected(u) PROVE AccountIInv'
  <2>1. /\ otpStore' \subseteq User
        /\ UNCHANGED <<password, token, login, change, auditVars, overlapped>>
    BY <1>5 DEF SendResetCode, CodeRejected
  <2> QED
    BY <2>1 DEF auditVars, AuditsMove, Alive, Replaced
<1>6. ASSUME NEW c \in Change, NEW u \in User, ChangeReads(c, u) \/ ResetReads(c, u)
     PROVE  AccountIInv'
  <2>1. /\ change[c].pc = "new" /\ change'[c].pc = "update" /\ change'[c].user = u
        /\ change'[c].made = change[c].made
        /\ \A d \in Change \ {c} : change'[d] = change[d]
        /\ otpStore' \subseteq User
        /\ UNCHANGED <<password, token, login, auditVars, overlapped>>
    BY <1>6 DEF ChangeReads, ResetReads
  <2>2. change' \in [Change -> [pc : {"new", "update", "revoke", "ended", "stopped"},
                              user : User \cup {NoUser}, code : BOOLEAN, made : Nat]]
    BY <1>6 DEF ChangeReads, ResetReads
  <2>3. ASSUME NEW k \in Login, Alive(k)', login'[k].read < password'[login'[k].user]
        PROVE  k \in overlapped' \/ Replaced(k)'
    <3>1. CASE k \in overlapped
      BY <2>1, <3>1
    <3>2. CASE Replaced(k)
      <4>1. PICK d \in Change : /\ change[d].user = login[k].user
                               /\ change[d].pc \in {"revoke", "stopped"}
                               /\ change[d].made > login[k].read
        BY <3>2 DEF Replaced
      <4>2. d # c /\ change'[d] = change[d]
        BY <2>1, <4>1
      <4> QED
        BY <2>1, <4>1, <4>2 DEF Replaced
    <3> QED
      BY <2>1, <2>3, <3>1, <3>2 DEF Alive
  <2> QED
    BY <2>1, <2>2, <2>3 DEF auditVars, AuditsMove
<1>7. ASSUME NEW c \in Change, UpdatePassword(c) PROVE AccountIInv'
  <2> DEFINE u == change[c].user
  <2>1. /\ u \in User /\ change[c].pc = "update"
        /\ change'[c].pc = "revoke" /\ change'[c].user = u
        /\ change'[c].made = password[u] + 1
        /\ \A d \in Change \ {c} : change'[d] = change[d]
        /\ otpStore' \subseteq User
        /\ password' = [password EXCEPT ![u] = @ + 1]
        /\ UNCHANGED <<token, login, auditVars, overlapped>>
    BY <1>7 DEF UpdatePassword
  <2>2. change' \in [Change -> [pc : {"new", "update", "revoke", "ended", "stopped"},
                              user : User \cup {NoUser}, code : BOOLEAN, made : Nat]]
    <3>1. password[u] + 1 \in Nat
      BY <2>1
    <3>2. PICK n \in Nat : change' = [change EXCEPT ![c].pc = "revoke", ![c].made = n]
      BY <1>7, <3>1, Zenon DEF UpdatePassword
    <3>3. change \in [Change -> [pc : {"new", "update", "revoke", "ended", "stopped"},
                                user : User \cup {NoUser}, code : BOOLEAN, made : Nat]]
      OBVIOUS
    <3> HIDE DEF AccountIInv, AccountTypeOK, u
    <3> QED
      BY ONLY <3>2, <3>3, n \in Nat, c \in Change
  <2>3. password' \in [User -> Nat]
    BY <2>1
  <2>4. ASSUME NEW k \in Login, Alive(k)', login'[k].read < password'[login'[k].user]
        PROVE  k \in overlapped' \/ Replaced(k)'
    <3>1. login[k].user \in User
      BY <2>1, <2>4 DEF Alive
    <3>2. CASE login[k].user = u
      BY <2>1, <2>4, <3>2 DEF Replaced
    <3>3. CASE login[k].user # u
      <4>1. k \in overlapped \/ Replaced(k)
        BY <2>1, <2>4, <3>1, <3>3 DEF Alive
      <4>2. ASSUME Replaced(k) PROVE Replaced(k)'
        <5>1. PICK d \in Change : /\ change[d].user = login[k].user
                                 /\ change[d].pc \in {"revoke", "stopped"}
                                 /\ change[d].made > login[k].read
          BY <4>2 DEF Replaced
        <5>2. change'[d] = change[d]
          BY <2>1, <5>1
        <5> QED
          BY <2>1, <5>1, <5>2 DEF Replaced
      <4> QED
        BY <2>1, <4>1, <4>2
    <3> QED
      BY <3>2, <3>3
  <2> QED
    BY <2>1, <2>2, <2>3, <2>4 DEF auditVars, AuditsMove
<1>8. ASSUME NEW c \in Change, RevokeSessions(c) PROVE AccountIInv'
  <2> DEFINE u == change[c].user
  <2>1. /\ u \in User /\ revokeAllUserTokens(u)
        /\ change'[c].pc = "ended" /\ change'[c].user = u
        /\ \A d \in Change \ {c} : change'[d] = change[d]
        /\ UNCHANGED <<password, login, otpStore, auditVars>>
    BY <1>8 DEF RevokeSessions
  <2>2. change' \in [Change -> [pc : {"new", "update", "revoke", "ended", "stopped"},
                              user : User \cup {NoUser}, code : BOOLEAN, made : Nat]]
    BY <1>8 DEF RevokeSessions
  <2>3. ASSUME NEW k \in Login, Alive(k)', login'[k].read < password'[login'[k].user]
        PROVE  k \in overlapped' \/ Replaced(k)'
    <3>1. CASE login[k].user = u
      BY <2>1, <2>3, <3>1, RevokeStep DEF Alive
    <3>2. CASE login[k].user # u
      <4>1. k \in overlapped \/ Replaced(k)
        BY <2>1, <2>3, RevokeStep DEF Alive
      <4>2. ASSUME Replaced(k) PROVE Replaced(k)'
        <5>1. PICK d \in Change : /\ change[d].user = login[k].user
                                 /\ change[d].pc \in {"revoke", "stopped"}
                                 /\ change[d].made > login[k].read
          BY <4>2 DEF Replaced
        <5>2. d # c /\ change'[d] = change[d]
          BY <2>1, <3>2, <5>1
        <5> QED
          BY <2>1, <5>1, <5>2 DEF Replaced
      <4> QED
        BY <2>1, <4>1, <4>2, RevokeStep
    <3> QED
      BY <3>1, <3>2
  <2> QED
    BY <2>1, <2>2, <2>3, RevokeStep DEF auditVars, AuditsMove
<1>9. ASSUME NEW c \in Change, ChangeStops(c) PROVE AccountIInv'
  <2>1. /\ change[c].pc \in {"update", "revoke"}
        /\ change'[c].pc = "stopped" /\ change'[c].user = change[c].user
        /\ change'[c].made = change[c].made
        /\ \A d \in Change \ {c} : change'[d] = change[d]
        /\ UNCHANGED <<password, token, login, otpStore, auditVars, overlapped>>
    BY <1>9 DEF ChangeStops
  <2>2. change' \in [Change -> [pc : {"new", "update", "revoke", "ended", "stopped"},
                              user : User \cup {NoUser}, code : BOOLEAN, made : Nat]]
    BY <1>9 DEF ChangeStops
  <2>3. ASSUME NEW k \in Login, Replaced(k) PROVE Replaced(k)'
    BY <2>1, <2>3 DEF Replaced
  <2> QED
    BY <2>1, <2>2, <2>3 DEF auditVars, AuditsMove, Alive
<1>10. CASE drainLastLoginAuditQueue
  <2>1. PICK taken \in SUBSET pendingAudits :
          /\ activeAudits + Cardinality(taken) <= AuditConcurrency
          /\ taken = pendingAudits \/ activeAudits + Cardinality(taken) = AuditConcurrency
          /\ pendingAudits' = pendingAudits \ taken
          /\ activeAudits' = activeAudits + Cardinality(taken)
    BY <1>10 DEF drainLastLoginAuditQueue
  <2>2. Cardinality(taken) \in Nat
    BY <2>1, FS_Subset, FS_CardinalityType
  <2>3. /\ UNCHANGED <<password, token, login, change, otpStore, overlapped>>
        /\ drainScheduled' = FALSE
    BY <1>10 DEF drainLastLoginAuditQueue
  <2>4. activeAudits' \in 0..AuditConcurrency /\ pendingAudits' \subseteq User /\ AuditsMove'
    BY <2>1, <2>2 DEF AuditsMove
  <2>5. AccountTypeOK'
    BY <2>3, <2>4
  <2> QED
    BY <2>3, <2>4, <2>5 DEF Alive, Replaced
<1>11. CASE AuditEnds
  <2>1. /\ UNCHANGED <<password, token, login, change, otpStore, pendingAudits, overlapped>>
    BY <1>11 DEF AuditEnds
  <2>2. activeAudits' \in 0..AuditConcurrency
    BY <1>11 DEF AuditEnds
  <2>3. drainScheduled' \in BOOLEAN /\ (pendingAudits # {} => drainScheduled')
    BY <1>11, Zenon DEF AuditEnds
  <2>4. AccountTypeOK' /\ AuditsMove'
    BY <2>1, <2>2, <2>3 DEF AuditsMove
  <2> QED
    BY <2>1, <2>4 DEF Alive, Replaced
<1>12. CASE ProcessEnds
  <2>1. \A l \in Login : /\ login'[l].user = login[l].user /\ login'[l].read = login[l].read
                         /\ login'[l].pc = IF login[l].pc = "new" THEN "new" ELSE "ended"
    BY <1>12 DEF ProcessEnds
  <2>2. \A c \in Change : /\ change'[c].user = change[c].user /\ change'[c].made = change[c].made
                          /\ change'[c].pc = IF change[c].pc \in {"update", "revoke"}
                                              THEN "stopped" ELSE change[c].pc
    BY <1>12 DEF ProcessEnds
  <2>3. AccountTypeOK'
    <3>1. login' \in [Login -> [pc : {"new", "verified", "known", "ended"},
                               user : User \cup {NoUser}, read : Nat]]
      BY <1>12 DEF ProcessEnds
    <3>2. change' \in [Change -> [pc : {"new", "update", "revoke", "ended", "stopped"},
                                 user : User \cup {NoUser}, code : BOOLEAN, made : Nat]]
      BY <1>12 DEF ProcessEnds
    <3>3. 0 \in 0..AuditConcurrency
      OBVIOUS
    <3> QED
      BY <1>12, <3>1, <3>2, <3>3 DEF ProcessEnds
  <2>4. ASSUME NEW k \in Login, Replaced(k) PROVE Replaced(k)'
    BY <2>1, <2>2, <2>4 DEF Replaced
  <2>5. ASSUME NEW k \in Login, Alive(k)', login'[k].read < password'[login'[k].user]
        PROVE  k \in overlapped' \/ Replaced(k)'
    BY <1>12, <2>1, <2>4, <2>5 DEF ProcessEnds, Alive
  <2>6. AuditsMove'
    BY <1>12 DEF ProcessEnds, AuditsMove
  <2> QED
    BY <1>12, <2>1, <2>2, <2>3, <2>5, <2>6 DEF ProcessEnds
<1>13. CASE UNCHANGED accountVars
  BY <1>13 DEF accountVars, AuditsMove, Alive, Replaced
<1> QED
  BY <1>1, <1>2, <1>3, <1>4, <1>5, <1>6, <1>7, <1>8, <1>9, <1>10, <1>11, <1>12, <1>13
  DEF AccountNext

\* For any number of users, logins and changes, failures and ends of the process included:
\* types of the account model.
THEOREM AccountTypes == AccountSpec => []AccountTypeOK
<1>1. AccountSpec => []AccountIInv
  BY AccountInitHolds, AccountStep, PTL DEF AccountSpec
<1> QED
  BY <1>1, PTL DEF AccountIInv

\* A token made on a password since replaced opens nothing, but for the logins that overlapped
\* with the revocation and the requests that have not come to it (changePassword, resetPassword).
THEOREM OldSessionsAlwaysEnd == AccountSpec => []OldSessionsEnd
<1>1. AccountSpec => []AccountIInv
  BY AccountInitHolds, AccountStep, PTL DEF AccountSpec
<1>2. AccountIInv => OldSessionsEnd
  BY DEF AccountIInv, OldSessionsEnd, Alive, Replaced
<1> QED
  BY <1>1, <1>2, PTL

\* Whatever the limits, the queue of last-login writes never stands still with entries in it
\* (scheduleLastLoginAuditDrain).
THEOREM AuditsAlwaysMove == AccountSpec => []AuditsMove
<1>1. AccountSpec => []AccountIInv
  BY AccountInitHolds, AccountStep, PTL DEF AccountSpec
<1> QED
  BY <1>1, PTL DEF AccountIInv

-----------------------------------------------------------------------------
(* The life of an exam, of ExamLifecycle.                                      *)

\* Since a cancellation, if there was one, those who register are late.
LateInv ==
    /\ participants \subseteq late
    /\ Doing("register") \subseteq late
    /\ late = Candidate \/ exam.status \in {"cancelled", "archived", "deleted"}

Joiners == Doing("join") \cup Doing("joined")

\* A legacy edit that is about to write keeps the terms, or whom it saw is excused by now.
EditFits(r) ==
    /\ admin[r].seen \subseteq Doing("joined")
    /\ admin[r].pc = "legacyEdit" =>
         admin[r].edit.terms \in {Keep, exam.terms} \/ admin[r].seen \subseteq excused

TermsInv ==
    /\ attempts \subseteq Doing("joined")
    /\ exam.status = "none" => Joiners = {}
    /\ \A c \in Joiners \ excused : candidate[c].terms = exam.terms
    /\ Doing("joined") \ excused \subseteq attempts
    /\ \A r \in Staff : EditFits(r)

LifeIInv == LifecycleTypeOK /\ LateInv /\ TermsInv

RequestType == [pc : AdminPc \cup {"idle"}, edit : Edit,
                seen : SUBSET Candidate, now : 1..LastDay]

LEMMA LifeInitHolds == LifecycleInit => LifeIInv
<1> SUFFICES ASSUME LifecycleInit PROVE LifeIInv
  OBVIOUS
<1>1. 1 \in 1..LastDay
  BY LifecycleAssumption
<1>2. NoRequest \in RequestType
  BY <1>1 DEF NoRequest, NoEditMade, RequestType, Edit, Keep
<1>3. LifecycleTypeOK
  BY <1>1, <1>2 DEF LifecycleTypeOK, LifecycleInit, RequestType, Terms
<1>4. Doing("register") = {} /\ Doing("join") = {} /\ Doing("joined") = {}
  BY DEF Doing, LifecycleInit
<1>5. LateInv
  BY <1>4 DEF LateInv, LifecycleInit
<1>6. TermsInv
  BY <1>4 DEF TermsInv, EditFits, Joiners, LifecycleInit, NoRequest
<1> QED
  BY <1>3, <1>5, <1>6 DEF LifeIInv

\* What a request may do besides its own control: nothing that the invariant sees.
LEMMA RequestMoves ==
  ASSUME LifeIInv, NEW r \in Staff, NEW q \in RequestType,
         admin' = [admin EXCEPT ![r] = q],
         q.seen \subseteq Doing("joined"),
         q.pc = "legacyEdit" =>
           q.edit.terms \in {Keep, exam.terms} \/ q.seen \subseteq excused,
         UNCHANGED <<exam, participants, attempts, day, candidate, late, excused>>
  PROVE  LifeIInv'
<1>1. LifecycleTypeOK'
  BY DEF LifeIInv, LifecycleTypeOK, RequestType
<1>2. \A pc : Doing(pc)' = Doing(pc)
  BY DEF Doing
<1>3. LateInv'
  BY <1>2 DEF LifeIInv, LateInv
<1>4. ASSUME NEW s \in Staff PROVE EditFits(s)'
  <2>1. admin'[s] = IF s = r THEN q ELSE admin[s]
    BY DEF LifeIInv, LifecycleTypeOK
  <2>2. EditFits(s)
    BY DEF LifeIInv, TermsInv
  <2> QED
    BY <1>2, <2>1, <2>2 DEF EditFits
<1>5. TermsInv'
  BY <1>2, <1>4 DEF LifeIInv, TermsInv, Joiners
<1> QED
  BY <1>1, <1>3, <1>5 DEF LifeIInv

\* A request that has nothing to remember goes on, refuses or gives up.
LEMMA PlainRequest ==
  ASSUME LifeIInv, NEW r \in Staff, NEW pc \in (AdminPc \ {"legacyEdit"}) \cup {"idle"},
         Proceeds(r, pc) \/ Closes(r),
         UNCHANGED <<exam, participants, attempts, day, candidate, late, excused>>
  PROVE  LifeIInv'
<1> DEFINE q == [NoRequest EXCEPT !.pc = pc]
<1>1. NoRequest \in RequestType
  BY LifecycleAssumption DEF NoRequest, NoEditMade, RequestType, Edit, Keep
<1>2. q \in RequestType /\ q.seen = {} /\ q.pc = pc /\ NoRequest.seen = {}
      /\ NoRequest.pc = "idle"
  BY <1>1 DEF RequestType, NoRequest
<1>3. CASE Proceeds(r, pc)
  BY <1>2, <1>3, RequestMoves DEF Proceeds
<1>4. CASE Closes(r)
  BY <1>1, <1>2, <1>4, RequestMoves DEF Closes
<1> QED
  BY <1>3, <1>4

ExamType == [status : Live \cup {"none", "deleted"}, isVisible : BOOLEAN,
             terms : Terms, logged : BOOLEAN]

\* A write of the exam by a request that then logs or ends: the terms stay, or everyone who
\* has joined or is joining is excused.
LEMMA ExamMoves ==
  ASSUME LifeIInv, NEW r \in Staff, NEW pc \in {"idle", "log"},
         Proceeds(r, pc) \/ Closes(r),
         exam' \in ExamType,
         exam'.status = "none" => exam.status = "none",
         exam'.terms = exam.terms \/ Joiners \subseteq excused',
         attempts' = attempts \/ (attempts' = {} /\ Joiners \subseteq excused'),
         excused \subseteq excused', excused' \subseteq Candidate,
         late' \subseteq Candidate, LateInv',
         UNCHANGED <<participants, day, candidate>>
  PROVE  LifeIInv'
<1>1. PICK q \in RequestType : /\ q.pc # "legacyEdit" /\ q.seen = {}
                               /\ admin' = [admin EXCEPT ![r] = q]
  <2> DEFINE p == [NoRequest EXCEPT !.pc = pc]
  <2>1. NoRequest \in RequestType /\ NoRequest.seen = {} /\ NoRequest.pc = "idle"
    BY LifecycleAssumption DEF NoRequest, NoEditMade, RequestType, Edit, Keep
  <2>2. p \in RequestType /\ p.seen = {} /\ p.pc = pc
    BY <2>1 DEF RequestType, NoRequest, AdminPc
  <2>3. CASE Proceeds(r, pc)
    BY <2>2, <2>3 DEF Proceeds
  <2>4. CASE Closes(r)
    BY <2>1, <2>4 DEF Closes
  <2> QED
    BY <2>3, <2>4
<1>2. \A s \in Staff : admin'[s] = IF s = r THEN q ELSE admin[s]
  BY <1>1 DEF LifeIInv, LifecycleTypeOK
<1>3. LifecycleTypeOK'
  BY <1>1 DEF LifeIInv, LifecycleTypeOK, RequestType, ExamType
<1>4. \A d : Doing(d)' = Doing(d)
  BY DEF Doing
<1>5. Joiners' = Joiners
  BY <1>4 DEF Joiners
<1>6. ASSUME NEW s \in Staff PROVE EditFits(s)'
  <2>1. EditFits(s)
    BY DEF LifeIInv, TermsInv
  <2>2. CASE s = r
    BY <1>1, <1>2, <1>4, <2>2 DEF EditFits
  <2>3. CASE s # r
    BY <1>2, <1>4, <2>1, <2>3 DEF EditFits, Joiners
  <2> QED
    BY <2>2, <2>3
<1>7. TermsInv'
  <2>1. \A c \in Joiners \ excused' : candidate[c].terms = exam'.terms
    BY DEF LifeIInv, TermsInv
  <2>2. attempts' \subseteq Doing("joined") /\ Doing("joined") \ excused' \subseteq attempts'
    BY DEF LifeIInv, TermsInv, Joiners
  <2>3. exam'.status = "none" => Joiners = {}
    BY DEF LifeIInv, TermsInv
  <2> QED
    BY <1>4, <1>5, <1>6, <2>1, <2>2, <2>3 DEF TermsInv
<1> QED
  BY <1>3, <1>7 DEF LifeIInv

\* A write that does not cancel leaves the late ones as they are.
LEMMA LateStays ==
  ASSUME LifeIInv,
         exam.status \in {"cancelled", "archived", "deleted"}
           => exam'.status \in {"cancelled", "archived", "deleted"},
         UNCHANGED <<participants, candidate, late>>
  PROVE  LateInv'
<1>1. Doing("register")' = Doing("register")
  BY DEF Doing
<1> QED
  BY <1>1 DEF LifeIInv, LateInv

LEMMA AdminWrites ==
  ASSUME LifeIInv, NEW r \in Staff,
         \/ \E terms \in Terms, shown \in BOOLEAN :
              createExam(r, terms, shown) \/ createAdminExam(r, terms, shown)
         \/ publishIfDraft(r) \/ cancelIfPublishedWithoutParticipants(r) \/ ArchiveWrites(r)
         \/ AdminEditWrites(r) \/ LegacyEditWrites(r)
         \/ deleteExamWithRelations(r) \/ writeAuditLog(r)
  PROVE  LifeIInv'
<1>0. exam \in ExamType /\ late \subseteq Candidate /\ excused \subseteq Candidate
      /\ admin[r] \in RequestType
  BY DEF LifeIInv, LifecycleTypeOK, ExamType, RequestType
<1>1. ASSUME NEW terms \in Terms, NEW shown \in BOOLEAN,
             createExam(r, terms, shown) \/ createAdminExam(r, terms, shown)
      PROVE  LifeIInv'
  <2>1. /\ exam' \in ExamType /\ exam.status = "none" /\ exam'.status # "none"
        /\ UNCHANGED <<participants, attempts, day, candidate, late, excused>>
    BY <1>0, <1>1 DEF createExam, createAdminExam, createExamWithChallenges, ExamType, Live
  <2>2. Joiners \subseteq excused'
    BY <2>1 DEF LifeIInv, TermsInv
  <2>3. LateInv'
    BY <2>1, LateStays
  <2>4. CASE createAdminExam(r, terms, shown)
    <3>1. Proceeds(r, "log")
      BY <2>4 DEF createAdminExam
    <3> QED
      BY <1>0, <2>1, <2>2, <2>3, <3>1, ExamMoves
  <2>5. CASE createExam(r, terms, shown)
    \* The request is idle before and after.
    <3>1. admin' = admin
      BY <2>5 DEF createExam
    <3>2. LifecycleTypeOK'
      BY <2>1, <3>1 DEF LifeIInv, LifecycleTypeOK, ExamType
    <3>3. \A d : Doing(d)' = Doing(d)
      BY <2>1 DEF Doing
    <3>4. TermsInv'
      BY <2>1, <2>2, <3>1, <3>3 DEF LifeIInv, TermsInv, EditFits, Joiners
    <3> QED
      BY <2>3, <3>2, <3>4 DEF LifeIInv
  <2> QED
    BY SMTT(30), <1>1, <2>4, <2>5
<1>2. CASE publishIfDraft(r)
  <2>1. /\ exam' \in ExamType /\ exam'.terms = exam.terms
        /\ exam'.status = exam.status \/ (exam.status = "draft" /\ exam'.status = "published")
        /\ UNCHANGED <<participants, attempts, day, candidate, late, excused>>
        /\ Proceeds(r, "log") \/ Closes(r)
    BY <1>0, <1>2 DEF publishIfDraft, ExamType, Live
  <2> QED
    BY <1>0, <2>1, LateStays, ExamMoves
<1>3. CASE cancelIfPublishedWithoutParticipants(r)
  <2>1. /\ exam' \in ExamType /\ exam'.terms = exam.terms
        /\ exam'.status = "none" => exam.status = "none"
        /\ UNCHANGED <<participants, attempts, day, candidate, excused>>
        /\ Proceeds(r, "log") \/ Closes(r)
    BY <1>0, <1>3 DEF cancelIfPublishedWithoutParticipants, ExamType, Live
  <2>2. Doing("register")' = Doing("register")
    BY <2>1 DEF Doing
  <2>3. LateInv' /\ late' \subseteq Candidate
    BY <1>0, <1>3, <2>1, <2>2 DEF cancelIfPublishedWithoutParticipants, MayCancel, LifeIInv,
                                  LateInv, Doing, ExamType
  <2> QED
    BY <1>0, <2>1, <2>3, ExamMoves
<1>4. CASE ArchiveWrites(r)
  <2>1. /\ exam' \in ExamType /\ exam'.terms = exam.terms
        /\ exam'.status \in {exam.status, "archived"}
        /\ UNCHANGED <<participants, attempts, day, candidate, late, excused>>
        /\ Proceeds(r, "log") \/ Closes(r)
    BY <1>0, <1>4 DEF ArchiveWrites, ExamType, Live
  <2> QED
    BY <1>0, <2>1, LateStays, ExamMoves
<1>5. Edited(admin[r].edit) \in ExamType /\ Edited(admin[r].edit).status = exam.status
  BY <1>0 DEF Edited, ExamType, RequestType, Edit, Keep
<1>6. ASSUME NEW spared \in SUBSET Candidate, Excuse(spared),
             exam' = Edited(admin[r].edit),
             exam'.terms = exam.terms \/ spared \subseteq excused
      PROVE  /\ exam'.terms = exam.terms \/ Joiners \subseteq excused'
             /\ excused \subseteq excused' /\ excused' \subseteq Candidate
  BY <1>0, <1>6 DEF Excuse, Joiners, Doing
<1>7. CASE AdminEditWrites(r)
  <2>1. /\ exam' = Edited(admin[r].edit) /\ Excuse({})
        /\ UNCHANGED <<participants, attempts, day, candidate, late>>
        /\ Proceeds(r, "log") \/ Closes(r)
    BY <1>7 DEF AdminEditWrites
  <2>2. /\ exam'.terms = exam.terms \/ Joiners \subseteq excused'
        /\ excused \subseteq excused' /\ excused' \subseteq Candidate
    BY <1>6, <2>1
  <2> QED
    BY <1>0, <1>5, <2>1, <2>2, LateStays, ExamMoves
<1>8. CASE LegacyEditWrites(r)
  <2>1. /\ exam' = Edited(admin[r].edit) /\ Excuse(admin[r].seen) /\ Closes(r)
        /\ admin[r].pc = "legacyEdit"
        /\ UNCHANGED <<participants, attempts, day, candidate, late>>
    BY <1>8 DEF LegacyEditWrites
  <2>2. EditFits(r)
    BY DEF LifeIInv, TermsInv
  <2>3. exam'.terms = exam.terms \/ admin[r].seen \subseteq excused
    BY <1>0, <2>1, <2>2 DEF EditFits, Edited, ExamType
  <2>4. /\ exam'.terms = exam.terms \/ Joiners \subseteq excused'
        /\ excused \subseteq excused' /\ excused' \subseteq Candidate
    <3>1. admin[r].seen \in SUBSET Candidate
      BY <1>0 DEF RequestType
    <3> QED
      BY <1>6, <2>1, <2>3, <3>1
  <2> QED
    BY <1>0, <1>5, <2>1, <2>4, LateStays, ExamMoves
<1>9. CASE deleteExamWithRelations(r)
  <2>1. /\ exam' \in ExamType /\ exam'.terms = exam.terms
        /\ exam'.status \in {exam.status, "deleted"}
        /\ attempts' = attempts \/ (attempts' = {} /\ Joiners \subseteq excused')
        /\ excused \subseteq excused' /\ excused' \subseteq Candidate
        /\ UNCHANGED <<participants, day, candidate, late>>
        /\ Closes(r)
    BY <1>0, <1>9 DEF deleteExamWithRelations, ExamType, Joiners, Doing
  <2> QED
    BY <1>0, <2>1, LateStays, ExamMoves
<1>10. CASE writeAuditLog(r)
  <2>1. /\ exam' \in ExamType /\ exam'.terms = exam.terms /\ exam'.status = exam.status
        /\ UNCHANGED <<participants, attempts, day, candidate, late, excused>>
        /\ Closes(r)
    BY <1>0, <1>10 DEF writeAuditLog, ExamType, ExamExists
  <2> QED
    BY <1>0, <2>1, LateStays, ExamMoves
<1> QED
  BY <1>1, <1>2, <1>3, <1>4, <1>7, <1>8, <1>9, <1>10

LEMMA AdminReads ==
  ASSUME LifeIInv, NEW r \in Staff,
         \/ \E e \in Edit : updateAdminExam(r, e) \/ updateExam(r, e)
         \/ PublishReads(r) \/ CancelReads(r) \/ countActiveParticipants(r) \/ ArchiveReads(r)
         \/ CompareTerms(r) \/ deleteExam(r) \/ RequestStops(r)
  PROVE  LifeIInv'
<1>0. /\ admin[r] \in RequestType /\ EditFits(r) /\ attempts \subseteq Doing("joined")
      /\ attempts \subseteq Candidate /\ day \in 1..LastDay
  BY DEF LifeIInv, LifecycleTypeOK, TermsInv, RequestType
<1>1. NoRequest \in RequestType /\ NoRequest.seen = {}
  BY LifecycleAssumption DEF NoRequest, NoEditMade, RequestType, Edit, Keep
<1>2. ASSUME NEW e \in Edit, updateAdminExam(r, e)
      PROVE  LifeIInv'
  <2> DEFINE q == [NoRequest EXCEPT !.pc = "edit", !.edit = e]
  <2>1. q \in RequestType /\ q.seen = {} /\ q.pc = "edit"
    BY <1>1 DEF RequestType, NoRequest, AdminPc
  <2> QED
    BY <1>2, <2>1, RequestMoves DEF updateAdminExam
<1>3. ASSUME NEW e \in Edit, updateExam(r, e)
      PROVE  LifeIInv'
  <2> DEFINE pc == IF SeenAttempts = {} THEN "legacyEdit" ELSE "compare"
             q == [NoRequest EXCEPT !.edit = e, !.seen = attempts, !.pc = pc]
  <2>1. q \in RequestType /\ q.seen = attempts /\ q.pc = pc
    BY <1>0, <1>1 DEF RequestType, NoRequest, AdminPc
  <2>2. q.pc = "legacyEdit" => q.seen = {}
    BY <2>1 DEF SeenAttempts
  <2> QED
    BY <1>0, <1>3, <2>1, <2>2, RequestMoves DEF updateExam
<1>4. CASE PublishReads(r) \/ CancelReads(r) \/ deleteExam(r) \/ RequestStops(r)
  BY <1>4, PlainRequest DEF PublishReads, CancelReads, deleteExam, RequestStops, AdminPc
<1>5. CASE countActiveParticipants(r)
  <2> DEFINE pc == IF participants = {} THEN "cancel" ELSE "idle"
  <2>1. pc \in (AdminPc \ {"legacyEdit"}) \cup {"idle"}
    BY DEF AdminPc
  <2>2. Proceeds(r, pc)
    BY <1>5 DEF countActiveParticipants
  <2> QED
    BY <1>5, <2>1, <2>2, PlainRequest DEF countActiveParticipants
<1>6. CASE ArchiveReads(r)
  <2> DEFINE pc == IF exam.status = "cancelled" THEN "archiveCancelled" ELSE "archiveEnded"
             q == [NoRequest EXCEPT !.pc = pc, !.now = day]
  <2>1. q \in RequestType /\ q.seen = {} /\ q.pc = pc
    BY <1>0, <1>1 DEF RequestType, NoRequest, AdminPc
  <2> QED
    BY <1>6, <2>1, RequestMoves DEF ArchiveReads
<1>7. CASE CompareTerms(r)
  <2>1. CASE ExamExists /\ admin[r].edit.terms \in {Keep, exam.terms}
    <3> DEFINE q == [admin[r] EXCEPT !.pc = "legacyEdit"]
    <3>1. /\ q \in RequestType /\ q.seen = admin[r].seen /\ q.edit = admin[r].edit
          /\ admin' = [admin EXCEPT ![r] = q]
      BY <1>0, <1>7, <2>1 DEF RequestType, AdminPc, CompareTerms, LifeIInv, LifecycleTypeOK
    <3> QED
      BY <1>0, <1>7, <2>1, <3>1, RequestMoves DEF CompareTerms, EditFits
  <2>2. CASE ~(ExamExists /\ admin[r].edit.terms \in {Keep, exam.terms})
    BY <1>7, <2>2, PlainRequest DEF CompareTerms
  <2> QED
    BY <2>1, <2>2
<1> QED
  BY <1>2, <1>3, <1>4, <1>5, <1>6, <1>7

LEMMA CandidateMoves ==
  ASSUME LifeIInv, NEW c \in Candidate, CandidateStep(c)
  PROVE  LifeIInv'
<1>0. /\ candidate \in [Candidate -> [pc : {"idle", "register", "add", "join", "joined"},
                                      terms : Terms]]
      /\ exam \in ExamType
      /\ participants \subseteq Candidate /\ attempts \subseteq Candidate
      /\ late \subseteq Candidate /\ excused \subseteq Candidate
  BY DEF LifeIInv, LifecycleTypeOK, ExamType
<1>1. UNCHANGED <<exam, day, admin>>
  BY DEF CandidateStep, registerForExam, addAdminExamParticipants, CreateParticipant, joinExam,
         createExamParticipationWithExpiry, CandidateStops
<1>2. CASE registerForExam(c) \/ addAdminExamParticipants(c) \/ CreateParticipant(c)
             \/ CandidateStops(c)
  \* Nobody joins, or has joined; only a candidate who registers and is not late would matter.
  <2>1. PICK pc \in {"idle", "register", "add"} :
          /\ candidate' = [candidate EXCEPT ![c].pc = pc] /\ candidate[c].pc # "joined"
          /\ pc = "register" => exam.status = "published"
    BY <1>2 DEF registerForExam, addAdminExamParticipants, CreateParticipant, CandidateStops,
                Stands, assertExamPublishedForAccess
  <2>2. /\ UNCHANGED <<attempts, excused>>
        /\ late \subseteq late' /\ late' \subseteq Candidate
        /\ participants' \subseteq participants \cup {c}
        /\ c \in participants' \ participants => candidate[c].pc \in {"register", "add"}
        /\ c \in participants' \ participants /\ candidate[c].pc = "add" => c \in late'
    BY <1>0, <1>2 DEF registerForExam, addAdminExamParticipants, CreateParticipant,
                      CandidateStops
  <2>3. /\ Doing("joined")' = Doing("joined") /\ Doing("join")' \subseteq Doing("join")
        /\ \A d \in Candidate : candidate'[d].terms = candidate[d].terms
        /\ Doing("register")' \subseteq Doing("register") \cup (IF pc = "register" THEN {c} ELSE {})
    BY <1>0, <2>1 DEF Doing
  <2>4. LifecycleTypeOK'
    BY <1>0, <1>1, <2>1, <2>2 DEF LifeIInv, LifecycleTypeOK
  <2>5. LateInv'
    <3>1. pc = "register" => c \in late
      BY <2>1 DEF LifeIInv, LateInv
    <3>2. candidate[c].pc = "register" => c \in late
      BY DEF LifeIInv, LateInv, Doing
    <3> QED
      BY <1>1, <2>2, <2>3, <3>1, <3>2 DEF LifeIInv, LateInv
  <2>6. TermsInv'
    <3>1. Joiners' \subseteq Joiners /\ Joiners \subseteq Candidate
      BY <2>3 DEF Joiners, Doing
    <3>2. \A r \in Staff : EditFits(r)'
      BY <1>1, <2>2, <2>3 DEF LifeIInv, TermsInv, EditFits
    <3>3. \A d \in Joiners' \ excused' : candidate'[d].terms = exam'.terms
      BY <1>1, <2>2, <2>3, <3>1 DEF LifeIInv, TermsInv
    <3> QED
      BY <1>1, <2>2, <2>3, <3>1, <3>2, <3>3 DEF LifeIInv, TermsInv
  <2> QED
    BY <2>4, <2>5, <2>6 DEF LifeIInv
<1>3. CASE joinExam(c)
  <2>1. /\ candidate' = [candidate EXCEPT ![c] = [pc |-> "join", terms |-> exam.terms]]
        /\ candidate[c].pc = "idle" /\ exam.status \in Live
        /\ excused' = excused \ {c} /\ UNCHANGED <<participants, attempts, late>>
    BY <1>3 DEF joinExam, ExamExists
  <2>2. /\ Doing("joined")' = Doing("joined") /\ Doing("join")' = Doing("join") \cup {c}
        /\ c \notin Doing("joined") /\ Doing("register")' = Doing("register")
        /\ candidate'[c].terms = exam.terms
        /\ \A d \in Candidate \ {c} : candidate'[d] = candidate[d]
    BY <1>0, <2>1 DEF Doing
  <2>3. LifecycleTypeOK'
    BY <1>0, <1>1, <2>1 DEF LifeIInv, LifecycleTypeOK, ExamType
  <2>4. LateInv'
    BY <1>1, <2>1, <2>2 DEF LifeIInv, LateInv
  <2>5. TermsInv'
    <3>1. \A r \in Staff : EditFits(r)'
      BY <1>1, <2>1, <2>2 DEF LifeIInv, TermsInv, EditFits
    <3>2. Joiners' = Joiners \cup {c} /\ Joiners \subseteq Candidate
      BY <2>2 DEF Joiners, Doing
    <3>3. \A d \in Joiners' \ excused' : candidate'[d].terms = exam'.terms
      BY <1>1, <2>1, <2>2, <3>2 DEF LifeIInv, TermsInv
    <3>4. exam'.status # "none"
      BY <1>1, <2>1 DEF Live
    <3> QED
      BY <2>1, <2>2, <3>1, <3>3, <3>4 DEF LifeIInv, TermsInv
  <2> QED
    BY <2>3, <2>4, <2>5 DEF LifeIInv
<1>4. CASE createExamParticipationWithExpiry(c) /\ ~ExamExists
  <2>1. /\ candidate' = [candidate EXCEPT ![c].pc = "idle"] /\ candidate[c].pc = "join"
        /\ UNCHANGED <<participants, attempts, late, excused>>
    BY <1>4 DEF createExamParticipationWithExpiry, Stands
  <2>2. /\ Doing("joined")' = Doing("joined") /\ Doing("join")' \subseteq Doing("join")
        /\ Doing("register")' = Doing("register")
        /\ \A d \in Candidate : candidate'[d].terms = candidate[d].terms
    BY <1>0, <2>1 DEF Doing
  <2>3. LifecycleTypeOK'
    BY <1>0, <1>1, <2>1 DEF LifeIInv, LifecycleTypeOK
  <2>4. Joiners' \subseteq Joiners /\ Joiners \subseteq Candidate
    BY <2>2 DEF Joiners, Doing
  <2>5. TermsInv'
    BY <1>1, <2>1, <2>2, <2>4 DEF LifeIInv, TermsInv, EditFits
  <2>6. LateInv'
    BY <1>1, <2>1, <2>2 DEF LifeIInv, LateInv
  <2> QED
    BY <2>3, <2>5, <2>6 DEF LifeIInv
<1>5. CASE createExamParticipationWithExpiry(c) /\ ExamExists
  <2>1. /\ candidate' = [candidate EXCEPT ![c].pc = "joined"] /\ candidate[c].pc = "join"
        /\ attempts' = attempts \cup {c} /\ UNCHANGED <<participants, late, excused>>
        /\ exam.status # "none"
    BY <1>5 DEF createExamParticipationWithExpiry, Stands, ExamExists, Live
  <2>2. /\ Doing("joined")' = Doing("joined") \cup {c} /\ c \in Doing("join")
        /\ Joiners' = Joiners /\ Doing("register")' = Doing("register")
        /\ \A d \in Candidate : candidate'[d].terms = candidate[d].terms
        /\ Joiners \subseteq Candidate
    BY <1>0, <2>1 DEF Doing, Joiners
  <2>3. LifecycleTypeOK'
    BY <1>0, <1>1, <2>1 DEF LifeIInv, LifecycleTypeOK
  <2>4. TermsInv'
    <3>1. \A r \in Staff : EditFits(r)'
      BY <1>1, <2>1, <2>2 DEF LifeIInv, TermsInv, EditFits
    <3>2. \A d \in Joiners' \ excused' : candidate'[d].terms = exam'.terms
      BY <1>1, <2>1, <2>2 DEF LifeIInv, TermsInv
    <3> QED
      BY <1>1, <2>1, <2>2, <3>1, <3>2 DEF LifeIInv, TermsInv
  <2>5. LateInv'
    BY <1>1, <2>1, <2>2 DEF LifeIInv, LateInv
  <2> QED
    BY <2>3, <2>4, <2>5 DEF LifeIInv
<1> QED
  BY <1>2, <1>3, <1>4, <1>5 DEF CandidateStep

LEMMA LifeStep == LifeIInv /\ [LifecycleNext]_lifecycleVars => LifeIInv'
<1> SUFFICES ASSUME LifeIInv, [LifecycleNext]_lifecycleVars PROVE LifeIInv'
  OBVIOUS
<1>1. ASSUME NEW r \in Staff, StaffStep(r)
      PROVE  LifeIInv'
  BY <1>1, AdminReads, AdminWrites DEF StaffStep
<1>2. ASSUME NEW c \in Candidate, CandidateStep(c)
      PROVE  LifeIInv'
  BY <1>2, CandidateMoves
<1>3. ASSUME UNCHANGED <<exam, participants, attempts, admin, candidate, late, excused>>,
             day' \in 1..LastDay
      PROVE  LifeIInv'
  <2>1. \A pc : Doing(pc)' = Doing(pc)
    BY <1>3 DEF Doing
  <2> QED
    BY <1>3, <2>1 DEF LifeIInv, LifecycleTypeOK, LateInv, TermsInv, EditFits, Joiners
<1>4. CASE DayPasses
  <2>1. day' \in 1..LastDay
    BY <1>4, LifecycleAssumption DEF DayPasses, LifeIInv, LifecycleTypeOK
  <2> QED
    BY <1>3, <1>4, <2>1 DEF DayPasses
<1>5. CASE UNCHANGED lifecycleVars
  <2>1. day' \in 1..LastDay
    BY <1>5 DEF lifecycleVars, LifeIInv, LifecycleTypeOK
  <2> QED
    BY <1>3, <1>5, <2>1 DEF lifecycleVars
<1> QED
  BY <1>1, <1>2, <1>4, <1>5 DEF LifecycleNext

LEMMA LifeInvariant == LifecycleSpec => []LifeIInv
<1> QED
  BY LifeInitHolds, LifeStep, PTL DEF LifecycleSpec

\* Types of the exam's life, for any number of requests, candidates and days.
THEOREM LifecycleTypes == LifecycleSpec => []LifecycleTypeOK
<1>1. LifeIInv => LifecycleTypeOK
  BY DEF LifeIInv
<1> QED
  BY <1>1, LifeInvariant, PTL

\* However requests overlap, nobody is a participant of a cancelled exam but who was
\* registering when it was cancelled or was added by an administrator.
THEOREM CancelledAlwaysEmpty == LifecycleSpec => []CancelledStaysEmpty
<1>1. LifeIInv => CancelledStaysEmpty
  BY DEF LifeIInv, LateInv, CancelledStaysEmpty
<1> QED
  BY <1>1, LifeInvariant, PTL

\* However edits of both services, deletions and joins overlap, who has joined keeps the
\* attempt and its terms, but for the exceptions the property names.
THEOREM JoinedAlwaysKeepTerms == LifecycleSpec => []JoinedKeepsTerms
<1>1. LifeIInv => JoinedKeepsTerms
  BY DEF LifeIInv, TermsInv, JoinedKeepsTerms, Joiners
<1> QED
  BY <1>1, LifeInvariant, PTL
-----------------------------------------------------------------------------
(* The cache of ProblemMetadata.                                               *)

\* The tables hold what edits have written, the last one that came to its end included.
TablesFollow ==
    /\ problem <= edits /\ testcases <= edits
    /\ editing.pc \in {"testcases", "invalidate"} => problem = edits
    /\ editing.pc = "invalidate" => testcases = edits
    /\ \A f \in finished : f.edit <= problem /\ f.edit <= testcases

\* What load l has read so far is not from before edit v.
ReadsFrom(l, v) ==
    /\ load[l].pc \in {"testcases", "resolved"} => v <= load[l].problem
    /\ load[l].pc = "resolved" => v <= load[l].testcases

\* The load of an entry has read nothing from before an edit that ended in the same
\* process, or so long ago that the entry was made after it.
EntriesFresh ==
    \A i \in Process : cache[i].load # NoQuery =>
        /\ cache[i].expiresAt <= now + Ttl
        /\ \A f \in finished :
              f.at = i \/ f.time + Ttl < cache[i].expiresAt => ReadsFrom(cache[i].load, f.edit)

\* A request waits for, or works with, a load that reads nothing from before its due edit.
QueriesFresh ==
    \A q \in Query : query[q].pc \in {"waiting", "served"} =>
        /\ query[q].via \in Query
        /\ query[q].due <= problem /\ query[q].due <= testcases
        /\ ReadsFrom(query[q].via, query[q].due)
        /\ query[q].pc = "served" => load[query[q].via].pc = "resolved"

LoadsBegun == \A q \in Query : load[q].pc # "none" => query[q].pc # "idle"

MetadataIInv ==
    /\ MetadataTypeOK /\ TablesFollow /\ EntriesFresh /\ QueriesFresh /\ LoadsBegun
    /\ FailureIsForgotten

EntryType == [load : Query \cup {NoQuery}, expiresAt : Nat]
LoadType == [pc : {"none", "problem", "testcases", "resolved", "rejected"},
             problem : Version, testcases : Version]
QueryType == [pc : {"idle", "waiting", "served", "done"}, at : Process,
              via : Query \cup {NoQuery}, due : Version]

-----------------------------------------------------------------------------
LEMMA MetadataInitHolds == MetadataInit => MetadataIInv
<1> SUFFICES ASSUME MetadataInit PROVE MetadataIInv
  OBVIOUS
<1>1. MetadataTypeOK
  <2>1. 0 \in Version /\ 0 \in 0..MaxTime
    BY MetadataAssumption DEF Version
  <2>2. PICK i \in Process :
          /\ editing = [pc |-> "idle", at |-> i]
          /\ query = [q \in Query |-> [pc |-> "idle", at |-> i, via |-> NoQuery, due |-> 0]]
    BY DEF MetadataInit
  <2>3. /\ cache \in [Process -> [load : Query \cup {NoQuery}, expiresAt : Nat]]
        /\ load \in [Query -> LoadType]
    BY <2>1 DEF MetadataInit, NoEntry, NoLoad, LoadType
  <2>4. query \in [Query -> QueryType]
    BY <2>1, <2>2 DEF QueryType
  <2> QED
    BY <2>1, <2>2, <2>3, <2>4 DEF MetadataInit, MetadataTypeOK, LoadType, QueryType
<1>2. TablesFollow
  BY DEF MetadataInit, TablesFollow
<1>3. EntriesFresh /\ FailureIsForgotten
  BY DEF MetadataInit, EntriesFresh, FailureIsForgotten, NoEntry
<1>4. QueriesFresh /\ LoadsBegun
  BY DEF MetadataInit, QueriesFresh, LoadsBegun, NoLoad
<1> QED
  BY <1>1, <1>2, <1>3, <1>4 DEF MetadataIInv

LEMMA KnownIsVersion ==
    ASSUME MetadataTypeOK, NEW i \in Process, NEW v \in {0} \cup KnownAt(i)
    PROVE  v \in Version
<1>1. 0 \in Version
  BY MetadataAssumption DEF Version
<1>2. \A f \in finished : f.edit \in Version
  BY DEF MetadataTypeOK, Finish
<1> QED
  BY <1>1, <1>2 DEF KnownAt

LEMMA MetadataTypeStep ==
    ASSUME MetadataTypeOK, MetadataNext
    PROVE  MetadataTypeOK'
<1> USE MetadataAssumption DEF MetadataTypeOK, Version
<1>1. ASSUME NEW q \in Query, NEW i \in Process, getOrLoad(q, i)
      PROVE  MetadataTypeOK'
  <2> DEFINE hit == cache[i].load # NoQuery /\ cache[i].expiresAt > now
  <2>1. PICK due \in {0} \cup KnownAt(i) :
          /\ query' = [query EXCEPT ![q] = [pc |-> "waiting", at |-> i, due |-> due,
                                            via |-> IF hit THEN cache[i].load ELSE q]]
          /\ IF hit
             THEN UNCHANGED <<cache, load>>
             ELSE /\ load' = [load EXCEPT ![q].pc = "problem"]
                  /\ cache' = [cache EXCEPT ![i] = [load |-> q, expiresAt |-> now + Ttl]]
    BY <1>1 DEF getOrLoad
  <2>2. due \in Version
    BY KnownIsVersion
  <2>3. query' \in [Query -> QueryType]
    BY <2>1, <2>2 DEF QueryType
  <2>4. cache' \in [Process -> EntryType]
    BY <2>1 DEF EntryType
  <2>5. load' \in [Query -> LoadType]
    <3>1. load \in [Query -> LoadType]
      BY DEF LoadType
    <3>2. load[q] \in LoadType /\ [load[q] EXCEPT !.pc = "problem"] \in LoadType
      BY <3>1 DEF LoadType
    <3> QED
      BY <2>1, <3>1, <3>2
  <2> QED
    BY <1>1, <2>3, <2>4, <2>5 DEF getOrLoad, problemVars, QueryType, EntryType, LoadType
<1>2. ASSUME NEW q \in Query, LoadProblem(q) \/ LoadTestcases(q)
      PROVE  MetadataTypeOK'
  <2>1. load \in [Query -> LoadType] /\ load[q] \in LoadType
    BY DEF LoadType
  <2>2. \A r : r = [load[q] EXCEPT !.pc = "testcases", !.problem = problem]
                \/ r = [load[q] EXCEPT !.pc = "resolved", !.testcases = testcases]
                => r \in LoadType
    BY <2>1 DEF LoadType
  <2>3. load' \in [Query -> LoadType]
    BY <1>2, <2>1, <2>2 DEF LoadProblem, LoadTestcases
  <2> QED
    BY <1>2, <2>3 DEF LoadProblem, LoadTestcases, problemVars, LoadType
<1>3. ASSUME NEW q \in Query, LoadFails(q)
      PROVE  MetadataTypeOK'
  <2>1. load \in [Query -> LoadType] /\ load[q] \in LoadType
    BY DEF LoadType
  <2>2. [load[q] EXCEPT !.pc = "rejected"] \in LoadType
    BY <2>1 DEF LoadType
  <2>3. load' \in [Query -> LoadType]
    BY <1>3, <2>1, <2>2 DEF LoadFails
  <2>4. cache' \in [Process -> EntryType]
    BY <1>3 DEF LoadFails, DropOwnEntry, NoEntry, EntryType
  <2> QED
    BY <1>3, <2>3, <2>4 DEF LoadFails, problemVars, LoadType, EntryType
<1>4. ASSUME NEW q \in Query, Served(q)
      PROVE  MetadataTypeOK'
  <2>1. query \in [Query -> QueryType] /\ query[q] \in QueryType
    BY DEF QueryType
  <2>2. \A pc \in {"served", "done"} : [query[q] EXCEPT !.pc = pc] \in QueryType
    BY <2>1 DEF QueryType
  <2>3. query' \in [Query -> QueryType]
    BY <1>4, <2>1, <2>2 DEF Served
  <2> QED
    BY <1>4, <2>3 DEF Served, problemVars, QueryType
<1>5. ASSUME NEW q \in Query, QueryEnds(q)
      PROVE  MetadataTypeOK'
  BY ZenonT(60), <1>5 DEF QueryEnds
<1>6. ASSUME NEW i \in Process, enforceMaxSize(i)
      PROVE  MetadataTypeOK'
  BY <1>6 DEF enforceMaxSize, NoEntry, problemVars
<1>7. ASSUME NEW i \in Process, EditBegins(i)
      PROVE  MetadataTypeOK'
  BY <1>7 DEF EditBegins, cacheVars
<1>8. CASE EditProblem
  BY <1>8 DEF EditProblem, cacheVars
<1>9. CASE EditTestcases
  BY <1>9 DEF EditTestcases, cacheVars
<1>10. CASE invalidateProblem
  BY <1>10 DEF invalidateProblem, Finishes, NoEntry, Finish
<1>11. CASE EditFails
  BY <1>11 DEF EditFails, cacheVars
<1>12. CASE Tick
  BY <1>12 DEF Tick, problemVars, cacheVars
<1> QED
  BY <1>1, <1>2, <1>3, <1>4, <1>5, <1>6, <1>7, <1>8, <1>9, <1>10, <1>11, <1>12
     DEF MetadataNext

\* The tables only go forward.
LEMMA TablesStep ==
    ASSUME MetadataIInv, MetadataNext
    PROVE  TablesFollow' /\ problem <= problem' /\ testcases <= testcases'
<1>1. /\ problem \in Nat /\ testcases \in Nat /\ edits \in Nat
      /\ \A f \in finished : f.edit \in Nat
  BY DEF MetadataIInv, MetadataTypeOK, Version, Finish
<1>2. TablesFollow
  BY DEF MetadataIInv
<1>3. CASE UNCHANGED problemVars
  BY <1>1, <1>2, <1>3 DEF TablesFollow, problemVars
<1>4. ASSUME NEW q \in Query, QueryEnds(q)
      PROVE  TablesFollow' /\ problem <= problem' /\ testcases <= testcases'
  BY <1>1, <1>2, <1>4 DEF TablesFollow, QueryEnds
<1>5. ASSUME NEW i \in Process, EditBegins(i)
      PROVE  TablesFollow' /\ problem <= problem' /\ testcases <= testcases'
  BY <1>1, <1>2, <1>5 DEF TablesFollow, EditBegins
<1>6. ASSUME EditProblem \/ EditTestcases \/ EditFails
      PROVE  TablesFollow' /\ problem <= problem' /\ testcases <= testcases'
  <2>1. editing \in [pc : {"idle", "problem", "testcases", "invalidate"}, at : Process]
    BY DEF MetadataIInv, MetadataTypeOK
  <2>2. /\ finished' = finished /\ edits' = edits
        /\ \/ editing'.pc = "testcases" /\ problem' = edits /\ testcases' = testcases
           \/ /\ editing'.pc = "invalidate" /\ problem' = problem /\ testcases' = edits
              /\ problem = edits
           \/ editing'.pc = "idle" /\ problem' = problem /\ testcases' = testcases
    BY <1>2, <1>6, <2>1 DEF EditProblem, EditTestcases, EditFails, TablesFollow
  <2> QED
    BY <1>1, <1>2, <2>2 DEF TablesFollow
<1>7. ASSUME invalidateProblem
      PROVE  TablesFollow' /\ problem <= problem' /\ testcases <= testcases'
  <2>1. editing'.pc = "idle"
    BY <1>7 DEF invalidateProblem, Finishes, MetadataIInv, MetadataTypeOK
  <2>2. problem = edits /\ testcases = edits
    BY <1>2, <1>7 DEF TablesFollow, invalidateProblem
  <2>3. finished' = finished \cup {[edit |-> edits, at |-> editing.at, time |-> now]}
    BY <1>7 DEF invalidateProblem, Finishes
  <2>4. \A f \in finished' : f.edit <= problem /\ f.edit <= testcases
    BY <1>1, <1>2, <2>2, <2>3 DEF TablesFollow
  <2> QED
    BY <1>1, <1>2, <1>7, <2>1, <2>4 DEF TablesFollow, invalidateProblem
<1> QED
  BY <1>3, <1>4, <1>5, <1>6, <1>7
     DEF MetadataNext, getOrLoad, LoadProblem, LoadTestcases, LoadFails, Served,
         enforceMaxSize, Tick

LEMMA BegunStep ==
    ASSUME MetadataIInv, MetadataNext
    PROVE  LoadsBegun'
<1>1. /\ load \in [Query -> LoadType] /\ query \in [Query -> QueryType]
      /\ LoadsBegun
  BY SMTT(30) DEF MetadataIInv, MetadataTypeOK, LoadType, QueryType
<1>2. \A q \in Query : query[q].pc # "idle" => query'[q].pc # "idle"
  <2>1. ASSUME NEW r \in Query, NEW i \in Process, getOrLoad(r, i)
        PROVE  \A q \in Query : q = r \/ query'[q] = query[q]
    BY <1>1, <2>1 DEF getOrLoad
  <2>2. ASSUME NEW r \in Query, NEW i \in Process, getOrLoad(r, i)
        PROVE  query[r].pc = "idle"
    BY <2>2 DEF getOrLoad
  <2>3. ASSUME NEW r \in Query, Served(r) \/ QueryEnds(r)
        PROVE  query'[r].pc # "idle" /\ \A q \in Query : q = r \/ query'[q] = query[q]
    BY <1>1, <2>3 DEF Served, QueryEnds, QueryType
  <2>4. CASE UNCHANGED query
    BY <2>4
  <2> QED
    BY <2>1, <2>2, <2>3, <2>4
       DEF MetadataNext, LoadProblem, LoadTestcases, LoadFails, enforceMaxSize, EditBegins,
           EditProblem, EditTestcases, invalidateProblem, EditFails, Tick, cacheVars
<1>3. \A q \in Query : load'[q].pc # "none" => load[q].pc # "none" \/ query'[q].pc # "idle"
  <2>1. ASSUME NEW r \in Query, NEW i \in Process, getOrLoad(r, i)
        PROVE  \A q \in Query : q = r \/ load'[q] = load[q]
    BY <1>1, <2>1 DEF getOrLoad
  <2>2. ASSUME NEW r \in Query, NEW i \in Process, getOrLoad(r, i)
        PROVE  query'[r].pc # "idle"
    BY <1>1, <2>2 DEF getOrLoad
  <2>3. ASSUME NEW r \in Query, LoadProblem(r) \/ LoadTestcases(r) \/ LoadFails(r)
        PROVE  load[r].pc # "none" /\ \A q \in Query : q = r \/ load'[q] = load[q]
    BY <1>1, <2>3 DEF LoadProblem, LoadTestcases, LoadFails
  <2>4. CASE UNCHANGED load
    BY <2>4
  <2> QED
    BY <2>1, <2>2, <2>3, <2>4
       DEF MetadataNext, Served, QueryEnds, enforceMaxSize, EditBegins, EditProblem,
           EditTestcases, invalidateProblem, EditFails, Tick, cacheVars
<1> QED
  BY <1>1, <1>2, <1>3 DEF LoadsBegun

LEMMA ForgottenStep ==
    ASSUME MetadataIInv, MetadataNext
    PROVE  FailureIsForgotten'
<1>1. /\ load \in [Query -> LoadType] /\ cache \in [Process -> EntryType]
      /\ FailureIsForgotten /\ NoQuery \notin Query
  BY MetadataAssumption DEF MetadataIInv, MetadataTypeOK, LoadType, EntryType
<1>2. ASSUME NEW q \in Query, NEW i \in Process, getOrLoad(q, i)
      PROVE  FailureIsForgotten'
  <2>1. CASE UNCHANGED <<cache, load>>
    BY <1>1, <2>1 DEF FailureIsForgotten
  <2>2. CASE /\ load' = [load EXCEPT ![q].pc = "problem"]
             /\ cache' = [cache EXCEPT ![i] = [load |-> q, expiresAt |-> now + Ttl]]
    BY <1>1, <2>2 DEF FailureIsForgotten, LoadType, EntryType
  <2> QED
    BY <1>2, <2>1, <2>2 DEF getOrLoad
<1>3. ASSUME NEW q \in Query, LoadProblem(q) \/ LoadTestcases(q)
      PROVE  FailureIsForgotten'
  <2>1. load'[q].pc # "rejected" /\ \A l \in Query : l = q \/ load'[l] = load[l]
    BY <1>1, <1>3 DEF LoadProblem, LoadTestcases, LoadType
  <2> QED
    BY <1>1, <1>3, <2>1 DEF FailureIsForgotten, LoadProblem, LoadTestcases, EntryType
<1>4. ASSUME NEW q \in Query, LoadFails(q)
      PROVE  FailureIsForgotten'
  <2>1. \A l \in Query : l = q \/ load'[l] = load[l]
    BY <1>1, <1>4 DEF LoadFails
  <2>2. \A i \in Process : cache'[i] = IF cache[i].load = q THEN NoEntry ELSE cache[i]
    BY <1>4 DEF LoadFails, DropOwnEntry
  <2> QED
    BY <1>1, <2>1, <2>2 DEF FailureIsForgotten, EntryType, NoEntry
<1>5. CASE /\ UNCHANGED load
           /\ \A i \in Process : cache'[i] = cache[i] \/ cache'[i] = NoEntry
  BY <1>1, <1>5 DEF FailureIsForgotten, NoEntry
<1>6. ASSUME \/ \E q \in Query : Served(q) \/ QueryEnds(q)
             \/ \E i \in Process : enforceMaxSize(i) \/ EditBegins(i)
             \/ EditProblem \/ EditTestcases \/ invalidateProblem \/ EditFails \/ Tick
      PROVE  FailureIsForgotten'
  <2>1. UNCHANGED load /\ \A i \in Process : cache'[i] = cache[i] \/ cache'[i] = NoEntry
    BY <1>1, <1>6
       DEF Served, QueryEnds, enforceMaxSize, EditBegins, EditProblem, EditTestcases,
           invalidateProblem, EditFails, Tick, cacheVars
  <2> QED
    BY <1>5, <2>1
<1> QED
  BY <1>2, <1>3, <1>4, <1>6 DEF MetadataNext

-----------------------------------------------------------------------------
\* What has been read stays read, and what is read next is at least what the tables hold.
LEMMA ReadsKeep ==
    ASSUME MetadataIInv, MetadataNext, NEW l \in Query, NEW v \in Nat,
           v <= problem, v <= testcases, ReadsFrom(l, v)
    PROVE  ReadsFrom(l, v)'
<1>1. /\ load \in [Query -> LoadType] /\ load[l] \in LoadType
      /\ problem \in Nat /\ testcases \in Nat
  BY DEF MetadataIInv, MetadataTypeOK, LoadType, Version
<1>2. CASE load'[l] = load[l]
  BY <1>2 DEF ReadsFrom
<1>3. ASSUME NEW i \in Process, getOrLoad(l, i)
      PROVE  ReadsFrom(l, v)'
  <2>1. CASE UNCHANGED load
    BY <1>2, <2>1
  <2>2. CASE load' = [load EXCEPT ![l].pc = "problem"]
    <3>1. load'[l].pc = "problem"
      BY <1>1, <2>2 DEF LoadType
    <3> QED
      BY <3>1 DEF ReadsFrom
  <2> QED
    BY <1>3, <2>1, <2>2 DEF getOrLoad
<1>4. CASE LoadProblem(l)
  <2>1. load'[l].pc = "testcases" /\ load'[l].problem = problem
    BY <1>1, <1>4 DEF LoadProblem, LoadType
  <2> QED
    BY <2>1 DEF ReadsFrom
<1>5. CASE LoadTestcases(l)
  <2>1. /\ load'[l].pc = "resolved" /\ load'[l].testcases = testcases
        /\ load'[l].problem = load[l].problem /\ load[l].pc = "testcases"
    BY <1>1, <1>5 DEF LoadTestcases, LoadType
  <2> QED
    BY <2>1 DEF ReadsFrom
<1>6. CASE LoadFails(l)
  <2>1. load'[l].pc = "rejected"
    BY <1>1, <1>6 DEF LoadFails, LoadType
  <2> QED
    BY <2>1 DEF ReadsFrom
<1>7. ASSUME NEW q \in Query \ {l}, NEW i \in Process, getOrLoad(q, i)
      PROVE  load'[l] = load[l]
  BY <1>1, <1>7 DEF getOrLoad
<1>8. ASSUME NEW q \in Query \ {l}, LoadProblem(q) \/ LoadTestcases(q) \/ LoadFails(q)
      PROVE  load'[l] = load[l]
  BY <1>1, <1>8 DEF LoadProblem, LoadTestcases, LoadFails
<1>9. CASE UNCHANGED load
  BY <1>2, <1>9
<1> QED
  BY <1>2, <1>3, <1>4, <1>5, <1>6, <1>7, <1>8, <1>9
     DEF MetadataNext, Served, QueryEnds, enforceMaxSize, EditBegins, EditProblem,
         EditTestcases, invalidateProblem, EditFails, Tick, cacheVars

\* How a step may change the entry of a process, and the history of edits.
LEMMA EntryStep ==
    ASSUME MetadataIInv, MetadataNext, NEW i \in Process
    PROVE  /\ \/ cache'[i] = cache[i]
              \/ cache'[i] = NoEntry
              \/ /\ finished' = finished /\ now' = now
                 /\ \E q \in Query : /\ load'[q].pc = "problem"
                                     /\ cache'[i] = [load |-> q, expiresAt |-> now + Ttl]
           /\ \/ finished' = finished
              \/ /\ finished' = finished \cup {[edit |-> edits, at |-> editing.at, time |-> now]}
                 /\ now' = now
                 /\ cache'[editing.at] = NoEntry
           /\ now \in Nat /\ now' \in Nat /\ now <= now'
<1>1. /\ load \in [Query -> LoadType] /\ cache \in [Process -> EntryType]
      /\ now \in Nat /\ editing.at \in Process
  BY DEF MetadataIInv, MetadataTypeOK, LoadType, EntryType
<1>2. ASSUME NEW q \in Query, NEW j \in Process, getOrLoad(q, j)
      PROVE  \/ cache'[i] = cache[i]
             \/ /\ load'[q].pc = "problem"
                /\ cache'[i] = [load |-> q, expiresAt |-> now + Ttl]
  <2>1. CASE UNCHANGED cache
    BY <2>1
  <2>2. CASE /\ load' = [load EXCEPT ![q].pc = "problem"]
             /\ cache' = [cache EXCEPT ![j] = [load |-> q, expiresAt |-> now + Ttl]]
    BY <1>1, <2>2 DEF LoadType
  <2> QED
    BY <1>2, <2>1, <2>2 DEF getOrLoad
<1>3. ASSUME NEW q \in Query, NEW j \in Process, getOrLoad(q, j)
      PROVE  finished' = finished /\ now' = now
  BY <1>3 DEF getOrLoad, problemVars
<1>4. ASSUME NEW q \in Query, LoadFails(q)
      PROVE  cache'[i] = cache[i] \/ cache'[i] = NoEntry
  BY <1>4 DEF LoadFails, DropOwnEntry
<1>5. ASSUME NEW j \in Process, enforceMaxSize(j)
      PROVE  cache'[i] = cache[i] \/ cache'[i] = NoEntry
  BY <1>1, <1>5 DEF enforceMaxSize
<1>6. ASSUME invalidateProblem
      PROVE  /\ cache'[i] = cache[i] \/ cache'[i] = NoEntry
             /\ finished' = finished \cup {[edit |-> edits, at |-> editing.at, time |-> now]}
             /\ now' = now
             /\ cache'[editing.at] = NoEntry
  BY SMTT(30), <1>1, <1>6 DEF invalidateProblem, Finishes
<1>7. ASSUME \/ \E q \in Query : LoadProblem(q) \/ LoadTestcases(q) \/ Served(q) \/ QueryEnds(q)
             \/ \E j \in Process : EditBegins(j)
             \/ EditProblem \/ EditTestcases \/ EditFails \/ Tick
      PROVE  cache' = cache /\ finished' = finished /\ (now' = now \/ now' = now + 1)
  BY <1>7 DEF LoadProblem, LoadTestcases, Served, QueryEnds, EditBegins, EditProblem,
              EditTestcases, EditFails, Tick, cacheVars, problemVars
<1>8. ASSUME (\E q \in Query : LoadFails(q)) \/ \E j \in Process : enforceMaxSize(j)
      PROVE  finished' = finished /\ now' = now
  BY <1>8 DEF LoadFails, enforceMaxSize, problemVars
<1>9. ASSUME NEW q \in Query, NEW j \in Process, getOrLoad(q, j)
      PROVE  \/ cache'[i] = cache[i]
             \/ \E r \in Query : /\ load'[r].pc = "problem"
                                 /\ cache'[i] = [load |-> r, expiresAt |-> now + Ttl]
  BY <1>2, <1>9
<1>10. now' = now \/ now' = now + 1
  BY <1>3, <1>6, <1>7, <1>8 DEF MetadataNext, invalidateProblem
<1>11. \/ cache'[i] = cache[i]
       \/ cache'[i] = NoEntry
       \/ /\ finished' = finished /\ now' = now
          /\ \E q \in Query : /\ load'[q].pc = "problem"
                              /\ cache'[i] = [load |-> q, expiresAt |-> now + Ttl]
  BY <1>3, <1>4, <1>5, <1>6, <1>7, <1>9 DEF MetadataNext
<1>12. \/ finished' = finished
       \/ /\ finished' = finished \cup {[edit |-> edits, at |-> editing.at, time |-> now]}
          /\ now' = now
          /\ cache'[editing.at] = NoEntry
  BY <1>3, <1>6, <1>7, <1>8 DEF MetadataNext
<1>13. now' \in Nat /\ now <= now'
  BY <1>1, <1>10
<1> QED
  BY <1>1, <1>11, <1>12, <1>13

LEMMA EntriesStep ==
    ASSUME MetadataIInv, MetadataNext
    PROVE  EntriesFresh'
<1>1. SUFFICES ASSUME NEW i \in Process, cache'[i].load # NoQuery
               PROVE  /\ cache'[i].expiresAt <= now' + Ttl
                      /\ \A f \in finished' :
                           f.at = i \/ f.time + Ttl < cache'[i].expiresAt =>
                               ReadsFrom(cache[i].load, f.edit)'
  BY <1>1 DEF EntriesFresh, ReadsFrom
<1>2. cache'[i] # NoEntry
  BY <1>1 DEF NoEntry
<1>3. Ttl \in Nat
  BY MetadataAssumption
<1>4. /\ now \in Nat /\ now' \in Nat /\ now <= now'
  BY EntryStep
<1>5. CASE cache'[i] = cache[i]
  <2>1. /\ cache[i].load \in Query /\ cache[i].expiresAt \in Nat
        /\ cache[i].expiresAt <= now + Ttl
    BY <1>1, <1>5 DEF MetadataIInv, MetadataTypeOK, EntriesFresh
  <2>2. ASSUME NEW f \in finished, f.at = i \/ f.time + Ttl < cache[i].expiresAt
        PROVE  ReadsFrom(cache[i].load, f.edit)'
    <3>1. /\ f.edit \in Nat /\ f.edit <= problem /\ f.edit <= testcases
      BY DEF MetadataIInv, MetadataTypeOK, TablesFollow, Finish, Version
    <3>2. ReadsFrom(cache[i].load, f.edit)
      BY <1>1, <1>5, <2>2 DEF MetadataIInv, EntriesFresh
    <3> DEFINE l == cache[i].load
               v == f.edit
    <3>3. l \in Query /\ v \in Nat /\ v <= problem /\ v <= testcases /\ ReadsFrom(l, v)
      BY <2>1, <3>1, <3>2
    <3>4. PICK k \in Query, u \in Nat : k = l /\ u = v
      BY <3>3
    <3>5. k = cache[i].load /\ u = f.edit /\ k = cache'[i].load
      BY <1>5, <3>4
    <3>6. ReadsFrom(k, u)'
      BY <3>3, <3>4, ReadsKeep
    <3> QED
      BY <3>5, <3>6 DEF ReadsFrom
  <2>3. ASSUME finished' = finished \cup {[edit |-> edits, at |-> editing.at, time |-> now]},
               cache'[editing.at] = NoEntry, NEW f \in finished', f \notin finished
        PROVE  f.at # i /\ ~(f.time + Ttl < cache[i].expiresAt)
    BY <1>2, <1>3, <1>4, <2>1, <2>3
  <2>4. ASSUME NEW f \in finished', f.at = i \/ f.time + Ttl < cache[i].expiresAt
        PROVE  f \in finished
    BY <2>3, <2>4, EntryStep
  <2> QED
    BY <1>3, <1>4, <1>5, <2>1, <2>2, <2>4
<1>6. CASE /\ finished' = finished /\ now' = now
           /\ \E q \in Query : /\ load'[q].pc = "problem"
                               /\ cache'[i] = [load |-> q, expiresAt |-> now + Ttl]
  BY <1>3, <1>4, <1>6 DEF ReadsFrom
<1> QED
  BY <1>2, <1>5, <1>6, EntryStep

\* A request that a step leaves alone.
LEMMA QueryKeeps ==
    ASSUME MetadataIInv, MetadataNext, NEW q \in Query, query'[q] = query[q],
           query[q].pc \in {"waiting", "served"}
    PROVE  /\ query[q].via \in Query
           /\ query[q].due <= problem' /\ query[q].due <= testcases'
           /\ ReadsFrom(query[q].via, query[q].due)'
           /\ query[q].pc = "served" => load'[query[q].via].pc = "resolved"
<1> DEFINE l == query[q].via
           v == query[q].due
<1>1. /\ problem \in Nat /\ testcases \in Nat /\ problem' \in Nat /\ testcases' \in Nat
      /\ load \in [Query -> LoadType] /\ LoadsBegun
  BY MetadataTypeStep DEF MetadataIInv, MetadataTypeOK, Version, LoadType
<1>2. /\ l \in Query /\ v \in Nat /\ v <= problem /\ v <= testcases /\ ReadsFrom(l, v)
      /\ query[q].pc = "served" => load[l].pc = "resolved"
  BY DEF MetadataIInv, MetadataTypeOK, Version, QueriesFresh
<1>3. v <= problem' /\ v <= testcases'
  BY <1>1, <1>2, TablesStep
<1>4. PICK k \in Query, u \in Nat : k = l /\ u = v
  BY <1>2
<1>5. ReadsFrom(k, u)'
  BY <1>2, <1>4, ReadsKeep
<1>6. load[k].pc = "resolved" => load'[k].pc = "resolved"
  <2>1. ASSUME NEW r \in Query, NEW i \in Process, getOrLoad(r, i), load[k].pc = "resolved"
        PROVE  load'[k] = load[k]
    <3>1. r # k
      BY <1>1, <2>1 DEF LoadsBegun, getOrLoad
    <3> QED
      BY <1>1, <2>1, <3>1 DEF getOrLoad
  <2>2. ASSUME NEW r \in Query, LoadProblem(r) \/ LoadTestcases(r) \/ LoadFails(r),
               load[k].pc = "resolved"
        PROVE  load'[k] = load[k]
    <3>1. r # k
      BY <2>2 DEF LoadProblem, LoadTestcases, LoadFails
    <3> QED
      BY <1>1, <2>2, <3>1 DEF LoadProblem, LoadTestcases, LoadFails
  <2>3. CASE UNCHANGED load
    BY <2>3
  <2> QED
    BY <2>1, <2>2, <2>3
       DEF MetadataNext, Served, QueryEnds, enforceMaxSize, EditBegins, EditProblem,
           EditTestcases, invalidateProblem, EditFails, Tick, cacheVars
<1>7. ReadsFrom(query[q].via, query[q].due)'
  <2>1. k = query'[q].via /\ u = query'[q].due
    BY SMTT(30), <1>4
  <2> QED
    BY <1>5, <2>1 DEF ReadsFrom
<1> QED
  BY <1>2, <1>3, <1>4, <1>6, <1>7

LEMMA QueriesStep ==
    ASSUME MetadataIInv, MetadataNext
    PROVE  QueriesFresh'
<1>1. SUFFICES ASSUME NEW r \in Query, query'[r].pc \in {"waiting", "served"}
               PROVE  /\ query'[r].via \in Query
                      /\ query'[r].due <= problem' /\ query'[r].due <= testcases'
                      /\ ReadsFrom(query[r].via, query[r].due)'
                      /\ query'[r].pc = "served" => load'[query'[r].via].pc = "resolved"
  BY <1>1 DEF QueriesFresh, ReadsFrom
<1>2. /\ query \in [Query -> QueryType] /\ query[r] \in QueryType
      /\ load \in [Query -> LoadType] /\ cache \in [Process -> EntryType]
      /\ problem \in Nat /\ testcases \in Nat
  BY DEF MetadataIInv, MetadataTypeOK, LoadType, QueryType, EntryType, Version
<1>3. CASE query'[r] = query[r]
  BY <1>1, <1>3, QueryKeeps
<1>4. ASSUME NEW i \in Process, getOrLoad(r, i)
      PROVE  /\ query'[r].via \in Query
             /\ query'[r].due <= problem' /\ query'[r].due <= testcases'
             /\ ReadsFrom(query[r].via, query[r].due)'
             /\ query'[r].pc = "waiting"
  <2> DEFINE hit == cache[i].load # NoQuery /\ cache[i].expiresAt > now
  <2>1. PICK due \in {0} \cup KnownAt(i) :
          /\ query' = [query EXCEPT ![r] = [pc |-> "waiting", at |-> i, due |-> due,
                                            via |-> IF hit THEN cache[i].load ELSE r]]
          /\ IF hit
             THEN UNCHANGED <<cache, load>>
             ELSE load' = [load EXCEPT ![r].pc = "problem"]
    BY <1>4 DEF getOrLoad
  <2>2. /\ query'[r].pc = "waiting" /\ query'[r].due = due
        /\ query'[r].via = IF hit THEN cache[i].load ELSE r
    BY <1>2, <2>1
  <2>3. UNCHANGED <<problem, testcases>>
    BY <1>4 DEF getOrLoad, problemVars
  <2>4. due \in Nat /\ due <= problem /\ due <= testcases
    <3>1. \A f \in finished : f.edit \in Nat /\ f.edit <= problem /\ f.edit <= testcases
      BY DEF MetadataIInv, MetadataTypeOK, TablesFollow, Finish, Version
    <3> QED
      BY <1>2, <3>1 DEF KnownAt
  <2>5. query'[r].via \in Query
    BY <1>2, <2>2 DEF EntryType
  <2>6. CASE hit
    <3>1. ReadsFrom(cache[i].load, due)
      <4>1. CASE due = 0
        <5>1. cache[i].load \in Query
          BY <1>2, <2>6 DEF EntryType
        <5>2. load[cache[i].load].problem \in Nat /\ load[cache[i].load].testcases \in Nat
          BY <1>2, <5>1 DEF LoadType, Version
        <5> QED
          BY <4>1, <5>2 DEF ReadsFrom
      <4>2. CASE due # 0
        <5>1. PICK f \in finished : f.edit = due /\ (f.at = i \/ f.time + Ttl <= now)
          BY <4>2 DEF KnownAt
        <5>2. /\ f.time \in Nat /\ now \in Nat /\ cache[i].expiresAt \in Nat
          BY <1>2 DEF MetadataIInv, MetadataTypeOK, Finish, EntryType
        <5>3. f.at = i \/ f.time + Ttl < cache[i].expiresAt
          BY <2>6, <5>1, <5>2, MetadataAssumption
        <5> QED
          BY <2>6, <5>1, <5>3 DEF MetadataIInv, EntriesFresh
      <4> QED
        BY <4>1, <4>2
    <3>2. query'[r].via = cache[i].load /\ load' = load
      BY <2>1, <2>2, <2>6
    <3> QED
      BY <2>2, <2>3, <2>4, <2>5, <3>1, <3>2 DEF ReadsFrom
  <2>7. CASE ~hit
    <3>1. query'[r].via = r /\ load'[r].pc = "problem"
      BY <1>2, <2>1, <2>2, <2>7 DEF LoadType
    <3> QED
      BY <2>2, <2>3, <2>4, <2>5, <3>1 DEF ReadsFrom
  <2> QED
    BY <2>6, <2>7
<1>5. ASSUME Served(r)
      PROVE  /\ query[r].pc = "waiting" /\ load' = load
             /\ query'[r].via = query[r].via /\ query'[r].due = query[r].due
             /\ query'[r].pc = "served" => load[query[r].via].pc = "resolved"
             /\ UNCHANGED <<problem, testcases>>
  BY <1>2, <1>5 DEF Served, problemVars, QueryType
<1>6. CASE Served(r)
  <2>1. /\ query[r].via \in Query /\ query[r].due <= problem /\ query[r].due <= testcases
        /\ ReadsFrom(query[r].via, query[r].due)
    BY <1>5, <1>6 DEF MetadataIInv, QueriesFresh
  <2> QED
    BY <1>5, <1>6, <2>1 DEF ReadsFrom
<1>7. ASSUME QueryEnds(r)
      PROVE  FALSE
  BY <1>1, <1>2, <1>7 DEF QueryEnds, QueryType
<1>8. ASSUME NEW q \in Query \ {r}, NEW i \in Process, getOrLoad(q, i)
      PROVE  query'[r] = query[r]
  BY <1>2, <1>8 DEF getOrLoad
<1>9. ASSUME NEW q \in Query \ {r}, Served(q) \/ QueryEnds(q)
      PROVE  query'[r] = query[r]
  BY <1>2, <1>9 DEF Served, QueryEnds
<1>10. CASE UNCHANGED query
  BY <1>3, <1>10
<1> QED
  BY <1>3, <1>4, <1>6, <1>7, <1>8, <1>9, <1>10
     DEF MetadataNext, LoadProblem, LoadTestcases, LoadFails, enforceMaxSize, EditBegins,
         EditProblem, EditTestcases, invalidateProblem, EditFails, Tick, cacheVars

-----------------------------------------------------------------------------
LEMMA MetadataStepHolds == MetadataIInv /\ [MetadataNext]_metadataVars => MetadataIInv'
<1>1. ASSUME MetadataIInv, MetadataNext PROVE MetadataIInv'
  BY <1>1, MetadataTypeStep, TablesStep, BegunStep, ForgottenStep, EntriesStep, QueriesStep
     DEF MetadataIInv
<1>2. ASSUME MetadataIInv, UNCHANGED metadataVars PROVE MetadataIInv'
  BY <1>2
     DEF MetadataIInv, MetadataTypeOK, Version, Finish, TablesFollow, EntriesFresh, QueriesFresh,
              ReadsFrom, LoadsBegun, FailureIsForgotten, metadataVars
<1> QED
  BY <1>1, <1>2

LEMMA MetadataInvariant == MetadataSpec => []MetadataIInv
BY MetadataInitHolds, MetadataStepHolds, PTL DEF MetadataSpec

\* Problems and test cases, entries, loads and requests have their types.
THEOREM MetadataTypes == MetadataSpec => []MetadataTypeOK
<1>1. MetadataIInv => MetadataTypeOK
  BY DEF MetadataIInv
<1> QED
  BY <1>1, MetadataInvariant, PTL

\* However loads, edits and shared promises interleave, no request is served a problem or
\* test cases from before an edit that ended in its process (updateChallenge invalidates)
\* before it came, or a time to live ago in another process.
THEOREM EditsAreSeen == MetadataSpec => []EditIsSeen
<1>1. MetadataIInv => EditIsSeen
  BY DEF MetadataIInv, QueriesFresh, ReadsFrom, EditIsSeen, MetadataTypeOK, Version
<1> QED
  BY <1>1, MetadataInvariant, PTL

\* The promise of a load that failed is in no cache: getOrLoad's handler drops it.
THEOREM FailuresAreForgotten == MetadataSpec => []FailureIsForgotten
<1>1. MetadataIInv => FailureIsForgotten
  BY DEF MetadataIInv
<1> QED
  BY <1>1, MetadataInvariant, PTL
=============================================================================
