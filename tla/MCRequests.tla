------------------------------- MODULE MCRequests -------------------------------
(***************************************************************************)
(* Five components whose statements race only with those of other          *)
(* requests, on small instances.  They share nothing these modules model,  *)
(* so each behaviour moves one of them: "under" says which, and the states *)
(* checked are the sum of theirs.  Of requests and processes that are      *)
(* alike, q1 and m1 come first and p1 makes the edit:                      *)
(*   entry        - one person's way into an exam                          *)
(*   merge        - no invites; not followed once a merge is overtaken,    *)
(*                  when MergeLosesNothing says nothing any more           *)
(*   closing      - an exam's status: no attempts, no new terms            *)
(*   terms        - its terms and attempts: no participants, shown or not  *)
(*   expiry       - one edit, entries of the metadata cache expire         *)
(*   passwords    - one account, a login, a Google login, a change and a   *)
(*                  reset of the password                                  *)
(*   audits       - logins of three accounts, no changes of passwords      *)
(***************************************************************************)
EXTENDS ExamEntry, ExamMerge, ExamLifecycle, ProblemMetadata, AccountSessions, TLC

CONSTANTS t1, t2, m1, p1, q1, u1, l1, l2, l3, c1

VARIABLE under

accessVars == <<entryVars, mergeVars, lifecycleVars>>
otherVars == <<metadataVars, accountVars>>
vars == <<accessVars, otherVars, under>>

Tabs == Permutations({t1, t2})

Init ==
    /\ EntryInit /\ MergeInit /\ LifecycleInit /\ MetadataInit /\ AccountInit
    /\ under \in {"entry", "merge", "closing", "terms", "expiry", "passwords", "audits"}
    \* Initial values that no component tells apart are one.
    /\ under # "entry" => account = "none"
    /\ editing.at = p1
    /\ \A m \in Merger : merge[m].src = CHOOSE p \in Participant : TRUE

Access ==
    /\ UNCHANGED otherVars
    /\ \/ under = "entry" /\ EntryNext /\ UNCHANGED <<mergeVars, lifecycleVars>>
       \/ /\ under = "merge" /\ MergeNext /\ UNCHANGED <<entryVars, lifecycleVars>>
          /\ merge'[m1].pc = "idle" => merge' = merge
          /\ ~overtaken
          /\ \A r \in rows' : r.kind # "invite"
       \/ /\ under = "closing" /\ LifecycleNext /\ UNCHANGED <<entryVars, mergeVars>>
          /\ \A c \in Candidate : candidate'[c].pc # "join"
          /\ \A r \in Staff : admin'[r].edit.terms = Keep
       \/ /\ under = "terms" /\ LifecycleNext /\ UNCHANGED <<entryVars, mergeVars>>
          /\ \A c \in Candidate : candidate'[c].pc \notin {"register", "add"}
          /\ \A r \in Staff : admin'[r].edit.isVisible = "keep" /\ admin'[r].pc # "publish"
          /\ ~exam'.isVisible

\* One account: l1 logs in with the password and l2 with Google, c1 changes and c2 resets.
PasswordsOfOne ==
    /\ \A l \in Login : login'[l].user \in {NoUser, u1} /\ token'[l] # "expired"
    /\ \A c \in Change : change'[c].user \in {NoUser, u1}
    /\ \A c \in Change : change'[c].pc = "new" \/ change'[c].code = (c # c1)
    /\ otpStore' \subseteq {u1} /\ activeAudits' = 0
    /\ login'[l1].pc # "known" /\ login'[l2].pc # "verified" /\ login'[l3].pc = "new"

\* The token of l3 alone expires or is revoked.
AuditsOnly ==
    /\ change' = change /\ otpStore' = {}
    /\ \A l \in Login : login'[l].pc # "known"
    /\ \A l \in Login \ {l3} : token'[l] \in {"none", "live"}

Others ==
    /\ UNCHANGED accessVars
    /\ \/ /\ under = "expiry" /\ MetadataNext /\ UNCHANGED accountVars
          /\ query'[q1].pc = "idle" => query' = query
          /\ editing'.at = p1
       \/ under = "passwords" /\ AccountNext /\ UNCHANGED metadataVars /\ PasswordsOfOne
       \/ under = "audits" /\ AccountNext /\ UNCHANGED metadataVars /\ AuditsOnly

Next == UNCHANGED under /\ (Access \/ Others)

Spec == Init /\ [][Next]_vars
=============================================================================
