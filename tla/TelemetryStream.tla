---------------------------- MODULE TelemetryStream ----------------------------
(***************************************************************************)
(* Proctoring telemetry of one participation: the web socket and the final *)
(* flush of a submit append events to a Redis stream, and polls of the     *)
(* telemetry persisters, which belong to one consumer group, store them.   *)
(* Redis redelivers what was not acknowledged.  The submit request waits   *)
(* for the receipt of the flush.                                           *)
(*                                                                         *)
(* An entry is named by its place in the stream, and time is left out: an  *)
(* entry that is pending may be claimed, and a guard may give up, at any   *)
(* moment.  The web socket is TelemetrySocket's subject, the AI jobs a     *)
(* poll enqueues, swallowing the errors, that of ProctoringAiJobs.         *)
(***************************************************************************)
EXTENDS Naturals, FiniteSets, Sequences, FiniteSetsExt

CONSTANTS
    Event,      \* events of the client session, by client sequence number
    FlushEvent, \* those the client sends in the final flush
    Malformed,  \* those the persister cannot parse
    Rejected,   \* those the table refuses: their exam or session has been deleted
    Pass,       \* polls that may overlap, of one persister or of several
    BatchSize,  \* COUNT of XREADGROUP and XAUTOCLAIM
    MaxEntries, \* bound on the stream
    MaxFaults   \* bound on errors and crashes

ASSUME TelemetryAssumption ==
    /\ Event \subseteq Nat /\ FlushEvent \subseteq Event 
    /\ Malformed \subseteq Event /\ Rejected \subseteq Event
    /\ BatchSize \in Nat \ {0} /\ MaxEntries \in Nat /\ MaxFaults \in Nat

VARIABLES
    stream,    \* the Redis stream, oldest entry first
    read,      \* how many entries the consumer group has handed out
    pending,   \* entries handed out and not acknowledged
    dead,      \* entries copied to the dead-letter stream
    events,    \* rows of exam_proctoring_events, by their unique key
    summary,   \* events the row of exam_proctoring_summaries was computed from
    receipt,   \* status of the final flush receipt
    flush,     \* the request that sends the final flush
    guard,     \* the submit request's wait for the receipt
    pass,      \* the polls
    overlap,   \* history: two summaries were under way at once
    telemetryFaults

storeVars == <<events, summary>>
telemetryVars == <<stream, read, pending, dead, storeVars, receipt, flush,
                   guard, pass, overlap, telemetryFaults>>

InFlight == {"received", "persisting"}
Waiting  == [pc |-> "idle", phase |-> "old", batch |-> {}, snap |-> {}]
Step     == {"idle", "claim", "read", "parse", "drop", "insert", "receipt",
             "select", "upsert", "ack"}

TelemetryTypeOK ==
    /\ stream \in Seq([seq : Event, flush : BOOLEAN]) /\ Len(stream) <= MaxEntries
    /\ read \in 0..Len(stream) /\ pending \subseteq 1..read /\ dead \subseteq 1..read
    /\ events \subseteq Event /\ summary \subseteq Event
    /\ receipt \in InFlight \cup {"none", "persisted", "timeout"}
    /\ flush \in [pc : {"none", "appending", "sent", "failed"}, rest : SUBSET Event]
    /\ guard \in [pc : {"none", "polling", "select", "upsert", "persisted", "timeout",
                        "error"}, snap : SUBSET Event]
    /\ pass \in [Pass -> [pc : Step, phase : {"old", "new"}, batch : SUBSET (1..MaxEntries),
                          snap : SUBSET Event]]
    /\ overlap \in BOOLEAN /\ telemetryFaults \in 0..MaxFaults

TelemetryInit ==
    /\ stream = <<>> /\ read = 0 /\ pending = {} /\ dead = {}
    /\ events = {} /\ summary = {}
    /\ receipt = "none" /\ flush = [pc |-> "none", rest |-> {}]
    /\ guard = [pc |-> "none", snap |-> {}]
    /\ pass = [p \in Pass |-> Waiting]
    /\ overlap = FALSE /\ telemetryFaults = 0

Fails == telemetryFaults < MaxFaults /\ telemetryFaults' = telemetryFaults + 1

appendTelemetryEvent(e, isFlush) ==
    Len(stream) < MaxEntries /\ stream' = Append(stream, [seq |-> e, flush |-> isFlush])

SocketAppends(e) ==
    /\ appendTelemetryEvent(e, FALSE)
    /\ UNCHANGED <<read, pending, dead, storeVars, receipt, flush, guard, pass, overlap,
                   telemetryFaults>>

--------------------------------------------------------------------------------
(* submitFinalFlush: the receipt first, then the events one by one.            *)

\* A retry of the same submit attempt finds the row and resets its status.
FlushBegins ==
    /\ flush.pc \in {"none", "failed"}
    /\ receipt' = IF FlushEvent = {} THEN "persisted" ELSE "received"
    /\ flush' = [pc |-> "appending", rest |-> FlushEvent]
    /\ UNCHANGED <<stream, read, pending, dead, storeVars, guard, pass, overlap,
                   telemetryFaults>>

FlushAppends ==
    /\ flush.pc = "appending" /\ flush.rest # {}
    /\ LET e == Min(flush.rest) IN
       /\ appendTelemetryEvent(e, TRUE)
       /\ flush' = [flush EXCEPT !.rest = @ \ {e}]
    /\ UNCHANGED <<read, pending, dead, storeVars, receipt, guard, pass,
                   overlap, telemetryFaults>>

FlushEnds ==
    /\ flush.pc = "appending"
    /\ \/ flush.rest = {} /\ flush' = [flush EXCEPT !.pc = "sent"]
          /\ UNCHANGED telemetryFaults
       \/ Fails /\ flush' = [pc |-> "failed", rest |-> {}]
    /\ UNCHANGED <<stream, read, pending, dead, storeVars, receipt, guard, pass,
                   overlap>>

--------------------------------------------------------------------------------
(* awaitFinalFlushReceipt, called by submitActiveParticipation.                *)

GuardBegins ==
    /\ guard.pc \in {"none", "error"}
    /\ guard' = [guard EXCEPT !.pc = "polling"]
    /\ UNCHANGED <<stream, read, pending, dead, storeVars, receipt, flush, pass,
                   overlap, telemetryFaults>>

GuardSeesReceipt ==
    /\ guard.pc = "polling"
    /\ \/ receipt = "persisted" /\ guard' = [guard EXCEPT !.pc = "persisted"]
       \/ receipt = "timeout" /\ guard' = [guard EXCEPT !.pc = "select"]
    /\ UNCHANGED <<stream, read, pending, dead, storeVars, receipt, flush, pass,
                   overlap, telemetryFaults>>

\* After the last poll: without a receipt it just says so, otherwise the receipt
\* is timed out if it still is in flight.
GuardGivesUp ==
    /\ guard.pc = "polling"
    /\ guard' = [guard EXCEPT !.pc = IF receipt = "none" THEN "timeout" ELSE "select"]
    /\ receipt' = IF receipt \in InFlight THEN "timeout" ELSE receipt
    /\ UNCHANGED <<stream, read, pending, dead, storeVars, flush, pass, overlap,
                   telemetryFaults>>

\* recomputeForParticipation throws when there is no event, and the submit fails.
GuardSelects ==
    /\ guard.pc = "select"
    /\ guard' = IF events = {} THEN [guard EXCEPT !.pc = "error"]
                ELSE [pc |-> "upsert", snap |-> events]
    /\ overlap' = (overlap \/ \E p \in Pass : pass[p].pc # "idle")
    /\ UNCHANGED <<stream, read, pending, dead, storeVars, receipt, flush, pass,
                   telemetryFaults>>

GuardUpserts ==
    /\ guard.pc = "upsert"
    /\ summary' = guard.snap
    /\ guard' = [pc |-> "timeout", snap |-> {}]
    /\ UNCHANGED <<stream, read, pending, dead, events, receipt, flush, pass,
                   overlap, telemetryFaults>>

--------------------------------------------------------------------------------
(* runOnceSafely: recoverPendingOnce, then processBatchOnce.                   *)

clientVars == <<stream, flush, guard>>
Flushed(ids) == \E i \in ids : stream[i].flush
Unparsed(p) == {i \in pass[p].batch : stream[i].seq \in Malformed}
SeqsOf(ids) == {stream[i].seq : i \in ids}

\* What follows processEntries: after recovered entries, a read of new ones.
Done(p) == IF pass[p].phase = "old" THEN [Waiting EXCEPT !.pc = "read"] ELSE Waiting

Begin(p) ==
    /\ pass[p].pc = "idle"
    /\ pass' = [pass EXCEPT ![p].pc = "claim"]
    /\ overlap' = (overlap \/ guard.pc = "upsert" \/ \E q \in Pass : pass[q].pc # "idle")
    /\ UNCHANGED <<clientVars, read, pending, dead, storeVars, receipt,
                   telemetryFaults>>

\* Mutant: nothing is claimed, what a poll that ended has left stays pending.
recoverNothing(p, ids) ==
    /\ pass[p].pc = "claim" /\ ids = {}
    /\ pass' = [pass EXCEPT ![p].pc = "read"]
    /\ UNCHANGED <<clientVars, read, pending, dead, storeVars, receipt, overlap,
                   telemetryFaults>>

\* XAUTOCLAIM: which entries have been idle for long enough is up to the clock.
recoverPendingOnce(p, ids) ==
    /\ pass[p].pc = "claim"
    /\ ids \subseteq pending /\ Cardinality(ids) <= BatchSize
    /\ pass' = [pass EXCEPT ![p].batch = ids, ![p].pc = IF ids = {} THEN "read" ELSE "parse"]
    /\ UNCHANGED <<clientVars, read, pending, dead, storeVars, receipt, overlap,
                   telemetryFaults>>

\* XREADGROUP with id ">": the entries nobody in the group has been given.
processBatchOnce(p) ==
    /\ pass[p].pc = "read"
    /\ LET next == Min({Len(stream), read + BatchSize})
           ids  == (read + 1)..next
       IN  /\ read' = next
           /\ pending' = pending \cup ids
           /\ pass' = [pass EXCEPT ![p] = IF ids = {} THEN Waiting
                                          ELSE [pc |-> "parse", phase |-> "new",
                                                batch |-> ids, snap |-> {}]]
    /\ UNCHANGED <<clientVars, dead, storeVars, receipt, overlap, telemetryFaults>>

deadLetterMalformedEntry(p) ==
    /\ pass[p].pc = "parse" /\ Unparsed(p) # {}
    /\ dead' = dead \cup {Min(Unparsed(p))}
    /\ pass' = [pass EXCEPT ![p].pc = "drop"]
    /\ UNCHANGED <<clientVars, read, pending, storeVars, receipt, overlap,
                   telemetryFaults>>

AckMalformed(p) ==
    /\ pass[p].pc = "drop"
    /\ pending' = pending \ {Min(Unparsed(p))}
    /\ pass' = [pass EXCEPT ![p].pc = "parse", ![p].batch = @ \ {Min(Unparsed(p))}]
    /\ UNCHANGED <<clientVars, read, dead, storeVars, receipt, overlap,
                   telemetryFaults>>

transitionStatus(p, to) ==
    receipt' = IF Flushed(pass[p].batch) /\ receipt \in InFlight THEN to ELSE receipt

\* The last entry is parsed; a receipt met in the batch is being persisted.
MarkPersisting(p) ==
    /\ pass[p].pc = "parse" /\ Unparsed(p) = {}
    /\ transitionStatus(p, "persisting")
    /\ pass' = [pass EXCEPT ![p] = IF pass[p].batch = {} THEN Done(p)
                                   ELSE [pass[p] EXCEPT !.pc = "insert"]]
    /\ UNCHANGED <<clientVars, read, pending, dead, storeVars, overlap, telemetryFaults>>

\* Mutant: a batch whose insert failed is acknowledged as well.
insertAndForget(p) ==
    /\ pass[p].pc = "insert"
    /\ \/ events' = events \cup SeqsOf(pass[p].batch) /\ UNCHANGED telemetryFaults
       \/ Fails /\ UNCHANGED events
    /\ pass' = [pass EXCEPT ![p].pc = "receipt"]
    /\ UNCHANGED <<clientVars, read, pending, dead, summary, receipt, overlap>>

\* One insert for the batch, of all or none of it.  Its error is caught: the entries
\* stay pending and the poll goes on.
bulkInsertDedupe(p) ==
    /\ pass[p].pc = "insert"
    /\ LET refused == SeqsOf(pass[p].batch) \cap Rejected # {} IN
       \/ /\ ~refused
          /\ events' = events \cup SeqsOf(pass[p].batch)
          /\ pass' = [pass EXCEPT ![p].pc = "receipt"]
          /\ UNCHANGED telemetryFaults
       \/ /\ IF refused THEN UNCHANGED telemetryFaults ELSE Fails
          /\ pass' = [pass EXCEPT ![p] = Done(p)] /\ UNCHANGED events
    /\ UNCHANGED <<clientVars, read, pending, dead, summary, receipt, overlap>>

\* Mutant: entries that are delivered again leave the first summary to be computed.
MarkPersistedOnce(p) ==
    /\ pass[p].pc = "receipt"
    /\ transitionStatus(p, "persisted")
    /\ pass' = [pass EXCEPT ![p].pc = IF pass[p].phase = "old" THEN "ack"
                                     ELSE "select"]
    /\ UNCHANGED <<clientVars, read, pending, dead, storeVars, overlap, telemetryFaults>>

MarkPersisted(p) ==
    /\ pass[p].pc = "receipt"
    /\ transitionStatus(p, "persisted")
    /\ pass' = [pass EXCEPT ![p].pc = "select"]
    /\ UNCHANGED <<clientVars, read, pending, dead, storeVars, overlap,
                   telemetryFaults>>

SummarySelects(p) ==
    /\ pass[p].pc = "select"
    /\ pass' = [pass EXCEPT ![p].pc = "upsert", ![p].snap = events]
    /\ UNCHANGED <<clientVars, read, pending, dead, storeVars, receipt, overlap,
                   telemetryFaults>>

SummaryUpserts(p) ==
    /\ pass[p].pc = "upsert"
    /\ summary' = pass[p].snap
    /\ pass' = [pass EXCEPT ![p].pc = "ack", ![p].snap = {}]
    /\ UNCHANGED <<clientVars, read, pending, dead, events, receipt, overlap,
                   telemetryFaults>>

AckBatch(p) ==
    /\ pass[p].pc = "ack"
    /\ pending' = pending \ pass[p].batch
    /\ pass' = [pass EXCEPT ![p] = Done(p)]
    /\ UNCHANGED <<clientVars, read, dead, storeVars, receipt, overlap,
                   telemetryFaults>>

\* An error other than the insert's, or the end of the process.
PassStops(p) ==
    /\ pass[p].pc \notin {"idle", "claim"}
    /\ Fails
    /\ pass' = [pass EXCEPT ![p] = Waiting]
    /\ UNCHANGED <<clientVars, read, pending, dead, storeVars, receipt, overlap>>

--------------------------------------------------------------------------------
Socket == \E e \in Event : SocketAppends(e)
Flush  == FlushBegins \/ FlushAppends \/ FlushEnds
Guard  == GuardBegins \/ GuardSeesReceipt \/ GuardGivesUp \/ GuardSelects \/ GuardUpserts

Works(p) ==
    \/ Begin(p) \/ (\E ids \in SUBSET pending : recoverPendingOnce(p, ids))
    \/ processBatchOnce(p) \/ deadLetterMalformedEntry(p) \/ AckMalformed(p)
    \/ MarkPersisting(p) \/ bulkInsertDedupe(p) \/ MarkPersisted(p)
    \/ SummarySelects(p) \/ SummaryUpserts(p) \/ AckBatch(p)

TelemetryNext == Socket \/ Flush \/ Guard \/ \E p \in Pass : Works(p) \/ PassStops(p)

TelemetrySpec == TelemetryInit /\ [][TelemetryNext]_telemetryVars

--------------------------------------------------------------------------------
(* An entry the group was given and that is no longer pending is in the table, or it   *)
(* went to the dead-letter stream: acknowledging, crashing and claiming again, in any  *)
(* order and by any poll, loses no entry.                                              *)
DeliveredIsKept ==
    \A i \in (1..read) \ pending : stream[i].seq \in events \/ i \in dead

Blocked == \E j \in DOMAIN stream : stream[j].seq \in Rejected

(* Whatever the polls do to each other and whoever crashes, every entry of the stream  *)
(* ends in the table or in the dead-letter stream, as long as the table refuses no     *)
(* event: the insert of a batch is all or nothing, and the entries claimed together    *)
(* with a refused one may wait forever.                                                *)
StreamedIsStored ==
    <>[](\A i \in DOMAIN stream : stream[i].seq \in events \/ i \in dead \/ Blocked)

(* Once entries stop coming the summary counts every stored event, whoever crashed in  *)
(* between, unless two recomputations were under way together: each reads the events,  *)
(* computes, and replaces the row, and the older result may be written last.           *)
SummaryCatchesUp == <>[](overlap \/ Blocked \/ summary = events)

=============================================================================
