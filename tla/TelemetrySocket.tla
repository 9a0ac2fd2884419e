---------------------------- MODULE TelemetrySocket ----------------------------
(***************************************************************************)
(* The proctoring web socket of one client session: frames arrive in       *)
(* batches, are deduplicated by their client sequence number and appended  *)
(* one by one to the telemetry stream, and the batch is acknowledged.  The *)
(* handlers of two messages interleave at each append.                     *)
(*                                                                         *)
(* A batch that is turned away as a whole (rate limit, invalid) changes    *)
(* nothing and is left out.                                                *)
(***************************************************************************)
EXTENDS Naturals, FiniteSets, FiniteSetsExt

CONSTANTS
    Frame,       \* client sequence numbers of the session
    Handler,     \* messages whose handlers may interleave
    MaxXaddFails \* bound on appends that fail

ASSUME SocketAssumption == Frame \subseteq Nat /\ MaxXaddFails \in Nat

VARIABLES
    seen,      \* seenSequences of the session
    handler,   \* the batches being handled: the frames of each, and those to come
    streamed,  \* frames the stream holds
    acked,     \* frames of the batches telemetry.ack has been sent for
    refused,   \* history: frames whose append failed
    xaddFails

socketVars == <<seen, handler, streamed, acked, refused, xaddFails>>

NoMessage == [pc |-> "idle", batch |-> {}, todo |-> {}]

SocketTypeOK ==
    /\ seen \subseteq Frame /\ streamed \subseteq Frame
    /\ acked \subseteq Frame /\ refused \subseteq Frame
    /\ handler \in [Handler -> [pc : {"idle", "frames", "xadd"},
                                batch : SUBSET Frame, todo : SUBSET Frame]]
    /\ xaddFails \in 0..MaxXaddFails

SocketInit ==
    /\ seen = {} /\ streamed = {} /\ acked = {} /\ refused = {}
    /\ handler = [h \in Handler |-> NoMessage]
    /\ xaddFails = 0

\* The session starts over, with the messages of before still being handled.
sessionHello ==
    /\ seen # {} /\ seen' = {}
    /\ UNCHANGED <<handler, streamed, acked, refused, xaddFails>>

handleTelemetryEnvelope(h, batch) ==
    /\ handler[h].pc = "idle" /\ batch # {}
    /\ handler' = [handler EXCEPT ![h] = [pc |-> "frames", batch |-> batch, todo |-> batch]]
    /\ UNCHANGED <<seen, streamed, acked, refused, xaddFails>>

Next1(h) == Min(handler[h].todo)

\* isDuplicate: a frame seen before is skipped, another is marked as seen at once.
isDuplicate(h) ==
    /\ handler[h].pc = "frames" /\ handler[h].todo # {}
    /\ IF Next1(h) \in seen
       THEN handler' = [handler EXCEPT ![h].todo = @ \ {Next1(h)}] /\ UNCHANGED seen
       ELSE handler' = [handler EXCEPT ![h].pc = "xadd"] /\ seen' = seen \cup {Next1(h)}
    /\ UNCHANGED <<streamed, acked, refused, xaddFails>>

appendFrame(h) ==
    /\ handler[h].pc = "xadd"
    /\ streamed' = streamed \cup {Next1(h)}
    /\ handler' = [handler EXCEPT ![h] = [pc |-> "frames", batch |-> @.batch,
                                          todo |-> @.todo \ {Next1(h)}]]
    /\ UNCHANGED <<seen, acked, refused, xaddFails>>

\* A stale or foreign frame ends the batch: those before it stay appended and seen.
TurnedAway(h) ==
    /\ handler[h].pc = "frames" /\ handler[h].todo # {}
    /\ handler' = [handler EXCEPT ![h] = NoMessage]
    /\ UNCHANGED <<seen, streamed, acked, refused, xaddFails>>

\* telemetry.retry_required: the frame stays in the set of seen ones.
AppendFails(h) ==
    /\ handler[h].pc = "xadd" /\ xaddFails < MaxXaddFails
    /\ xaddFails' = xaddFails + 1
    /\ refused' = refused \cup {Next1(h)}
    /\ handler' = [handler EXCEPT ![h] = NoMessage]
    /\ UNCHANGED <<seen, streamed, acked>>

\* Mutant: the acknowledgement does not wait for the appends.
AckEarly(h) ==
    /\ handler[h].pc = "frames"
    /\ acked' = acked \cup handler[h].batch
    /\ handler' = [handler EXCEPT ![h] = NoMessage]
    /\ UNCHANGED <<seen, streamed, refused, xaddFails>>

\* telemetry.ack counts the new and the deduplicated frames of the whole batch.
AckMessage(h) ==
    /\ handler[h].pc = "frames" /\ handler[h].todo = {}
    /\ acked' = acked \cup handler[h].batch
    /\ handler' = [handler EXCEPT ![h] = NoMessage]
    /\ UNCHANGED <<seen, streamed, refused, xaddFails>>

SocketNext ==
    \/ sessionHello
    \/ \E h \in Handler :
          \/ \E batch \in SUBSET Frame : handleTelemetryEnvelope(h, batch)
          \/ isDuplicate(h) \/ TurnedAway(h) \/ appendFrame(h)
          \/ AppendFails(h) \/ AckMessage(h)

SocketSpec == SocketInit /\ [][SocketNext]_socketVars

--------------------------------------------------------------------------------
Appending == {Next1(h) : h \in {g \in Handler : handler[g].pc = "xadd"}}

(* The client drops an acknowledged frame from its buffer.  Such a frame is in the     *)
(* stream, or another handler is appending it: whatever the overlap of batches and the *)
(* hellos between them, only a frame whose append failed can be acknowledged without.  *)
(* That one is lost when it is sent again: the set of seen frames answers for it.      *)
AckedIsStreamed == acked \subseteq streamed \cup Appending \cup refused
=============================================================================
