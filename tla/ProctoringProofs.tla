---------------------------- MODULE ProctoringProofs ----------------------------
(***************************************************************************)
(* Proofs about proctoring, for any number of handlers and frames, of      *)
(* polls, entries and events, of AI jobs, attempts and requests:           *)
(* TelemetrySocket, TelemetryStream and ProctoringAiJobs.                  *)
(***************************************************************************)
EXTENDS TelemetrySocket, TelemetryStream, ProctoringAiJobs, NumberFacts

-----------------------------------------------------------------------------
(* The web socket of TelemetrySocket.                                          *)

MessageType == [pc : {"idle", "frames", "xadd"}, batch : SUBSET Frame, todo : SUBSET Frame]

\* Frames the server may answer for.
Covered == streamed \cup Appending \cup refused

\* A frame is marked as seen, and leaves the frames to come, only once it is covered.
SocketIInv ==
    /\ handler \in [Handler -> MessageType]
    /\ seen \subseteq Covered
    /\ acked \subseteq Covered
    /\ \A h \in Handler : handler[h].batch \ handler[h].todo \subseteq Covered

LEMMA SocketInitHolds == SocketInit => SocketIInv
BY DEF SocketInit, SocketIInv, MessageType, NoMessage, Covered, Appending

LEMMA SocketStep == SocketIInv /\ [SocketNext]_socketVars => SocketIInv'
<1> SUFFICES ASSUME SocketIInv, [SocketNext]_socketVars PROVE SocketIInv'
  OBVIOUS
<1> USE DEF SocketIInv
<1>n. NoMessage \in MessageType
  BY DEF NoMessage, MessageType
<1>1. ASSUME NEW h \in Handler,
             \A g \in Handler \ {h} : handler'[g] = handler[g],
             handler' \in [Handler -> MessageType],
             streamed \subseteq streamed', refused \subseteq refused',
             handler[h].pc = "xadd" => Next1(h) \in streamed' \cup refused'
      PROVE  Covered \subseteq Covered'
  <2>1. ASSUME NEW g \in Handler, handler[g].pc = "xadd"
        PROVE  Next1(g) \in Covered'
    <3>1. CASE g = h
      BY <1>1, <2>1, <3>1 DEF Covered
    <3>2. CASE g # h
      <4>1. handler'[g] = handler[g]
        BY <1>1, <3>2
      <4>2. Next1(g)' = Next1(g)
        BY <4>1 DEF Next1
      <4> QED
        BY <2>1, <4>1, <4>2 DEF Covered, Appending
    <3> QED
      BY <3>1, <3>2
  <2> QED
    BY <1>1, <2>1 DEF Covered, Appending
<1>2. CASE sessionHello
  BY <1>2 DEF sessionHello, Covered, Appending, Next1
<1>3. ASSUME NEW h \in Handler, NEW batch \in SUBSET Frame, handleTelemetryEnvelope(h, batch)
      PROVE  SocketIInv'
  <2> DEFINE r == [pc |-> "frames", batch |-> batch, todo |-> batch]
  <2>1. r \in MessageType /\ handler' = [handler EXCEPT ![h] = r] /\ handler[h].pc = "idle"
    BY <1>3 DEF handleTelemetryEnvelope, MessageType
  <2>2. Covered \subseteq Covered' /\ seen' = seen /\ acked' = acked
    BY <1>1, <1>3, <2>1 DEF handleTelemetryEnvelope
  <2>3. /\ handler'[h].batch \ handler'[h].todo = {}
        /\ \A g \in Handler \ {h} : handler'[g] = handler[g]
        /\ handler' \in [Handler -> MessageType]
    BY <2>1
  <2> QED
    BY <2>2, <2>3
<1>4. ASSUME NEW h \in Handler, isDuplicate(h)
      PROVE  SocketIInv'
  <2> DEFINE n == Next1(h)
             b == handler[h].batch
             t == handler[h].todo
  <2>0. handler[h] \in MessageType /\ handler[h].pc = "frames"
    BY <1>4 DEF isDuplicate
  <2>1. CASE n \in seen
    <3> DEFINE r == [pc |-> "frames", batch |-> b, todo |-> t \ {n}]
    <3>1. r \in MessageType /\ handler' = [handler EXCEPT ![h] = r] /\ seen' = seen
      BY <1>4, <2>0, <2>1 DEF isDuplicate, MessageType
    <3>2. Covered \subseteq Covered' /\ acked' = acked
      BY <1>1, <1>4, <2>0, <3>1 DEF isDuplicate
    <3>3. /\ handler'[h].batch \ handler'[h].todo \subseteq (b \ t) \cup {n}
          /\ \A g \in Handler \ {h} : handler'[g] = handler[g]
          /\ handler' \in [Handler -> MessageType]
      BY <3>1
    <3> QED
      BY <2>1, <3>1, <3>2, <3>3
  <2>2. CASE n \notin seen
    <3> DEFINE r == [pc |-> "xadd", batch |-> b, todo |-> t]
    <3>1. /\ r \in MessageType /\ handler' = [handler EXCEPT ![h] = r]
          /\ seen' = seen \cup {n}
      BY <1>4, <2>0, <2>2 DEF isDuplicate, MessageType
    <3>2. Covered \subseteq Covered' /\ acked' = acked
      BY <1>1, <1>4, <2>0, <3>1 DEF isDuplicate
    <3>3. /\ handler'[h].batch = b /\ handler'[h].todo = t /\ handler'[h].pc = "xadd"
          /\ \A g \in Handler \ {h} : handler'[g] = handler[g]
          /\ handler' \in [Handler -> MessageType]
      BY <3>1
    <3>4. n \in Covered'
      <4>1. Next1(h)' = n
        BY <3>3 DEF Next1
      <4> QED
        BY <3>3, <4>1 DEF Covered, Appending
    <3> QED
      BY <3>1, <3>2, <3>3, <3>4
  <2> QED
    BY <2>1, <2>2
<1>5. ASSUME NEW h \in Handler, appendFrame(h)
      PROVE  SocketIInv'
  <2> DEFINE n == Next1(h)
             r == [pc |-> "frames", batch |-> handler[h].batch, todo |-> handler[h].todo \ {n}]
  <2>1. r \in MessageType /\ handler' = [handler EXCEPT ![h] = r]
    BY <1>5 DEF appendFrame, MessageType
  <2>2. /\ handler'[h].batch \ handler'[h].todo
              \subseteq (handler[h].batch \ handler[h].todo) \cup {n}
        /\ \A g \in Handler \ {h} : handler'[g] = handler[g]
        /\ handler' \in [Handler -> MessageType]
    BY <2>1
  <2>3. streamed' = streamed \cup {n} /\ UNCHANGED <<seen, acked, refused>>
    BY <1>5 DEF appendFrame
  <2>4. Covered \subseteq Covered'
    BY <1>1, <2>2, <2>3
  <2>5. n \in Covered'
    BY <2>3 DEF Covered
  <2> QED
    BY <2>2, <2>3, <2>4, <2>5
<1>6. ASSUME NEW h \in Handler, TurnedAway(h) \/ AppendFails(h)
      PROVE  SocketIInv'
  <2>1. handler' = [handler EXCEPT ![h] = NoMessage] /\ UNCHANGED <<seen, acked, streamed>>
    BY <1>6 DEF TurnedAway, AppendFails
  <2>2. /\ handler'[h].batch \ handler'[h].todo = {}
        /\ \A g \in Handler \ {h} : handler'[g] = handler[g]
        /\ handler' \in [Handler -> MessageType]
    BY <1>n, <2>1 DEF NoMessage
  <2>3. /\ refused \subseteq refused'
        /\ handler[h].pc = "xadd" => Next1(h) \in refused'
    BY <1>6 DEF TurnedAway, AppendFails
  <2>4. Covered \subseteq Covered'
    BY <1>1, <2>1, <2>2, <2>3
  <2> QED
    BY <2>1, <2>2, <2>4
<1>7. ASSUME NEW h \in Handler, AckMessage(h)
      PROVE  SocketIInv'
  <2>1. /\ handler' = [handler EXCEPT ![h] = NoMessage] /\ UNCHANGED <<seen, streamed, refused>>
        /\ handler[h].pc = "frames"
        /\ acked' = acked \cup (handler[h].batch \ handler[h].todo)
    BY <1>7 DEF AckMessage
  <2>2. /\ handler'[h].batch \ handler'[h].todo = {}
        /\ \A g \in Handler \ {h} : handler'[g] = handler[g]
        /\ handler' \in [Handler -> MessageType]
    BY <1>n, <2>1 DEF NoMessage
  <2>3. Covered \subseteq Covered'
    BY <1>1, <2>1, <2>2
  <2> QED
    BY <2>1, <2>2, <2>3
<1>8. CASE UNCHANGED socketVars
  BY <1>8 DEF socketVars, Covered, Appending, Next1
<1> QED
  BY <1>2, <1>3, <1>4, <1>5, <1>6, <1>7, <1>8 DEF SocketNext

\* However handlers of a session interleave, an acknowledged frame that is neither in the
\* stream nor being appended is one whose append failed (isDuplicate, telemetry.ack): no
\* other frame is lost, that one is when it is sent again.
THEOREM OnlyRefusedFramesAreLost == SocketSpec => []AckedIsStreamed
<1>1. SocketSpec => []SocketIInv
  BY SocketInitHolds, SocketStep, PTL DEF SocketSpec
<1>2. SocketIInv => AckedIsStreamed
  BY DEF SocketIInv, AckedIsStreamed, Covered
<1> QED
  BY <1>1, <1>2, PTL

\* A handler that appends has a frame to append.
SocketTyped ==
    SocketTypeOK /\ \A h \in Handler : handler[h].pc = "xadd" => handler[h].todo # {}

LEMMA SocketInitTyped == SocketInit => SocketTyped
BY SocketAssumption DEF SocketInit, SocketTyped, SocketTypeOK, NoMessage

LEMMA SocketTypeStep == SocketTyped /\ [SocketNext]_socketVars => SocketTyped'
<1> SUFFICES ASSUME SocketTyped, [SocketNext]_socketVars PROVE SocketTyped'
  OBVIOUS
<1>0. /\ handler \in [Handler -> MessageType] /\ NoMessage \in MessageType
      /\ Frame \subseteq Nat /\ MaxXaddFails \in Nat /\ SocketTypeOK
      /\ \A h \in Handler : handler[h].pc = "xadd" => handler[h].todo # {}
  BY SocketAssumption DEF SocketTyped, SocketTypeOK, MessageType, NoMessage
<1>1. ASSUME NEW h \in Handler, NEW r \in MessageType, r.pc = "xadd" => r.todo # {},
             handler' = [handler EXCEPT ![h] = r]
      PROVE  /\ handler' \in [Handler -> [pc : {"idle", "frames", "xadd"},
                                          batch : SUBSET Frame, todo : SUBSET Frame]]
             /\ \A g \in Handler : handler'[g].pc = "xadd" => handler'[g].todo # {}
  BY <1>0, <1>1 DEF MessageType
<1>2. ASSUME NEW h \in Handler, handler[h].todo # {} PROVE Next1(h) \in Frame
  <2>1. handler[h].todo \in SUBSET Nat /\ handler[h].todo \subseteq Frame
    BY <1>0 DEF MessageType
  <2> QED
    BY <1>2, <2>1, MinIsLeast DEF Next1
<1>3. CASE sessionHello
  BY <1>0, <1>3 DEF sessionHello, SocketTyped, SocketTypeOK
<1>4. ASSUME NEW h \in Handler, NEW batch \in SUBSET Frame, handleTelemetryEnvelope(h, batch)
      PROVE  SocketTyped'
  <2> DEFINE r == [pc |-> "frames", batch |-> batch, todo |-> batch]
  <2>1. r \in MessageType /\ r.pc = "frames" /\ handler' = [handler EXCEPT ![h] = r]
    BY <1>4 DEF handleTelemetryEnvelope, MessageType
  <2> HIDE DEF r
  <2> QED
    BY <1>0, <1>1, <1>4, <2>1 DEF handleTelemetryEnvelope, SocketTyped, SocketTypeOK
<1>5. ASSUME NEW h \in Handler, isDuplicate(h) PROVE SocketTyped'
  <2>0. handler[h] \in MessageType /\ handler[h].pc = "frames" /\ handler[h].todo # {}
    BY <1>0, <1>5 DEF isDuplicate
  <2> DEFINE r == IF Next1(h) \in seen
                  THEN [pc |-> "frames", batch |-> handler[h].batch,
                        todo |-> handler[h].todo \ {Next1(h)}]
                  ELSE [pc |-> "xadd", batch |-> handler[h].batch, todo |-> handler[h].todo]
  <2>1. r \in MessageType /\ (r.pc = "xadd" => r.todo # {})
    BY <2>0 DEF MessageType
  <2>2. handler' = [handler EXCEPT ![h] = r]
    BY <1>5, <2>0 DEF isDuplicate, MessageType
  <2>3. seen' \subseteq Frame
    BY <1>0, <1>2, <1>5, <2>0 DEF isDuplicate, SocketTypeOK
  <2> HIDE DEF r
  <2> QED
    BY <1>0, <1>1, <1>5, <2>1, <2>2, <2>3 DEF isDuplicate, SocketTyped, SocketTypeOK
<1>6. ASSUME NEW h \in Handler, appendFrame(h) PROVE SocketTyped'
  <2> DEFINE r == [pc |-> "frames", batch |-> handler[h].batch,
                   todo |-> handler[h].todo \ {Next1(h)}]
  <2>1. r \in MessageType /\ r.pc = "frames" /\ handler' = [handler EXCEPT ![h] = r]
    BY <1>0, <1>6 DEF appendFrame, MessageType
  <2>2. streamed' \subseteq Frame
    BY <1>0, <1>2, <1>6 DEF appendFrame, SocketTypeOK
  <2> HIDE DEF r
  <2> QED
    BY <1>0, <1>1, <1>6, <2>1, <2>2 DEF appendFrame, SocketTyped, SocketTypeOK
<1>7. ASSUME NEW h \in Handler, TurnedAway(h) \/ AppendFails(h) \/ AckMessage(h)
      PROVE  SocketTyped'
  <2>1. handler' = [handler EXCEPT ![h] = NoMessage] /\ NoMessage.pc # "xadd"
    BY <1>7 DEF TurnedAway, AppendFails, AckMessage, NoMessage
  <2>2. acked' \subseteq Frame
    BY <1>0, <1>7 DEF TurnedAway, AppendFails, AckMessage, SocketTypeOK, MessageType
  <2>3. refused' \subseteq Frame /\ xaddFails' \in 0..MaxXaddFails
    <3>1. CASE AppendFails(h)
      <4>1. Next1(h) \in Frame
        BY <1>0, <1>2, <3>1 DEF AppendFails
      <4>2. /\ xaddFails < MaxXaddFails /\ xaddFails' = xaddFails + 1
            /\ refused' = refused \cup {Next1(h)}
        BY <3>1 DEF AppendFails
      <4>3. xaddFails \in 0..MaxXaddFails /\ refused \subseteq Frame /\ MaxXaddFails \in Nat
        BY <1>0 DEF SocketTypeOK
      <4>4. xaddFails' \in 0..MaxXaddFails
        BY <4>2, <4>3
      <4> QED
        BY <4>1, <4>2, <4>3, <4>4
    <3>2. CASE TurnedAway(h) \/ AckMessage(h)
      BY <1>0, <3>2 DEF TurnedAway, AckMessage, SocketTypeOK
    <3> QED
      BY <1>7, <3>1, <3>2
  <2>4. UNCHANGED <<seen, streamed>>
    BY <1>7 DEF TurnedAway, AppendFails, AckMessage
  <2> QED
    BY <1>0, <1>1, <2>1, <2>2, <2>3, <2>4 DEF SocketTyped, SocketTypeOK
<1>8. CASE UNCHANGED socketVars
  BY <1>0, <1>8 DEF socketVars, SocketTyped, SocketTypeOK
<1> QED
  BY <1>3, <1>4, <1>5, <1>6, <1>7, <1>8 DEF SocketNext

\* Types of the web socket: every frame the server answers for is one of the session.
THEOREM SocketTypes == SocketSpec => []SocketTypeOK
<1>1. SocketSpec => []SocketTyped
  BY SocketInitTyped, SocketTypeStep, PTL DEF SocketSpec
<1>2. SocketTyped => SocketTypeOK
  BY DEF SocketTyped
<1> QED
  BY <1>1, <1>2, PTL

--------------------------------------------------------------------------------
(* The telemetry stream.                                                       *)

Parsed == {"insert", "receipt", "select", "upsert", "ack"}
Stored == Parsed \ {"insert"}

\* What a poll holds was handed out; once parsed nothing of it is malformed, once inserted all
\* of it is in the table, and what it is about to drop is in the dead-letter stream.
BatchFits(p) ==
    /\ pass[p].batch \subseteq 1..read
    /\ pass[p].pc \in Parsed => Unparsed(p) = {}
    /\ pass[p].pc \in Stored => SeqsOf(pass[p].batch) \subseteq events
    /\ pass[p].pc = "drop" => Unparsed(p) # {} /\ Min(Unparsed(p)) \in dead

TelemetryIInv == TelemetryTypeOK /\ (\A p \in Pass : BatchFits(p)) /\ DeliveredIsKept

\* What no step takes back.
StreamGrows ==
    /\ read <= read' /\ dead \subseteq dead' /\ events \subseteq events'
    /\ \A i \in 1..read : stream'[i] = stream[i]

Entry == [seq : Event, flush : BOOLEAN]
PassType == [pc : Step, phase : {"old", "new"}, batch : SUBSET (1..MaxEntries),
             snap : SUBSET Event]

LEMMA WaitingTyped ==
    /\ Waiting \in PassType /\ Waiting.batch = {} /\ Waiting.pc = "idle"
    /\ \A p : Done(p) \in PassType /\ Done(p).batch = {} /\ Done(p).pc \in {"idle", "read"}
BY DEF Waiting, Done, PassType, Step

LEMMA TelemetryInitHolds == TelemetryInit => TelemetryIInv
<1> SUFFICES ASSUME TelemetryInit PROVE TelemetryIInv
  OBVIOUS
<1>1. TelemetryTypeOK
  <2>1. <<>> \in Seq(Entry) /\ Len(<<>>) = 0
    OBVIOUS
  <2>2. pass \in [Pass -> PassType]
    BY WaitingTyped DEF TelemetryInit
  <2>3. stream \in Seq(Entry) /\ Len(stream) <= MaxEntries /\ read \in 0..Len(stream)
    BY <2>1, TelemetryAssumption DEF TelemetryInit
  <2>4. telemetryFaults \in 0..MaxFaults
    BY TelemetryAssumption DEF TelemetryInit
  <2>5. /\ flush \in [pc : {"none", "appending", "sent", "failed"}, rest : SUBSET Event]
        /\ guard \in [pc : {"none", "polling", "select", "upsert", "persisted", "timeout",
                            "error"}, snap : SUBSET Event]
    BY DEF TelemetryInit
  <2> QED
    BY <2>2, <2>3, <2>4, <2>5 DEF TelemetryInit, TelemetryTypeOK, Entry, PassType
<1> QED
  BY <1>1, WaitingTyped DEF TelemetryInit, TelemetryIInv, BatchFits, DeliveredIsKept, Parsed, Stored

LEMMA StreamTypes ==
    ASSUME TelemetryIInv
    PROVE  /\ stream \in Seq(Entry) /\ Len(stream) \in Nat /\ DOMAIN stream = 1..Len(stream)
           /\ Len(stream) <= MaxEntries /\ read \in Nat /\ read <= Len(stream)
           /\ pass \in [Pass -> PassType] /\ MaxEntries \in Nat
           /\ \A i \in 1..read : stream[i] \in Entry
<1>1. /\ stream \in Seq(Entry) /\ Len(stream) <= MaxEntries /\ read \in 0..Len(stream)
      /\ pass \in [Pass -> PassType] /\ MaxEntries \in Nat
  BY TelemetryAssumption DEF TelemetryIInv, TelemetryTypeOK, Entry, PassType
<1>2. Len(stream) \in Nat /\ DOMAIN stream = 1..Len(stream)
  BY <1>1
<1> QED
  BY <1>1, <1>2

\* The first malformed entry of a batch is an entry of it.
LEMMA FirstUnparsed ==
    ASSUME TelemetryIInv, NEW p \in Pass, Unparsed(p) # {}
    PROVE  Min(Unparsed(p)) \in Unparsed(p)
<1>1. Unparsed(p) \in SUBSET Nat
  BY StreamTypes DEF Unparsed, PassType
<1> QED
  BY <1>1, MinIsLeast

LEMMA StreamAppended ==
    ASSUME TelemetryIInv, NEW e \in Event, NEW isFlush \in BOOLEAN,
           appendTelemetryEvent(e, isFlush)
    PROVE  /\ stream' \in Seq(Entry) /\ Len(stream') <= MaxEntries /\ read \in 0..Len(stream')
           /\ \A i \in 1..read : stream'[i] = stream[i]
<1> DEFINE r == [seq |-> e, flush |-> isFlush]
<1>1. r \in Entry /\ stream' = Append(stream, r) /\ Len(stream) < MaxEntries
  BY DEF appendTelemetryEvent, Entry
<1>2. Len(stream') = Len(stream) + 1 /\ stream' \in Seq(Entry)
      /\ \A i \in 1..Len(stream) : stream'[i] = stream[i]
  BY <1>1, StreamTypes
<1> QED
  BY <1>1, <1>2, StreamTypes

\* The next event of the flush is one of the client's.
LEMMA NextFlushed ==
    ASSUME TelemetryIInv, flush.rest # {}
    PROVE  Min(flush.rest) \in Event
<1>1. flush.rest \subseteq Event
  BY DEF TelemetryIInv, TelemetryTypeOK
<1> QED
  BY <1>1, TelemetryAssumption, MinIsLeast

\* XREADGROUP hands out what there is, at most a batch.
LEMMA NextRead ==
    ASSUME TelemetryIInv
    PROVE  LET next == Min({Len(stream), read + BatchSize}) IN next \in read..Len(stream)
<1> DEFINE S == {Len(stream), read + BatchSize}
<1>1. S \in SUBSET Nat /\ S # {}
  BY StreamTypes, TelemetryAssumption
<1>2. Min(S) \in S /\ Min(S) <= Len(stream)
  BY <1>1, MinIsLeast
<1>3. read <= read + BatchSize
  BY StreamTypes, TelemetryAssumption
<1> QED
  BY <1>1, <1>2, <1>3, StreamTypes

TelemetryWork(p) == Works(p) \/ PassStops(p)

\* Only the client and the submit request touch what the polls leave alone, and the polls
\* move one at a time.
LEMMA ClientSteps ==
    ASSUME TelemetryIInv, Socket \/ Flush \/ Guard \/ UNCHANGED telemetryVars
    PROVE  /\ UNCHANGED <<read, pending, dead, events, pass>>
           /\ stream' \in Seq(Entry) /\ Len(stream') <= MaxEntries /\ read \in 0..Len(stream')
           /\ \A i \in 1..read : stream'[i] = stream[i]
<1>0. CASE stream' = stream /\ UNCHANGED <<read, pending, dead, events, pass>>
  BY <1>0, StreamTypes
<1>1. CASE Socket
  BY <1>1, StreamAppended DEF Socket, SocketAppends, storeVars
<1>2. CASE Flush
  <2>1. CASE FlushAppends
    BY <2>1, NextFlushed, StreamAppended DEF FlushAppends, storeVars
  <2> QED
    BY <1>0, <1>2, <2>1 DEF Flush, FlushBegins, FlushEnds, storeVars
<1>3. CASE Guard \/ UNCHANGED telemetryVars
  BY <1>0, <1>3 DEF Guard, GuardBegins, GuardSeesReceipt, GuardGivesUp, GuardSelects,
                    GuardUpserts, telemetryVars, storeVars
<1> QED
  BY <1>1, <1>2, <1>3

LEMMA PollSteps ==
    ASSUME TelemetryIInv, NEW p \in Pass, TelemetryWork(p)
    PROVE  /\ UNCHANGED clientVars
           /\ read' \in read..Len(stream)
           /\ dead \subseteq dead' /\ dead' \subseteq 1..read
           /\ events \subseteq events' /\ events' \subseteq Event
           /\ pending' \subseteq 1..read'
           /\ receipt' \in {receipt, "persisting", "persisted"}
           /\ pass' = [pass EXCEPT ![p] = pass'[p]] /\ pass'[p] \in PassType
<1> USE StreamTypes
<1>1. read \in read..Len(stream) /\ pending \subseteq 1..read /\ dead \subseteq 1..read
      /\ events \subseteq Event /\ pass[p] \in PassType /\ pass[p].batch \subseteq 1..read
  BY DEF TelemetryIInv, TelemetryTypeOK, BatchFits
<1>2. SeqsOf(pass[p].batch) \subseteq Event
  BY <1>1 DEF SeqsOf, Entry
<1>3. CASE Begin(p)
  BY <1>1, <1>3 DEF Begin, storeVars, PassType, Step
<1>4. ASSUME NEW ids \in SUBSET pending, recoverPendingOnce(p, ids)
      PROVE  pass' = [pass EXCEPT ![p] = pass'[p]] /\ pass'[p] \in PassType
             /\ UNCHANGED <<clientVars, read, dead, events, pending, receipt>>
  <2>1. ids \subseteq 1..MaxEntries
    BY <1>1
  <2> DEFINE r == [pass[p] EXCEPT !.batch = ids, !.pc = IF ids = {} THEN "read" ELSE "parse"]
  <2>2. pass' = [pass EXCEPT ![p] = r]
    BY <1>4 DEF recoverPendingOnce
  <2>3. r \in PassType
    BY <1>1, <2>1 DEF PassType, Step
  <2> HIDE DEF r
  <2> QED
    BY <1>4, <2>2, <2>3 DEF recoverPendingOnce, storeVars
<1>5. CASE processBatchOnce(p)
  <2> DEFINE next == Min({Len(stream), read + BatchSize})
  <2>1. next \in read..Len(stream)
    BY NextRead
  <2> HIDE DEF next
  <2>2. /\ read' = next /\ pending' = pending \cup ((read + 1)..next)
        /\ pass' = [pass EXCEPT ![p] = IF (read + 1)..next = {} THEN Waiting
                                       ELSE [pc |-> "parse", phase |-> "new",
                                             batch |-> (read + 1)..next, snap |-> {}]]
        /\ UNCHANGED <<clientVars, dead, events, receipt>>
    BY <1>5 DEF processBatchOnce, next, storeVars
  <2>3. pass'[p] \in PassType
    BY <2>1, <2>2, WaitingTyped DEF PassType, Step
  <2> QED
    BY <1>1, <2>1, <2>2, <2>3
<1>6. CASE deadLetterMalformedEntry(p)
  <2>1. Min(Unparsed(p)) \in 1..read
    BY <1>1, <1>6, FirstUnparsed DEF deadLetterMalformedEntry, Unparsed
  <2> QED
    BY <1>1, <1>6, <2>1 DEF deadLetterMalformedEntry, storeVars, PassType, Step
<1>7. CASE AckMalformed(p)
  BY <1>1, <1>7 DEF AckMalformed, storeVars, PassType, Step
<1>8. CASE MarkPersisting(p)
  BY <1>1, <1>8, WaitingTyped DEF MarkPersisting, transitionStatus, storeVars, PassType, Step
<1>9. CASE bulkInsertDedupe(p)
  BY <1>1, <1>2, <1>9, WaitingTyped DEF bulkInsertDedupe, PassType, Step
<1>10. CASE MarkPersisted(p)
  BY <1>1, <1>10 DEF MarkPersisted, transitionStatus, storeVars, PassType, Step
<1>11. CASE SummarySelects(p) \/ SummaryUpserts(p)
  BY <1>1, <1>11 DEF SummarySelects, SummaryUpserts, storeVars, PassType, Step
<1>12. CASE AckBatch(p) \/ PassStops(p)
  BY <1>1, <1>12, WaitingTyped DEF AckBatch, PassStops, storeVars
<1> QED
  BY <1>1, <1>3, <1>4, <1>5, <1>6, <1>7, <1>8, <1>9, <1>10, <1>11, <1>12
     DEF TelemetryWork, Works

GuardType == [pc : {"none", "polling", "select", "upsert", "persisted", "timeout", "error"},
              snap : SUBSET Event]
FlushType == [pc : {"none", "appending", "sent", "failed"}, rest : SUBSET Event]

\* The rest of the types: what the flush, the submit request and the summaries write.
SideTypes ==
    /\ summary \subseteq Event /\ receipt \in InFlight \cup {"none", "persisted", "timeout"}
    /\ flush \in FlushType /\ guard \in GuardType
    /\ overlap \in BOOLEAN /\ telemetryFaults \in 0..MaxFaults

LEMMA FaultCounted ==
    ASSUME SideTypes, Fails \/ UNCHANGED telemetryFaults
    PROVE  telemetryFaults' \in 0..MaxFaults
BY TelemetryAssumption DEF SideTypes, Fails

LEMMA SideStep ==
    ASSUME TelemetryIInv, [TelemetryNext]_telemetryVars
    PROVE  SideTypes'
<1>1. SideTypes /\ events \subseteq Event /\ FlushEvent \subseteq Event
  BY TelemetryAssumption
     DEF SideTypes, TelemetryIInv, TelemetryTypeOK, FlushType, GuardType
<1>2. ASSUME NEW p \in Pass, TelemetryWork(p) PROVE SideTypes'
  <2>1. receipt' \in InFlight \cup {"none", "persisted", "timeout"}
    BY <1>1, <1>2, PollSteps DEF SideTypes, InFlight
  <2>2. flush' = flush /\ guard' = guard
    BY <1>2, PollSteps DEF clientVars
  <2>3. summary' \in {summary, pass[p].snap} /\ pass[p].snap \subseteq Event
    BY <1>2, StreamTypes
       DEF TelemetryWork, Works, PassStops, Begin, recoverPendingOnce, processBatchOnce,
           deadLetterMalformedEntry, AckMalformed, MarkPersisting, bulkInsertDedupe,
           MarkPersisted, SummarySelects, SummaryUpserts, AckBatch, storeVars, PassType
  <2>4. overlap' \in BOOLEAN
    <3>1. CASE Begin(p)
      BY <3>1 DEF Begin
    <3>2. CASE ~Begin(p)
      BY <1>1, <1>2, <3>2
         DEF TelemetryWork, Works, PassStops, recoverPendingOnce, processBatchOnce,
             deadLetterMalformedEntry, AckMalformed, MarkPersisting, bulkInsertDedupe,
             MarkPersisted, SummarySelects, SummaryUpserts, AckBatch, SideTypes
    <3> QED
      BY <3>1, <3>2
  <2>5. Fails \/ UNCHANGED telemetryFaults
    BY <1>2
       DEF TelemetryWork, Works, PassStops, Begin, recoverPendingOnce, processBatchOnce,
           deadLetterMalformedEntry, AckMalformed, MarkPersisting, bulkInsertDedupe,
           MarkPersisted, SummarySelects, SummaryUpserts, AckBatch
  <2> QED
    BY <1>1, <2>1, <2>2, <2>3, <2>4, <2>5, FaultCounted DEF SideTypes
<1>3. CASE Socket \/ UNCHANGED telemetryVars
  BY <1>1, <1>3 DEF Socket, SocketAppends, telemetryVars, storeVars, SideTypes
<1>4. CASE FlushBegins \/ FlushAppends
  <2>1. flush' \in FlushType
    <3>1. CASE FlushBegins
      BY <1>1, <3>1 DEF FlushBegins, FlushType
    <3>2. CASE FlushAppends
      BY <1>1, <3>2 DEF FlushAppends, SideTypes, FlushType
    <3> QED
      BY <1>4, <3>1, <3>2
  <2>2. receipt' \in InFlight \cup {"none", "persisted", "timeout"}
    BY <1>1, <1>4 DEF FlushBegins, FlushAppends, SideTypes, InFlight
  <2> QED
    BY <1>1, <1>4, <2>1, <2>2 DEF FlushBegins, FlushAppends, storeVars, SideTypes
<1>5. CASE FlushEnds
  <2>1. Fails \/ UNCHANGED telemetryFaults
    BY <1>5 DEF FlushEnds
  <2>2. flush' \in FlushType
    BY <1>1, <1>5 DEF FlushEnds, SideTypes, FlushType
  <2> QED
    BY <1>1, <1>5, <2>1, <2>2, FaultCounted DEF FlushEnds, storeVars, SideTypes
<1>6. CASE GuardBegins \/ GuardSeesReceipt \/ GuardGivesUp \/ GuardUpserts
  BY <1>1, <1>6
     DEF GuardBegins, GuardSeesReceipt, GuardGivesUp, GuardUpserts, storeVars, SideTypes,
         GuardType, InFlight
<1>7. CASE GuardSelects
  <2>1. overlap' \in BOOLEAN
    BY <1>7 DEF GuardSelects
  <2>2. guard' \in GuardType
    BY <1>1, <1>7 DEF GuardSelects, SideTypes, GuardType
  <2> QED
    BY <1>1, <1>7, <2>1, <2>2 DEF GuardSelects, storeVars, SideTypes
<1> QED
  BY <1>2, <1>3, <1>4, <1>5, <1>6, <1>7 DEF TelemetryNext, Flush, Guard, TelemetryWork

LEMMA TelemetryTypeStep ==
    ASSUME TelemetryIInv, [TelemetryNext]_telemetryVars
    PROVE  TelemetryTypeOK' /\ StreamGrows
<1>0. SideTypes'
  BY SideStep
<1>1. ASSUME NEW p \in Pass, TelemetryWork(p) PROVE TelemetryTypeOK' /\ StreamGrows
  <2>1. /\ stream' = stream /\ read \in Nat /\ read' \in read..Len(stream')
        /\ dead' \subseteq 1..read' /\ pending' \subseteq 1..read' /\ events' \subseteq Event
    BY <1>1, StreamTypes, PollSteps DEF clientVars
  <2>2. read' \in 0..Len(stream') /\ stream' \in Seq(Entry) /\ Len(stream') <= MaxEntries
    BY <2>1, StreamTypes
  <2>3. pass' \in [Pass -> PassType]
    BY <1>1, StreamTypes, PollSteps
  <2>4. StreamGrows
    BY <1>1, <2>1, PollSteps DEF StreamGrows
  <2> QED
    BY <1>0, <2>1, <2>2, <2>3, <2>4
       DEF TelemetryTypeOK, SideTypes, FlushType, GuardType, Entry, PassType
<1>2. CASE Socket \/ Flush \/ Guard \/ UNCHANGED telemetryVars
  <2>1. StreamGrows
    BY <1>2, StreamTypes, ClientSteps DEF StreamGrows
  <2>2. pending \subseteq 1..read /\ dead \subseteq 1..read /\ events \subseteq Event
        /\ pass \in [Pass -> PassType]
    BY StreamTypes DEF TelemetryIInv, TelemetryTypeOK
  <2> QED
    BY <1>0, <1>2, <2>1, <2>2, ClientSteps
       DEF TelemetryTypeOK, SideTypes, FlushType, GuardType, Entry, PassType
<1> QED
  BY <1>1, <1>2 DEF TelemetryNext, TelemetryWork

\* A poll that does not move finds what it relied on.
LEMMA OtherBatchesFit ==
    ASSUME TelemetryIInv, StreamGrows, read' \in Nat, NEW q \in Pass, pass'[q] = pass[q]
    PROVE  BatchFits(q)'
<1>1. BatchFits(q) /\ read \in Nat /\ read <= read' /\ pass[q].batch \subseteq 1..read
  BY StreamTypes DEF TelemetryIInv, StreamGrows, BatchFits
<1>2. Unparsed(q)' = Unparsed(q) /\ SeqsOf(pass[q].batch)' = SeqsOf(pass[q].batch)
  BY <1>1 DEF StreamGrows, Unparsed, SeqsOf
<1> QED
  BY <1>1, <1>2 DEF BatchFits, StreamGrows

\* A poll that moves.
LEMMA MovingBatchFits ==
    ASSUME TelemetryIInv, NEW p \in Pass, TelemetryWork(p)
    PROVE  BatchFits(p)'
<1>1. /\ stream' = stream /\ read \in Nat /\ read' \in read..Len(stream)
      /\ pass \in [Pass -> PassType]
  BY StreamTypes, PollSteps DEF clientVars
<1>2. pass[p].batch \subseteq 1..read' /\ BatchFits(p) /\ pending \subseteq 1..read'
  BY <1>1 DEF TelemetryIInv, TelemetryTypeOK, BatchFits
<1>3. CASE pass'[p].batch = {} /\ pass'[p].pc # "drop"
  BY <1>3 DEF BatchFits, Unparsed, SeqsOf
<1>4. CASE pass'[p].pc \in {"claim", "read", "parse", "idle"}
  <2>1. pass'[p].batch \subseteq 1..read'
    <3>1. ASSUME NEW ids \in SUBSET pending, recoverPendingOnce(p, ids)
          PROVE  pass'[p].batch \subseteq 1..read'
      BY <1>1, <1>2, <3>1 DEF recoverPendingOnce, PassType
    <3>2. CASE processBatchOnce(p)
      BY <1>1, <3>2, WaitingTyped DEF processBatchOnce
    <3> QED
      BY <1>1, <1>2, <3>1, <3>2, WaitingTyped
         DEF TelemetryWork, Works, PassStops, Begin, deadLetterMalformedEntry, AckMalformed,
             MarkPersisting, bulkInsertDedupe, MarkPersisted, SummarySelects, SummaryUpserts,
             AckBatch, PassType
  <2> QED
    BY <1>4, <2>1 DEF BatchFits, Parsed, Stored
<1>5. CASE deadLetterMalformedEntry(p)
  <2>1. pass'[p].batch = pass[p].batch /\ pass'[p].pc = "drop"
    BY <1>1, <1>5 DEF deadLetterMalformedEntry, PassType
  <2>2. Unparsed(p)' = Unparsed(p)
    BY <1>1, <2>1 DEF Unparsed
  <2> QED
    BY <1>2, <1>5, <2>1, <2>2 DEF deadLetterMalformedEntry, BatchFits, Parsed, Stored
<1>6. CASE MarkPersisting(p)
  <2>1. CASE pass[p].batch = {}
    BY <1>1, <1>3, <1>6, <2>1, WaitingTyped DEF MarkPersisting
  <2>2. CASE pass[p].batch # {}
    <3>1. pass'[p].batch = pass[p].batch /\ pass'[p].pc = "insert"
      BY <1>1, <1>6, <2>2 DEF MarkPersisting, PassType
    <3> QED
      BY <1>1, <1>2, <1>6, <3>1 DEF MarkPersisting, BatchFits, Unparsed, Parsed, Stored
  <2> QED
    BY <2>1, <2>2
<1>7. CASE bulkInsertDedupe(p)
  <2>1. CASE pass' = [pass EXCEPT ![p] = Done(p)]
    BY <1>1, <1>3, <2>1, WaitingTyped
  <2>2. CASE pass' = [pass EXCEPT ![p].pc = "receipt"]
             /\ events' = events \cup SeqsOf(pass[p].batch)
    <3>1. pass'[p].batch = pass[p].batch /\ pass'[p].pc = "receipt" /\ pass[p].pc = "insert"
      BY <1>1, <1>7, <2>2 DEF bulkInsertDedupe, PassType
    <3> QED
      BY <1>1, <1>2, <2>2, <3>1 DEF BatchFits, Unparsed, SeqsOf, Parsed, Stored
  <2> QED
    BY <1>7, <2>1, <2>2 DEF bulkInsertDedupe
<1>8. CASE MarkPersisted(p) \/ SummarySelects(p) \/ SummaryUpserts(p)
  <2>1. pass'[p].batch = pass[p].batch /\ pass[p].pc \in Stored /\ pass'[p].pc \in Stored
    BY <1>1, <1>8 DEF MarkPersisted, SummarySelects, SummaryUpserts, PassType, Parsed, Stored
  <2>2. events' = events
    BY <1>8 DEF MarkPersisted, SummarySelects, SummaryUpserts, storeVars
  <2> QED
    BY <1>1, <1>2, <2>1, <2>2 DEF BatchFits, Unparsed, SeqsOf, Parsed, Stored
<1>9. CASE Begin(p) \/ (\E ids \in SUBSET pending : recoverPendingOnce(p, ids))
           \/ processBatchOnce(p) \/ AckMalformed(p) \/ AckBatch(p) \/ PassStops(p)
  <2>1. ASSUME NEW ids \in SUBSET pending, recoverPendingOnce(p, ids)
        PROVE  pass'[p].pc \in {"read", "parse"}
    BY <1>1, <2>1 DEF recoverPendingOnce, PassType
  <2>2. CASE processBatchOnce(p)
    BY <1>1, <1>4, <2>2, WaitingTyped DEF processBatchOnce
  <2>3. CASE Begin(p) \/ AckMalformed(p) \/ AckBatch(p) \/ PassStops(p)
    <3>1. pass'[p].pc \in {"claim", "parse", "read", "idle"}
      BY <1>1, <2>3, WaitingTyped DEF Begin, AckMalformed, AckBatch, PassStops, PassType
    <3> QED
      BY <1>4, <3>1
  <2> QED
    BY <1>4, <1>9, <2>1, <2>2, <2>3
<1> QED
  BY <1>5, <1>6, <1>7, <1>8, <1>9 DEF TelemetryWork, Works

\* An entry ceases to be pending only when it has been dropped, or its batch stored.
LEMMA AckedAreKept ==
    ASSUME TelemetryIInv, NEW p \in Pass, TelemetryWork(p)
    PROVE  \A i \in (1..read') \ pending' :
              (i \in 1..read /\ i \notin pending) \/ stream[i].seq \in events \/ i \in dead
<1>1. BatchFits(p) /\ read \in Nat /\ pass[p].batch \subseteq 1..read
  BY StreamTypes DEF TelemetryIInv, BatchFits
<1>2. CASE processBatchOnce(p)
  <2>1. Min({Len(stream), read + BatchSize}) \in Nat
    BY NextRead, StreamTypes
  <2> QED
    BY <1>1, <1>2, <2>1 DEF processBatchOnce
<1>3. CASE AckMalformed(p)
  BY <1>1, <1>3 DEF AckMalformed, BatchFits
<1>4. CASE AckBatch(p)
  BY <1>1, <1>4 DEF AckBatch, BatchFits, Stored, Parsed, SeqsOf
<1>5. CASE read' = read /\ pending' = pending
  BY <1>5
<1> QED
  BY <1>2, <1>3, <1>4, <1>5
     DEF TelemetryWork, Works, PassStops, Begin, recoverPendingOnce, deadLetterMalformedEntry,
         MarkPersisting, bulkInsertDedupe, MarkPersisted, SummarySelects, SummaryUpserts

LEMMA TelemetryStep == TelemetryIInv /\ [TelemetryNext]_telemetryVars => TelemetryIInv'
<1> SUFFICES ASSUME TelemetryIInv, [TelemetryNext]_telemetryVars PROVE TelemetryIInv'
  OBVIOUS
<1>1. TelemetryTypeOK' /\ StreamGrows /\ read \in Nat /\ read' \in Nat
  BY TelemetryTypeStep, StreamTypes DEF TelemetryTypeOK
<1>2. ASSUME NEW p \in Pass, TelemetryWork(p)
      PROVE  (\A q \in Pass : BatchFits(q)') /\ DeliveredIsKept'
  <2>1. ASSUME NEW q \in Pass, q # p PROVE BatchFits(q)'
    BY <1>1, <1>2, <2>1, OtherBatchesFit, PollSteps, StreamTypes
  <2>2. stream' = stream /\ dead \subseteq dead' /\ events \subseteq events'
    BY <1>2, PollSteps DEF clientVars
  <2>3. DeliveredIsKept'
    BY <1>2, <2>2, AckedAreKept DEF DeliveredIsKept, TelemetryIInv
  <2> QED
    BY <1>2, <2>1, <2>3, MovingBatchFits
<1>3. ASSUME Socket \/ Flush \/ Guard \/ UNCHANGED telemetryVars
      PROVE  (\A q \in Pass : BatchFits(q)') /\ DeliveredIsKept'
  <2>1. UNCHANGED <<read, pending, dead, events, pass>>
    BY <1>3, ClientSteps
  <2>2. \A q \in Pass : BatchFits(q)'
    BY <1>1, <2>1, OtherBatchesFit
  <2>3. DeliveredIsKept'
    BY <1>1, <2>1 DEF DeliveredIsKept, TelemetryIInv, StreamGrows
  <2> QED
    BY <2>2, <2>3
<1>4. (\A q \in Pass : BatchFits(q)') /\ DeliveredIsKept'
  BY <1>2, <1>3 DEF TelemetryNext, TelemetryWork
<1> QED
  BY <1>1, <1>4 DEF TelemetryIInv

LEMMA TelemetryInvariant == TelemetrySpec => []TelemetryIInv
BY TelemetryInitHolds, TelemetryStep, PTL DEF TelemetrySpec

\* For any number of polls, events, entries and faults: the types.
THEOREM TelemetryTypes == TelemetrySpec => []TelemetryTypeOK
<1>1. TelemetryIInv => TelemetryTypeOK
  BY DEF TelemetryIInv
<1> QED
  BY <1>1, TelemetryInvariant, PTL

\* For any number of overlapping polls, of one persister or of several, any batches and any
\* crashes: what the consumer group was given and has acknowledged (processEntries) is in the
\* table or in the dead-letter stream.
THEOREM DeliveredAlwaysKept == TelemetrySpec => []DeliveredIsKept
<1>1. TelemetryIInv => DeliveredIsKept
  BY DEF TelemetryIInv
<1> QED
  BY <1>1, TelemetryInvariant, PTL

-----------------------------------------------------------------------------
(* The AI jobs of ProctoringAiJobs.                                             *)

Told == result \in Explained \/ missed

\* What a poll relies on.
Fits(p) ==
    /\ poll[p].pc \in {"claim", "failing"} => poll[p].attempts < MaxAttempts
    /\ Running(p) => /\ job[Mine(p)].status = "running"
                     /\ job[Mine(p)].attempts = poll[p].attempts
    /\ At(p, "persist") => poll[p].reply \in Replies(Mine(p))
    /\ At(p, "enqueue") => /\ Mine(p) = "prediction"
                           /\ poll[p].reply = "high" => result # "absent"
    /\ At(p, "mark") => Mine(p) # "prediction"
    /\ poll[p].pc \in {"complete", "bury"} =>
           /\ Mine(p) = "explanation" => Told
           /\ Mine(p) = "summary" => row[jobRow] # "pending"

\* How jobs, results and rows depend on each other.
JobsFit ==
    /\ \A j \in Job : job[j].status \in Runnable => job[j].attempts < MaxAttempts
    /\ job["explanation"].status # "absent" \/ missed => result # "absent"
    /\ job["summary"].status # "absent" <=> jobRow # 0
    /\ jobRow # 0 => row[jobRow] # "absent"
    /\ request # 0 => row[request] # "absent" /\ jobRow # request

AiJobsIInv ==
    /\ AiJobsTypeOK /\ (\A p \in Poll : Fits(p)) /\ JobsFit
    /\ JobHasOneRunner /\ ExplanationIsTold /\ PendingSummaryHasJob

JobType == [status : Runnable \cup Settled \cup {"absent", "running"},
            attempts : 0..MaxAttempts]
PollType == [pc : {"idle", "claim", "run", "persist", "enqueue", "complete", "failing",
                   "mark", "bury"},
             job : Job, attempts : 0..MaxAttempts, reply : Reply]

-----------------------------------------------------------------------------
LEMMA AiJobsInitHolds == AiJobsInit => AiJobsIInv
<1> SUFFICES ASSUME AiJobsInit PROVE AiJobsIInv
  OBVIOUS
<1>1. AiJobsTypeOK
  <2>1. /\ 0 \in 0..MaxAttempts /\ 0 \in 0..MaxRequests /\ 0 \in 0..Threshold
        /\ 0 \in 0..MaxCrashes
    BY AiJobsAssumption
  <2>2. job \in [Job -> JobType] /\ poll \in [Poll -> PollType]
    BY <2>1 DEF AiJobsInit, JobType, PollType, NotPolling, Job, Reply
  <2> QED
    BY <2>1, <2>2 DEF AiJobsInit, AiJobsTypeOK, JobType, PollType
<1>2. \A p \in Poll : Fits(p)
  BY DEF AiJobsInit, Fits, Running, NotPolling, At
<1>3. JobsFit /\ ExplanationIsTold /\ PendingSummaryHasJob
  BY DEF AiJobsInit, JobsFit, ExplanationIsTold, PendingSummaryHasJob, Job, Runnable, Settled
<1>4. JobHasOneRunner
  BY DEF AiJobsInit, JobHasOneRunner, Running, NotPolling
<1> QED
  BY <1>1, <1>2, <1>3, <1>4 DEF AiJobsIInv

LEMMA AiJobsParts ==
    ASSUME AiJobsIInv
    PROVE  /\ job \in [Job -> JobType] /\ poll \in [Poll -> PollType]
           /\ \A j \in Job : job[j] \in JobType
           /\ \A p \in Poll : poll[p] \in PollType /\ Mine(p) \in Job
           /\ row \in [Row -> {"absent", "pending", "accepted", "validation_failed",
                               "dead_letter"}]
           /\ jobRow \in 0..MaxRequests /\ request \in 0..MaxRequests
BY DEF AiJobsIInv, AiJobsTypeOK, JobType, PollType, Mine

\* A poll of a summary job has a row to write.
LEMMA SummaryHasRow ==
    ASSUME AiJobsIInv, NEW p \in Poll, Running(p), Mine(p) = "summary"
    PROVE  jobRow \in Row /\ row[jobRow] # "absent"
<1>1. job["summary"].status = "running"
  BY DEF AiJobsIInv, Fits
<1> QED
  BY <1>1, AiJobsParts, AiJobsAssumption DEF AiJobsIInv, JobsFit, Row

\* A step of one poll leaves the others alone, and the jobs they run.
OneMoves(p) ==
    /\ poll' \in [Poll -> PollType]
    /\ \A q \in Poll \ {p} : /\ poll'[q] = poll[q]
                             /\ Running(q) => job'[Mine(q)] = job[Mine(q)]

LEMMA PollStep ==
    ASSUME AiJobsIInv, AiJobsNext
    PROVE  \/ /\ poll' = poll
              /\ \A j \in Job : job'[j] = job[j] \/ job[j].status = "absent"
           \/ poll' = [p \in Poll |-> NotPolling] /\ job' = job
           \/ \E p \in Poll : OneMoves(p) /\ (Polls(p) \/ RecordingFails(p))
<1> DEFINE One(p) == \E r \in PollType :
              /\ poll' = [poll EXCEPT ![p] = r]
              /\ \A j \in Job \ {Mine(p)} : job'[j] = job[j] \/ job[j].status = "absent"
<1>1. /\ job \in [Job -> JobType] /\ poll \in [Poll -> PollType]
      /\ \A p \in Poll : poll[p] \in PollType
  BY AiJobsParts
<1>n. NotPolling \in PollType
  BY AiJobsAssumption DEF NotPolling, PollType, Job, Reply
<1>g. ASSUME NEW p \in Poll, NEW pc \in {"idle", "claim", "run", "persist", "enqueue",
                                         "complete", "failing", "mark", "bury"}
      PROVE  [poll[p] EXCEPT !.pc = pc] \in PollType
  BY <1>1 DEF PollType
<1>2. CASE enqueueTelemetryWindow \/ insertSummaryJob
  BY <1>1, <1>2 DEF enqueueTelemetryWindow, insertSummaryJob, upsertByJobKey
<1>3. CASE (\E r \in Row : insertOrFindActive(r)) \/ RequestEnds \/ CircuitCloses
           \/ resolveStaleExplanations
  BY <1>3 DEF insertOrFindActive, RequestEnds, CircuitCloses, resolveStaleExplanations,
              summaryVars
<1>4. CASE Crash
  BY <1>4 DEF Crash
<1>5. ASSUME NEW p \in Poll, NEW j \in Job, SelectCandidate(p, j)
      PROVE  One(p)
  <2> DEFINE r == [pc |-> "claim", job |-> j, attempts |-> job[j].attempts, reply |-> "none"]
  <2>1. r \in PollType
    BY <1>1 DEF PollType, JobType, Reply
  <2> QED
    BY <1>5, <2>1 DEF SelectCandidate
<1>6. ASSUME NEW p \in Poll, claimNext(p)
      PROVE  One(p)
  <2>1. CASE job[Mine(p)].status \notin Runnable
    BY <1>6, <1>n, <2>1 DEF claimNext
  <2>2. CASE job[Mine(p)].status \in Runnable
    <3> DEFINE r == [pc |-> "run", job |-> poll[p].job, attempts |-> poll[p].attempts + 1,
                     reply |-> poll[p].reply]
    <3>1. poll[p].attempts < MaxAttempts
      BY <1>6 DEF AiJobsIInv, Fits, claimNext, At
    <3>2. r \in PollType
      BY <1>1, <3>1, AiJobsAssumption DEF PollType
    <3>3. poll' = [poll EXCEPT ![p] = r]
      BY <1>1, <1>6, <2>2 DEF claimNext, PollType
    <3>4. \A i \in Job \ {Mine(p)} : job'[i] = job[i]
      BY <1>1, <1>6, <2>2 DEF claimNext
    <3> QED
      BY <3>2, <3>3, <3>4
  <2> QED
    BY <2>1, <2>2
<1>7. ASSUME NEW p \in Poll, NEW reply \in Replies(Mine(p)), Answered(p, reply)
      PROVE  One(p)
  <2>1. reply \in Reply
    BY <1>7, AiJobsParts DEF Replies, Reply, Explained, Job
  <2> DEFINE r == [poll[p] EXCEPT !.pc = "persist", !.reply = reply]
  <2>2. r \in PollType
    BY <1>1, <2>1 DEF PollType
  <2> QED
    BY <1>1, <1>7, <2>2 DEF Answered
<1>8. ASSUME NEW p \in Poll,
             Persist(p) \/ enqueueExplanationIfNeeded(p) \/ Fail(p) \/ MarkFailed(p)
      PROVE  One(p)
  <2>1. \E pc \in {"enqueue", "complete", "failing", "mark", "bury"} :
            poll' = [poll EXCEPT ![p].pc = pc]
    BY <1>8, AiJobsParts DEF Persist, enqueueExplanationIfNeeded, Fail, MarkFailed, Goes, Job
  <2>2. \A j \in Job : job'[j] = job[j] \/ job[j].status = "absent"
    BY <1>1, <1>8 DEF Persist, enqueueExplanationIfNeeded, Fail, MarkFailed, upsertByJobKey
  <2>3. PICK pc \in {"enqueue", "complete", "failing", "mark", "bury"} :
            poll' = [poll EXCEPT ![p] = [poll[p] EXCEPT !.pc = pc]]
    BY <2>1
  <2> QED
    BY <1>g, <2>2, <2>3
<1>9. ASSUME NEW p \in Poll, Complete(p) \/ handleFailure(p) \/ RecordingFails(p)
      PROVE  One(p)
  <2>1. poll' = [poll EXCEPT ![p] = NotPolling]
    BY <1>9 DEF Complete, handleFailure, RecordingFails, updateStatus
  <2>2. \A j \in Job \ {Mine(p)} : job'[j] = job[j]
    BY <1>1, <1>9 DEF Complete, handleFailure, RecordingFails, updateStatus
  <2> QED
    BY <1>n, <2>1, <2>2
<1>10. ASSUME NEW p \in Poll, Polls(p) \/ RecordingFails(p), One(p)
       PROVE  OneMoves(p)
  <2>1. PICK r \in PollType :
          /\ poll' = [poll EXCEPT ![p] = r]
          /\ \A j \in Job \ {Mine(p)} : job'[j] = job[j] \/ job[j].status = "absent"
    BY <1>10
  <2>2. ASSUME NEW q \in Poll \ {p}, Running(q)
        PROVE  job'[Mine(q)] = job[Mine(q)]
    <3>1. job[Mine(q)].status = "running" /\ Mine(q) \in Job
      BY <2>2, AiJobsParts DEF AiJobsIInv, Fits
    <3>2. CASE Running(p)
      <4>1. Mine(q) # Mine(p)
        BY <2>2, <3>2 DEF AiJobsIInv, JobHasOneRunner
      <4> QED
        BY <2>1, <3>1, <4>1
    <3>3. CASE job' = job
      BY <3>3
    <3>4. CASE claimNext(p) /\ job[Mine(p)].status \in Runnable
      <4>1. Mine(q) # Mine(p)
        BY <3>1, <3>4 DEF Runnable
      <4> QED
        BY <2>1, <3>1, <4>1
    <3> QED
      BY <1>10, <3>2, <3>3, <3>4
         DEF Polls, SelectCandidate, claimNext, Running, At, Answered, Persist,
             enqueueExplanationIfNeeded, Complete, Fail, handleFailure, MarkFailed,
             RecordingFails
  <2>3. poll' \in [Poll -> PollType] /\ \A q \in Poll \ {p} : poll'[q] = poll[q]
    BY <1>1, <2>1
  <2> QED
    BY <2>2, <2>3 DEF OneMoves
<1>11. ASSUME NEW p \in Poll, Polls(p) \/ RecordingFails(p)
       PROVE  OneMoves(p)
  <2>1. One(p)
    BY <1>5, <1>6, <1>7, <1>8, <1>9, <1>11 DEF Polls
  <2> QED
    BY <1>10, <1>11, <2>1
<1> QED
  BY <1>2, <1>3, <1>4, <1>11 DEF AiJobsNext

\* Results and rows: what is told stays told, a row that is not pending stays so.
Grows ==
    /\ result # "absent" => result' # "absent"
    /\ Told => Told'
    /\ jobRow # 0 => jobRow' = jobRow
    /\ \A r \in Row : row[r] # "absent" => row'[r] # "absent"
    /\ \A r \in Row : row[r] \notin {"absent", "pending"} => row'[r] # "pending"

LEMMA GrowStep ==
    ASSUME AiJobsIInv, AiJobsNext
    PROVE  Grows
<1>1. /\ row \in [Row -> {"absent", "pending", "accepted", "validation_failed",
                          "dead_letter"}]
      /\ missed \in BOOLEAN
      /\ \A p \in Poll : Mine(p) \in Job
      /\ (missed => result # "absent")
      /\ ("explanation" \in Job /\ job["explanation"].status # "absent" => result # "absent")
  BY AiJobsParts DEF AiJobsIInv, JobsFit, AiJobsTypeOK, Job
<1>2. CASE UNCHANGED <<result, missed, row, jobRow>>
  BY <1>2 DEF Grows, Told
<1>3. ASSUME NEW r \in Row, insertOrFindActive(r)
      PROVE  Grows
  BY <1>1, <1>3 DEF Grows, Told, insertOrFindActive, resultVars
<1>4. CASE insertSummaryJob
  <2>1. job["summary"].status # "absent" <=> jobRow # 0
    BY DEF AiJobsIInv, JobsFit
  <2> QED
    BY <1>4, <2>1 DEF Grows, Told, insertSummaryJob, resultVars
<1>5. ASSUME NEW p \in Poll, Persist(p)
      PROVE  Grows
  <2>1. At(p, "persist") /\ Running(p) /\ poll[p].reply \in Replies(Mine(p))
    BY <1>5 DEF Persist, At, Running, AiJobsIInv, Fits
  <2>2. CASE Mine(p) = "prediction"
    <3>1. persistPrediction(poll[p].reply) /\ UNCHANGED <<row, jobRow>>
      BY <1>5, <2>2 DEF Persist
    <3>2. CASE poll[p].reply = "elsewhere"
      BY <1>1, <3>1, <3>2 DEF Grows, Told, persistPrediction, resultVars
    <3>3. CASE poll[p].reply # "elsewhere"
      <4>1. result' = explanationStatus(poll[p].reply) /\ missed' = (result # "absent")
        BY <3>1, <3>3 DEF persistPrediction
      <4>2. result' # "absent"
        BY <2>1, <2>2, <4>1 DEF Replies, explanationStatus
      <4>3. Told => missed'
        BY <1>1, <4>1 DEF Told, Explained
      <4> QED
        BY <1>1, <3>1, <4>2, <4>3 DEF Grows, Told
    <3> QED
      BY <3>2, <3>3
  <2>3. CASE Mine(p) = "explanation"
    <3>1. persistExplanation(poll[p].reply) /\ UNCHANGED <<row, jobRow>>
      BY <1>5, <2>3 DEF Persist
    <3>2. CASE poll[p].reply = "elsewhere"
      BY <1>1, <3>1, <3>2 DEF Grows, Told, persistExplanation
    <3>3. CASE poll[p].reply # "elsewhere"
      <4>1. result' \in Explained
        BY <2>1, <2>3, <3>1, <3>3 DEF Replies, persistExplanation
      <4> QED
        BY <1>1, <3>1, <4>1 DEF Grows, Told, Explained
    <3> QED
      BY <3>2, <3>3
  <2>4. CASE Mine(p) = "summary"
    <3>1. /\ row' = [row EXCEPT ![jobRow] = poll[p].reply]
          /\ UNCHANGED <<result, missed, jobRow>>
      BY <1>5, <2>4 DEF Persist, persistSummary, resultVars
    <3>2. poll[p].reply \in {"accepted", "validation_failed"}
      BY <2>1, <2>4 DEF Replies
    <3> QED
      BY <1>1, <3>1, <3>2 DEF Grows, Told
  <2> QED
    BY <1>1, <2>2, <2>3, <2>4 DEF Job
<1>6. ASSUME NEW p \in Poll, MarkFailed(p)
      PROVE  Grows
  <2>1. CASE Mine(p) = "explanation"
    BY <1>1, <1>6, <2>1 DEF Grows, Told, Explained, MarkFailed
  <2>2. CASE Mine(p) # "explanation"
    <3>1. /\ row' = [row EXCEPT ![jobRow] = "dead_letter"]
          /\ UNCHANGED <<result, missed, jobRow>>
      BY <1>6, <2>2 DEF MarkFailed, resultVars
    <3> QED
      BY <1>1, <3>1 DEF Grows, Told
  <2> QED
    BY <2>1, <2>2
<1>7. CASE resolveStaleExplanations
  BY <1>1, <1>7 DEF Grows, Told, Explained, resolveStaleExplanations, summaryVars
<1> QED
  BY <1>2, <1>3, <1>4, <1>5, <1>6, <1>7
     DEF AiJobsNext, Polls, enqueueTelemetryWindow, RequestEnds, Crash, CircuitCloses,
         RecordingFails, SelectCandidate, claimNext, Answered, enqueueExplanationIfNeeded,
         Complete, Fail, handleFailure, resultVars, summaryVars

\* A poll that a step leaves alone keeps what it relies on.
LEMMA OthersFit ==
    ASSUME AiJobsIInv, Grows, NEW q \in Poll, poll'[q] = poll[q],
           Running(q) => job'[Mine(q)] = job[Mine(q)]
    PROVE  Fits(q)'
<1>1. Fits(q)
  BY DEF AiJobsIInv
<1>2. Mine(q)' = Mine(q) /\ Mine(q) \in Job
  BY AiJobsParts DEF Mine
<1>3. ASSUME poll[q].pc \in {"complete", "bury"}, Mine(q) = "summary"
      PROVE  row'[jobRow'] # "pending"
  <2>1. Running(q)
    BY <1>3 DEF Running
  <2>2. jobRow \in Row /\ row[jobRow] # "absent"
    BY <1>3, <2>1, SummaryHasRow
  <2>3. jobRow # 0
    BY <2>2, AiJobsAssumption DEF Row
  <2> QED
    BY <1>1, <1>3, <2>2, <2>3 DEF Fits, Grows
<1> QED
  BY <1>1, <1>2, <1>3 DEF Fits, Grows, Running, At

-----------------------------------------------------------------------------
\* What the poll that moves relies on afterwards.
LEMMA MoverFits ==
    ASSUME AiJobsIInv, AiJobsNext, NEW p \in Poll, Polls(p) \/ RecordingFails(p)
    PROVE  Fits(p)'
<1>1. /\ job \in [Job -> JobType] /\ poll \in [Poll -> PollType]
      /\ poll[p] \in PollType /\ Mine(p) \in Job /\ job[Mine(p)] \in JobType
      /\ Fits(p)
      /\ \A pc : [poll EXCEPT ![p].pc = pc][p] = [poll[p] EXCEPT !.pc = pc]
  BY AiJobsParts DEF AiJobsIInv
<1>2. ASSUME NEW j \in Job, SelectCandidate(p, j)
      PROVE  Fits(p)'
  <2>1. poll'[p] = [pc |-> "claim", job |-> j, attempts |-> job[j].attempts,
                    reply |-> "none"]
    BY <1>1, <1>2 DEF SelectCandidate
  <2>2. job[j].attempts < MaxAttempts
    BY <1>2 DEF SelectCandidate, AiJobsIInv, JobsFit
  <2> QED
    BY <2>1, <2>2 DEF Fits, Running, At
<1>3. ASSUME claimNext(p) PROVE Fits(p)'
  <2>1. CASE job[Mine(p)].status \in Runnable
    <3> DEFINE n == poll[p].attempts + 1
    <3>1. job'[Mine(p)] = [status |-> "running", attempts |-> n]
      BY <1>1, <1>3, <2>1 DEF claimNext
    <3>2. poll'[p].pc = "run" /\ poll'[p].attempts = n /\ poll'[p].job = Mine(p)
      BY <1>1, <1>3, <2>1 DEF claimNext, Mine, PollType
    <3> QED
      BY <3>1, <3>2 DEF Fits, Running, At, Mine
  <2>2. CASE job[Mine(p)].status \notin Runnable
    <3>1. poll'[p] = NotPolling
      BY <1>1, <1>3, <2>2 DEF claimNext
    <3> QED
      BY <3>1 DEF Fits, Running, At, NotPolling
  <2> QED
    BY <2>1, <2>2
<1>4. ASSUME NEW reply \in Replies(Mine(p)), Answered(p, reply)
      PROVE  Fits(p)'
  <2>1. /\ poll'[p].pc = "persist" /\ poll'[p].reply = reply
        /\ poll'[p].job = Mine(p) /\ poll'[p].attempts = poll[p].attempts
        /\ job' = job /\ Running(p)
    BY <1>1, <1>4 DEF Answered, Mine, PollType, Running, At
  <2> QED
    BY <1>1, <2>1 DEF Fits, Running, At, Mine
<1>5. ASSUME Persist(p) PROVE Fits(p)'
  <2>1. /\ Running(p) /\ poll[p].reply \in Replies(Mine(p)) /\ job' = job /\ jobRow' = jobRow
    BY <1>1, <1>5 DEF Persist, Running, At, Fits
  <2>2. CASE Mine(p) = "prediction"
    <3>1. /\ poll'[p].pc = "enqueue" /\ poll'[p].job = Mine(p)
          /\ poll'[p].attempts = poll[p].attempts
      BY <1>1, <1>5, <2>2 DEF Persist, Goes, Mine, PollType
    <3>2. poll[p].reply = "high" => result' # "absent"
      BY <1>5, <2>1, <2>2 DEF Persist, persistPrediction, explanationStatus
    <3>3. poll'[p].reply = poll[p].reply
      BY <1>1, <1>5, <2>2 DEF Persist, Goes, PollType
    <3> QED
      BY <1>1, <2>1, <2>2, <3>1, <3>2, <3>3 DEF Fits, Running, At, Mine
  <2>3. CASE Mine(p) = "explanation"
    <3>1. /\ poll'[p].pc = "complete" /\ poll'[p].job = Mine(p)
          /\ poll'[p].attempts = poll[p].attempts
      BY <1>1, <1>5, <2>3 DEF Persist, Goes, Mine, PollType
    <3>2. Told'
      BY <1>5, <2>1, <2>3 DEF Persist, persistExplanation, Replies, Told
    <3> QED
      BY <1>1, <2>1, <2>3, <3>1, <3>2 DEF Fits, Running, At, Mine
  <2>4. CASE Mine(p) = "summary"
    <3>1. /\ poll'[p].pc = "complete" /\ poll'[p].job = Mine(p)
          /\ poll'[p].attempts = poll[p].attempts
      BY <1>1, <1>5, <2>4 DEF Persist, Goes, Mine, PollType
    <3>2. row' = [row EXCEPT ![jobRow] = poll[p].reply] /\ poll[p].reply # "pending"
      BY <1>5, <2>1, <2>4 DEF Persist, persistSummary, Replies
    <3>3. row'[jobRow'] # "pending"
      BY <2>1, <2>4, <3>2, SummaryHasRow, AiJobsParts
    <3> QED
      BY <1>1, <2>1, <2>4, <3>1, <3>3 DEF Fits, Running, At, Mine
  <2> QED
    BY <1>1, <2>2, <2>3, <2>4 DEF Job
<1>6. ASSUME enqueueExplanationIfNeeded(p) PROVE Fits(p)'
  <2>1. /\ poll'[p].pc = "complete" /\ poll'[p].job = Mine(p)
        /\ poll'[p].attempts = poll[p].attempts /\ Running(p) /\ Mine(p) = "prediction"
    BY <1>1, <1>6 DEF enqueueExplanationIfNeeded, Goes, Mine, PollType, Running, At, Fits
  <2>2. job'[Mine(p)] = job[Mine(p)]
    BY <1>1, <1>6, <2>1 DEF enqueueExplanationIfNeeded, upsertByJobKey
  <2> QED
    BY <1>1, <2>1, <2>2 DEF Fits, Running, At, Mine
<1>7. ASSUME Fail(p) PROVE Fits(p)'
  <2>1. /\ poll'[p].job = Mine(p) /\ poll'[p].attempts = poll[p].attempts
        /\ Running(p) /\ job' = job
        /\ \/ poll'[p].pc = "failing" /\ poll[p].attempts < MaxAttempts
           \/ poll'[p].pc = "bury" /\ Mine(p) = "prediction"
           \/ poll'[p].pc = "mark" /\ Mine(p) # "prediction"
    BY <1>1, <1>7 DEF Fail, Goes, Mine, PollType, Running
  <2> QED
    BY <1>1, <2>1 DEF Fits, Running, At, Mine
<1>8. ASSUME MarkFailed(p) PROVE Fits(p)'
  <2>1. /\ poll'[p].pc = "bury" /\ poll'[p].job = Mine(p)
        /\ poll'[p].attempts = poll[p].attempts /\ Running(p) /\ Mine(p) # "prediction"
        /\ job' = job /\ jobRow' = jobRow
    BY <1>1, <1>8 DEF MarkFailed, Goes, Mine, PollType, Running, At, Fits
  <2>2. Mine(p) = "explanation" => Told'
    BY <1>8 DEF MarkFailed, Told, Explained
  <2>3. Mine(p) = "summary" => row'[jobRow'] # "pending"
    <3>1. ASSUME Mine(p) = "summary" PROVE row' = [row EXCEPT ![jobRow] = "dead_letter"]
      BY <1>8, <3>1 DEF MarkFailed
    <3> QED
      BY <2>1, <3>1, SummaryHasRow, AiJobsParts
  <2> QED
    BY <1>1, <2>1, <2>2, <2>3 DEF Fits, Running, At, Mine
<1>9. ASSUME Complete(p) \/ handleFailure(p) \/ RecordingFails(p) PROVE Fits(p)'
  <2>1. poll'[p] = NotPolling
    BY <1>1, <1>9 DEF Complete, handleFailure, RecordingFails, updateStatus
  <2> QED
    BY <2>1 DEF Fits, Running, At, NotPolling
<1> QED
  BY <1>2, <1>3, <1>4, <1>5, <1>6, <1>7, <1>8, <1>9 DEF Polls

LEMMA FitsStep ==
    ASSUME AiJobsIInv, AiJobsNext
    PROVE  \A q \in Poll : Fits(q)'
<1>1. TAKE q \in Poll
<1>2. Grows
  BY GrowStep
<1>3. CASE /\ poll' = poll
           /\ \A j \in Job : job'[j] = job[j] \/ job[j].status = "absent"
  <2>1. Running(q) => job'[Mine(q)] = job[Mine(q)]
    <3>1. Running(q) => job[Mine(q)].status = "running" /\ Mine(q) \in Job
      BY AiJobsParts DEF AiJobsIInv, Fits
    <3> QED
      BY <1>3, <3>1
  <2> QED
    BY <1>2, <1>3, <2>1, OthersFit
<1>4. CASE poll' = [p \in Poll |-> NotPolling]
  BY <1>4 DEF Fits, Running, At, NotPolling
<1>5. ASSUME NEW p \in Poll, OneMoves(p), Polls(p) \/ RecordingFails(p)
      PROVE  Fits(q)'
  <2>1. CASE q = p
    BY <1>5, <2>1, MoverFits
  <2>2. CASE q # p
    BY <1>2, <1>5, <2>2, OthersFit DEF OneMoves
  <2> QED
    BY <2>1, <2>2
<1> QED
  BY <1>3, <1>4, <1>5, PollStep

-----------------------------------------------------------------------------
LEMMA OneRunnerStep ==
    ASSUME AiJobsIInv, AiJobsNext
    PROVE  JobHasOneRunner'
<1>1. poll \in [Poll -> PollType] /\ job \in [Job -> JobType] /\ JobHasOneRunner
      /\ \A q \in Poll : Running(q) => job[Mine(q)].status = "running"
  BY AiJobsParts DEF AiJobsIInv, Fits
<1>2. CASE poll' = poll
  BY <1>1, <1>2 DEF JobHasOneRunner, Running, Mine
<1>3. CASE poll' = [p \in Poll |-> NotPolling]
  BY <1>3 DEF JobHasOneRunner, Running, NotPolling
<1>4. ASSUME NEW p \in Poll, OneMoves(p), Polls(p) \/ RecordingFails(p)
      PROVE  JobHasOneRunner'
  <2>1. SUFFICES ASSUME NEW q \in Poll \ {p}, Running(q)', Running(p)', Mine(p)' = Mine(q)'
                 PROVE  FALSE
    BY <1>1, <1>4, <2>1 DEF JobHasOneRunner, OneMoves, Running, Mine
  <2>2. Running(q) /\ Mine(q)' = Mine(q) /\ job[Mine(q)].status = "running"
    BY <1>1, <1>4, <2>1 DEF OneMoves, Running, Mine
  <2>3. CASE Running(p)
    <3>1. poll'[p].job = poll[p].job \/ poll'[p] = NotPolling
      <4>1. CASE \E reply \in Replies(Mine(p)) : Answered(p, reply)
        BY <1>1, <4>1 DEF Answered, PollType
      <4>2. ASSUME NEW pc, Goes(p, pc)
            PROVE  poll'[p].job = poll[p].job
        BY <1>1, <4>2 DEF Goes, PollType
      <4>3. CASE Persist(p)
        BY <1>1, <4>2, <4>3, AiJobsParts DEF Persist, Job
      <4>4. CASE enqueueExplanationIfNeeded(p) \/ Fail(p) \/ MarkFailed(p)
        BY <4>2, <4>4 DEF enqueueExplanationIfNeeded, Fail, MarkFailed
      <4>5. CASE Complete(p) \/ handleFailure(p) \/ RecordingFails(p)
        BY <1>1, <4>5 DEF Complete, handleFailure, RecordingFails, updateStatus
      <4> QED
        BY <1>4, <2>3, <4>1, <4>3, <4>4, <4>5
           DEF Polls, SelectCandidate, claimNext, Running, At
    <3>2. Mine(p) # Mine(q)
      BY <1>1, <2>2, <2>3 DEF JobHasOneRunner
    <3> QED
      BY <2>1, <2>2, <3>1, <3>2 DEF Running, Mine, NotPolling
  <2>4. CASE claimNext(p)
    <3>1. job[Mine(p)].status \in Runnable /\ poll'[p].job = Mine(p)
      BY <1>1, <2>1, <2>4 DEF claimNext, Running, NotPolling, Mine, PollType
    <3> QED
      BY <2>1, <2>2, <3>1 DEF Mine, Runnable
  <2>5. ASSUME NEW j \in Job, SelectCandidate(p, j)
        PROVE  FALSE
    BY <1>1, <2>1, <2>5 DEF SelectCandidate, Running
  <2> QED
    BY <1>4, <2>3, <2>4, <2>5
       DEF Polls, Running, At, Answered, Persist, enqueueExplanationIfNeeded, Complete, Fail,
           handleFailure, MarkFailed, RecordingFails
<1> QED
  BY <1>2, <1>3, <1>4, PollStep

\* How a step may change a job.
LEMMA JobStep ==
    ASSUME AiJobsIInv, AiJobsNext, NEW j \in Job
    PROVE  /\ job' \in [Job -> JobType]
           /\ \/ job'[j] = job[j]
              \/ /\ job[j].status = "absent" /\ job'[j].status = "pending"
                 /\ job'[j].attempts = 0
                 /\ j = "explanation" => result # "absent" /\ result' = result
                 /\ j = "summary" =>
                       jobRow' = request /\ request # 0 /\ row' = row /\ request' = 0
              \/ job[j].status \in Runnable /\ job'[j].status = "running"
              \/ \E p \in Poll :
                    /\ Running(p) /\ Mine(p) = j
                    /\ job'[j].attempts = job[j].attempts
                    /\ UNCHANGED <<resultVars, row, jobRow, request, halfway>>
                    /\ \/ job'[j].status = "retry" /\ job[j].attempts < MaxAttempts
                       \/ /\ job'[j].status \in Settled
                          /\ poll[p].pc \in {"complete", "bury"}
<1>1. /\ job \in [Job -> JobType] /\ poll \in [Poll -> PollType]
      /\ \A i \in Job : job[i] \in JobType
      /\ \A p \in Poll : poll[p] \in PollType /\ Mine(p) \in Job
  BY AiJobsParts
<1>2. [status |-> "pending", attempts |-> 0] \in JobType
  BY AiJobsAssumption DEF JobType, Runnable
<1>3. CASE UNCHANGED job
  BY <1>1, <1>3
<1>4. CASE enqueueTelemetryWindow
  BY <1>1, <1>2, <1>4 DEF enqueueTelemetryWindow, upsertByJobKey
<1>5. CASE insertSummaryJob
  BY <1>1, <1>2, <1>5 DEF insertSummaryJob, upsertByJobKey
<1>6. ASSUME NEW p \in Poll, enqueueExplanationIfNeeded(p), job' # job
      PROVE  /\ job' \in [Job -> JobType]
             /\ \/ job'[j] = job[j]
                \/ /\ job[j].status = "absent" /\ job'[j].status = "pending"
                   /\ job'[j].attempts = 0 /\ j = "explanation"
                   /\ result # "absent" /\ result' = result
  <2>1. result # "absent" /\ result' = result
    <3>1. poll[p].reply = "high"
      BY <1>6 DEF enqueueExplanationIfNeeded
    <3> QED
      BY <1>6, <3>1 DEF enqueueExplanationIfNeeded, AiJobsIInv, Fits, resultVars
  <2>2. /\ job["explanation"].status = "absent"
        /\ job' = [job EXCEPT !["explanation"] = [status |-> "pending", attempts |-> 0]]
    BY <1>6 DEF enqueueExplanationIfNeeded, upsertByJobKey
  <2> QED
    BY <1>1, <1>2, <2>1, <2>2
<1>7. ASSUME NEW p \in Poll, claimNext(p), job' # job
      PROVE  /\ job' \in [Job -> JobType]
             /\ \/ job'[j] = job[j]
                \/ job[j].status \in Runnable /\ job'[j].status = "running"
  <2> DEFINE new == [status |-> "running", attempts |-> poll[p].attempts + 1]
  <2>1. poll[p].attempts < MaxAttempts
    BY <1>7 DEF AiJobsIInv, Fits, claimNext, At
  <2>2. new \in JobType
    BY <1>1, <2>1, AiJobsAssumption DEF JobType, PollType
  <2>3. job' = [job EXCEPT ![Mine(p)] = new] /\ job[Mine(p)].status \in Runnable
    BY <1>7 DEF claimNext
  <2> QED
    BY <1>1, <2>2, <2>3
<1>8. ASSUME NEW p \in Poll, Complete(p) \/ handleFailure(p)
      PROVE  /\ job' \in [Job -> JobType]
             /\ \/ job'[j] = job[j]
                \/ /\ Running(p) /\ Mine(p) = j
                   /\ job'[j].attempts = job[j].attempts
                   /\ UNCHANGED <<resultVars, row, jobRow, request, halfway>>
                   /\ \/ job'[j].status = "retry" /\ job[j].attempts < MaxAttempts
                      \/ /\ job'[j].status \in Settled
                         /\ poll[p].pc \in {"complete", "bury"}
  <2>1. PICK st \in {"retry", "completed", "dead_letter"} :
          /\ job' = [job EXCEPT ![Mine(p)] = [job[Mine(p)] EXCEPT !.status = st]]
          /\ \/ st = "retry" /\ poll[p].pc = "failing"
             \/ st \in Settled /\ poll[p].pc \in {"complete", "bury"}
    BY <1>8 DEF Complete, handleFailure, updateStatus, At, Settled
  <2>2. [job[Mine(p)] EXCEPT !.status = st] \in JobType
    BY <1>1 DEF JobType, Runnable, Settled
  <2>3. Running(p) /\ (poll[p].pc = "failing" => job[Mine(p)].attempts < MaxAttempts)
    BY <2>1 DEF Running, AiJobsIInv, Fits
  <2>4. UNCHANGED <<resultVars, row, jobRow, request, halfway>>
    BY <1>8 DEF Complete, handleFailure, summaryVars
  <2>5. /\ job' \in [Job -> JobType]
        /\ job'[Mine(p)].status = st /\ job'[Mine(p)].attempts = job[Mine(p)].attempts
        /\ j # Mine(p) => job'[j] = job[j]
    BY <1>1, <2>1, <2>2 DEF JobType
  <2> QED
    BY <2>1, <2>3, <2>4, <2>5
<1> QED
  BY <1>3, <1>4, <1>5, <1>6, <1>7, <1>8
     DEF AiJobsNext, Polls, insertOrFindActive, RequestEnds, Crash, CircuitCloses,
         RecordingFails, SelectCandidate, Answered, Persist, Fail, MarkFailed,
         resolveStaleExplanations

LEMMA AiJobsTypeStep ==
    ASSUME AiJobsIInv, AiJobsNext
    PROVE  AiJobsTypeOK'
<1> USE AiJobsAssumption
<1>1. job' \in [Job -> JobType]
  BY JobStep DEF Job
<1>2. poll' \in [Poll -> PollType]
  <2>1. NotPolling \in PollType
    BY DEF NotPolling, PollType, Job, Reply
  <2> QED
    BY <2>1, PollStep, AiJobsParts DEF OneMoves
<1>3. /\ row' \in [Row -> {"absent", "pending", "accepted", "validation_failed",
                           "dead_letter"}]
      /\ result' \in Explained \cup {"absent", "not_requested", "pending"}
      /\ missed' \in BOOLEAN
  <2>1. /\ row \in [Row -> {"absent", "pending", "accepted", "validation_failed",
                            "dead_letter"}]
        /\ result \in Explained \cup {"absent", "not_requested", "pending"}
        /\ missed \in BOOLEAN
    BY DEF AiJobsIInv, AiJobsTypeOK
  <2>2. ASSUME NEW r \in Row, insertOrFindActive(r)
        PROVE  /\ row' \in [Row -> {"absent", "pending", "accepted", "validation_failed",
                                    "dead_letter"}]
               /\ UNCHANGED <<result, missed>>
    BY <2>1, <2>2 DEF insertOrFindActive, resultVars
  <2>3. ASSUME NEW p \in Poll, Persist(p)
        PROVE  <1>3!:
    <3>1. poll[p].reply \in Replies(Mine(p)) /\ Mine(p) \in Job
      BY <2>3, AiJobsParts DEF Persist, AiJobsIInv, Fits
    <3>2. CASE Mine(p) = "prediction"
      <4>1. poll[p].reply \in {"low", "high", "completed", "elsewhere"}
        BY <3>1, <3>2 DEF Replies
      <4>2. persistPrediction(poll[p].reply) /\ row' = row
        BY <2>3, <3>2 DEF Persist
      <4>3. CASE poll[p].reply = "elsewhere"
        BY <2>1, <4>2, <4>3 DEF persistPrediction, resultVars
      <4>4. CASE poll[p].reply # "elsewhere"
        <5>1. result' = explanationStatus(poll[p].reply) /\ missed' = (result # "absent")
          BY <4>2, <4>4 DEF persistPrediction
        <5>2. result' \in {"completed", "not_requested", "pending"}
          BY <4>1, <4>4, <5>1 DEF explanationStatus
        <5> QED
          BY <2>1, <4>2, <5>1, <5>2 DEF Explained
      <4> QED
        BY <4>3, <4>4
    <3>3. CASE Mine(p) = "explanation"
      BY <2>1, <2>3, <3>1, <3>3 DEF Persist, persistExplanation, Replies
    <3>4. CASE Mine(p) = "summary"
      BY <2>1, <2>3, <3>1, <3>4 DEF Persist, persistSummary, Replies, resultVars
    <3> QED
      BY <3>1, <3>2, <3>3, <3>4 DEF Job
  <2>4. ASSUME NEW p \in Poll, MarkFailed(p)
        PROVE  <1>3!:
    BY <2>1, <2>4 DEF MarkFailed, Explained, resultVars
  <2>5. CASE resolveStaleExplanations
    BY <2>1, <2>5 DEF resolveStaleExplanations, Explained, summaryVars
  <2>6. CASE UNCHANGED <<row, result, missed>>
    BY <2>1, <2>6
  <2> QED
    BY <2>1, <2>2, <2>3, <2>4, <2>5, <2>6
       DEF AiJobsNext, Polls, enqueueTelemetryWindow, insertSummaryJob, RequestEnds, Crash,
           CircuitCloses, RecordingFails, SelectCandidate, claimNext, Answered,
           enqueueExplanationIfNeeded, Complete, Fail, handleFailure, resultVars, summaryVars
<1>4. /\ jobRow' \in 0..MaxRequests /\ request' \in 0..MaxRequests /\ halfway' \subseteq Row
  <2>1. jobRow \in 0..MaxRequests /\ request \in 0..MaxRequests /\ halfway \subseteq Row
    BY DEF AiJobsIInv, AiJobsTypeOK
  <2>2. \/ UNCHANGED <<jobRow, request, halfway>>
        \/ \E r \in Row : request' = r /\ UNCHANGED <<jobRow, halfway>>
        \/ /\ request # 0 /\ request' = 0
           /\ jobRow' \in {jobRow, request} /\ halfway' \in {halfway, halfway \cup {request}}
    BY DEF AiJobsNext, Polls, enqueueTelemetryWindow, insertOrFindActive, insertSummaryJob,
           RequestEnds, Crash, CircuitCloses, RecordingFails, SelectCandidate, claimNext,
           Answered, Persist, enqueueExplanationIfNeeded, Complete, Fail, handleFailure,
           MarkFailed, resolveStaleExplanations, summaryVars
  <2>3. request # 0 => request \in Row
    BY <2>1 DEF Row
  <2>4. \A r \in Row : r \in 0..MaxRequests
    BY DEF Row
  <2>5. 0 \in 0..MaxRequests
    OBVIOUS
  <2> HIDE AiJobsAssumption
  <2> QED
    BY <2>1, <2>2, <2>3, <2>4, <2>5
<1>5. /\ failures' \in 0..Threshold /\ open' \in BOOLEAN
      /\ abandoned' \subseteq Job /\ crashes' \in 0..MaxCrashes
  <2>1. /\ failures \in 0..Threshold /\ open \in BOOLEAN
        /\ abandoned \subseteq Job /\ crashes \in 0..MaxCrashes
        /\ \A p \in Poll : Mine(p) \in Job
    BY AiJobsParts DEF AiJobsIInv, AiJobsTypeOK
  <2>2. ASSUME NEW p \in Poll, Fail(p)
        PROVE  <1>5!:
    <3>1. failures' = (IF failures < Threshold THEN failures + 1 ELSE failures)
      BY <2>2 DEF Fail
    <3>2. failures' \in 0..Threshold
      BY <2>1, <3>1
    <3>3. open' \in BOOLEAN /\ UNCHANGED <<abandoned, crashes>>
      BY <2>1, <2>2 DEF Fail
    <3> QED
      BY <2>1, <3>2, <3>3
  <2>3. ASSUME NEW p \in Poll, Complete(p)
        PROVE  <1>5!:
    <3>1. failures' = 0 /\ open' = FALSE /\ UNCHANGED <<abandoned, crashes>>
      BY <2>3 DEF Complete
    <3>2. failures' \in 0..Threshold
      BY <3>1
    <3>3. open' \in BOOLEAN
      BY <3>1
    <3> QED
      BY <2>1, <3>1, <3>2, <3>3
  <2>4. ASSUME RequestEnds \/ Crash \/ \E p \in Poll : RecordingFails(p)
        PROVE  <1>5!:
    <3>1. crashes' = crashes + 1 /\ crashes < MaxCrashes
      BY <2>4 DEF RequestEnds, Crash, RecordingFails
    <3>2. abandoned' \subseteq Job
      BY <2>1, <2>4 DEF RequestEnds, Crash, RecordingFails
    <3>3. failures' = failures \/ failures' = 0
      BY <2>4 DEF RequestEnds, Crash, RecordingFails, circuitVars
    <3>4. open' = open \/ open' = FALSE
      BY <2>4 DEF RequestEnds, Crash, RecordingFails, circuitVars
    <3>5. failures' \in 0..Threshold /\ crashes' \in 0..MaxCrashes
      BY <2>1, <3>1, <3>3
    <3> QED
      BY <2>1, <3>2, <3>4, <3>5
  <2>5. CASE CircuitCloses
    BY <2>1, <2>5 DEF CircuitCloses
  <2>6. CASE UNCHANGED <<failures, open, abandoned, crashes>>
    BY <2>1, <2>6
  <2> QED
    BY <2>2, <2>3, <2>4, <2>5, <2>6
       DEF AiJobsNext, Polls, enqueueTelemetryWindow, insertOrFindActive, insertSummaryJob,
           SelectCandidate, claimNext, Answered, Persist, enqueueExplanationIfNeeded,
           handleFailure, MarkFailed, resolveStaleExplanations, circuitVars
<1> QED
  BY <1>1, <1>2, <1>3, <1>4, <1>5 DEF AiJobsTypeOK, JobType, PollType

LEMMA JobsFitStep ==
    ASSUME AiJobsIInv, AiJobsNext
    PROVE  JobsFit'
<1>0. /\ JobsFit /\ Grows /\ "explanation" \in Job /\ "summary" \in Job
      /\ job \in [Job -> JobType] /\ job' \in [Job -> JobType]
      /\ jobRow \in 0..MaxRequests /\ request \in 0..MaxRequests
  BY GrowStep, AiJobsParts, JobStep DEF AiJobsIInv, Job
<1>1. \A j \in Job : job'[j].status \in Runnable => job'[j].attempts < MaxAttempts
  <2>1. TAKE j \in Job
  <2>2. job[j].status \in Runnable => job[j].attempts < MaxAttempts
    BY <1>0 DEF JobsFit
  <2>3. 0 < MaxAttempts
    BY AiJobsAssumption
  <2> QED
    BY <2>2, <2>3, JobStep DEF Runnable, Settled
<1>2. job'["explanation"].status # "absent" \/ missed' => result' # "absent"
  <2>1. job'["explanation"].status # "absent" => result' # "absent"
    <3>1. CASE job["explanation"].status # "absent"
      BY <1>0, <3>1 DEF JobsFit, Grows
    <3>2. CASE job["explanation"].status = "absent"
      <4>1. \A p \in Poll : Running(p) => job[Mine(p)].status = "running"
        BY DEF AiJobsIInv, Fits
      <4> QED
        BY <1>0, <3>2, <4>1, JobStep DEF Runnable
    <3> QED
      BY <3>1, <3>2
  <2>2. missed' => result' # "absent"
    <3>1. missed => result # "absent"
      BY <1>0 DEF JobsFit
    <3>2. missed' => missed \/ result # "absent"
      <4>1. ASSUME NEW p \in Poll, Persist(p), missed'
            PROVE  missed \/ result # "absent"
        <5>1. Mine(p) \in Job /\ Running(p)
          BY <4>1, AiJobsParts DEF Persist, Running, At
        <5>2. CASE Mine(p) = "explanation"
          BY <1>0, <5>1, <5>2 DEF AiJobsIInv, Fits, JobsFit
        <5>3. CASE Mine(p) = "prediction"
          BY <4>1, <5>3 DEF Persist, persistPrediction, resultVars
        <5>4. CASE Mine(p) = "summary"
          BY <4>1, <5>4 DEF Persist, resultVars
        <5> QED
          BY <5>1, <5>2, <5>3, <5>4 DEF Job
      <4> QED
        BY <4>1 DEF AiJobsNext, Polls, enqueueTelemetryWindow, insertOrFindActive,
            insertSummaryJob, RequestEnds, Crash, CircuitCloses, RecordingFails,
            SelectCandidate, claimNext, Answered, enqueueExplanationIfNeeded, Complete,
            Fail, handleFailure, MarkFailed, resolveStaleExplanations, resultVars
    <3> QED
      BY <1>0, <3>1, <3>2 DEF Grows
  <2> QED
    BY <2>1, <2>2
<1>3. job'["summary"].status # "absent" <=> jobRow' # 0
  <2>1. \/ jobRow' = jobRow
        \/ /\ request # 0 /\ jobRow' = request /\ job["summary"].status = "absent"
           /\ job'["summary"].status # "absent"
    <3>1. CASE insertSummaryJob
      BY <1>0, <3>1 DEF insertSummaryJob, upsertByJobKey
    <3> QED
      BY <3>1 DEF AiJobsNext, Polls, enqueueTelemetryWindow, insertOrFindActive, RequestEnds,
             Crash, CircuitCloses, RecordingFails, SelectCandidate, claimNext, Answered,
             Persist, enqueueExplanationIfNeeded, Complete, Fail, handleFailure, MarkFailed,
             resolveStaleExplanations, summaryVars
  <2>2. job["summary"].status # "absent" <=> jobRow # 0
    BY <1>0 DEF JobsFit
  <2>3. \A p \in Poll : Running(p) => job[Mine(p)].status = "running"
    BY DEF AiJobsIInv, Fits
  <2>4. \/ job'["summary"] = job["summary"]
        \/ job["summary"].status # "absent" /\ job'["summary"].status # "absent"
        \/ /\ job["summary"].status = "absent" /\ job'["summary"].status = "pending"
           /\ jobRow' = request /\ request # 0
    BY <1>0, <2>3, JobStep DEF Runnable, Settled
  <2> QED
    BY <2>1, <2>2, <2>4
<1>4. /\ jobRow' # 0 => row'[jobRow'] # "absent"
      /\ request' # 0 => row'[request'] # "absent"
  <2>1. jobRow # 0 => jobRow \in Row /\ row[jobRow] # "absent" /\ row'[jobRow] # "absent"
    BY <1>0, AiJobsAssumption DEF JobsFit, Grows, Row
  <2>2. request # 0 => request \in Row /\ row[request] # "absent" /\ row'[request] # "absent"
    BY <1>0, AiJobsAssumption DEF JobsFit, Grows, Row
  <2>3. jobRow' \in {jobRow, request}
    BY DEF AiJobsNext, Polls, enqueueTelemetryWindow, insertOrFindActive, insertSummaryJob,
           RequestEnds, Crash, CircuitCloses, RecordingFails, SelectCandidate, claimNext,
           Answered, Persist, enqueueExplanationIfNeeded, Complete, Fail, handleFailure,
           MarkFailed, resolveStaleExplanations, summaryVars
  <2>4. \/ request' \in {0, request}
        \/ \E r \in Row : request' = r /\ row'[r] # "absent"
    <3>1. ASSUME NEW r \in Row, insertOrFindActive(r)
          PROVE  request' = r /\ row'[r] = "pending"
      BY <3>1, AiJobsParts DEF insertOrFindActive
    <3> QED
      BY <3>1
      DEF AiJobsNext, Polls, enqueueTelemetryWindow, insertSummaryJob,
          RequestEnds, Crash, CircuitCloses, RecordingFails, SelectCandidate, claimNext,
          Answered, Persist, enqueueExplanationIfNeeded, Complete, Fail, handleFailure,
          MarkFailed, resolveStaleExplanations, summaryVars
  <2> QED
    BY <2>1, <2>2, <2>3, <2>4
<1>5. request' # 0 => jobRow' # request'
  <2>1. ASSUME NEW r \in Row, insertOrFindActive(r)
        PROVE  jobRow' # request'
    <3>1. row[r] = "absent" /\ jobRow' = jobRow /\ request' = r /\ r # 0
      BY <2>1, AiJobsAssumption DEF insertOrFindActive, Row
    <3> QED
      BY <1>0, <3>1 DEF JobsFit
  <2>2. request # 0 => jobRow # request
    BY <1>0 DEF JobsFit
  <2> QED
    BY <2>1, <2>2
       DEF AiJobsNext, Polls, enqueueTelemetryWindow, insertSummaryJob,
           RequestEnds, Crash, CircuitCloses, RecordingFails, SelectCandidate, claimNext,
           Answered, Persist, enqueueExplanationIfNeeded, Complete, Fail, handleFailure,
           MarkFailed, resolveStaleExplanations, summaryVars
<1> QED
  BY <1>1, <1>2, <1>3, <1>4, <1>5 DEF JobsFit

LEMMA ToldStep ==
    ASSUME AiJobsIInv, AiJobsNext
    PROVE  ExplanationIsTold'
<1>1. ASSUME job'["explanation"].status \in Settled PROVE Told'
  <2>0. "explanation" \in Job /\ Grows
    BY GrowStep DEF Job
  <2>1. CASE job["explanation"].status \in Settled
    BY <2>0, <2>1 DEF AiJobsIInv, ExplanationIsTold, Told, Grows
  <2>2. CASE job["explanation"].status \notin Settled
    <3>1. PICK p \in Poll : Mine(p) = "explanation" /\ poll[p].pc \in {"complete", "bury"}
      BY <1>1, <2>0, <2>2, JobStep DEF Settled
    <3>2. Told
      BY <3>1 DEF AiJobsIInv, Fits
    <3> QED
      BY <2>0, <3>2 DEF Grows
  <2> QED
    BY <2>1, <2>2
<1> QED
  BY <1>1 DEF ExplanationIsTold, Told

\* How a step may leave a row pending.
LEMMA RowStep ==
    ASSUME AiJobsIInv, AiJobsNext, NEW r \in Row, row'[r] = "pending"
    PROVE  \/ request' = r
           \/ /\ row[r] = "pending"
              /\ request = r => r \in halfway' \/ jobRow' = r
              /\ r \in halfway => r \in halfway'
<1>1. insertOrFindActive(r) => request' = r
  BY DEF insertOrFindActive
<1>2. ASSUME NEW q \in Row \ {r}, insertOrFindActive(q)
      PROVE  /\ row[r] = "pending"
             /\ request # r /\ halfway' = halfway
  <2>1. request = 0 /\ row'[r] = row[r] /\ halfway' = halfway
    BY <1>2, AiJobsParts DEF insertOrFindActive
  <2> QED
    BY <2>1, AiJobsAssumption DEF Row
<1>3. CASE row[r] = "pending" /\ request = r /\ request' # r
  BY <1>1, <1>3
     DEF AiJobsNext, Polls, enqueueTelemetryWindow, insertOrFindActive, insertSummaryJob,
         RequestEnds, Crash, CircuitCloses, RecordingFails, SelectCandidate, claimNext,
         Answered, Persist, enqueueExplanationIfNeeded, Complete, Fail, handleFailure,
         MarkFailed, resolveStaleExplanations, summaryVars
<1>4. r \in halfway => r \in halfway'
  BY DEF AiJobsNext, Polls, enqueueTelemetryWindow, insertOrFindActive, insertSummaryJob,
         RequestEnds, Crash, CircuitCloses, RecordingFails, SelectCandidate, claimNext,
         Answered, Persist, enqueueExplanationIfNeeded, Complete, Fail, handleFailure,
         MarkFailed, resolveStaleExplanations, summaryVars
<1>5. CASE row[r] # "pending" /\ request' # r
  <2>1. row[r] = "absent"
    BY <1>5, GrowStep DEF Grows
  <2>2. ASSUME NEW p \in Poll, Persist(p) \/ MarkFailed(p)
        PROVE  row'[r] = "absent"
    <3>1. CASE Mine(p) # "summary"
      <4>1. row' = row
        BY <2>2, <3>1, AiJobsParts DEF Persist, MarkFailed, Job, AiJobsIInv, Fits
      <4> QED
        BY <2>1, <4>1
    <3>2. CASE Mine(p) = "summary"
      <4>1. Running(p)
        BY <2>2 DEF Persist, MarkFailed, Running, At
      <4>2. jobRow # r
        BY <2>1, <3>2, <4>1, SummaryHasRow
      <4>3. \E s : row' = [row EXCEPT ![jobRow] = s]
        BY <2>2, <3>2 DEF Persist, persistSummary, MarkFailed
      <4> QED
        BY <2>1, <4>2, <4>3, AiJobsParts
    <3> QED
      BY <3>1, <3>2
  <2> QED
    BY <1>1, <1>2, <1>5, <2>1, <2>2
       DEF AiJobsNext, Polls, enqueueTelemetryWindow, insertSummaryJob,
           RequestEnds, Crash, CircuitCloses, RecordingFails, SelectCandidate, claimNext,
           Answered, enqueueExplanationIfNeeded, Complete, Fail, handleFailure,
           resolveStaleExplanations, summaryVars
<1> QED
  BY <1>3, <1>4, <1>5

LEMMA PendingStep ==
    ASSUME AiJobsIInv, AiJobsNext
    PROVE  PendingSummaryHasJob'
<1> SUFFICES ASSUME NEW r \in Row, row'[r] = "pending", request' # r, r \notin halfway'
             PROVE  /\ jobRow' = r
                    /\ job'["summary"].status \notin Settled \cup {"absent"}
  BY DEF PendingSummaryHasJob, Row
<1>1. /\ row[r] = "pending" /\ r # 0 /\ Grows
      /\ request = r => jobRow' = r
      /\ r \notin halfway
  BY RowStep, GrowStep, AiJobsAssumption DEF Row
<1>2. jobRow' = r
  <2>1. CASE request = r
    BY <1>1, <2>1
  <2>2. CASE request # r
    BY <1>1, <2>2 DEF AiJobsIInv, PendingSummaryHasJob, Grows
  <2> QED
    BY <2>1, <2>2
<1>3. job'["summary"].status # "absent"
  BY <1>1, <1>2, JobsFitStep DEF JobsFit
<1>4. ASSUME job'["summary"].status \in Settled PROVE FALSE
  <2>0. "summary" \in Job
    BY DEF Job
  <2>1. CASE job["summary"].status \in Settled
    <3>1. request = r /\ jobRow # r
      BY <1>1, <2>1 DEF AiJobsIInv, PendingSummaryHasJob, JobsFit
    <3>2. jobRow # 0
      BY <2>1 DEF AiJobsIInv, JobsFit, Settled
    <3> QED
      BY <1>1, <1>2, <3>1, <3>2 DEF Grows
  <2>2. CASE job["summary"].status \notin Settled
    <3>1. PICK p \in Poll : /\ Mine(p) = "summary" /\ poll[p].pc \in {"complete", "bury"}
                            /\ jobRow' = jobRow
      BY <1>4, <2>0, <2>2, JobStep DEF Settled
    <3>2. row[jobRow] # "pending"
      BY <3>1 DEF AiJobsIInv, Fits
    <3> QED
      BY <1>1, <1>2, <3>1, <3>2
  <2> QED
    BY <2>1, <2>2
<1> QED
  BY <1>2, <1>3, <1>4

-----------------------------------------------------------------------------
LEMMA AiJobsStepHolds == AiJobsIInv /\ [AiJobsNext]_aiJobsVars => AiJobsIInv'
<1> SUFFICES ASSUME AiJobsIInv, [AiJobsNext]_aiJobsVars PROVE AiJobsIInv'
  OBVIOUS
<1>1. CASE AiJobsNext
  BY <1>1, AiJobsTypeStep, FitsStep, JobsFitStep, OneRunnerStep, ToldStep, PendingStep
     DEF AiJobsIInv
<1>2. CASE UNCHANGED aiJobsVars
  <2>1. /\ AiJobsTypeOK' /\ JobsFit'
    BY <1>2 DEF AiJobsIInv, aiJobsVars, resultVars, AiJobsTypeOK, JobsFit
  <2>2. \A p \in Poll : Fits(p)'
    BY <1>2 DEF AiJobsIInv, aiJobsVars, resultVars, Fits, Running, At, Mine, Told
  <2>3. JobHasOneRunner' /\ ExplanationIsTold' /\ PendingSummaryHasJob'
    BY <1>2 DEF AiJobsIInv, aiJobsVars, resultVars, JobHasOneRunner, ExplanationIsTold,
                PendingSummaryHasJob, Running, Mine
  <2> QED
    BY <2>1, <2>2, <2>3 DEF AiJobsIInv
<1> QED
  BY <1>1, <1>2

LEMMA AiJobsInvariant == AiJobsSpec => []AiJobsIInv
  BY AiJobsInitHolds, AiJobsStepHolds, PTL DEF AiJobsSpec

\* Every row, job and poll stays well formed.  The attempts counted for a job stay within
\* its maxAttempts whatever claims overlap (claimNext writes the count of an older select,
\* which may be lower: the number of runs has no such bound).
THEOREM AiJobsTypes == AiJobsSpec => []AiJobsTypeOK
  BY AiJobsInvariant, PTL DEF AiJobsIInv

\* However many polls overlap, and although a claim is a select and a later update, a job is
\* run by one of them at a time (claimNext, updateStatus).
THEOREM JobsHaveOneRunner == AiJobsSpec => []JobHasOneRunner
  BY AiJobsInvariant, PTL DEF AiJobsIInv

\* A settled explanation job has marked the result, unless a later prediction has replaced
\* the mark or its last answer named another row (persistExplanation, markExplanationFailed).
THEOREM ExplanationsAreTold == AiJobsSpec => []ExplanationIsTold
  BY AiJobsInvariant, PTL DEF AiJobsIInv

\* A pending summary row has a job that will settle it, or its request stopped halfway.
THEOREM PendingSummariesHaveJobs == AiJobsSpec => []PendingSummaryHasJob
  BY AiJobsInvariant, PTL DEF AiJobsIInv
=============================================================================
