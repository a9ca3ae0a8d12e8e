--------------------------- MODULE KafkaConsumer ----------------------------
(***************************************************************************)
(* One partition of the jobs topic and the consumer group's claim of it:   *)
(* ConsumeClaim and Consume of internal/queue/kafka.go with                *)
(* kafkaJobHandler.Handle of cmd/server/main.go.                           *)
(*                                                                         *)
(* sarama is modelled by how it is used: a session reads from the          *)
(* committed offset, or from the end of the log when nothing is committed  *)
(* (OffsetNewest); MarkMessage only moves forward; the mark is committed   *)
(* now and then and when a session ends in order.                          *)
(***************************************************************************)
EXTENDS Naturals

CONSTANTS
    MaxMessages,   \* the length the log grows to
    NoOffset,      \* nothing committed or marked yet
    NoMessage,
    MaxSessions    \* rebalances and restarts are counted up to here

ASSUME ConsumerAssumption ==
    /\ MaxMessages \in Nat /\ MaxSessions \in Nat
    /\ NoOffset \notin Nat /\ NoMessage \notin Nat

Message == 0..(MaxMessages - 1)

VARIABLES
    log,         \* messages published so far: their offsets are 0..log-1
    committed,   \* the group's committed offset, the next one to read
    up,          \* whether a session has the partition
    sessions,
    pos,         \* the next offset the session reads
    mark,        \* the session's marked offset
    msg,         \* the message ConsumeClaim has received
    skipped,     \* history: messages that existed when a session began at the end
    handled,     \* history: messages given to Handle
    settled      \* history: messages Handle returned nil for

consumerVars == <<log, committed, up, sessions, pos, mark, msg, skipped, handled, settled>>

ConsumerInit ==
    /\ log = 0 /\ committed = NoOffset
    /\ up = FALSE /\ sessions = 0 /\ pos = 0 /\ mark = NoOffset /\ msg = NoMessage
    /\ skipped = {} /\ handled = {} /\ settled = {}

SendMessage ==
    /\ log < MaxMessages
    /\ log' = log + 1
    /\ UNCHANGED <<committed, up, sessions, pos, mark, msg, skipped, handled, settled>>

\* ConsumerGroup.Consume: the partition is assigned.
Join ==
    /\ ~up /\ sessions < MaxSessions
    /\ up' = TRUE /\ sessions' = sessions + 1
    /\ IF committed = NoOffset
       THEN pos' = log /\ skipped' = skipped \cup (0..(log - 1))
       ELSE pos' = committed /\ UNCHANGED skipped
    /\ mark' = committed
    /\ UNCHANGED <<log, committed, msg, handled, settled>>

\* Plausible bug: the message is marked when it is received.
ReceiveMarks ==
    /\ up /\ msg = NoMessage /\ pos < log
    /\ msg' = pos /\ pos' = pos + 1 /\ mark' = pos + 1
    /\ UNCHANGED <<log, committed, up, sessions, skipped, handled, settled>>

\* ConsumeClaim takes the next message.
Receive ==
    /\ up /\ msg = NoMessage /\ pos < log
    /\ msg' = pos /\ pos' = pos + 1
    /\ UNCHANGED <<log, committed, up, sessions, mark, skipped, handled, settled>>

\* Handle returns nil: the pool took the job, or the message is not a job.
HandleOk ==
    /\ up /\ msg # NoMessage
    /\ handled' = handled \cup {msg} /\ settled' = settled \cup {msg}
    /\ mark' = IF mark = NoOffset \/ mark < msg + 1 THEN msg + 1 ELSE mark
    /\ msg' = NoMessage
    /\ UNCHANGED <<log, committed, up, sessions, pos, skipped>>

\* Handle fails: the pool is full.  The loop goes on with the next message.
HandleFull ==
    /\ up /\ msg # NoMessage
    /\ handled' = handled \cup {msg}
    /\ msg' = NoMessage
    /\ UNCHANGED <<log, committed, up, sessions, pos, mark, skipped, settled>>

Commit ==
    /\ up /\ committed # mark
    /\ committed' = mark
    /\ UNCHANGED <<log, up, sessions, pos, mark, msg, skipped, handled, settled>>

\* A rebalance or a shutdown commits the mark; ConsumeClaim has returned.
Leave ==
    /\ up /\ msg = NoMessage
    /\ up' = FALSE /\ committed' = mark
    /\ UNCHANGED <<log, sessions, pos, mark, msg, skipped, handled, settled>>

\* The process dies, or the broker takes the partition away.
SessionLost ==
    /\ up
    /\ up' = FALSE /\ msg' = NoMessage
    /\ UNCHANGED <<log, committed, sessions, pos, mark, skipped, handled, settled>>

ConsumerNext == SendMessage \/ Join \/ Receive \/ HandleOk \/ HandleFull \/ Commit \/ Leave \/ SessionLost

ConsumerSpec == ConsumerInit /\ [][ConsumerNext]_consumerVars

-----------------------------------------------------------------------------

\* The type invariant.
ConsumerTypeOK ==
    /\ log \in 0..MaxMessages
    /\ committed \in {NoOffset} \cup (0..log) /\ mark \in {NoOffset} \cup (0..log)
    /\ up \in BOOLEAN /\ sessions \in 0..MaxSessions
    /\ pos \in 0..log /\ msg \in {NoMessage} \cup Message
    /\ skipped \subseteq Message /\ handled \subseteq Message /\ settled \subseteq handled

\* However sessions end, a committed offset has left no message unread except
\* the ones from before the group's first commit: each was given to Handle.
\* And what is committed ends with a message that was dispatched: failures
\* alone never move the offset.  This is less than delivery: see
\* CommittedWasDispatched.
CommittedWasHandled ==
    committed # NoOffset =>
      /\ \A m \in 0..(committed - 1) : m \in handled \cup skipped
      /\ committed > 0 => committed - 1 \in settled \cup skipped

\* Every message below the committed offset was dispatched, so that none is lost
\* when the consumer restarts (docs/ARCHITECTURE.md:156, "Consumer marks offsets
\* only after successful dispatch -- at-least-once delivery").  It is not so: a
\* message the pool refused is passed over and the mark of a later one covers it.
CommittedWasDispatched ==
    committed # NoOffset => \A m \in 0..(committed - 1) : m \in settled \cup skipped

=============================================================================
