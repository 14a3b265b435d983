------------------------------- MODULE Intake -------------------------------
(***************************************************************************)
(* From the bytes of a socket to the handlers: the 'data' handler with its *)
(* receivedBuffer, parseMessages, the message queue and the replay guard.  *)
(* It is the same code on the client and on the server.                    *)
(*                                                                         *)
(* The peer sends a stream of frames, any message any number of times, and *)
(* maybe one whose length is refused.  TCP cuts the stream into chunks     *)
(* anywhere; a frame counts as two units, its length and the rest.         *)
(*                                                                         *)
(* A bad length throws out of parseMessages after the frames before it     *)
(* have been queued, and before the buffer is replaced.  fail() only ends  *)
(* the sending side, so the next chunk is appended to the same buffer, and *)
(* the same frames are queued again.                                       *)
(***************************************************************************)
EXTENDS ReplayGuard, Sequences

CONSTANTS Bad,         \* a frame whose length is refused
          MaxFrames    \* the length of the stream

ASSUME StreamAssumption == Bad \notin Nonces /\ MaxFrames \in Nat

VARIABLES
    stream,    \* what the peer sends
    arrived,   \* units of it that have arrived
    consumed,  \* frames that have left receivedBuffer
    queue,     \* messageQueue
    handled,   \* messages whose handler ran, in order
    failed     \* fail() has run

intakeVars == <<stream, arrived, consumed, queue, handled, failed>>

\* Messages are named in the order of their first sending.
Streams ==
    {s \in [1..MaxFrames -> Nonces \cup {Bad}] :
        \A i \in 1..MaxFrames : s[i] # Bad =>
            \A n \in Nonces : n < s[i] => \E j \in 1..i : s[j] = n}

IntakeInit ==
    /\ GuardInit
    /\ stream \in Streams
    /\ arrived = 0 /\ consumed = 0
    /\ queue = <<>> /\ handled = <<>> /\ failed = FALSE

-----------------------------------------------------------------------------
\* parseMessages over the buffer, which now ends with this unit of the stream: the
\* frames it hands over, and whether it throws.
HeadOf(i) == 2 * i - 1
Throws(upTo) == \E i \in consumed + 1..MaxFrames : stream[i] = Bad /\ HeadOf(i) <= upTo
Whole(upTo) ==
    {i \in consumed + 1..MaxFrames :
        2 * i <= upTo /\ \A j \in consumed + 1..i : stream[j] # Bad}
Parsed(upTo) ==
    LET n == Cardinality(Whole(upTo)) IN SubSeq(stream, consumed + 1, consumed + n)

\* What is left in receivedBuffer after a chunk.
DropsPartial(upTo) == IF Throws(upTo) THEN consumed ELSE (upTo + 1) \div 2
                                                             \* faulty: all that was read
Remaining(upTo) == IF Throws(upTo) THEN consumed ELSE consumed + Cardinality(Whole(upTo))

\* The 'data' handler.
Chunk ==
    /\ \E upTo \in arrived + 1..2 * MaxFrames :
          /\ arrived' = upTo
          /\ queue' = queue \o Parsed(upTo)
          /\ consumed' = Remaining(upTo)
          /\ failed' = (failed \/ Throws(upTo))
    /\ UNCHANGED <<guardVars, stream, handled>>

\* The next of the queue: validateIncoming, and its handler if that returns.  The guard
\* is not asked about a message whose timestamp is 0, or which is a handshake_error
\* without one.
Guarded(n) == timestamp[n] # 0

Handle ==
    /\ queue # <<>>
    /\ queue' = Tail(queue)
    /\ LET n == Head(queue)
       IN \/ /\ IF Guarded(n) THEN Accept(n) ELSE UNCHANGED guardVars
             /\ handled' = Append(handled, n) /\ UNCHANGED failed
          \/ Guarded(n) /\ Reject(n) /\ failed' = TRUE /\ UNCHANGED handled
    /\ UNCHANGED <<stream, arrived, consumed>>

IntakeNext ==
    \/ Chunk \/ Handle
    \/ Tick /\ UNCHANGED intakeVars

IntakeSpec == IntakeInit /\ [][IntakeNext]_<<guardVars, intakeVars>>

-----------------------------------------------------------------------------
\* Until the end fails, its handlers run for exactly the messages that were sent, in
\* that order and up to some point, whatever the chunks.  After it has failed only
\* HandledOnce is left: frames before a bad length are queued again with every chunk,
\* and one that came too early for the guard may be taken when it comes again.
HandledInOrder == ~failed => handled = SubSeq(stream, 1, Len(handled))

\* The handler of a message that carries a timestamp runs once, however often the
\* message is sent, cut, or queued again; twice if it is taken at both edges of its
\* window.  For what a full table gave up there is no such promise.
Runs(n) == Cardinality({i \in 1..Len(handled) : handled[i] = n})
HandledOnce ==
    \A n \in Nonces \ evicted :
        Guarded(n) => Runs(n) <= 1 \/ (Runs(n) = 2 /\ TakenAtBothEdges(n))
=============================================================================
