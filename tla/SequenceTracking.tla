-------------------------- MODULE SequenceTracking --------------------------
(***************************************************************************)
(* Loss counting for one mission.  Frames carry a cyclic number: the       *)
(* adapter draws one for every JSON POST, the spacecraft one for every     *)
(* packet.  Frames get lost on the way, refused, or dropped at the full    *)
(* ingest queue; SequenceMonitor sees the others in queue order and infers *)
(* the losses from the numbers alone.                                      *)
(***************************************************************************)
EXTENDS Integers, Sequences, FiniteSets

CONSTANTS
    SeqSpace,    \* SEQ_MASK + 1: 16384 in the code
    IngestMax,   \* ingest_queue_maxsize
    MaxDrawn     \* bound of the model: numbers drawn by the sources

ASSUME SequenceAssumption ==
    /\ SeqSpace \in Nat /\ SeqSpace > 2
    /\ IngestMax \in Nat \ {0}
    /\ MaxDrawn \in Nat

Sources == {"json", "ccsds"}
SeqNums == 0..(SeqSpace - 1)
NoSeq   == -1

\* _HALF = SEQ_MASK // 2
HALF == (SeqSpace - 1) \div 2

VARIABLES
    next,       \* the number each source draws next
    queue,      \* frames in the ingest queue
    monitor,    \* the SequenceMonitor: expected_seq, lost_packets, received_packets
    gone,       \* ghost: numbers drawn since the last queued frame that are not queued
    drawn,      \* ghost: how many numbers were drawn
    lost,       \* ghost: frames that really went missing between two observed ones
    longest,    \* ghost: the longest run of missing frames between two observed ones
    used,       \* ghost: sources that have drawn a number
    swaps       \* ghost: packets that overtook the one sent before them

vars == <<next, queue, monitor, gone, drawn, lost, longest, used, swaps>>

Frame(s, n, g) == [source |-> s, seq |-> n, gone |-> g]

Init ==
    /\ next = [s \in Sources |-> 0]
    /\ queue = <<>>
    /\ monitor = [expected_seq |-> NoSeq, lost_packets |-> 0, received_packets |-> 0]
    /\ gone = 0
    /\ drawn = 0
    /\ lost = 0
    /\ longest = 0
    /\ used = {}
    /\ swaps = 0

Draw(s) ==
    /\ drawn < MaxDrawn
    /\ drawn' = drawn + 1
    /\ next' = [next EXCEPT ![s] = (next[s] + 1) % SeqSpace]
    /\ used' = used \cup {s}

\* The frame carrying the drawn number reaches the adapter, which queues it or drops
\* it when the queue is full.
Arrive(s) ==
    /\ Draw(s)
    /\ IF Len(queue) >= IngestMax
       THEN /\ gone' = gone + 1
            /\ UNCHANGED queue
       ELSE /\ queue' = Append(queue, Frame(s, next[s], gone))
            /\ gone' = 0
    /\ UNCHANGED <<monitor, lost, longest, swaps>>

\* A packet is lost between spacecraft and ground.
LostOnTheWay ==
    /\ Draw("ccsds")
    /\ gone' = gone + 1
    /\ UNCHANGED <<queue, monitor, lost, longest, swaps>>

\* push_normalized takes a number and then raises, on an epoch_ms that is no number:
\* the POST is refused, the number used up.
Refused ==
    /\ Draw("json")
    /\ gone' = gone + 1
    /\ UNCHANGED <<queue, monitor, lost, longest, swaps>>

\* The frame the monitor has observed or will observe last is a packet, and its number.  Once
\* the queue is empty only a mission without JSON POSTs is sure of it.
LastIsPacket ==
    IF queue # <<>> THEN queue[Len(queue)].source = "ccsds"
    ELSE monitor.expected_seq # NoSeq /\ used = {"ccsds"}

LastSeq ==
    IF queue # <<>> THEN queue[Len(queue)].seq ELSE (monitor.expected_seq - 1) % SeqSpace

\* The bridge repeats the POST of the packet it sent last, whose frame may still be queued
\* or have been processed; nothing else happened to the sequence since.
Repeated ==
    /\ LastIsPacket
    /\ Len(queue) < IngestMax
    /\ drawn < MaxDrawn
    /\ drawn' = drawn + 1
    /\ queue' = Append(queue, Frame("ccsds", LastSeq, 0))
    /\ UNCHANGED <<next, monitor, gone, lost, longest, used, swaps>>

\* Two packets reach the adapter in the wrong order.
Overtakes ==
    /\ Len(queue) + 2 <= IngestMax
    /\ drawn + 2 <= MaxDrawn
    /\ drawn' = drawn + 2
    /\ LET n == next["ccsds"]
           m == (n + 1) % SeqSpace
       IN  /\ next' = [next EXCEPT !["ccsds"] = (m + 1) % SeqSpace]
           /\ queue' = queue \o <<Frame("ccsds", m, gone), Frame("ccsds", n, 0)>>
    /\ used' = used \cup {"ccsds"}
    /\ gone' = 0
    /\ swaps' = swaps + 1
    /\ UNCHANGED <<monitor, lost, longest>>

\* Variant: the gap is not reduced to the counter's range.
Observe_NoWrap(m, seq) ==
    LET gap     == seq - m.expected_seq
        missing == IF m.expected_seq # NoSeq /\ 0 < gap /\ gap < HALF THEN gap ELSE 0
    IN  [expected_seq |-> (seq + 1) % SeqSpace,
         lost_packets |-> m.lost_packets + missing,
         received_packets |-> m.received_packets + 1]

\* Variant: every gap is taken for a loss.
Observe_NoHalf(m, seq) ==
    LET gap     == (seq - m.expected_seq) % SeqSpace
        missing == IF m.expected_seq # NoSeq THEN gap ELSE 0
    IN  [expected_seq |-> (seq + 1) % SeqSpace,
         lost_packets |-> m.lost_packets + missing,
         received_packets |-> m.received_packets + 1]

\* Variant: the next expected number is not wrapped.
Observe_ExpectsBeyond(m, seq) ==
    LET gap     == (seq - m.expected_seq) % SeqSpace
        missing == IF m.expected_seq # NoSeq /\ 0 < gap /\ gap < HALF THEN gap ELSE 0
    IN  [expected_seq |-> seq + 1,
         lost_packets |-> m.lost_packets + missing,
         received_packets |-> m.received_packets + 1]

\* SequenceMonitor.observe
Observe(m, seq) ==
    LET gap     == (seq - m.expected_seq) % SeqSpace
        missing == IF m.expected_seq # NoSeq /\ 0 < gap /\ gap < HALF THEN gap ELSE 0
    IN  [expected_seq |-> (seq + 1) % SeqSpace,
         lost_packets |-> m.lost_packets + missing,
         received_packets |-> m.received_packets + 1]

\* SequenceStep.apply on the next frame.  Losses before the first frame ever seen are
\* unknowable and not counted.
Process ==
    /\ queue # <<>>
    /\ LET f == Head(queue)
           g == IF monitor.expected_seq = NoSeq THEN 0 ELSE f.gone
       IN  /\ monitor' = Observe(monitor, f.seq)
           /\ lost' = lost + g
           /\ longest' = IF g > longest THEN g ELSE longest
    /\ queue' = Tail(queue)
    /\ UNCHANGED <<next, gone, drawn, used, swaps>>

Next ==
    \/ \E s \in Sources : Arrive(s)
    \/ LostOnTheWay
    \/ Refused
    \/ Repeated
    \/ Overtakes
    \/ Process

Spec == Init /\ [][Next]_vars
-----------------------------------------------------------------------------
\* Numbers stay within the counter's range and the queue within its bound.
TypeOK ==
    /\ next \in [Sources -> SeqNums]
    /\ queue \in Seq([source : Sources, seq : SeqNums, gone : Nat])
    /\ Len(queue) <= IngestMax
    /\ monitor \in [expected_seq : SeqNums \cup {NoSeq},
                    lost_packets : Nat, received_packets : Nat]
    /\ gone \in Nat /\ drawn \in 0..MaxDrawn
    /\ lost \in Nat /\ longest \in Nat
    /\ used \subseteq Sources
    /\ swaps \in Nat

\* Only one of the sources has drawn any number so far.
OneSource == Cardinality(used) <= 1

\* With one source the monitor invents losses only for packets that overtake others, and at
\* most two for each: whatever else is lost, dropped, refused, wraps around or is repeated,
\* lost_packets is at most the truth.
NeverOvercounts ==
    OneSource => monitor.lost_packets <= lost + 2 * swaps

\* With one source, frames in order and fewer than HALF missing in a row, the count is exact.
CountsExactly ==
    OneSource /\ swaps = 0 /\ longest < HALF => monitor.lost_packets = lost

\* The README calls SequenceStep "packet loss tracking" for a mission that takes JSON
\* and packets alike: no loss is reported while every frame has come through in order.
NoFalseLoss ==
    drawn = monitor.received_packets + Len(queue) /\ swaps = 0 => monitor.lost_packets = 0
=============================================================================
