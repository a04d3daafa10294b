-------------------------- MODULE TelemetryDownlink --------------------------
(***************************************************************************)
(* Telemetry from the satellite's queues to the ground's ledger of frame    *)
(* counters: the pump of the UDP service (flight/satellite_simulator.py),  *)
(* the completion-gated scheduler and its adapter                           *)
(* (flight/mission_com_scheduler.py, flight/mission_udp_adapter.py), the   *)
(* durable counters and events of the journal (flight/journal.py), and the *)
(* ground's counter ledger and ingest (gds/tm.py, gds/ingest.py).           *)
(*                                                                         *)
(* A frame is named by its ordering key, the count of all frames for which  *)
(* counters were ever allocated; the counters in it are that number and the *)
(* number of frames of its APID, reduced modulo their width.  There is one  *)
(* virtual channel, whose count moves with the master count.  A session     *)
(* stands for its generation and for the boot of the satellite it was       *)
(* opened for (see LinkSession).  The link loses and repeats frames and     *)
(* keeps their order.                                                      *)
(***************************************************************************)
EXTENDS Integers, Sequences, FiniteSets

CONSTANTS
    PendingCapacity,  \* ack_mailbox_capacity: pending telemetry, ACK queue
    CountModulus,     \* 256: master and virtual channel counts
    PacketModulus,    \* 16384: packet sequence of an APID
    FileFrames,       \* frames of the file a downlink command asks for
    MaxEvents,        \* bound: events of the flight journal
    MaxKeys,          \* bound: frames
    MaxStarts,        \* bound: starts of the satellite
    MaxOnWire         \* bound: frames on their way

ASSUME TelemetryAssumption ==
    /\ {PendingCapacity, CountModulus, PacketModulus, FileFrames} \subseteq Nat \ {0}
    /\ {MaxEvents, MaxKeys, MaxStarts, MaxOnWire} \subseteq Nat

VARIABLES
    craft,    \* the satellite's process
    journal,  \* its journal: events, frames counted so far
    wire,     \* frames on their way, in order
    station,  \* the ground: its binding and counters
    outcome   \* history: frames acted upon, whether each was so once and in the
              \*   order of the counters, refusals, an overflow of the pending queue

telemetryVars == <<craft, journal, wire, station, outcome>>

EventApid == 2
FileApid == 3

StoppedCraft ==
    [step |-> "down", cursor |-> 0, pending |-> <<>>, ack |-> <<>>, file |-> <<>>, left |-> 0]

TelemetryInit ==
    /\ craft = StoppedCraft
    /\ journal = [events |-> 0, keys |-> 0, packets |-> [a \in {EventApid, FileApid} |-> 0],
                  boot |-> 0]
    /\ wire = <<>>
    /\ station = [session |-> 0, active |-> 0, last |-> [session |-> 0, key |-> 0],
                  packets |-> [a \in {EventApid, FileApid} |-> 0]]
    /\ outcome = [acted |-> {}, once |-> TRUE, inOrder |-> TRUE, refused |-> {}, overflow |-> FALSE]

-----------------------------------------------------------------------------
(* Frames and their counters.                                              *)

\* allocate_tm_frame_counters: the n-th frame of the APID from now on.
NewFrame(j, apid, event) ==
    [key |-> j.keys + 1, apid |-> apid, sequence |-> j.packets[apid] + 1, event |-> event,
     session |-> j.boot, copy |-> 0]

Counted(j, apid) == [j EXCEPT !.keys = @ + 1, !.packets[apid] = @ + 1]

\* _queue_tm for several messages in a row: counters are allocated for a frame
\* before the queue is found full, and the error ends the row.
QueueTm(state, events) ==
    LET room == PendingCapacity - Len(state.craft.pending)
        n == Len(events)
        fits == n <= room
        used == IF fits THEN n ELSE room + 1
        frame(i) == [key |-> state.journal.keys + i, apid |-> EventApid,
                     sequence |-> state.journal.packets[EventApid] + i, event |-> events[i],
                     session |-> state.journal.boot, copy |-> 0]
    IN  [journal |-> [state.journal EXCEPT !.keys = @ + used, !.packets[EventApid] = @ + used],
         craft |-> [state.craft EXCEPT
             !.pending = @ \o [i \in 1 .. (IF fits THEN n ELSE room) |-> frame(i)]],
         ok |-> state.ok /\ fits]

\* Several steps one after the other; none after an error.
State == [journal |-> journal, craft |-> craft, ok |-> TRUE]

\* publish_journal_events: the cursor moves to an event before its frame is
\* queued, so the event that finds the queue full is not transmitted again
\* until the satellite restarts.
PublishJournal(state) ==
    LET n == state.journal.events - state.craft.cursor
        room == PendingCapacity - Len(state.craft.pending)
        queued == QueueTm(state, [i \in 1 .. n |-> state.craft.cursor + i])
    IN  IF ~state.ok THEN state
        ELSE IF n <= room THEN [queued EXCEPT !.craft.cursor = @ + n]
        ELSE [queued EXCEPT !.craft.cursor = @ + room + 1]

\* Status and SLO, each an event that is not in the journal.
QueueStatus(state) == QueueTm(state, <<0, 0>>)

\* enqueue_next: counters for the next file frame, into the FILE queue.
QueueFile(state) ==
    IF ~state.ok \/ state.craft.left = 0 THEN state
    ELSE [state EXCEPT
            !.craft.file = Append(@, NewFrame(state.journal, FileApid, 0)),
            !.craft.left = @ - 1,
            !.journal = Counted(@, FileApid)]

Take(state, step) ==
    /\ state.journal.keys <= MaxKeys
    /\ journal' = state.journal
    /\ craft' = [state.craft EXCEPT !.step = step]
    /\ outcome' = [outcome EXCEPT !.overflow = @ \/ ~state.ok]

-----------------------------------------------------------------------------
(* The satellite.                                                          *)

\* A worker thread or a command adds an event to the journal.
JournalEvent ==
    /\ journal.boot > 0
    /\ journal.events < MaxEvents
    /\ journal' = [journal EXCEPT !.events = @ + 1]
    /\ UNCHANGED <<craft, wire, station, outcome>>

\* The simulator queues its status; the service is bound to a session of this
\* boot before its first pump.
CraftStart ==
    /\ craft.step = "down"
    /\ journal.boot < MaxStarts
    /\ Take(QueueStatus([State EXCEPT !.journal.boot = @ + 1]), "receive")
    /\ UNCHANGED <<wire, station>>

CraftStop ==
    /\ craft.step # "down"
    /\ craft' = StoppedCraft
    /\ UNCHANGED <<journal, wire, station, outcome>>

\* _queue_command_tm, and queue_catalog_snapshot after a catalogue request.
AnswerFrames(command) == IF command = "catalog" THEN <<0, 0>> ELSE <<0>>

\* receive_transport_frame: the answer, the journal, and for a downlink the
\* first file frame.  Nothing catches an error: the process ends.
PumpReceive(command) ==
    /\ craft.step = "receive"
    /\ command = "downlink" => craft.left = 0 /\ craft.file = <<>>
    /\ LET answered == QueueTm(State, AnswerFrames(command))
           published == PublishJournal(answered)
           result == IF command = "none" THEN State
                     ELSE IF command # "downlink" THEN published
                     ELSE QueueFile([published EXCEPT !.craft.left = FileFrames])
       IN  IF result.ok THEN Take(result, "status")
           ELSE /\ craft' = StoppedCraft
                /\ journal' = result.journal
                /\ outcome' = [outcome EXCEPT !.overflow = TRUE]
                /\ result.journal.keys <= MaxKeys
    /\ UNCHANGED <<wire, station>>

\* The status interval may have passed.
PumpStatus(due) ==
    /\ craft.step = "status"
    /\ LET result == IF due THEN QueueStatus(State) ELSE State
       IN  IF result.ok THEN Take(result, "move")
           ELSE /\ craft' = StoppedCraft
                /\ journal' = result.journal
                /\ outcome' = [outcome EXCEPT !.overflow = TRUE]
                /\ result.journal.keys <= MaxKeys
    /\ UNCHANGED <<wire, station>>

\* enqueue_pending_tm_frames: the journal first; an error of it is caught, and
\* then nothing is moved.  The ACK queue is empty here and as large.
PumpMove ==
    /\ craft.step = "move"
    /\ LET published == PublishJournal(State)
       IN  Take(IF published.ok
                  THEN [published EXCEPT !.craft.ack = @ \o published.craft.pending,
                                         !.craft.pending = <<>>]
                  ELSE published, "send")
    /\ UNCHANGED <<wire, station>>

\* Mutant of NextQueue: acknowledgements have priority.
NextQueueByPriority == IF craft.ack # <<>> THEN "ack" ELSE "file"

\* _ordered_kind: every frame has an ordering key; the smallest goes first.
NextQueue ==
    CASE craft.file = <<>> -> "ack"
      [] craft.ack = <<>> -> "file"
      [] OTHER -> IF Head(craft.ack).key < Head(craft.file).key THEN "ack" ELSE "file"

\* send_next: poll, send and complete.  A file frame that went out brings the
\* next one; a failed one ends the transfer.
PumpSend(sent) ==
    /\ craft.step = "send"
    /\ craft.ack # <<>> \/ craft.file # <<>>
    /\ Len(wire) < MaxOnWire
    /\ LET q == NextQueue
           frame == Head(craft[q])
           popped == [State EXCEPT !.craft[q] = Tail(@)]
       IN  /\ wire' = IF sent THEN Append(wire, frame) ELSE wire
           /\ Take(IF q = "ack" THEN popped
                   ELSE IF sent THEN QueueFile(popped)
                   ELSE [popped EXCEPT !.craft.left = 0], "send")
    /\ UNCHANGED station

PumpEnd ==
    /\ craft.step = "send"
    /\ craft.ack = <<>> /\ craft.file = <<>>
    /\ craft' = [craft EXCEPT !.step = "receive"]
    /\ UNCHANGED <<journal, wire, station, outcome>>

-----------------------------------------------------------------------------
(* The ground.                                                             *)

\* A frame is lost on the link, or corrupted and refused by the decoder.
LoseFrame ==
    /\ wire # <<>>
    /\ wire' = Tail(wire)
    /\ UNCHANGED <<craft, journal, station, outcome>>

\* The ground's endpoint is bound to the session of the running satellite.
StationBind ==
    /\ station.session < journal.boot
    /\ station' = [station EXCEPT !.session = journal.boot]
    /\ UNCHANGED <<craft, journal, wire, outcome>>

\* Mutant of Relation: a repeated count passes for the next one.
RelationLenient(previous, current, modulus) ==
    LET delta == (current - previous) % modulus
    IN  CASE delta <= 1 -> "IN_ORDER" [] 1 < delta /\ delta < modulus \div 2 -> "GAP" [] OTHER -> "STALE"

\* TmCounterLedger._advance; ROLLOVER is an IN_ORDER that raises the epoch.
Relation(previous, current, modulus) ==
    LET delta == (current - previous) % modulus
    IN  CASE delta = 0 -> "DUPLICATE"
          [] delta = 1 -> "IN_ORDER"
          [] 1 < delta /\ delta < modulus \div 2 -> "GAP"
          [] OTHER -> "STALE"

\* observe: the generation and session first, then the counters of the session;
\* the first frame of a session, or of an APID in it, sets them.
Observe(f) ==
    LET fresh == station.last.session # f.session
        channel == IF fresh THEN "BASELINE"
                   ELSE Relation(station.last.key % CountModulus, f.key % CountModulus, CountModulus)
        packet == IF fresh \/ station.packets[f.apid] = 0 THEN "BASELINE"
                  ELSE Relation(station.packets[f.apid] % PacketModulus, f.sequence % PacketModulus,
                                PacketModulus)
    IN  IF f.session < station.active THEN "STALE_GENERATION"
        ELSE IF {channel, packet} = {"DUPLICATE"} THEN "DUPLICATE"
        ELSE IF {channel, packet} \cap {"STALE", "DUPLICATE"} # {} THEN "STALE_COUNTER"
        ELSE "ACCEPTED"

\* The counters that an accepted frame leaves: those of its session, its APID's
\* with it; another session starts with none.
Stored(f) ==
    LET others == IF station.last.session = f.session THEN station.packets
                  ELSE [a \in DOMAIN station.packets |-> 0]
    IN  [station EXCEPT !.active = f.session,
                        !.last = [session |-> f.session, key |-> f.key],
                        !.packets = [others EXCEPT ![f.apid] = f.sequence]]

\* What a refusal rests on: a second copy, or how far behind the counters were.
Refusal(f) == [copy |-> f.copy, ahead |-> f.key - station.last.key,
               packets |-> f.sequence - station.packets[f.apid]]

ActedOn(f) == [outcome EXCEPT !.acted = @ \cup {f.key},
                              !.once = @ /\ f.key \notin outcome.acted,
                              !.inOrder = @ /\ \A k \in outcome.acted : k < f.key]

\* A frame arrives, once or a second time as another copy.  The endpoint takes
\* those of the session it is bound to.  The counters are stored first; then the
\* event is stored and published or the file packet reassembled, unless the
\* ground's process stops in between.
StationReceive(again, stops) ==
    /\ wire # <<>>
    /\ LET f == Head(wire)
           status == Observe(f)
       IN  /\ again => f.copy = 0
           /\ stops => f.session = station.session /\ status = "ACCEPTED"
           /\ wire' = IF again THEN <<[f EXCEPT !.copy = 1]>> \o Tail(wire) ELSE Tail(wire)
           /\ IF f.session # station.session THEN UNCHANGED <<station, outcome>>
              ELSE IF status = "ACCEPTED"
                THEN /\ station' = Stored(f)
                     /\ outcome' = IF stops THEN outcome ELSE ActedOn(f)
                ELSE /\ outcome' = [outcome EXCEPT !.refused = @ \cup {Refusal(f)}]
                     /\ UNCHANGED station
    /\ UNCHANGED <<craft, journal>>

TelemetryNext ==
    \/ JournalEvent \/ CraftStart \/ CraftStop
    \/ \E command \in {"none", "other", "catalog", "downlink"} : PumpReceive(command)
    \/ \E due \in BOOLEAN : PumpStatus(due)
    \/ PumpMove \/ (\E sent \in BOOLEAN : PumpSend(sent)) \/ PumpEnd
    \/ LoseFrame \/ StationBind \/ (\E again, stops \in BOOLEAN : StationReceive(again, stops))

TelemetrySpec == TelemetryInit /\ [][TelemetryNext]_telemetryVars

-----------------------------------------------------------------------------
\* However often the link repeats frames and wherever the satellite and the
\* ground stop, no frame is acted upon twice, and those that are keep the order
\* in which their counters were allocated; after an overflow of the pending
\* queue a file frame may overtake what stayed behind, so only the first holds.
ActedOnceInOrder == outcome.once /\ (outcome.overflow \/ outcome.inOrder)

\* The counters refuse a frame only for what they are there for: it is a second
\* copy, or so many frames, of all or of its APID, were lost before it that its
\* count is ambiguous.  The satellite's own queues never make a frame look old,
\* unless its pending queue has overflowed.
RefusedForCause ==
    \A r \in outcome.refused :
        \/ outcome.overflow
        \/ r.copy = 1
        \/ r.ahead >= CountModulus \div 2
        \/ r.packets >= PacketModulus \div 2
=============================================================================
