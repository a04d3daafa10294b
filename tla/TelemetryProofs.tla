--------------------------- MODULE TelemetryProofs ---------------------------
(***************************************************************************)
(* Proofs about GroundFeed and TelemetryDownlink.                           *)
(*                                                                         *)
(* The feed: what a socket has sent, has in hand and has queued is one run  *)
(* of consecutive identifiers, which ends where publication stands, or at   *)
(* the cursor of the snapshot while publication is behind it.  The hub's    *)
(* lock is what makes it so: nothing is published between the reading of a  *)
(* cursor and the registration of its client.                              *)
(***************************************************************************)
EXTENDS TelemetryDownlink, GroundFeed, TLAPS

-----------------------------------------------------------------------------
(* The feed.                                                               *)

TableType == [events : Nat, effects : Nat, step : {"idle", "publish", "effect"}]

ReadingType ==
    [step : Unread \cup {"read"}, cursor : Nat, shown : SUBSET Nat, listed : SUBSET Nat]

RequestType == {NoRequest} \cup ReadingType

ServingType ==
    [step : {"serving"}, liveAfter : Nat, queue : Seq(Nat), out : Seq(Nat),
     terminal : BOOLEAN, sent : Nat, contiguous : BOOLEAN]

SocketType == {NoSocket} \cup ReadingType \cup [step : {"closed"}] \cup ServingType

MessageType ==
    [kind : {"resync", "close"}] \cup [kind : {"event"}, id : Nat]
      \cup [kind : {"snapshot"}, shown : SUBSET Nat, listed : SUBSET Nat, cursor : Nat]

StoreType == [shown : SUBSET Nat, listed : SUBSET Nat, cursor : Nat]

PageType ==
    [phase : {"loading", "catalog", "running", "demo"}, open : BOOLEAN, last : Nat,
     recent : SUBSET Nat, resync : BOOLEAN, store : StoreType]

FeedType ==
    /\ table \in TableType
    /\ hub \in {"nobody", "socket"}
    /\ requests \in [Slots -> RequestType]
    /\ socket \in SocketType
    /\ inbox \in Seq(MessageType)
    /\ page \in PageType

\* The pump publishes an event in the step after it was appended.
Published == IF table.step = "publish" THEN table.events - 1 ELSE table.events

\* The hub's lock is held by the connection that is reading.
LockHeld == hub = "socket" => socket \in ReadingType /\ inbox = <<>>

\* Consecutive identifiers after the one sent last.
Consecutive(s) ==
    /\ s.contiguous
    /\ \A i \in 1 .. Len(s.out) : s.out[i] = s.sent + i
    /\ \A i \in 1 .. Len(s.queue) : s.queue[i] = s.sent + Len(s.out) + i

Reaches(s, upto) ==
    s.sent + Len(s.out) + Len(s.queue) = IF s.liveAfter > upto THEN s.liveAfter ELSE upto

StreamInv ==
    socket.step = "serving" =>
        /\ Consecutive(socket)
        /\ socket.liveAfter <= table.events
        /\ ~socket.terminal => Reaches(socket, Published)

FeedInv ==
    /\ FeedType
    /\ table.step = "publish" => table.events > 0
    /\ LockHeld
    /\ StreamInv

-----------------------------------------------------------------------------
\* What kind of record a socket, a request or a message is can be told from its
\* step or kind.
LEMMA Kinds ==
    /\ \A s \in SocketType : s.step = "serving" => s \in ServingType
    /\ \A s \in SocketType : s.step \in Unread \cup {"read"} => s \in ReadingType
    /\ \A r \in RequestType : r.step \in Unread \cup {"read"} => r \in ReadingType
    /\ \A m \in MessageType : m.kind = "event" => m \in [kind : {"event"}, id : Nat]
    /\ \A m \in MessageType : m.kind = "snapshot" =>
          m \in [kind : {"snapshot"}, shown : SUBSET Nat, listed : SUBSET Nat, cursor : Nat]
    /\ \A m \in MessageType : m.kind \in {"resync", "close", "event", "snapshot"}
  BY DEF SocketType, ServingType, ReadingType, RequestType, MessageType, NoSocket, NoRequest,
         Unread

\* A snapshot is made of identifiers, however much of it is read.
LEMMA SnapshotType ==
  ASSUME FeedType
  PROVE  /\ \A c \in Nat : Reading(c) \in ReadingType
         /\ \A s \in ReadingType : s.step \in Unread => NextRead(s) \in ReadingType
  <1>1. \A c \in Nat : Reading(c) \in ReadingType
    BY DEF Reading, ReadingType, Unread
  <1>2. ASSUME NEW s \in ReadingType, s.step \in Unread
        PROVE  NextRead(s) \in ReadingType
    <2>1. Listed \in SUBSET Nat /\ 1 .. table.effects \in SUBSET Nat
      BY DEF Listed
    <2>2. CASE s.step = "commands"
      <3>1. NextRead(s) = [s EXCEPT !.step = "events", !.shown = (1 .. table.effects) \ JobEvents]
        BY <2>2 DEF NextRead
      <3> QED BY <2>1, <3>1 DEF ReadingType, Unread
    <2>3. CASE s.step = "events"
      <3>1. NextRead(s) = [s EXCEPT !.step = "products", !.listed = Listed]
        BY <2>3 DEF NextRead
      <3> QED BY <2>1, <3>1 DEF ReadingType, Unread
    <2>4. CASE s.step = "products"
      <3>1. NextRead(s) = [s EXCEPT !.step = "read",
                              !.shown = @ \cup ((1 .. table.effects) \cap JobEvents)]
        BY <2>4 DEF NextRead
      <3> QED BY <2>1, <3>1 DEF ReadingType
    <2> QED BY <1>2, <2>2, <2>3, <2>4 DEF Unread
  <1> QED BY <1>1, <1>2

\* The page's store takes whatever a snapshot or an event brings.
LEMMA StoreTypes ==
  /\ \A store, s : s.shown \in SUBSET Nat /\ s.listed \in SUBSET Nat /\ s.cursor \in Nat
        => ReplaceSnapshot(store, s) \in StoreType
  /\ \A store \in StoreType : \A e \in Nat : ApplyEvent(store, e) \in StoreType
  BY DEF ReplaceSnapshot, ApplyEvent, StoreType

LEMMA ReceivedType ==
  ASSUME NEW p \in PageType, NEW m \in MessageType
  PROVE  Received(p, m) \in PageType
  <1>1. CASE m.kind = "resync"
    BY <1>1 DEF Received, PageType
  <1>2. CASE m.kind = "snapshot"
    <2>1. m.shown \in SUBSET Nat /\ m.listed \in SUBSET Nat /\ m.cursor \in Nat
      BY <1>2, Kinds
    <2>2. ReplaceSnapshot(p.store, m) \in StoreType
      BY <2>1, StoreTypes
    <2> QED BY <1>2, <2>1, <2>2 DEF Received, PageType
  <1>3. CASE m.kind = "event"
    <2>1. m.id \in Nat
      BY <1>3, Kinds
    <2>2. ApplyEvent(p.store, m.id) \in StoreType
      BY <2>1, StoreTypes DEF PageType
    <2> QED BY <1>3, <2>1, <2>2 DEF Received, Dispatched, PageType
  <1>4. CASE m.kind = "close"
    BY <1>4 DEF Received, PageType
  <1> QED BY <1>1, <1>2, <1>3, <1>4, Kinds

-----------------------------------------------------------------------------
LEMMA FeedStarts ==
  ASSUME FeedInit
  PROVE  FeedInv
  BY DEF FeedInit, FeedInv, FeedType, TableType, RequestType, SocketType, PageType, StoreType,
         EmptyStore, LockHeld, StreamInv, NoSocket, NoRequest, Slots

\* Nothing is published between two steps that leave the table alone.
LEMMA SameTable ==
  ASSUME table' = table
  PROVE  Published' = Published
  BY DEF Published

\* A step that leaves table and socket alone, and the lock's holder.
LEMMA StreamUntouched ==
  ASSUME StreamInv, UNCHANGED <<table, socket>>
  PROVE  StreamInv'
  BY DEF StreamInv, Published

LEMMA AppendKeepsFeed ==
  ASSUME FeedInv, AppendEvent
  PROVE  FeedInv'
  <1>0. table \in TableType /\ table' = [table EXCEPT !.events = @ + 1, !.step = "publish"]
    BY DEF FeedInv, FeedType, AppendEvent
  <1>a. table' = [events |-> table.events + 1, effects |-> table.effects, step |-> "publish"]
    BY <1>0 DEF TableType
  <1>1. table' \in TableType /\ table'.events = table.events + 1 /\ table'.step = "publish"
    BY <1>0, <1>a DEF TableType
  <1>2. Published' = Published
    BY <1>1 DEF FeedInv, FeedType, TableType, AppendEvent, Published
  <1>3. StreamInv'
    <2> SUFFICES ASSUME socket.step = "serving"
                 PROVE  /\ Consecutive(socket)
                        /\ socket.liveAfter <= table'.events
                        /\ ~socket.terminal => Reaches(socket, Published)
      BY <1>2 DEF StreamInv, AppendEvent
    <2>1. socket \in ServingType
      BY Kinds DEF FeedInv, FeedType
    <2> QED BY <1>1, <2>1 DEF FeedInv, StreamInv, FeedType, TableType, ServingType
  <1>4. FeedType'
    BY <1>1 DEF FeedInv, FeedType, AppendEvent
  <1>5. LockHeld'
    BY DEF FeedInv, LockHeld, AppendEvent
  <1>6. table'.events > 0
    BY <1>1 DEF FeedInv, FeedType, TableType
  <1> QED BY <1>3, <1>4, <1>5, <1>6 DEF FeedInv

\* One more identifier in the queue continues the run that ends just before it.
LEMMA RunGrows ==
  ASSUME NEW s \in ServingType, NEW n \in ServingType, NEW e \in Nat,
         Consecutive(s), s.liveAfter < e,
         s.sent + Len(s.out) + Len(s.queue) = e - 1,
         n.queue = Append(s.queue, e), n.out = s.out, n.sent = s.sent,
         n.contiguous = s.contiguous, n.liveAfter = s.liveAfter
  PROVE  Consecutive(n) /\ Reaches(n, e)
  <1>1. /\ s.queue \in Seq(Nat) /\ s.out \in Seq(Nat) /\ s.sent \in Nat /\ s.liveAfter \in Nat
        /\ Len(s.queue) \in Nat /\ Len(s.out) \in Nat
    BY DEF ServingType
  <1>2. Len(n.queue) = Len(s.queue) + 1 /\ n.queue[Len(s.queue) + 1] = e
    BY <1>1
  <1>a. e = s.sent + Len(s.out) + (Len(s.queue) + 1) /\ ~(s.liveAfter > e)
    <2>1. \A a, b, c \in Nat : a + b + c = e - 1 => e = a + b + (c + 1)
      OBVIOUS
    <2>2. \A l \in Nat : l < e => ~(l > e)
      OBVIOUS
    <2> QED BY <1>1, <2>1, <2>2
  <1>b. n.sent + Len(n.out) = s.sent + Len(s.out)
    OBVIOUS
  <1>3. ASSUME NEW i \in 1 .. Len(n.queue)
        PROVE  n.queue[i] = n.sent + Len(n.out) + i
    <2>1. CASE i = Len(s.queue) + 1
      BY <1>2, <1>a, <1>b, <2>1
    <2>2. CASE i # Len(s.queue) + 1
      <3>1. i \in 1 .. Len(s.queue) /\ n.queue[i] = s.queue[i]
        BY <1>1, <1>2, <2>2
      <3> QED BY <1>1, <3>1 DEF Consecutive
    <2> QED BY <2>1, <2>2
  <1>4. Consecutive(n)
    BY <1>3 DEF Consecutive
  <1>5. Reaches(n, e)
    BY <1>2, <1>a, <1>b DEF Reaches
  <1> QED BY <1>4, <1>5

LEMMA PublishFrame ==
  ASSUME FeedInv, PublishEvent,
         socket' \in SocketType,
         socket'.step = "serving" =>
            /\ Consecutive(socket')
            /\ socket'.liveAfter <= table.events
            /\ ~socket'.terminal => Reaches(socket', table.events)
  PROVE  FeedInv'
  <1>0. table \in TableType /\ table' = [table EXCEPT !.step = "effect"]
    BY DEF FeedInv, FeedType, PublishEvent
  <1>1. table' \in TableType /\ table'.events = table.events /\ table'.step = "effect"
    BY <1>0 DEF TableType
  <1>2. Published' = table.events
    BY <1>1 DEF Published
  <1>3. StreamInv'
    BY <1>1, <1>2 DEF StreamInv
  <1>4. FeedType'
    BY <1>1 DEF FeedInv, FeedType, PublishEvent
  <1>5. LockHeld'
    BY DEF LockHeld, Slots, PublishEvent, FeedInv
  <1> QED BY <1>1, <1>3, <1>4, <1>5 DEF FeedInv

\* The event in hand continues the run, unless the snapshot already covers it.
LEMMA PublishKeepsFeed ==
  ASSUME FeedInv, PublishEvent
  PROVE  FeedInv'
  <1> DEFINE e == table.events
             next == Enqueued(socket, e)
  <1>1. e \in Nat /\ e > 0 /\ Published = e - 1 /\ Published' = e
    BY DEF FeedInv, FeedType, TableType, PublishEvent, Published
  <1>3. socket' = next
    BY DEF PublishEvent
  <1>4. CASE socket.step # "serving"
    <2>1. socket' = socket
      BY <1>3, <1>4 DEF Enqueued
    <2> QED BY <1>4, <2>1, PublishFrame DEF FeedInv, FeedType
  <1>5. CASE socket.step = "serving"
    <2>1. socket \in ServingType
      BY <1>5, Kinds DEF FeedInv, FeedType
    <2>2. /\ Consecutive(socket)
          /\ socket.liveAfter <= e
          /\ ~socket.terminal => Reaches(socket, e - 1)
      BY <1>1, <1>5 DEF FeedInv, StreamInv
    <2>3. CASE socket.terminal \/ e <= socket.liveAfter
      <3>1. next = socket
        BY <2>3, <1>5 DEF Enqueued
      <3>2. ~socket.terminal => Reaches(socket, e)
        BY <1>1, <2>1, <2>2, <2>3 DEF Reaches, ServingType
      <3>3. socket' = socket /\ socket \in SocketType
        BY <1>3, <3>1 DEF FeedInv, FeedType
      <3> QED BY <2>2, <3>2, <3>3, PublishFrame
    <2>4. CASE ~socket.terminal /\ e > socket.liveAfter /\ Len(socket.queue) >= MaxClientEvents
      <3>1. next = [socket EXCEPT !.queue = <<>>, !.terminal = TRUE]
        BY <1>1, <1>5, <2>1, <2>4 DEF Enqueued, ServingType
      <3>a. next = [step |-> "serving", liveAfter |-> socket.liveAfter, queue |-> <<>>,
                    out |-> socket.out, terminal |-> TRUE, sent |-> socket.sent,
                    contiguous |-> socket.contiguous]
        BY <2>1, <3>1 DEF ServingType
      <3>2. /\ next \in ServingType /\ next.terminal /\ next.queue = <<>> /\ next.out = socket.out
            /\ next.sent = socket.sent /\ next.contiguous = socket.contiguous
            /\ next.liveAfter = socket.liveAfter
        BY <2>1, <3>a DEF ServingType
      <3>3. Consecutive(next)
        BY <2>2, <3>2 DEF Consecutive
      <3>4. socket' \in SocketType
        BY <1>3, <3>2 DEF SocketType
      <3> QED BY <1>3, <2>2, <3>2, <3>3, <3>4, PublishFrame
    <2>5. CASE ~socket.terminal /\ e > socket.liveAfter /\ ~(Len(socket.queue) >= MaxClientEvents)
      <3>1. next = [socket EXCEPT !.queue = Append(@, e)]
        BY <1>1, <1>5, <2>1, <2>5 DEF Enqueued, ServingType
      <3>a. next = [step |-> "serving", liveAfter |-> socket.liveAfter,
                    queue |-> Append(socket.queue, e), out |-> socket.out,
                    terminal |-> socket.terminal, sent |-> socket.sent,
                    contiguous |-> socket.contiguous]
        BY <2>1, <3>1 DEF ServingType
      <3>2. /\ next \in ServingType /\ next.terminal = socket.terminal /\ next.out = socket.out
            /\ next.queue = Append(socket.queue, e)
            /\ next.sent = socket.sent /\ next.contiguous = socket.contiguous
            /\ next.liveAfter = socket.liveAfter
        BY <1>1, <2>1, <3>a DEF ServingType
      <3>3. socket.sent + Len(socket.out) + Len(socket.queue) = e - 1
        BY <1>1, <2>1, <2>2, <2>5 DEF Reaches, ServingType
      <3>6. Consecutive(next) /\ Reaches(next, e)
        <4> HIDE DEF next, e
        <4> QED BY <1>1, <2>1, <2>2, <2>5, <3>2, <3>3, RunGrows
      <3>8. socket' \in SocketType
        BY <1>3, <3>2 DEF SocketType
      <3> QED BY <1>3, <2>2, <3>2, <3>6, <3>8, PublishFrame
    <2> QED BY <1>1, <2>1, <2>3, <2>4, <2>5 DEF ServingType
  <1> QED BY <1>4, <1>5

LEMMA CommitKeepsFeed ==
  ASSUME FeedInv, CommitEffects
  PROVE  FeedInv'
  <1>0. table \in TableType /\ table' = [table EXCEPT !.effects = table.events, !.step = "idle"]
    BY DEF FeedInv, FeedType, CommitEffects
  <1>a. table' = [events |-> table.events, effects |-> table.events, step |-> "idle"]
    BY <1>0 DEF TableType
  <1>1. table' \in TableType /\ table'.events = table.events /\ table'.step = "idle"
    BY <1>0, <1>a DEF TableType
  <1>2. Published' = Published
    BY <1>1 DEF Published, CommitEffects
  <1>3. StreamInv'
    BY <1>1, <1>2 DEF StreamInv, CommitEffects, FeedInv
  <1>4. FeedType'
    BY <1>1 DEF FeedInv, FeedType, CommitEffects
  <1>5. LockHeld'
    BY DEF LockHeld, CommitEffects, FeedInv
  <1> QED BY <1>1, <1>3, <1>4, <1>5 DEF FeedInv

\* A request only reads: neither the lock nor the socket notice.
LEMMA SnapshotKeepsFeed ==
  ASSUME FeedInv, NEW r \in Slots, BeginSnapshot(r) \/ ReadSnapshot(r)
  PROVE  FeedInv'
  <1>1. UNCHANGED <<table, hub, socket, inbox, page>>
    BY DEF BeginSnapshot, ReadSnapshot
  <1>2. PICK s \in ReadingType : requests' = [requests EXCEPT ![r] = s]
    <2>1. CASE BeginSnapshot(r)
      <3>1. Reading(table.events) \in ReadingType
        BY SnapshotType DEF FeedInv, FeedType, TableType
      <3> QED BY <2>1, <3>1 DEF BeginSnapshot
    <2>2. CASE ReadSnapshot(r)
      <3>1. requests[r] \in ReadingType /\ requests[r].step \in Unread
        BY <2>2, Kinds DEF ReadSnapshot, FeedInv, FeedType
      <3>2. NextRead(requests[r]) \in ReadingType
        BY <3>1, SnapshotType DEF FeedInv
      <3> QED BY <2>2, <3>2 DEF ReadSnapshot
    <2> QED BY <2>1, <2>2
  <1>3. requests' \in [Slots -> RequestType]
    BY <1>2 DEF FeedInv, FeedType, RequestType
  <1>4. StreamInv'
    BY <1>1, StreamUntouched DEF FeedInv
  <1> QED BY <1>1, <1>3, <1>4 DEF FeedInv, FeedType, LockHeld

LEMMA BeginConnectKeepsFeed ==
  ASSUME FeedInv, BeginConnect
  PROVE  FeedInv'
  <1>1. Reading(0) \in ReadingType /\ Reading(0).step # "serving"
    BY SnapshotType DEF FeedInv, Reading
  <1>2. /\ UNCHANGED <<table, requests, inbox, page>>
        /\ hub' = "socket" /\ socket' = Reading(0) /\ inbox = <<>>
    BY DEF BeginConnect
  <1>3. StreamInv'
    BY <1>1, <1>2 DEF StreamInv
  <1>4. LockHeld'
    BY <1>1, <1>2 DEF LockHeld
  <1>5. FeedType'
    BY <1>1, <1>2 DEF FeedInv, FeedType, SocketType
  <1> QED BY <1>2, <1>3, <1>4, <1>5 DEF FeedInv

LEMMA ReadConnectKeepsFeed ==
  ASSUME FeedInv, ReadConnect
  PROVE  FeedInv'
  <1>1. socket \in ReadingType /\ socket.step \in Unread
    BY Kinds DEF ReadConnect, FeedInv, FeedType
  <1>2. /\ UNCHANGED <<table, hub, requests, inbox, page>>
        /\ socket' = NextRead(socket)
    BY DEF ReadConnect
  <1>3. socket' \in ReadingType
    BY <1>1, <1>2, SnapshotType DEF FeedInv
  <1>4. socket'.step # "serving"
    BY <1>3 DEF ReadingType, Unread
  <1>5. StreamInv'
    BY <1>4 DEF StreamInv
  <1> QED BY <1>2, <1>3, <1>5 DEF FeedInv, FeedType, LockHeld, SocketType

\* The replay is what lies between the page's cursor and the snapshot's.
LEMMA EndConnectKeepsFeed ==
  ASSUME FeedInv, EndConnect, FeedAssumption
  PROVE  FeedInv'
  <1> DEFINE asOf == table.events
             last == page.last
             next == [step |-> "serving", liveAfter |-> asOf, queue |-> <<>>,
                      out |-> [i \in 1 .. asOf - last |-> last + i],
                      terminal |-> FALSE, sent |-> last, contiguous |-> TRUE]
  <1>1. asOf \in Nat /\ last \in Nat /\ socket \in ReadingType
    BY Kinds DEF FeedInv, FeedType, TableType, PageType, EndConnect
  <1>2. /\ UNCHANGED <<table, requests, page>> /\ hub' = "nobody"
    BY DEF EndConnect
  <1>3. Published' = Published /\ Published <= asOf /\ Published \in Int
    BY <1>1, <1>2 DEF Published
  <1>4. LockHeld'
    BY <1>2 DEF LockHeld
  <1>5. CASE last > asOf \/ asOf - last > MaxClientEvents
    <2>1. /\ inbox' = <<[kind |-> "resync"], [kind |-> "close"]>>
          /\ socket' = [step |-> "closed"]
      BY <1>5 DEF EndConnect
    <2>2. inbox' \in Seq(MessageType) /\ socket' \in SocketType
      BY <2>1 DEF MessageType, SocketType
    <2>3. StreamInv'
      BY <2>1 DEF StreamInv
    <2> QED BY <1>2, <1>4, <2>2, <2>3 DEF FeedInv, FeedType
  <1>6. CASE ~(last > asOf \/ asOf - last > MaxClientEvents)
    <2>1. /\ inbox' = <<[kind |-> "snapshot", shown |-> socket.shown,
                         listed |-> socket.listed, cursor |-> asOf]>>
          /\ socket' = next
      BY <1>6 DEF EndConnect
    <2>2. inbox' \in Seq(MessageType)
      BY <1>1, <2>1 DEF MessageType, ReadingType
    <2>3. /\ next.out \in Seq(Nat) /\ Len(next.out) = asOf - last
          /\ \A i \in 1 .. Len(next.out) : next.out[i] = next.sent + i
      BY <1>1, <1>6
    <2>4. next \in ServingType
      BY <1>1, <2>3 DEF ServingType
    <2>a. /\ next.contiguous /\ next.queue = <<>> /\ next.sent = last /\ next.liveAfter = asOf
          /\ Len(next.queue) = 0
      OBVIOUS
    <2>5. Consecutive(next)
      <3> HIDE DEF next
      <3> QED BY <2>3, <2>a DEF Consecutive
    <2>6. Reaches(next, Published)
      <3> HIDE DEF next
      <3> QED BY <1>1, <1>3, <2>3, <2>a DEF Reaches
    <2>7. StreamInv'
      BY <1>1, <1>2, <1>3, <2>1, <2>5, <2>6 DEF StreamInv
    <2>8. socket' \in SocketType
      BY <2>1, <2>4 DEF SocketType
    <2> QED BY <1>2, <1>4, <2>2, <2>7, <2>8 DEF FeedInv, FeedType
  <1> QED BY <1>5, <1>6

\* A step of the page or of the connection that leaves table and lock alone and
\* the socket alone or gone.
LEMMA PageFrame ==
  ASSUME FeedInv, UNCHANGED <<table, hub>>,
         requests' \in [Slots -> RequestType],
         page' \in PageType,
         \/ UNCHANGED <<socket, inbox>>
         \/ hub # "socket" /\ socket' = NoSocket /\ inbox' = <<>>
         \/ hub # "socket" /\ socket' \in {socket, NoSocket} /\ inbox' \in Seq(MessageType)
  PROVE  FeedInv'
  <1>1. socket' \in {socket, NoSocket} /\ inbox' \in Seq(MessageType)
    <2>1. inbox \in Seq(MessageType) /\ <<>> \in Seq(MessageType)
      BY DEF FeedInv, FeedType
    <2> QED BY <2>1
  <1>2. FeedType'
    BY <1>1 DEF FeedInv, FeedType, SocketType
  <1>3. LockHeld'
    BY DEF FeedInv, LockHeld
  <1>4. StreamInv'
    <2>1. CASE socket' = socket
      BY <2>1, StreamUntouched DEF FeedInv
    <2>2. CASE socket' = NoSocket
      BY <2>2 DEF StreamInv, NoSocket
    <2> QED BY <1>1, <2>1, <2>2
  <1> QED BY <1>2, <1>3, <1>4 DEF FeedInv

\* The server's side of the websocket takes the events in hand one by one.
LEMMA ServeKeepsFeed ==
  ASSUME FeedInv, ServeSocket
  PROVE  FeedInv'
  <1>1. /\ socket \in ServingType /\ Consecutive(socket) /\ socket.liveAfter <= table.events
        /\ ~socket.terminal => Reaches(socket, Published)
        /\ socket.step \notin Unread \cup {"read"}
    BY Kinds DEF Unread, ServeSocket, FeedInv, FeedType, StreamInv
  <1>2. /\ UNCHANGED <<table, hub, requests, page>> /\ Published' = Published
        /\ hub # "socket"
    BY <1>1 DEF ServeSocket, Published, FeedInv, LockHeld, ReadingType
  <1>3. LockHeld'
    BY <1>2 DEF FeedInv, LockHeld
  <1>4. ASSUME socket' \in ServingType, inbox' \in Seq(MessageType),
               Consecutive(socket'), socket'.liveAfter <= table.events,
               ~socket'.terminal => Reaches(socket', Published)
        PROVE  FeedInv'
    <2>1. StreamInv'
      BY <1>2, <1>4 DEF StreamInv
    <2> QED BY <1>2, <1>3, <1>4, <2>1 DEF FeedInv, FeedType, SocketType
  <1>5. /\ socket.queue \in Seq(Nat) /\ socket.out \in Seq(Nat) /\ socket.sent \in Nat
        /\ Len(socket.queue) \in Nat /\ Len(socket.out) \in Nat
    BY <1>1 DEF ServingType
  <1>6. CASE /\ socket.out # <<>>
             /\ inbox' = Append(inbox, [kind |-> "event", id |-> Head(socket.out)])
             /\ socket' = [socket EXCEPT !.out = Tail(@), !.sent = Head(socket.out),
                              !.contiguous = @ /\ Head(socket.out) = socket.sent + 1]
    <2> DEFINE first == Head(socket.out)
    <2>1. Len(socket.out) > 0 /\ first = socket.sent + 1 /\ first \in Nat
      <3>1. first = socket.out[1] /\ 1 \in 1 .. Len(socket.out)
        BY <1>5, <1>6
      <3> QED BY <1>1, <1>5, <3>1 DEF Consecutive
    <2>2. socket' = [step |-> "serving", liveAfter |-> socket.liveAfter, queue |-> socket.queue,
                     out |-> Tail(socket.out), terminal |-> socket.terminal, sent |-> first,
                     contiguous |-> socket.contiguous /\ first = socket.sent + 1]
      BY <1>1, <1>6 DEF ServingType
    <2> HIDE DEF first
    <2>3. /\ Tail(socket.out) \in Seq(Nat) /\ Len(Tail(socket.out)) = Len(socket.out) - 1
          /\ \A i \in 1 .. Len(Tail(socket.out)) :
                /\ Tail(socket.out)[i] = socket.out[i + 1]
                /\ i + 1 \in 1 .. Len(socket.out)
      BY <1>5, <2>1
    <2>4. /\ socket'.out = Tail(socket.out) /\ socket'.queue = socket.queue
          /\ socket'.sent = first /\ socket'.liveAfter = socket.liveAfter
          /\ socket'.terminal = socket.terminal
          /\ socket'.contiguous
      BY <1>1, <2>1, <2>2 DEF Consecutive
    <2>5. socket' \in ServingType
      BY <1>1, <2>1, <2>2, <2>3 DEF ServingType
    <2>6. inbox' \in Seq(MessageType)
      <3>1. [kind |-> "event", id |-> first] \in MessageType
        BY <2>1 DEF MessageType
      <3> QED BY <1>6, <3>1 DEF FeedInv, FeedType, first
    <2>7. \A i \in 1 .. Len(socket'.out) : socket'.out[i] = socket'.sent + i
      BY <1>1, <1>5, <2>1, <2>3, <2>4 DEF Consecutive
    <2>10. socket'.sent + Len(socket'.out) = socket.sent + Len(socket.out)
      <3>1. \A a, b \in Nat : (a + 1) + (b - 1) = a + b
        OBVIOUS
      <3>2. socket'.sent = socket.sent + 1 /\ Len(socket'.out) = Len(socket.out) - 1
        BY <2>1, <2>3, <2>4
      <3> QED BY <1>5, <3>1, <3>2
    <2>8. \A i \in 1 .. Len(socket'.queue) : socket'.queue[i] = socket'.sent + Len(socket'.out) + i
      BY <1>1, <2>4, <2>10 DEF Consecutive
    <2>9. Consecutive(socket')
      BY <2>4, <2>7, <2>8 DEF Consecutive
    <2>11. ~socket'.terminal => Reaches(socket', Published)
      BY <1>1, <2>4, <2>10 DEF Reaches
    <2> QED BY <1>1, <1>4, <2>4, <2>5, <2>6, <2>9, <2>11
  <1>7. CASE /\ socket.out = <<>> /\ socket.terminal
             /\ inbox' = inbox \o <<[kind |-> "resync"], [kind |-> "close"]>>
             /\ socket' = [step |-> "closed"]
    <2>1. <<[kind |-> "resync"], [kind |-> "close"]>> \in Seq(MessageType)
      BY DEF MessageType
    <2>2. inbox' \in Seq(MessageType)
      BY <1>7, <2>1 DEF FeedInv, FeedType
    <2>3. socket' \in SocketType /\ StreamInv'
      BY <1>7 DEF SocketType, StreamInv
    <2> QED BY <1>2, <1>3, <2>2, <2>3 DEF FeedInv, FeedType
  <1>8. CASE /\ socket.out = <<>> /\ ~socket.terminal /\ socket.queue # <<>>
             /\ socket' = [socket EXCEPT !.out = @ \o socket.queue, !.queue = <<>>]
             /\ UNCHANGED inbox
    <2>1. socket.out \o socket.queue = socket.queue /\ Len(socket.out) = 0
      BY <1>5, <1>8
    <2>2. socket' = [step |-> "serving", liveAfter |-> socket.liveAfter, queue |-> <<>>,
                     out |-> socket.queue, terminal |-> socket.terminal, sent |-> socket.sent,
                     contiguous |-> socket.contiguous]
      BY <1>1, <1>8, <2>1 DEF ServingType
    <2>3. /\ socket'.out = socket.queue /\ socket'.queue = <<>> /\ Len(socket'.queue) = 0
          /\ socket'.sent = socket.sent /\ socket'.liveAfter = socket.liveAfter
          /\ socket'.terminal = socket.terminal
          /\ socket'.contiguous
      BY <1>1, <2>2 DEF Consecutive
    <2>4. socket' \in ServingType
      BY <1>1, <2>2 DEF ServingType
    <2>5. socket.sent + Len(socket.out) = socket.sent
      BY <1>5, <2>1
    <2>6. Consecutive(socket')
      BY <1>1, <2>3, <2>5 DEF Consecutive
    <2>7. socket'.sent + Len(socket'.out) + Len(socket'.queue)
            = socket.sent + Len(socket.out) + Len(socket.queue)
      BY <1>5, <2>1, <2>3
    <2>8. ~socket'.terminal => Reaches(socket', Published)
      BY <1>1, <2>3, <2>7 DEF Reaches
    <2>9. inbox' \in Seq(MessageType)
      BY <1>8 DEF FeedInv, FeedType
    <2> QED BY <1>1, <1>4, <2>3, <2>4, <2>6, <2>8, <2>9
  <1> QED BY <1>6, <1>7, <1>8 DEF ServeSocket

LEMMA MessageKeepsFeed ==
  ASSUME FeedInv, ReceiveMessage
  PROVE  FeedInv'
  <1>1. inbox # <<>> /\ inbox \in Seq(MessageType) /\ page \in PageType
    BY DEF ReceiveMessage, FeedInv, FeedType
  <1>2. Head(inbox) \in MessageType /\ Tail(inbox) \in Seq(MessageType)
    BY <1>1
  <1>3. page' \in PageType
    BY <1>1, <1>2, ReceivedType DEF ReceiveMessage
  <1>4. hub # "socket"
    BY <1>1 DEF FeedInv, LockHeld
  <1>5. /\ UNCHANGED <<table, hub, requests>>
        /\ socket' \in {socket, NoSocket} /\ inbox' \in Seq(MessageType)
    BY <1>2 DEF ReceiveMessage
  <1>6. requests' \in [Slots -> RequestType]
    BY <1>5 DEF FeedInv, FeedType
  <1> QED BY <1>3, <1>4, <1>5, <1>6, PageFrame

\* The page puts a snapshot in its store and forgets the request.
LEMMA AnswerKeepsFeed ==
  ASSUME FeedInv, ReceivePoll \/ ReceiveFirst \/ ReceiveResync
  PROVE  FeedInv'
  <1>1. PICK r \in Slots : requests[r].step = "read"
                           /\ requests' = [requests EXCEPT ![r] = NoRequest]
    BY DEF ReceivePoll, ReceiveFirst, ReceiveResync, Slots
  <1>2. UNCHANGED <<table, hub>>
    BY DEF ReceivePoll, ReceiveFirst, ReceiveResync
  <1>3. requests' \in [Slots -> RequestType]
    BY <1>1 DEF FeedInv, FeedType, RequestType
  <1>4. \A q \in Slots : requests[q].step = "read" =>
           /\ requests[q].cursor \in Nat
           /\ ReplaceSnapshot(page.store, requests[q]) \in StoreType
    <2> TAKE q \in Slots
    <2> HAVE requests[q].step = "read"
    <2>1. requests[q] \in RequestType
      BY DEF FeedInv, FeedType
    <2>2. /\ requests[q].shown \in SUBSET Nat /\ requests[q].listed \in SUBSET Nat
          /\ requests[q].cursor \in Nat
      BY <2>1, Kinds DEF ReadingType
    <2> QED BY <2>2, StoreTypes
  <1>5. page \in PageType
    BY DEF FeedInv, FeedType
  <1>6. CASE ReceivePoll
    <2>1. page' \in PageType /\ UNCHANGED <<socket, inbox>>
      BY <1>4, <1>5, <1>6 DEF ReceivePoll, PageType, Slots
    <2> QED BY <1>2, <1>3, <2>1, PageFrame
  <1>7. CASE ReceiveFirst
    <2>1. page' \in PageType /\ UNCHANGED <<socket, inbox>>
      BY <1>4, <1>5, <1>7 DEF ReceiveFirst, PageType, Slots
    <2> QED BY <1>2, <1>3, <2>1, PageFrame
  <1>8. CASE ReceiveResync
    <2>1. /\ page' \in PageType
          /\ hub # "socket" /\ socket' = NoSocket /\ inbox' = <<>>
      BY <1>4, <1>5, <1>8 DEF ReceiveResync, PageType, Slots
    <2> QED BY <1>2, <1>3, <2>1, PageFrame
  <1> QED BY <1>6, <1>7, <1>8

LEMMA PageKeepsFeed ==
  ASSUME FeedInv, StartRealtime \/ Connect \/ DropSocket
  PROVE  FeedInv'
  <1>1. page \in PageType /\ page.store.cursor \in Nat
    BY DEF FeedInv, FeedType, PageType, StoreType
  <1>2. /\ UNCHANGED <<table, hub, requests>>
        /\ page' \in PageType
        /\ \/ UNCHANGED <<socket, inbox>>
           \/ hub # "socket" /\ socket' = NoSocket /\ inbox' = <<>>
    BY <1>1 DEF StartRealtime, Connect, DropSocket, PageType
  <1>3. requests' \in [Slots -> RequestType]
    BY <1>2 DEF FeedInv, FeedType
  <1> QED BY <1>2, <1>3, PageFrame

LEMMA FailKeepsFeed ==
  ASSUME FeedInv, NEW r \in Slots, FailRequest(r)
  PROVE  FeedInv'
  <1>1. page \in PageType
    BY DEF FeedInv, FeedType
  <1>2. /\ UNCHANGED <<table, hub>> /\ hub # "socket"
        /\ requests' = [requests EXCEPT ![r] = NoRequest]
    BY DEF FailRequest
  <1>3. requests' \in [Slots -> RequestType]
    BY <1>2 DEF FeedInv, FeedType, RequestType
  <1>4. /\ page' \in PageType
        /\ \/ UNCHANGED <<socket, inbox>>
           \/ socket' = NoSocket /\ inbox' = <<>>
    <2>1. CASE r = "poll" /\ UNCHANGED <<page, socket, inbox>>
      BY <1>1, <2>1
    <2>2. CASE page' = [page EXCEPT !.phase = "demo"] /\ UNCHANGED <<socket, inbox>>
      BY <1>1, <2>2 DEF PageType
    <2>3. CASE /\ page' = [page EXCEPT !.last = 0, !.resync = FALSE, !.open = FALSE]
               /\ socket' = NoSocket /\ inbox' = <<>>
      <3>1. page' = [phase |-> page.phase, open |-> FALSE, last |-> 0, recent |-> page.recent,
                     resync |-> FALSE, store |-> page.store]
        BY <1>1, <2>3 DEF PageType
      <3>2. page.phase \in {"loading", "catalog", "running", "demo"} /\ page.recent \in SUBSET Nat
            /\ page.store \in StoreType
        BY <1>1 DEF PageType
      <3>3. page' \in PageType
        BY <3>1, <3>2 DEF PageType
      <3> QED BY <2>3, <3>3
    <2> QED BY <2>1, <2>2, <2>3 DEF FailRequest
  <1> QED BY <1>2, <1>3, <1>4, PageFrame

\* FeedInv is an invariant of the feed.
THEOREM FeedInvariant == FeedSpec => []FeedInv
  <1>1. FeedInit => FeedInv
    BY FeedStarts
  <1>2. FeedInv /\ [FeedNext]_feedVars => FeedInv'
    <2> SUFFICES ASSUME FeedInv, [FeedNext]_feedVars PROVE FeedInv'
      OBVIOUS
    <2>1. CASE UNCHANGED feedVars
      BY <2>1 DEF feedVars, FeedInv, FeedType, LockHeld, StreamInv, Published
    <2>2. CASE FeedNext
      BY <2>2, FeedAssumption, AppendKeepsFeed, PublishKeepsFeed, CommitKeepsFeed,
         SnapshotKeepsFeed, BeginConnectKeepsFeed, ReadConnectKeepsFeed, EndConnectKeepsFeed,
         ServeKeepsFeed,
         MessageKeepsFeed, AnswerKeepsFeed, PageKeepsFeed, FailKeepsFeed DEF FeedNext
    <2> QED BY <2>1, <2>2
  <1> QED BY <1>1, <1>2, PTL DEF FeedSpec

\* Whatever was appended, published or waiting for the hub's lock while a client
\* was being connected, RealtimeHub.connect and publish leave nothing out
\* between replay and live events and send nothing twice, for any number of
\* events, any queue and any bound on the replay.
THEOREM StreamSafety == FeedSpec => []StreamIsContiguous
  <1>1. FeedInv => StreamIsContiguous
    BY DEF FeedInv, StreamInv, Consecutive, StreamIsContiguous
  <1> QED BY <1>1, FeedInvariant, PTL
-----------------------------------------------------------------------------
(***************************************************************************)
(* The telemetry path.  Every frame that exists, in the satellite's queues  *)
(* or on the wire, has counters of its own, older than the journal's; a     *)
(* frame that was acted upon is gone from all of them, or is the second     *)
(* copy of the one the station counted last.  Unless the pending queue has  *)
(* overflowed, the wire and the queues are in the order of the counters,    *)
(* and all of it is after what the station counted last.                   *)
(***************************************************************************)
Apids == {EventApid, FileApid}

FrameType ==
    [key : Nat, apid : Apids, sequence : Nat, event : Nat, session : Nat, copy : {0, 1}]

CraftType ==
    [step : {"down", "receive", "status", "move", "send"}, cursor : Nat, left : Nat,
     pending : Seq(FrameType), ack : Seq(FrameType), file : Seq(FrameType)]

JournalType == [events : Nat, keys : Nat, packets : [Apids -> Nat], boot : Nat]

StationType ==
    [session : Nat, active : Nat, last : [session : Nat, key : Nat], packets : [Apids -> Nat]]

OutcomeType ==
    [acted : SUBSET Nat, once : BOOLEAN, inOrder : BOOLEAN, overflow : BOOLEAN,
     refused : SUBSET [copy : {0, 1}, ahead : Int, packets : Int]]

\* The counters of one frame come before those of another.
Precedes(f, g) == f.key < g.key /\ (f.apid = g.apid => f.sequence < g.sequence)

Apart(f, g) == Precedes(f, g) \/ Precedes(g, f)

Of(s) == {s[i] : i \in 1 .. Len(s)}

CraftFrames(c) == Of(c.pending) \cup Of(c.ack) \cup Of(c.file)

\* What the journal has counted, and what it will count.
Known(f, j) == f.sequence > 0 /\ f.key <= j.keys /\ f.sequence <= j.packets[f.apid]

Beyond(f, j) == f.key > j.keys /\ f.sequence > j.packets[f.apid]

Ordered(s) == \A i, k \in 1 .. Len(s) : i < k => Precedes(s[i], s[k])

\* The satellite's queues, with the journal that counts their frames.
QueuesInv(c, j) ==
    /\ c \in CraftType /\ j \in JournalType
    /\ c.cursor <= j.events /\ Len(c.pending) <= PendingCapacity
    /\ Ordered(c.pending) /\ Ordered(c.ack)
    /\ Len(c.file) <= 1
    /\ c.pending = <<>> \/ c.ack = <<>>
    /\ c.step # "send" => c.ack = <<>>
    /\ \A f \in CraftFrames(c) : f.copy = 0 /\ Known(f, j)
    /\ \A f \in Of(c.file) : \A g \in Of(c.pending) \cup Of(c.ack) : Apart(f, g)

WireInv ==
    /\ \A i \in 1 .. Len(wire) : Known(wire[i], journal) /\ (wire[i].copy = 1 => i = 1)
    /\ \A i, k \in 1 .. Len(wire) : i < k => Apart(wire[i], wire[k])
    /\ \A i \in 1 .. Len(wire) : \A f \in CraftFrames(craft) : Apart(wire[i], f)

StationInv ==
    /\ station.active = station.last.session /\ station.active <= station.session
    /\ station.last.key <= journal.keys
    /\ \A a \in Apids : station.packets[a] <= journal.packets[a]

\* The frame the station counted last.
IsLast(f, s) == s.last = [session |-> f.session, key |-> f.key] /\ s.packets[f.apid] = f.sequence

Repeated(f) == IsLast(f, station)

\* A frame newer than any the station counted.
Follows(f, s) == f.key > s.last.key /\ f.sequence > s.packets[f.apid]

After(f) == Follows(f, station)

ActedInv ==
    /\ outcome.once
    /\ \A k \in outcome.acted : k <= journal.keys
    /\ \A f \in CraftFrames(craft) : f.key \notin outcome.acted
    /\ \A i \in 1 .. Len(wire) :
          wire[i].key \in outcome.acted => wire[i].copy = 1 /\ Repeated(wire[i])

OrderInv ==
    ~outcome.overflow =>
        /\ outcome.inOrder
        /\ craft.step = "send" => craft.pending = <<>>
        /\ Ordered(wire)
        /\ \A i \in 1 .. Len(wire) : \A f \in CraftFrames(craft) : Precedes(wire[i], f)
        /\ \A i \in 1 .. Len(wire) : After(wire[i]) \/ (wire[i].copy = 1 /\ Repeated(wire[i]))
        /\ \A f \in CraftFrames(craft) : After(f)
        /\ \A k \in outcome.acted : k <= station.last.key

TelemetryInv ==
    /\ wire \in Seq(FrameType) /\ station \in StationType /\ outcome \in OutcomeType
    /\ QueuesInv(craft, journal)
    /\ WireInv
    /\ StationInv
    /\ ActedInv
    /\ OrderInv
    /\ RefusedForCause

-----------------------------------------------------------------------------
(* The satellite's queues.                                                 *)

\* One state of queues and journal is later than another: what it holds that
\* is not old was counted since.
Later(j, k) ==
    j.keys <= k.keys /\ j.events <= k.events /\ \A a \in Apids : j.packets[a] <= k.packets[a]

Newer(c, j, d, k) ==
    /\ Later(j, k)
    /\ \A f \in CraftFrames(d) : f \in CraftFrames(c) \/ Beyond(f, j)

LEMMA FrameTypes ==
  ASSUME NEW c \in CraftType
  PROVE  /\ CraftFrames(c) \subseteq FrameType
         /\ Of(c.pending) \subseteq FrameType /\ Of(c.ack) \subseteq FrameType
         /\ Of(c.file) \subseteq FrameType
  BY DEF CraftType, CraftFrames, Of

LEMMA ApidTypes ==
  /\ EventApid \in Apids /\ FileApid \in Apids /\ EventApid # FileApid
  /\ \A f \in FrameType : f.key \in Nat /\ f.apid \in Apids /\ f.sequence \in Nat
  /\ \A j \in JournalType : /\ j.keys \in Nat /\ j.events \in Nat /\ j.boot \in Nat
                            /\ \A a \in Apids : j.packets[a] \in Nat
  BY DEF Apids, EventApid, FileApid, FrameType, JournalType

\* What was counted lies before what is counted later.
LEMMA KnownBeyond ==
  ASSUME NEW j \in JournalType, NEW f \in FrameType, NEW g \in FrameType,
         Known(f, j), Beyond(g, j)
  PROVE  Precedes(f, g)
  BY ApidTypes DEF Known, Beyond, Precedes

LEMMA KnownLater ==
  ASSUME NEW j \in JournalType, NEW k \in JournalType, NEW f \in FrameType,
         Later(j, k), Known(f, j)
  PROVE  Known(f, k)
  BY ApidTypes DEF Known, Later

LEMMA NewerTransitive ==
  ASSUME NEW c, NEW j \in JournalType, NEW d, NEW k \in JournalType,
         NEW e \in CraftType, NEW l \in JournalType,
         Newer(c, j, d, k), Newer(d, k, e, l)
  PROVE  Newer(c, j, e, l)
  <1>1. Later(j, l)
    BY ApidTypes DEF Newer, Later
  <1>2. ASSUME NEW f \in CraftFrames(e)
        PROVE  f \in CraftFrames(c) \/ Beyond(f, j)
    <2>1. f \in FrameType
      BY FrameTypes
    <2>2. CASE Beyond(f, k)
      <3>1. f.key > j.keys /\ f.sequence > j.packets[f.apid]
        BY <2>1, <2>2, ApidTypes DEF Beyond, Newer, Later
      <3> QED BY <3>1 DEF Beyond
    <2>3. CASE f \in CraftFrames(d)
      BY <2>3 DEF Newer
    <2> QED BY <2>2, <2>3 DEF Newer
  <1> QED BY <1>1, <1>2 DEF Newer

\* Counting frames.
CountedBy(j, a, used) == [j EXCEPT !.keys = @ + used, !.packets[a] = @ + used]

LEMMA JournalCounts ==
  ASSUME NEW j, j \in JournalType, NEW a \in Apids, NEW used \in Nat, NEW k,
         k = CountedBy(j, a, used)
  PROVE  /\ k \in JournalType /\ k.keys = j.keys + used /\ k.packets[a] = j.packets[a] + used
         /\ Later(j, k)
  <1>1. k = [events |-> j.events, keys |-> j.keys + used,
             packets |-> [j.packets EXCEPT ![a] = @ + used], boot |-> j.boot]
    BY DEF JournalType, CountedBy
  <1>2. [j.packets EXCEPT ![a] = @ + used] \in [Apids -> Nat]
    BY DEF JournalType
  <1>a. j.events \in Nat /\ j.keys \in Nat /\ j.keys + used \in Nat /\ j.boot \in Nat
    BY DEF JournalType
  <1>3. k \in JournalType
    BY <1>1, <1>2, <1>a DEF JournalType
  <1>4. \A b \in Apids : j.packets[b] <= k.packets[b]
    BY <1>1, <1>2 DEF JournalType
  <1> QED BY <1>1, <1>3, <1>4 DEF JournalType, Later

\* The frames of two sequences put together.
LEMMA OfConcat ==
  ASSUME NEW S, NEW s \in Seq(S), NEW t \in Seq(S)
  PROVE  Of(s \o t) = Of(s) \cup Of(t)
  <1>1. \A i \in 1 .. Len(s \o t) : (s \o t)[i] \in Of(s) \cup Of(t)
    <2> TAKE i \in 1 .. Len(s \o t)
    <2>1. CASE i <= Len(s)
      BY <2>1 DEF Of
    <2>2. CASE i > Len(s)
      <3>1. (s \o t)[i] = t[i - Len(s)] /\ i - Len(s) \in 1 .. Len(t)
        BY <2>2
      <3> QED BY <3>1 DEF Of
    <2> QED BY <2>1, <2>2
  <1>2. \A i \in 1 .. Len(s) : s[i] = (s \o t)[i] /\ i \in 1 .. Len(s \o t)
    OBVIOUS
  <1>3. \A i \in 1 .. Len(t) : t[i] = (s \o t)[i + Len(s)] /\ i + Len(s) \in 1 .. Len(s \o t)
    OBVIOUS
  <1>4. Of(s) \cup Of(t) \subseteq Of(s \o t)
    BY <1>2, <1>3 DEF Of
  <1>5. Of(s \o t) \subseteq Of(s) \cup Of(t)
    BY <1>1 DEF Of
  <1> QED BY <1>4, <1>5

\* New frames at the end of an ordered sequence.
LEMMA OrderedGrows ==
  ASSUME NEW j \in JournalType, NEW s \in Seq(FrameType), NEW t \in Seq(FrameType),
         Ordered(s), Ordered(t),
         \A f \in Of(s) : \A g \in Of(t) : Precedes(f, g)
  PROVE  Ordered(s \o t)
  <1> SUFFICES ASSUME NEW i \in 1 .. Len(s \o t), NEW k \in 1 .. Len(s \o t), i < k
               PROVE  Precedes((s \o t)[i], (s \o t)[k])
    BY DEF Ordered
  <1>1. CASE k <= Len(s)
    BY <1>1 DEF Ordered
  <1>2. CASE i > Len(s)
    <2>1. /\ (s \o t)[i] = t[i - Len(s)] /\ (s \o t)[k] = t[k - Len(s)]
          /\ i - Len(s) \in 1 .. Len(t) /\ k - Len(s) \in 1 .. Len(t) /\ i - Len(s) < k - Len(s)
      BY <1>2
    <2> QED BY <2>1 DEF Ordered
  <1>3. CASE i <= Len(s) /\ k > Len(s)
    <2>1. (s \o t)[i] = s[i] /\ (s \o t)[k] = t[k - Len(s)] /\ k - Len(s) \in 1 .. Len(t)
      BY <1>3
    <2> QED BY <1>3, <2>1 DEF Of
  <1> QED BY <1>1, <1>2, <1>3

\* Frames counted one after the other from the journal's counts on.
Fresh(s, j, apid) ==
    \A i \in 1 .. Len(s) :
        /\ s[i].key = j.keys + i /\ s[i].sequence = j.packets[apid] + i
        /\ s[i].apid = apid /\ s[i].copy = 0

LEMMA FreshFrames ==
  ASSUME NEW j \in JournalType, NEW k \in JournalType, NEW a \in Apids, NEW used \in Nat,
         k = CountedBy(j, a, used),
         NEW s \in Seq(FrameType), Fresh(s, j, a), Len(s) <= used
  PROVE  /\ Ordered(s)
         /\ \A f \in Of(s) : Beyond(f, j) /\ Known(f, k) /\ f.copy = 0
  <1>1. Ordered(s)
    <2> SUFFICES ASSUME NEW i \in 1 .. Len(s), NEW l \in 1 .. Len(s), i < l
                 PROVE  Precedes(s[i], s[l])
      BY DEF Ordered
    <2>1. /\ s[i].key = j.keys + i /\ s[i].sequence = j.packets[a] + i
          /\ s[l].key = j.keys + l /\ s[l].sequence = j.packets[a] + l
      BY DEF Fresh
    <2>2. j.keys \in Nat /\ j.packets[a] \in Nat
      BY ApidTypes
    <2>3. j.keys + i < j.keys + l /\ j.packets[a] + i < j.packets[a] + l
      BY <2>2
    <2> QED BY <2>1, <2>3 DEF Precedes
  <1>2. k.keys = j.keys + used /\ k.packets[a] = j.packets[a] + used
    BY JournalCounts
  <1>3. ASSUME NEW i \in 1 .. Len(s)
        PROVE  Beyond(s[i], j) /\ Known(s[i], k) /\ s[i].copy = 0
    <2>1. /\ s[i].key = j.keys + i /\ s[i].sequence = j.packets[a] + i
          /\ s[i].apid = a /\ s[i].copy = 0
      BY DEF Fresh
    <2>2. j.keys \in Nat /\ j.packets[a] \in Nat /\ i \in Nat /\ 0 < i /\ i <= used
      BY ApidTypes
    <2> QED BY <1>2, <2>1, <2>2 DEF Beyond, Known
  <1> QED BY <1>1, <1>3 DEF Of

WithPending(c, s) == [c EXCEPT !.pending = @ \o s]

LEMMA PendingGrows ==
  ASSUME NEW c, NEW j, QueuesInv(c, j), c.ack = <<>>,
         NEW used \in Nat, NEW s \in Seq(FrameType), Fresh(s, j, EventApid), Len(s) <= used,
         Len(c.pending) + Len(s) <= PendingCapacity,
         NEW d, d = WithPending(c, s),
         NEW k, k = CountedBy(j, EventApid, used)
  PROVE  /\ QueuesInv(d, k) /\ Newer(c, j, d, k)
         /\ d.step = c.step /\ d.ack = <<>> /\ d.file = c.file /\ d.left = c.left
         /\ d.cursor = c.cursor /\ d.pending = c.pending \o s
  <1>1. c \in CraftType /\ j \in JournalType /\ EventApid \in Apids
    BY ApidTypes DEF QueuesInv
  <1>2. k \in JournalType /\ Later(j, k)
    BY <1>1, JournalCounts
  <1>3. Ordered(s) /\ \A f \in Of(s) : Beyond(f, j) /\ Known(f, k) /\ f.copy = 0
    BY <1>1, <1>2, FreshFrames
  <1>4. d = [step |-> c.step, cursor |-> c.cursor, left |-> c.left, pending |-> c.pending \o s,
             ack |-> c.ack, file |-> c.file]
    BY <1>1 DEF CraftType, WithPending
  <1>a. c.pending \o s \in Seq(FrameType)
    BY <1>1 DEF CraftType
  <1>5. d \in CraftType
    BY <1>1, <1>4, <1>a DEF CraftType
  <1>6. /\ d.step = c.step /\ d.ack = <<>> /\ d.file = c.file /\ d.left = c.left
        /\ d.cursor = c.cursor /\ d.pending = c.pending \o s
    BY <1>4
  <1>7. c.pending \in Seq(FrameType) /\ Of(d.pending) = Of(c.pending) \cup Of(s)
    BY <1>1, <1>6, OfConcat DEF CraftType
  <1>8. \A f \in CraftFrames(c) : f \in FrameType /\ Known(f, j) /\ Known(f, k) /\ f.copy = 0
    BY <1>1, <1>2, FrameTypes, KnownLater DEF QueuesInv
  <1>9. Of(s) \subseteq FrameType
    BY DEF Of
  <1>10. \A f \in CraftFrames(c) : \A g \in Of(s) : Precedes(f, g)
    BY <1>1, <1>3, <1>8, <1>9, KnownBeyond
  <1>11. Of(c.pending) \subseteq CraftFrames(c) /\ Of(c.file) \subseteq CraftFrames(c)
         /\ CraftFrames(d) = CraftFrames(c) \cup Of(s)
    BY <1>6, <1>7 DEF CraftFrames
  <1>12. Ordered(d.pending)
    BY <1>1, <1>3, <1>6, <1>7, <1>10, <1>11, OrderedGrows DEF QueuesInv
  <1>13. Ordered(d.ack) /\ Len(d.ack) = 0
    BY <1>6 DEF Ordered
  <1>14. \A f \in Of(d.file) : \A g \in Of(d.pending) \cup Of(d.ack) : Apart(f, g)
    BY <1>6, <1>7, <1>10, <1>11 DEF QueuesInv, Apart
  <1>15. Len(d.pending) <= PendingCapacity /\ d.cursor <= k.events
    <2>1. Len(d.pending) = Len(c.pending) + Len(s)
      BY <1>6, <1>7
    <2>2. c.cursor \in Nat /\ j.events \in Nat /\ k.events \in Nat
      BY <1>1, <1>2, ApidTypes DEF CraftType
    <2> QED BY <1>2, <1>6, <2>1, <2>2 DEF Later, QueuesInv
  <1>16. \A f \in CraftFrames(d) : f.copy = 0 /\ Known(f, k)
    BY <1>3, <1>8, <1>11
  <1>17. QueuesInv(d, k)
    BY <1>2, <1>5, <1>6, <1>12, <1>13, <1>14, <1>15, <1>16 DEF QueuesInv
  <1>18. Newer(c, j, d, k)
    BY <1>2, <1>3, <1>11 DEF Newer
  <1> QED BY <1>2, <1>6, <1>17, <1>18

\* The queues as they are, whatever else of the satellite changes.
LEMMA SameQueues ==
  ASSUME NEW c, NEW j, QueuesInv(c, j), NEW d \in CraftType,
         d.pending = c.pending, d.ack = c.ack, d.file = c.file,
         d.step # "send" => c.ack = <<>>, d.cursor <= j.events
  PROVE  QueuesInv(d, j) /\ Newer(c, j, d, j)
  <1>1. CraftFrames(d) = CraftFrames(c)
    BY DEF CraftFrames
  <1>2. Later(j, j)
    BY ApidTypes DEF QueuesInv, Later
  <1> QED BY <1>1, <1>2 DEF QueuesInv, Newer

LEMMA CursorMoves ==
  ASSUME NEW c \in CraftType, NEW x \in Nat, NEW d, d = [c EXCEPT !.cursor = x]
  PROVE  /\ d \in CraftType /\ d.cursor = x /\ d.pending = c.pending
         /\ d.ack = c.ack /\ d.file = c.file
  <1>1. d = [step |-> c.step, cursor |-> x, left |-> c.left, pending |-> c.pending,
             ack |-> c.ack, file |-> c.file]
    BY DEF CraftType
  <1> QED BY <1>1 DEF CraftType

LEMMA StepMoves ==
  ASSUME NEW c \in CraftType, NEW x \in {"down", "receive", "status", "move", "send"},
         NEW d, d = [c EXCEPT !.step = x]
  PROVE  /\ d \in CraftType /\ d.step = x /\ d.cursor = c.cursor /\ d.pending = c.pending
         /\ d.ack = c.ack /\ d.file = c.file /\ d.left = c.left
  <1>1. d = [step |-> x, cursor |-> c.cursor, left |-> c.left, pending |-> c.pending,
             ack |-> c.ack, file |-> c.file]
    BY DEF CraftType
  <1> QED BY <1>1 DEF CraftType

\* What queueing does to a state of the satellite, until an error ends it.
Shaped(s) == s = [journal |-> s.journal, craft |-> s.craft, ok |-> s.ok]

Queued(s, t) ==
    /\ Shaped(t)
    /\ t.ok \in BOOLEAN /\ (t.ok => s.ok)
    /\ QueuesInv(t.craft, t.journal) /\ Newer(s.craft, s.journal, t.craft, t.journal)
    /\ t.craft.ack = <<>> /\ t.craft.file = s.craft.file

LEMMA QueuedTransitive ==
  ASSUME NEW s, NEW t, NEW u, QueuesInv(s.craft, s.journal), Queued(s, t), Queued(t, u)
  PROVE  Queued(s, u)
  <1>1. /\ u.craft \in CraftType /\ s.journal \in JournalType /\ t.journal \in JournalType
        /\ u.journal \in JournalType
    BY DEF Queued, QueuesInv
  <1>2. Newer(s.craft, s.journal, u.craft, u.journal)
    BY <1>1, NewerTransitive DEF Queued
  <1> QED BY <1>2 DEF Queued

LEMMA QueueTmWorks ==
  ASSUME NEW s, NEW c, NEW j, s.craft = c, s.journal = j, s.ok \in BOOLEAN,
         QueuesInv(c, j), c.ack = <<>>,
         NEW events \in Seq(Nat), NEW t, t = QueueTm(s, events), PendingCapacity \in Nat
  PROVE  Queued(s, t) /\ t.craft.cursor = c.cursor /\ t.journal.events = j.events
  <1> DEFINE room == PendingCapacity - Len(c.pending)
             n == Len(events)
             fits == n <= room
             used == IF fits THEN n ELSE room + 1
             frame(i) == [key |-> j.keys + i, apid |-> EventApid,
                          sequence |-> j.packets[EventApid] + i, event |-> events[i],
                          session |-> j.boot, copy |-> 0]
             m == IF fits THEN n ELSE room
             new == [i \in 1 .. m |-> frame(i)]
  <1>1. c \in CraftType /\ j \in JournalType /\ Len(c.pending) <= PendingCapacity
    BY DEF QueuesInv
  <1>2. c.pending \in Seq(FrameType) /\ PendingCapacity \in Nat
    BY <1>1 DEF CraftType
  <1>3. Len(c.pending) \in Nat /\ n \in Nat
    BY <1>2
  <1>4. room \in Nat /\ Len(c.pending) + room = PendingCapacity
    BY <1>1, <1>2, <1>3
  <1>5. t = [journal |-> CountedBy(j, EventApid, used), craft |-> WithPending(c, new),
             ok |-> s.ok /\ fits]
    BY DEF QueueTm, CountedBy, WithPending
  <1>6. t.journal = CountedBy(j, EventApid, used) /\ t.craft = WithPending(c, new)
        /\ t.ok = (s.ok /\ fits) /\ Shaped(t)
    BY <1>5 DEF Shaped
  <1>7. ASSUME NEW i \in 1 .. n
        PROVE  frame(i) \in FrameType
    <2>1. i \in Nat /\ events[i] \in Nat
      BY <1>3
    <2>2. j.keys \in Nat /\ j.packets[EventApid] \in Nat /\ j.boot \in Nat /\ EventApid \in Apids
      BY <1>1, ApidTypes
    <2>3. j.keys + i \in Nat /\ j.packets[EventApid] + i \in Nat
      <3> HIDE DEF frame, new, m, used, fits, room, n
      <3> QED BY <2>1, <2>2
    <2> QED BY <2>1, <2>2, <2>3 DEF FrameType
  <1>8. /\ m \in Nat /\ used \in Nat /\ m <= used /\ m <= n
        /\ Len(c.pending) + m <= PendingCapacity
    <2> DEFINE length == Len(c.pending)
    <2>1. length + room <= PendingCapacity
      BY <1>2, <1>4
    <2>2. length \in Nat
      BY <1>3
    <2> HIDE DEF room, n, length
    <2>3. CASE n <= room
      BY <1>2, <1>3, <1>4, <2>1, <2>2, <2>3
    <2>4. CASE ~(n <= room)
      BY <1>2, <1>3, <1>4, <2>1, <2>2, <2>4
    <2> QED BY <2>3, <2>4
  <1>9. new \in Seq(FrameType) /\ Len(new) = m /\ \A i \in 1 .. m : new[i] = frame(i)
    <2>1. \A i \in 1 .. m : frame(i) \in FrameType
      <3> HIDE DEF m, frame, n
      <3> QED BY <1>3, <1>7, <1>8
    <2> HIDE DEF m, frame
    <2> QED BY <1>8, <2>1
  <1>10. Fresh(new, j, EventApid)
    <2> HIDE DEF m, new
    <2> QED BY <1>9 DEF Fresh
  <1> HIDE DEF new, used, m
  <1>11. /\ QueuesInv(t.craft, t.journal) /\ Newer(c, j, t.craft, t.journal)
        /\ t.craft.ack = <<>> /\ t.craft.file = c.file /\ t.craft.cursor = c.cursor
    BY <1>6, <1>8, <1>9, <1>10, PendingGrows
  <1>12. t.journal.events = j.events
    BY <1>1, <1>6 DEF JournalType, CountedBy
  <1> QED BY <1>6, <1>11, <1>12 DEF Queued

LEMMA PublishJournalWorks ==
  ASSUME NEW s, NEW c, NEW j, s.craft = c, s.journal = j, s.ok \in BOOLEAN, Shaped(s),
         QueuesInv(c, j), c.ack = <<>>,
         NEW t, t = PublishJournal(s), PendingCapacity \in Nat
  PROVE  Queued(s, t)
  <1> DEFINE n == j.events - c.cursor
             room == PendingCapacity - Len(c.pending)
             events == [i \in 1 .. n |-> c.cursor + i]
             queued == QueueTm(s, events)
  <1>1. /\ c \in CraftType /\ j \in JournalType /\ c.cursor <= j.events
        /\ Len(c.pending) <= PendingCapacity
    BY DEF QueuesInv
  <1>2. c.cursor \in Nat /\ j.events \in Nat /\ n \in Nat /\ c.pending \in Seq(FrameType)
    BY <1>1, ApidTypes DEF CraftType
  <1>3. events \in Seq(Nat)
    BY <1>2
  <1> HIDE DEF events
  <1>4. Queued(s, queued) /\ queued.craft.cursor = c.cursor /\ queued.journal.events = j.events
    BY <1>3, QueueTmWorks
  <1>5. CASE ~s.ok
    <2>1. t = s
      BY <1>5 DEF PublishJournal
    <2>2. Newer(c, j, c, j)
      BY <1>1, SameQueues DEF QueuesInv
    <2> QED BY <2>1, <2>2 DEF Queued
  <1>6. CASE s.ok
    <2> DEFINE to == IF n <= room THEN c.cursor + n ELSE c.cursor + room + 1
               d == [queued.craft EXCEPT !.cursor = to]
    <2>1. t = [queued EXCEPT !.craft = d]
      BY <1>4, <1>6 DEF PublishJournal, events
    <2>2. queued = [journal |-> queued.journal, craft |-> queued.craft, ok |-> queued.ok]
      BY DEF QueueTm
    <2>3. to \in Nat /\ to <= j.events
      <3>1. PendingCapacity \in Nat /\ Len(c.pending) \in Nat
        BY <1>2
      <3>2. room \in Nat /\ c.cursor + n = j.events
        BY <1>1, <1>2, <3>1
      <3>3. \A l, m, p \in Nat : /\ l + m \in Nat /\ l + p + 1 \in Nat
                                /\ ~(m <= p) => l + p + 1 <= l + m
        OBVIOUS
      <3> HIDE DEF room, n
      <3> QED BY <1>2, <3>2, <3>3
    <2> HIDE DEF to, queued
    <2>4. t.craft = d /\ t.journal = queued.journal /\ t.ok = queued.ok /\ Shaped(t)
      BY <2>1, <2>2 DEF Shaped
    <2>5. queued.craft \in CraftType
      BY <1>4 DEF Queued, QueuesInv
    <2>8. /\ d \in CraftType /\ d.cursor = to /\ d.pending = queued.craft.pending
          /\ d.ack = queued.craft.ack /\ d.file = queued.craft.file
      BY <2>3, <2>5, CursorMoves
    <2>9. d.cursor <= queued.journal.events
      BY <1>4, <2>3, <2>8
    <2>10. /\ QueuesInv(d, queued.journal)
           /\ Newer(queued.craft, queued.journal, d, queued.journal)
      BY <1>4, <2>8, <2>9, SameQueues DEF Queued
    <2>11. Queued(queued, t)
      BY <1>4, <2>4, <2>8, <2>10 DEF Queued
    <2> QED BY <1>4, <2>11, QueuedTransitive
  <1> QED BY <1>5, <1>6

\* enqueue_next puts the next frame of the file into the empty FILE queue.
WithFile(c, f) == [c EXCEPT !.file = Append(@, f), !.left = @ - 1]

LEMMA FileGrows ==
  ASSUME NEW c, NEW j, QueuesInv(c, j), c.file = <<>>, c.left # 0,
         NEW d, d = WithFile(c, NewFrame(j, FileApid, 0)),
         NEW k, k = Counted(j, FileApid)
  PROVE  QueuesInv(d, k) /\ Newer(c, j, d, k) /\ d.pending = c.pending /\ d.ack = c.ack
  <1> DEFINE f == NewFrame(j, FileApid, 0)
  <1>1. c \in CraftType /\ j \in JournalType /\ FileApid \in Apids
    BY ApidTypes DEF QueuesInv
  <1>2. k \in JournalType /\ Later(j, k) /\ k.keys = j.keys + 1
        /\ k.packets[FileApid] = j.packets[FileApid] + 1
    <2>1. k = CountedBy(j, FileApid, 1)
      BY DEF Counted, CountedBy
    <2> QED BY <1>1, <2>1, JournalCounts
  <1>3. /\ f.key = j.keys + 1 /\ f.apid = FileApid /\ f.sequence = j.packets[FileApid] + 1
        /\ f.copy = 0
    BY DEF NewFrame
  <1>4. f \in FrameType
    <2>1. j.keys + 1 \in Nat /\ j.packets[FileApid] + 1 \in Nat /\ j.boot \in Nat
      BY <1>1, ApidTypes
    <2> QED BY <1>1, <2>1 DEF NewFrame, FrameType
  <1>5. Beyond(f, j) /\ Known(f, k)
    <2>1. j.keys \in Nat /\ j.packets[FileApid] \in Nat
      BY <1>1, ApidTypes
    <2> HIDE DEF f
    <2> QED BY <1>2, <1>3, <2>1 DEF Beyond, Known
  <1> HIDE DEF f
  <1>6. d = [step |-> c.step, cursor |-> c.cursor, left |-> c.left - 1, pending |-> c.pending,
             ack |-> c.ack, file |-> <<f>>]
    <2>1. Append(c.file, f) = <<f>>
      BY <1>4
    <2>2. d = [c EXCEPT !.file = Append(@, f), !.left = @ - 1]
      BY DEF WithFile, f
    <2>3. d = [c EXCEPT !.file = <<f>>, !.left = c.left - 1]
      BY <1>1, <2>1, <2>2 DEF CraftType
    <2> QED BY <1>1, <2>3 DEF CraftType
  <1>7. d \in CraftType
    <2>1. <<f>> \in Seq(FrameType) /\ c.left - 1 \in Nat
      BY <1>1, <1>4 DEF CraftType
    <2>2. /\ c.step \in {"down", "receive", "status", "move", "send"} /\ c.cursor \in Nat
          /\ c.pending \in Seq(FrameType) /\ c.ack \in Seq(FrameType)
      BY <1>1 DEF CraftType
    <2> DEFINE q == <<f>>
               l == c.left - 1
    <2>3. q \in Seq(FrameType) /\ l \in Nat
      BY <2>1
    <2>4. d = [step |-> c.step, cursor |-> c.cursor, left |-> l, pending |-> c.pending,
               ack |-> c.ack, file |-> q]
      BY <1>6
    <2> HIDE DEF q, l
    <2> QED BY <2>2, <2>3, <2>4 DEF CraftType
  <1>8. d.pending = c.pending /\ d.ack = c.ack /\ d.step = c.step /\ d.file = <<f>>
        /\ d.cursor = c.cursor
    BY <1>6
  <1>9. Of(d.file) = {f} /\ Of(c.file) = {} /\ Len(d.file) = 1
    <2>1. Len(<<f>>) = 1 /\ <<f>>[1] = f
      BY <1>4
    <2>2. Of(<<f>>) = {f}
      BY <2>1 DEF Of
    <2>3. Of(<<>>) = {}
      BY DEF Of
    <2> QED BY <1>8, <2>1, <2>2, <2>3
  <1>10. CraftFrames(d) = CraftFrames(c) \cup {f}
    BY <1>8, <1>9 DEF CraftFrames
  <1>11. \A g \in CraftFrames(c) : g.copy = 0 /\ Known(g, j) /\ Known(g, k) /\ Precedes(g, f)
    BY <1>1, <1>2, <1>4, <1>5, FrameTypes, KnownLater, KnownBeyond DEF QueuesInv
  <1>12. \A g \in CraftFrames(d) : g.copy = 0 /\ Known(g, k)
    BY <1>3, <1>5, <1>10, <1>11
  <1>13. \A h \in Of(d.file) : \A g \in Of(d.pending) \cup Of(d.ack) : Apart(h, g)
    BY <1>8, <1>9, <1>11 DEF Apart, CraftFrames
  <1>14. d.cursor <= k.events
    <2>1. c.cursor \in Nat /\ j.events \in Nat /\ k.events \in Nat
      BY <1>1, <1>2, ApidTypes DEF CraftType
    <2> QED BY <1>2, <1>8, <2>1 DEF Later, QueuesInv
  <1>15. QueuesInv(d, k)
    <2>1. Len(d.file) <= 1
      <3>1. 1 <= 1
        OBVIOUS
      <3> QED BY <1>9, <3>1, Zenon
    <2>2. /\ Len(d.pending) <= PendingCapacity /\ Ordered(d.pending) /\ Ordered(d.ack)
          /\ d.pending = <<>> \/ d.ack = <<>>
          /\ d.step # "send" => d.ack = <<>>
      <3>1. /\ Len(c.pending) <= PendingCapacity /\ Ordered(c.pending) /\ Ordered(c.ack)
            /\ c.pending = <<>> \/ c.ack = <<>>
            /\ c.step # "send" => c.ack = <<>>
        BY DEF QueuesInv
      <3> QED BY <1>8, <3>1
    <2> QED BY <1>2, <1>7, <1>12, <1>13, <1>14, <2>1, <2>2 DEF QueuesInv
  <1>16. Newer(c, j, d, k)
    BY <1>2, <1>5, <1>10 DEF Newer
  <1> QED BY <1>8, <1>15, <1>16

LEMMA QueueFileWorks ==
  ASSUME NEW s, NEW c, NEW j, s.craft = c, s.journal = j, s.ok \in BOOLEAN, Shaped(s),
         QueuesInv(c, j), c.file = <<>>, NEW t, t = QueueFile(s)
  PROVE  /\ QueuesInv(t.craft, t.journal) /\ Newer(c, j, t.craft, t.journal)
         /\ t.ok = s.ok /\ t.craft.pending = c.pending /\ t.craft.ack = c.ack
  <1>1. CASE ~s.ok \/ c.left = 0
    <2>1. t = s
      BY <1>1 DEF QueueFile
    <2>2. Newer(c, j, c, j)
      BY SameQueues DEF QueuesInv
    <2> QED BY <2>1, <2>2
  <1>2. CASE ~(~s.ok \/ c.left = 0)
    <2> DEFINE d == WithFile(c, NewFrame(j, FileApid, 0))
               k == Counted(j, FileApid)
    <2>1. s = [journal |-> j, craft |-> c, ok |-> s.ok]
      BY DEF Shaped
    <2>2. c \in CraftType
      BY DEF QueuesInv
    <2>3. t = [s EXCEPT !.craft = d, !.journal = k]
      BY <1>2, <2>1, <2>2 DEF QueueFile, WithFile, CraftType
    <2>4. t.craft = d /\ t.journal = k /\ t.ok = s.ok
      <3> HIDE DEF d, k
      <3> QED BY <2>1, <2>3
    <2> QED BY <1>2, <2>4, FileGrows
  <1> QED BY <1>1, <1>2

-----------------------------------------------------------------------------
(* Steps of the satellite: what was known stays, what is new is later.      *)

\* What lies outside the satellite is older than what it counts from now on.
LEMMA CountedLater ==
  ASSUME TelemetryInv, QueuesInv(craft', journal'), Newer(craft, journal, craft', journal'),
         UNCHANGED station
  PROVE  /\ \A i \in 1 .. Len(wire) : Known(wire[i], journal')
         /\ \A i \in 1 .. Len(wire) : \A f \in CraftFrames(craft') :
               f \in CraftFrames(craft) \/ Precedes(wire[i], f)
         /\ StationInv'
         /\ \A k \in outcome.acted : k <= journal'.keys
         /\ \A f \in CraftFrames(craft') : f.key \notin outcome.acted
         /\ \A f \in CraftFrames(craft') : f \in CraftFrames(craft) \/ After(f)
  <1>1. /\ craft \in CraftType /\ journal \in JournalType
        /\ craft' \in CraftType /\ journal' \in JournalType
    BY DEF TelemetryInv, QueuesInv
  <1>2. wire \in Seq(FrameType) /\ station \in StationType /\ outcome \in OutcomeType
    BY DEF TelemetryInv
  <1>3. Later(journal, journal')
    BY DEF Newer
  <1>4. \A i \in 1 .. Len(wire) : wire[i] \in FrameType
    BY <1>2
  <1>5. \A i \in 1 .. Len(wire) : Known(wire[i], journal) /\ Known(wire[i], journal')
    BY <1>1, <1>3, <1>4, KnownLater DEF TelemetryInv, WireInv
  <1>6. \A f \in CraftFrames(craft') : f \in FrameType
    BY <1>1, FrameTypes
  <1>7. \A f \in CraftFrames(craft') : f \in CraftFrames(craft) \/ Beyond(f, journal)
    BY DEF Newer
  <1>8. \A i \in 1 .. Len(wire) : \A f \in CraftFrames(craft') :
            f \in CraftFrames(craft) \/ Precedes(wire[i], f)
    BY <1>1, <1>4, <1>5, <1>6, <1>7, KnownBeyond
  <1>9. StationInv'
    <2>1. station.last.key \in Nat /\ \A a \in Apids : station.packets[a] \in Nat
      BY <1>2 DEF StationType
    <2>2. station.last.key <= journal'.keys /\ \A a \in Apids : station.packets[a] <= journal'.packets[a]
      BY <1>1, <1>3, <2>1, ApidTypes DEF TelemetryInv, StationInv, Later
    <2> QED BY <2>2 DEF TelemetryInv, StationInv
  <1>10. \A k \in outcome.acted : k \in Nat /\ k <= journal.keys
    BY <1>2 DEF OutcomeType, TelemetryInv, ActedInv
  <1>11. \A k \in outcome.acted : k <= journal'.keys
    BY <1>1, <1>3, <1>10, ApidTypes DEF Later
  <1>12. \A f \in CraftFrames(craft') : f.key \notin outcome.acted
    <2> SUFFICES ASSUME NEW f \in CraftFrames(craft'), f.key \in outcome.acted PROVE FALSE
      OBVIOUS
    <2>1. f.key <= journal.keys /\ f.key \in Nat /\ journal.keys \in Nat
      BY <1>1, <1>10, ApidTypes
    <2>2. ~Beyond(f, journal)
      BY <2>1 DEF Beyond
    <2> QED BY <1>7, <2>2 DEF TelemetryInv, ActedInv
  <1>13. \A f \in CraftFrames(craft') : f \in CraftFrames(craft) \/ After(f)
    <2> SUFFICES ASSUME NEW f \in CraftFrames(craft'), Beyond(f, journal) PROVE After(f)
      BY <1>7
    <2>1. station.last.key \in Nat /\ station.packets[f.apid] \in Nat /\ f.apid \in Apids
      BY <1>2, <1>6, ApidTypes DEF StationType
    <2>2. f.key > station.last.key
      BY <1>1, <1>6, <2>1, ApidTypes DEF TelemetryInv, StationInv, Beyond
    <2>3. f.sequence > station.packets[f.apid]
      <3>1. station.packets[f.apid] <= journal.packets[f.apid] /\ f.sequence > journal.packets[f.apid]
        BY <2>1 DEF TelemetryInv, StationInv, Beyond
      <3>2. f.sequence \in Nat /\ journal.packets[f.apid] \in Nat
        BY <1>1, <1>6, <2>1, ApidTypes
      <3> QED BY <2>1, <3>1, <3>2
    <2> QED BY <2>2, <2>3 DEF After, Follows
  <1> QED BY <1>5, <1>8, <1>9, <1>11, <1>12, <1>13

LEMMA SatelliteFrame ==
  ASSUME TelemetryInv, QueuesInv(craft', journal'), Newer(craft, journal, craft', journal'),
         UNCHANGED <<wire, station>>,
         NEW x \in BOOLEAN, outcome' = [outcome EXCEPT !.overflow = @ \/ x],
         ~(outcome.overflow \/ x) => (craft'.step = "send" => craft'.pending = <<>>)
  PROVE  TelemetryInv'
  <1>1. wire \in Seq(FrameType) /\ station \in StationType /\ outcome \in OutcomeType
    BY DEF TelemetryInv
  <1>2. outcome' = [acted |-> outcome.acted, once |-> outcome.once, inOrder |-> outcome.inOrder,
                    overflow |-> outcome.overflow \/ x, refused |-> outcome.refused]
    BY <1>1 DEF OutcomeType
  <1>3. outcome' \in OutcomeType
    BY <1>1, <1>2 DEF OutcomeType
  <1>4. /\ outcome'.acted = outcome.acted /\ outcome'.once = outcome.once
        /\ outcome'.inOrder = outcome.inOrder /\ outcome'.refused = outcome.refused
        /\ outcome'.overflow = (outcome.overflow \/ x)
    BY <1>2
  <1>5. WireInv'
    BY CountedLater DEF TelemetryInv, WireInv, Apart
  <1>6. ActedInv'
    BY <1>4, CountedLater DEF TelemetryInv, ActedInv, Repeated, IsLast
  <1>7. OrderInv'
    <2> SUFFICES ASSUME ~outcome'.overflow PROVE OrderInv'
      BY DEF OrderInv
    <2>1. ~(outcome.overflow \/ x)
      BY <1>4
    <2>2. \A f \in CraftFrames(craft') : After(f)
      BY <2>1, CountedLater DEF TelemetryInv, OrderInv
    <2>3. \A i \in 1 .. Len(wire) : \A f \in CraftFrames(craft') : Precedes(wire[i], f)
      BY <2>1, CountedLater DEF TelemetryInv, OrderInv
    <2> QED BY <1>4, <2>1, <2>2, <2>3 DEF TelemetryInv, OrderInv, After, Follows, Repeated, IsLast, Ordered
  <1>8. RefusedForCause'
    BY <1>4 DEF TelemetryInv, RefusedForCause
  <1> QED BY <1>1, <1>3, <1>5, <1>6, <1>7, <1>8, CountedLater DEF TelemetryInv


Steps == {"down", "receive", "status", "move", "send"}

LEMMA StateShape ==
  State.craft = craft /\ State.journal = journal /\ State.ok = TRUE /\ Shaped(State)
  BY DEF State, Shaped

LEMMA NewerReflexive ==
  ASSUME NEW c, NEW j, QueuesInv(c, j)
  PROVE  Newer(c, j, c, j)
  BY SameQueues DEF QueuesInv

\* The end of a step that queued something.
LEMMA TakeStep ==
  ASSUME TelemetryInv, NEW t, t.ok \in BOOLEAN, NEW step \in Steps, Take(t, step),
         QueuesInv(t.craft, t.journal), Newer(craft, journal, t.craft, t.journal),
         step # "send" => t.craft.ack = <<>>,
         ~(outcome.overflow \/ ~t.ok) => (step = "send" => t.craft.pending = <<>>),
         UNCHANGED <<wire, station>>
  PROVE  TelemetryInv'
  <1>1. /\ journal' = t.journal /\ craft' = [t.craft EXCEPT !.step = step]
        /\ outcome' = [outcome EXCEPT !.overflow = @ \/ ~t.ok]
    BY DEF Take
  <1>2. t.craft \in CraftType /\ t.journal \in JournalType /\ t.craft.cursor <= t.journal.events
        /\ journal \in JournalType
    BY DEF QueuesInv, TelemetryInv
  <1>3. /\ craft' \in CraftType /\ craft'.step = step /\ craft'.cursor = t.craft.cursor
        /\ craft'.pending = t.craft.pending /\ craft'.ack = t.craft.ack
        /\ craft'.file = t.craft.file
    BY <1>1, <1>2, StepMoves DEF Steps
  <1>4. QueuesInv(craft', t.journal) /\ Newer(t.craft, t.journal, craft', t.journal)
    BY <1>2, <1>3, SameQueues
  <1>5. Newer(craft, journal, craft', journal')
    BY <1>1, <1>2, <1>3, <1>4, NewerTransitive
  <1>6. (~t.ok) \in BOOLEAN
    OBVIOUS
  <1> QED BY <1>1, <1>3, <1>4, <1>5, <1>6, SatelliteFrame

\* A satellite that ends, by an error or not, keeps only its journal.
LEMMA StopStep ==
  ASSUME TelemetryInv, journal' \in JournalType, Later(journal, journal'),
         craft' = StoppedCraft, UNCHANGED <<wire, station>>,
         NEW x \in BOOLEAN, outcome' = [outcome EXCEPT !.overflow = @ \/ x]
  PROVE  TelemetryInv'
  <1>1. /\ craft'.step = "down" /\ craft'.pending = <<>> /\ craft'.ack = <<>> /\ craft'.file = <<>>
        /\ craft'.cursor = 0
    BY DEF StoppedCraft
  <1>2. Of(<<>>) = {} /\ Len(<<>>) = 0
    BY DEF Of
  <1>3. CraftFrames(craft') = {}
    BY <1>1, <1>2 DEF CraftFrames
  <1>4. craft' \in CraftType
    BY DEF StoppedCraft, CraftType
  <1>5. Ordered(<<>>)
    BY DEF Ordered
  <1>6. 0 <= PendingCapacity /\ Len(craft'.file) <= 1 /\ craft'.cursor <= journal'.events
    <2>1. Len(craft.pending) \in Nat /\ Len(craft.pending) <= PendingCapacity
          /\ PendingCapacity \in Nat
      BY TelemetryAssumption DEF TelemetryInv, QueuesInv, CraftType
    <2>2. 0 <= PendingCapacity
      BY <2>1
    <2>3. journal'.events \in Nat
      BY ApidTypes
    <2>4. 0 <= journal'.events /\ 0 <= 1
      BY <2>3
    <2> QED BY <1>1, <1>2, <2>2, <2>4
  <1>7. QueuesInv(craft', journal')
    BY <1>1, <1>2, <1>3, <1>4, <1>5, <1>6, ApidTypes DEF QueuesInv
  <1>8. Newer(craft, journal, craft', journal')
    BY <1>3 DEF Newer
  <1> QED BY <1>1, <1>7, <1>8, SatelliteFrame

LEMMA OutcomeSame ==
  ASSUME outcome \in OutcomeType, outcome' = outcome
  PROVE  outcome' = [outcome EXCEPT !.overflow = @ \/ FALSE]
  BY DEF OutcomeType

LEMMA JournalEventKeeps ==
  ASSUME TelemetryInv, JournalEvent
  PROVE  TelemetryInv'
  <1>1. craft \in CraftType /\ journal \in JournalType
    BY DEF TelemetryInv, QueuesInv
  <1>2. journal' = [events |-> journal.events + 1, keys |-> journal.keys,
                    packets |-> journal.packets, boot |-> journal.boot]
    BY <1>1 DEF JournalEvent, JournalType
  <1>3. journal.events \in Nat /\ journal.keys \in Nat
    BY <1>1, ApidTypes
  <1>4. journal' \in JournalType /\ Later(journal, journal')
    <2>1. journal.events + 1 \in Nat /\ journal.events <= journal.events + 1
          /\ journal.keys <= journal.keys
      BY <1>3
    <2>2. \A a \in Apids : journal.packets[a] <= journal'.packets[a]
      BY <1>1, <1>2, ApidTypes
    <2> QED BY <1>1, <1>2, <2>1, <2>2 DEF JournalType, Later
  <1>5. UNCHANGED <<craft, wire, station, outcome>>
    BY DEF JournalEvent
  <1>6. journal'.keys = journal.keys /\ journal'.packets = journal.packets
    BY <1>2
  <1>7. craft.cursor <= journal'.events
    <2>1. craft.cursor \in Nat /\ craft.cursor <= journal.events
      BY <1>1 DEF CraftType, TelemetryInv, QueuesInv
    <2> QED BY <1>2, <1>3, <2>1
  <1>8. QueuesInv(craft, journal')
    BY <1>1, <1>4, <1>6, <1>7 DEF TelemetryInv, QueuesInv, Known
  <1>9. Newer(craft, journal, craft, journal')
    BY <1>4 DEF Newer
  <1>10. outcome' = [outcome EXCEPT !.overflow = @ \/ FALSE]
    BY <1>5, OutcomeSame DEF TelemetryInv
  <1>11. ~outcome.overflow => (craft.step = "send" => craft.pending = <<>>)
    BY DEF TelemetryInv, OrderInv
  <1> QED BY <1>5, <1>8, <1>9, <1>10, <1>11, SatelliteFrame

LEMMA CraftStopKeeps ==
  ASSUME TelemetryInv, CraftStop
  PROVE  TelemetryInv'
  <1>1. journal' \in JournalType /\ Later(journal, journal')
    <2>1. journal \in JournalType /\ journal' = journal
      BY DEF TelemetryInv, QueuesInv, CraftStop
    <2>2. Later(journal, journal)
      BY <2>1, ApidTypes DEF Later
    <2> QED BY <2>1, <2>2
  <1>2. outcome' = [outcome EXCEPT !.overflow = @ \/ FALSE]
    BY OutcomeSame DEF TelemetryInv, CraftStop
  <1> QED BY <1>1, <1>2, StopStep DEF CraftStop

\* A step that ends well takes what was queued, another ends the satellite.
LEMMA QueuedStep ==
  ASSUME TelemetryInv, NEW t, Queued(State, t), NEW step \in Steps \ {"send"},
         UNCHANGED <<wire, station>>,
         \/ t.ok /\ Take(t, step)
         \/ /\ craft' = StoppedCraft /\ journal' = t.journal
            /\ outcome' = [outcome EXCEPT !.overflow = TRUE]
  PROVE  TelemetryInv'
  <1>1. /\ t.ok \in BOOLEAN /\ QueuesInv(t.craft, t.journal)
        /\ Newer(craft, journal, t.craft, t.journal) /\ t.craft.ack = <<>>
    BY StateShape DEF Queued
  <1>2. CASE Take(t, step)
    BY <1>1, <1>2, TakeStep DEF Steps
  <1>3. CASE /\ craft' = StoppedCraft /\ journal' = t.journal
             /\ outcome' = [outcome EXCEPT !.overflow = TRUE]
    <2>1. outcome' = [outcome EXCEPT !.overflow = @ \/ TRUE]
      BY <1>3 DEF TelemetryInv, OutcomeType
    <2>2. journal' \in JournalType /\ Later(journal, journal')
      BY <1>1, <1>3 DEF QueuesInv, Newer
    <2> QED BY <1>3, <2>1, <2>2, StopStep
  <1> QED BY <1>2, <1>3

LEMMA Capacity == PendingCapacity \in Nat
  BY TelemetryAssumption DEF TelemetryAssumption

LEMMA QueueStatusWorks ==
  ASSUME NEW s, NEW c, NEW j, s.craft = c, s.journal = j, s.ok \in BOOLEAN,
         QueuesInv(c, j), c.ack = <<>>, NEW t, t = QueueStatus(s)
  PROVE  Queued(s, t)
  <1>1. <<0, 0>> \in Seq(Nat)
    OBVIOUS
  <1>2. t = QueueTm(s, <<0, 0>>)
    BY DEF QueueStatus
  <1> QED BY <1>1, <1>2, Capacity, QueueTmWorks

LEMMA CraftStartKeeps ==
  ASSUME TelemetryInv, CraftStart
  PROVE  TelemetryInv'
  <1> DEFINE booted == [State EXCEPT !.journal.boot = @ + 1]
             j == [journal EXCEPT !.boot = @ + 1]
             t == QueueStatus(booted)
  <1>1. booted = [journal |-> j, craft |-> craft, ok |-> TRUE]
    <2> DEFINE now == [journal |-> journal, craft |-> craft, ok |-> TRUE]
    <2>1. now.journal = journal /\ State = now
      BY DEF State
    <2>2. booted = [now EXCEPT !.journal = [now.journal EXCEPT !.boot = now.journal.boot + 1]]
      BY <2>1
    <2>3. booted = [now EXCEPT !.journal = j]
      <3> HIDE DEF now
      <3> QED BY <2>1, <2>2
    <2> HIDE DEF j, booted
    <2> QED BY <2>3
  <1>2. craft \in CraftType /\ journal \in JournalType /\ QueuesInv(craft, journal)
        /\ craft.ack = <<>>
    BY DEF TelemetryInv, QueuesInv, CraftStart
  <1>3. j = [events |-> journal.events, keys |-> journal.keys, packets |-> journal.packets,
             boot |-> journal.boot + 1]
    BY <1>2 DEF JournalType
  <1>4. j \in JournalType
    <2>1. journal.boot + 1 \in Nat
      BY <1>2, ApidTypes
    <2> QED BY <1>2, <1>3, <2>1 DEF JournalType
  <1>5. j.events = journal.events /\ j.keys = journal.keys /\ j.packets = journal.packets
    BY <1>3
  <1> HIDE DEF j
  <1>6. booted.craft = craft /\ booted.journal = j /\ booted.ok = TRUE
    BY <1>1
  <1> HIDE DEF booted
  <1>7. QueuesInv(craft, j)
    BY <1>2, <1>4, <1>5 DEF QueuesInv, Known
  <1>8. Newer(craft, journal, craft, j)
    BY <1>2, <1>5, ApidTypes DEF Newer, Later
  <1>9. Queued(booted, t)
    BY <1>2, <1>6, <1>7, QueueStatusWorks
  <1>10. /\ t.ok \in BOOLEAN /\ QueuesInv(t.craft, t.journal)
         /\ Newer(craft, j, t.craft, t.journal) /\ t.craft.ack = <<>>
    BY <1>6, <1>9 DEF Queued
  <1>11. Newer(craft, journal, t.craft, t.journal)
    <2>1. t.craft \in CraftType /\ t.journal \in JournalType
      BY <1>10 DEF QueuesInv
    <2> QED BY <1>2, <1>4, <1>8, <1>10, <2>1, NewerTransitive
  <1>12. Take(t, "receive") /\ UNCHANGED <<wire, station>>
    BY DEF CraftStart, booted
  <1> HIDE DEF t
  <1> QED BY <1>10, <1>11, <1>12, TakeStep DEF Steps

LEMMA PumpStatusKeeps ==
  ASSUME TelemetryInv, NEW due \in BOOLEAN, PumpStatus(due)
  PROVE  TelemetryInv'
  <1> DEFINE t == IF due THEN QueueStatus(State) ELSE State
  <1>1. QueuesInv(craft, journal) /\ craft.ack = <<>> /\ UNCHANGED <<wire, station>>
    BY DEF TelemetryInv, QueuesInv, PumpStatus
  <1>2. Queued(State, t)
    <2>1. CASE due
      BY <1>1, <2>1, StateShape, QueueStatusWorks
    <2>2. CASE ~due
      BY <1>1, <2>2, StateShape, NewerReflexive DEF Queued
    <2> QED BY <2>1, <2>2
  <1>3. \/ t.ok /\ Take(t, "move")
        \/ /\ craft' = StoppedCraft /\ journal' = t.journal
           /\ outcome' = [outcome EXCEPT !.overflow = TRUE]
    BY DEF PumpStatus
  <1> HIDE DEF t
  <1> QED BY <1>1, <1>2, <1>3, QueuedStep DEF Steps

LEMMA PumpReceiveKeeps ==
  ASSUME TelemetryInv, NEW command, PumpReceive(command)
  PROVE  TelemetryInv'
  <1> DEFINE answered == QueueTm(State, AnswerFrames(command))
             published == PublishJournal(answered)
             asked == [published EXCEPT !.craft.left = FileFrames]
             t == IF command = "none" THEN State
                  ELSE IF command # "downlink" THEN published
                  ELSE QueueFile(asked)
  <1>1. QueuesInv(craft, journal) /\ craft.ack = <<>> /\ UNCHANGED <<wire, station>>
    BY DEF TelemetryInv, QueuesInv, PumpReceive
  <1>2. Queued(State, answered)
    <2>1. AnswerFrames(command) \in Seq(Nat)
      BY DEF AnswerFrames
    <2> QED BY <1>1, <2>1, Capacity, StateShape, QueueTmWorks
  <1>3. Queued(answered, published)
    BY <1>2, Capacity, PublishJournalWorks DEF Queued
  <1>4. Queued(State, published)
    BY <1>1, <1>2, <1>3, StateShape, QueuedTransitive
  <1>5. \/ t.ok /\ Take(t, "status")
        \/ /\ craft' = StoppedCraft /\ journal' = t.journal
           /\ outcome' = [outcome EXCEPT !.overflow = TRUE]
    BY DEF PumpReceive
  <1>6. command = "downlink" => craft.file = <<>>
    BY DEF PumpReceive
  <1> HIDE DEF answered, published
  <1>7. CASE command = "none"
    <2>1. t = State /\ Queued(State, State)
      BY <1>1, <1>7, StateShape, NewerReflexive DEF Queued
    <2> HIDE DEF t
    <2> QED BY <1>1, <1>5, <2>1, QueuedStep DEF Steps
  <1>8. CASE command # "none" /\ command # "downlink"
    <2>1. t = published
      BY <1>8
    <2> HIDE DEF t
    <2> QED BY <1>1, <1>4, <1>5, <2>1, QueuedStep DEF Steps
  <1>9. CASE command = "downlink"
    <2> DEFINE c == published.craft
               d == [c EXCEPT !.left = FileFrames]
    <2>1. /\ published = [journal |-> published.journal, craft |-> c, ok |-> published.ok]
          /\ published.ok \in BOOLEAN /\ QueuesInv(c, published.journal) /\ c \in CraftType
          /\ Newer(craft, journal, c, published.journal)
          /\ c.ack = <<>> /\ c.file = <<>>
      BY <1>4, <1>6, <1>9, StateShape DEF Queued, Shaped, QueuesInv
    <2>2. asked = [journal |-> published.journal, craft |-> d, ok |-> published.ok]
      BY <2>1
    <2> HIDE DEF c
    <2>3. d = [step |-> c.step, cursor |-> c.cursor, left |-> FileFrames, pending |-> c.pending,
               ack |-> c.ack, file |-> c.file]
      BY <2>1 DEF CraftType
    <2>4. FileFrames \in Nat
      BY TelemetryAssumption DEF TelemetryAssumption
    <2>5. d \in CraftType
      BY <2>1, <2>3, <2>4 DEF CraftType
    <2>6. /\ d.pending = c.pending /\ d.ack = c.ack /\ d.file = c.file /\ d.step = c.step
          /\ d.cursor = c.cursor
      BY <2>3
    <2> HIDE DEF d
    <2>7. asked.craft = d /\ asked.journal = published.journal /\ asked.ok = published.ok
          /\ Shaped(asked)
      BY <2>2 DEF Shaped
    <2> HIDE DEF asked
    <2>8. QueuesInv(d, published.journal) /\ Newer(c, published.journal, d, published.journal)
      <3>1. d.cursor <= published.journal.events
        BY <2>1, <2>6 DEF QueuesInv
      <3> QED BY <2>1, <2>5, <2>6, <3>1, SameQueues
    <2>9. Newer(craft, journal, d, published.journal)
      BY <1>1, <2>1, <2>5, <2>8, NewerTransitive DEF QueuesInv
    <2>10. t = QueueFile(asked)
      BY <1>9
    <2> HIDE DEF t
    <2>11. /\ QueuesInv(t.craft, t.journal) /\ Newer(d, published.journal, t.craft, t.journal)
           /\ t.ok = published.ok /\ t.craft.ack = <<>>
      BY <2>1, <2>6, <2>7, <2>8, <2>10, QueueFileWorks
    <2>12. Newer(craft, journal, t.craft, t.journal)
      BY <1>1, <2>8, <2>9, <2>11, NewerTransitive DEF QueuesInv
    <2>13. CASE Take(t, "status")
      BY <1>1, <2>1, <2>11, <2>12, <2>13, TakeStep DEF Steps
    <2>14. CASE /\ craft' = StoppedCraft /\ journal' = t.journal
                /\ outcome' = [outcome EXCEPT !.overflow = TRUE]
      <3>1. outcome' = [outcome EXCEPT !.overflow = @ \/ TRUE]
        BY <2>14 DEF TelemetryInv, OutcomeType
      <3>2. journal' \in JournalType /\ Later(journal, journal')
        BY <2>11, <2>12, <2>14 DEF QueuesInv, Newer
      <3> QED BY <1>1, <2>14, <3>1, <3>2, StopStep
    <2> QED BY <1>5, <2>13, <2>14
  <1> QED BY <1>7, <1>8, <1>9

LEMMA PumpEndKeeps ==
  ASSUME TelemetryInv, PumpEnd
  PROVE  TelemetryInv'
  <1>1. QueuesInv(craft, journal) /\ craft \in CraftType /\ craft.ack = <<>>
        /\ craft.cursor <= journal.events
    BY DEF TelemetryInv, QueuesInv, PumpEnd
  <1>2. /\ craft' = [craft EXCEPT !.step = "receive"]
        /\ UNCHANGED <<journal, wire, station, outcome>>
    BY DEF PumpEnd
  <1>3. /\ craft' \in CraftType /\ craft'.step = "receive" /\ craft'.cursor = craft.cursor
        /\ craft'.pending = craft.pending /\ craft'.ack = craft.ack /\ craft'.file = craft.file
    BY <1>1, <1>2, StepMoves
  <1>4. QueuesInv(craft', journal) /\ Newer(craft, journal, craft', journal)
    BY <1>1, <1>3, SameQueues
  <1>5. outcome' = [outcome EXCEPT !.overflow = @ \/ FALSE]
    BY <1>2, OutcomeSame DEF TelemetryInv
  <1>6. ~(outcome.overflow \/ FALSE) => (craft'.step = "send" => craft'.pending = <<>>)
    BY <1>3
  <1> QED BY <1>2, <1>4, <1>5, <1>6, SatelliteFrame

\* enqueue_pending_tm_frames: the pending queue becomes the ACK queue.
LEMMA QueuesMoved ==
  ASSUME NEW c, NEW j, QueuesInv(c, j), c.ack = <<>>, NEW d \in CraftType,
         d.ack = c.pending, d.pending = <<>>, d.file = c.file, d.step = "send",
         d.cursor = c.cursor
  PROVE  QueuesInv(d, j) /\ Newer(c, j, d, j)
  <1>1. Of(<<>>) = {} /\ Ordered(<<>>) /\ Len(<<>>) = 0
    BY DEF Of, Ordered
  <1>2. CraftFrames(d) = CraftFrames(c) /\ Of(d.pending) \cup Of(d.ack) = Of(c.pending) \cup Of(c.ack)
    BY <1>1 DEF CraftFrames
  <1>3. Later(j, j)
    BY ApidTypes DEF QueuesInv, Later
  <1>4. 0 <= PendingCapacity
    BY Capacity
  <1>5. Len(d.pending) <= PendingCapacity
    BY <1>1, <1>4
  <1>6. QueuesInv(d, j)
    BY <1>1, <1>2, <1>5 DEF QueuesInv
  <1> QED BY <1>2, <1>3, <1>6 DEF Newer

LEMMA PumpMoveKeeps ==
  ASSUME TelemetryInv, PumpMove
  PROVE  TelemetryInv'
  <1> DEFINE published == PublishJournal(State)
             c == published.craft
             j == published.journal
             moved == [published EXCEPT !.craft.ack = @ \o c.pending, !.craft.pending = <<>>]
  <1>1. QueuesInv(craft, journal) /\ craft.ack = <<>> /\ UNCHANGED <<wire, station>>
    BY DEF TelemetryInv, QueuesInv, PumpMove
  <1>2. Queued(State, published)
    BY <1>1, Capacity, StateShape, PublishJournalWorks
  <1>3. Take(IF published.ok THEN moved ELSE published, "send")
    BY DEF PumpMove
  <1> HIDE DEF published
  <1>4. /\ published = [journal |-> j, craft |-> c, ok |-> published.ok]
        /\ published.ok \in BOOLEAN /\ QueuesInv(c, j) /\ c \in CraftType
        /\ Newer(craft, journal, c, j) /\ c.ack = <<>>
    BY <1>2, StateShape DEF Queued, Shaped, QueuesInv
  <1>5. CASE ~published.ok
    <2>1. Take(published, "send")
      BY <1>3, <1>5
    <2> QED BY <1>1, <1>4, <1>5, <2>1, TakeStep DEF Steps
  <1>6. CASE published.ok
    <2> DEFINE d == [c EXCEPT !.ack = c.pending, !.pending = <<>>]
    <2>1. c.pending \in Seq(FrameType) /\ c.ack \o c.pending = c.pending
      BY <1>4 DEF CraftType
    <2> HIDE DEF c, j
    <2>2. moved = [journal |-> j, craft |-> d, ok |-> published.ok]
      <3>1. moved = [published EXCEPT !.craft = [published.craft EXCEPT !.ack = @ \o c.pending,
                                                                       !.pending = <<>>]]
        BY <1>4
      <3>2. published.craft = c
        BY DEF c
      <3>3. [c EXCEPT !.ack = @ \o c.pending, !.pending = <<>>] = d
        BY <1>4, <2>1 DEF CraftType
      <3>4. moved = [published EXCEPT !.craft = d]
        BY <3>1, <3>2, <3>3
      <3> HIDE DEF d, moved
      <3> QED BY <1>4, <3>4
    <2>3. moved.craft = d /\ moved.journal = j /\ moved.ok = TRUE
      <3> HIDE DEF d, moved
      <3> QED BY <1>6, <2>2
    <2>a. c.pending \in Seq(FrameType) /\ <<>> \in Seq(FrameType)
      BY <2>1
    <2>4. d = [step |-> c.step, cursor |-> c.cursor, left |-> c.left, pending |-> <<>>,
               ack |-> c.pending, file |-> c.file]
      <3> DEFINE p == c.pending
                 none == <<>>
      <3>1. d = [c EXCEPT !.ack = p, !.pending = none]
        OBVIOUS
      <3> HIDE DEF p, none, d
      <3>2. d = [step |-> c.step, cursor |-> c.cursor, left |-> c.left, pending |-> none,
                 ack |-> p, file |-> c.file]
        BY <1>4, <3>1 DEF CraftType
      <3> QED BY <3>2 DEF p, none
    <2>5. d \in CraftType
      <3> HIDE DEF d
      <3> QED BY <1>4, <2>4, <2>a DEF CraftType
    <2>6. d.pending = <<>> /\ d.ack = c.pending /\ d.file = c.file /\ d.cursor = c.cursor
      BY <2>4
    <2> HIDE DEF d
    <2>7. Take(moved, "send")
      BY <1>3, <1>6
    <2> HIDE DEF moved
    <2>8. /\ craft' = [d EXCEPT !.step = "send"] /\ journal' = j
          /\ outcome' = [outcome EXCEPT !.overflow = @ \/ FALSE]
      BY <2>3, <2>7 DEF Take
    <2>9. /\ craft' \in CraftType /\ craft'.step = "send" /\ craft'.cursor = c.cursor
          /\ craft'.pending = <<>> /\ craft'.ack = c.pending /\ craft'.file = c.file
      BY <2>5, <2>6, <2>8, StepMoves
    <2>10. QueuesInv(craft', j) /\ Newer(c, j, craft', j)
      BY <1>4, <2>9, QueuesMoved
    <2>11. Newer(craft, journal, craft', journal')
      BY <1>1, <1>4, <2>8, <2>9, <2>10, NewerTransitive DEF QueuesInv
    <2> QED BY <1>1, <2>8, <2>9, <2>10, <2>11, SatelliteFrame
  <1> QED BY <1>4, <1>5, <1>6

-----------------------------------------------------------------------------
(* A frame is sent.                                                        *)

\* The frame taken from a queue stands before what is left, unless it overtakes
\* frames that stayed pending.
LEMMA AckTaken ==
  ASSUME NEW c, NEW j, QueuesInv(c, j), c.step = "send", c.ack # <<>>,
         NEW d \in CraftType, d.ack = Tail(c.ack), d.pending = c.pending, d.file = c.file,
         d.step = "send", d.cursor = c.cursor
  PROVE  /\ QueuesInv(d, j) /\ Newer(c, j, d, j)
         /\ Head(c.ack) \in CraftFrames(c)
         /\ \A f \in CraftFrames(d) : Apart(Head(c.ack), f)
         /\ c.pending = <<>>
         /\ c.file = <<>> \/ Head(c.ack).key < Head(c.file).key =>
               \A f \in CraftFrames(d) : Precedes(Head(c.ack), f)
  <1> DEFINE h == Head(c.ack)
  <1>1. c \in CraftType /\ c.ack \in Seq(FrameType) /\ Ordered(c.ack) /\ c.pending = <<>>
        /\ c.file \in Seq(FrameType) /\ Len(c.file) <= 1 /\ j \in JournalType
    BY DEF QueuesInv, CraftType
  <1>2. /\ Len(Tail(c.ack)) = Len(c.ack) - 1 /\ Len(c.ack) \in Nat /\ Len(c.ack) > 0
        /\ h = c.ack[1] /\ 1 \in 1 .. Len(c.ack)
        /\ \A i \in 1 .. Len(Tail(c.ack)) :
              Tail(c.ack)[i] = c.ack[i + 1] /\ i + 1 \in 1 .. Len(c.ack) /\ 1 < i + 1
    BY <1>1
  <1>3. h \in Of(c.ack) /\ Of(Tail(c.ack)) \subseteq Of(c.ack)
    BY <1>2 DEF Of
  <1>4. \A f \in Of(Tail(c.ack)) : Precedes(h, f)
    BY <1>1, <1>2 DEF Of, Ordered
  <1>5. Ordered(Tail(c.ack))
    <2> SUFFICES ASSUME NEW i \in 1 .. Len(Tail(c.ack)), NEW k \in 1 .. Len(Tail(c.ack)), i < k
                 PROVE  Precedes(Tail(c.ack)[i], Tail(c.ack)[k])
      BY DEF Ordered
    <2>1. /\ Tail(c.ack)[i] = c.ack[i + 1] /\ i + 1 \in 1 .. Len(c.ack)
          /\ Tail(c.ack)[k] = c.ack[k + 1] /\ k + 1 \in 1 .. Len(c.ack)
      BY <1>2
    <2>2. i + 1 < k + 1
      OBVIOUS
    <2> QED BY <1>1, <2>1, <2>2 DEF Ordered
  <1>6. CraftFrames(d) \subseteq CraftFrames(c) /\ h \in CraftFrames(c)
    BY <1>3 DEF CraftFrames
  <1>7. CraftFrames(d) \subseteq Of(Tail(c.ack)) \cup Of(c.file)
    <2>1. Of(<<>>) = {}
      BY DEF Of
    <2> QED BY <1>1, <2>1 DEF CraftFrames
  <1>8. \A f \in Of(c.file) : Apart(h, f)
    BY <1>3 DEF QueuesInv, Apart
  <1>9. c.file = <<>> \/ h.key < Head(c.file).key => \A f \in Of(c.file) : Precedes(h, f)
    <2> SUFFICES ASSUME NEW f \in Of(c.file), c.file = <<>> \/ h.key < Head(c.file).key
                 PROVE  Precedes(h, f)
      OBVIOUS
    <2>1. PICK i \in 1 .. Len(c.file) : f = c.file[i]
      BY DEF Of
    <2>2. i = 1 /\ c.file # <<>> /\ Head(c.file) = c.file[1]
      BY <1>1, <2>1
    <2>3. h.key < f.key /\ h.key \in Nat /\ f.key \in Nat
      <3>1. h \in FrameType /\ f \in FrameType
        BY <1>1, <1>2, <2>1
      <3> QED BY <2>1, <2>2, <3>1, ApidTypes
    <2> QED BY <1>8, <2>3 DEF Apart, Precedes
  <1>10. \A f \in Of(d.file) : \A g \in Of(d.pending) \cup Of(d.ack) : Apart(f, g)
    BY <1>3 DEF QueuesInv
  <1>11. \A f \in CraftFrames(d) : f.copy = 0 /\ Known(f, j)
    BY <1>6 DEF QueuesInv
  <1>12. d.cursor <= j.events /\ Len(d.pending) <= PendingCapacity
    BY DEF QueuesInv
  <1>13. QueuesInv(d, j)
    BY <1>1, <1>5, <1>10, <1>11, <1>12 DEF QueuesInv
  <1>14. Newer(c, j, d, j)
    BY <1>1, <1>6, ApidTypes DEF Newer, Later
  <1> HIDE DEF h
  <1>15. \A f \in CraftFrames(d) : Apart(h, f)
    BY <1>4, <1>7, <1>8 DEF Apart
  <1>16. c.file = <<>> \/ h.key < Head(c.file).key => \A f \in CraftFrames(d) : Precedes(h, f)
    BY <1>4, <1>7, <1>9
  <1> QED BY <1>1, <1>6, <1>13, <1>14, <1>15, <1>16 DEF h

LEMMA SingleFrame ==
  ASSUME NEW q \in Seq(FrameType), q # <<>>, Len(q) <= 1
  PROVE  /\ Len(q) = 1 /\ Head(q) = q[1] /\ 1 \in 1 .. Len(q) /\ Head(q) \in FrameType
         /\ Tail(q) = <<>>
  <1>1. Len(q) \in Nat /\ Len(q) # 0
    OBVIOUS
  <1>2. Len(q) = 1
    BY <1>1
  <1>3. Head(q) = q[1] /\ 1 \in 1 .. Len(q) /\ Head(q) \in FrameType
    BY <1>2
  <1>4. Tail(q) \in Seq(FrameType) /\ Len(Tail(q)) = 0
    BY <1>2
  <1>5. Tail(q) = <<>>
    BY <1>4
  <1> QED BY <1>2, <1>3, <1>5

LEMMA FileTaken ==
  ASSUME NEW c, NEW j, QueuesInv(c, j), c.step = "send", c.file # <<>>,
         NEW d \in CraftType, d.file = Tail(c.file), d.pending = c.pending, d.ack = c.ack,
         d.step = "send", d.cursor = c.cursor
  PROVE  /\ QueuesInv(d, j) /\ Newer(c, j, d, j) /\ d.file = <<>>
         /\ Head(c.file) \in CraftFrames(c)
         /\ \A f \in CraftFrames(d) : Apart(Head(c.file), f)
         /\ c.pending = <<>> =>
              (c.ack = <<>> \/ ~(Head(c.ack).key < Head(c.file).key) =>
                 \A f \in CraftFrames(d) : Precedes(Head(c.file), f))
  <1> DEFINE h == Head(c.file)
  <1>1. c \in CraftType /\ c.ack \in Seq(FrameType) /\ Ordered(c.ack)
        /\ c.file \in Seq(FrameType) /\ Len(c.file) <= 1 /\ j \in JournalType
    BY DEF QueuesInv, CraftType
  <1>2. /\ Len(c.file) = 1 /\ h = c.file[1] /\ 1 \in 1 .. Len(c.file) /\ h \in FrameType
        /\ Tail(c.file) = <<>>
    BY <1>1, SingleFrame
  <1>3. h \in Of(c.file)
    BY <1>2 DEF Of
  <1>4. d.file = <<>> /\ Of(d.file) = {} /\ Len(d.file) = 0
    BY <1>2 DEF Of
  <1>5. CraftFrames(d) = Of(c.pending) \cup Of(c.ack) /\ CraftFrames(d) \subseteq CraftFrames(c)
        /\ h \in CraftFrames(c)
    BY <1>3, <1>4 DEF CraftFrames
  <1>6. \A f \in CraftFrames(d) : Apart(h, f)
    BY <1>3, <1>5 DEF QueuesInv
  <1>7. ASSUME c.pending = <<>>, c.ack = <<>> \/ ~(Head(c.ack).key < h.key),
               NEW f \in CraftFrames(d)
        PROVE  Precedes(h, f)
    <2>1. Of(<<>>) = {}
      BY DEF Of
    <2>2. PICK i \in 1 .. Len(c.ack) : f = c.ack[i]
      BY <1>5, <1>7, <2>1 DEF Of
    <2>3. c.ack # <<>> /\ Head(c.ack) = c.ack[1] /\ 1 \in 1 .. Len(c.ack) /\ c.ack[1] \in FrameType
          /\ f \in FrameType
      BY <1>1, <2>2
    <2>4. i = 1 \/ Precedes(c.ack[1], f)
      BY <1>1, <2>2, <2>3 DEF Ordered
    <2>5. ~(f.key < h.key)
      <3>1. c.ack[1].key \in Nat /\ f.key \in Nat /\ h.key \in Nat
        BY <1>2, <2>3, ApidTypes
      <3>2. ~(c.ack[1].key < h.key)
        BY <1>7, <2>3
      <3> QED BY <2>2, <2>4, <3>1, <3>2 DEF Precedes
    <2> QED BY <1>6, <2>5 DEF Apart, Precedes
  <1>8. \A f \in CraftFrames(d) : f.copy = 0 /\ Known(f, j)
    BY <1>5 DEF QueuesInv
  <1>9. Len(d.file) <= 1 /\ Len(d.pending) <= PendingCapacity
    <2>1. 0 <= 1
      OBVIOUS
    <2> QED BY <1>4, <2>1 DEF QueuesInv
  <1>10. QueuesInv(d, j)
    BY <1>1, <1>4, <1>8, <1>9 DEF QueuesInv
  <1>11. Newer(c, j, d, j)
    BY <1>1, <1>5, ApidTypes DEF Newer, Later
  <1> QED BY <1>4, <1>5, <1>6, <1>7, <1>10, <1>11

\* The frame is the youngest on the wire, and older than what stays queued.
LEMMA SendFrame ==
  ASSUME TelemetryInv, QueuesInv(craft', journal'), Newer(craft, journal, craft', journal'),
         UNCHANGED <<station, outcome>>,
         NEW h \in CraftFrames(craft), wire' = Append(wire, h),
         \A f \in CraftFrames(craft') : Apart(h, f),
         ~outcome.overflow => /\ \A f \in CraftFrames(craft') : Precedes(h, f)
                              /\ craft'.pending = <<>>
  PROVE  TelemetryInv'
  <1>1. wire \in Seq(FrameType) /\ station \in StationType /\ outcome \in OutcomeType
        /\ craft \in CraftType /\ journal \in JournalType /\ journal' \in JournalType
    BY DEF TelemetryInv, QueuesInv
  <1>2. h \in FrameType /\ h.copy = 0 /\ Known(h, journal) /\ h.key \notin outcome.acted
    BY <1>1, FrameTypes DEF TelemetryInv, QueuesInv, ActedInv
  <1>3. Known(h, journal')
    BY <1>1, <1>2, KnownLater DEF Newer
  <1> DEFINE n == Len(wire)
  <1>4. /\ wire' \in Seq(FrameType) /\ n \in Nat /\ Len(wire') = n + 1 /\ wire'[n + 1] = h
        /\ \A i \in 1 .. n : wire'[i] = wire[i]
    BY <1>1, <1>2
  <1>a. \A i \in 1 .. Len(wire') : i \in 1 .. n \/ i = n + 1
    BY <1>4
  <1>b. \A i, k \in 1 .. Len(wire') :
           i < k => i \in 1 .. n /\ (k \in 1 .. n \/ k = n + 1)
    BY <1>4
  <1>5. WireInv'
    <2>1. \A i \in 1 .. Len(wire') : Known(wire'[i], journal') /\ (wire'[i].copy = 1 => i = 1)
      BY <1>2, <1>3, <1>4, <1>a, CountedLater DEF TelemetryInv, WireInv
    <2>2. \A i, k \in 1 .. Len(wire') : i < k => Apart(wire'[i], wire'[k])
      BY <1>4, <1>b DEF TelemetryInv, WireInv
    <2>3. \A i \in 1 .. Len(wire') : \A f \in CraftFrames(craft') : Apart(wire'[i], f)
      BY <1>4, <1>a, CountedLater DEF TelemetryInv, WireInv, Apart
    <2> HIDE DEF n
    <2> QED BY <2>1, <2>2, <2>3 DEF WireInv
  <1>6. ActedInv'
    <2>1. \A i \in 1 .. Len(wire') :
             wire'[i].key \in outcome.acted => wire'[i].copy = 1 /\ Repeated(wire'[i])
      BY <1>2, <1>4, <1>a DEF TelemetryInv, ActedInv
    <2> HIDE DEF n
    <2> QED BY <2>1, CountedLater DEF TelemetryInv, ActedInv, Repeated, IsLast
  <1>7. OrderInv'
    <2> SUFFICES ASSUME ~outcome.overflow PROVE OrderInv'
      BY DEF OrderInv
    <2>1. \A f \in CraftFrames(craft') : After(f)
      BY CountedLater DEF TelemetryInv, OrderInv
    <2>2. \A i \in 1 .. Len(wire') : \A f \in CraftFrames(craft') : Precedes(wire'[i], f)
      BY <1>4, <1>a, CountedLater DEF TelemetryInv, OrderInv
    <2>3. Ordered(wire')
      <3>1. \A i \in 1 .. n : Precedes(wire[i], h)
        BY DEF TelemetryInv, OrderInv
      <3> QED BY <1>4, <1>b, <3>1 DEF TelemetryInv, OrderInv, Ordered
    <2>4. \A i \in 1 .. Len(wire') : After(wire'[i]) \/ (wire'[i].copy = 1 /\ Repeated(wire'[i]))
      BY <1>4, <1>a DEF TelemetryInv, OrderInv
    <2>5. outcome.inOrder /\ \A k \in outcome.acted : k <= station.last.key
      BY DEF TelemetryInv, OrderInv
    <2> HIDE DEF n
    <2> QED BY <2>1, <2>2, <2>3, <2>4, <2>5 DEF OrderInv, After, Follows, Repeated, IsLast
  <1>8. RefusedForCause'
    BY DEF TelemetryInv, RefusedForCause
  <1> HIDE DEF n
  <1> QED BY <1>1, <1>4, <1>5, <1>6, <1>7, <1>8, CountedLater DEF TelemetryInv


LEMMA CraftReplaced ==
  ASSUME NEW j, NEW c, NEW t, t = [journal |-> j, craft |-> c, ok |-> TRUE],
         NEW d, NEW s, s = [t EXCEPT !.craft = d]
  PROVE  s = [journal |-> j, craft |-> d, ok |-> TRUE]
  OBVIOUS

LEMMA WithCraft ==
  ASSUME NEW d, NEW s, s = [State EXCEPT !.craft = d]
  PROVE  s = [journal |-> journal, craft |-> d, ok |-> TRUE]
  <1>1. State = [journal |-> journal, craft |-> craft, ok |-> TRUE]
    BY DEF State
  <1> QED BY <1>1, CraftReplaced

AckLeft(c, x) == [c EXCEPT !.ack = x]
FileLeft(c, x) == [c EXCEPT !.file = x]

LEMMA AckShortens ==
  ASSUME NEW c \in CraftType, NEW x \in Seq(FrameType), NEW d, d = AckLeft(c, x)
  PROVE  /\ d \in CraftType /\ d.ack = x /\ d.pending = c.pending /\ d.file = c.file
         /\ d.step = c.step /\ d.cursor = c.cursor
  <1>1. d = [step |-> c.step, cursor |-> c.cursor, left |-> c.left, pending |-> c.pending,
             ack |-> x, file |-> c.file]
    BY DEF CraftType, AckLeft
  <1> QED BY <1>1 DEF CraftType

LEMMA FileShortens ==
  ASSUME NEW c \in CraftType, NEW x \in Seq(FrameType), NEW d, d = FileLeft(c, x)
  PROVE  /\ d \in CraftType /\ d.file = x /\ d.pending = c.pending /\ d.ack = c.ack
         /\ d.step = c.step /\ d.cursor = c.cursor
  <1>1. d = [step |-> c.step, cursor |-> c.cursor, left |-> c.left, pending |-> c.pending,
             ack |-> c.ack, file |-> x]
    BY DEF CraftType, FileLeft
  <1> QED BY <1>1 DEF CraftType

LEMMA FileEnds ==
  ASSUME NEW c \in CraftType, NEW d, d = [c EXCEPT !.left = 0]
  PROVE  /\ d \in CraftType /\ d.pending = c.pending /\ d.ack = c.ack /\ d.file = c.file
         /\ d.step = c.step /\ d.cursor = c.cursor
  <1>1. d = [step |-> c.step, cursor |-> c.cursor, left |-> 0, pending |-> c.pending,
             ack |-> c.ack, file |-> c.file]
    BY DEF CraftType
  <1>2. 0 \in Nat
    OBVIOUS
  <1>3. d.pending = c.pending /\ d.ack = c.ack /\ d.file = c.file /\ d.step = c.step
        /\ d.cursor = c.cursor /\ d.left = 0
    BY <1>1
  <1>4. /\ c.step \in Steps /\ c.cursor \in Nat /\ c.pending \in Seq(FrameType)
        /\ c.ack \in Seq(FrameType) /\ c.file \in Seq(FrameType)
    BY DEF CraftType, Steps
  <1>5. d \in CraftType
    BY <1>1, <1>2, <1>4 DEF CraftType, Steps
  <1> QED BY <1>3, <1>5

LEMMA AckSent ==
  ASSUME TelemetryInv, NEW sent \in BOOLEAN, PumpSend(sent), NextQueue = "ack"
  PROVE  TelemetryInv'
  <1> DEFINE h == Head(craft.ack)
             rest == Tail(craft.ack)
             d == [craft EXCEPT !.ack = Tail(@)]
             popped == [State EXCEPT !.craft["ack"] = Tail(@)]
  <1>1. /\ craft.step = "send" /\ craft \in CraftType /\ QueuesInv(craft, journal)
        /\ craft.ack # <<>> \/ craft.file # <<>>
        /\ UNCHANGED station /\ wire' = IF sent THEN Append(wire, h) ELSE wire
        /\ Take(popped, "send")
    BY DEF PumpSend, TelemetryInv, QueuesInv
  <1>2. craft.ack # <<>> /\ (craft.file = <<>> \/ h.key < Head(craft.file).key)
    BY <1>1 DEF NextQueue
  <1>3. popped = [State EXCEPT !.craft = [State.craft EXCEPT !["ack"] = Tail(@)]]
    BY DEF State
  <1>5. d = AckLeft(craft, rest)
    BY DEF AckLeft
  <1>4. popped = [journal |-> journal, craft |-> d, ok |-> TRUE]
    <2>1. popped = [State EXCEPT !.craft = d]
      BY <1>3, StateShape
    <2> HIDE DEF popped, d
    <2> QED BY <2>1, WithCraft
  <1> HIDE DEF popped, d, h
  <1>6. craft.ack \in Seq(FrameType) /\ rest \in Seq(FrameType)
    BY <1>1, <1>2 DEF CraftType
  <1> HIDE DEF rest
  <1>7. /\ d \in CraftType /\ d.ack = rest /\ d.pending = craft.pending
        /\ d.file = craft.file /\ d.step = craft.step /\ d.cursor = craft.cursor
    BY <1>1, <1>5, <1>6, AckShortens
  <1>8. popped.craft = d /\ popped.journal = journal /\ popped.ok = TRUE
    <2> HIDE DEF d, popped
    <2> QED BY <1>4
  <1>9. /\ d.ack = Tail(craft.ack) /\ d.pending = craft.pending /\ d.file = craft.file
        /\ d.step = "send" /\ d.cursor = craft.cursor
    BY <1>1, <1>7 DEF rest
  <1>10. /\ QueuesInv(d, journal) /\ Newer(craft, journal, d, journal)
         /\ h \in CraftFrames(craft) /\ craft.pending = <<>>
         /\ \A f \in CraftFrames(d) : Apart(h, f)
         /\ \A f \in CraftFrames(d) : Precedes(h, f)
    BY <1>1, <1>2, <1>7, <1>9, AckTaken DEF h
  <1>11. craft' = d /\ journal' = journal /\ outcome' = outcome
    <2>1. /\ craft' = [d EXCEPT !.step = "send"] /\ journal' = journal
          /\ outcome' = [outcome EXCEPT !.overflow = @ \/ FALSE]
      BY <1>1, <1>8 DEF Take
    <2>2. [d EXCEPT !.step = "send"] = d
      BY <1>7, <1>9 DEF CraftType
    <2>3. [outcome EXCEPT !.overflow = @ \/ FALSE] = outcome
      BY DEF TelemetryInv, OutcomeType
    <2> QED BY <2>1, <2>2, <2>3
  <1>12. CASE sent
    BY <1>1, <1>9, <1>10, <1>11, <1>12, SendFrame
  <1>13. CASE ~sent
    <2>1. outcome' = [outcome EXCEPT !.overflow = @ \/ FALSE]
      BY <1>11, OutcomeSame DEF TelemetryInv
    <2>2. UNCHANGED <<wire, station>> /\ craft'.pending = <<>> /\ FALSE \in BOOLEAN
      BY <1>1, <1>9, <1>10, <1>11, <1>13
    <2>3. ~(outcome.overflow \/ FALSE) => (craft'.step = "send" => craft'.pending = <<>>)
      BY <2>2
    <2>4. QueuesInv(craft', journal') /\ Newer(craft, journal, craft', journal')
      BY <1>10, <1>11
    <2> QED BY <2>1, <2>2, <2>3, <2>4, SatelliteFrame
  <1> QED BY <1>12, <1>13

LEMMA FileSent ==
  ASSUME TelemetryInv, NEW sent \in BOOLEAN, PumpSend(sent), NextQueue = "file"
  PROVE  TelemetryInv'
  <1> DEFINE h == Head(craft.file)
             rest == Tail(craft.file)
             d == [craft EXCEPT !.file = Tail(@)]
             popped == [State EXCEPT !.craft["file"] = Tail(@)]
  <1>1. /\ craft.step = "send" /\ craft \in CraftType /\ QueuesInv(craft, journal)
        /\ craft.ack # <<>> \/ craft.file # <<>>
        /\ UNCHANGED station /\ wire' = IF sent THEN Append(wire, h) ELSE wire
        /\ Take(IF sent THEN QueueFile(popped) ELSE [popped EXCEPT !.craft.left = 0], "send")
    BY DEF PumpSend, TelemetryInv, QueuesInv
  <1>2. craft.file # <<>> /\ (craft.ack = <<>> \/ ~(Head(craft.ack).key < h.key))
    <2>1. "ack" # "file"
      OBVIOUS
    <2>2. craft.file = <<>> => NextQueue = "ack"
      BY <1>1 DEF NextQueue
    <2>3. CASE craft.ack = <<>> /\ craft.file # <<>>
      BY <2>3
    <2>4. CASE craft.ack # <<>> /\ craft.file # <<>>
      BY <2>1, <2>4 DEF NextQueue
    <2> QED BY <2>1, <2>2, <2>3, <2>4
  <1>3. popped = [State EXCEPT !.craft = [State.craft EXCEPT !["file"] = Tail(@)]]
    BY DEF State
  <1>5. d = FileLeft(craft, rest)
    BY DEF FileLeft
  <1>4. popped = [journal |-> journal, craft |-> d, ok |-> TRUE]
    <2>1. popped = [State EXCEPT !.craft = d]
      BY <1>3, StateShape
    <2> HIDE DEF popped, d
    <2> QED BY <2>1, WithCraft
  <1> HIDE DEF d, h
  <1>6. craft.file \in Seq(FrameType) /\ rest \in Seq(FrameType)
    BY <1>1, <1>2 DEF CraftType
  <1> HIDE DEF rest
  <1>7. /\ d \in CraftType /\ d.file = rest /\ d.pending = craft.pending
        /\ d.ack = craft.ack /\ d.step = craft.step /\ d.cursor = craft.cursor
    BY <1>1, <1>5, <1>6, FileShortens
  <1>8. popped.craft = d /\ popped.journal = journal /\ popped.ok = TRUE /\ Shaped(popped)
    <2> HIDE DEF d, popped
    <2> QED BY <1>4 DEF Shaped
  <1>9. /\ d.ack = craft.ack /\ d.pending = craft.pending /\ d.file = Tail(craft.file)
        /\ d.step = "send" /\ d.cursor = craft.cursor
    BY <1>1, <1>7 DEF rest
  <1>10. ~outcome.overflow => craft.pending = <<>>
    BY <1>1 DEF TelemetryInv, OrderInv
  <1>11. /\ QueuesInv(d, journal) /\ Newer(craft, journal, d, journal) /\ d.file = <<>>
         /\ h \in CraftFrames(craft)
         /\ \A f \in CraftFrames(d) : Apart(h, f)
         /\ ~outcome.overflow => \A f \in CraftFrames(d) : Precedes(h, f)
    BY <1>1, <1>2, <1>7, <1>9, <1>10, FileTaken DEF h
  <1>12. CASE sent
    <2> DEFINE t == QueueFile(popped)
    <2>1. Take(t, "send") /\ wire' = Append(wire, h)
      BY <1>1, <1>12
    <2> HIDE DEF popped
    <2>2. /\ QueuesInv(t.craft, t.journal) /\ Newer(d, journal, t.craft, t.journal)
          /\ t.ok = TRUE /\ t.craft.pending = craft.pending
      BY <1>8, <1>9, <1>11, QueueFileWorks
    <2> HIDE DEF t
    <2>3. t.craft \in CraftType /\ t.journal \in JournalType /\ journal \in JournalType
          /\ t.craft.cursor <= t.journal.events
      BY <1>11, <2>2 DEF QueuesInv
    <2>4. /\ craft' = [t.craft EXCEPT !.step = "send"] /\ journal' = t.journal
          /\ outcome' = [outcome EXCEPT !.overflow = @ \/ FALSE]
      BY <2>1, <2>2 DEF Take
    <2>5. outcome' = outcome
      BY <2>4 DEF TelemetryInv, OutcomeType
    <2>6. /\ craft' \in CraftType /\ craft'.step = "send" /\ craft'.cursor = t.craft.cursor
          /\ craft'.pending = t.craft.pending /\ craft'.ack = t.craft.ack
          /\ craft'.file = t.craft.file
      BY <2>3, <2>4, StepMoves
    <2>7. QueuesInv(craft', t.journal) /\ Newer(t.craft, t.journal, craft', t.journal)
      BY <2>2, <2>3, <2>6, SameQueues
    <2>8. Newer(d, journal, craft', journal')
      BY <2>2, <2>3, <2>4, <2>6, <2>7, NewerTransitive
    <2>9. Newer(craft, journal, craft', journal')
      BY <1>11, <2>3, <2>4, <2>6, <2>8, NewerTransitive
    <2>10. \A f \in CraftFrames(craft') : f \in CraftFrames(d) \/ Precedes(h, f)
      <3>1. h \in FrameType /\ Known(h, journal) /\ \A f \in CraftFrames(craft') : f \in FrameType
        BY <1>1, <1>11, <2>6, FrameTypes DEF QueuesInv
      <3>2. \A f \in CraftFrames(craft') : f \in CraftFrames(d) \/ Beyond(f, journal)
        BY <2>8 DEF Newer
      <3> QED BY <2>3, <3>1, <3>2, KnownBeyond
    <2>11. \A f \in CraftFrames(craft') : Apart(h, f)
      BY <1>11, <2>10 DEF Apart
    <2>12. ~outcome.overflow => /\ \A f \in CraftFrames(craft') : Precedes(h, f)
                                /\ craft'.pending = <<>>
      BY <1>10, <1>11, <2>2, <2>6, <2>10
    <2> QED BY <1>1, <1>11, <2>1, <2>4, <2>5, <2>7, <2>9, <2>11, <2>12, SendFrame
  <1>13. CASE ~sent
    <2> DEFINE e == [d EXCEPT !.left = 0]
               t == [popped EXCEPT !.craft.left = 0]
    <2>1. t = [journal |-> journal, craft |-> e, ok |-> TRUE]
      <3>1. t = [popped EXCEPT !.craft = [popped.craft EXCEPT !.left = 0]]
        BY <1>4
      <3>2. t = [popped EXCEPT !.craft = e]
        BY <1>8, <3>1
      <3> HIDE DEF t, e, popped
      <3> QED BY <1>4, <3>2
    <2>2. Take(t, "send") /\ wire' = wire
      BY <1>1, <1>13
    <2>4. e \in CraftType /\ e.pending = d.pending /\ e.ack = d.ack /\ e.file = d.file
          /\ e.step = d.step /\ e.cursor = d.cursor
      BY <1>7, FileEnds
    <2> HIDE DEF e
    <2> HIDE DEF t
    <2>5. t.craft = e /\ t.journal = journal /\ t.ok = TRUE
      BY <2>1
    <2>6. QueuesInv(e, journal) /\ Newer(d, journal, e, journal)
      <3>1. e.cursor <= journal.events
        BY <1>11, <2>4 DEF QueuesInv
      <3>2. e.step # "send" => d.ack = <<>>
        BY <1>9, <2>4
      <3> QED BY <1>11, <2>4, <3>1, <3>2, SameQueues
    <2>7. Newer(craft, journal, e, journal)
      BY <1>11, <2>4, <2>6, NewerTransitive DEF QueuesInv
    <2>8. UNCHANGED <<wire, station>> /\ t.ok \in BOOLEAN /\ "send" \in Steps
      BY <1>1, <2>2, <2>5 DEF Steps
    <2>9. ~(outcome.overflow \/ ~t.ok) => ("send" = "send" => t.craft.pending = <<>>)
      BY <1>9, <1>10, <2>4, <2>5
    <2> QED BY <2>2, <2>5, <2>6, <2>7, <2>8, <2>9, TakeStep
  <1> QED BY <1>12, <1>13

LEMMA PumpSendKeeps ==
  ASSUME TelemetryInv, NEW sent \in BOOLEAN, PumpSend(sent)
  PROVE  TelemetryInv'
  <1>1. NextQueue \in {"ack", "file"}
    BY DEF NextQueue
  <1> QED BY <1>1, AckSent, FileSent

-----------------------------------------------------------------------------
(* The counters of the ground.                                             *)

LEMMA Divides ==
  ASSUME NEW m \in Nat, m > 0, NEW a \in Nat
  PROVE  a \div m \in Int /\ a % m \in 0 .. m - 1 /\ a = m * (a \div m) + (a % m)
  OBVIOUS

LEMMA Remainder ==
  ASSUME NEW m \in Nat, m > 0, NEW d \in Nat, d < m
  PROVE  d % m = d /\ (d - m) % m = d
  OBVIOUS

\* The distance of two counts is that of what they count, while it is smaller
\* than their modulus.
LEMMA CountsAhead ==
  ASSUME NEW m \in Nat, m > 0, NEW a \in Nat, NEW b \in Nat, a < b, b - a < m
  PROVE  ((b % m) - (a % m)) % m = b - a
  <1> DEFINE p == a \div m
             q == b \div m
             x == a % m
             y == b % m
             d == b - a
  <1>1. /\ p \in Int /\ x \in Int /\ 0 <= x /\ x < m /\ a = m * p + x
        /\ q \in Int /\ y \in Int /\ 0 <= y /\ y < m /\ b = m * q + y
    BY Divides
  <1>2. d \in Nat /\ d > 0 /\ d < m /\ d = b - a
    OBVIOUS
  <1> HIDE DEF p, q, x, y, d
  <1> DEFINE k == q - p
             z == m * k
  <1>3. k \in Int /\ z \in Int /\ z = m * q - m * p
    BY <1>1
  <1>4. k <= -1 => z <= -m
    BY <1>3
  <1>5. k >= 2 => z >= 2 * m
    BY <1>3
  <1>6. (k = 0 => z = 0) /\ (k = 1 => z = m)
    BY <1>3
  <1>7. d = z + (y - x)
    BY <1>1, <1>2, <1>3
  <1> HIDE DEF k, z
  <1>8. k = 0 \/ k = 1
    BY <1>1, <1>2, <1>3, <1>4, <1>5, <1>7
  <1>9. y - x = d \/ y - x = d - m
    BY <1>1, <1>2, <1>3, <1>6, <1>7, <1>8
  <1>10. (y - x) % m = d
    BY <1>2, <1>9, Remainder
  <1> QED BY <1>10 DEF x, y, d

\* What a relation says for distances below half the modulus, and for none.
LEMMA RelationAhead ==
  ASSUME NEW m \in Nat, m > 0, NEW a \in Nat, NEW b \in Nat, a < b, ~(b - a >= m \div 2)
  PROVE  Relation(a % m, b % m, m) \in {"IN_ORDER", "GAP"}
  <1> DEFINE delta == ((b % m) - (a % m)) % m
             half == m \div 2
  <1>1. half \in Nat /\ half <= m
    OBVIOUS
  <1>2. b - a \in Nat /\ b - a > 0 /\ b - a < half
    BY <1>1
  <1>3. b - a < m
    <2> HIDE DEF half
    <2> QED BY <1>1, <1>2
  <1>4. delta = b - a
    BY <1>3, CountsAhead
  <1>5. Relation(a % m, b % m, m) =
          CASE delta = 0 -> "DUPLICATE"
            [] delta = 1 -> "IN_ORDER"
            [] 1 < delta /\ delta < half -> "GAP"
            [] OTHER -> "STALE"
    BY DEF Relation
  <1> HIDE DEF delta, half
  <1>6. delta \in Nat /\ delta > 0 /\ delta < half
    BY <1>2, <1>4
  <1>7. CASE delta = 1
    BY <1>5, <1>7
  <1>8. CASE delta # 1
    <2>1. 1 < delta /\ delta # 0
      BY <1>6, <1>8
    <2> QED BY <1>5, <1>6, <1>8, <2>1
  <1> QED BY <1>7, <1>8

LEMMA RelationSame ==
  ASSUME NEW m \in Nat, m > 0, NEW a \in Nat
  PROVE  Relation(a % m, a % m, m) = "DUPLICATE"
  <1>1. a % m \in Int
    BY Divides
  <1>2. (a % m) - (a % m) = 0
    BY <1>1
  <1>3. 0 % m = 0
    BY Remainder
  <1> QED BY <1>2, <1>3 DEF Relation

LEMMA Moduli ==
  CountModulus \in Nat /\ CountModulus > 0 /\ PacketModulus \in Nat /\ PacketModulus > 0
  <1>1. CountModulus \in Nat \ {0} /\ PacketModulus \in Nat \ {0}
    BY TelemetryAssumption DEF TelemetryAssumption
  <1>2. \A n \in Nat \ {0} : n \in Nat /\ n > 0
    OBVIOUS
  <1> QED BY <1>1, <1>2

\* A second copy of the frame counted last is a duplicate.
LEMMA RepeatedIsRefused ==
  ASSUME station \in StationType, NEW f \in FrameType, f.sequence > 0,
         station.active = station.last.session, Repeated(f)
  PROVE  Observe(f) # "ACCEPTED"
  <1> DEFINE channel == Relation(station.last.key % CountModulus, f.key % CountModulus, CountModulus)
             packet == Relation(station.packets[f.apid] % PacketModulus, f.sequence % PacketModulus,
                                PacketModulus)
  <1>1. /\ station.last.session = f.session /\ station.last.key = f.key
        /\ station.packets[f.apid] = f.sequence /\ f.key \in Nat /\ f.sequence \in Nat
    BY ApidTypes DEF Repeated, IsLast
  <1>2. channel = "DUPLICATE"
    BY <1>1, Moduli, RelationSame
  <1>3. station.packets[f.apid] # 0
    BY <1>1
  <1> HIDE DEF channel
  <1>4. Observe(f) = LET p == packet
                     IN  IF f.session < station.active THEN "STALE_GENERATION"
                         ELSE IF {channel, p} = {"DUPLICATE"} THEN "DUPLICATE"
                         ELSE IF {channel, p} \cap {"STALE", "DUPLICATE"} # {} THEN "STALE_COUNTER"
                         ELSE "ACCEPTED"
    BY <1>1, <1>3 DEF Observe, channel
  <1> HIDE DEF packet
  <1> QED BY <1>2, <1>4

\* Counters that are ahead by less than half their modulus are accepted.
LEMMA AheadIsAccepted ==
  ASSUME station \in StationType, NEW f \in FrameType, After(f),
         station.active <= station.session, f.session = station.session,
         ~(f.key - station.last.key >= CountModulus \div 2),
         ~(f.sequence - station.packets[f.apid] >= PacketModulus \div 2)
  PROVE  Observe(f) = "ACCEPTED"
  <1> DEFINE fresh == station.last.session # f.session
             channel == IF fresh THEN "BASELINE"
                        ELSE Relation(station.last.key % CountModulus, f.key % CountModulus,
                                      CountModulus)
             packet == IF fresh \/ station.packets[f.apid] = 0 THEN "BASELINE"
                       ELSE Relation(station.packets[f.apid] % PacketModulus,
                                     f.sequence % PacketModulus, PacketModulus)
  <1>1. /\ f.key \in Nat /\ f.sequence \in Nat /\ f.apid \in Apids
        /\ station.last.key \in Nat /\ station.packets[f.apid] \in Nat
        /\ station.active \in Nat /\ f.session \in Nat
    BY DEF StationType, FrameType
  <1>2. station.last.key < f.key /\ station.packets[f.apid] < f.sequence
    BY <1>1 DEF After, Follows
  <1>3. channel \in {"BASELINE", "IN_ORDER", "GAP"}
    BY <1>1, <1>2, Moduli, RelationAhead
  <1>4. packet \in {"BASELINE", "IN_ORDER", "GAP"}
    BY <1>1, <1>2, Moduli, RelationAhead
  <1>5. ~(f.session < station.active)
    BY <1>1
  <1>6. Observe(f) = IF f.session < station.active THEN "STALE_GENERATION"
                     ELSE IF {channel, packet} = {"DUPLICATE"} THEN "DUPLICATE"
                     ELSE IF {channel, packet} \cap {"STALE", "DUPLICATE"} # {} THEN "STALE_COUNTER"
                     ELSE "ACCEPTED"
    BY DEF Observe
  <1> HIDE DEF channel, packet
  <1> QED BY <1>3, <1>4, <1>5, <1>6

-----------------------------------------------------------------------------
(* A frame leaves the wire, or comes a second time.                        *)

Again(f) == [f EXCEPT !.copy = 1]

LEMMA AgainSame ==
  ASSUME NEW f \in FrameType
  PROVE  /\ Again(f) \in FrameType /\ Again(f).copy = 1
         /\ Again(f).key = f.key /\ Again(f).apid = f.apid /\ Again(f).sequence = f.sequence
         /\ Again(f).session = f.session
  <1>1. Again(f) = [key |-> f.key, apid |-> f.apid, sequence |-> f.sequence, event |-> f.event,
                    session |-> f.session, copy |-> 1]
    BY DEF FrameType, Again
  <1>2. 1 \in {0, 1}
    OBVIOUS
  <1> QED BY <1>1, <1>2 DEF FrameType

\* The frames behind the first one.
LEMMA Behind ==
  ASSUME wire \in Seq(FrameType), wire # <<>>
  PROVE  /\ Len(wire) \in Nat /\ 1 \in 1 .. Len(wire) /\ Head(wire) = wire[1]
         /\ wire[1] \in FrameType
         /\ Tail(wire) \in Seq(FrameType) /\ Len(Tail(wire)) = Len(wire) - 1
         /\ \A i \in 1 .. Len(Tail(wire)) :
               i + 1 \in 1 .. Len(wire) /\ i + 1 > 1 /\ Tail(wire)[i] = wire[i + 1]
  OBVIOUS

LEMMA WireShortens ==
  ASSUME TelemetryInv, wire # <<>>, wire' = Tail(wire), UNCHANGED <<craft, journal>>
  PROVE  /\ wire' \in Seq(FrameType) /\ WireInv'
         /\ \A i \in 1 .. Len(wire') : \E k \in 2 .. Len(wire) : wire'[i] = wire[k]
         /\ ~outcome.overflow =>
               /\ Ordered(wire')
               /\ \A i \in 1 .. Len(wire') : \A f \in CraftFrames(craft) : Precedes(wire'[i], f)
  <1>1. wire \in Seq(FrameType)
    BY DEF TelemetryInv
  <1>2. /\ wire' \in Seq(FrameType) /\ Len(wire) \in Nat
        /\ \A i \in 1 .. Len(wire') :
              i + 1 \in 1 .. Len(wire) /\ i + 1 > 1 /\ wire'[i] = wire[i + 1]
    BY <1>1, Behind
  <1>3. \A i \in 1 .. Len(wire') : i + 1 # 1 /\ i + 1 \in 2 .. Len(wire)
    BY <1>2
  <1>4. \A i, k \in 1 .. Len(wire') : i < k => i + 1 < k + 1
    OBVIOUS
  <1>5. WireInv'
    <2>1. \A i \in 1 .. Len(wire') : Known(wire'[i], journal) /\ (wire'[i].copy = 1 => i = 1)
      BY <1>2, <1>3 DEF TelemetryInv, WireInv
    <2>2. \A i, k \in 1 .. Len(wire') : i < k => Apart(wire'[i], wire'[k])
      BY <1>2, <1>4 DEF TelemetryInv, WireInv
    <2>3. \A i \in 1 .. Len(wire') : \A f \in CraftFrames(craft) : Apart(wire'[i], f)
      BY <1>2 DEF TelemetryInv, WireInv
    <2> QED BY <2>1, <2>2, <2>3 DEF WireInv
  <1>6. ~outcome.overflow =>
           /\ Ordered(wire')
           /\ \A i \in 1 .. Len(wire') : \A f \in CraftFrames(craft) : Precedes(wire'[i], f)
    BY <1>2, <1>4 DEF TelemetryInv, OrderInv, Ordered
  <1> QED BY <1>2, <1>3, <1>5, <1>6

Prepended(g, t) == <<g>> \o t

LEMMA Concatenated ==
  ASSUME NEW S, NEW u \in Seq(S), NEW t \in Seq(S)
  PROVE  /\ u \o t \in Seq(S) /\ Len(u) \in Nat /\ Len(t) \in Nat /\ Len(u \o t) = Len(u) + Len(t)
         /\ \A i \in 1 .. Len(u) + Len(t) : (u \o t)[i] = IF i <= Len(u) THEN u[i] ELSE t[i - Len(u)]
  OBVIOUS

LEMMA InFront ==
  ASSUME NEW g \in FrameType, NEW t \in Seq(FrameType)
  PROVE  /\ Prepended(g, t) \in Seq(FrameType) /\ Len(Prepended(g, t)) = 1 + Len(t)
         /\ Prepended(g, t)[1] = g
         /\ \A i \in 2 .. 1 + Len(t) : Prepended(g, t)[i] = t[i - 1]
  <1> DEFINE u == <<g>>
             n == Len(t)
             s == u \o t
  <1>1. u \in Seq(FrameType) /\ Len(u) = 1 /\ u[1] = g /\ n \in Nat
    OBVIOUS
  <1>2. s = Prepended(g, t)
    BY DEF Prepended
  <1> HIDE DEF u
  <1>3. s \in Seq(FrameType)
    BY <1>1, Concatenated
  <1>4. Len(s) = Len(u) + n
    BY <1>1, Concatenated
  <1>5. \A i \in 1 .. Len(u) + n : s[i] = IF i <= Len(u) THEN u[i] ELSE t[i - Len(u)]
    BY <1>1, Concatenated
  <1> HIDE DEF n, s
  <1>6. 1 \in 1 .. 1 + n /\ \A i \in 2 .. 1 + n : i \in 1 .. 1 + n /\ ~(i <= 1)
    BY <1>1
  <1>7. s \in Seq(FrameType) /\ Len(s) = 1 + n /\ s[1] = g /\ \A i \in 2 .. 1 + n : s[i] = t[i - 1]
    BY <1>1, <1>3, <1>4, <1>5, <1>6
  <1> QED BY <1>2, <1>7 DEF n

LEMMA WireRepeats ==
  ASSUME TelemetryInv, wire # <<>>, wire' = Prepended(Again(Head(wire)), Tail(wire)),
         UNCHANGED <<craft, journal>>
  PROVE  /\ wire' \in Seq(FrameType) /\ WireInv'
         /\ \A i \in 1 .. Len(wire') :
               \/ i = 1 /\ wire'[i] = Again(Head(wire))
               \/ \E k \in 2 .. Len(wire) : wire'[i] = wire[k]
         /\ ~outcome.overflow =>
               /\ Ordered(wire')
               /\ \A i \in 1 .. Len(wire') : \A f \in CraftFrames(craft) : Precedes(wire'[i], f)
  <1> DEFINE g == Again(Head(wire))
  <1>1. wire \in Seq(FrameType)
    BY DEF TelemetryInv
  <1>2. /\ Head(wire) = wire[1] /\ wire[1] \in FrameType /\ Len(wire) \in Nat
        /\ 1 \in 1 .. Len(wire)
        /\ Tail(wire) \in Seq(FrameType) /\ Len(Tail(wire)) = Len(wire) - 1
        /\ \A i \in 1 .. Len(Tail(wire)) : Tail(wire)[i] = wire[i + 1]
    BY <1>1, Behind
  <1>3. /\ g \in FrameType /\ g.copy = 1 /\ g.key = wire[1].key /\ g.apid = wire[1].apid
        /\ g.sequence = wire[1].sequence
    BY <1>2, AgainSame
  <1> HIDE DEF g
  <1>4. wire' = Prepended(g, Tail(wire))
    BY DEF g
  <1>5. /\ wire' \in Seq(FrameType) /\ Len(wire') = Len(wire) /\ wire'[1] = g
        /\ \A i \in 2 .. Len(wire) : wire'[i] = wire[i]
    <2> DEFINE t == Tail(wire)
    <2>1. \A i \in 2 .. Len(wire) : i - 1 \in 1 .. Len(t) /\ t[i - 1] = wire[(i - 1) + 1]
      BY <1>2
    <2>2. \A i \in 2 .. Len(wire) : (i - 1) + 1 = i
      OBVIOUS
    <2>3. t \in Seq(FrameType) /\ Len(t) = Len(wire) - 1 /\ wire' = Prepended(g, t)
      BY <1>2, <1>4
    <2> HIDE DEF t
    <2> DEFINE p == Prepended(g, t)
    <2>4. /\ p \in Seq(FrameType) /\ Len(p) = 1 + Len(t) /\ p[1] = g
          /\ \A i \in 2 .. 1 + Len(t) : p[i] = t[i - 1]
      BY <1>3, <2>3, InFront
    <2> HIDE DEF p
    <2>6. wire' = p
      BY <2>3 DEF p
    <2>5. wire' \in Seq(FrameType) /\ Len(wire') = 1 + Len(t) /\ wire'[1] = g
          /\ \A i \in 2 .. 1 + Len(t) : wire'[i] = t[i - 1]
      BY <2>4, <2>6
    <2>7. 1 + Len(t) = Len(wire)
      BY <1>2, <2>3
    <2>8. ASSUME NEW i \in 2 .. Len(wire)
          PROVE  wire'[i] = wire[i]
      <3>1. t[i - 1] = wire[i]
        BY <2>1, <2>2
      <3> QED BY <2>5, <2>7, <3>1
    <2> QED BY <2>5, <2>7, <2>8
  <1>6. \A i \in 1 .. Len(wire') : i \in 1 .. Len(wire) /\ (i = 1 \/ i \in 2 .. Len(wire))
    BY <1>2, <1>5
  <1>7. \A i \in 1 .. Len(wire') :
           /\ wire'[i].key = wire[i].key /\ wire'[i].apid = wire[i].apid
           /\ wire'[i].sequence = wire[i].sequence
    BY <1>3, <1>5, <1>6
  <1>8. WireInv'
    <2>1. \A i \in 1 .. Len(wire') : Known(wire'[i], journal) /\ (wire'[i].copy = 1 => i = 1)
      BY <1>2, <1>5, <1>6, <1>7 DEF TelemetryInv, WireInv, Known
    <2>2. \A i, k \in 1 .. Len(wire') : i < k => Apart(wire'[i], wire'[k])
      BY <1>6, <1>7 DEF TelemetryInv, WireInv, Apart, Precedes
    <2>3. \A i \in 1 .. Len(wire') : \A f \in CraftFrames(craft) : Apart(wire'[i], f)
      BY <1>6, <1>7 DEF TelemetryInv, WireInv, Apart, Precedes
    <2> QED BY <2>1, <2>2, <2>3 DEF WireInv
  <1>9. ~outcome.overflow =>
           /\ Ordered(wire')
           /\ \A i \in 1 .. Len(wire') : \A f \in CraftFrames(craft) : Precedes(wire'[i], f)
    BY <1>6, <1>7 DEF TelemetryInv, OrderInv, Ordered, Precedes
  <1> QED BY <1>5, <1>6, <1>8, <1>9 DEF g

\* Only the first frame on the wire can be a copy, so no other was acted upon.
LEMMA OthersAreNew ==
  ASSUME TelemetryInv, wire # <<>>, NEW k \in 2 .. Len(wire)
  PROVE  /\ wire[k] \in FrameType /\ wire[k].copy = 0 /\ wire[k].sequence > 0
         /\ wire[k].key \notin outcome.acted /\ wire[k].key # wire[1].key
         /\ ~outcome.overflow => Precedes(wire[1], wire[k]) /\ After(wire[k])
  <1>1. wire \in Seq(FrameType)
    BY DEF TelemetryInv
  <1>2. k \in 1 .. Len(wire) /\ 1 \in 1 .. Len(wire) /\ 1 < k /\ k # 1
    BY <1>1, Behind
  <1>3. wire[k] \in FrameType /\ wire[1] \in FrameType
    BY <1>1, <1>2
  <1>4. wire[k].copy = 0 /\ wire[k].sequence > 0
    BY <1>2, <1>3 DEF TelemetryInv, WireInv, Known, FrameType
  <1>5. wire[k].key \notin outcome.acted
    BY <1>2, <1>4 DEF TelemetryInv, ActedInv
  <1>6. wire[k].key # wire[1].key
    <2>1. Apart(wire[1], wire[k])
      BY <1>2 DEF TelemetryInv, WireInv
    <2> QED BY <1>3, <2>1, ApidTypes DEF Apart, Precedes
  <1>7. ~outcome.overflow => Precedes(wire[1], wire[k]) /\ After(wire[k])
    BY <1>2, <1>4 DEF TelemetryInv, OrderInv, Ordered
  <1> QED BY <1>3, <1>4, <1>5, <1>6, <1>7

\* The station counts a frame: what comes after that frame is after all of it.
LEMMA AfterStored ==
  ASSUME station \in StationType, NEW f \in FrameType, station' = Stored(f)
  PROVE  /\ station' \in StationType
         /\ station'.session = station.session /\ station'.active = f.session
         /\ station'.last = [session |-> f.session, key |-> f.key]
         /\ station'.packets[f.apid] = f.sequence
         /\ \A a \in Apids : a # f.apid => station'.packets[a] \in {0, station.packets[a]}
  <1> DEFINE others == IF station.last.session = f.session THEN station.packets
                       ELSE [a \in DOMAIN station.packets |-> 0]
             packets == [others EXCEPT ![f.apid] = f.sequence]
             last == [session |-> f.session, key |-> f.key]
  <1>1. /\ f.key \in Nat /\ f.apid \in Apids /\ f.sequence \in Nat /\ f.session \in Nat
        /\ station.packets \in [Apids -> Nat] /\ station.session \in Nat
    BY DEF FrameType, StationType
  <1>2. others \in [Apids -> Nat] /\ \A a \in Apids : others[a] \in {0, station.packets[a]}
    BY <1>1
  <1> HIDE DEF others
  <1>3. /\ packets \in [Apids -> Nat] /\ packets[f.apid] = f.sequence
        /\ \A a \in Apids : a # f.apid => packets[a] \in {0, station.packets[a]}
    BY <1>1, <1>2
  <1>4. last \in [session : Nat, key : Nat]
    BY <1>1
  <1>5. station' = [station EXCEPT !.active = f.session, !.last = last, !.packets = packets]
    BY DEF Stored, others
  <1> HIDE DEF packets, last
  <1>6. station' = [session |-> station.session, active |-> f.session, last |-> last,
                    packets |-> packets]
    BY <1>5 DEF StationType
  <1>7. station' \in StationType
    BY <1>1, <1>3, <1>4, <1>6 DEF StationType
  <1> QED BY <1>3, <1>6, <1>7 DEF last

LEMMA StoredOlder ==
  ASSUME station \in StationType, NEW f \in FrameType, station' = Stored(f),
         NEW g \in FrameType, Precedes(f, g), g.sequence > 0, After(g)
  PROVE  Follows(g, station')
  <1>1. /\ g.key \in Nat /\ f.key \in Nat /\ g.apid \in Apids /\ g.sequence \in Nat
        /\ f.sequence \in Nat
    BY ApidTypes
  <1>a. station'.last = [session |-> f.session, key |-> f.key]
    BY AfterStored
  <1>2. g.key > station'.last.key
    BY <1>1, <1>a DEF Precedes
  <1>3. CASE g.apid = f.apid
    <2>1. station'.packets[g.apid] = f.sequence
      BY <1>3, AfterStored
    <2> QED BY <1>1, <1>2, <1>3, <2>1 DEF Precedes, After, Follows
  <1>4. CASE g.apid # f.apid
    <2>1. station'.packets[g.apid] \in {0, station.packets[g.apid]}
      BY <1>1, <1>4, AfterStored
    <2> QED BY <1>1, <1>2, <2>1 DEF After, Follows
  <1> QED BY <1>3, <1>4

-----------------------------------------------------------------------------
(* Steps of the link and of the ground.                                    *)

\* What the wire holds after the step, as far as the station is concerned.
LEMMA SameStation ==
  ASSUME TelemetryInv, wire # <<>>, UNCHANGED <<craft, journal, station>>,
         wire' \in Seq(FrameType), WireInv',
         NEW again \in BOOLEAN, again => wire[1].copy = 0,
         \A i \in 1 .. Len(wire') :
             \/ again /\ wire'[i] = Again(wire[1])
             \/ \E k \in 2 .. Len(wire) : wire'[i] = wire[k],
         ~outcome.overflow =>
             /\ Ordered(wire')
             /\ \A i \in 1 .. Len(wire') : \A f \in CraftFrames(craft) : Precedes(wire'[i], f),
         outcome' \in OutcomeType,
         /\ outcome'.acted = outcome.acted /\ outcome'.once = outcome.once
         /\ outcome'.inOrder = outcome.inOrder /\ outcome'.overflow = outcome.overflow,
         RefusedForCause'
  PROVE  TelemetryInv'
  <1>1. wire \in Seq(FrameType) /\ 1 \in 1 .. Len(wire) /\ wire[1] \in FrameType
    BY Behind DEF TelemetryInv
  <1>2. /\ Again(wire[1]).key = wire[1].key /\ Again(wire[1]).apid = wire[1].apid
        /\ Again(wire[1]).sequence = wire[1].sequence
    BY <1>1, AgainSame
  <1>3. \A i \in 1 .. Len(wire') : wire'[i].key \notin outcome.acted
    <2> TAKE i \in 1 .. Len(wire')
    <2>1. CASE again /\ wire'[i] = Again(wire[1])
      <3>1. wire[1].key \notin outcome.acted
        BY <1>1, <2>1 DEF TelemetryInv, ActedInv
      <3> QED BY <1>2, <2>1, <3>1
    <2>2. CASE \E k \in 2 .. Len(wire) : wire'[i] = wire[k]
      BY <2>2, OthersAreNew
    <2> QED BY <2>1, <2>2
  <1>4. ActedInv'
    BY <1>3 DEF TelemetryInv, ActedInv
  <1>5. OrderInv'
    <2> SUFFICES ASSUME ~outcome.overflow PROVE OrderInv'
      BY DEF OrderInv
    <2>1. \A i \in 1 .. Len(wire') : After(wire'[i])
      <3> TAKE i \in 1 .. Len(wire')
      <3>1. CASE again /\ wire'[i] = Again(wire[1])
        <4>1. After(wire[1])
          BY <1>1, <3>1 DEF TelemetryInv, OrderInv
        <4> QED BY <1>2, <3>1, <4>1 DEF After, Follows
      <3>2. CASE \E k \in 2 .. Len(wire) : wire'[i] = wire[k]
        BY <3>2, OthersAreNew
      <3> QED BY <3>1, <3>2
    <2>2. /\ outcome.inOrder /\ (craft.step = "send" => craft.pending = <<>>)
          /\ \A f \in CraftFrames(craft) : After(f)
          /\ \A k \in outcome.acted : k <= station.last.key
      BY DEF TelemetryInv, OrderInv
    <2>3. /\ Ordered(wire')
          /\ \A i \in 1 .. Len(wire') : \A f \in CraftFrames(craft) : Precedes(wire'[i], f)
      OBVIOUS
    <2>4. \A i \in 1 .. Len(wire') : Follows(wire'[i], station')
      BY <2>1 DEF After, Follows
    <2> QED BY <2>2, <2>3, <2>4 DEF OrderInv, After, Follows
  <1>6. StationInv'
    BY DEF TelemetryInv, StationInv
  <1> QED BY <1>4, <1>5, <1>6 DEF TelemetryInv

LEMMA LoseFrameKeeps ==
  ASSUME TelemetryInv, LoseFrame
  PROVE  TelemetryInv'
  <1>1. wire # <<>> /\ wire' = Tail(wire) /\ UNCHANGED <<craft, journal, station, outcome>>
    BY DEF LoseFrame
  <1>2. /\ wire' \in Seq(FrameType) /\ WireInv'
        /\ \A i \in 1 .. Len(wire') : \E k \in 2 .. Len(wire) : wire'[i] = wire[k]
        /\ ~outcome.overflow =>
              /\ Ordered(wire')
              /\ \A i \in 1 .. Len(wire') : \A f \in CraftFrames(craft) : Precedes(wire'[i], f)
    BY <1>1, WireShortens
  <1>3. outcome' \in OutcomeType /\ RefusedForCause' /\ outcome' = outcome
    BY <1>1 DEF TelemetryInv, RefusedForCause
  <1>4. FALSE \in BOOLEAN
    OBVIOUS
  <1>5. /\ outcome'.acted = outcome.acted /\ outcome'.once = outcome.once
        /\ outcome'.inOrder = outcome.inOrder /\ outcome'.overflow = outcome.overflow
    BY <1>3
  <1>6. UNCHANGED <<craft, journal, station>>
    BY <1>1
  <1> HIDE <1>1
  <1>7. wire # <<>>
    BY <1>1
  <1> QED BY <1>2, <1>3, <1>4, <1>5, <1>6, <1>7, SameStation

LEMMA StationBindKeeps ==
  ASSUME TelemetryInv, StationBind
  PROVE  TelemetryInv'
  <1>1. station \in StationType /\ journal.boot \in Nat /\ station.session < journal.boot
    BY DEF TelemetryInv, QueuesInv, JournalType, StationBind
  <1>2. station' = [session |-> journal.boot, active |-> station.active, last |-> station.last,
                    packets |-> station.packets]
    BY <1>1 DEF StationBind, StationType
  <1>3. /\ station' \in StationType /\ station'.session = journal.boot
        /\ station'.active = station.active /\ station'.last = station.last
        /\ station'.packets = station.packets
    BY <1>1, <1>2 DEF StationType
  <1>4. UNCHANGED <<craft, journal, wire, outcome>>
    BY DEF StationBind
  <1>5. StationInv'
    <2>1. station.active \in Nat /\ station.session \in Nat /\ station.active <= station.session
      BY <1>1 DEF StationType, TelemetryInv, StationInv
    <2>2. station'.active <= station'.session
      BY <1>1, <1>3, <2>1
    <2> QED BY <1>3, <1>4, <2>2 DEF TelemetryInv, StationInv
  <1>6. ActedInv'
    BY <1>3, <1>4 DEF TelemetryInv, ActedInv, Repeated, IsLast
  <1>7. OrderInv'
    BY <1>3, <1>4 DEF TelemetryInv, OrderInv, After, Follows, Repeated, IsLast, Ordered
  <1>8. WireInv' /\ RefusedForCause'
    BY <1>4 DEF TelemetryInv, WireInv, RefusedForCause
  <1> QED BY <1>3, <1>4, <1>5, <1>6, <1>7, <1>8 DEF TelemetryInv

\* The station counts a frame, and may act upon it.
LEMMA NewStation ==
  ASSUME TelemetryInv, wire # <<>>, UNCHANGED <<craft, journal>>,
         Observe(wire[1]) = "ACCEPTED", wire[1].session = station.session,
         station' = Stored(wire[1]),
         wire' \in Seq(FrameType), WireInv',
         NEW again \in BOOLEAN,
         \A i \in 1 .. Len(wire') :
             \/ again /\ wire'[i] = Again(wire[1])
             \/ \E k \in 2 .. Len(wire) : wire'[i] = wire[k],
         ~outcome.overflow =>
             /\ Ordered(wire')
             /\ \A i \in 1 .. Len(wire') : \A f \in CraftFrames(craft) : Precedes(wire'[i], f),
         outcome' = outcome \/ outcome' = ActedOn(wire[1])
  PROVE  TelemetryInv'
  <1> DEFINE f == wire[1]
  <1>1. /\ wire \in Seq(FrameType) /\ 1 \in 1 .. Len(wire) /\ f \in FrameType
        /\ station \in StationType /\ outcome \in OutcomeType
        /\ journal \in JournalType /\ craft \in CraftType
    BY Behind DEF TelemetryInv, QueuesInv
  <1>2. Known(f, journal) /\ f.sequence > 0 /\ f.key \in Nat /\ f.apid \in Apids /\ f.sequence \in Nat
    BY <1>1, ApidTypes DEF TelemetryInv, WireInv, Known
  <1>3. /\ station' \in StationType
        /\ station'.session = station.session /\ station'.active = f.session
        /\ station'.last = [session |-> f.session, key |-> f.key]
        /\ station'.packets[f.apid] = f.sequence
        /\ \A a \in Apids : a # f.apid => station'.packets[a] \in {0, station.packets[a]}
    BY <1>1, AfterStored
  <1>4. /\ Again(f) \in FrameType /\ Again(f).copy = 1
        /\ Again(f).key = f.key /\ Again(f).apid = f.apid /\ Again(f).sequence = f.sequence
        /\ Again(f).session = f.session
    BY <1>1, AgainSame
  <1>5. ~Repeated(f)
    BY <1>1, <1>2, RepeatedIsRefused DEF TelemetryInv, StationInv
  <1>6. f.key \notin outcome.acted
    BY <1>1, <1>5 DEF TelemetryInv, ActedInv
  <1>7. ~outcome.overflow => After(f) /\ \A k \in outcome.acted : k < f.key
    <2> SUFFICES ASSUME ~outcome.overflow PROVE After(f) /\ \A k \in outcome.acted : k < f.key
      OBVIOUS
    <2>1. After(f)
      BY <1>1, <1>5 DEF TelemetryInv, OrderInv
    <2>2. \A k \in outcome.acted : k \in Nat /\ k <= station.last.key
      BY <1>1 DEF TelemetryInv, OrderInv, OutcomeType
    <2>3. station.last.key \in Nat
      BY <1>1 DEF StationType
    <2> QED BY <1>2, <2>1, <2>2, <2>3 DEF After, Follows
  <1>8. /\ outcome' \in OutcomeType /\ outcome'.once
        /\ outcome'.acted \subseteq outcome.acted \cup {f.key}
        /\ outcome'.refused = outcome.refused /\ outcome'.overflow = outcome.overflow
        /\ ~outcome.overflow => outcome'.inOrder
    <2>1. CASE outcome' = outcome
      BY <1>1, <2>1 DEF TelemetryInv, ActedInv, OrderInv
    <2>2. CASE outcome' = ActedOn(f)
      <3> DEFINE inOrder == outcome.inOrder /\ \A k \in outcome.acted : k < f.key
                 once == outcome.once /\ f.key \notin outcome.acted
                 acted == outcome.acted \cup {f.key}
      <3>1. outcome' = [outcome EXCEPT !.acted = acted, !.once = once, !.inOrder = inOrder]
        BY <2>2 DEF ActedOn
      <3>2. once /\ (~outcome.overflow => inOrder) /\ inOrder \in BOOLEAN /\ once \in BOOLEAN
        BY <1>6, <1>7 DEF TelemetryInv, ActedInv, OrderInv
      <3>3. acted \in SUBSET Nat
        BY <1>1, <1>2 DEF OutcomeType
      <3>a. acted \subseteq outcome.acted \cup {f.key}
        OBVIOUS
      <3> HIDE DEF inOrder, once, acted
      <3>4. outcome' = [acted |-> acted, once |-> once, inOrder |-> inOrder,
                        overflow |-> outcome.overflow, refused |-> outcome.refused]
        BY <1>1, <3>1 DEF OutcomeType
      <3>5. outcome' \in OutcomeType
        BY <1>1, <3>2, <3>3, <3>4 DEF OutcomeType
      <3> QED BY <3>2, <3>4, <3>5, <3>a
    <2> QED BY <2>1, <2>2
  <1>9. StationInv'
    <2>1. \A a \in Apids : station'.packets[a] <= journal.packets[a]
      <3> TAKE a \in Apids
      <3>1. station.packets[a] <= journal.packets[a] /\ 0 <= journal.packets[a]
        BY <1>1, ApidTypes DEF TelemetryInv, StationInv
      <3>2. CASE a = f.apid
        BY <1>2, <1>3, <3>2 DEF Known
      <3>3. CASE a # f.apid
        BY <1>3, <3>1, <3>3
      <3> QED BY <3>2, <3>3
    <2>2. station'.last.key = f.key /\ station'.last.session = f.session
      BY <1>3
    <2>3. f.session \in Nat /\ f.session <= f.session
      BY <1>1 DEF FrameType
    <2> QED BY <1>2, <1>3, <2>1, <2>2, <2>3 DEF StationInv, Known
  <1>10. IsLast(Again(f), station')
    BY <1>3, <1>4 DEF Repeated, IsLast
  <1>11. \A i \in 1 .. Len(wire') :
            \/ wire'[i].copy = 1 /\ IsLast(wire'[i], station')
            \/ wire'[i].key \notin outcome.acted /\ wire'[i].key # f.key
    <2> TAKE i \in 1 .. Len(wire')
    <2>1. CASE wire'[i] = Again(f)
      BY <1>4, <1>10, <2>1 DEF Repeated, IsLast
    <2>2. CASE \E k \in 2 .. Len(wire) : wire'[i] = wire[k]
      BY <2>2, OthersAreNew
    <2> QED BY <2>1, <2>2
  <1>12. ActedInv'
    <2>1. \A k \in outcome'.acted : k <= journal.keys
      BY <1>2, <1>8 DEF TelemetryInv, ActedInv, Known
    <2>2. \A g \in CraftFrames(craft) : g.key \notin outcome'.acted
      <3> TAKE g \in CraftFrames(craft)
      <3>1. Apart(f, g) /\ g \in FrameType
        BY <1>1, FrameTypes DEF TelemetryInv, WireInv
      <3>2. g.key # f.key
        BY <1>2, <3>1, ApidTypes DEF Apart, Precedes
      <3> QED BY <1>8, <3>2 DEF TelemetryInv, ActedInv
    <2>3. \A i \in 1 .. Len(wire') :
             wire'[i].key \in outcome'.acted => wire'[i].copy = 1 /\ IsLast(wire'[i], station')
      BY <1>8, <1>11
    <2> QED BY <1>8, <2>1, <2>2, <2>3 DEF ActedInv, Repeated, IsLast
  <1>13. OrderInv'
    <2> SUFFICES ASSUME ~outcome.overflow PROVE OrderInv'
      BY <1>8 DEF OrderInv
    <2>1. \A i \in 1 .. Len(wire') :
             Follows(wire'[i], station') \/ (wire'[i].copy = 1 /\ IsLast(wire'[i], station'))
      <3> TAKE i \in 1 .. Len(wire')
      <3>1. CASE wire'[i] = Again(f)
        BY <1>4, <1>10, <3>1 DEF Repeated, IsLast
      <3>2. CASE \E k \in 2 .. Len(wire) : wire'[i] = wire[k]
        <4>1. PICK k \in 2 .. Len(wire) : wire'[i] = wire[k]
          BY <3>2
        <4>2. wire[k] \in FrameType /\ wire[k].sequence > 0 /\ Precedes(f, wire[k]) /\ After(wire[k])
          BY OthersAreNew
        <4>3. Follows(wire[k], station')
          BY <1>1, <4>2, StoredOlder
        <4> QED BY <4>1, <4>3 DEF After, Follows
      <3> QED BY <3>1, <3>2
    <2>2. \A g \in CraftFrames(craft) : Follows(g, station')
      <3> TAKE g \in CraftFrames(craft)
      <3>1. g \in FrameType /\ g.sequence > 0 /\ Precedes(f, g) /\ After(g)
        BY <1>1, FrameTypes DEF TelemetryInv, OrderInv, QueuesInv, Known
      <3> QED BY <1>1, <3>1, StoredOlder
    <2>3. \A k \in outcome'.acted : k <= station'.last.key
      <3>1. station'.last.key = f.key
        BY <1>3
      <3>2. \A k \in outcome.acted : k \in Nat /\ k < f.key
        BY <1>1, <1>7 DEF OutcomeType
      <3> QED BY <1>2, <1>8, <3>1, <3>2
    <2>4. craft.step = "send" => craft.pending = <<>>
      BY DEF TelemetryInv, OrderInv
    <2>5. /\ Ordered(wire')
          /\ \A i \in 1 .. Len(wire') : \A g \in CraftFrames(craft) : Precedes(wire'[i], g)
      OBVIOUS
    <2> QED BY <1>8, <2>1, <2>2, <2>3, <2>4, <2>5 DEF OrderInv, After, Follows, Repeated, IsLast
  <1>14. RefusedForCause'
    BY <1>8 DEF TelemetryInv, RefusedForCause
  <1>15. QueuesInv(craft, journal)
    BY DEF TelemetryInv
  <1> QED BY <1>3, <1>8, <1>9, <1>12, <1>13, <1>14, <1>15 DEF TelemetryInv

\* A frame that is refused although nothing has overflowed is a second copy, or
\* so far ahead that its counters are ambiguous.
LEMMA RefusalHasCause ==
  ASSUME TelemetryInv, wire # <<>>, Observe(wire[1]) # "ACCEPTED",
         wire[1].session = station.session, ~outcome.overflow
  PROVE  LET r == Refusal(wire[1])
         IN  \/ r.copy = 1 \/ r.ahead >= CountModulus \div 2
             \/ r.packets >= PacketModulus \div 2
  <1> DEFINE f == wire[1]
  <1>1. wire \in Seq(FrameType) /\ 1 \in 1 .. Len(wire) /\ f \in FrameType /\ station \in StationType
    BY Behind DEF TelemetryInv
  <1>2. After(f) \/ f.copy = 1
    BY <1>1 DEF TelemetryInv, OrderInv
  <1>3. /\ Refusal(f).copy = f.copy /\ Refusal(f).ahead = f.key - station.last.key
        /\ Refusal(f).packets = f.sequence - station.packets[f.apid]
    BY DEF Refusal
  <1>4. station.active <= station.session
    BY DEF TelemetryInv, StationInv
  <1> QED BY <1>1, <1>2, <1>3, <1>4, AheadIsAccepted

LEMMA StationReceiveKeeps ==
  ASSUME TelemetryInv, NEW again \in BOOLEAN, NEW stops \in BOOLEAN, StationReceive(again, stops)
  PROVE  TelemetryInv'
  <1> DEFINE f == wire[1]
  <1>1. wire \in Seq(FrameType) /\ wire # <<>> /\ outcome \in OutcomeType /\ station \in StationType
    BY DEF TelemetryInv, StationReceive
  <1>2. Head(wire) = f /\ f \in FrameType
    BY <1>1, Behind
  <1>3. /\ again => f.copy = 0
        /\ wire' = IF again THEN <<Again(Head(wire))>> \o Tail(wire) ELSE Tail(wire)
        /\ IF f.session # station.session THEN UNCHANGED <<station, outcome>>
           ELSE IF Observe(f) = "ACCEPTED"
             THEN /\ station' = Stored(f)
                  /\ outcome' = IF stops THEN outcome ELSE ActedOn(f)
             ELSE /\ outcome' = [outcome EXCEPT !.refused = @ \cup {Refusal(f)}]
                  /\ UNCHANGED station
        /\ UNCHANGED <<craft, journal>>
    BY <1>2 DEF StationReceive, Again
  <1>4. /\ wire' \in Seq(FrameType) /\ WireInv'
        /\ \A i \in 1 .. Len(wire') :
               \/ again /\ wire'[i] = Again(f)
               \/ \E k \in 2 .. Len(wire) : wire'[i] = wire[k]
        /\ ~outcome.overflow =>
              /\ Ordered(wire')
              /\ \A i \in 1 .. Len(wire') : \A g \in CraftFrames(craft) : Precedes(wire'[i], g)
    <2>1. CASE again
      <3>1. wire' = Prepended(Again(Head(wire)), Tail(wire))
        BY <1>3, <2>1 DEF Prepended
      <3> QED BY <1>1, <1>2, <1>3, <2>1, <3>1, WireRepeats
    <2>2. CASE ~again
      <3>1. wire' = Tail(wire)
        BY <1>3, <2>2
      <3> QED BY <1>1, <1>3, <3>1, WireShortens
    <2> QED BY <2>1, <2>2
  <1>5. CASE f.session # station.session
    <2>1. UNCHANGED <<craft, journal, station>> /\ outcome' = outcome
      BY <1>3, <1>5
    <2>2. outcome' \in OutcomeType /\ RefusedForCause'
      BY <1>1, <2>1 DEF TelemetryInv, RefusedForCause
    <2> QED BY <1>1, <1>3, <1>4, <2>1, <2>2, SameStation
  <1>6. CASE f.session = station.session /\ Observe(f) = "ACCEPTED"
    <2>1. /\ UNCHANGED <<craft, journal>> /\ station' = Stored(f)
          /\ outcome' = outcome \/ outcome' = ActedOn(f)
      BY <1>3, <1>6
    <2> QED BY <1>1, <1>4, <1>6, <2>1, NewStation
  <1>7. CASE f.session = station.session /\ Observe(f) # "ACCEPTED"
    <2> DEFINE r == Refusal(f)
               refused == outcome.refused \cup {r}
    <2>1. /\ UNCHANGED <<craft, journal, station>>
          /\ outcome' = [outcome EXCEPT !.refused = refused]
      BY <1>3, <1>7
    <2>2. r \in [copy : {0, 1}, ahead : Int, packets : Int]
      <3>1. /\ f.copy \in {0, 1} /\ f.key \in Nat /\ f.sequence \in Nat /\ f.apid \in Apids
            /\ station.last.key \in Nat /\ station.packets[f.apid] \in Nat
        BY <1>1, <1>2 DEF FrameType, StationType
      <3>2. f.key - station.last.key \in Int /\ f.sequence - station.packets[f.apid] \in Int
        BY <3>1
      <3> QED BY <3>1, <3>2 DEF Refusal
    <2>3. refused \in SUBSET [copy : {0, 1}, ahead : Int, packets : Int]
      <3> HIDE DEF r
      <3> QED BY <1>1, <2>2 DEF OutcomeType
    <2>4. \A q \in refused : \/ outcome.overflow \/ q.copy = 1
                             \/ q.ahead >= CountModulus \div 2
                             \/ q.packets >= PacketModulus \div 2
      <3>1. \/ outcome.overflow \/ r.copy = 1 \/ r.ahead >= CountModulus \div 2
            \/ r.packets >= PacketModulus \div 2
        BY <1>1, <1>7, RefusalHasCause
      <3> HIDE DEF r
      <3> QED BY <3>1 DEF TelemetryInv, RefusedForCause
    <2> HIDE DEF refused
    <2>5. outcome' = [acted |-> outcome.acted, once |-> outcome.once, inOrder |-> outcome.inOrder,
                      overflow |-> outcome.overflow, refused |-> refused]
      BY <1>1, <2>1 DEF OutcomeType
    <2>6. outcome' \in OutcomeType
      BY <1>1, <2>3, <2>5 DEF OutcomeType
    <2>7. /\ outcome'.acted = outcome.acted /\ outcome'.once = outcome.once
          /\ outcome'.inOrder = outcome.inOrder /\ outcome'.overflow = outcome.overflow
          /\ outcome'.refused = refused
      BY <2>5
    <2>8. RefusedForCause'
      BY <2>4, <2>7 DEF RefusedForCause
    <2>9. UNCHANGED <<craft, journal, station>>
      BY <2>1
    <2> QED BY <1>1, <1>3, <1>4, <2>6, <2>7, <2>8, <2>9, SameStation
  <1> QED BY <1>5, <1>6, <1>7

-----------------------------------------------------------------------------

LEMMA TelemetryStarts ==
  ASSUME TelemetryInit
  PROVE  TelemetryInv
  <1> DEFINE none == [a \in Apids |-> 0]
  <1>1. /\ craft = [step |-> "down", cursor |-> 0, pending |-> <<>>, ack |-> <<>>, file |-> <<>>,
                    left |-> 0]
        /\ journal = [events |-> 0, keys |-> 0, packets |-> none, boot |-> 0]
        /\ wire = <<>>
        /\ station = [session |-> 0, active |-> 0, last |-> [session |-> 0, key |-> 0],
                      packets |-> none]
        /\ outcome = [acted |-> {}, once |-> TRUE, inOrder |-> TRUE, refused |-> {},
                      overflow |-> FALSE]
    BY DEF TelemetryInit, StoppedCraft, Apids
  <1>2. none \in [Apids -> Nat] /\ \A a \in Apids : none[a] = 0
    OBVIOUS
  <1> HIDE DEF none
  <1>3. <<>> \in Seq(FrameType) /\ Len(<<>>) = 0 /\ Of(<<>>) = {} /\ Ordered(<<>>)
    BY DEF Of, Ordered
  <1>4. craft \in CraftType /\ journal \in JournalType /\ wire \in Seq(FrameType)
    BY <1>1, <1>2, <1>3 DEF CraftType, JournalType
  <1>5. station \in StationType
    BY <1>1, <1>2 DEF StationType
  <1>6. outcome \in OutcomeType
    BY <1>1 DEF OutcomeType
  <1>7. CraftFrames(craft) = {} /\ Of(craft.file) = {}
    BY <1>1, <1>3 DEF CraftFrames
  <1>8. QueuesInv(craft, journal)
    <2>1. Len(craft.pending) <= PendingCapacity /\ Len(craft.file) <= 1
      BY <1>1, <1>3, Capacity
    <2> QED BY <1>1, <1>3, <1>4, <1>7, <2>1 DEF QueuesInv
  <1>9. WireInv
    BY <1>1, <1>3 DEF WireInv
  <1>10. StationInv
    <2>1. \A a \in Apids : station.packets[a] <= journal.packets[a]
      BY <1>1, <1>2
    <2> QED BY <1>1, <2>1 DEF StationInv
  <1>11. ActedInv /\ OrderInv /\ RefusedForCause
    BY <1>1, <1>3, <1>7 DEF ActedInv, OrderInv, RefusedForCause
  <1> QED BY <1>4, <1>5, <1>6, <1>8, <1>9, <1>10, <1>11 DEF TelemetryInv

LEMMA TelemetryStutters ==
  ASSUME TelemetryInv, UNCHANGED telemetryVars
  PROVE  TelemetryInv'
  BY DEF telemetryVars, TelemetryInv, QueuesInv, CraftFrames, WireInv, StationInv, ActedInv, Repeated,
         IsLast, OrderInv, After, Follows, RefusedForCause

\* The telemetry path keeps its invariant: the wire and the queues hold frames
\* with counters of their own, and what the ground acted upon is gone from them.
THEOREM TelemetryInvariant == TelemetrySpec => []TelemetryInv
  <1>1. TelemetryInit => TelemetryInv
    BY TelemetryStarts
  <1>2. TelemetryInv /\ [TelemetryNext]_telemetryVars => TelemetryInv'
    <2> SUFFICES ASSUME TelemetryInv, [TelemetryNext]_telemetryVars PROVE TelemetryInv'
      OBVIOUS
    <2>1. CASE JournalEvent
      BY <2>1, JournalEventKeeps
    <2>2. CASE CraftStart
      BY <2>2, CraftStartKeeps
    <2>3. CASE CraftStop
      BY <2>3, CraftStopKeeps
    <2>4. CASE \E command \in {"none", "other", "catalog", "downlink"} : PumpReceive(command)
      BY <2>4, PumpReceiveKeeps
    <2>5. CASE \E due \in BOOLEAN : PumpStatus(due)
      BY <2>5, PumpStatusKeeps
    <2>6. CASE PumpMove
      BY <2>6, PumpMoveKeeps
    <2>7. CASE \E sent \in BOOLEAN : PumpSend(sent)
      BY <2>7, PumpSendKeeps
    <2>8. CASE PumpEnd
      BY <2>8, PumpEndKeeps
    <2>9. CASE LoseFrame
      BY <2>9, LoseFrameKeeps
    <2>10. CASE StationBind
      BY <2>10, StationBindKeeps
    <2>11. CASE \E again, stops \in BOOLEAN : StationReceive(again, stops)
      BY <2>11, StationReceiveKeeps
    <2>12. CASE UNCHANGED telemetryVars
      BY <2>12, TelemetryStutters
    <2> QED BY <2>1, <2>2, <2>3, <2>4, <2>5, <2>6, <2>7, <2>8, <2>9, <2>10, <2>11, <2>12
          DEF TelemetryNext
  <1> QED BY <1>1, <1>2, PTL DEF TelemetrySpec

\* For every capacity, modulus and file size: TmIngestService.ingest and its ledger
\* act on a frame at most once and, while the pending queue has not overflowed,
\* in the order in which allocate_tm_frame_counters counted the frames.
THEOREM FramesActedOnceInOrder == TelemetrySpec => []ActedOnceInOrder
  <1>1. TelemetryInv => ActedOnceInOrder
    BY DEF TelemetryInv, ActedInv, OrderInv, ActedOnceInOrder
  <1> QED BY <1>1, TelemetryInvariant, PTL

\* For every modulus: TmCounterLedger.observe refuses a frame only if it is a
\* second copy or half a modulus ahead, or after an overflow at the satellite.
THEOREM RefusalsHaveCause == TelemetrySpec => []RefusedForCause
  <1>1. TelemetryInv => RefusedForCause
    BY DEF TelemetryInv
  <1> QED BY <1>1, TelemetryInvariant, PTL
=============================================================================
