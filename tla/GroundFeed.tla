----------------------------- MODULE GroundFeed -----------------------------
(***************************************************************************)
(* From the ground's event table to the operator's screen: the pump thread  *)
(* that appends an event, publishes it and then commits what follows from   *)
(* it (gds/ingest.py, gds/events.py); the hub that takes snapshots and      *)
(* keeps the queue of a websocket (gds/realtime.py, gds/http_app.py); and   *)
(* the page, with its socket, its poll of /api/state every second and its   *)
(* store (gds/web/src: api/realtime.ts, App.tsx, state/store.ts).           *)
(*                                                                         *)
(* Events are their identifiers 1, 2, ...  What follows from event n (the   *)
(* command's state, the job, the product row) is committed as the step      *)
(* after its publication.  A snapshot is the set of events whose            *)
(* consequences it shows, the events it lists and a cursor, and each is a   *)
(* read of its own: the state of a websocket is read under the hub's lock,  *)
(* which keeps publications out but not the database, and its cursor last;  *)
(* /api/state takes the cursor first and never takes the lock.  One page is *)
(* open; its connection may drop and its requests may fail.                 *)
(***************************************************************************)
EXTENDS Integers, Sequences, FiniteSets

CONSTANTS
    MaxClientEvents,  \* events the queue or the replay of a socket may hold
    SnapshotEvents,   \* events a snapshot lists: the oldest ones
    JobEvents,        \* events with consequences in jobs and products only
    MaxFeedEvents,    \* bound: events
    MaxFeedFaults     \* bound: dropped connections and failed requests

ASSUME FeedAssumption ==
    /\ {MaxClientEvents, SnapshotEvents} \subseteq Nat \ {0}
    /\ {MaxFeedEvents, MaxFeedFaults} \subseteq Nat

VARIABLES
    table,     \* events appended, consequences committed, what the pump does
    hub,       \* who holds its lock: "nobody" or the "socket" being connected
    requests,  \* GET /api/state: the page's poll, and its load or resync
    socket,    \* the server's side of the websocket
    inbox,     \* messages on their way to the page
    page,      \* the page: phase, socket, cursor, events seen, resync, store
    feedFaults

feedVars == <<table, hub, requests, socket, inbox, page, feedFaults>>

Slots == {"poll", "fresh"}
NoRequest == [step |-> "none"]
NoSocket == [step |-> "none"]
EmptyStore == [shown |-> {}, listed |-> {}, cursor |-> 0]

FeedInit ==
    /\ table = [events |-> 0, effects |-> 0, step |-> "idle"]
    /\ hub = "nobody"
    /\ requests = [r \in Slots |-> NoRequest]
    /\ socket = NoSocket
    /\ inbox = <<>>
    /\ page = [phase |-> "loading", open |-> FALSE, last |-> 0, recent |-> {},
               resync |-> FALSE, store |-> EmptyStore]
    /\ feedFaults = 0

Fails == feedFaults < MaxFeedFaults /\ feedFaults' = feedFaults + 1

-----------------------------------------------------------------------------
(* The pump thread: EventStore.append, RealtimeHub.publish, the rest.      *)

AppendEvent ==
    /\ table.step = "idle"
    /\ table.events < MaxFeedEvents
    /\ table' = [table EXCEPT !.events = @ + 1, !.step = "publish"]
    /\ UNCHANGED <<hub, requests, socket, inbox, page, feedFaults>>

\* Mutant of Enqueued: what the replay holds is queued again.
EnqueuedAlways(s, e) ==
    IF s.step # "serving" \/ s.terminal THEN s
    ELSE IF Len(s.queue) >= MaxClientEvents THEN [s EXCEPT !.queue = <<>>, !.terminal = TRUE]
    ELSE [s EXCEPT !.queue = Append(@, e)]

\* enqueue: nothing for a closed client, nothing the replay already holds; a
\* full queue is emptied and the client has to resynchronise.
Enqueued(s, e) ==
    IF s.step # "serving" \/ s.terminal \/ e <= s.liveAfter THEN s
    ELSE IF Len(s.queue) >= MaxClientEvents THEN [s EXCEPT !.queue = <<>>, !.terminal = TRUE]
    ELSE [s EXCEPT !.queue = Append(@, e)]

PublishEvent ==
    /\ table.step = "publish"
    /\ hub = "nobody"
    /\ socket' = Enqueued(socket, table.events)
    /\ table' = [table EXCEPT !.step = "effect"]
    /\ UNCHANGED <<hub, requests, inbox, page, feedFaults>>

\* ingest_correlated_tm, update_product_downlink_transfer and _on_tm.
CommitEffects ==
    /\ table.step = "effect"
    /\ table' = [table EXCEPT !.effects = table.events, !.step = "idle"]
    /\ UNCHANGED <<hub, requests, socket, inbox, page, feedFaults>>

-----------------------------------------------------------------------------
(* Snapshots: reads of the database, one after another.                    *)

Listed == 1 .. (IF table.events < SnapshotEvents THEN table.events ELSE SnapshotEvents)

\* A snapshot whose state is still to be read.
Reading(cursor) ==
    [step |-> "commands", cursor |-> cursor, shown |-> {}, listed |-> {}]

Unread == {"commands", "events", "products"}

\* The next read of a snapshot: the commands, the list of events, then jobs and
\* products, which may show consequences of events the other two lack.
NextRead(s) ==
    CASE s.step = "commands" ->
            [s EXCEPT !.step = "events", !.shown = (1 .. table.effects) \ JobEvents]
      [] s.step = "events" -> [s EXCEPT !.step = "products", !.listed = Listed]
      [] s.step = "products" ->
            [s EXCEPT !.step = "read", !.shown = @ \cup ((1 .. table.effects) \cap JobEvents)]

\* The page asks, at most one request of a kind at a time, and the handler reads
\* the cursor.  The poll runs from the moment the page is open.
BeginSnapshot(r) ==
    /\ requests[r] = NoRequest
    /\ r = "fresh" => page.phase = "loading" \/ page.resync
    /\ requests' = [requests EXCEPT ![r] = Reading(table.events)]
    /\ UNCHANGED <<table, hub, socket, inbox, page, feedFaults>>

\* One read of the handler, whatever the hub and the pump are doing; the last
\* one completes the answer.
ReadSnapshot(r) ==
    /\ requests[r].step \in Unread
    /\ requests' = [requests EXCEPT ![r] = NextRead(@)]
    /\ UNCHANGED <<table, hub, socket, inbox, page, feedFaults>>

-----------------------------------------------------------------------------
(* The websocket on the server.                                            *)

\* The page's socket is open; connect takes the lock and begins to read.
BeginConnect ==
    /\ page.open
    /\ socket.step = "none"
    /\ inbox = <<>>
    /\ hub = "nobody"
    /\ hub' = "socket"
    /\ socket' = Reading(0)
    /\ UNCHANGED <<table, requests, inbox, page, feedFaults>>

\* One read of state_provider, the lock held.
ReadConnect ==
    /\ socket.step \in Unread
    /\ socket' = NextRead(socket)
    /\ UNCHANGED <<table, hub, requests, inbox, page, feedFaults>>

\* The cursor and the replay; a replay beyond the client's bound, or a cursor
\* ahead of the table, is refused and the socket closed.
EndConnect ==
    /\ socket.step = "read"
    /\ hub' = "nobody"
    /\ LET asOf == table.events
       IN  IF page.last > asOf \/ asOf - page.last > MaxClientEvents
             THEN /\ inbox' = <<[kind |-> "resync"], [kind |-> "close"]>>
                  /\ socket' = [step |-> "closed"]
             ELSE /\ inbox' = <<[kind |-> "snapshot", shown |-> socket.shown,
                                 listed |-> socket.listed, cursor |-> asOf]>>
                  /\ socket' = [step |-> "serving", liveAfter |-> asOf, queue |-> <<>>,
                                out |-> [i \in 1 .. asOf - page.last |-> page.last + i],
                                terminal |-> FALSE, sent |-> page.last, contiguous |-> TRUE]
    /\ UNCHANGED <<table, requests, page, feedFaults>>

\* One pass of the telemetry coroutine: the events in hand one by one, then the
\* terminal envelope, then what the queue holds.
ServeSocket ==
    /\ socket.step = "serving"
    /\ \/ /\ socket.out # <<>>
          /\ inbox' = Append(inbox, [kind |-> "event", id |-> Head(socket.out)])
          /\ socket' = [socket EXCEPT !.out = Tail(@), !.sent = Head(socket.out),
                            !.contiguous = @ /\ Head(socket.out) = socket.sent + 1]
       \/ /\ socket.out = <<>> /\ socket.terminal
          /\ inbox' = inbox \o <<[kind |-> "resync"], [kind |-> "close"]>>
          /\ socket' = [step |-> "closed"]
       \/ /\ socket.out = <<>> /\ ~socket.terminal /\ socket.queue # <<>>
          /\ socket' = [socket EXCEPT !.out = @ \o socket.queue, !.queue = <<>>]
          /\ UNCHANGED inbox
    /\ UNCHANGED <<table, hub, requests, page, feedFaults>>

-----------------------------------------------------------------------------
(* The page.                                                               *)

\* Mutant of ReplaceSnapshot: a snapshot that is not newer is left out.
ReplaceSnapshotNewer(store, s) ==
    IF s.cursor <= store.cursor THEN store
    ELSE [shown |-> s.shown, listed |-> s.listed, cursor |-> s.cursor]

\* normalizeSnapshot: everything the snapshot has replaces what was there.
ReplaceSnapshot(store, s) ==
    [shown |-> s.shown, listed |-> s.listed, cursor |-> s.cursor]

\* applyEvent: an event the store lists is known; another one is merged in.
ApplyEvent(store, e) ==
    IF e \in store.listed THEN store
    ELSE [shown |-> store.shown \cup {e}, listed |-> store.listed \cup {e},
          cursor |-> IF e > store.cursor THEN e ELSE store.cursor]

\* dispatch: an event seen before is skipped, on whichever connection.
Dispatched(p, e) ==
    IF e \in p.recent THEN p
    ELSE [p EXCEPT !.recent = @ \cup {e}, !.last = IF e > @ THEN e ELSE @,
                   !.store = ApplyEvent(@, e)]

\* receive.
Received(p, m) ==
    CASE m.kind = "resync" -> [p EXCEPT !.resync = TRUE]
      [] m.kind = "snapshot" -> [p EXCEPT !.last = m.cursor, !.store = ReplaceSnapshot(@, m)]
      [] m.kind = "event" -> Dispatched(p, m.id)
      [] m.kind = "close" -> [p EXCEPT !.open = FALSE]

ReceiveMessage ==
    /\ inbox # <<>>
    /\ page' = Received(page, Head(inbox))
    /\ inbox' = Tail(inbox)
    /\ socket' = IF Head(inbox).kind = "close" THEN NoSocket ELSE socket
    /\ UNCHANGED <<table, hub, requests, feedFaults>>

\* The answer to the poll replaces the store, however late it comes.
ReceivePoll ==
    /\ requests["poll"].step = "read"
    /\ page' = [page EXCEPT !.store = ReplaceSnapshot(@, requests["poll"])]
    /\ requests' = [requests EXCEPT !["poll"] = NoRequest]
    /\ UNCHANGED <<table, hub, socket, inbox, feedFaults>>

\* sync: the first snapshot; the catalogue requests follow.
ReceiveFirst ==
    /\ page.phase = "loading"
    /\ requests["fresh"].step = "read"
    /\ page' = [page EXCEPT !.store = ReplaceSnapshot(@, requests["fresh"]), !.phase = "catalog"]
    /\ requests' = [requests EXCEPT !["fresh"] = NoRequest]
    /\ UNCHANGED <<table, hub, socket, inbox, feedFaults>>

\* RealtimeClient.start with the cursor the store has by now.
StartRealtime ==
    /\ page.phase = "catalog"
    /\ page' = [page EXCEPT !.phase = "running", !.last = page.store.cursor]
    /\ UNCHANGED <<table, hub, requests, socket, inbox, feedFaults>>

\* connect, at the start or when the reconnect timer fires; the timer does not
\* wait for a resync in flight.
Connect ==
    /\ page.phase = "running"
    /\ ~page.open
    /\ page' = [page EXCEPT !.open = TRUE]
    /\ UNCHANGED <<table, hub, requests, socket, inbox, feedFaults>>

\* The end of resync: the store and the cursor are the snapshot's, and the
\* socket, if a new one is already open, is closed.
ReceiveResync ==
    /\ page.resync
    /\ requests["fresh"].step = "read"
    /\ hub # "socket"
    /\ page' = [page EXCEPT !.store = ReplaceSnapshot(@, requests["fresh"]),
                            !.last = requests["fresh"].cursor, !.resync = FALSE, !.open = FALSE]
    /\ requests' = [requests EXCEPT !["fresh"] = NoRequest]
    /\ socket' = NoSocket
    /\ inbox' = <<>>
    /\ UNCHANGED <<table, hub, feedFaults>>

\* The connection drops; messages on their way are gone, and the server's
\* coroutine unregisters the client.
DropSocket ==
    /\ page.open
    /\ hub # "socket"
    /\ Fails
    /\ page' = [page EXCEPT !.open = FALSE]
    /\ socket' = NoSocket
    /\ inbox' = <<>>
    /\ UNCHANGED <<table, hub, requests>>

\* A request fails, answered or not.  A failed poll is dropped, a failed resync
\* closes the socket with no cursor; after a failed load the page never opens one.
FailRequest(r) ==
    /\ requests[r] # NoRequest
    /\ hub # "socket"
    /\ Fails
    /\ requests' = [requests EXCEPT ![r] = NoRequest]
    /\ \/ r = "poll" /\ UNCHANGED <<page, socket, inbox>>
       \/ r = "fresh" /\ page.phase = "loading"
          /\ page' = [page EXCEPT !.phase = "demo"] /\ UNCHANGED <<socket, inbox>>
       \/ r = "fresh" /\ page.resync
          /\ page' = [page EXCEPT !.last = 0, !.resync = FALSE, !.open = FALSE]
          /\ socket' = NoSocket /\ inbox' = <<>>
    /\ UNCHANGED <<table, hub>>

FeedNext ==
    \/ AppendEvent \/ PublishEvent \/ CommitEffects
    \/ \E r \in Slots : BeginSnapshot(r) \/ ReadSnapshot(r) \/ FailRequest(r)
    \/ BeginConnect \/ ReadConnect \/ EndConnect \/ ServeSocket
    \/ ReceiveMessage \/ ReceivePoll \/ ReceiveFirst \/ StartRealtime \/ Connect \/ ReceiveResync
    \/ DropSocket

FeedSpec == FeedInit /\ [][FeedNext]_feedVars

-----------------------------------------------------------------------------
\* What the websocket sends after its snapshot is the event after the cursor the
\* page came with, then the next, and so on: whatever was appended, published
\* or waiting for the hub's lock while the client was being connected, nothing
\* is left out between replay and live events and nothing is sent twice.
StreamIsContiguous == socket.step = "serving" => socket.contiguous

\* Once events stop, the page comes to show the consequences of all of them and
\* keeps doing so, whatever order the poll's answers, the socket's snapshots and
\* its events arrived in, and even when the socket was never opened.
ScreenCatchesUp == <>[](page.store.shown = 1 .. table.events)
=============================================================================
