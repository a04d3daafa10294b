--------------------------- MODULE LinkSessionProofs ---------------------------
(***************************************************************************)
(* Theorems about LinkSession, for every bound on crashes, sessions, frames *)
(* and datagrams under way: the identifiers the link hands out are fresh    *)
(* through its crashes, and no frame crosses from one boot of the satellite *)
(* into another.                                                           *)
(***************************************************************************)
EXTENDS LinkSession, TLAPS

(***************************************************************************)
(* Types.                                                                  *)
(***************************************************************************)
Bindings == [session : Nat, generation : Nat, boot : Nat]
Allocators == [session : Nat, frame : Nat, generation : Nat]

Hellos == [to : {"link"}, kind : {"HELLO"}, role : {"gds", "satellite"}, boot : Nat]
SessionMessages == [to : {"gds", "sat"}, kind : {"SESSION"}, binding : Bindings]
Frames == [to : {"link"}, kind : {"FRAME"}, role : {"gds", "satellite"}, session : Nat,
           origin : Nat]
Egresses == [to : {"gds", "sat"}, kind : {"EGRESS"}, session : Nat, boot : Nat,
             frame : Nat, origin : Nat]
Datagrams == Hellos \cup SessionMessages \cup Frames \cup Egresses

SessionTasks == [step : {"idle", "save", "publish"}]
FrameTasks == [step : {"save_frame", "deliver"}, frame : Frames, id : Nat]
Links == [up : BOOLEAN, hellos : [gds : BOOLEAN, satellite : Nat], active : Bindings,
          task : SessionTasks \cup FrameTasks]

TypeOK ==
    /\ net \subseteq Datagrams
    /\ link \in Links
    /\ alloc \in Allocators
    /\ disk \in Allocators
    /\ sat \in [state : {"down", "starting", "ready"}, boot : Nat, binding : Bindings]
    /\ gds \in [state : {"starting", "ready"}, binding : Bindings]

(***************************************************************************)
(* The inductive invariant.                                                *)
(***************************************************************************)
Within(a, b) == a.session <= b.session /\ a.frame <= b.frame /\ a.generation <= b.generation

\* What is not on the disk yet is being saved; a stopped link has no session.
CheckpointOK ==
    /\ link.up => Within(disk, alloc)
    /\ link.up /\ link.task.step # "save" =>
           disk.session = alloc.session /\ disk.generation = alloc.generation
    /\ link.up /\ link.task.step # "save_frame" => disk.frame = alloc.frame
    /\ ~link.up => link.active = NoBinding /\ link.task = NoTask
    /\ link.task.step \in {"save", "publish"} => link.active # NoBinding

\* The bindings that are visible, and the one the link holds.
Known == Visible \cup (IF link.active = NoBinding THEN {} ELSE {link.active})

\* A generation names one session and one boot, a later one a later session.
Ordered(bs) ==
    \A a, b \in bs :
        /\ a.generation = b.generation => a = b
        /\ a.generation < b.generation => a.session < b.session

BindingsOK ==
    /\ Ordered(Known)
    /\ \A b \in Known : b.boot > 0
    /\ \A b \in Visible : b.session < disk.session /\ b.generation <= disk.generation
    /\ link.active # NoBinding =>
           link.active.session < alloc.session /\ link.active.generation <= alloc.generation

\* The boot that a binding of the frame's session is for is the one the frame
\* belongs to, unless its sender had taken over another boot's binding.
Belongs(f, boot) == boot = f.origin \/ (f.role = "satellite" /\ f.origin \in adopted)

FramesOK ==
    /\ \A f \in net : f.kind = "FRAME" =>
           /\ f.session < disk.session
           /\ \A b \in Known : b.session = f.session => Belongs(f, b.boot)
    /\ \A f \in net : f.kind = "EGRESS" =>
           /\ f.frame < disk.frame
           /\ f.boot = f.origin \/ (f.to = "gds" /\ f.origin \in adopted)
    /\ link.task.step \in {"save_frame", "deliver"} =>
           /\ link.active # NoBinding
           /\ Belongs(link.task.frame, link.active.boot)
           /\ link.task.id < alloc.frame

SatelliteOK ==
    /\ sat.state # "down" => sat.boot > 0
    /\ sat.state = "ready" => sat.binding.boot = sat.boot \/ sat.boot \in adopted

IndInv ==
    /\ TypeOK
    /\ CheckpointOK
    /\ BindingsOK
    /\ FramesOK
    /\ SatelliteOK
    /\ FramesStayInTheirBoot

(***************************************************************************)
(* What the steps have in common.                                          *)
(***************************************************************************)
\* A buffer that is full drops a datagram, it never makes one up.
LEMMA SendAllSubset ==
    ASSUME NEW ds
    PROVE  net \subseteq SendAll(ds) /\ SendAll(ds) \subseteq net \cup ds
BY DEF SendAll

\* A binding is visible in a message, at the satellite or at the ground.
LEMMA VisibleIs ==
    \A b : b \in Visible <=>
        \/ \E d \in net : d.kind = "SESSION" /\ b = d.binding
        \/ sat.state = "ready" /\ b = sat.binding
        \/ gds.state = "ready" /\ b = gds.binding
BY DEF Visible

\* The same after a step.
LEMMA VisibleIsThen ==
    \A b : b \in Visible' <=>
        \/ \E d \in net' : d.kind = "SESSION" /\ b = d.binding
        \/ sat'.state = "ready" /\ b = sat'.binding
        \/ gds'.state = "ready" /\ b = gds'.binding
BY DEF Visible

\* Known bindings are well formed.
LEMMA KnownType ==
    ASSUME TypeOK
    PROVE  Known \subseteq Bindings
<1>1. \A d \in net : d.kind = "SESSION" => d.binding \in Bindings
  BY DEF TypeOK, Datagrams, Hellos, SessionMessages, Frames, Egresses
<1>2. QED
  BY <1>1, VisibleIs DEF TypeOK, Known, Links

\* Two known bindings of one session are the same binding.
LEMMA OneBindingPerSession ==
    ASSUME IndInv, NEW a \in Known, NEW b \in Known, a.session = b.session
    PROVE  a = b
<1>1. a \in Bindings /\ b \in Bindings
  BY KnownType DEF IndInv
<1>2. a.generation = b.generation
  BY <1>1 DEF IndInv, BindingsOK, Ordered, Bindings
<1>3. QED
  BY <1>2 DEF IndInv, BindingsOK, Ordered

\* A frame that is new agrees with every known binding.
NewFrameOK(f) ==
    /\ f.session < disk.session
    /\ \A b \in Known : b.session = f.session => Belongs(f, b.boot)

\* A step of an endpoint, or a loss: it may put a frame on the link that agrees
\* with the bindings, and shows no binding that was not visible.
LEMMA EndpointStep ==
    ASSUME IndInv, UNCHANGED <<link, alloc, disk>>, Visible' \subseteq Visible,
           adopted \subseteq adopted',
           \A d \in net' \ net :
               /\ d.kind # "EGRESS"
               /\ d.kind = "FRAME" => NewFrameOK(d)
    PROVE  CheckpointOK' /\ BindingsOK' /\ FramesOK'
<1>1. Known' \subseteq Known
  BY DEF Known
<1>2. CheckpointOK'
  BY DEF IndInv, CheckpointOK, Within
<1>3. BindingsOK'
  BY <1>1 DEF IndInv, BindingsOK, Ordered
<1>4. \A f, boot : Belongs(f, boot) => Belongs(f, boot)'
  BY DEF Belongs
<1>5. ASSUME NEW f \in net', f.kind = "FRAME"
      PROVE  /\ f.session < disk'.session
             /\ \A b \in Known' : b.session = f.session => Belongs(f, b.boot)'
  <2>1. NewFrameOK(f)
    BY <1>5 DEF IndInv, FramesOK, NewFrameOK
  <2>2. QED
    BY <1>1, <1>4, <2>1 DEF NewFrameOK
<1>6. ASSUME NEW f \in net', f.kind = "EGRESS"
      PROVE  /\ f.frame < disk'.frame
             /\ f.boot = f.origin \/ (f.to = "gds" /\ f.origin \in adopted')
  BY <1>6 DEF IndInv, FramesOK
<1>7. link'.task.step \in {"save_frame", "deliver"} =>
          /\ link'.active # NoBinding
          /\ Belongs(link.task.frame, link.active.boot)'
          /\ link'.task.id < alloc'.frame
  BY <1>4 DEF IndInv, FramesOK
<1>8. FramesOK'
  BY <1>5, <1>6, <1>7 DEF FramesOK
<1>9. QED
  BY <1>2, <1>3, <1>8

\* What has crossed stays excused.
LEMMA NothingCrosses ==
    ASSUME IndInv, crossed' = crossed, adopted \subseteq adopted'
    PROVE  FramesStayInTheirBoot'
BY DEF IndInv, FramesStayInTheirBoot

(***************************************************************************)
(* The endpoints.                                                          *)
(***************************************************************************)
\* A start takes the next boot, and no binding.
LEMMA SatStartInv ==
    ASSUME IndInv, SatStart
    PROVE  IndInv'
<1>1. TypeOK'
  BY DEF IndInv, TypeOK, SatStart, Bindings
<1>2. Visible' \subseteq Visible
  BY VisibleIs, VisibleIsThen DEF SatStart
<1>3. CheckpointOK' /\ BindingsOK' /\ FramesOK'
  BY <1>2, EndpointStep DEF SatStart, linkHistory
<1>4. SatelliteOK'
  BY DEF IndInv, TypeOK, SatStart, SatelliteOK
<1>5. QED
  BY <1>1, <1>3, <1>4, NothingCrosses DEF IndInv, SatStart, linkHistory

\* A satellite that stops shows no binding.
LEMMA SatStopInv ==
    ASSUME IndInv, SatStop
    PROVE  IndInv'
<1>1. TypeOK'
  BY DEF IndInv, TypeOK, SatStop
<1>2. sat'.state = "down"
  BY DEF IndInv, TypeOK, SatStop
<1>3. Visible' \subseteq Visible
  BY <1>2, VisibleIs, VisibleIsThen DEF SatStop
<1>4. CheckpointOK' /\ BindingsOK' /\ FramesOK'
  BY <1>3, EndpointStep DEF SatStop, linkHistory
<1>5. SatelliteOK'
  BY <1>2 DEF SatelliteOK
<1>6. QED
  BY <1>1, <1>4, <1>5, NothingCrosses DEF IndInv, SatStop, linkHistory

\* A greeting carries no binding and no frame.
LEMMA HelloInv ==
    ASSUME IndInv, SatHello \/ GdsHello
    PROVE  IndInv'
<1> DEFINE h == IF SatHello THEN Hello("satellite", sat.binding.boot) ELSE Hello("gds", 0)
<1>1. /\ net' = SendAll({h})
      /\ UNCHANGED <<link, alloc, disk, sat, gds, crossed, adopted>>
  BY DEF SatHello, GdsHello, linkHistory
<1>2. h \in Hellos
  BY DEF IndInv, TypeOK, Bindings, Hello, Hellos
<1>3. net' \subseteq net \cup {h}
  BY <1>1, SendAllSubset
<1>4. TypeOK'
  BY <1>1, <1>2, <1>3 DEF IndInv, TypeOK, Datagrams
<1>5. h.kind = "HELLO"
  BY <1>2 DEF Hellos
<1>6. Visible' \subseteq Visible
  BY <1>1, <1>3, <1>5, VisibleIs, VisibleIsThen
<1>7. CheckpointOK' /\ BindingsOK' /\ FramesOK'
  BY <1>1, <1>3, <1>5, <1>6, EndpointStep
<1>8. SatelliteOK'
  BY <1>1 DEF IndInv, SatelliteOK
<1>9. QED
  BY <1>1, <1>4, <1>7, <1>8, NothingCrosses DEF IndInv

\* A message of the session layer has a binding.
LEMMA SessionType ==
    ASSUME TypeOK, NEW d \in net, d.kind = "SESSION"
    PROVE  d.binding \in Bindings
BY DEF TypeOK, Datagrams, Hellos, SessionMessages, Frames, Egresses

\* The satellite takes over a binding that was under way; one of another boot
\* is remembered.
LEMMA SatBindInv ==
    ASSUME IndInv, NEW d, SatBind(d)
    PROVE  IndInv'
<1>1. d \in net /\ d.kind = "SESSION" /\ net' = net \ {d} /\ sat.state # "down"
  BY DEF SatBind
<1>2. d.binding \in Bindings
  BY <1>1, SessionType DEF IndInv
<1>3. \/ sat' = [sat EXCEPT !.state = "ready", !.binding = d.binding]
      \/ sat' = [sat EXCEPT !.state = "down"]
  BY DEF SatBind
<1>4. /\ sat'.boot = sat.boot
      /\ sat'.state = "down" \/ (sat'.state = "ready" /\ sat'.binding = d.binding)
      /\ TypeOK'
  BY <1>1, <1>2, <1>3 DEF IndInv, TypeOK, SatBind
<1>5. /\ adopted \subseteq adopted'
      /\ d.binding.boot = sat.boot \/ sat.boot \in adopted'
  BY DEF SatBind
<1>6. Visible' \subseteq Visible
  BY <1>1, <1>4, VisibleIs, VisibleIsThen DEF SatBind
<1>7. CheckpointOK' /\ BindingsOK' /\ FramesOK'
  BY <1>1, <1>5, <1>6, EndpointStep DEF SatBind
<1>8. SatelliteOK'
  BY <1>1, <1>4, <1>5 DEF IndInv, SatelliteOK
<1>9. QED
  BY <1>4, <1>5, <1>7, <1>8, NothingCrosses DEF IndInv, SatBind

\* The ground takes over a binding that was under way, or keeps its own.
LEMMA GdsBindInv ==
    ASSUME IndInv, NEW d, GdsBind(d)
    PROVE  IndInv'
<1>1. d \in net /\ d.kind = "SESSION" /\ net' = net \ {d}
  BY DEF GdsBind
<1>2. d.binding \in Bindings
  BY <1>1, SessionType DEF IndInv
<1>3. gds' = [state |-> "ready", binding |-> d.binding] \/ gds' = gds
  BY DEF GdsBind
<1>4. TypeOK'
  BY <1>1, <1>2, <1>3 DEF IndInv, TypeOK, GdsBind, linkHistory
<1>5. Visible' \subseteq Visible
  BY <1>1, <1>3, VisibleIs, VisibleIsThen DEF GdsBind
<1>6. CheckpointOK' /\ BindingsOK' /\ FramesOK'
  BY <1>1, <1>5, EndpointStep DEF GdsBind, linkHistory
<1>7. SatelliteOK'
  BY DEF IndInv, SatelliteOK, GdsBind, linkHistory
<1>8. QED
  BY <1>4, <1>6, <1>7, NothingCrosses DEF IndInv, GdsBind, linkHistory

\* A loss.
LEMMA LoseInv ==
    ASSUME IndInv, NEW d, Lose(d)
    PROVE  IndInv'
<1>1. net' = net \ {d} /\ UNCHANGED <<link, alloc, disk, sat, gds, crossed, adopted>>
  BY DEF Lose, linkHistory
<1>2. TypeOK'
  BY <1>1 DEF IndInv, TypeOK
<1>3. Visible' \subseteq Visible
  BY <1>1, VisibleIs, VisibleIsThen
<1>4. CheckpointOK' /\ BindingsOK' /\ FramesOK'
  BY <1>1, <1>3, EndpointStep
<1>5. SatelliteOK'
  BY <1>1 DEF IndInv, SatelliteOK
<1>6. QED
  BY <1>1, <1>2, <1>4, <1>5, NothingCrosses DEF IndInv

\* A binding that is visible belongs to a boot.
LEMMA VisibleKnown ==
    ASSUME IndInv
    PROVE  \A b \in Visible : b \in Known /\ b \in Bindings /\ b.boot > 0
               /\ b.session < disk.session
BY KnownType DEF IndInv, BindingsOK, Known

\* What the satellite accepts is meant for its boot, or for the binding it has
\* taken over; it accepts nothing before it is ready.
LEMMA SatReceiveInv ==
    ASSUME IndInv, NEW f, SatReceive(f)
    PROVE  IndInv'
<1>1. /\ f \in net /\ f.to = "sat" /\ f.kind = "EGRESS" /\ net' = net \ {f}
      /\ UNCHANGED <<link, alloc, disk, gds, adopted>>
  BY DEF SatReceive
<1>2. sat' = sat \/ sat' = [sat EXCEPT !.state = "down"]
  BY DEF SatReceive
<1>3. TypeOK'
  BY <1>1, <1>2 DEF IndInv, TypeOK
<1>4. sat' = sat \/ sat'.state = "down"
  BY <1>2 DEF IndInv, TypeOK
<1>5. Visible' \subseteq Visible
  BY <1>1, <1>4, VisibleIs, VisibleIsThen
<1>6. CheckpointOK' /\ BindingsOK' /\ FramesOK'
  BY <1>1, <1>5, EndpointStep
<1>7. SatelliteOK'
  BY <1>1, <1>4 DEF IndInv, SatelliteOK
<1>8. FramesStayInTheirBoot'
  <2>1. CASE crossed' = crossed
    BY <1>1, <2>1, NothingCrosses
  <2>2. CASE EgressMatches(sat, f) /\ sat.state = "ready"
    <3>1. sat.binding.boot > 0
      BY <2>2, VisibleIs, VisibleKnown
    <3>2. f.boot = sat.binding.boot
      BY <2>2, <3>1 DEF EgressMatches
    <3>3. f.boot = f.origin
      BY <1>1 DEF IndInv, FramesOK
    <3>4. sat.boot = f.origin \/ sat.boot \in adopted
      BY <2>2, <3>2, <3>3 DEF IndInv, SatelliteOK
    <3>5. crossed' = Crossed(sat.boot, f)
      BY <2>2 DEF SatReceive
    <3>6. QED
      BY <1>1, <3>4, <3>5 DEF IndInv, FramesStayInTheirBoot, Crossed
  <2>3. QED
    BY <2>1, <2>2 DEF IndInv, TypeOK, SatReceive
<1>9. QED
  BY <1>3, <1>6, <1>7, <1>8 DEF IndInv

\* What the ground accepts comes from the boot it is bound to, or from one that
\* had taken over another boot's binding.
LEMMA GdsReceiveInv ==
    ASSUME IndInv, NEW f, GdsReceive(f)
    PROVE  IndInv'
<1>1. /\ f \in net /\ f.to = "gds" /\ f.kind = "EGRESS" /\ net' = net \ {f}
      /\ UNCHANGED <<link, alloc, disk, sat, gds, adopted>>
      /\ gds.state = "ready"
  BY DEF GdsReceive
<1>2. TypeOK'
  BY <1>1 DEF IndInv, TypeOK
<1>3. Visible' \subseteq Visible
  BY <1>1, VisibleIs, VisibleIsThen
<1>4. CheckpointOK' /\ BindingsOK' /\ FramesOK'
  BY <1>1, <1>3, EndpointStep
<1>5. SatelliteOK'
  BY <1>1 DEF IndInv, SatelliteOK
<1>6. FramesStayInTheirBoot'
  <2>1. CASE ~EgressMatches(gds, f)
    BY <1>1, <2>1, NothingCrosses DEF GdsReceive
  <2>2. CASE EgressMatches(gds, f)
    <3>1. gds.binding.boot > 0
      BY <1>1, VisibleIs, VisibleKnown
    <3>2. f.boot = gds.binding.boot
      BY <2>2, <3>1 DEF EgressMatches
    <3>3. gds.binding.boot = f.origin \/ f.origin \in adopted
      BY <1>1, <3>2 DEF IndInv, FramesOK
    <3>4. crossed' = Crossed(gds.binding.boot, f)
      BY <2>2 DEF GdsReceive
    <3>5. QED
      BY <1>1, <3>3, <3>4 DEF IndInv, FramesStayInTheirBoot, Crossed
  <2>3. QED
    BY <2>1, <2>2
<1>7. QED
  BY <1>2, <1>4, <1>5, <1>6 DEF IndInv

\* An endpoint sends under the binding it has: the only binding of its session
\* that anybody knows.
LEMMA SendInv ==
    ASSUME IndInv, SatSend \/ GdsSend
    PROVE  IndInv'
<1> DEFINE e == IF SatSend THEN sat ELSE gds
           f == IF SatSend THEN Ingress("satellite", sat.binding, sat.boot)
                ELSE Ingress("gds", gds.binding, gds.binding.boot)
<1>1. /\ net' = SendAll({f})
      /\ e.state = "ready"
      /\ UNCHANGED <<link, alloc, disk, sat, gds, crossed, adopted>>
  BY DEF SatSend, GdsSend, linkHistory
<1>2. e.binding \in Visible
  BY <1>1, VisibleIs
<1>3. f \in Frames /\ f.session = e.binding.session
  BY <1>2, VisibleKnown DEF IndInv, TypeOK, Ingress, Frames, Bindings
<1>4. Belongs(f, e.binding.boot)
  BY <1>1 DEF IndInv, SatelliteOK, Belongs, Ingress
<1>5. NewFrameOK(f)
  BY <1>2, <1>3, <1>4, VisibleKnown, OneBindingPerSession DEF NewFrameOK
<1>6. net' \subseteq net \cup {f}
  BY <1>1, SendAllSubset
<1>7. TypeOK'
  BY <1>1, <1>3, <1>6 DEF IndInv, TypeOK, Datagrams
<1>8. f.kind = "FRAME"
  BY <1>3 DEF Frames
<1>9. Visible' \subseteq Visible
  BY <1>1, <1>6, <1>8, VisibleIs, VisibleIsThen
<1>10. CheckpointOK' /\ BindingsOK' /\ FramesOK'
  BY <1>1, <1>5, <1>6, <1>8, <1>9, EndpointStep
<1>11. SatelliteOK'
  BY <1>1 DEF IndInv, SatelliteOK
<1>12. QED
  BY <1>1, <1>7, <1>10, <1>11, NothingCrosses DEF IndInv

(***************************************************************************)
(* The link.                                                               *)
(***************************************************************************)
\* A greeting of either endpoint.
LEMMA HelloType ==
    ASSUME TypeOK, NEW d \in net, d.kind = "HELLO"
    PROVE  d.boot \in Nat
BY DEF TypeOK, Datagrams, Hellos, SessionMessages, Frames, Egresses

\* A waiting link has everything on disk.
LEMMA WaitingIsSaved ==
    ASSUME IndInv, LinkWaits
    PROVE  /\ link.up /\ link.task = NoTask /\ link.task.step = "idle"
           /\ disk.session = alloc.session
           /\ disk.generation = alloc.generation
           /\ disk.frame = alloc.frame
BY DEF IndInv, CheckpointOK, LinkWaits, NoTask

\* A session that is opened is later than every binding that is known, and so
\* than every frame under way.
LEMMA NewSessionInv ==
    ASSUME IndInv, LinkWaits, NEW boot \in Nat \ {0}, NEW hellos,
           Visible' \subseteq Visible, net' \subseteq net,
           link' = [link EXCEPT !.hellos = hellos, !.active = NewSession(boot),
                                !.task = [step |-> "save"]],
           alloc' = NextAllocators, TypeOK', UNCHANGED <<disk, adopted>>
    PROVE  CheckpointOK' /\ BindingsOK' /\ FramesOK'
<1> DEFINE b == NewSession(boot)
<1>1. /\ alloc \in Allocators /\ disk \in Allocators /\ link \in Links
      /\ b = [session |-> alloc.session, generation |-> alloc.generation + 1, boot |-> boot]
  BY DEF IndInv, TypeOK, NewSession
<1>2. /\ alloc'.session = alloc.session + 1 /\ alloc'.generation = alloc.generation + 1
      /\ alloc'.frame = alloc.frame
  BY <1>1 DEF NextAllocators, Allocators
<1>3. link'.up = link.up /\ link'.active = b /\ link'.task.step = "save"
  BY <1>1 DEF Links
<1>4. CheckpointOK'
  <2>1. b # NoBinding
    BY <1>1 DEF NoBinding
  <2>2. QED
    BY <1>1, <1>2, <1>3, <2>1, WaitingIsSaved DEF CheckpointOK, Within, Allocators
<1>5. \A a \in Visible : a \in Bindings /\ a.session < b.session /\ a.generation < b.generation
  BY <1>1, WaitingIsSaved, VisibleKnown DEF IndInv, BindingsOK, Bindings, Allocators
<1>6. Known' \subseteq Visible \cup {b}
  BY <1>3 DEF Known
<1>7. BindingsOK'
  <2>1. Ordered(Visible \cup {b})
    <3>1. Ordered(Visible)
      BY DEF IndInv, BindingsOK, Known, Ordered
    <3>2. b.session \in Nat /\ b.generation \in Nat
      BY <1>1 DEF Allocators
    <3>3. QED
      BY <1>5, <3>1, <3>2 DEF Ordered, Bindings
  <2>2. Ordered(Known')
    BY <1>6, <2>1 DEF Ordered
  <2>3. \A a \in Known' : a.boot > 0
    BY <1>1, <1>6, VisibleKnown
  <2>4. \A a \in Visible' : a.session < disk'.session /\ a.generation <= disk'.generation
    BY DEF IndInv, BindingsOK
  <2>5. link'.active.session < alloc'.session /\ link'.active.generation <= alloc'.generation
    BY <1>1, <1>2, <1>3 DEF Allocators
  <2>6. QED
    BY <2>2, <2>3, <2>4, <2>5 DEF BindingsOK
<1>8. ASSUME NEW f \in net', f.kind = "FRAME"
      PROVE  /\ f.session < disk'.session
             /\ \A a \in Known' : a.session = f.session => Belongs(f, a.boot)'
  <2>1. f \in Frames
    BY <1>8 DEF IndInv, TypeOK, Datagrams, Hellos, SessionMessages, Frames, Egresses
  <2>2. f.session < disk.session /\ f.session # b.session
    BY <1>1, <1>8, <2>1, WaitingIsSaved DEF IndInv, FramesOK, Frames, Allocators
  <2>3. \A a \in Visible : a.session = f.session => Belongs(f, a.boot)
    BY <1>8 DEF IndInv, FramesOK, Known
  <2>4. QED
    BY <1>6, <2>2, <2>3 DEF Belongs
<1>9. FramesOK'
  BY <1>3, <1>8 DEF IndInv, FramesOK
<1>10. QED
  BY <1>4, <1>7, <1>9

\* A greeting may open a session.
LEMMA ReceiveHelloInv ==
    ASSUME IndInv, NEW d, ReceiveHello(d)
    PROVE  IndInv'
<1>1. /\ LinkWaits /\ d \in net /\ d.kind = "HELLO" /\ net' = net \ {d}
      /\ UNCHANGED <<disk, sat, gds, crossed, adopted>>
  BY DEF ReceiveHello, linkHistory
<1>2. d.boot \in Nat /\ link \in Links /\ alloc \in Allocators
  BY <1>1, HelloType DEF IndInv, TypeOK
<1> DEFINE hellos == IF d.role = "gds" THEN [link.hellos EXCEPT !.gds = TRUE]
                     ELSE [link.hellos EXCEPT !.satellite = d.boot]
           boot == hellos.satellite
<1>3. hellos \in [gds : BOOLEAN, satellite : Nat] /\ boot \in Nat
  BY <1>2 DEF Links
<1>4. Visible' \subseteq Visible
  BY <1>1, VisibleIs, VisibleIsThen
<1>5. SatelliteOK' /\ FramesStayInTheirBoot'
  BY <1>1, NothingCrosses DEF IndInv, SatelliteOK
<1>6. CASE /\ alloc' = alloc
           /\ \/ link' = [link EXCEPT !.hellos = hellos]
              \/ /\ link' = [link EXCEPT !.hellos = hellos, !.task = [step |-> "publish"]]
                 /\ link.active.boot = boot /\ boot # 0
  <2> HIDE DEF boot, hellos
  <2>1. /\ link'.up = link.up /\ link'.active = link.active
        /\ link'.task = link.task \/ link'.task = [step |-> "publish"]
        /\ link'.task.step \in {"idle", "publish"}
        /\ link'.task.step = "publish" => link.active # NoBinding
        /\ link' \in Links
    <3>1. link.task = [step |-> "idle"]
      BY <1>1 DEF LinkWaits, NoTask
    <3>2. CASE link' = [link EXCEPT !.hellos = hellos]
      BY <1>2, <1>3, <3>1, <3>2 DEF Links
    <3>3. CASE /\ link' = [link EXCEPT !.hellos = hellos, !.task = [step |-> "publish"]]
               /\ link.active.boot = boot /\ boot # 0
      <4>1. link.active # NoBinding
        BY <3>3 DEF NoBinding
      <4>2. link'.task \in SessionTasks
        BY <1>2, <3>3 DEF Links, SessionTasks
      <4>3. QED
        BY <1>2, <1>3, <3>3, <4>1, <4>2 DEF Links
    <3>4. QED
      BY <1>6, <3>2, <3>3
  <2>2. TypeOK'
    BY <1>1, <1>6, <2>1 DEF IndInv, TypeOK
  <2>3. CheckpointOK'
    BY <1>1, <1>6, <2>1, WaitingIsSaved DEF IndInv, CheckpointOK
  <2>4. Known' \subseteq Known
    BY <1>4, <2>1 DEF Known
  <2>5. BindingsOK'
    BY <1>1, <1>4, <1>6, <2>1, <2>4 DEF IndInv, BindingsOK, Ordered
  <2>6. FramesOK'
    BY <1>1, <2>1, <2>4 DEF IndInv, FramesOK, Belongs
  <2>7. QED
    BY <1>5, <2>2, <2>3, <2>5, <2>6 DEF IndInv
<1>7. CASE /\ link' = [link EXCEPT !.hellos = hellos, !.active = NewSession(boot),
                                   !.task = [step |-> "save"]]
           /\ alloc' = NextAllocators
           /\ boot # 0
  <2> HIDE DEF boot, hellos
  <2>1. alloc' \in Allocators /\ NewSession(boot) \in Bindings
    <3>1. alloc.session + 1 \in Nat /\ alloc.generation + 1 \in Nat /\ alloc.session \in Nat
      BY <1>2 DEF Allocators
    <3>2. alloc' \in Allocators
      BY <1>2, <1>7, <3>1 DEF NextAllocators, Allocators
    <3>3. NewSession(boot) \in Bindings
      BY <1>3, <3>1 DEF NewSession, Bindings
    <3>4. QED
      BY <3>2, <3>3
  <2>2. TypeOK'
    <3>1. [step |-> "save"] \in SessionTasks
      BY DEF SessionTasks
    <3>2. link' \in Links
      BY <1>2, <1>3, <1>7, <2>1, <3>1 DEF Links
    <3>3. QED
      BY <1>1, <2>1, <3>2 DEF IndInv, TypeOK
  <2>3. CheckpointOK' /\ BindingsOK' /\ FramesOK'
    BY <1>1, <1>3, <1>4, <1>7, <2>2, NewSessionInv
  <2>4. QED
    BY <1>5, <2>2, <2>3 DEF IndInv
<1>8. QED
  BY <1>6, <1>7 DEF ReceiveHello

\* The checkpoint covers what the link is about to say.
LEMMA SaveCheckpointInv ==
    ASSUME IndInv, SaveCheckpoint
    PROVE  IndInv'
<1>1. /\ disk' = alloc
      /\ UNCHANGED <<net, alloc, sat, gds, crossed, adopted>>
      /\ link.task.step \in {"save", "save_frame"}
      /\ link' = [link EXCEPT !.task.step = IF @ = "save" THEN "publish" ELSE "deliver"]
  BY DEF SaveCheckpoint, SavedCheckpoint, linkHistory
<1>2. link.up /\ Within(disk, alloc)
  BY <1>1 DEF IndInv, CheckpointOK, NoTask
<1>3. link \in Links /\ alloc \in Allocators /\ disk \in Allocators
  BY DEF IndInv, TypeOK
<1>4. /\ link'.up = link.up /\ link'.active = link.active
      /\ \/ /\ link.task.step = "save_frame" /\ link'.task.step = "deliver"
            /\ link'.task.frame = link.task.frame /\ link'.task.id = link.task.id
         \/ link'.task.step = "publish" /\ link.active # NoBinding
      /\ link' \in Links
  <2>1. CASE link.task \in SessionTasks
    <3>1. link.task.step = "save" /\ link'.task = [step |-> "publish"]
      BY <1>1, <1>3, <2>1 DEF Links, SessionTasks
    <3>2. link.active # NoBinding
      BY <1>2, <3>1 DEF IndInv, CheckpointOK
    <3>3. QED
      BY <1>1, <1>3, <3>1, <3>2 DEF Links, SessionTasks
  <2>2. CASE link.task \in FrameTasks
    BY <1>1, <1>3, <2>2 DEF Links, FrameTasks
  <2>3. QED
    BY <1>3, <2>1, <2>2 DEF Links
<1>5. TypeOK'
  BY <1>1, <1>4 DEF IndInv, TypeOK
<1>6. Visible' = Visible /\ Known' = Known
  <2>1. Visible' = Visible
    BY <1>1 DEF Visible
  <2>2. QED
    BY <1>4, <2>1 DEF Known
<1>7. CheckpointOK'
  BY <1>1, <1>2, <1>3, <1>4 DEF CheckpointOK, Within, Allocators
<1>8. BindingsOK'
  <2>1. \A b \in Visible : b.session < alloc.session /\ b.generation <= alloc.generation
    BY <1>2, <1>3, KnownType DEF IndInv, BindingsOK, Within, Allocators, Bindings, Known
  <2>2. QED
    BY <1>1, <1>4, <1>6, <2>1 DEF IndInv, BindingsOK, Ordered
<1>9. FramesOK'
  <2>1. \A f \in net : f.kind = "FRAME" => f.session < alloc.session
    BY <1>2, <1>3 DEF IndInv, TypeOK, Datagrams, Hellos, SessionMessages, Frames, Egresses,
         FramesOK, Within, Allocators
  <2>2. \A f \in net : f.kind = "EGRESS" => f.frame < alloc.frame
    BY <1>2, <1>3 DEF IndInv, TypeOK, Datagrams, Hellos, SessionMessages, Frames, Egresses,
         FramesOK, Within, Allocators
  <2>3. QED
    BY <1>1, <1>4, <1>6, <2>1, <2>2 DEF IndInv, FramesOK, Belongs
<1>10. SatelliteOK' /\ FramesStayInTheirBoot'
  BY <1>1, NothingCrosses DEF IndInv, SatelliteOK
<1>11. QED
  BY <1>5, <1>7, <1>8, <1>9, <1>10 DEF IndInv

\* The binding that is announced is the one the link holds, and it is on disk.
LEMMA PublishBindingInv ==
    ASSUME IndInv, PublishBinding
    PROVE  IndInv'
<1> DEFINE ds == {Session("gds", link.active), Session("sat", link.active)}
<1>1. /\ net' \subseteq net \cup ds
      /\ link' = [link EXCEPT !.task = NoTask]
      /\ UNCHANGED <<alloc, disk, sat, gds, crossed, adopted>>
      /\ link.task.step = "publish"
  BY SendAllSubset DEF PublishBinding, linkHistory
<1>2. link \in Links /\ alloc \in Allocators /\ disk \in Allocators
  BY DEF IndInv, TypeOK
<1>3. /\ link.up /\ link.active # NoBinding /\ link.active \in Bindings
      /\ disk = alloc
  <2>1. link.up
    BY <1>1 DEF IndInv, CheckpointOK, NoTask
  <2>2. QED
    BY <1>1, <1>2, <2>1 DEF IndInv, CheckpointOK, Links, Allocators
<1>4. link'.up = link.up /\ link'.active = link.active /\ link'.task = NoTask /\ link' \in Links
  BY <1>1, <1>2 DEF Links, SessionTasks, NoTask
<1>5. \A d \in ds : d \in SessionMessages /\ d.kind = "SESSION" /\ d.binding = link.active
  BY <1>3 DEF Session, SessionMessages
<1>6. TypeOK'
  BY <1>1, <1>4, <1>5 DEF IndInv, TypeOK, Datagrams
<1>7. Visible' \subseteq Visible \cup {link.active}
  BY <1>1, <1>5, VisibleIs, VisibleIsThen
<1>8. Known' \subseteq Known
  BY <1>3, <1>4, <1>7 DEF Known
<1>9. CheckpointOK'
  BY <1>1, <1>2, <1>3, <1>4 DEF CheckpointOK, Within, Allocators, NoTask
<1>10. BindingsOK'
  BY <1>1, <1>3, <1>4, <1>7, <1>8 DEF IndInv, BindingsOK, Ordered
<1>11. FramesOK'
  BY <1>1, <1>4, <1>5, <1>8 DEF IndInv, FramesOK, Belongs, NoTask
<1>12. SatelliteOK' /\ FramesStayInTheirBoot'
  BY <1>1, NothingCrosses DEF IndInv, SatelliteOK
<1>13. QED
  BY <1>6, <1>9, <1>10, <1>11, <1>12 DEF IndInv

\* A frame that is admitted is one of the link's session, and so of its boot.
LEMMA ReceiveFrameInv ==
    ASSUME IndInv, NEW f, ReceiveFrame(f)
    PROVE  IndInv'
<1>1. /\ LinkWaits /\ f \in net /\ f.kind = "FRAME" /\ net' = net \ {f}
      /\ UNCHANGED <<disk, sat, gds, crossed, adopted>>
  BY DEF ReceiveFrame, linkHistory
<1>2. link \in Links /\ alloc \in Allocators /\ disk \in Allocators /\ f \in Frames
  BY <1>1 DEF IndInv, TypeOK, Datagrams, Hellos, SessionMessages, Frames, Egresses
<1>3. Visible' \subseteq Visible
  BY <1>1, VisibleIs, VisibleIsThen
<1>4. CASE UNCHANGED <<link, alloc>>
  <2>1. TypeOK'
    BY <1>1, <1>4 DEF IndInv, TypeOK
  <2>2. CheckpointOK' /\ BindingsOK' /\ FramesOK'
    BY <1>1, <1>3, <1>4, EndpointStep
  <2>3. SatelliteOK' /\ FramesStayInTheirBoot'
    BY <1>1, NothingCrosses DEF IndInv, SatelliteOK
  <2>4. QED
    BY <2>1, <2>2, <2>3 DEF IndInv
<1>5. CASE /\ Admits(f)
           /\ link' = [link EXCEPT !.task = [step |-> "save_frame", frame |-> f,
                                             id |-> alloc.frame]]
           /\ alloc' = [alloc EXCEPT !.frame = @ + 1]
  <2>1. /\ link'.up = link.up /\ link'.active = link.active
        /\ link'.task.step = "save_frame" /\ link'.task.frame = f
        /\ link'.task.id = alloc.frame
    BY <1>2, <1>5 DEF Links
  <2>2. /\ alloc' \in Allocators
        /\ alloc'.session = alloc.session /\ alloc'.generation = alloc.generation
        /\ alloc'.frame = alloc.frame + 1
    BY <1>2, <1>5 DEF Allocators
  <2>3. link' \in Links
    <3>1. alloc.frame \in Nat
      BY <1>2 DEF Allocators
    <3>2. [step |-> "save_frame", frame |-> f, id |-> alloc.frame] \in FrameTasks
      BY <1>2, <3>1 DEF FrameTasks
    <3>3. QED
      BY <1>2, <1>5, <3>2 DEF Links
  <2>4. TypeOK'
    BY <1>1, <2>2, <2>3 DEF IndInv, TypeOK
  <2>5. Known' \subseteq Known
    BY <1>3, <2>1 DEF Known
  <2>6. CheckpointOK'
    BY <1>1, <1>2, <2>1, <2>2, WaitingIsSaved DEF CheckpointOK, Within, Allocators
  <2>7. BindingsOK'
    BY <1>1, <1>3, <2>1, <2>2, <2>5 DEF IndInv, BindingsOK, Ordered
  <2>8. link.active \in Known /\ link.active # NoBinding /\ f.session = link.active.session
    BY <1>5 DEF Admits, Known
  <2>9. Belongs(f, link.active.boot)
    BY <1>1, <2>8 DEF IndInv, FramesOK
  <2>10. link'.task.id < alloc'.frame
    BY <1>2, <2>1, <2>2 DEF Allocators
  <2>11. FramesOK'
    BY <1>1, <2>1, <2>5, <2>8, <2>9, <2>10 DEF IndInv, FramesOK, Belongs
  <2>12. SatelliteOK' /\ FramesStayInTheirBoot'
    BY <1>1, NothingCrosses DEF IndInv, SatelliteOK
  <2>13. QED
    BY <2>4, <2>6, <2>7, <2>11, <2>12 DEF IndInv
<1>6. QED
  BY <1>4, <1>5 DEF ReceiveFrame

\* What leaves the link carries an id that is on disk and the boot its frame
\* belongs to.
LEMMA DeliverFrameInv ==
    ASSUME IndInv, DeliverFrame
    PROVE  IndInv'
<1> DEFINE e == Egress(link.task.frame, link.active, link.task.id)
<1>1. /\ net' \subseteq net \cup {e}
      /\ link' = [link EXCEPT !.task = NoTask]
      /\ UNCHANGED <<alloc, disk, sat, gds, crossed, adopted>>
      /\ link.task.step = "deliver"
  BY SendAllSubset DEF DeliverFrame, linkHistory
<1>2. link \in Links /\ alloc \in Allocators /\ disk \in Allocators
  BY DEF IndInv, TypeOK
<1>3. link.up /\ disk = alloc
  <2>1. link.up
    BY <1>1 DEF IndInv, CheckpointOK, NoTask
  <2>2. QED
    BY <1>1, <1>2, <2>1 DEF IndInv, CheckpointOK, Links, Allocators
<1>4. /\ link.task.frame \in Frames /\ link.task.id \in Nat
      /\ link.active # NoBinding /\ link.active \in Bindings
      /\ Belongs(link.task.frame, link.active.boot)
      /\ link.task.id < disk.frame
  <2>1. link.task \in FrameTasks
    BY <1>1, <1>2 DEF Links, SessionTasks
  <2>2. QED
    BY <1>1, <1>2, <1>3, <2>1 DEF IndInv, FramesOK, Links, FrameTasks
<1>5. e \in Egresses
  BY <1>4 DEF Egress, Peer, Egresses, Frames, Bindings
<1>6. /\ e.kind = "EGRESS" /\ e.frame < disk.frame
      /\ e.boot = e.origin \/ (e.to = "gds" /\ e.origin \in adopted)
  BY <1>4 DEF Egress, Peer, Belongs
<1>7. link'.up = link.up /\ link'.active = link.active /\ link'.task = NoTask /\ link' \in Links
  BY <1>1, <1>2 DEF Links, SessionTasks, NoTask
<1> HIDE DEF e
<1>8. TypeOK'
  BY <1>1, <1>5, <1>7 DEF IndInv, TypeOK, Datagrams
<1>9. Visible' \subseteq Visible
  BY <1>1, <1>6, VisibleIs, VisibleIsThen
<1>10. Known' \subseteq Known
  BY <1>7, <1>9 DEF Known
<1>11. CheckpointOK'
  BY <1>1, <1>2, <1>3, <1>7 DEF CheckpointOK, Within, Allocators, NoTask
<1>12. BindingsOK'
  BY <1>1, <1>7, <1>9, <1>10 DEF IndInv, BindingsOK, Ordered
<1>13. FramesOK'
  BY <1>1, <1>6, <1>7, <1>10 DEF IndInv, FramesOK, Belongs, NoTask
<1>14. SatelliteOK' /\ FramesStayInTheirBoot'
  BY <1>1, NothingCrosses DEF IndInv, SatelliteOK
<1>15. QED
  BY <1>8, <1>11, <1>12, <1>13, <1>14 DEF IndInv

\* A crash takes the session, a start takes the allocators of the checkpoint:
\* everything that is under way is behind them.
LEMMA LinkCrashStartInv ==
    ASSUME IndInv, LinkCrash \/ LinkStart
    PROVE  IndInv'
<1>1. /\ UNCHANGED <<net, disk, sat, gds, crossed, adopted>>
      /\ link'.active = NoBinding /\ link'.task = NoTask
      /\ link' \in Links
      /\ link'.up => alloc' = disk
      /\ alloc' \in {alloc, disk}
  <2>1. StoppedLink \in Links /\ [StoppedLink EXCEPT !.up = TRUE] \in Links
    BY DEF StoppedLink, Links, NoTask, NoHello, NoBinding, Bindings, SessionTasks
  <2>2. CASE LinkCrash
    BY <2>1, <2>2 DEF LinkCrash, linkHistory, StoppedLink
  <2>3. CASE LinkStart
    BY <2>1, <2>3 DEF LinkStart, linkHistory, StoppedLink
  <2>4. QED
    BY <2>2, <2>3
<1>2. TypeOK'
  BY <1>1 DEF IndInv, TypeOK
<1>3. Visible' = Visible /\ Known' \subseteq Known
  BY <1>1 DEF Visible, Known
<1>4. CheckpointOK'
  BY <1>1, <1>2 DEF CheckpointOK, Within, NoTask, TypeOK, Allocators
<1>5. BindingsOK'
  BY <1>1, <1>3 DEF IndInv, BindingsOK, Ordered
<1>6. FramesOK'
  BY <1>1, <1>3 DEF IndInv, FramesOK, Belongs, NoTask
<1>7. SatelliteOK' /\ FramesStayInTheirBoot'
  BY <1>1, NothingCrosses DEF IndInv, SatelliteOK
<1>8. QED
  BY <1>2, <1>4, <1>5, <1>6, <1>7 DEF IndInv

(***************************************************************************)
(* The specification.                                                      *)
(***************************************************************************)
\* Nothing is under way at first.
LEMMA InitInv == LinkInit => IndInv
<1> SUFFICES ASSUME LinkInit PROVE IndInv
  OBVIOUS
<1>1. /\ net = {} /\ crossed = {} /\ adopted = {}
      /\ link.up = TRUE /\ link.active = NoBinding /\ link.task = NoTask /\ link \in Links
      /\ alloc = disk /\ disk \in Allocators
      /\ sat.state = "down" /\ gds.state = "starting"
  BY DEF LinkInit, StoppedLink, Links, NoTask, NoHello, NoBinding, Bindings, SessionTasks,
     Allocators
<1>2. TypeOK
  BY <1>1 DEF TypeOK, LinkInit, NoBinding, Bindings
<1>3. Visible = {} /\ Known = {}
  <2>1. Visible = {}
    BY <1>1, VisibleIs
  <2>2. QED
    BY <1>1, <2>1 DEF Known
<1>4. CheckpointOK /\ BindingsOK /\ FramesOK /\ SatelliteOK /\ FramesStayInTheirBoot
  BY <1>1, <1>3 DEF CheckpointOK, Within, Allocators, NoTask, BindingsOK, Ordered, FramesOK,
     SatelliteOK, FramesStayInTheirBoot
<1>5. QED
  BY <1>2, <1>4 DEF IndInv

\* A step that changes nothing.
LEMMA StutterInv ==
    ASSUME IndInv, UNCHANGED linkVars
    PROVE  IndInv'
<1>1. UNCHANGED <<net, link, alloc, disk, sat, gds, crossed, adopted>>
  BY DEF linkVars
<1>2. TypeOK'
  BY <1>1 DEF IndInv, TypeOK
<1>3. Visible' \subseteq Visible
  BY <1>1 DEF Visible
<1>4. CheckpointOK' /\ BindingsOK' /\ FramesOK'
  BY <1>1, <1>3, EndpointStep
<1>5. SatelliteOK' /\ FramesStayInTheirBoot'
  BY <1>1, NothingCrosses DEF IndInv, SatelliteOK
<1>6. QED
  BY <1>2, <1>4, <1>5 DEF IndInv

\* Every step keeps the invariant.
LEMMA NextInv == IndInv /\ [LinkNext]_linkVars => IndInv'
<1> SUFFICES ASSUME IndInv, [LinkNext]_linkVars PROVE IndInv'
  OBVIOUS
<1>1. CASE \E d \in net : ReceiveHello(d)
  BY <1>1, ReceiveHelloInv
<1>2. CASE \E d \in net : ReceiveFrame(d)
  BY <1>2, ReceiveFrameInv
<1>3. CASE LinkTask
  BY <1>3, SaveCheckpointInv, PublishBindingInv, DeliverFrameInv DEF LinkTask
<1>4. CASE LinkCrash \/ LinkStart
  BY <1>4, LinkCrashStartInv
<1>5. CASE SatStart \/ SatStop
  BY <1>5, SatStartInv, SatStopInv
<1>6. CASE SatHello \/ GdsHello \/ SatSend \/ GdsSend
  BY <1>6, HelloInv, SendInv
<1>7. CASE \E d \in net : SatBind(d) \/ GdsBind(d)
  BY <1>7, SatBindInv, GdsBindInv
<1>8. CASE \E d \in net : SatReceive(d) \/ GdsReceive(d)
  BY <1>8, SatReceiveInv, GdsReceiveInv
<1>9. CASE \E d \in net : Lose(d)
  BY <1>9, LoseInv
<1>10. CASE UNCHANGED linkVars
  BY <1>10, StutterInv
<1>11. QED
  BY <1>1, <1>2, <1>3, <1>4, <1>5, <1>6, <1>7, <1>8, <1>9, <1>10 DEF LinkNext

\* The inductive invariant holds: what the link has in memory is ahead of the
\* checkpoint only while it is being saved, every frame under way belongs to
\* the boot of its session, and an endpoint that is ready has a binding of
\* its own boot or is remembered for it.
THEOREM LinkInvariant == LinkSpec => []IndInv
BY InitInv, NextInv, PTL DEF LinkSpec

\* For any number of crashes, sessions and frames: a generation names one
\* session of one boot, later generations name later sessions, and whatever
\* is known or under way is behind the checkpoint a crash would fall back to
\* (SessionManager.create_session, _checkpoint_changed).
THEOREM FreshIdentifiers == LinkSpec => []IdentifiersAreFresh
<1>1. IndInv => IdentifiersAreFresh
  BY DEF IndInv, BindingsOK, Ordered, FramesOK, IdentifiersAreFresh, Known
<1>2. QED
  BY <1>1, LinkInvariant, PTL

\* For any number of crashes, sessions and frames: a mission frame is accepted
\* by the boot it was sent to and from the boot it is taken for, unless the
\* satellite itself had taken over another boot's binding (validate_egress).
THEOREM NoFrameCrossesBoots == LinkSpec => []FramesStayInTheirBoot
<1>1. IndInv => FramesStayInTheirBoot
  BY DEF IndInv
<1>2. QED
  BY <1>1, LinkInvariant, PTL
=============================================================================
