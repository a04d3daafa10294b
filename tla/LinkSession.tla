----------------------------- MODULE LinkSession -----------------------------
(***************************************************************************)
(* The session layer of the UDP link: the handshake of the ground and the  *)
(* satellite with the link simulator (link_sim/transport.py,               *)
(* link_sim/__main__.py), its session manager and the checkpoint of its    *)
(* allocators (link_sim/session_manager.py), and the passage of a mission  *)
(* frame through admission and the fault model (link_sim/link_simulator.py,*)
(* link_sim/fault_model.py).                                               *)
(*                                                                         *)
(* A datagram in flight may be lost or overtaken.  A datagram says which   *)
(* address it goes to, not which process: one meant for a satellite that   *)
(* has stopped reaches the one started after it.  A frame is one per       *)
(* sender frame id, with the boot of the process that sent it as a ghost.  *)
(***************************************************************************)
EXTENDS Naturals, FiniteSets

CONSTANTS
    MaxCrashes,    \* bound: crashes of the link simulator
    MaxSessions,   \* bound: session ids the link may allocate
    MaxFrames,     \* bound: mission frames the two endpoints send
    MaxTrouble,    \* bound: crashes, frames and further starts of the satellite
    MaxInFlight    \* bound: datagrams under way to one address, one kind

ASSUME LinkAssumption ==
    /\ MaxCrashes \in Nat
    /\ MaxTrouble \in Nat
    /\ MaxSessions \in Nat \ {0}
    /\ MaxFrames \in Nat
    /\ MaxInFlight \in Nat \ {0}

VARIABLES
    net,        \* datagrams in flight
    link,       \* the link process: its state, HELLOs, session and task
    alloc,      \* its allocators: next session, next frame, generation
    disk,       \* link_checkpoint.json: the allocators as last saved
    sat,        \* the satellite process and its endpoint
    gds,        \* the ground's endpoint
    crashes,    \* crashes of the link so far
    sent,       \* mission frames sent so far
    \* linkHistory
    crossed,    \* frames accepted by another boot than the one they belong to
    adopted     \* boots of satellites that took a binding of another boot

linkVars == <<net, link, alloc, disk, sat, gds, crashes, sent, crossed, adopted>>
linkHistory == <<crossed, adopted>>

NoBinding == [session |-> 0, generation |-> 0, boot |-> 0]
NoHello == [gds |-> FALSE, satellite |-> 0]
NoTask == [step |-> "idle"]
StoppedLink == [up |-> FALSE, hellos |-> NoHello, active |-> NoBinding, task |-> NoTask]

\* The budget of crashes, frames and restarts.
CalmSoFar == crashes + sent + (IF sat.boot > 1 THEN sat.boot - 1 ELSE 0) < MaxTrouble

\* A datagram joins those under way, unless a buffer on its way is full.
Channel(d) == IF d.kind = "HELLO" THEN <<d.role, d.kind>> ELSE <<d.to, d.kind>>
SendAll(ds) ==
    LET fits(d) == Cardinality({e \in net : Channel(e) = Channel(d)}) < MaxInFlight
    IN  net \cup {d \in ds : fits(d)}

Hello(role, boot) == [to |-> "link", kind |-> "HELLO", role |-> role, boot |-> boot]
Session(to, b) == [to |-> to, kind |-> "SESSION", binding |-> b]

\* send_ingress: a frame carries the session its sender is bound to.
Ingress(role, b, origin) ==
    [to |-> "link", kind |-> "FRAME", role |-> role, session |-> b.session,
     origin |-> origin]

Peer(role) == IF role = "gds" THEN "sat" ELSE "gds"

\* The envelope that _schedule_delivery makes: session and boot of the link's
\* session, and the link frame id it allocated.
Egress(f, s, id) ==
    [to |-> Peer(f.role), kind |-> "EGRESS", session |-> s.session, boot |-> s.boot,
     frame |-> id, origin |-> f.origin]

-----------------------------------------------------------------------------
(* Link simulator: one thread takes one datagram at a time.  A step is the  *)
(* change in memory, the checkpoint, or what is sent.                       *)

LinkWaits == link.up /\ link.task = NoTask

\* SessionManager.create_session, alone or within reset_session: the next
\* session id and the next generation of the spacecraft.
NewSession(boot) ==
    [session |-> alloc.session, generation |-> alloc.generation + 1, boot |-> boot]

\* Mutant of NextAllocators: the generation floor is not raised.
NextAllocatorsNoFloor == [alloc EXCEPT !.session = @ + 1]

NextAllocators == [alloc EXCEPT !.session = @ + 1, !.generation = @ + 1]

\* publish_session_binding: nothing before both HELLOs are there; a session is
\* opened for the first boot and replaced for every other one.
ReceiveHello(d) ==
    /\ LinkWaits
    /\ d \in net
    /\ d.kind = "HELLO"
    /\ net' = net \ {d}
    /\ LET hellos == IF d.role = "gds" THEN [link.hellos EXCEPT !.gds = TRUE]
                     ELSE [link.hellos EXCEPT !.satellite = d.boot]
           boot == hellos.satellite
       IN  IF ~hellos.gds \/ boot = 0
             THEN link' = [link EXCEPT !.hellos = hellos] /\ UNCHANGED alloc
           ELSE IF link.active.boot = boot
             THEN link' = [link EXCEPT !.hellos = hellos, !.task = [step |-> "publish"]]
                  /\ UNCHANGED alloc
           ELSE /\ alloc.session <= MaxSessions
                /\ link' = [link EXCEPT !.hellos = hellos, !.active = NewSession(boot),
                                        !.task = [step |-> "save"]]
                /\ alloc' = NextAllocators
    /\ UNCHANGED <<disk, sat, gds, crashes, sent, linkHistory>>

\* Mutant of SavedCheckpoint: the frame allocator is not written.
SavedCheckpointSessions == [alloc EXCEPT !.frame = disk.frame]

SavedCheckpoint == alloc

\* _checkpoint_changed: the allocators are written before anything is sent.
SaveCheckpoint ==
    /\ link.task.step \in {"save", "save_frame"}
    /\ disk' = SavedCheckpoint
    /\ link' = [link EXCEPT !.task.step = IF @ = "save" THEN "publish" ELSE "deliver"]
    /\ UNCHANGED <<net, alloc, sat, gds, crashes, sent, linkHistory>>

PublishBinding ==
    /\ link.task.step = "publish"
    /\ net' = SendAll({Session("gds", link.active), Session("sat", link.active)})
    /\ link' = [link EXCEPT !.task = NoTask]
    /\ UNCHANGED <<alloc, disk, sat, gds, crashes, sent, linkHistory>>

\* Mutant of Admits: a frame of any session is admitted.
AdmitsAny(f) == link.active # NoBinding

\* _session_for_ingress: the frame's session is the active one.
Admits(f) == link.active # NoBinding /\ f.session = link.active.session

\* The frame is admitted and gets its link frame id, or it is rejected: in a
\* blackout of the contact schedule, or at the session boundary.
ReceiveFrame(f) ==
    /\ LinkWaits
    /\ f \in net
    /\ f.kind = "FRAME"
    /\ net' = net \ {f}
    /\ \/ /\ Admits(f)
          /\ link' = [link EXCEPT !.task = [step |-> "save_frame", frame |-> f, id |-> alloc.frame]]
          /\ alloc' = [alloc EXCEPT !.frame = @ + 1]
       \/ UNCHANGED <<link, alloc>>
    /\ UNCHANGED <<disk, sat, gds, crashes, sent, linkHistory>>

\* apply_faults and run_until_idle: the frame is lost, or its copies, one or
\* two, are released one after the other and sent.  A copy that is corrupted
\* is refused by its receiver's decoder, after the session layer.
DeliverFrame ==
    /\ link.task.step = "deliver"
    /\ \/ net' = SendAll({Egress(link.task.frame, link.active, link.task.id)})
       \/ UNCHANGED net
    /\ link' = [link EXCEPT !.task = NoTask]
    /\ UNCHANGED <<alloc, disk, sat, gds, crashes, sent, linkHistory>>

LinkCrash ==
    /\ link.up
    /\ crashes < MaxCrashes /\ CalmSoFar
    /\ crashes' = crashes + 1
    /\ link' = StoppedLink
    /\ UNCHANGED <<net, alloc, disk, sat, gds, sent, linkHistory>>

\* The service starts with the allocators of the checkpoint and no session.
LinkStart ==
    /\ ~link.up
    /\ link' = [StoppedLink EXCEPT !.up = TRUE]
    /\ alloc' = disk
    /\ UNCHANGED <<net, disk, sat, gds, crashes, sent, linkHistory>>

-----------------------------------------------------------------------------
(* Endpoints.                                                               *)

\* The satellite starts with the next boot id of its journal; its endpoint
\* has the configured session and no generation until the handshake is done.
SatStart ==
    /\ sat.state = "down"
    /\ sat.boot = 0 \/ CalmSoFar
    /\ sat' = [state |-> "starting", boot |-> sat.boot + 1,
               binding |-> [session |-> 1, generation |-> 0, boot |-> sat.boot + 1]]
    /\ UNCHANGED <<net, link, alloc, disk, gds, crashes, sent, linkHistory>>

\* The process stops, or establish_session gives up after its timeout.
SatStop ==
    /\ sat.state # "down"
    /\ sat' = [sat EXCEPT !.state = "down"]
    /\ UNCHANGED <<net, link, alloc, disk, gds, crashes, sent, linkHistory>>

\* _send_hello: the boot id it sends is the one of its binding.
SatHello ==
    /\ sat.state # "down"
    /\ net' = SendAll({Hello("satellite", sat.binding.boot)})
    /\ UNCHANGED <<link, alloc, disk, sat, gds, crashes, sent, linkHistory>>

\* The ground's endpoint says HELLO from its start on.  One that gave up and
\* was started again is in the state it was in before.
GdsHello ==
    /\ net' = SendAll({Hello("gds", 0)})
    /\ UNCHANGED <<link, alloc, disk, sat, gds, crashes, sent, linkHistory>>

\* Mutant of BindingAccepted: a newer generation is refused as well.
BindingAcceptedSame(e, b) == e.state = "ready" => b = e.binding

\* _apply_session_binding: an endpoint that is ready refuses a generation that
\* went back, and another identity under the same generation.
BindingAccepted(e, b) ==
    e.state = "ready" =>
        \/ b.generation > e.binding.generation
        \/ b = e.binding

SatBind(d) ==
    /\ sat.state # "down"
    /\ d \in net
    /\ d.to = "sat"
    /\ d.kind = "SESSION"
    /\ net' = net \ {d}
    /\ IF BindingAccepted(sat, d.binding)
         THEN sat' = [sat EXCEPT !.state = "ready", !.binding = d.binding]
         ELSE sat' = [sat EXCEPT !.state = "down"]  \* nothing catches the error
    /\ adopted' = IF d.binding.boot # sat.boot THEN adopted \cup {sat.boot} ELSE adopted
    /\ UNCHANGED <<link, alloc, disk, gds, crashes, sent, crossed>>

GdsBind(d) ==
    /\ d \in net
    /\ d.to = "gds"
    /\ d.kind = "SESSION"
    /\ net' = net \ {d}
    /\ gds' = IF BindingAccepted(gds, d.binding)
                THEN [state |-> "ready", binding |-> d.binding]
                ELSE gds  \* the pump thread records the error and goes on
    /\ UNCHANGED <<link, alloc, disk, sat, crashes, sent, linkHistory>>

\* validate_egress with the identity of the binding.
EgressMatches(e, f) ==
    /\ f.session = e.binding.session
    /\ e.binding.boot # 0 => f.boot = e.binding.boot

\* History: boot has accepted a frame of the boot f.origin.
Crossed(boot, f) ==
    IF boot = f.origin THEN crossed ELSE crossed \cup {[boot |-> boot, origin |-> f.origin]}

\* A frame that does not match ends the satellite, also while it starts; one
\* that matches while it starts waits for the first receive.
SatReceive(f) ==
    /\ sat.state # "down"
    /\ f \in net
    /\ f.to = "sat"
    /\ f.kind = "EGRESS"
    /\ ~(EgressMatches(sat, f) /\ sat.state = "starting")
    /\ net' = net \ {f}
    /\ IF EgressMatches(sat, f)
         THEN crossed' = Crossed(sat.boot, f) /\ UNCHANGED sat
         ELSE sat' = [sat EXCEPT !.state = "down"] /\ UNCHANGED crossed
    /\ UNCHANGED <<link, alloc, disk, gds, crashes, sent, adopted>>

GdsReceive(f) ==
    /\ gds.state = "ready"
    /\ f \in net
    /\ f.to = "gds"
    /\ f.kind = "EGRESS"
    /\ net' = net \ {f}
    /\ crossed' = IF EgressMatches(gds, f) THEN Crossed(gds.binding.boot, f) ELSE crossed
    /\ UNCHANGED <<link, alloc, disk, sat, gds, crashes, sent, adopted>>

\* send_ingress of each endpoint; the ground's frame is meant for the boot it
\* is bound to.
SatSend ==
    /\ sat.state = "ready"
    /\ sent < MaxFrames /\ CalmSoFar
    /\ sent' = sent + 1
    /\ net' = SendAll({Ingress("satellite", sat.binding, sat.boot)})
    /\ UNCHANGED <<link, alloc, disk, sat, gds, crashes, linkHistory>>

GdsSend ==
    /\ gds.state = "ready"
    /\ sent < MaxFrames /\ CalmSoFar
    /\ sent' = sent + 1
    /\ net' = SendAll({Ingress("gds", gds.binding, gds.binding.boot)})
    /\ UNCHANGED <<link, alloc, disk, sat, gds, crashes, linkHistory>>

Lose(d) ==
    /\ d \in net
    /\ net' = net \ {d}
    /\ UNCHANGED <<link, alloc, disk, sat, gds, crashes, sent, linkHistory>>

-----------------------------------------------------------------------------
LinkInit ==
    /\ net = {}
    /\ link = [StoppedLink EXCEPT !.up = TRUE]
    /\ alloc = [session |-> 1, frame |-> 1, generation |-> 0]
    /\ disk = [session |-> 1, frame |-> 1, generation |-> 0]
    /\ sat = [state |-> "down", boot |-> 0, binding |-> NoBinding]
    /\ gds = [state |-> "starting", binding |-> NoBinding]
    /\ crashes = 0
    /\ sent = 0
    /\ crossed = {}
    /\ adopted = {}

LinkTask == SaveCheckpoint \/ PublishBinding \/ DeliverFrame

LinkNext ==
    \/ \E d \in net : ReceiveHello(d) \/ ReceiveFrame(d)
    \/ LinkTask \/ LinkCrash \/ LinkStart
    \/ SatStart \/ SatStop \/ SatHello \/ SatSend
    \/ GdsHello \/ GdsSend
    \/ \E d \in net : SatBind(d) \/ SatReceive(d) \/ GdsBind(d) \/ GdsReceive(d) \/ Lose(d)

LinkSpec == LinkInit /\ [][LinkNext]_linkVars

-----------------------------------------------------------------------------
\* Bindings anyone but the link may know of.
Visible ==
    {d.binding : d \in {e \in net : e.kind = "SESSION"}}
        \cup {e.binding : e \in {x \in {sat, gds} : x.state = "ready"}}

\* What the link says it never says differently, through its own crashes: of
\* the bindings that are known or under way a generation names one session
\* and one boot and a later generation a later session, and whenever the link
\* may crash its checkpoint is past every session, generation and link frame
\* id that is still about.
IdentifiersAreFresh ==
    /\ \A a, b \in Visible :
          /\ a.generation = b.generation => a = b
          /\ a.generation < b.generation => a.session < b.session
    /\ \A b \in Visible : b.session < disk.session /\ b.generation <= disk.generation
    /\ \A e \in {d \in net : d.kind = "EGRESS"} : e.frame < disk.frame

\* A frame is accepted by the process it was sent to and from the process it
\* is taken for: nothing of an earlier boot of the satellite crosses into a
\* later session, unless the satellite itself took over another boot's
\* binding (see ReadyUnderOwnBoot).
FramesStayInTheirBoot ==
    \A c \in crossed : c.boot \in adopted \/ c.origin \in adopted

Calm == link.up /\ sat.state # "down" /\ adopted = {}
Agreed ==
    /\ link.active.boot = sat.boot
    /\ sat.state = "ready" /\ sat.binding = link.active
    /\ gds.state = "ready" /\ gds.binding = link.active

\* When the three processes stay up, however often they were restarted and
\* whatever is lost, the ground, the link and the satellite agree for good on
\* one session of the satellite's current boot.
EndpointsAgree == <>[]Calm => <>[]Agreed

\* What the plan's restart test asks of the startup handshake: a satellite is
\* ready only in a session of its own boot.
ReadyUnderOwnBoot == sat.state = "ready" => sat.binding.boot = sat.boot
=============================================================================
