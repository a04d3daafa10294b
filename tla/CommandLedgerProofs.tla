------------------------ MODULE CommandLedgerProofs ------------------------
(***************************************************************************)
(* What CommandLedger guarantees for every number of namespaces, request   *)
(* ids, clients, products and transfers.                                   *)
(***************************************************************************)
EXTENDS CommandLedger, WellFoundedInduction, TLAPS

(***************************************************************************)
(* The inductive invariant.                                                *)
(***************************************************************************)
\* Every key handed out lies below its namespace's next id.
IssuedBelow ==
    \A g \in Grounds, i \in 1 .. MaxRequestId :
       <<g, i>> \in issued => namespaces[g].state # "ABSENT" /\ i < namespaces[g].next

\* Commands have issued keys, and downlink rows have commands.
RowsBacked ==
    \A r \in RequestKeys :
       /\ Present(r) => r \in issued
       /\ ~Present(r) => downlinks[r] = NoDownlink
       /\ downlinks[r].product = None => downlinks[r] = NoDownlink

\* A command of a client is what the client was told; and what it was told is
\* a command that exists or one its marker remembers.
AnswersBacked ==
    /\ \A k \in ClientKeys, r \in RequestKeys :
          Present(r) /\ commands[r].key = k => answered[k] = r
    /\ \A k \in ClientKeys :
          \/ answered[k] = None
          \/ Present(answered[k]) /\ commands[answered[k]].key = k
          \/ retired[k].original = answered[k]

\* A transfer serves a request and its product, a downlink's transfer is the
\* one the satellite opened for it, and deferred reports were really made.
Correlated ==
    /\ \A t \in Transfers :
          carried[t] # NoCarriage =>
             carried[t].req \in RequestKeys /\ carried[t].product \in Products
    /\ \A r \in RequestKeys, t \in Transfers :
          downlinks[r].transfer = t => carried[t].req = r
    /\ \A p \in Products, t \in Transfers :
          pending[<<p, t>>].state # "NONE" => pending[<<p, t>>].state \in observed[t]

IndInv ==
    /\ TypeOK
    /\ NamespacesCoherent
    /\ IssuedBelow
    /\ RowsBacked
    /\ AnswersBacked
    /\ Correlated
    /\ FileStateIsOwn
    /\ NothingStranded

(***************************************************************************)
(* Allocation.                                                             *)
(***************************************************************************)
\* The part of NamespacesCoherent that is about the namespaces alone.
TableCoherent ==
    /\ active # None => namespaces[active].state \in {"ACTIVE", "DRAINING"}
    /\ \A g \in Grounds :
          /\ namespaces[g].state \in {"ACTIVE", "DRAINING"} => g = active
          /\ g = active => (namespaces[g].state = "DRAINING" <=> Exhausted(g))

\* What a step that hands out r does to the allocator.
HandsOut(r) ==
    /\ r \notin issued
    /\ namespaces' \in [Grounds -> Namespace]
    /\ active' \in Grounds
    /\ issued' = issued \cup {r}
    /\ IssuedBelow'
    /\ TableCoherent'
    /\ \A g \in Grounds : namespaces'[g].state = "RETIRED" => g # r[1] /\ Drained(g)

\* AfterAllocate counts one id and marks the namespace when it was the last.
LEMMA AfterAllocateEffect ==
    ASSUME NEW table \in [Grounds -> Namespace], NEW g \in Grounds,
           table[g].next <= MaxRequestId
    PROVE  /\ AfterAllocate(table, g) \in [Grounds -> Namespace]
           /\ AfterAllocate(table, g)[g].next = table[g].next + 1
           /\ AfterAllocate(table, g)[g].state \in {"ACTIVE", "DRAINING"}
           /\ AfterAllocate(table, g)[g].state = "DRAINING" <=>
                 table[g].next + 1 > MaxRequestId
           /\ \A h \in Grounds \ {g} : AfterAllocate(table, g)[h] = table[h]
BY LimitsAssumption DEF AfterAllocate, Namespace

\* AfterRotate retires the active namespace and opens an unused one.
LEMMA AfterRotateEffect ==
    ASSUME TypeOK, active # None, NEW g \in Grounds, g # active
    PROVE  /\ AfterRotate(g) \in [Grounds -> Namespace]
           /\ AfterRotate(g)[g] = [state |-> "ACTIVE", next |-> 1]
           /\ AfterRotate(g)[active].state = "RETIRED"
           /\ AfterRotate(g)[active].next = namespaces[active].next
           /\ \A h \in Grounds \ {g, active} : AfterRotate(g)[h] = namespaces[h]
<1>. DEFINE old == [namespaces[active] EXCEPT !.state = "RETIRED"]
            new == [state |-> "ACTIVE", next |-> 1]
<1>1. active \in Grounds /\ namespaces \in [Grounds -> Namespace]
  BY DEF TypeOK
<1>2. namespaces[active] \in Namespace
  BY <1>1
<1>3. old \in Namespace /\ old.state = "RETIRED" /\ old.next = namespaces[active].next
  BY <1>2 DEF Namespace
<1>4. new \in Namespace
  BY LimitsAssumption DEF Namespace
<1>5. AfterRotate(g) = [h \in Grounds |-> IF h = g THEN new
                                          ELSE IF h = active THEN old ELSE namespaces[h]]
  <2>1. AfterRotate(g) = [[namespaces EXCEPT ![active] = old] EXCEPT ![g] = new]
    BY <1>1 DEF AfterRotate
  <2>. HIDE DEF old, new
  <2>2. QED BY <1>1, <2>1
<1>. HIDE DEF old, new
<1>6. QED BY <1>1, <1>3, <1>4, <1>5 DEF new

\* allocate_in_transaction hands out a key that was never handed out.
LEMMA AllocateHandsOut ==
    ASSUME TypeOK, NamespacesCoherent, IssuedBelow, NEW r \in RequestKeys, Allocate(r)
    PROVE  HandsOut(r)
<1>. active \in Grounds /\ namespaces \in [Grounds -> Namespace] /\ issued \subseteq RequestKeys
  BY DEF TypeOK, Allocate
<1>0. \A g \in Grounds : namespaces[g].next \in Nat
  BY LimitsAssumption DEF Namespace
<1>1. CASE ~Exhausted(active) /\ r = <<active, namespaces[active].next>>
           /\ namespaces' = AfterAllocate(namespaces, active) /\ active' = active
  <2>1. namespaces[active].next <= MaxRequestId
    BY <1>0, <1>1, LimitsAssumption DEF Exhausted
  <2>2. /\ namespaces' \in [Grounds -> Namespace]
        /\ namespaces'[active].next = namespaces[active].next + 1
        /\ namespaces'[active].state \in {"ACTIVE", "DRAINING"}
        /\ namespaces'[active].state = "DRAINING" <=> namespaces[active].next + 1 > MaxRequestId
        /\ \A h \in Grounds \ {active} : namespaces'[h] = namespaces[h]
    BY <1>1, <2>1, AfterAllocateEffect
  <2>3. r \notin issued
    <3>1. namespaces[active].next \in 1 .. MaxRequestId
      BY <2>1, <1>0, LimitsAssumption DEF Namespace
    <3>2. ASSUME <<active, namespaces[active].next>> \in issued PROVE FALSE
      BY <3>1, <3>2, <1>0 DEF IssuedBelow
    <3>3. QED BY <3>2, <1>1
  <2>4. issued' = issued \cup {r}
    BY DEF Allocate
  <2>5. IssuedBelow'
    <3>1. SUFFICES ASSUME NEW g \in Grounds, NEW i \in 1 .. MaxRequestId, <<g, i>> \in issued'
                   PROVE  namespaces'[g].state # "ABSENT" /\ i < namespaces'[g].next
      BY DEF IssuedBelow
    <3>2. CASE <<g, i>> \in issued
      BY <3>2, <2>2, <1>0 DEF IssuedBelow
    <3>3. CASE <<g, i>> = r
      BY <3>3, <2>2, <1>1, <1>0
    <3>4. QED BY <3>1, <3>2, <3>3, <2>4
  <2>6. TableCoherent'
    <3>1. \A g \in Grounds : namespaces'[g].state \in {"ACTIVE", "DRAINING"} => g = active
      BY <2>2 DEF NamespacesCoherent
    <3>2. namespaces'[active].state = "DRAINING" <=> namespaces'[active].next > MaxRequestId
      BY <2>2, <1>0, LimitsAssumption
    <3>3. QED BY <3>1, <3>2, <2>2, <1>1 DEF TableCoherent, Exhausted
  <2>7. \A g \in Grounds : namespaces'[g].state = "RETIRED" => g # active /\ Drained(g)
    BY <2>2 DEF NamespacesCoherent, Drained
  <2>8. QED BY <2>2, <2>3, <2>4, <2>5, <2>6, <2>7, <1>1 DEF HandsOut
<1>2. ASSUME Exhausted(active), Drained(active), NEW n \in Grounds, Unused(n), r = <<n, 1>>,
             namespaces' = AfterAllocate(AfterRotate(n), n), active' = n
      PROVE  HandsOut(r)
  <2>1. n # active
    BY <1>2 DEF NamespacesCoherent, Unused
  <2>2. /\ AfterRotate(n) \in [Grounds -> Namespace]
        /\ AfterRotate(n)[n] = [state |-> "ACTIVE", next |-> 1]
        /\ AfterRotate(n)[active].state = "RETIRED"
        /\ AfterRotate(n)[active].next = namespaces[active].next
        /\ \A h \in Grounds \ {n, active} : AfterRotate(n)[h] = namespaces[h]
    BY <2>1, KeysAssumption, AfterRotateEffect
  <2>3. AfterRotate(n)[n].next = 1 /\ 1 <= MaxRequestId
    BY <2>2, LimitsAssumption
  <2>4. /\ namespaces' \in [Grounds -> Namespace]
        /\ namespaces'[n].next = 2
        /\ namespaces'[n].state \in {"ACTIVE", "DRAINING"}
        /\ namespaces'[n].state = "DRAINING" <=> 2 > MaxRequestId
        /\ \A h \in Grounds \ {n} : namespaces'[h] = AfterRotate(n)[h]
    <3>. DEFINE table == AfterRotate(n)
    <3>1. table \in [Grounds -> Namespace] /\ table[n].next = 1 /\ table[n].next <= MaxRequestId
      BY <2>2, <2>3
    <3>2. namespaces' = AfterAllocate(table, n)
      BY <1>2
    <3>. HIDE DEF table
    <3>3. /\ AfterAllocate(table, n) \in [Grounds -> Namespace]
          /\ AfterAllocate(table, n)[n].next = table[n].next + 1
          /\ AfterAllocate(table, n)[n].state \in {"ACTIVE", "DRAINING"}
          /\ AfterAllocate(table, n)[n].state = "DRAINING" <=> table[n].next + 1 > MaxRequestId
          /\ \A h \in Grounds \ {n} : AfterAllocate(table, n)[h] = table[h]
      BY <3>1, AfterAllocateEffect
    <3>4. table[n].next + 1 = 2
      BY <3>1
    <3>5. QED BY <3>2, <3>3, <3>4 DEF table
  <2>5. r \notin issued
    BY <1>2, LimitsAssumption DEF IssuedBelow, Unused
  <2>6. issued' = issued \cup {r}
    BY DEF Allocate
  <2>7. IssuedBelow'
    <3>1. SUFFICES ASSUME NEW g \in Grounds, NEW i \in 1 .. MaxRequestId, <<g, i>> \in issued'
                   PROVE  namespaces'[g].state # "ABSENT" /\ i < namespaces'[g].next
      BY DEF IssuedBelow
    <3>2. CASE <<g, i>> \in issued
      <4>1. namespaces[g].state # "ABSENT" /\ i < namespaces[g].next
        BY <3>2 DEF IssuedBelow
      <4>2. g # n
        BY <4>1, <1>2 DEF Unused
      <4>3. namespaces'[g] = AfterRotate(n)[g]
        BY <4>2, <2>4
      <4>4. CASE g = active
        BY <4>1, <4>3, <4>4, <2>2
      <4>5. CASE g # active
        BY <4>1, <4>2, <4>3, <4>5, <2>2
      <4>6. QED BY <4>4, <4>5
    <3>3. CASE <<g, i>> = r
      <4>1. g = n /\ i = 1
        BY <3>3, <1>2
      <4>2. QED BY <4>1, <2>4
    <3>4. QED BY <3>1, <3>2, <3>3, <2>6
  <2>8. TableCoherent'
    <3>1. \A g \in Grounds : namespaces'[g].state \in {"ACTIVE", "DRAINING"} => g = n
      BY <2>2, <2>4 DEF NamespacesCoherent
    <3>2. QED BY <3>1, <2>4, <1>2 DEF TableCoherent, Exhausted
  <2>9. \A g \in Grounds : namespaces'[g].state = "RETIRED" => g # n /\ Drained(g)
    BY <2>2, <2>4, <1>2 DEF NamespacesCoherent, Drained
  <2>10. QED BY <2>4, <2>5, <2>6, <2>7, <2>8, <2>9, <1>2 DEF HandsOut
<1>3. QED BY <1>1, <1>2 DEF Allocate

(***************************************************************************)
(* One lemma per action.                                                   *)
(***************************************************************************)
\* What every step keeps, and what it may do.
Good == IndInv' /\ FreshKey /\ SameAnswer /\ Advance

\* Steps that leave the allocator alone and bring no command to life.
LEMMA AllocationSame ==
    ASSUME IndInv, UNCHANGED allocation, commands' \in [RequestKeys -> Command],
           \A r \in RequestKeys : commands'[r].state = "LIVE" => commands[r].state = "LIVE"
    PROVE  NamespacesCoherent' /\ IssuedBelow'
<1>1. namespaces' = namespaces /\ active' = active /\ issued' = issued
  BY DEF allocation
<1>2. IssuedBelow'
  BY <1>1 DEF IndInv, IssuedBelow
<1>3. \A g \in Grounds, i \in 1 .. MaxRequestId : <<g, i>> \in RequestKeys
  BY DEF RequestKeys
<1>4. QED BY <1>1, <1>2, <1>3 DEF IndInv, NamespacesCoherent, Exhausted

\* Steps that leave downlinks, deferred reports and the satellite alone.
LEMMA TransfersSame ==
    ASSUME IndInv, UNCHANGED transfers, UNCHANGED satellite
    PROVE  Correlated' /\ FileStateIsOwn' /\ NothingStranded' /\ Advance
<1>1. downlinks' = downlinks /\ pending' = pending /\ carried' = carried /\ observed' = observed
  BY DEF transfers, satellite
<1>2. \A s : Rank(s) \in Int
  BY DEF Rank
<1>3. Advance
  BY <1>1, <1>2 DEF Advance
<1>4. QED BY <1>1, <1>3 DEF IndInv, Correlated, FileStateIsOwn, NothingStranded

\* The rows that a step on deferred reports or the satellite does not touch.
LEMMA LedgerSame ==
    ASSUME IndInv, UNCHANGED allocation, UNCHANGED ledger
    PROVE  NamespacesCoherent' /\ IssuedBelow' /\ AnswersBacked' /\ FreshKey /\ SameAnswer
<1>1. commands' = commands /\ retired' = retired /\ answered' = answered
  BY DEF ledger
<1>2. NamespacesCoherent' /\ IssuedBelow'
  BY <1>1, AllocationSame DEF IndInv, TypeOK
<1>3. AnswersBacked' /\ FreshKey /\ SameAnswer
  BY <1>1 DEF IndInv, AnswersBacked, FreshKey, SameAnswer, Present
<1>4. QED BY <1>2, <1>3

\* The empty database.
LEMMA InitInv == Init => IndInv
<1>. SUFFICES ASSUME Init PROVE IndInv
  OBVIOUS
<1>1. TypeOK
  <2>1. NoNamespace \in Namespace /\ NoCommand \in Command /\ NoMarker \in Marker
        /\ NoObservation \in Observation /\ NoCarriage \in Carriage
    BY LimitsAssumption DEF NoNamespace, Namespace, NoCommand, Command, NoMarker, Marker,
       NoObservation, Observation, NoCarriage, Carriage
  <2>2. NoDownlink \in Downlink
    BY LimitsAssumption DEF NoDownlink, Downlink, TransferStates
  <2>3. QED BY <2>1, <2>2 DEF Init, TypeOK
<1>2. NamespacesCoherent /\ IssuedBelow
  BY KeysAssumption DEF Init, NamespacesCoherent, IssuedBelow, NoNamespace
<1>3. RowsBacked
  BY DEF Init, RowsBacked, Present, NoCommand
<1>4. AnswersBacked
  BY DEF Init, AnswersBacked, Present, NoCommand
<1>5. Correlated
  BY KeysAssumption DEF Init, Correlated, NoDownlink, NoObservation
<1>6. FileStateIsOwn
  BY DEF Init, FileStateIsOwn, NoDownlink
<1>7. NothingStranded
  BY DEF Init, NothingStranded, NoDownlink
<1>8. QED BY <1>1, <1>2, <1>3, <1>4, <1>5, <1>6, <1>7 DEF IndInv

\* The clock.
LEMMA TickInv ==
    ASSUME IndInv, Tick
    PROVE  Good
<1>1. TypeOK'
  BY DEF IndInv, TypeOK, Tick, allocation, ledger, transfers, satellite
<1>2. RowsBacked'
  BY DEF IndInv, RowsBacked, Tick, allocation, ledger, transfers, Present
<1>3. QED BY <1>1, <1>2, LedgerSame, TransfersSame DEF Good, IndInv, Tick

\* The first namespace.
LEMMA InitializeInv ==
    ASSUME IndInv, Initialize
    PROVE  Good
<1>1. PICK g \in Grounds : Unused(g) /\ active' = g
                /\ namespaces' = [namespaces EXCEPT ![g] = [state |-> "ACTIVE", next |-> 1]]
  BY DEF Initialize
<1>2. active = None /\ issued' = issued /\ UNCHANGED ledger /\ UNCHANGED transfers /\ UNCHANGED satellite
  BY DEF Initialize
<1>3. namespaces' \in [Grounds -> Namespace]
  BY <1>1, LimitsAssumption DEF IndInv, TypeOK, Namespace
<1>4. TypeOK'
  BY <1>1, <1>2, <1>3 DEF IndInv, TypeOK, Initialize, ledger, transfers, satellite
<1>5. \A h \in Grounds \ {g} : namespaces'[h] = namespaces[h]
  BY <1>1 DEF IndInv, TypeOK
<1>6. namespaces'[g].state = "ACTIVE" /\ namespaces'[g].next = 1
  BY <1>1 DEF IndInv, TypeOK
<1>7. IssuedBelow'
  BY <1>1, <1>2, <1>5 DEF IndInv, IssuedBelow, Unused
<1>8. NamespacesCoherent'
  <2>1. \A h \in Grounds : namespaces[h].state \notin {"ACTIVE", "DRAINING"}
    BY <1>2, KeysAssumption DEF IndInv, NamespacesCoherent
  <2>2. \A h \in Grounds : namespaces'[h].state \in {"ACTIVE", "DRAINING"} => h = g
    BY <2>1, <1>5
  <2>3. ~(namespaces'[g].next > MaxRequestId)
    BY <1>6, LimitsAssumption
  <2>4. commands' = commands
    BY <1>2 DEF ledger
  <2>5. QED BY <2>2, <2>3, <2>4, <1>1, <1>5, <1>6 DEF IndInv, NamespacesCoherent, Exhausted
<1>9. RowsBacked' /\ AnswersBacked' /\ FreshKey /\ SameAnswer
  BY <1>2 DEF IndInv, RowsBacked, AnswersBacked, FreshKey, SameAnswer, ledger, transfers, Present
<1>10. QED BY <1>2, <1>4, <1>7, <1>8, <1>9, TransfersSame DEF Good, IndInv

\* A namespace that is used up and drained gives way to an unused one.
LEMMA RotateInv ==
    ASSUME IndInv, RotateIfDrained
    PROVE  Good
<1>1. PICK g \in Grounds : Unused(g) /\ namespaces' = AfterRotate(g) /\ active' = g
  BY DEF RotateIfDrained
<1>2. Drained(active) /\ active # None /\ issued' = issued /\ now' = now
      /\ UNCHANGED ledger /\ UNCHANGED transfers /\ UNCHANGED satellite
  BY DEF RotateIfDrained
<1>3. g # active
  BY <1>1, <1>2 DEF IndInv, NamespacesCoherent, Unused
<1>4. /\ namespaces' \in [Grounds -> Namespace]
      /\ namespaces'[g] = [state |-> "ACTIVE", next |-> 1]
      /\ namespaces'[active].state = "RETIRED"
      /\ namespaces'[active].next = namespaces[active].next
      /\ \A h \in Grounds \ {g, active} : namespaces'[h] = namespaces[h]
  BY <1>1, <1>2, <1>3, AfterRotateEffect DEF IndInv
<1>5. TypeOK'
  BY <1>1, <1>2, <1>4 DEF IndInv, TypeOK, ledger, transfers, satellite
<1>6. IssuedBelow'
  <2>1. SUFFICES ASSUME NEW h \in Grounds, NEW i \in 1 .. MaxRequestId, <<h, i>> \in issued
                 PROVE  namespaces'[h].state # "ABSENT" /\ i < namespaces'[h].next
    BY <1>2 DEF IssuedBelow
  <2>2. namespaces[h].state # "ABSENT" /\ i < namespaces[h].next
    BY <2>1 DEF IndInv, IssuedBelow
  <2>3. h # g
    BY <2>2, <1>1 DEF Unused
  <2>4. CASE h = active
    BY <2>2, <2>4, <1>4
  <2>5. CASE h # active
    BY <2>2, <2>3, <2>5, <1>4
  <2>6. QED BY <2>4, <2>5
<1>7. NamespacesCoherent'
  <2>1. namespaces'[g].state = "ACTIVE" /\ namespaces'[g].next = 1
    BY <1>4
  <2>2. \A h \in Grounds : namespaces'[h].state \in {"ACTIVE", "DRAINING"} => h = g
    BY <1>4 DEF IndInv, NamespacesCoherent
  <2>3. ~(namespaces'[g].next > MaxRequestId)
    BY <2>1, LimitsAssumption
  <2>4. commands' = commands
    BY <1>2 DEF ledger
  <2>5. \A h \in Grounds : namespaces'[h].state = "RETIRED" =>
           \A i \in 1 .. MaxRequestId : commands[<<h, i>>].state # "LIVE"
    BY <2>1, <1>2, <1>4 DEF IndInv, NamespacesCoherent, Drained
  <2>6. QED BY <2>1, <2>2, <2>3, <2>4, <2>5, <1>1 DEF NamespacesCoherent, Exhausted
<1>8. RowsBacked' /\ AnswersBacked' /\ FreshKey /\ SameAnswer
  BY <1>2 DEF IndInv, RowsBacked, AnswersBacked, FreshKey, SameAnswer, ledger, transfers, Present
<1>9. QED BY <1>2, <1>5, <1>6, <1>7, <1>8, TransfersSame DEF Good, IndInv

\* A repeated request is answered with the command it made.
LEMMA ReplayInv ==
    ASSUME IndInv, NEW k \in ClientKeys, NEW b \in Bodies, Replay(k, b)
    PROVE  Good
<1>1. PICK r \in Holder(k) : answered' = [answered EXCEPT ![k] = r]
  BY DEF Replay
<1>2. r \in RequestKeys /\ answered[k] = r
  BY <1>1 DEF IndInv, AnswersBacked, Holder
<1>3. answered' = answered
  BY <1>1, <1>2 DEF IndInv, TypeOK
<1>4. UNCHANGED <<now, allocation, ledger, transfers, satellite>>
  BY <1>3 DEF Replay, ledger
<1>5. TypeOK'
  BY <1>4 DEF IndInv, TypeOK, allocation, ledger, transfers, satellite
<1>6. RowsBacked'
  BY <1>4 DEF IndInv, RowsBacked, allocation, ledger, transfers, Present
<1>7. QED BY <1>4, <1>5, <1>6, LedgerSame, TransfersSame DEF Good, IndInv

\* A command reaches its outcome.
LEMMA SettleInv ==
    ASSUME IndInv, NEW r \in RequestKeys, NEW outcome \in Outcomes, Settle(r, outcome)
    PROVE  Good
<1>1. /\ commands[r].state = "LIVE"
      /\ commands' = [commands EXCEPT ![r].state = outcome]
      /\ UNCHANGED <<now, allocation, retired, targetRetired, answered, transfers, satellite>>
  BY DEF Settle
<1>2. commands' \in [RequestKeys -> Command]
  BY <1>1 DEF IndInv, TypeOK, Command, Outcomes
<1>3. TypeOK'
  BY <1>1, <1>2 DEF IndInv, TypeOK, allocation, transfers, satellite
<1>4. \A s \in RequestKeys :
         /\ commands'[s].key = commands[s].key
         /\ commands'[s].state = "LIVE" => commands[s].state = "LIVE"
         /\ commands'[s].state # "ABSENT" <=> commands[s].state # "ABSENT"
  BY <1>1 DEF IndInv, TypeOK, Command, Outcomes
<1>5. NamespacesCoherent' /\ IssuedBelow'
  BY <1>1, <1>2, <1>4, AllocationSame
<1>6. RowsBacked'
  BY <1>1, <1>4 DEF IndInv, RowsBacked, Present, allocation, transfers
<1>7. AnswersBacked'
  BY <1>1, <1>4 DEF IndInv, TypeOK, AnswersBacked, Present
<1>8. FreshKey /\ SameAnswer
  BY <1>1, <1>4 DEF FreshKey, SameAnswer, Present
<1>9. QED BY <1>1, <1>3, <1>5, <1>6, <1>7, <1>8, TransfersSame DEF Good, IndInv

\* Migration fails every live command at once.
LEMMA RetireTargetInv ==
    ASSUME IndInv, RetireTarget
    PROVE  Good
<1>1. /\ targetRetired' = TRUE
      /\ commands' = [r \in RequestKeys |-> IF commands[r].state = "LIVE"
             THEN [commands[r] EXCEPT !.state = "FAILED"] ELSE commands[r]]
      /\ UNCHANGED <<now, allocation, retired, answered, transfers, satellite>>
  BY DEF RetireTarget
<1>2. commands' \in [RequestKeys -> Command]
  BY <1>1 DEF IndInv, TypeOK, Command, Outcomes
<1>3. TypeOK'
  BY <1>1, <1>2 DEF IndInv, TypeOK, allocation, transfers, satellite
<1>4. \A s \in RequestKeys :
         /\ commands'[s].key = commands[s].key
         /\ commands'[s].state = "LIVE" => commands[s].state = "LIVE"
         /\ commands'[s].state # "ABSENT" <=> commands[s].state # "ABSENT"
  BY <1>1 DEF IndInv, TypeOK, Command, Outcomes
<1>5. NamespacesCoherent' /\ IssuedBelow'
  BY <1>1, <1>2, <1>4, AllocationSame
<1>6. RowsBacked'
  BY <1>1, <1>4 DEF IndInv, RowsBacked, Present, allocation, transfers
<1>7. AnswersBacked'
  BY <1>1, <1>4 DEF IndInv, TypeOK, AnswersBacked, Present
<1>8. FreshKey /\ SameAnswer
  BY <1>1, <1>4 DEF FreshKey, SameAnswer, Present
<1>9. QED BY <1>1, <1>3, <1>5, <1>6, <1>7, <1>8, TransfersSame DEF Good, IndInv

\* The allocator and the coherence of the namespaces after an admission.
LEMMA AdmissionAllocates ==
    ASSUME IndInv, NEW r \in RequestKeys, HandsOut(r), NEW row, row.state = "LIVE",
           commands' = [commands EXCEPT ![r] = row]
    PROVE  NamespacesCoherent' /\ IssuedBelow'
<1>1. IssuedBelow' /\ TableCoherent'
  BY DEF HandsOut
<1>2. ASSUME NEW g \in Grounds, namespaces'[g].state = "RETIRED", NEW i \in 1 .. MaxRequestId
      PROVE  commands'[<<g, i>>].state # "LIVE"
  <2>1. g # r[1] /\ commands[<<g, i>>].state # "LIVE"
    BY <1>2 DEF HandsOut, Drained
  <2>2. <<g, i>> \in RequestKeys /\ <<g, i>> # r
    BY <2>1 DEF RequestKeys
  <2>3. QED BY <2>1, <2>2 DEF IndInv, TypeOK
<1>3. QED BY <1>1, <1>2 DEF TableCoherent, NamespacesCoherent, Exhausted

\* A new command of a client.
LEMMA AdmitInv ==
    ASSUME IndInv, NEW k \in ClientKeys, NEW b \in Bodies, Admit(k, b)
    PROVE  Good
<1>. DEFINE row == [state |-> "LIVE", key |-> k, digest |-> b]
<1>1. PICK r \in RequestKeys :
         Allocate(r) /\ commands' = [commands EXCEPT ![r] = row]
         /\ answered' = [answered EXCEPT ![k] = r]
  BY DEF Admit
<1>2. /\ Holder(k) = {}
      /\ Forgotten(k)
      /\ retired' = [retired EXCEPT ![k] = NoMarker]
      /\ UNCHANGED <<now, targetRetired, transfers, satellite>>
  BY DEF Admit
<1>3. HandsOut(r)
  BY <1>1, AllocateHandsOut DEF IndInv
<1>4. row \in Command /\ row.state = "LIVE" /\ row.key = k
  BY DEF Command, IdempotencyKeys
<1>. HIDE DEF row
<1>5. NamespacesCoherent' /\ IssuedBelow'
  BY <1>1, <1>3, <1>4, AdmissionAllocates
<1>6. NoMarker \in Marker
  BY DEF NoMarker, Marker
<1>7. TypeOK'
  BY <1>1, <1>2, <1>3, <1>4, <1>6 DEF IndInv, TypeOK, HandsOut, transfers, satellite
<1>8. ~Present(r) /\ r \notin issued /\ issued' = issued \cup {r}
  BY <1>3 DEF IndInv, RowsBacked, HandsOut
<1>9. \A s \in RequestKeys : commands'[s] = IF s = r THEN row ELSE commands[s]
  BY <1>1 DEF IndInv, TypeOK
<1>10. RowsBacked'
  <2>1. downlinks' = downlinks
    BY <1>2 DEF transfers
  <2>2. QED BY <2>1, <1>4, <1>8, <1>9 DEF IndInv, RowsBacked, Present
<1>11. \A j \in ClientKeys : answered'[j] = IF j = k THEN r ELSE answered[j]
  BY <1>1 DEF IndInv, TypeOK
<1>12. \A j \in ClientKeys \ {k} : retired'[j] = retired[j]
  BY <1>2 DEF IndInv, TypeOK, IdempotencyKeys
<1>13. AnswersBacked'
  <2>1. ASSUME NEW j \in ClientKeys, NEW s \in RequestKeys, Present(s)', commands'[s].key = j
        PROVE  answered'[j] = s
    <3>1. CASE s = r
      BY <3>1, <2>1, <1>4, <1>9, <1>11
    <3>2. CASE s # r
      BY <3>2, <2>1, <1>2, <1>9, <1>11 DEF IndInv, AnswersBacked, Holder, Present
    <3>3. QED BY <3>1, <3>2
  <2>2. ASSUME NEW j \in ClientKeys
        PROVE  \/ answered'[j] = None
               \/ commands'[answered'[j]].state # "ABSENT" /\ commands'[answered'[j]].key = j
               \/ retired'[j].original = answered'[j]
    <3>1. CASE j = k
      BY <3>1, <1>4, <1>9, <1>11 DEF Present
    <3>2. CASE j # k
      <4>1. answered'[j] = answered[j] /\ retired'[j] = retired[j]
        BY <3>2, <1>11, <1>12
      <4>2. CASE answered[j] = None \/ retired[j].original = answered[j]
        BY <4>1, <4>2
      <4>3. CASE answered[j] \in RequestKeys /\ Present(answered[j]) /\ commands[answered[j]].key = j
        BY <4>1, <4>3, <1>8, <1>9 DEF Present
      <4>4. QED BY <4>2, <4>3 DEF IndInv, TypeOK, AnswersBacked
    <3>3. QED BY <3>1, <3>2
  <2>3. QED BY <2>1, <2>2 DEF AnswersBacked, Present
<1>14. FreshKey
  BY <1>8, <1>9 DEF FreshKey, Present
<1>15. SameAnswer
  <2>1. SUFFICES ASSUME NEW j \in ClientKeys, answered[j] # None, answered'[j] # answered[j]
                 PROVE  retired[j].original = answered[j] /\ retired[j].until <= now
    BY DEF SameAnswer
  <2>2. j = k
    BY <2>1, <1>11
  <2>3. retired[k].original = answered[k]
    BY <2>1, <2>2, <1>2 DEF IndInv, TypeOK, AnswersBacked, Holder
  <2>4. QED BY <2>1, <2>2, <2>3, <1>2 DEF Forgotten
<1>16. QED BY <1>2, <1>5, <1>7, <1>10, <1>13, <1>14, <1>15, TransfersSame DEF Good, IndInv

\* retire_terminal_command.
LEMMA RetireCommandInv ==
    ASSUME IndInv, NEW r \in RequestKeys, RetireCommand(r)
    PROVE  Good
<1>. DEFINE key == commands[r].key
            marker == [original |-> r, digest |-> commands[r].digest, until |-> now + Retention]
<1>1. /\ commands[r].state \in Outcomes
      /\ retired[key].original = None
      /\ retired' = [retired EXCEPT ![key] = marker]
      /\ commands' = [commands EXCEPT ![r] = NoCommand]
      /\ downlinks' = [downlinks EXCEPT ![r] = NoDownlink]
      /\ UNCHANGED <<now, allocation, targetRetired, answered, pending, satellite>>
  BY DEF RetireCommand
<1>2. marker \in Marker /\ marker.original = r
  BY LimitsAssumption DEF IndInv, TypeOK, Marker, Command
<1>. HIDE DEF marker
<1>3. NoCommand \in Command /\ NoCommand.state = "ABSENT" /\ NoCommand.key = None
  BY DEF NoCommand, Command
<1>4. NoDownlink \in Downlink /\ NoDownlink.product = None /\ NoDownlink.transfer = None
      /\ NoDownlink.state = "ADMITTED"
  BY LimitsAssumption DEF NoDownlink, Downlink, TransferStates
<1>5. commands' \in [RequestKeys -> Command] /\ downlinks' \in [RequestKeys -> Downlink]
      /\ retired' \in [IdempotencyKeys -> Marker]
  BY <1>1, <1>2, <1>3, <1>4 DEF IndInv, TypeOK
<1>6. TypeOK'
  BY <1>1, <1>5 DEF IndInv, TypeOK, allocation, satellite
<1>7. \A s \in RequestKeys :
         /\ commands'[s] = IF s = r THEN NoCommand ELSE commands[s]
         /\ downlinks'[s] = IF s = r THEN NoDownlink ELSE downlinks[s]
  BY <1>1 DEF IndInv, TypeOK
<1>8. NamespacesCoherent' /\ IssuedBelow'
  BY <1>1, <1>3, <1>5, <1>7, AllocationSame
<1>9. RowsBacked'
  BY <1>1, <1>3, <1>7 DEF IndInv, RowsBacked, Present, allocation
<1>10. \A j \in ClientKeys : retired'[j] = IF j = key THEN marker ELSE retired[j]
  BY <1>1 DEF IndInv, TypeOK, IdempotencyKeys
<1>11. AnswersBacked'
  <2>1. ASSUME NEW j \in ClientKeys, NEW s \in RequestKeys, Present(s)', commands'[s].key = j
        PROVE  answered'[j] = s
    BY <2>1, <1>1, <1>3, <1>7 DEF IndInv, AnswersBacked, Present
  <2>2. ASSUME NEW j \in ClientKeys
        PROVE  \/ answered[j] = None
               \/ commands'[answered[j]].state # "ABSENT" /\ commands'[answered[j]].key = j
               \/ retired'[j].original = answered[j]
    <3>1. CASE answered[j] = None
      BY <3>1
    <3>2. CASE answered[j] = r /\ key = j
      BY <3>2, <1>2, <1>10
    <3>3. CASE answered[j] \in RequestKeys /\ answered[j] # r /\ Present(answered[j])
               /\ commands[answered[j]].key = j
      BY <3>3, <1>7 DEF Present
    <3>4. CASE answered[j] # None /\ retired[j].original = answered[j]
      BY <3>4, <1>1, <1>10
    <3>5. QED BY <3>1, <3>2, <3>3, <3>4 DEF IndInv, TypeOK, AnswersBacked
  <2>3. QED BY <2>1, <2>2, <1>1 DEF AnswersBacked, Present
<1>12. FreshKey /\ SameAnswer
  BY <1>1, <1>3, <1>7 DEF FreshKey, SameAnswer, Present
<1>13. pending' = pending /\ carried' = carried /\ observed' = observed
  BY <1>1 DEF satellite
<1>14. Correlated' /\ FileStateIsOwn' /\ NothingStranded'
  <2>1. Correlated'
    BY <1>4, <1>7, <1>13, KeysAssumption DEF IndInv, Correlated
  <2>2. QED BY <2>1, <1>4, <1>7, <1>13, KeysAssumption DEF IndInv, FileStateIsOwn, NothingStranded
<1>15. Advance
  <2>1. \A x : Rank(x) \in Int
    BY DEF Rank
  <2>2. QED BY <2>1, <1>4, <1>7 DEF Advance
<1>16. QED BY <1>6, <1>8, <1>9, <1>11, <1>12, <1>14, <1>15 DEF Good, IndInv

\* A bounded set of naturals that is not empty has a greatest element.
LEMMA GreatestElement ==
    ASSUME NEW T \in SUBSET Nat, T # {}, NEW N \in Nat, \A n \in T : n <= N
    PROVE  \E m \in T : \A n \in T : n <= m
<1>. DEFINE U == {N - n : n \in T}
<1>1. U \subseteq Nat /\ U # {}
  <2>1. \A n \in T : N - n \in Nat
    OBVIOUS
  <2>2. PICK n \in T : TRUE
    OBVIOUS
  <2>3. N - n \in U
    BY <2>2
  <2>4. QED BY <2>1, <2>3
<1>2. \E x \in U : \A y \in U : ~(<<y, x>> \in OpToRel(<, Nat))
  <2>. HIDE DEF U
  <2>1. QED BY <1>1, NatLessThanWellFounded, WFMin
<1>3. PICK x \in U : \A y \in U : ~(<<y, x>> \in OpToRel(<, Nat))
  BY <1>2
<1>4. \A y \in U : ~(y < x)
  BY <1>1, <1>3 DEF OpToRel
<1>5. PICK m \in T : x = N - m
  OBVIOUS
<1>6. \A n \in T : ~(N - n < N - m)
  BY <1>4, <1>5
<1>7. QED BY <1>6

\* admit_product_downlink finds the newest admission of a product that has any.
LEMMA LatestExists ==
    ASSUME TypeOK, NEW p, Admissions(p) # {}
    PROVE  /\ Latest(p) \in Admissions(p)
           /\ \A s \in Admissions(p) : downlinks[s].ordinal <= downlinks[Latest(p)].ordinal
<1>. DEFINE T == {downlinks[s].ordinal : s \in Admissions(p)}
<1>1. \A s \in Admissions(p) : downlinks[s].ordinal \in 0 .. MaxOrdinal
  BY DEF Admissions, TypeOK, Downlink
<1>2. T \in SUBSET Nat /\ T # {} /\ \A n \in T : n <= MaxOrdinal
  BY <1>1, LimitsAssumption
<1>3. \E m \in T : \A n \in T : n <= m
  <2>. HIDE DEF T
  <2>1. QED BY <1>2, LimitsAssumption, GreatestElement
<1>4. \E r \in Admissions(p) :
         \A s \in Admissions(p) : downlinks[s].ordinal <= downlinks[r].ordinal
  BY <1>3
<1>5. QED BY <1>4 DEF Latest

\* The number of a new admission is larger than that of every admission left.
LEMMA NextOrdinalIsNew ==
    ASSUME TypeOK, NEW p \in Products
    PROVE  /\ NextOrdinal(p) \in Nat \ {0}
           /\ \A s \in Admissions(p) : downlinks[s].ordinal < NextOrdinal(p)
<1>1. CASE Admissions(p) = {}
  BY <1>1 DEF NextOrdinal
<1>2. CASE Admissions(p) # {}
  <2>1. \A s \in Admissions(p) : downlinks[s].ordinal \in Nat
    BY DEF TypeOK, Admissions, Downlink
  <2>2. QED BY <1>2, <2>1, LatestExists DEF NextOrdinal
<1>3. QED BY <1>1, <1>2

\* A new downlink of a product.
LEMMA AdmitDownlinkInv ==
    ASSUME IndInv, NEW p \in Products, AdmitDownlink(p)
    PROVE  Good
<1>. DEFINE row == [state |-> "LIVE", key |-> <<p, NextOrdinal(p)>>, digest |-> p]
            link == [product |-> p, ordinal |-> NextOrdinal(p), transfer |-> None,
                     state |-> "ADMITTED"]
<1>1. PICK r \in RequestKeys :
         Allocate(r) /\ commands' = [commands EXCEPT ![r] = row]
         /\ downlinks' = [downlinks EXCEPT ![r] = link]
  BY DEF AdmitDownlink
<1>2. NextOrdinal(p) <= MaxOrdinal
      /\ UNCHANGED <<now, retired, targetRetired, answered, pending, satellite>>
  BY DEF AdmitDownlink
<1>3. HandsOut(r)
  BY <1>1, AllocateHandsOut DEF IndInv
<1>4. NextOrdinal(p) \in 1 .. MaxOrdinal
  BY <1>2, NextOrdinalIsNew, LimitsAssumption DEF IndInv
<1>5. row \in Command /\ row.state = "LIVE" /\ row.key \notin ClientKeys
  BY <1>4, KeysAssumption DEF Command, IdempotencyKeys, Ordinals
<1>6. link \in Downlink /\ link.transfer = None /\ link.state = "ADMITTED" /\ link.product = p
  BY <1>4, LimitsAssumption DEF Downlink, TransferStates
<1>. HIDE DEF row, link
<1>7. NamespacesCoherent' /\ IssuedBelow'
  BY <1>1, <1>3, <1>5, AdmissionAllocates
<1>8. TypeOK'
  BY <1>1, <1>2, <1>3, <1>5, <1>6 DEF IndInv, TypeOK, HandsOut, satellite
<1>9. ~Present(r) /\ r \notin issued /\ issued' = issued \cup {r} /\ downlinks[r] = NoDownlink
  BY <1>3 DEF IndInv, RowsBacked, HandsOut
<1>10. \A s \in RequestKeys :
          /\ commands'[s] = IF s = r THEN row ELSE commands[s]
          /\ downlinks'[s] = IF s = r THEN link ELSE downlinks[s]
  BY <1>1 DEF IndInv, TypeOK
<1>11. RowsBacked'
  <2>1. p # None
    BY KeysAssumption
  <2>2. QED BY <2>1, <1>5, <1>6, <1>9, <1>10 DEF IndInv, RowsBacked, Present
<1>12. AnswersBacked'
  <2>1. ASSUME NEW j \in ClientKeys, NEW s \in RequestKeys, Present(s)', commands'[s].key = j
        PROVE  answered'[j] = s
    BY <2>1, <1>2, <1>5, <1>10 DEF IndInv, AnswersBacked, Present
  <2>2. ASSUME NEW j \in ClientKeys
        PROVE  \/ answered[j] = None
               \/ commands'[answered[j]].state # "ABSENT" /\ commands'[answered[j]].key = j
               \/ retired[j].original = answered[j]
    BY <1>9, <1>10 DEF IndInv, TypeOK, AnswersBacked, Present
  <2>3. QED BY <2>1, <2>2, <1>2 DEF AnswersBacked, Present
<1>13. FreshKey /\ SameAnswer
  BY <1>2, <1>9, <1>10 DEF FreshKey, SameAnswer, Present
<1>14. pending' = pending /\ carried' = carried /\ observed' = observed
  BY <1>2 DEF satellite
<1>15. Correlated' /\ FileStateIsOwn' /\ NothingStranded'
  <2>1. Correlated'
    BY <1>6, <1>10, <1>14, KeysAssumption DEF IndInv, Correlated
  <2>2. QED BY <2>1, <1>6, <1>10, <1>14, KeysAssumption DEF IndInv, FileStateIsOwn, NothingStranded
<1>16. Advance
  <2>1. \A x : Rank(x) \in Int
    BY DEF Rank
  <2>2. downlinks[r].product = None
    BY <1>9 DEF NoDownlink
  <2>3. QED BY <2>1, <2>2, <1>10 DEF Advance
<1>17. QED BY <1>7, <1>8, <1>11, <1>12, <1>13, <1>15, <1>16 DEF Good, IndInv

\* The satellite opens a transfer for a request that had none.
LEMMA CarryInv ==
    ASSUME IndInv, NEW r \in RequestKeys, NEW t \in Transfers, Carry(r, t)
    PROVE  Good
<1>. DEFINE load == [req |-> r, product |-> downlinks[r].product]
<1>1. /\ carried[t] = NoCarriage
      /\ carried' = [carried EXCEPT ![t] = load]
      /\ UNCHANGED <<now, allocation, ledger, transfers, observed>>
  BY DEF Carry
<1>2. load \in Carriage
  BY DEF IndInv, TypeOK, Carriage, Downlink
<1>. HIDE DEF load
<1>3. TypeOK'
  BY <1>1, <1>2 DEF IndInv, TypeOK, allocation, ledger, transfers
<1>4. \A u \in Transfers \ {t} : carried'[u] = carried[u]
  BY <1>1 DEF IndInv, TypeOK
<1>5. \A s \in RequestKeys : carried[t].req # s
  <2>1. ASSUME NEW s \in RequestKeys, None = s PROVE FALSE
    BY <2>1, KeysAssumption DEF RequestKeys
  <2>2. QED BY <1>1, <2>1 DEF NoCarriage
<1>6. downlinks' = downlinks /\ pending' = pending /\ observed' = observed
  BY <1>1 DEF transfers
<1>7. carried'[t].req \in RequestKeys /\ carried'[t].product \in Products
  BY <1>1 DEF Carry, IndInv, TypeOK, Downlink, load
<1>7a. Correlated' /\ FileStateIsOwn'
  BY <1>4, <1>5, <1>6, <1>7 DEF IndInv, Correlated, FileStateIsOwn
<1>8. NothingStranded'
  BY <1>6 DEF IndInv, NothingStranded
<1>9. RowsBacked'
  BY <1>1 DEF IndInv, RowsBacked, allocation, ledger, transfers, Present
<1>10. Advance
  <2>1. \A x : Rank(x) \in Int
    BY DEF Rank
  <2>2. QED BY <2>1, <1>6 DEF Advance
<1>11. QED BY <1>1, <1>3, <1>7a, <1>8, <1>9, <1>10, LedgerSame DEF Good, IndInv

(***************************************************************************)
(* Telemetry.                                                              *)
(***************************************************************************)
\* Monotonic never moves back, and never leaves a final state.
LEMMA MonotonicAdvances ==
    ASSUME NEW a \in TransferStates, NEW b \in TransferStates
    PROVE  /\ Monotonic(a, b) \in {a, b}
           /\ Rank(Monotonic(a, b)) >= Rank(a)
           /\ Rank(a) = 3 => Monotonic(a, b) = a
           /\ Rank(a) \in Int
BY DEF Monotonic, Rank, TransferStates, FileStates

\* Expiring deferred reports only removes some.
LEMMA PendingAtKeeps ==
    ASSUME TypeOK, NEW at
    PROVE  /\ PendingAt(at) \in [Products \X Transfers -> Observation]
           /\ \A o \in Products \X Transfers :
                 PendingAt(at)[o].state # "NONE" => PendingAt(at)[o].state = pending[o].state
BY DEF PendingAt, TypeOK, NoObservation, Observation

\* Deferred reports that expire on their own.
LEMMA ReconcilePendingInv ==
    ASSUME IndInv, NEW at, ReconcilePending(at)
    PROVE  Good
<1>1. /\ pending' = PendingAt(at)
      /\ UNCHANGED <<now, allocation, ledger, downlinks, satellite>>
  BY DEF ReconcilePending
<1>2. /\ pending' \in [Products \X Transfers -> Observation]
      /\ \A o \in Products \X Transfers :
            pending'[o].state # "NONE" => pending'[o].state = pending[o].state
  BY <1>1, PendingAtKeeps DEF IndInv
<1>3. TypeOK'
  BY <1>1, <1>2 DEF IndInv, TypeOK, allocation, ledger, satellite
<1>4. downlinks' = downlinks /\ carried' = carried /\ observed' = observed
  BY <1>1 DEF satellite
<1>5. Correlated' /\ FileStateIsOwn'
  BY <1>2, <1>4 DEF IndInv, Correlated, FileStateIsOwn
<1>6. NothingStranded'
  BY <1>2, <1>4 DEF IndInv, TypeOK, Downlink, NothingStranded
<1>7. RowsBacked'
  BY <1>1 DEF IndInv, RowsBacked, allocation, ledger, Present
<1>8. Advance
  <2>1. \A x : Rank(x) \in Int
    BY DEF Rank
  <2>2. QED BY <2>1, <1>4 DEF Advance
<1>9. QED BY <1>1, <1>3, <1>5, <1>6, <1>7, <1>8, LedgerSame DEF Good, IndInv

\* What a report does to the state of one downlink.
Moves(r, state) ==
    /\ state \in TransferStates
    /\ Rank(state) >= Rank(downlinks[r].state)
    /\ Rank(downlinks[r].state) = 3 => state = downlinks[r].state

\* A report that reaches a downlink of the request its transfer was opened for.
LEMMA DownlinkMoves ==
    ASSUME IndInv, NEW r \in RequestKeys, NEW t \in Transfers, NEW link \in Downlink,
           carried[t].req = r, downlinks[r].product \in Products,
           link.product = downlinks[r].product,
           downlinks[r].transfer \in {None, t}, link.transfer = t,
           Moves(r, link.state),
           link.state \in {"RECEIVING", "VERIFIED", "CANCELED"} => link.state \in observed'[t],
           downlinks' = [downlinks EXCEPT ![r] = link],
           \A u \in Transfers : observed[u] \subseteq observed'[u],
           UNCHANGED <<now, allocation, ledger, carried>>,
           pending' \in [Products \X Transfers -> Observation],
           observed' \in [Transfers -> SUBSET FileStates],
           pending'[<<downlinks[r].product, t>>].state = "NONE",
           \A o \in Products \X Transfers :
              pending'[o].state # "NONE" => pending'[o].state = pending[o].state
    PROVE  Good
<1>4. \A s \in RequestKeys : downlinks'[s] = IF s = r THEN link ELSE downlinks[s]
  BY DEF IndInv, TypeOK
<1>5. TypeOK'
  <2>1. downlinks' \in [RequestKeys -> Downlink]
    BY DEF IndInv, TypeOK
  <2>2. QED BY <2>1 DEF IndInv, TypeOK, allocation, ledger
<1>6. Correlated'
  BY <1>4 DEF IndInv, TypeOK, Correlated
<1>7. FileStateIsOwn'
  <2>1. SUFFICES ASSUME NEW s \in RequestKeys,
                        downlinks'[s].state \in {"RECEIVING", "VERIFIED", "CANCELED"}
                 PROVE  \E u \in Transfers : carried[u].req = s /\ downlinks'[s].transfer = u
                                               /\ downlinks'[s].state \in observed'[u]
    BY DEF FileStateIsOwn
  <2>2. CASE s = r
    BY <2>1, <2>2, <1>4
  <2>3. CASE s # r
    BY <2>1, <2>3, <1>4 DEF IndInv, FileStateIsOwn
  <2>4. QED BY <2>2, <2>3
<1>8. NothingStranded'
  <2>1. SUFFICES ASSUME NEW s \in RequestKeys, NEW u \in Transfers,
                        downlinks'[s].product # None, downlinks'[s].transfer = u
                 PROVE  pending'[<<downlinks'[s].product, u>>].state = "NONE"
    BY DEF NothingStranded
  <2>2. CASE s = r
    BY <2>1, <2>2, <1>4
  <2>3. CASE s # r
    <3>1. downlinks'[s] = downlinks[s] /\ downlinks[s].product \in Products
      BY <2>1, <2>3, <1>4 DEF IndInv, TypeOK, Downlink
    <3>2. pending[<<downlinks[s].product, u>>].state = "NONE"
      BY <2>1, <3>1 DEF IndInv, NothingStranded
    <3>3. QED BY <3>1, <3>2
  <2>4. QED BY <2>2, <2>3
<1>9. RowsBacked'
  <2>1. commands' = commands /\ issued' = issued
    BY DEF allocation, ledger
  <2>2. Present(r) /\ link.product # None
    BY KeysAssumption DEF IndInv, RowsBacked, NoDownlink
  <2>3. QED BY <2>1, <2>2, <1>4 DEF IndInv, RowsBacked, Present
<1>10. Advance
  <2>1. \A x : Rank(x) \in Int
    BY DEF Rank
  <2>2. QED BY <2>1, <1>4 DEF Advance, Moves
<1>11. QED BY <1>5, <1>6, <1>7, <1>8, <1>9, <1>10, LedgerSame DEF Good, IndInv

\* update_product_downlink_transfer.
LEMMA ReceiveReceiptInv ==
    ASSUME IndInv, NEW t \in Transfers, NEW report \in {"DISPATCHED", "FAILED"},
           NEW at \in 1 .. now, ReceiveReceipt(t, report, at)
    PROVE  Good
<1>. DEFINE r == carried[t].req
            o == <<downlinks[r].product, t>>
            kept == PendingAt(at)
<1>1. carried[t] # NoCarriage /\ UNCHANGED <<now, allocation, ledger, satellite>>
  BY DEF ReceiveReceipt
<1>2. r \in RequestKeys /\ downlinks[r] \in Downlink
  BY <1>1 DEF IndInv, TypeOK, Correlated
<1>3. /\ kept \in [Products \X Transfers -> Observation]
      /\ \A q \in Products \X Transfers :
            kept[q].state # "NONE" => kept[q].state = pending[q].state
  BY PendingAtKeeps DEF IndInv
<1>4. CASE downlinks[r].product = None
  <2>1. pending' = PendingAt(at) /\ downlinks' = downlinks
    BY <1>4 DEF ReceiveReceipt
  <2>2. ReconcilePending(at)
    BY <1>1, <2>1 DEF ReconcilePending
  <2>3. QED BY <2>2, ReconcilePendingInv
<1>5. CASE downlinks[r].product # None
  <2>. DEFINE state == Merged(Monotonic(downlinks[r].state, report), kept[o])
              link == [downlinks[r] EXCEPT !.transfer = t, !.state = state]
  <2>1. /\ downlinks[r].transfer \in {None, t}
        /\ downlinks' = [downlinks EXCEPT ![r].transfer = t, ![r].state = state]
        /\ pending' = [kept EXCEPT ![o] = NoObservation]
    BY <1>5 DEF ReceiveReceipt, AfterReceipt
  <2>2. o \in Products \X Transfers /\ downlinks[r].product \in Products
    BY <1>2, <1>5 DEF Downlink
  <2>. DEFINE mid == Monotonic(downlinks[r].state, report)
  <2>3. downlinks[r].state \in TransferStates /\ report \in TransferStates
    BY <1>2 DEF Downlink, TransferStates, FileStates
  <2>4. /\ mid \in {downlinks[r].state, report}
        /\ Rank(mid) >= Rank(downlinks[r].state)
        /\ Rank(downlinks[r].state) = 3 => mid = downlinks[r].state
        /\ Rank(downlinks[r].state) \in Int
    BY <2>3, MonotonicAdvances
  <2>5. mid \in TransferStates
    BY <2>3, <2>4
  <2>6. kept[o].state \in FileStates \cup {"NONE"}
    BY <1>3, <2>2 DEF Observation
  <2>7. state = mid \/ (kept[o].state \in TransferStates /\ state = Monotonic(mid, kept[o].state))
    BY <2>6 DEF Merged, TransferStates
  <2>8. Moves(r, state)
    <3>1. CASE state = mid
      BY <3>1, <2>4, <2>5 DEF Moves
    <3>2. CASE kept[o].state \in TransferStates /\ state = Monotonic(mid, kept[o].state)
      <4>. HIDE DEF mid, kept, o, state
      <4>1. /\ state \in {mid, kept[o].state}
            /\ Rank(state) >= Rank(mid)
            /\ Rank(mid) = 3 => state = mid
            /\ Rank(mid) \in Int
        BY <3>2, <2>5, MonotonicAdvances
      <4>2. Rank(state) \in Int
        BY DEF Rank
      <4>3. QED BY <3>2, <4>1, <4>2, <2>4, <2>5 DEF Moves
    <3>3. QED BY <2>7, <3>1, <3>2
  <2>9. state \in {"RECEIVING", "VERIFIED", "CANCELED"} => state \in observed[t]
    <3>1. ASSUME downlinks[r].state \in {"RECEIVING", "VERIFIED", "CANCELED"}
          PROVE  downlinks[r].state \in observed[t]
      <4>1. PICK u \in Transfers : downlinks[r].transfer = u /\ downlinks[r].state \in observed[u]
        BY <3>1, <1>2 DEF IndInv, FileStateIsOwn
      <4>2. u = t
        BY <4>1, <2>1, KeysAssumption
      <4>3. QED BY <4>1, <4>2
    <3>2. kept[o].state # "NONE" => kept[o].state \in observed[t]
      BY <1>3, <2>2 DEF IndInv, Correlated
    <3>3. state \in {downlinks[r].state, report, kept[o].state} /\ (state = kept[o].state => state # "NONE")
      <4>1. "NONE" \notin TransferStates
        BY DEF TransferStates, FileStates
      <4>2. state \in TransferStates
        BY <2>8 DEF Moves
      <4>. HIDE DEF mid, kept, o, state
      <4>3. state = mid \/ state \in {mid, kept[o].state}
        BY <2>5, <2>7, MonotonicAdvances
      <4>4. QED BY <4>1, <4>2, <4>3, <2>4
    <3>4. QED BY <3>1, <3>2, <3>3
  <2>10. /\ link \in Downlink
         /\ link.product = downlinks[r].product
         /\ link.transfer = t
         /\ link.state = state
    <3>1. state \in TransferStates
      BY <2>8 DEF Moves
    <3>. HIDE DEF state, r
    <3>2. QED BY <3>1, <1>2 DEF Downlink
  <2>11. downlinks' = [downlinks EXCEPT ![r] = link]
    <3>1. downlinks \in [RequestKeys -> Downlink]
      BY DEF IndInv, TypeOK
    <3>. HIDE DEF state, r
    <3>2. QED BY <3>1, <2>1, <1>2
  <2>12. /\ pending' \in [Products \X Transfers -> Observation]
         /\ pending'[o].state = "NONE"
         /\ \A q \in Products \X Transfers :
               pending'[q].state # "NONE" => pending'[q].state = pending[q].state
    <3>1. NoObservation \in Observation /\ NoObservation.state = "NONE"
      BY DEF NoObservation, Observation
    <3>. HIDE DEF kept, o
    <3>2. QED BY <3>1, <2>1, <2>2, <1>3
  <2>13. UNCHANGED <<now, allocation, ledger, carried>> /\ observed' = observed
    BY <1>1 DEF satellite
  <2>14. observed' \in [Transfers -> SUBSET FileStates]
    BY <2>13 DEF IndInv, TypeOK
  <2>. HIDE DEF link, state
  <2>15. QED BY <1>2, <2>1, <2>2, <2>8, <2>9, <2>10, <2>11, <2>12, <2>13, <2>14, DownlinkMoves
<1>6. QED BY <1>4, <1>5

\* update_product_downlink_file_state.
LEMMA ReceiveFileInv ==
    ASSUME IndInv, NEW t \in Transfers, NEW report \in FileStates,
           NEW at \in 1 .. now, ReceiveFile(t, report, at)
    PROVE  Good
<1>. DEFINE p == carried[t].product
            o == <<p, t>>
            kept == PendingAt(at)
<1>1. /\ carried[t] # NoCarriage
      /\ observed' = [observed EXCEPT ![t] = @ \cup {report}]
      /\ UNCHANGED <<now, allocation, ledger, carried>>
  BY DEF ReceiveFile
<1>2. p \in Products /\ o \in Products \X Transfers
  BY <1>1 DEF IndInv, Correlated
<1>3. /\ kept \in [Products \X Transfers -> Observation]
      /\ \A q \in Products \X Transfers :
            kept[q].state # "NONE" => kept[q].state = pending[q].state
  BY PendingAtKeeps DEF IndInv
<1>4. /\ observed' \in [Transfers -> SUBSET FileStates]
      /\ \A u \in Transfers : observed[u] \subseteq observed'[u]
      /\ report \in observed'[t]
  BY <1>1 DEF IndInv, TypeOK
<1>5. report \in TransferStates
  BY DEF TransferStates
<1>6. CASE Claimants(p, t) # {}
  <2>1. PICK r \in Claimants(p, t) :
           downlinks' = [downlinks EXCEPT ![r].state = Monotonic(@, report)]
    BY <1>6 DEF ReceiveFile
  <2>2. pending' = kept
    BY <1>6 DEF ReceiveFile
  <2>3. r \in RequestKeys /\ downlinks[r].product = p /\ downlinks[r].transfer = t
    BY <2>1 DEF Claimants
  <2>4. carried[t].req = r
    BY <2>3 DEF IndInv, Correlated
  <2>. DEFINE state == Monotonic(downlinks[r].state, report)
              link == [downlinks[r] EXCEPT !.state = state]
  <2>5. downlinks \in [RequestKeys -> Downlink] /\ downlinks[r] \in Downlink
    BY <2>3 DEF IndInv, TypeOK
  <2>6. downlinks[r].state \in TransferStates
    BY <2>5 DEF Downlink
  <2>7. Moves(r, state) /\ state \in {downlinks[r].state, report}
    BY <2>6, <1>5, MonotonicAdvances DEF Moves
  <2>8. state \in {"RECEIVING", "VERIFIED", "CANCELED"} => state \in observed'[t]
    <3>1. ASSUME downlinks[r].state \in {"RECEIVING", "VERIFIED", "CANCELED"}
          PROVE  downlinks[r].state \in observed[t]
      BY <3>1, <2>3 DEF IndInv, FileStateIsOwn
    <3>2. QED BY <3>1, <2>7, <1>4
  <2>9. state \in TransferStates
    BY <2>7 DEF Moves
  <2>. HIDE DEF state, p
  <2>10. /\ link \in Downlink
         /\ link.product = downlinks[r].product
         /\ link.transfer = t
         /\ link.state = state
    BY <2>3, <2>5, <2>9 DEF Downlink
  <2>11. downlinks' = [downlinks EXCEPT ![r] = link]
    BY <2>1, <2>3, <2>5 DEF state
  <2>12. pending'[<<downlinks[r].product, t>>].state = "NONE"
    <3>1. downlinks[r].product # None
      BY <1>2, <2>3, KeysAssumption
    <3>2. pending[<<downlinks[r].product, t>>].state = "NONE"
      BY <3>1, <2>3 DEF IndInv, NothingStranded
    <3>3. QED BY <3>2, <2>2, <2>3, <1>2, <1>3
  <2>. HIDE DEF link
  <2>13. QED BY <2>2, <2>3, <2>4, <2>7, <2>8, <2>10, <2>11, <2>12, <1>1, <1>2, <1>3, <1>4, DownlinkMoves
<1>7. CASE Claimants(p, t) = {}
  <2>. DEFINE new == Deferred(kept[o], report, at)
  <2>1. pending' = [kept EXCEPT ![o] = new] /\ downlinks' = downlinks
    BY <1>7 DEF ReceiveFile
  <2>2. kept[o] \in Observation
    BY <1>2, <1>3
  <2>3. at + PendingTTL \in Nat
    BY LimitsAssumption DEF IndInv, TypeOK
  <2>4. new \in Observation /\ new.state \in observed'[t]
    <3>1. CASE kept[o].state = "NONE"
      <4>1. new = [state |-> report, until |-> at + PendingTTL]
        BY <3>1 DEF Deferred
      <4>2. QED BY <4>1, <1>4, <2>3 DEF Observation
    <3>2. CASE kept[o].state # "NONE"
      <4>. DEFINE s == kept[o].state
      <4>1. s \in FileStates /\ s \in TransferStates /\ s \in observed[t]
        BY <3>2, <2>2, <1>2, <1>3 DEF IndInv, Correlated, Observation, TransferStates
      <4>2. Monotonic(s, report) \in {s, report}
        BY <4>1, <1>5, MonotonicAdvances
      <4>3. new = [kept[o] EXCEPT !.state = Monotonic(s, report)]
        BY <3>2, <2>2 DEF Observation, Deferred
      <4>. HIDE DEF s, kept, new
      <4>4. new \in Observation /\ new.state = Monotonic(s, report)
        BY <4>1, <4>2, <4>3, <2>2 DEF Observation
      <4>5. QED BY <4>1, <4>2, <4>4, <1>4
    <3>3. QED BY <3>1, <3>2
  <2>. HIDE DEF new, kept, o
  <2>5. pending' \in [Products \X Transfers -> Observation]
        /\ \A q \in Products \X Transfers : pending'[q] = IF q = o THEN new ELSE kept[q]
    BY <2>1, <2>4, <1>2, <1>3
  <2>6. TypeOK'
    BY <2>1, <2>5, <1>1, <1>4 DEF IndInv, TypeOK, allocation, ledger
  <2>7. Correlated'
    <3>1. ASSUME NEW q \in Products, NEW u \in Transfers, pending'[<<q, u>>].state # "NONE"
          PROVE  pending'[<<q, u>>].state \in observed'[u]
      <4>1. CASE <<q, u>> = o
        BY <4>1, <2>4, <2>5 DEF o
      <4>2. CASE <<q, u>> # o
        BY <3>1, <4>2, <2>5, <1>3, <1>4 DEF IndInv, Correlated
      <4>3. QED BY <4>1, <4>2
    <3>2. carried' = carried
      BY <1>1
    <3>3. QED BY <3>1, <3>2, <2>1 DEF IndInv, Correlated
  <2>8. FileStateIsOwn'
    BY <2>1, <1>1, <1>4 DEF IndInv, FileStateIsOwn
  <2>9. NothingStranded'
    <3>1. SUFFICES ASSUME NEW s \in RequestKeys, NEW u \in Transfers,
                          downlinks[s].product # None, downlinks[s].transfer = u
                   PROVE  pending'[<<downlinks[s].product, u>>].state = "NONE"
      BY <2>1 DEF NothingStranded
    <3>2. downlinks[s].product \in Products
      BY <3>1 DEF IndInv, TypeOK, Downlink
    <3>3. <<downlinks[s].product, u>> # o
      BY <3>1, <1>7 DEF Claimants, o
    <3>4. pending[<<downlinks[s].product, u>>].state = "NONE"
      BY <3>1 DEF IndInv, NothingStranded
    <3>5. QED BY <3>2, <3>3, <3>4, <2>5, <1>3
  <2>10. RowsBacked'
    BY <2>1, <1>1 DEF IndInv, RowsBacked, allocation, ledger, Present
  <2>11. Advance
    <3>1. \A x : Rank(x) \in Int
      BY DEF Rank
    <3>2. QED BY <3>1, <2>1 DEF Advance
  <2>12. QED BY <2>6, <2>7, <2>8, <2>9, <2>10, <2>11, <1>1, LedgerSame DEF Good, IndInv
<1>8. QED BY <1>6, <1>7

(***************************************************************************)
(* The theorems.                                                           *)
(***************************************************************************)
\* A step that changes nothing.
LEMMA StutterInv ==
    ASSUME IndInv, UNCHANGED vars
    PROVE  Good
<1>1. UNCHANGED <<now, allocation, ledger, transfers, satellite>>
  BY DEF vars
<1>2. TypeOK'
  BY <1>1 DEF IndInv, TypeOK, allocation, ledger, transfers, satellite
<1>3. RowsBacked'
  BY <1>1 DEF IndInv, RowsBacked, allocation, ledger, transfers, Present
<1>4. QED BY <1>1, <1>2, <1>3, LedgerSame, TransfersSame DEF Good, IndInv

\* Every operation of the ledger keeps the invariant and is allowed to happen.
LEMMA StepInv ==
    ASSUME IndInv, [Next]_vars
    PROVE  Good
<1>1. FileReports \subseteq FileStates
  BY KeysAssumption DEF FileStates
<1>2. QED
  BY <1>1, TickInv, InitializeInv, RotateInv, RetireTargetInv, ReplayInv, AdmitInv, SettleInv,
     RetireCommandInv, CarryInv, AdmitDownlinkInv, ReconcilePendingInv, ReceiveReceiptInv,
     ReceiveFileInv, StutterInv
  DEF Next

\* The ledger's tables are well formed in every reachable state.
THEOREM Invariance == Spec => []IndInv
<1>1. IndInv /\ [Next]_vars => IndInv'
  BY StepInv DEF Good
<1>2. QED BY InitInv, <1>1, PTL DEF Spec

\* Namespaces, file states and deferred reports: the invariants of the runs
\* admission and downlink, for every size of the tables.
THEOREM LedgerSafety ==
    Spec => [](TypeOK /\ NamespacesCoherent /\ FileStateIsOwn /\ NothingStranded)
<1>1. IndInv => TypeOK /\ NamespacesCoherent /\ FileStateIsOwn /\ NothingStranded
  BY DEF IndInv
<1>2. QED BY <1>1, Invariance, PTL

\* RequestKeyAllocator never hands out a RequestKey twice.
THEOREM KeysAreFresh == Spec => NoKeyReuse
<1>1. IndInv /\ [Next]_vars => [FreshKey]_vars
  BY StepInv DEF Good
<1>2. QED BY <1>1, Invariance, PTL DEF Spec, NoKeyReuse

\* admit answers a repeated Idempotency-Key with the same command until its
\* retention has run out.
THEOREM AdmissionIsIdempotent == Spec => OneCommandPerKey
<1>1. IndInv /\ [Next]_vars => [SameAnswer]_vars
  BY StepInv DEF Good
<1>2. QED BY <1>1, Invariance, PTL DEF Spec, OneCommandPerKey

\* A product transfer never moves back, whatever telemetry arrives.
THEOREM TransfersAdvance == Spec => TransferOnlyAdvances
<1>1. IndInv /\ [Next]_vars => [Advance]_vars
  BY StepInv DEF Good
<1>2. QED BY <1>1, Invariance, PTL DEF Spec, TransferOnlyAdvances

(***************************************************************************)
(* Rows are unique.  Transfers are by Correlated and client keys by        *)
(* AnswersBacked; what is left to show is about ordinals.                  *)
(***************************************************************************)
\* A command has a client's key and no downlink, or the key made of its
\* downlink's product and ordinal; these two tell downlinks apart.
RowsKeyed ==
    /\ \A r \in RequestKeys : Present(r) =>
          \/ commands[r].key \in ClientKeys /\ downlinks[r].product = None
          \/ /\ downlinks[r].product \in Products /\ downlinks[r].ordinal \in Ordinals
             /\ commands[r].key = <<downlinks[r].product, downlinks[r].ordinal>>
    /\ \A r, s \in RequestKeys :
          r # s /\ downlinks[r].product # None /\ downlinks[r].product = downlinks[s].product =>
             downlinks[r].ordinal # downlinks[s].ordinal

\* A step that adds no row and gives none another key, product or ordinal.
LEMMA RowsKeyedStay ==
    ASSUME RowsKeyed,
           \A r \in RequestKeys : commands'[r].state # "ABSENT" =>
              /\ Present(r) /\ commands'[r].key = commands[r].key
              /\ downlinks'[r].product = downlinks[r].product
              /\ downlinks'[r].ordinal = downlinks[r].ordinal,
           \A r \in RequestKeys : downlinks'[r].product # None =>
              /\ downlinks'[r].product = downlinks[r].product
              /\ downlinks'[r].ordinal = downlinks[r].ordinal
    PROVE  RowsKeyed'
BY DEF RowsKeyed, Present

\* The same for a step on the downlink of one request.
LEMMA LinkMoves ==
    ASSUME IndInv, RowsKeyed, UNCHANGED ledger, NEW r \in RequestKeys, NEW link,
           link.product = downlinks[r].product, link.ordinal = downlinks[r].ordinal,
           downlinks' = [downlinks EXCEPT ![r] = link]
    PROVE  RowsKeyed'
<1>1. commands' = commands /\ downlinks \in [RequestKeys -> Downlink]
  BY DEF ledger, IndInv, TypeOK
<1>2. \A s \in RequestKeys : /\ downlinks'[s].product = downlinks[s].product
                             /\ downlinks'[s].ordinal = downlinks[s].ordinal
  BY <1>1
<1>3. QED BY <1>1, <1>2, RowsKeyedStay DEF Present

\* The row of an admission is new.
LEMMA AdmittedRow ==
    ASSUME IndInv, NEW r \in RequestKeys, Allocate(r)
    PROVE  ~Present(r) /\ downlinks[r].product = None
<1>1. HandsOut(r)
  BY AllocateHandsOut DEF IndInv
<1>2. QED BY <1>1 DEF IndInv, RowsBacked, HandsOut, NoDownlink

LEMMA AdmitKeyed ==
    ASSUME IndInv, RowsKeyed, NEW k \in ClientKeys, NEW b \in Bodies, Admit(k, b)
    PROVE  RowsKeyed'
<1>. DEFINE row == [state |-> "LIVE", key |-> k, digest |-> b]
<1>1. PICK r \in RequestKeys : Allocate(r) /\ commands' = [commands EXCEPT ![r] = row]
  BY DEF Admit
<1>2. downlinks' = downlinks
  BY DEF Admit, transfers
<1>3. downlinks[r].product = None
  BY <1>1, AdmittedRow
<1>4. row.key = k
  OBVIOUS
<1>. HIDE DEF row
<1>5. \A s \in RequestKeys : commands'[s] = IF s = r THEN row ELSE commands[s]
  BY <1>1 DEF IndInv, TypeOK
<1>6. QED BY <1>2, <1>3, <1>4, <1>5 DEF RowsKeyed, Present

LEMMA AdmitDownlinkKeyed ==
    ASSUME IndInv, RowsKeyed, NEW p \in Products, AdmitDownlink(p)
    PROVE  RowsKeyed'
<1>. DEFINE n == NextOrdinal(p)
            row == [state |-> "LIVE", key |-> <<p, n>>, digest |-> p]
            link == [product |-> p, ordinal |-> n, transfer |-> None, state |-> "ADMITTED"]
<1>1. PICK r \in RequestKeys :
         Allocate(r) /\ commands' = [commands EXCEPT ![r] = row]
         /\ downlinks' = [downlinks EXCEPT ![r] = link]
  BY DEF AdmitDownlink
<1>2. n \in Ordinals /\ \A s \in Admissions(p) : downlinks[s].ordinal < n
  BY NextOrdinalIsNew, LimitsAssumption DEF AdmitDownlink, IndInv, Ordinals
<1>3. downlinks[r].product = None /\ p # None
  BY <1>1, AdmittedRow, KeysAssumption
<1>4. row.key = <<p, n>> /\ link.product = p /\ link.ordinal = n
  OBVIOUS
<1>. HIDE DEF row, link, n
<1>5. \A s \in RequestKeys :
         /\ commands'[s] = IF s = r THEN row ELSE commands[s]
         /\ downlinks'[s] = IF s = r THEN link ELSE downlinks[s]
  BY <1>1 DEF IndInv, TypeOK
<1>6. \A s \in RequestKeys : downlinks[s].product = p => downlinks[s].ordinal # n
  <2>1. \A s \in RequestKeys : downlinks[s].ordinal \in Nat
    BY DEF IndInv, TypeOK, Downlink
  <2>2. QED BY <1>2, <2>1 DEF Admissions, Ordinals
<1>7. QED BY <1>2, <1>3, <1>4, <1>5, <1>6 DEF RowsKeyed, Present

\* Every other step keeps keys, products and ordinals, or takes a row away.
LEMMA OtherKeyed ==
    ASSUME IndInv, RowsKeyed, NEW r \in RequestKeys
    PROVE  /\ \A outcome \in Outcomes : Settle(r, outcome) => RowsKeyed'
           /\ RetireCommand(r) => RowsKeyed'
<1>1. commands \in [RequestKeys -> Command] /\ downlinks \in [RequestKeys -> Downlink]
  BY DEF IndInv, TypeOK
<1>2. ASSUME NEW outcome \in Outcomes, Settle(r, outcome) PROVE RowsKeyed'
  <2>1. /\ Present(r) /\ commands' = [commands EXCEPT ![r].state = outcome]
        /\ downlinks' = downlinks
    BY <1>2 DEF Settle, transfers, Present
  <2>2. \A s \in RequestKeys : commands'[s].key = commands[s].key
                               /\ (commands'[s].state # "ABSENT" => Present(s))
    <3>1. \A s \in RequestKeys \ {r} : commands'[s] = commands[s]
      BY <1>1, <2>1
    <3>2. commands'[r].key = commands[r].key
      BY <1>1, <2>1 DEF Command
    <3>3. QED BY <2>1, <3>1, <3>2 DEF Present
  <2>3. QED BY <2>1, <2>2, RowsKeyedStay
<1>3. ASSUME RetireCommand(r) PROVE RowsKeyed'
  <2>1. /\ commands' = [commands EXCEPT ![r] = NoCommand]
        /\ downlinks' = [downlinks EXCEPT ![r] = NoDownlink]
    BY <1>3 DEF RetireCommand
  <2>2. /\ commands'[r].state = "ABSENT" /\ downlinks'[r].product = None
        /\ \A s \in RequestKeys \ {r} : commands'[s] = commands[s] /\ downlinks'[s] = downlinks[s]
    BY <1>1, <2>1 DEF NoCommand, NoDownlink
  <2>3. QED BY <2>2, RowsKeyedStay DEF Present
<1>4. QED BY <1>2, <1>3

LEMMA KeyedStep ==
    ASSUME IndInv, RowsKeyed, [Next]_vars
    PROVE  RowsKeyed'
<1>1. commands \in [RequestKeys -> Command] /\ downlinks \in [RequestKeys -> Downlink]
  BY DEF IndInv, TypeOK
<1>2. CASE commands' = commands /\ downlinks' = downlinks
  BY <1>2, RowsKeyedStay DEF Present
<1>3. CASE RetireTarget
  <2>1. /\ commands' = [s \in RequestKeys |->
                          IF commands[s].state = "LIVE"
                          THEN [commands[s] EXCEPT !.state = "FAILED"] ELSE commands[s]]
        /\ downlinks' = downlinks
    BY <1>3 DEF RetireTarget, transfers
  <2>2. ASSUME NEW s \in RequestKeys
        PROVE  commands'[s].key = commands[s].key /\ (commands'[s].state # "ABSENT" => Present(s))
    <3>1. CASE commands[s].state = "LIVE"
      <4>1. commands[s] \in Command /\ commands'[s] = [commands[s] EXCEPT !.state = "FAILED"]
        BY <1>1, <2>1, <3>1
      <4>2. QED BY <3>1, <4>1 DEF Command, Present
    <3>2. CASE commands[s].state # "LIVE"
      BY <2>1, <3>2 DEF Present
    <3>3. QED BY <3>1, <3>2
  <2>3. QED BY <2>1, <2>2, RowsKeyedStay
<1>4. ASSUME NEW t \in Transfers, NEW report \in {"DISPATCHED", "FAILED"}, NEW at \in 1 .. now,
             ReceiveReceipt(t, report, at)
      PROVE  RowsKeyed'
  <2>. DEFINE r == carried[t].req
  <2>1. UNCHANGED ledger /\ r \in RequestKeys
    BY <1>4 DEF ReceiveReceipt, IndInv, Correlated
  <2>2. CASE downlinks' = downlinks
    BY <1>2, <2>1, <2>2 DEF ledger
  <2>3. CASE downlinks' # downlinks
    <3>1. PICK state : downlinks' = [downlinks EXCEPT ![r].transfer = t, ![r].state = state]
      BY <1>4, <2>3 DEF ReceiveReceipt
    <3>. DEFINE link == [downlinks[r] EXCEPT !.transfer = t, !.state = state]
    <3>. HIDE DEF r
    <3>2. downlinks' = [downlinks EXCEPT ![r] = link] /\ downlinks[r] \in Downlink
      BY <1>1, <2>1, <3>1
    <3>3. link.product = downlinks[r].product /\ link.ordinal = downlinks[r].ordinal
      BY <3>2 DEF Downlink
    <3>. HIDE DEF link
    <3>4. QED BY <2>1, <3>2, <3>3, LinkMoves
  <2>4. QED BY <2>2, <2>3
<1>5. ASSUME NEW t \in Transfers, NEW report \in FileReports, NEW at \in 1 .. now,
             ReceiveFile(t, report, at)
      PROVE  RowsKeyed'
  <2>1. UNCHANGED ledger
    BY <1>5 DEF ReceiveFile
  <2>2. CASE downlinks' = downlinks
    BY <1>2, <2>1, <2>2 DEF ledger
  <2>3. CASE downlinks' # downlinks
    <3>. PICK r \in RequestKeys : \E s : downlinks' = [downlinks EXCEPT ![r].state = s]
      BY <1>5, <2>3 DEF ReceiveFile, Claimants
    <3>1. PICK state : downlinks' = [downlinks EXCEPT ![r].state = state]
      OBVIOUS
    <3>. DEFINE link == [downlinks[r] EXCEPT !.state = state]
    <3>2. downlinks' = [downlinks EXCEPT ![r] = link] /\ downlinks[r] \in Downlink
      BY <1>1, <3>1
    <3>3. link.product = downlinks[r].product /\ link.ordinal = downlinks[r].ordinal
      BY <3>2 DEF Downlink
    <3>. HIDE DEF link
    <3>4. QED BY <2>1, <3>2, <3>3, LinkMoves
  <2>4. QED BY <2>2, <2>3
<1>6. CASE \/ Tick \/ Initialize \/ RotateIfDrained
           \/ \E k \in ClientKeys, b \in Bodies : Replay(k, b)
           \/ \E r \in RequestKeys, t \in Transfers : Carry(r, t)
           \/ \E at \in 1 .. now : ReconcilePending(at)
           \/ UNCHANGED vars
  BY <1>2, <1>6 DEF Tick, Initialize, RotateIfDrained, Replay, Carry, ReconcilePending, vars,
                    ledger, transfers
<1>7. QED BY <1>3, <1>4, <1>5, <1>6, AdmitKeyed, AdmitDownlinkKeyed, OtherKeyed DEF Next

\* The UNIQUE constraints never stop an admission or a receipt (commands,
\* product_downlink_ledger).
THEOREM RowsAreUnique == Spec => []UniqueRows
<1>1. Init => RowsKeyed
  BY DEF Init, RowsKeyed, Present, NoCommand, NoDownlink
<1>2. IndInv /\ RowsKeyed /\ [Next]_vars => RowsKeyed'
  BY KeyedStep
<1>3. ASSUME IndInv, RowsKeyed PROVE UniqueRows
  <2>1. SUFFICES ASSUME NEW r \in RequestKeys, NEW s \in RequestKeys, r # s
                 PROVE  /\ Present(r) /\ Present(s) => commands[r].key # commands[s].key
                        /\ downlinks[r].product # None /\ downlinks[r].product = downlinks[s].product =>
                              downlinks[r].ordinal # downlinks[s].ordinal
                        /\ downlinks[r].transfer # None => downlinks[r].transfer # downlinks[s].transfer
    BY DEF UniqueRows
  <2>2. ASSUME downlinks[r].transfer # None, downlinks[r].transfer = downlinks[s].transfer PROVE FALSE
    <3>1. downlinks[r].transfer \in Transfers
      BY <1>3, <2>2 DEF IndInv, TypeOK, Downlink
    <3>2. QED BY <1>3, <2>1, <2>2, <3>1 DEF IndInv, Correlated
  <2>3. ASSUME Present(r), Present(s), commands[r].key = commands[s].key PROVE FALSE
    <3>1. CASE commands[r].key \in ClientKeys
      BY <1>3, <2>1, <2>3, <3>1 DEF IndInv, AnswersBacked
    <3>2. CASE commands[r].key \notin ClientKeys
      <4>1. /\ commands[r].key = <<downlinks[r].product, downlinks[r].ordinal>>
            /\ commands[s].key = <<downlinks[s].product, downlinks[s].ordinal>>
            /\ downlinks[r].product \in Products
        BY <1>3, <2>3, <3>2 DEF RowsKeyed
      <4>2. downlinks[r].product # None
        BY <4>1, KeysAssumption
      <4>3. downlinks[r].product = downlinks[s].product /\ downlinks[r].ordinal = downlinks[s].ordinal
        <5>1. \A a, b, c, d : <<a, b>> = <<c, d>> => a = c /\ b = d
          OBVIOUS
        <5>2. <<downlinks[r].product, downlinks[r].ordinal>> = <<downlinks[s].product, downlinks[s].ordinal>>
          BY <2>3, <4>1
        <5>3. QED BY <5>1, <5>2
      <4>4. QED BY <1>3, <2>1, <4>2, <4>3 DEF RowsKeyed
    <3>3. QED BY <3>1, <3>2
  <2>4. QED BY <1>3, <2>1, <2>2, <2>3 DEF RowsKeyed
<1>4. QED BY <1>1, <1>2, <1>3, Invariance, PTL DEF Spec

\* Whatever file reassembly reported of a transfer is no longer deferred once
\* the receipt has named its downlink (update_product_downlink_transfer).
THEOREM ReportsJoin == Spec => []NothingStranded
<1>1. IndInv => NothingStranded
  BY DEF IndInv
<1>2. QED BY <1>1, Invariance, PTL
=============================================================================
