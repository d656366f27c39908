-------------------------- MODULE DirectoryProofs --------------------------
(***************************************************************************)
(* Proofs about NodeStore and about Consensus, which is composed with it,  *)
(* for every value of their constants.                                     *)
(*                                                                         *)
(* The store first.  TypeOK is inductive by itself.  The safety properties *)
(* are not: each one speaks of the store in memory, but a restart replaces *)
(* it by the file, so the strengthening StoreInv says the same of both;    *)
(* and the wake-up property needs to know that an entry never probed is    *)
(* not reachable, and that a node which moved since the round under way    *)
(* began has no verdict yet.                                               *)
(*                                                                         *)
(* Then what Consensus promises of the documents in the cache, for any     *)
(* nodes, handlers, limits and times.  A document that was begun under the *)
(* store's present version has seen all that the store changed since then, *)
(* except heartbeats with an unchanged descriptor, which are the one       *)
(* change that leaves the version as it is.                                *)
(***************************************************************************)
EXTENDS Consensus, FiniteSetTheorems, TLAPS

----------------------------------------------------------------------------
\* Type correctness.

\* The entry a registration stores is an entry.
LEMMA RenewedType ==
    ASSUME TypeOK, NEW d \in Descriptor, NEW old \in Entry \cup {NoEntry}
    PROVE  Renewed(old, d) \in Entry
BY DEF TypeOK, Renewed, Entry

\* A round tries endpoints.
LEMMA ProbedAtType ==
    ASSUME TypeOK, NEW n, \E d \in targets : d.id = n
    PROVE  ProbedAt(n) \in Endpoint
<1> DEFINE t == CHOOSE d \in targets : d.id = n
<1>1. t \in targets
  OBVIOUS
<1>2. t \in Descriptor
  BY <1>1 DEF TypeOK
<1> QED BY <1>2 DEF ProbedAt, At, Endpoint, Descriptor

\* The map a restart builds is a store.
LEMMA LoadType ==
    ASSUME NEW s \in [Node -> Entry \cup {NoEntry}]
    PROVE  Load(s) \in [Node -> Entry \cup {NoEntry}]
BY DEF Load

\* A handler past its pre-lock checks holds a descriptor.
LEMMA BusyHandler ==
    ASSUME TypeOK, NEW h \in Handler, handler[h].pc # "idle"
    PROVE  handler[h] \in [pc : {"store", "kick"}, desc : Descriptor,
                           live : BOOLEAN, reachable : BOOLEAN]
BY DEF TypeOK, HandlerState, Idle

\* NodeStore: every variable keeps its type.
THEOREM TypeCorrect == Spec => []TypeOK
<1> USE BoundsAssumption
<1>1. Init => TypeOK
  <2> SUFFICES ASSUME Init PROVE TypeOK
    OBVIOUS
  <2>1. handler \in [Handler -> HandlerState]
    BY DEF Init, HandlerState
  <2>2. nodes \in [Node -> Entry \cup {NoEntry}] /\ disk = nodes
    BY DEF Init
  <2> QED BY <2>1, <2>2 DEF Init, TypeOK
<1>2. TypeOK /\ [Next]_vars => TypeOK'
  <2> SUFFICES ASSUME TypeOK, [Next]_vars PROVE TypeOK'
    OBVIOUS
  <2>1. ASSUME NEW h \in Handler, NEW d \in Descriptor, Receive(h, d) PROVE TypeOK'
    BY <2>1 DEF TypeOK, Receive, HandlerState, storeVars, proberVars
  <2>2. ASSUME NEW h \in Handler, Refuse(h) PROVE TypeOK'
    BY <2>2 DEF TypeOK, Refuse, HandlerState, storeVars, proberVars, envVars
  <2>3. ASSUME NEW h \in Handler, Accept(h) PROVE TypeOK'
    <3> DEFINE d == handler[h].desc
               entry == Renewed(nodes[d.id], d)
    <3>1. d \in Descriptor /\ d.id \in Node
      BY <2>3, BusyHandler DEF Accept, Descriptor
    <3>2. entry \in Entry
      BY <3>1, RenewedType DEF TypeOK
    <3>3. nodes' \in [Node -> Entry \cup {NoEntry}]
      BY <2>3, <3>1, <3>2 DEF Accept, TypeOK
    <3>4. disk' \in [Node -> Entry \cup {NoEntry}] /\ version' \in Nat
      BY <2>3, <3>3 DEF Accept, Save, TypeOK
    <3>5. handler' \in [Handler -> HandlerState]
      <4>1. entry.reachable \in BOOLEAN
        BY <3>2 DEF Entry
      <4>2. ASSUME NEW g \in Handler PROVE handler'[g] \in HandlerState
        <5>1. CASE g = h
          BY <2>3, <3>1, <4>1, <5>1 DEF Accept, HandlerState
        <5>2. CASE g # h
          <6>1. CASE handler[g].pc = "kick" /\ handler[g].desc.id = d.id
            BY <2>3, <5>2, <6>1, BusyHandler DEF Accept, HandlerState
          <6>2. CASE ~(handler[g].pc = "kick" /\ handler[g].desc.id = d.id)
            BY <2>3, <5>2, <6>2 DEF Accept, TypeOK
          <6> QED BY <6>1, <6>2
        <5> QED BY <5>1, <5>2
      <4> QED BY <2>3, <4>2 DEF Accept
    <3> QED BY <2>3, <3>3, <3>4, <3>5 DEF Accept, TypeOK, proberVars, envVars
  <2>4. ASSUME NEW h \in Handler, Kick(h) PROVE TypeOK'
    BY <2>4 DEF TypeOK, Kick, HandlerState, storeVars, proberVars, envVars
  <2>5. CASE Scan
    BY <2>5 DEF TypeOK, Scan, ProbeTargets, Known, Entry, storeVars, envVars
  <2>6. ASSUME NEW d \in pending, Connect(d) PROVE TypeOK'
    BY <2>6 DEF TypeOK, Connect, Descriptor, storeVars, envVars
  <2>7. CASE ApplyProbe
    <3> DEFINE hit == {d.id : d \in targets} \cap Known(nodes)
               judged == [n \in Node |->
                            IF n \in hit
                            THEN Verdict(nodes[n], n \in up, ProbedAt(n))
                            ELSE nodes[n]]
               flipped == {n \in hit : judged[n].reachable # nodes[n].reachable}
    <3>0. ASSUME NEW n \in hit PROVE judged[n] \in Entry
      <4>1. nodes[n] \in Entry /\ (n \in up) \in BOOLEAN /\ n \in Node
        BY DEF TypeOK, Known
      <4>2. ProbedAt(n) \in Endpoint
        BY ProbedAtType
      <4> QED BY <4>1, <4>2 DEF Verdict, Entry
    <3>1. nodes' \in [Node -> Entry \cup {NoEntry}]
      BY <2>7, <3>0 DEF ApplyProbe, TypeOK
    <3>2. disk' \in [Node -> Entry \cup {NoEntry}]
      BY <2>7, <3>1 DEF ApplyProbe, Save, TypeOK
    <3>3. handler' \in [Handler -> HandlerState]
      <4>1. ASSUME NEW h \in Handler, handler[h].live, handler[h].desc.id \in hit
            PROVE  [handler[h] EXCEPT !.reachable = judged[handler[h].desc.id].reachable]
                      \in HandlerState
        <5>1. handler[h].pc # "idle"
          BY <4>1 DEF TypeOK, HandlerState, Idle
        <5>2. judged[handler[h].desc.id].reachable \in BOOLEAN
          BY <3>0, <4>1 DEF Entry
        <5> HIDE DEF judged
        <5> QED BY <5>1, <5>2, BusyHandler DEF HandlerState
      <4>2. handler' = [h \in Handler |->
               IF handler[h].live /\ handler[h].desc.id \in hit
               THEN [handler[h] EXCEPT !.reachable = judged[handler[h].desc.id].reachable]
               ELSE handler[h]]
        BY <2>7 DEF ApplyProbe
      <4> HIDE DEF judged, hit
      <4> QED BY <4>1, <4>2 DEF TypeOK
    <3>4. version' \in Nat
      <4>1. IsFiniteSet(flipped)
        BY NodeAssumption, FS_Subset DEF Known
      <4>2. Cardinality(flipped) \in Nat
        BY <4>1, FS_CardinalityType
      <4>3. version' = version + Cardinality(flipped)
        BY <2>7 DEF ApplyProbe
      <4> HIDE DEF flipped
      <4> QED BY <4>2, <4>3 DEF TypeOK
    <3> QED BY <2>7, <3>1, <3>2, <3>3, <3>4 DEF ApplyProbe, TypeOK, envVars
  <2>8. CASE Woken
    BY <2>8 DEF TypeOK, Woken, storeVars, envVars
  <2>9. CASE Timer
    BY <2>9 DEF TypeOK, Timer, storeVars, envVars
  <2>10. CASE Tick
    BY <2>10 DEF TypeOK, Tick, storeVars, proberVars
  <2>11. ASSUME NEW e \in Endpoint, Toggle(e) PROVE TypeOK'
    BY <2>11 DEF TypeOK, Toggle, storeVars, proberVars
  <2>12. CASE Restart
    <3>1. nodes' \in [Node -> Entry \cup {NoEntry}]
      BY <2>12, LoadType DEF TypeOK, Restart
    <3>2. handler' \in [Handler -> HandlerState]
      BY <2>12 DEF Restart, HandlerState
    <3>3. version' \in Nat /\ events' \in Nat
      BY <2>12 DEF TypeOK, Restart
    <3>5. wake' \in BOOLEAN
      BY <2>12 DEF Restart
    <3>4. /\ ppc' \in {"scan", "probe", "wait"}
          /\ targets' \subseteq Descriptor /\ pending' \subseteq targets' /\ up' \subseteq Node
      BY <2>12 DEF Restart
    <3> QED BY <2>12, <3>1, <3>2, <3>3, <3>4, <3>5 DEF TypeOK, Restart
  <2>13. CASE UNCHANGED vars
    BY <2>13 DEF TypeOK, vars, proberVars, envVars
  <2> QED
    BY <2>1, <2>2, <2>3, <2>4, <2>5, <2>6, <2>7, <2>8, <2>9, <2>10, <2>11, <2>12, <2>13
       DEF Next, Work
<1> QED BY <1>1, <1>2, PTL DEF Spec

----------------------------------------------------------------------------
\* Which steps write the store.

\* Only three operations write the map or the file.
LEMMA StoreWriters ==
    ASSUME [Next]_vars
    PROVE  \/ \E h \in Handler : Accept(h)
           \/ ApplyProbe
           \/ Restart
           \/ UNCHANGED <<nodes, disk>>
BY DEF Next, Work, Receive, Refuse, Kick, Scan, Connect, Woken, Timer, Tick, Toggle,
       vars, storeVars, proberVars, envVars

\* A restart reads back some of the file's entries, each as it was.
LEMMA LoadShape ==
    ASSUME NEW s
    PROVE  /\ Known(Load(s)) \subseteq Known(s)
           /\ \A n \in Known(Load(s)) : Load(s)[n] = s[n]
BY DEF Load, Known

\* A store with an entry replaced by an accepted registration.
LEMMA AcceptShape ==
    ASSUME TypeOK, NEW h \in Handler, Accept(h)
    PROVE  \E d \in Descriptor :
             /\ d = handler[h].desc
             /\ d.id \in Node
             /\ ~Occupied(nodes, d)
             /\ nodes[d.id] = NoEntry => Room(nodes, d)
             /\ Renewed(nodes[d.id], d) \in Entry
             /\ nodes' = [nodes EXCEPT ![d.id] = Renewed(nodes[d.id], d)]
             /\ disk' = nodes' \/ disk' = disk
<1> DEFINE d == handler[h].desc
<1>1. d \in Descriptor /\ d.id \in Node
  BY BusyHandler DEF Accept, Descriptor
<1>2. nodes[d.id] \in Entry \cup {NoEntry}
  BY <1>1 DEF TypeOK
<1>3. Renewed(nodes[d.id], d) \in Entry
  BY <1>1, <1>2, RenewedType
<1> QED BY <1>1, <1>3 DEF Accept, Save

\* The store after a round of probes: same identities, same descriptors.
LEMMA ApplyShape ==
    ASSUME TypeOK, ApplyProbe
    PROVE  /\ nodes' \in [Node -> Entry \cup {NoEntry}]
           /\ disk' = nodes' \/ disk' = disk
           /\ Known(nodes') = Known(nodes)
           /\ \A n \in Known(nodes) :
                /\ nodes'[n].desc = nodes[n].desc
                /\ nodes'[n].seen = nodes[n].seen
                /\ \/ nodes'[n] = nodes[n] /\ ~(\E d \in targets : d.id = n)
                   \/ /\ \E d \in targets : d.id = n
                      /\ nodes'[n].reachable = (n \in up)
                      /\ nodes'[n].probed = ProbedAt(n) /\ ProbedAt(n) \in Endpoint
<1> DEFINE hit == {d.id : d \in targets} \cap Known(nodes)
<1>1. nodes' = [n \in Node |-> IF n \in hit THEN Verdict(nodes[n], n \in up, ProbedAt(n))
                                 ELSE nodes[n]]
  BY DEF ApplyProbe
<1>2. ASSUME NEW n \in hit
      PROVE  /\ n \in Node
             /\ ProbedAt(n) \in Endpoint
             /\ Verdict(nodes[n], n \in up, ProbedAt(n)) \in Entry
             /\ Verdict(nodes[n], n \in up, ProbedAt(n)).desc = nodes[n].desc
             /\ Verdict(nodes[n], n \in up, ProbedAt(n)).seen = nodes[n].seen
             /\ Verdict(nodes[n], n \in up, ProbedAt(n)).reachable = (n \in up)
             /\ Verdict(nodes[n], n \in up, ProbedAt(n)).probed = ProbedAt(n)
  <2>1. nodes[n] \in Entry /\ (n \in up) \in BOOLEAN /\ n \in Node
    BY DEF TypeOK, Known
  <2>2. ProbedAt(n) \in Endpoint
    BY ProbedAtType
  <2> QED BY <2>1, <2>2 DEF Verdict, Entry
<1>3. nodes' \in [Node -> Entry \cup {NoEntry}]
  BY <1>1, <1>2 DEF TypeOK
<1>4. Known(nodes') = Known(nodes)
  BY <1>1, <1>2, NoEntryAssumption DEF Known
<1>5. disk' = nodes' \/ disk' = disk
  BY DEF ApplyProbe, Save
<1>6. ASSUME NEW n \in Known(nodes)
      PROVE  /\ nodes'[n].desc = nodes[n].desc
             /\ nodes'[n].seen = nodes[n].seen
             /\ \/ nodes'[n] = nodes[n] /\ ~(\E d \in targets : d.id = n)
                \/ /\ \E d \in targets : d.id = n
                   /\ nodes'[n].reachable = (n \in up)
                   /\ nodes'[n].probed = ProbedAt(n) /\ ProbedAt(n) \in Endpoint
  <2>1. n \in Node
    BY DEF Known
  <2>2. CASE n \in hit
    BY <1>1, <1>2, <2>1, <2>2
  <2>3. CASE n \notin hit
    <3>1. nodes'[n] = nodes[n]
      BY <1>1, <2>1, <2>3
    <3> QED BY <2>3, <3>1
  <2> QED BY <2>2, <2>3
<1> QED BY <1>3, <1>4, <1>5, <1>6

----------------------------------------------------------------------------
\* Uniqueness of ip:port.

\* Init and every step keep identities under their own key and endpoints apart.
LEMMA UniqueStep ==
    ASSUME TypeOK, EndpointUnique, [Next]_vars
    PROVE  EndpointUnique'
<1>1. ASSUME NEW h \in Handler, Accept(h) PROVE EndpointUnique'
  <2>1. PICK d \in Descriptor :
             /\ d.id \in Node
             /\ ~Occupied(nodes, d)
             /\ Renewed(nodes[d.id], d) \in Entry
             /\ nodes' = [nodes EXCEPT ![d.id] = Renewed(nodes[d.id], d)]
             /\ disk' = nodes' \/ disk' = disk
    BY <1>1, AcceptShape
  <2>2. /\ Known(nodes') = Known(nodes) \cup {d.id}
        /\ nodes'[d.id].desc = d
        /\ \A n \in Known(nodes) \ {d.id} : nodes'[n] = nodes[n]
    BY <2>1, NoEntryAssumption DEF Known, TypeOK, Renewed
  <2>3. \A n \in Known(nodes) \ {d.id} : At(nodes[n].desc) # At(d)
    BY <2>1 DEF Occupied
  <2>4. UniqueIn(nodes')
    <3>1. \A n \in Known(nodes') : nodes'[n].desc.id = n
      BY <2>2 DEF EndpointUnique, UniqueIn
    <3>2. ASSUME NEW m \in Known(nodes'), NEW n \in Known(nodes'),
                 At(nodes'[m].desc) = At(nodes'[n].desc)
          PROVE  m = n
      <4>1. CASE m = d.id
        BY <2>2, <2>3, <3>2, <4>1
      <4>2. CASE n = d.id
        BY <2>2, <2>3, <3>2, <4>2
      <4>3. CASE m # d.id /\ n # d.id
        BY <2>2, <3>2, <4>3 DEF EndpointUnique, UniqueIn
      <4> QED BY <4>1, <4>2, <4>3
    <3> QED BY <3>1, <3>2 DEF UniqueIn
  <2> QED BY <2>1, <2>4 DEF EndpointUnique
<1>2. CASE ApplyProbe
  <2>1. UniqueIn(nodes')
    BY <1>2, ApplyShape DEF EndpointUnique, UniqueIn
  <2> QED BY <1>2, <2>1, ApplyShape DEF EndpointUnique
<1>3. CASE Restart
  <2>1. UniqueIn(Load(disk))
    BY LoadShape DEF EndpointUnique, UniqueIn
  <2> QED BY <1>3, <2>1 DEF Restart, EndpointUnique
<1>4. CASE UNCHANGED <<nodes, disk>>
  BY <1>4 DEF EndpointUnique, UniqueIn, Known
<1> QED BY <1>1, <1>2, <1>3, <1>4, StoreWriters

\* Store.Register: in memory and in the file, ip:port belongs to one identity.
THEOREM EndpointsStayUnique == Spec => []EndpointUnique
<1>1. Init => EndpointUnique
  BY DEF Init, EndpointUnique, UniqueIn, Known
<1> QED BY <1>1, TypeCorrect, UniqueStep, PTL DEF Spec

----------------------------------------------------------------------------
\* The -max-nodes limit.

\* Init and every step keep both copies of the store within the limit.
LEMMA LimitStep ==
    ASSUME TypeOK, NodeLimit, [Next]_vars
    PROVE  NodeLimit'
<1> SUFFICES ASSUME MaxNodes > 0 PROVE /\ Cardinality(Known(nodes')) <= MaxNodes
                                       /\ Cardinality(Known(disk')) <= MaxNodes
  BY DEF NodeLimit
<1>a. MaxNodes \in Nat
  BY BoundsAssumption
<1>b. \A S : S \subseteq Node => IsFiniteSet(S) /\ Cardinality(S) \in Nat
  BY NodeAssumption, FS_Subset, FS_CardinalityType
<1>1. ASSUME NEW h \in Handler, Accept(h)
      PROVE  Cardinality(Known(nodes')) <= MaxNodes /\ Cardinality(Known(disk')) <= MaxNodes
  <2>1. PICK d \in Descriptor :
             /\ d.id \in Node
             /\ nodes[d.id] = NoEntry => Room(nodes, d)
             /\ Renewed(nodes[d.id], d) \in Entry
             /\ nodes' = [nodes EXCEPT ![d.id] = Renewed(nodes[d.id], d)]
             /\ disk' = nodes' \/ disk' = disk
    BY <1>1, AcceptShape
  <2>2. Known(nodes') = Known(nodes) \cup {d.id}
    BY <2>1, NoEntryAssumption DEF Known, TypeOK
  <2>3. Cardinality(Known(nodes')) <= MaxNodes
    <3>1. CASE d.id \in Known(nodes)
      BY <2>2, <3>1 DEF NodeLimit
    <3>2. CASE d.id \notin Known(nodes)
      <4>1. Cardinality(Known(nodes)) < MaxNodes
        BY <2>1, <3>2 DEF Known, Room
      <4>2. Cardinality(Known(nodes) \cup {d.id}) = Cardinality(Known(nodes)) + 1
        BY <1>b, <3>2, FS_AddElement DEF Known
      <4>3. Cardinality(Known(nodes)) \in Nat
        BY <1>b DEF Known
      <4> QED BY <1>a, <2>2, <4>1, <4>2, <4>3
    <3> QED BY <3>1, <3>2
  <2> QED BY <2>1, <2>3 DEF NodeLimit
<1>2. CASE ApplyProbe
  BY <1>2, ApplyShape DEF NodeLimit
<1>3. CASE Restart
  <2>1. Known(Load(disk)) \subseteq Known(disk) /\ Known(disk) \subseteq Node
    BY LoadShape DEF Known
  <2>2. Cardinality(Known(Load(disk))) <= Cardinality(Known(disk))
    BY <1>b, <2>1, FS_Subset
  <2>3. Cardinality(Known(Load(disk))) \in Nat /\ Cardinality(Known(disk)) \in Nat
    BY <1>b, <2>1
  <2>4. nodes' = Load(disk) /\ disk' = disk
    BY <1>3 DEF Restart
  <2> QED BY <1>a, <2>2, <2>3, <2>4 DEF NodeLimit
<1>4. CASE UNCHANGED <<nodes, disk>>
  BY <1>4 DEF NodeLimit
<1> QED BY <1>1, <1>2, <1>3, <1>4, StoreWriters

\* Store.Register: neither the store nor the file outgrows -max-nodes.
THEOREM NodeLimitHolds == Spec => []NodeLimit
<1>1. Init => NodeLimit
  <2> SUFFICES ASSUME Init PROVE NodeLimit
    OBVIOUS
  <2>1. Known(nodes) = {} /\ Known(disk) = {}
    BY DEF Init, Known
  <2> QED BY <2>1, FS_EmptySet, BoundsAssumption DEF NodeLimit
<1> QED BY <1>1, TypeCorrect, LimitStep, PTL DEF Spec

----------------------------------------------------------------------------
\* Wake-ups.

\* An entry that is reachable has been probed: what makes the handler of a node
\* never probed find it unreachable, and so kick.
ProbedFirst(s) == \A n \in Known(s) : s[n].reachable => s[n].probed # NoEntry

\* The round under way tries one endpoint per identity, and a node that is not at
\* this endpoint any more got a new entry since the round began: of it there is no
\* verdict.
RoundInv ==
    /\ \A c, d \in targets : c.id = d.id => c = d
    /\ \A d \in targets :
         d.id \in Known(nodes) /\ At(nodes[d.id].desc) # At(d) => nodes[d.id].probed = NoEntry

\* The inductive strengthening of NoLostWakeup.
WakeInv == /\ ProbedFirst(nodes) /\ ProbedFirst(disk)
           /\ RoundInv
           /\ NoLostWakeup

\* There is no verdict of the present endpoint of the node n.
Unjudged(n) == Fresh(nodes[n]) /\ nodes[n].probed # At(nodes[n].desc)

\* Why the node n will not be forgotten, or what the race did to it.
Remembered(n) ==
    \/ wake
    \/ ppc = "scan"
    \/ \E d \in targets : d.id = n /\ At(d) = At(nodes[n].desc)
    \/ \E h \in Handler : /\ handler[h].pc = "kick" /\ handler[h].desc.id = n
                          /\ handler[h].live /\ ~handler[h].reachable
    \/ nodes[n].probed # NoEntry /\ nodes[n].reachable

\* Both copies of the store are ProbedFirst after every step.
LEMMA ProbedFirstStep ==
    ASSUME TypeOK, ProbedFirst(nodes), ProbedFirst(disk), [Next]_vars
    PROVE  ProbedFirst(nodes') /\ ProbedFirst(disk')
<1>1. ASSUME NEW h \in Handler, Accept(h) PROVE ProbedFirst(nodes') /\ ProbedFirst(disk')
  <2>1. PICK d \in Descriptor :
             /\ d.id \in Node
             /\ nodes' = [nodes EXCEPT ![d.id] = Renewed(nodes[d.id], d)]
             /\ disk' = nodes' \/ disk' = disk
    BY <1>1, AcceptShape
  <2>2. Renewed(nodes[d.id], d).reachable => Renewed(nodes[d.id], d).probed # NoEntry
    BY <2>1 DEF Renewed, ProbedFirst, Known
  <2>3. ProbedFirst(nodes')
    BY <2>1, <2>2 DEF ProbedFirst, Known, TypeOK
  <2> QED BY <2>1, <2>3
<1>2. CASE ApplyProbe
  <2>1. ProbedFirst(nodes')
    BY <1>2, ApplyShape, NoEntryAssumption DEF ProbedFirst
  <2> QED BY <1>2, <2>1, ApplyShape
<1>3. CASE Restart
  <2>1. ProbedFirst(Load(disk))
    BY LoadShape DEF ProbedFirst
  <2> QED BY <1>3, <2>1 DEF Restart
<1>4. CASE UNCHANGED <<nodes, disk>>
  BY <1>4
<1> QED BY <1>1, <1>2, <1>3, <1>4, StoreWriters

\* Every step keeps RoundInv.
LEMMA RoundStep ==
    ASSUME TypeOK, EndpointUnique, RoundInv, [Next]_vars
    PROVE  RoundInv'
<1>1. ASSUME NEW h \in Handler, Accept(h) PROVE RoundInv'
  <2>1. PICK d \in Descriptor :
             /\ d.id \in Node
             /\ Renewed(nodes[d.id], d) \in Entry
             /\ nodes' = [nodes EXCEPT ![d.id] = Renewed(nodes[d.id], d)]
    BY <1>1, AcceptShape
  <2>2. targets' = targets
    BY <1>1 DEF Accept, proberVars
  <2>3. ASSUME NEW c \in targets, c.id \in Known(nodes'), At(nodes'[c.id].desc) # At(c)
        PROVE  nodes'[c.id].probed = NoEntry
    <3>1. CASE c.id # d.id
      <4>1. c.id \in Known(nodes) /\ nodes'[c.id] = nodes[c.id]
        BY <2>1, <2>3, <3>1 DEF Known
      <4> QED BY <2>3, <4>1 DEF RoundInv
    <3>2. CASE c.id = d.id
      <4>1. nodes'[c.id] = Renewed(nodes[c.id], d) /\ nodes'[c.id].desc = d
        BY <2>1, <3>2 DEF TypeOK, Renewed
      <4>2. CASE nodes[c.id] # NoEntry /\ At(nodes[c.id].desc) = At(d)
        <5>1. nodes[c.id].probed = NoEntry
          BY <2>1, <2>3, <3>2, <4>1, <4>2 DEF RoundInv, Known
        <5> QED BY <4>1, <4>2, <5>1 DEF Renewed
      <4>3. CASE ~(nodes[c.id] # NoEntry /\ At(nodes[c.id].desc) = At(d))
        BY <4>1, <4>3 DEF Renewed
      <4> QED BY <4>2, <4>3
    <3> QED BY <3>1, <3>2
  <2> QED BY <2>2, <2>3 DEF RoundInv
<1>2. CASE Scan
  <2>1. targets' = ProbeTargets /\ nodes' = nodes
    BY <1>2 DEF Scan, storeVars
  <2>2. \A d \in ProbeTargets : d.id \in Known(nodes) /\ nodes[d.id].desc = d
    BY DEF ProbeTargets, EndpointUnique, UniqueIn
  <2> QED BY <2>1, <2>2 DEF RoundInv
<1>3. CASE ApplyProbe \/ Restart
  BY <1>3 DEF ApplyProbe, Restart, RoundInv
<1>4. CASE UNCHANGED <<nodes, targets>>
  BY <1>4 DEF RoundInv, Known
<1> QED BY <1>1, <1>2, <1>3, <1>4
  DEF Next, Work, Receive, Refuse, Kick, Connect, Woken, Timer, Tick, Toggle,
      vars, storeVars, proberVars, envVars

\* No step forgets a fresh node of whose endpoint there is no verdict.
LEMMA WakeStep ==
    ASSUME TypeOK, EndpointUnique, WakeInv, ProbedFirst(nodes'), [Next]_vars
    PROVE  NoLostWakeup'
<1> SUFFICES ASSUME Probe, NEW n \in Known(nodes'), Unjudged(n)'
             PROVE  Remembered(n)'
  BY DEF NoLostWakeup, Unjudged, Remembered
<1>a. n \in Node
  BY DEF Known
\* Unless the step stored a new entry for n, the node was already remembered.
<1>b. ASSUME n \in Known(nodes), nodes'[n] = nodes[n], now' = now \/ now' = now + 1
      PROVE  Remembered(n)
  <2>1. nodes[n].seen \in Nat /\ now \in Nat /\ Stale \in Nat
    BY <1>b, BoundsAssumption DEF TypeOK, Known, Entry
  <2>2. Unjudged(n)
    BY <1>b, <2>1 DEF Unjudged, Fresh
  <2> QED BY <1>b, <2>2 DEF WakeInv, NoLostWakeup, Unjudged, Remembered
<1>c. ASSUME UNCHANGED nodes, now' = now \/ now' = now + 1
      PROVE  Remembered(n)
  BY <1>b, <1>c
<1>1. ASSUME NEW h \in Handler, NEW d \in Descriptor, Receive(h, d) PROVE Remembered(n)'
  <2>1. Remembered(n)
    BY <1>1, <1>c DEF Receive, storeVars
  <2>2. handler[h].pc = "idle"
    BY <1>1 DEF Receive, Idle
  <2> QED BY <1>1, <2>1, <2>2 DEF Receive, Remembered, storeVars, proberVars, TypeOK
<1>2. ASSUME NEW h \in Handler, Refuse(h) PROVE Remembered(n)'
  <2>1. Remembered(n)
    BY <1>2, <1>c DEF Refuse, storeVars, envVars
  <2> QED BY <1>2, <2>1 DEF Refuse, Remembered, storeVars, proberVars, TypeOK
<1>3. ASSUME NEW h \in Handler, Accept(h) PROVE Remembered(n)'
  <2>1. PICK d \in Descriptor :
             /\ d = handler[h].desc
             /\ d.id \in Node
             /\ Renewed(nodes[d.id], d) \in Entry
             /\ nodes' = [nodes EXCEPT ![d.id] = Renewed(nodes[d.id], d)]
    BY <1>3, AcceptShape
  <2>2. CASE n = d.id
    <3>1. nodes'[n] = Renewed(nodes[n], d)
      BY <2>1, <2>2 DEF TypeOK
    <3>2. CASE nodes'[n].reachable
      BY <3>2 DEF ProbedFirst, Remembered
    <3>3. CASE ~nodes'[n].reachable
      <4>1. /\ handler'[h].pc = "kick" /\ handler'[h].desc.id = n
            /\ handler'[h].live /\ ~handler'[h].reachable
        BY <1>3, <2>1, <2>2, <3>1, <3>3 DEF Accept
      <4> QED BY <4>1 DEF Remembered
    <3> QED BY <3>2, <3>3
  <2>3. CASE n # d.id
    <3>1. Remembered(n) /\ nodes'[n] = nodes[n]
      BY <1>3, <1>b, <2>1, <2>3 DEF Accept, envVars, Known, TypeOK
    <3>2. ASSUME NEW g \in Handler, handler[g].pc = "kick", handler[g].desc.id = n
          PROVE  handler'[g] = handler[g]
      BY <1>3, <2>1, <2>3, <3>2 DEF Accept
    <3> QED BY <1>3, <3>1, <3>2 DEF Accept, Remembered, proberVars
  <2> QED BY <2>2, <2>3
<1>4. ASSUME NEW h \in Handler, Kick(h) PROVE Remembered(n)'
  <2>1. Remembered(n)
    BY <1>4, <1>c DEF Kick, storeVars, envVars
  <2>2. CASE ~handler[h].reachable
    BY <1>4, <2>2 DEF Kick, Remembered
  <2>3. CASE handler[h].reachable
    BY <1>4, <2>1, <2>3 DEF Kick, Remembered, storeVars, proberVars, TypeOK
  <2> QED BY <2>2, <2>3
<1>5. CASE Scan
  <2>1. n \in Known(nodes) /\ Fresh(nodes[n]) /\ nodes' = nodes
    BY <1>5 DEF Scan, storeVars, envVars, Unjudged, Fresh
  <2>2. nodes[n].desc \in ProbeTargets /\ nodes[n].desc.id = n
    BY <2>1 DEF ProbeTargets, EndpointUnique, UniqueIn
  <2> QED BY <1>5, <2>1, <2>2 DEF Scan, Remembered
<1>6. ASSUME NEW d \in pending, Connect(d) PROVE Remembered(n)'
  <2>1. Remembered(n)
    BY <1>6, <1>c DEF Connect, storeVars, envVars
  <2> QED BY <1>6, <2>1 DEF Connect, Remembered, storeVars
\* The verdict of another endpoint than the present one found no other verdict.
<1>7. CASE ApplyProbe
  <2>1. /\ n \in Known(nodes) /\ nodes'[n].desc = nodes[n].desc
        /\ nodes'[n].seen = nodes[n].seen /\ now' = now
    BY <1>7, ApplyShape DEF ApplyProbe, envVars
  <2>2. CASE nodes'[n] = nodes[n] /\ ~(\E d \in targets : d.id = n)
    <3>1. Remembered(n)
      BY <1>b, <2>1, <2>2
    <3>2. ASSUME NEW h \in Handler, handler[h].desc.id = n
          PROVE  handler'[h] = handler[h]
      BY <1>7, <2>2, <3>2 DEF ApplyProbe
    <3> QED BY <1>7, <2>2, <3>1, <3>2 DEF ApplyProbe, Remembered
  <2>3. CASE /\ \E d \in targets : d.id = n
             /\ nodes'[n].reachable = (n \in up)
             /\ nodes'[n].probed = ProbedAt(n) /\ ProbedAt(n) \in Endpoint
    <3> DEFINE t == CHOOSE d \in targets : d.id = n
    <3>1. t \in targets /\ t.id = n /\ ProbedAt(n) = At(t)
      BY <2>3 DEF ProbedAt
    <3> HIDE DEF t
    <3>2. At(t) # At(nodes[n].desc)
      BY <2>1, <2>3, <3>1 DEF Unjudged
    <3>3. nodes[n].probed = NoEntry
      BY <2>1, <3>1, <3>2 DEF WakeInv, RoundInv
    <3>4. CASE nodes'[n].reachable
      BY <2>3, <3>4, NoEntryAssumption DEF Remembered
    <3>5. CASE ~nodes'[n].reachable
      <4>1. At(nodes[n].desc) \in Endpoint
        BY <2>1 DEF TypeOK, Known, Entry, At, Endpoint, Descriptor
      <4>2. Unjudged(n)
        BY <2>1, <3>3, <4>1, NoEntryAssumption DEF Unjudged, Fresh
      <4>3. Remembered(n)
        BY <2>1, <4>2 DEF WakeInv, NoLostWakeup, Unjudged, Remembered
      <4>4. ~(\E d \in targets : d.id = n /\ At(d) = At(nodes[n].desc))
        BY <3>1, <3>2 DEF WakeInv, RoundInv
      <4>5. ASSUME NEW h \in Handler, handler[h].pc = "kick", handler[h].desc.id = n,
                   handler[h].live, ~handler[h].reachable
            PROVE  /\ handler'[h].pc = "kick" /\ handler'[h].desc.id = n
                   /\ handler'[h].live /\ ~handler'[h].reachable
        <5>1. handler[h] \in [pc : {"store", "kick"}, desc : Descriptor,
                              live : BOOLEAN, reachable : BOOLEAN]
          BY <4>5, BusyHandler
        <5>2. \/ handler'[h] = handler[h]
              \/ handler'[h] = [handler[h] EXCEPT !.reachable = nodes'[n].reachable]
          BY <1>7, <1>a, <4>5 DEF ApplyProbe
        <5> QED BY <3>5, <4>5, <5>1, <5>2
      <4> QED BY <1>7, <3>3, <4>3, <4>4, <4>5 DEF ApplyProbe, Remembered
    <3> QED BY <3>4, <3>5
  <2> QED BY <1>7, <2>1, <2>2, <2>3, ApplyShape
<1>8. CASE Woken
  BY <1>8 DEF Woken, Remembered
<1>9. CASE Timer
  BY <1>9 DEF Timer, Remembered
<1>10. CASE Tick
  <2>1. Remembered(n)
    BY <1>10, <1>c DEF Tick, storeVars
  <2> QED BY <1>10, <2>1 DEF Tick, Remembered, storeVars, proberVars
<1>11. ASSUME NEW e \in Endpoint, Toggle(e) PROVE Remembered(n)'
  <2>1. Remembered(n)
    BY <1>11, <1>c DEF Toggle, storeVars
  <2> QED BY <1>11, <2>1 DEF Toggle, Remembered, storeVars, proberVars
<1>12. CASE Restart
  BY <1>12 DEF Restart, Remembered
<1>13. CASE UNCHANGED vars
  <2>1. Remembered(n)
    BY <1>13, <1>c DEF vars, storeVars, envVars
  <2> QED BY <1>13, <2>1 DEF vars, storeVars, proberVars, Remembered
<1> QED
  BY <1>1, <1>2, <1>3, <1>4, <1>5, <1>6, <1>7, <1>8, <1>9, <1>10, <1>11, <1>12, <1>13
     DEF Next, Work

\* register/Kick/Prober.Run: a fresh node of whose present endpoint there is no
\* verdict is known to the wake channel, to a round that tries this endpoint or to
\* its own handler, unless a verdict of the endpoint it left made it reachable.
THEOREM NoWakeupIsLost == Spec => []NoLostWakeup
<1>1. Init => WakeInv
  BY DEF Init, WakeInv, ProbedFirst, RoundInv, NoLostWakeup, Known
<1>2. TypeOK /\ EndpointUnique /\ WakeInv /\ [Next]_vars => WakeInv'
  BY ProbedFirstStep, RoundStep, WakeStep DEF WakeInv
<1>3. WakeInv => NoLostWakeup
  BY DEF WakeInv
<1> QED BY <1>1, <1>2, <1>3, TypeCorrect, EndpointsStayUnique, PTL DEF Spec

----------------------------------------------------------------------------
\* A heartbeat is not taken at its word.

\* Some connection to the identity was opened.
Met(n) == \E e \in Endpoint : <<n, e[1], e[2]>> \in opened

\* The inductive strengthening of NeverOnItsWord: it holds of the file and of
\* the round under way too.
MetInv == /\ \A n \in Known(nodes) : nodes[n].reachable => Met(n)
          /\ \A n \in Known(disk) : disk[n].reachable => Met(n)
          /\ \A n \in up : Met(n)

\* Connections are never forgotten.
LEMMA OpenedGrows ==
    ASSUME [Next]_vars
    PROVE  opened \subseteq opened'
BY DEF Next, Work, Receive, Refuse, Accept, Kick, Scan, Connect, ApplyProbe, Woken, Timer,
       Tick, Toggle, Restart, vars

\* A round's verdicts rest on connections it opened.
LEMMA UpStep ==
    ASSUME TypeOK, MetInv, [Next]_vars
    PROVE  \A n \in up' : Met(n)'
<1>1. \A n : Met(n) => Met(n)'
  BY OpenedGrows DEF Met
<1>2. ASSUME NEW d \in pending, Connect(d) PROVE \A n \in up' : Met(n)'
  <2>1. CASE At(d) \in listening
    <3>1. <<d.ip, d.port>> \in Endpoint
      BY DEF TypeOK, Descriptor, Endpoint
    <3>2. <<d.id, d.ip, d.port>> \in opened'
      BY <1>2, <2>1 DEF Connect
    <3>3. Met(d.id)'
      BY <3>1, <3>2 DEF Met
    <3> QED BY <1>1, <1>2, <2>1, <3>3 DEF Connect, MetInv
  <2>2. CASE At(d) \notin listening
    BY <1>1, <1>2, <2>2 DEF Connect, MetInv
  <2> QED BY <2>1, <2>2
<1>3. CASE up' = up \/ up' = {}
  BY <1>1, <1>3 DEF MetInv
<1> QED BY <1>2, <1>3 DEF Next, Work, Receive, Refuse, Accept, Kick, Scan, ApplyProbe, Woken,
                          Timer, Tick, Toggle, Restart, vars, proberVars

\* Every step keeps MetInv.
LEMMA MetStep ==
    ASSUME TypeOK, MetInv, [Next]_vars
    PROVE  MetInv'
<1>1. \A n : Met(n) => Met(n)'
  BY OpenedGrows DEF Met
<1>2. ASSUME NEW h \in Handler, Accept(h) PROVE MetInv'
  <2>1. PICK d \in Descriptor :
             /\ d.id \in Node
             /\ nodes' = [nodes EXCEPT ![d.id] = Renewed(nodes[d.id], d)]
             /\ disk' = nodes' \/ disk' = disk
    BY <1>2, AcceptShape
  <2>2. Renewed(nodes[d.id], d).reachable => Met(d.id)
    BY <2>1 DEF Renewed, MetInv, Known
  <2>3. \A n \in Known(nodes') : nodes'[n].reachable => Met(n)
    BY <2>1, <2>2 DEF MetInv, Known, TypeOK
  <2> QED BY <1>1, <2>1, <2>3, UpStep DEF MetInv
<1>3. CASE ApplyProbe
  <2>1. \A n \in Known(nodes') : nodes'[n].reachable => Met(n)
    BY <1>3, ApplyShape DEF MetInv
  <2> QED BY <1>1, <1>3, <2>1, ApplyShape, UpStep DEF MetInv
<1>4. CASE Restart
  <2>1. \A n \in Known(Load(disk)) : Load(disk)[n].reachable => Met(n)
    BY LoadShape DEF MetInv
  <2> QED BY <1>1, <1>4, <2>1, UpStep DEF Restart, MetInv
<1>5. CASE UNCHANGED <<nodes, disk>>
  BY <1>1, <1>5, UpStep DEF MetInv
<1> QED BY <1>2, <1>3, <1>4, <1>5, StoreWriters

\* Prober/Store.Alive: an identity no connection was opened to is never listed.
THEOREM HeartbeatIsNotEnough == Spec => []NeverOnItsWord
<1>1. Init => MetInv
  BY DEF Init, MetInv, Known
<1>2. MetInv => NeverOnItsWord
  BY DEF MetInv, Met, NeverOnItsWord, Listed, Alive
<1> QED BY <1>1, <1>2, TypeCorrect, MetStep, PTL DEF Spec

----------------------------------------------------------------------------
\* The store under the documents.

\* Every step is one of the store, or leaves it alone.
LEMMA DocumentStep ==
    ASSUME [DocumentNext]_cvars
    PROVE  [Next]_vars
BY DEF DocumentNext, cvars, Next, RestartAll, Begin, ReadNodes, Publish

\* So the store keeps its promises.
LEMMA StoreKeeps == DocumentSpec => [](TypeOK /\ EndpointUnique)
<1>1. DocumentInit => Init
  BY DEF DocumentInit
<1>2. DocumentSpec => Spec
  BY <1>1, DocumentStep, PTL DEF DocumentSpec, Spec
<1> QED BY <1>2, TypeCorrect, EndpointsStayUnique, PTL

\* Unless the store is restarted, its clock and version do not go back.
LEMMA NothingGoesBack ==
    ASSUME TypeOK, Work \/ UNCHANGED vars
    PROVE  now <= now' /\ version <= version'
<1>1. now \in Nat /\ version \in Nat
  BY DEF TypeOK
<1>2. CASE ApplyProbe
  <2>1. PICK flipped \in SUBSET Node : version' = version + Cardinality(flipped)
    BY <1>2 DEF ApplyProbe, Known
  <2>2. Cardinality(flipped) \in Nat
    BY NodeAssumption, FS_Subset, FS_CardinalityType
  <2> QED BY <1>1, <1>2, <2>1, <2>2 DEF ApplyProbe, envVars
<1>3. ASSUME NEW h \in Handler, Accept(h) PROVE now <= now' /\ version <= version'
  BY <1>1, <1>3 DEF Accept, envVars
<1>4. CASE Tick
  BY <1>1, <1>4 DEF Tick, storeVars
<1>5. CASE UNCHANGED <<now, version>>
  BY <1>1, <1>5
<1> QED BY <1>2, <1>3, <1>4, <1>5
        DEF Work, Receive, Refuse, Kick, Scan, Connect, Woken, Timer, Toggle, vars,
            storeVars, envVars

\* What may become of a store whose version stays as it is.
Refreshed ==
    /\ Known(nodes') = Known(nodes)
    /\ \A n \in Known(nodes) :
         /\ nodes'[n].desc = nodes[n].desc
         /\ nodes'[n].reachable = nodes[n].reachable
         /\ nodes'[n].seen \in {nodes[n].seen, now}

\* A registration that leaves the version is a heartbeat.
LEMMA AcceptRefreshed ==
    ASSUME TypeOK, NEW h \in Handler, Accept(h), version' = version
    PROVE  Refreshed
<1> DEFINE d == handler[h].desc
           old == nodes[d.id]
<1>1. handler[h].pc = "store" /\ d \in Descriptor /\ d.id \in Node
  BY BusyHandler DEF Accept, Descriptor
<1>2. version \in Nat /\ version + 1 # version
  BY DEF TypeOK
<1>3. old # NoEntry /\ old.desc = d
  BY <1>2 DEF Accept
<1>4. nodes' = [nodes EXCEPT ![d.id] = Renewed(old, d)]
  BY DEF Accept
<1>5. old \in Entry /\ nodes \in [Node -> Entry \cup {NoEntry}]
  BY <1>1, <1>3 DEF TypeOK
<1> HIDE DEF d, old
<1>6. /\ Renewed(old, d).desc = d /\ Renewed(old, d).seen = now
      /\ Renewed(old, d).reachable = old.reachable
  BY <1>3, <1>5 DEF Renewed, Entry
<1>7. Renewed(old, d) # NoEntry
  BY <1>1, <1>5, RenewedType, NoEntryAssumption
<1>8. old = nodes[d.id]
  BY DEF old
<1> QED BY <1>1, <1>3, <1>4, <1>5, <1>6, <1>7, <1>8 DEF Refreshed, Known

\* So is a round of the prober that turns no node over.
LEMMA ApplyRefreshed ==
    ASSUME TypeOK, ApplyProbe, version' = version
    PROVE  Refreshed
<1> DEFINE hit == {d.id : d \in targets} \cap Known(nodes)
           flipped == {n \in hit : nodes'[n].reachable # nodes[n].reachable}
<1>1. version' = version + Cardinality(flipped)
  BY DEF ApplyProbe
<1>2. flipped \subseteq Node
  BY DEF Known
<1>3. IsFiniteSet(flipped) /\ Cardinality(flipped) \in Nat
  BY <1>2, NodeAssumption, FS_Subset, FS_CardinalityType
<1>4. Cardinality(flipped) = 0
  BY <1>1, <1>3 DEF TypeOK
<1>5. flipped = {}
  BY <1>3, <1>4, FS_EmptySet
<1>6. \A n \in Known(nodes) : n \notin {d.id : d \in targets} => nodes'[n] = nodes[n]
  BY DEF ApplyProbe, Known
<1> QED BY <1>5, <1>6, ApplyShape DEF Refreshed

\* No other step but a restart touches the entries.
LEMMA VersionTells ==
    ASSUME TypeOK, Work \/ UNCHANGED vars, version' = version
    PROVE  Refreshed
<1>1. CASE UNCHANGED nodes
  BY <1>1 DEF Refreshed
<1>2. \/ \E h \in Handler : Accept(h)
      \/ ApplyProbe
      \/ UNCHANGED nodes
  BY DEF Work, Receive, Refuse, Kick, Scan, Connect, Woken, Timer, Tick, Toggle, vars,
         storeVars
<1> QED BY <1>1, <1>2, AcceptRefreshed, ApplyRefreshed

----------------------------------------------------------------------------
\* Types.

\* The two variables of the cache keep their types.
THEOREM DocumentTypes == DocumentSpec => []ConsensusTypeOK
<1>1. DocumentInit => ConsensusTypeOK
  BY DEF DocumentInit, ConsensusTypeOK
<1>2. TypeOK /\ ConsensusTypeOK /\ [DocumentNext]_cvars => ConsensusTypeOK'
  <2> SUFFICES ASSUME TypeOK, ConsensusTypeOK, [DocumentNext]_cvars PROVE ConsensusTypeOK'
    OBVIOUS
  <2>1. CASE UNCHANGED consensusVars
    BY <2>1 DEF consensusVars, ConsensusTypeOK
  <2>2. CASE RestartAll
    BY <2>2 DEF RestartAll, ConsensusTypeOK
  <2>3. ASSUME NEW p \in Private, Begin(p) PROVE ConsensusTypeOK'
    <3>1. [private |-> p, at |-> now, version |-> version, nodes |-> {}] \in Doc
      BY DEF TypeOK, Doc
    <3> QED BY <2>3, <3>1 DEF Begin, ConsensusTypeOK
  <2>4. CASE ReadNodes
    <3>1. building.doc \in Doc
      BY <2>4 DEF ReadNodes, ConsensusTypeOK
    <3>2. {nodes[n].desc : n \in Alive(building.doc.private)} \subseteq Descriptor
      BY DEF Alive, Known, TypeOK, Entry
    <3>3. [building.doc EXCEPT !.nodes = {nodes[n].desc : n \in Alive(building.doc.private)}]
            \in Doc
      BY <3>1, <3>2 DEF Doc
    <3> QED BY <2>4, <3>3 DEF ReadNodes, ConsensusTypeOK
  <2>5. CASE Publish
    <3>1. building.doc \in Doc
      BY <2>5 DEF Publish, ConsensusTypeOK
    <3> QED BY <2>5, <3>1 DEF Publish, ConsensusTypeOK
  <2> QED BY <2>1, <2>2, <2>3, <2>4, <2>5 DEF DocumentNext, cvars, consensusVars
<1> QED BY <1>1, <1>2, StoreKeeps, PTL DEF DocumentSpec

----------------------------------------------------------------------------
\* The documents.

Early(doc) == doc.at \in Nat /\ doc.at <= now /\ doc.version \in Nat /\ doc.version <= version

\* Whom the document lists is in the store as it was listed, and was seen
\* shortly before the document.
Held(doc) ==
    \A d \in doc.nodes : /\ d.id \in Known(nodes)
                         /\ nodes[d.id].desc = d
                         /\ Probe => nodes[d.id].reachable
                         /\ doc.at <= nodes[d.id].seen + Stale

\* Whom it does not list is not alive, or was seen since.
Complete(doc) ==
    \A n \in Alive(doc.private) : nodes[n].desc \in doc.nodes \/ nodes[n].seen >= doc.at

Coherent(doc) == doc.version = version => Held(doc) /\ Complete(doc)

\* Every document in the cache, and the one that has read the nodes, is coherent.
DocInv ==
    /\ \A p \in Private : cache[p] # NoEntry =>
         cache[p].private = p /\ Early(cache[p]) /\ Coherent(cache[p])
    /\ building # NoEntry =>
         /\ Early(building.doc)
         /\ building.stage = "nodes" => Coherent(building.doc)

\* The store at work leaves a coherent document coherent.
LEMMA CoherentStep ==
    ASSUME TypeOK, TypeOK', Work \/ UNCHANGED vars, NEW doc, Early(doc), Coherent(doc)
    PROVE  Coherent(doc)'
<1>1. SUFFICES ASSUME doc.version = version' PROVE Held(doc)' /\ Complete(doc)'
  BY DEF Coherent
<1>2. /\ now \in Nat /\ now' \in Nat /\ now <= now' /\ version \in Nat /\ version' \in Nat
      /\ version <= version'
  BY NothingGoesBack DEF TypeOK
<1>3. version' = version
  BY <1>1, <1>2 DEF Early
<1>4. Refreshed /\ Held(doc) /\ Complete(doc)
  BY <1>1, <1>3, VersionTells DEF Coherent
<1>5. doc.at \in Nat /\ doc.at <= now /\ Stale \in Nat
  BY BoundsAssumption DEF Early
<1>6. ASSUME NEW n \in Known(nodes)
      PROVE  nodes[n].seen \in Nat /\ nodes'[n].seen \in Nat
  <2>1. n \in Known(nodes') /\ n \in Node
    BY <1>4, <1>6 DEF Refreshed, Known
  <2>2. nodes[n] \in Entry /\ nodes'[n] \in Entry
    BY <1>6, <2>1 DEF TypeOK, Known
  <2> QED BY <2>2 DEF Entry
<1>7. Held(doc)'
  <2> SUFFICES ASSUME NEW d \in doc.nodes
               PROVE  /\ d.id \in Known(nodes') /\ nodes'[d.id].desc = d
                      /\ Probe => nodes'[d.id].reachable
                      /\ doc.at <= nodes'[d.id].seen + Stale
    BY DEF Held
  <2>1. /\ d.id \in Known(nodes) /\ nodes[d.id].desc = d
        /\ Probe => nodes[d.id].reachable
        /\ doc.at <= nodes[d.id].seen + Stale
    BY <1>4 DEF Held
  <2>2. doc.at <= nodes'[d.id].seen + Stale
    BY <1>2, <1>4, <1>5, <1>6, <2>1 DEF Refreshed
  <2> QED BY <1>4, <2>1, <2>2 DEF Refreshed
<1>8. Complete(doc)'
  <2> SUFFICES ASSUME NEW n \in Alive(doc.private)'
               PROVE  nodes'[n].desc \in doc.nodes \/ nodes'[n].seen >= doc.at
    BY DEF Complete
  <2>1. /\ n \in Known(nodes') /\ now' <= nodes'[n].seen + Stale
        /\ Probe => nodes'[n].reachable /\ nodes'[n].desc.private = doc.private
        /\ now' <= nodes'[n].desc.expires
    BY DEF Alive, Fresh, Current
  <2>2. /\ n \in Known(nodes) /\ nodes'[n].desc = nodes[n].desc
        /\ nodes'[n].reachable = nodes[n].reachable
        /\ nodes'[n].seen \in {nodes[n].seen, now}
    BY <1>4, <2>1 DEF Refreshed
  <2>3. CASE nodes'[n].seen = now
    BY <1>2, <1>5, <2>3
  <2>4. CASE nodes'[n].seen = nodes[n].seen
    <3>1. nodes[n].desc.expires \in Nat
      BY <2>2, BoundsAssumption DEF TypeOK, Known, Entry, Descriptor
    <3>2. now <= nodes[n].seen + Stale
      BY <1>2, <1>5, <1>6, <2>1, <2>2, <2>4
    <3>3. now <= nodes[n].desc.expires
      BY <1>2, <2>1, <2>2, <3>1
    <3>4. n \in Alive(doc.private)
      BY <2>1, <2>2, <3>2, <3>3 DEF Alive, Fresh, Current
    <3> QED BY <1>4, <2>2, <2>4, <3>4 DEF Complete
  <2> QED BY <2>2, <2>3, <2>4
<1> QED BY <1>7, <1>8

\* A document that has read the nodes is coherent, whatever the store did since
\* it was begun.
LEMMA ReadCoherent ==
    ASSUME TypeOK, EndpointUnique, NEW doc, Early(doc),
           doc.nodes = {nodes[n].desc : n \in Alive(doc.private)}
    PROVE  Coherent(doc)
<1>1. ASSUME NEW d \in doc.nodes
      PROVE  /\ d.id \in Known(nodes) /\ nodes[d.id].desc = d
             /\ Probe => nodes[d.id].reachable
             /\ doc.at <= nodes[d.id].seen + Stale
  <2>1. PICK n \in Alive(doc.private) : d = nodes[n].desc
    BY <1>1
  <2>2. n \in Known(nodes) /\ now <= nodes[n].seen + Stale /\ (Probe => nodes[n].reachable)
    BY DEF Alive, Fresh
  <2>3. d.id = n
    BY <2>1, <2>2 DEF EndpointUnique, UniqueIn
  <2>4. nodes[n].seen \in Nat /\ now \in Nat /\ Stale \in Nat
    BY <2>2, BoundsAssumption DEF TypeOK, Known, Entry
  <2> QED BY <2>1, <2>2, <2>3, <2>4 DEF Early
<1> QED BY <1>1 DEF Coherent, Held, Complete

\* The steps of the documents and of the store keep the invariant.
LEMMA DocInvHolds == DocumentSpec => []DocInv
<1>1. DocumentInit => DocInv
  BY DEF DocumentInit, DocInv
<1>2. (TypeOK /\ TypeOK' /\ EndpointUnique /\ ConsensusTypeOK /\ DocInv /\ [DocumentNext]_cvars)
        => DocInv'
  <2> SUFFICES ASSUME TypeOK, TypeOK', EndpointUnique, ConsensusTypeOK, DocInv,
                      [DocumentNext]_cvars
               PROVE  DocInv'
    OBVIOUS
  <2>0. now \in Nat /\ version \in Nat
    BY DEF TypeOK
  <2>1. ASSUME Work \/ UNCHANGED vars, UNCHANGED consensusVars PROVE DocInv'
    <3>1. /\ now <= now' /\ version <= version' /\ now' \in Nat /\ version' \in Nat
      BY <2>1, NothingGoesBack DEF TypeOK
    <3>2. \A doc : Early(doc) => Early(doc)'
      BY <2>0, <3>1 DEF Early
    <3>3. \A doc : Early(doc) /\ Coherent(doc) => Coherent(doc)'
      BY <2>1, CoherentStep
    <3>4. cache' = cache /\ building' = building
      BY <2>1 DEF consensusVars
    <3>5. ASSUME NEW p \in Private, cache'[p] # NoEntry
          PROVE  cache'[p].private = p /\ Early(cache[p])' /\ Coherent(cache[p])'
      <4>1. PICK doc : doc = cache[p]
        OBVIOUS
      <4>2. doc.private = p /\ Early(doc) /\ Coherent(doc)
        BY <3>4, <3>5, <4>1 DEF DocInv
      <4>3. Early(doc)' /\ Coherent(doc)' /\ cache'[p] = doc
        BY <3>2, <3>3, <3>4, <4>1, <4>2
      <4> QED BY <4>2, <4>3
    <3>6. ASSUME building' # NoEntry
          PROVE  /\ Early(building.doc)'
                 /\ building'.stage = "nodes" => Coherent(building.doc)'
      <4>1. PICK doc : doc = building.doc
        OBVIOUS
      <4>2. Early(doc) /\ (building.stage = "nodes" => Coherent(doc))
        BY <3>4, <3>6, <4>1 DEF DocInv
      <4>3. Early(doc)' /\ (building.stage = "nodes" => Coherent(doc)') /\ building'.doc = doc
        BY <3>2, <3>3, <3>4, <4>1, <4>2
      <4> QED BY <3>4, <4>3
    <3> QED BY <3>5, <3>6 DEF DocInv
  <2>2. CASE RestartAll
    BY <2>2 DEF RestartAll, DocInv
  <2>3. ASSUME NEW p \in Private, Begin(p) PROVE DocInv'
    <3>1. /\ building'.stage = "version" /\ building'.doc.at = now
          /\ building'.doc.version = version /\ cache' = cache
          /\ nodes' = nodes /\ now' = now /\ version' = version
      BY <2>3 DEF Begin, vars, storeVars, envVars
    <3>2. Early(building.doc)'
      BY <2>0, <3>1 DEF Early
    <3>3. \A q \in Private : cache'[q] # NoEntry =>
            cache'[q].private = q /\ Early(cache[q])' /\ Coherent(cache[q])'
      BY <3>1 DEF DocInv, Early, Coherent, Held, Complete, Alive, Fresh, Current
    <3> QED BY <3>1, <3>2, <3>3 DEF DocInv
  <2>4. CASE ReadNodes
    <3>1. PICK doc : doc = [building.doc EXCEPT
                              !.nodes = {nodes[n].desc : n \in Alive(building.doc.private)}]
      OBVIOUS
    <3>2. /\ building # NoEntry /\ building' = [stage |-> "nodes", doc |-> doc] /\ cache' = cache
          /\ nodes' = nodes /\ now' = now /\ version' = version
      BY <2>4, <3>1 DEF ReadNodes, vars, storeVars, envVars
    <3>3. building.doc \in Doc /\ Early(building.doc)
      BY <3>2 DEF ConsensusTypeOK, DocInv
    <3>4. /\ doc.nodes = {nodes[n].desc : n \in Alive(doc.private)}
          /\ doc.at = building.doc.at /\ doc.version = building.doc.version
      BY <3>1, <3>3 DEF Doc
    <3>5. Early(doc)
      BY <3>3, <3>4 DEF Early
    <3>6. Coherent(doc)
      BY <3>4, <3>5, ReadCoherent
    <3>7. \A x : (Early(x) => Early(x)') /\ (Coherent(x) => Coherent(x)')
      BY <3>2 DEF Early, Coherent, Held, Complete, Alive, Fresh, Current, Known
    <3>8. Early(building.doc)' /\ Coherent(building.doc)'
      <4>1. Early(doc)' /\ Coherent(doc)' /\ building'.doc = doc
        BY <3>2, <3>5, <3>6, <3>7
      <4> QED BY <4>1
    <3>9. ASSUME NEW p \in Private, cache'[p] # NoEntry
          PROVE  cache'[p].private = p /\ Early(cache[p])' /\ Coherent(cache[p])'
      <4>1. PICK x : x = cache[p]
        OBVIOUS
      <4>2. x.private = p /\ Early(x) /\ Coherent(x)
        BY <3>2, <3>9, <4>1 DEF DocInv
      <4>3. Early(x)' /\ Coherent(x)' /\ cache'[p] = x
        BY <3>2, <3>7, <4>1, <4>2
      <4> QED BY <4>2, <4>3
    <3> QED BY <3>8, <3>9 DEF DocInv
  <2>5. CASE Publish
    <3>1. PICK doc : doc = building.doc
      OBVIOUS
    <3>2. /\ building # NoEntry /\ building.stage = "nodes" /\ building' = NoEntry
          /\ cache' = [cache EXCEPT ![doc.private] = doc]
          /\ nodes' = nodes /\ now' = now /\ version' = version
      BY <2>5, <3>1 DEF Publish, vars, storeVars, envVars
    <3>3. Early(doc) /\ Coherent(doc)
      BY <3>1, <3>2 DEF DocInv
    <3>4. \A x : (Early(x) => Early(x)') /\ (Coherent(x) => Coherent(x)')
      BY <3>2 DEF Early, Coherent, Held, Complete, Alive, Fresh, Current, Known
    <3>5. ASSUME NEW p \in Private, cache'[p] # NoEntry
          PROVE  cache'[p].private = p /\ Early(cache[p])' /\ Coherent(cache[p])'
      <4>1. PICK x : x = cache'[p]
        OBVIOUS
      <4>2. \/ x = doc /\ p = doc.private
            \/ x = cache[p] /\ cache[p] # NoEntry
        BY <3>2, <3>5, <4>1 DEF ConsensusTypeOK
      <4>3. x.private = p /\ Early(x) /\ Coherent(x)
        BY <3>3, <4>2 DEF DocInv
      <4>4. Early(x)' /\ Coherent(x)'
        BY <3>4, <4>3
      <4> QED BY <4>1, <4>3, <4>4
    <3> QED BY <3>2, <3>5 DEF DocInv
  <2> QED BY <2>1, <2>2, <2>3, <2>4, <2>5 DEF DocumentNext, cvars, consensusVars
<1> QED BY <1>1, <1>2, StoreKeeps, DocumentTypes, PTL DEF DocumentSpec

----------------------------------------------------------------------------
\* What is served from the cache.

\* "The signature is recomputed only when the membership changes or the cache
\* expires": a document served from the cache lists only descriptors the store
\* holds, of nodes it finds reachable, and misses only nodes that sent a
\* heartbeat after it was begun.
THEOREM CacheStaysCoherent == DocumentSpec => []CacheCoherent
<1>1. DocInv => CacheCoherent
  <2> SUFFICES ASSUME DocInv, NEW p \in Private, Servable(p)
               PROVE  /\ \A d \in cache[p].nodes : /\ d.id \in Known(nodes)
                                                   /\ nodes[d.id].desc = d
                                                   /\ Probe => nodes[d.id].reachable
                      /\ \A n \in Alive(p) : \/ nodes[n].desc \in cache[p].nodes
                                              \/ nodes[n].seen >= cache[p].at
    BY DEF CacheCoherent
  <2>1. cache[p].private = p /\ Held(cache[p]) /\ Complete(cache[p])
    BY DEF DocInv, Servable, Coherent
  <2> QED BY <2>1 DEF Held, Complete
<1> QED BY <1>1, DocInvHolds, PTL

\* Whoever is served from the cache sent a heartbeat within -stale and -cache
\* together.
THEOREM AgeStaysBounded == DocumentSpec => []BoundedAge
<1>1. TypeOK /\ DocInv => BoundedAge
  <2> SUFFICES ASSUME TypeOK, DocInv, NEW p \in Private, Servable(p), NEW d \in cache[p].nodes
               PROVE  now < nodes[d.id].seen + Stale + Ttl
    BY DEF BoundedAge
  <2>1. /\ cache[p].at \in Nat /\ d.id \in Known(nodes)
        /\ cache[p].at <= nodes[d.id].seen + Stale /\ now < cache[p].at + Ttl
    BY DEF DocInv, Servable, Coherent, Early, Held
  <2>2. nodes[d.id].seen \in Nat /\ now \in Nat /\ Stale \in Nat /\ Ttl \in Nat
    BY <2>1, BoundsAssumption, TtlAssumption DEF TypeOK, Known, Entry
  <2> QED BY <2>1, <2>2
<1> QED BY <1>1, DocInvHolds, StoreKeeps, PTL
============================================================================
