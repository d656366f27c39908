---------------------------- MODULE NodeStore ----------------------------
(***************************************************************************)
(* The directory's node store and the goroutines that share it             *)
(* (src/directory.go): concurrent /register handlers, the prober that      *)
(* opens a TCP connection to every fresh node, the persisted copy of the   *)
(* store, and the restart that reads it back.                              *)
(*                                                                         *)
(* A descriptor is abstracted to the fields the store looks at.  Its       *)
(* Ed25519 signature is a function of the other fields, so "old.Sig !=     *)
(* desc.Sig" is "the descriptors differ".  Cheap rejections that happen    *)
(* before the store's lock (bad signature, bad field, address different    *)
(* from the observed one) change nothing and are stuttering steps.         *)
(***************************************************************************)
EXTENDS Naturals, FiniteSets

CONSTANTS
    Node,        \* identities (fingerprints of identity keys)
    IP, Port,    \* addresses and ports a descriptor may carry
    Private,     \* values of the Private flag in use: a subset of BOOLEAN
    Expiry,      \* the expiry times in use
    Handler,     \* goroutines serving POST /register
    NoEntry,     \* "no such key" of the map, and "no request" of a handler
    MaxNodes,    \* -max-nodes, 0 = no limit
    MaxPerIP,    \* -max-per-ip, 0 = no limit
    Stale,       \* -stale, in clock ticks
    Probe,       \* FALSE under -no-probe
    DiskFaults,  \* TRUE: writeJSONAtomic may fail
    MaxTime,     \* bound on the clock
    MaxEvents    \* bound on requests, restarts and port changes together

Descriptor == [id : Node, ip : IP, port : Port, private : Private, expires : Expiry]
Endpoint == IP \X Port

\* storedNode; Seen is a clock value.  Of Probed the code only ever asks whether
\* it is zero, which is NoEntry here; when it is not, the model remembers to which
\* endpoint the attempt was made that gave the verdict.
Entry == [desc : Descriptor, seen : Nat, reachable : BOOLEAN,
          probed : Endpoint \cup {NoEntry}]

ASSUME NoEntryAssumption ==
    NoEntry \notin Entry /\ NoEntry \notin Descriptor /\ NoEntry \notin Endpoint
\* Identities are fixed-length fingerprints.
ASSUME NodeAssumption == IsFiniteSet(Node)
ASSUME BoundsAssumption == /\ MaxNodes \in Nat /\ MaxPerIP \in Nat
                           /\ Stale \in Nat /\ MaxTime \in Nat /\ MaxEvents \in Nat
                           /\ Probe \in BOOLEAN /\ DiskFaults \in BOOLEAN
                           /\ Private \subseteq BOOLEAN /\ Expiry \subseteq Nat

VARIABLES
    nodes,      \* Store.nodes: identity -> entry
    version,    \* Store.version: bumped when the published content may change
    disk,       \* what the state file holds
    handler,    \* per handler: where it stands, its request, the entry it got back
    wake,       \* Prober.wake: is the one-place channel full?
    ppc,        \* prober: "scan", "probe" or "wait"
    targets,    \* prober: descriptors copied at the start of the round
    pending,    \* prober: those whose connection attempt has not ended
    up,         \* prober: identities whose attempt succeeded this round
    listening,  \* environment: the endpoints that accept a connection now
    now,        \* the directory's clock
    events,     \* environment events so far
    opened      \* history: <<id, ip, port>> of every successful attempt

storeVars  == <<nodes, version, disk>>
proberVars == <<ppc, targets, pending, up>>
envVars    == <<listening, now, events>>
vars == <<nodes, version, disk, handler, wake, proberVars, envVars, opened>>

----------------------------------------------------------------------------
\* Reading a store.

Known(s) == {n \in Node : s[n] # NoEntry}
At(d) == <<d.ip, d.port>>
OnIP(s, ip) == {n \in Known(s) : s[n].desc.ip = ip}

\* Faulty variant for EndpointUnique: only new identities are checked.
OccupiedForNew(s, d) == /\ s[d.id] = NoEntry
                        /\ \E n \in Known(s) \ {d.id} : At(s[n].desc) = At(d)

\* Does another identity hold the endpoint?
Occupied(s, d) == \E n \in Known(s) \ {d.id} : At(s[n].desc) = At(d)

\* Faulty variant for NodeLimit: off by one.
RoomForOneMore(s, d) == MaxNodes > 0 => Cardinality(Known(s)) <= MaxNodes

\* The limits, which only a new identity is held to.
Room(s, d) == /\ MaxNodes > 0 => Cardinality(Known(s)) < MaxNodes
              /\ MaxPerIP > 0 => Cardinality(OnIP(s, d.ip)) < MaxPerIP

Fresh(e) == now <= e.seen + Stale
Current(d) == now <= d.expires       \* VerifyDescriptor, on a genuine descriptor

\* The identities Alive(private) returns at this moment.
Alive(private) == {n \in Known(nodes) : /\ Fresh(nodes[n])
                                        /\ Probe => nodes[n].reachable
                                        /\ nodes[n].desc.private = private
                                        /\ Current(nodes[n].desc)}
Listed == UNION {Alive(p) : p \in Private}

\* Store.save: the error is logged and the operation goes on.
Save(s) == \/ disk' = s
           \/ DiskFaults /\ UNCHANGED disk

\* Faulty variant for TypeOK: a null entry of the file is not skipped.
LoadNull(s) == [n \in Node |-> IF s[n] # NoEntry THEN s[n] ELSE [seen |-> 0]]

\* Store.load drops entries whose descriptor no longer verifies.
Load(s) == [n \in Node |-> IF s[n] # NoEntry /\ Current(s[n].desc)
                           THEN s[n] ELSE NoEntry]

----------------------------------------------------------------------------
\* POST /register.

Idle == [pc |-> "idle", desc |-> NoEntry, live |-> FALSE, reachable |-> FALSE]

HandlerState == {Idle} \cup [pc : {"store", "kick"}, desc : Descriptor,
                             live : BOOLEAN, reachable : BOOLEAN]

\* Faulty variant for NeverOnItsWord: a node counts as reachable until a probe
\* says otherwise.
RenewedTrusting(old, d) ==
    LET kept == old # NoEntry /\ At(old.desc) = At(d)
    IN [desc |-> d, seen |-> now,
        reachable |-> kept => old.reachable,
        probed |-> IF kept THEN old.probed ELSE NoEntry]

\* The entry that replaces the node's old one.
Renewed(old, d) ==
    LET kept == old # NoEntry /\ At(old.desc) = At(d)
    IN [desc |-> d, seen |-> now,
        reachable |-> kept /\ old.reachable,
        probed |-> IF kept THEN old.probed ELSE NoEntry]

\* A request whose descriptor verifies and carries the observed address.
Receive(h, d) ==
    /\ handler[h] = Idle
    /\ events < MaxEvents
    /\ Current(d)
    /\ handler' = [handler EXCEPT ![h] = [pc |-> "store", desc |-> d,
                                          live |-> FALSE, reachable |-> FALSE]]
    /\ events' = events + 1
    /\ UNCHANGED <<storeVars, wake, proberVars, listening, now, opened>>

\* The locked part of Store.Register: 403, nothing stored.
Refuse(h) ==
    LET d == handler[h].desc
    IN /\ handler[h].pc = "store"
       /\ Occupied(nodes, d) \/ (nodes[d.id] = NoEntry /\ ~Room(nodes, d))
       /\ handler' = [handler EXCEPT ![h] = Idle]
       /\ UNCHANGED <<storeVars, wake, proberVars, envVars, opened>>

\* The locked part of Store.Register: the entry is stored.  The handler keeps a
\* pointer to it ("live"): another registration of the same identity puts a
\* different entry in the map and leaves the older handler with the old one.
Accept(h) ==
    LET d == handler[h].desc
        old == nodes[d.id]
        entry == Renewed(old, d)
        stored == [nodes EXCEPT ![d.id] = entry]
    IN /\ handler[h].pc = "store"
       /\ ~Occupied(nodes, d)
       /\ old = NoEntry => Room(nodes, d)
       /\ nodes' = stored
       /\ version' = IF old # NoEntry /\ old.desc = d THEN version ELSE version + 1
       /\ Save(stored)
       /\ handler' = [g \in Handler |->
             IF g = h
             THEN [pc |-> "kick", desc |-> d, live |-> TRUE, reachable |-> entry.reachable]
             ELSE IF handler[g].pc = "kick" /\ handler[g].desc.id = d.id
             THEN [handler[g] EXCEPT !.live = FALSE]
             ELSE handler[g]]
       /\ UNCHANGED <<wake, proberVars, envVars, opened>>

\* Faulty variant for NoLostWakeup: an unbuffered wake channel, whose
\* non-blocking send is lost unless the prober is waiting.
KickUnbuffered(h) ==
    /\ handler[h].pc = "kick"
    /\ wake' = (wake \/ (Probe /\ ~handler[h].reachable /\ ppc = "wait"))
    /\ handler' = [handler EXCEPT ![h] = Idle]
    /\ UNCHANGED <<storeVars, proberVars, envVars, opened>>

\* After the lock: "if s.prober != nil && !saved.Reachable { Kick() }", a
\* non-blocking send, then the answer.  saved.Reachable is read unlocked.
Kick(h) ==
    /\ handler[h].pc = "kick"
    /\ wake' = (wake \/ (Probe /\ ~handler[h].reachable))
    /\ handler' = [handler EXCEPT ![h] = Idle]
    /\ UNCHANGED <<storeVars, proberVars, envVars, opened>>

----------------------------------------------------------------------------
\* Prober.Run.

\* Faulty variant for EventuallyListed: what was probed is not probed again.
TargetsUnprobed == {nodes[n].desc : n \in {m \in Known(nodes) : Fresh(nodes[m])
                                                              /\ nodes[m].probed = NoEntry}}

\* Store.probeTargets: copies of the fresh entries.
ProbeTargets == {nodes[n].desc : n \in {m \in Known(nodes) : Fresh(nodes[m])}}

\* Faulty variant for EventuallyWithdrawn: a verdict only ever turns a node on.
VerdictSticky(e, ok, at) == [e EXCEPT !.reachable = @ \/ ok, !.probed = at]

\* Store.applyProbe, on one entry: the verdict of an attempt made to "at".
Verdict(e, ok, at) == [e EXCEPT !.reachable = ok, !.probed = at]

\* The endpoint the round under way tries for an identity.
ProbedAt(n) == At(CHOOSE d \in targets : d.id = n)

\* A round begins; an empty one goes straight to the wait.
Scan ==
    /\ Probe /\ ppc = "scan"
    /\ targets' = ProbeTargets
    /\ pending' = targets'
    /\ up' = {}
    /\ ppc' = IF targets' = {} THEN "wait" ELSE "probe"
    /\ UNCHANGED <<storeVars, handler, wake, envVars, opened>>

\* One tcpProbe ends; the attempts of a round run in parallel.
Connect(d) ==
    /\ ppc = "probe" /\ d \in pending
    /\ pending' = pending \ {d}
    /\ up' = IF At(d) \in listening THEN up \cup {d.id} ELSE up
    /\ opened' = IF At(d) \in listening
                 THEN opened \cup {<<d.id, d.ip, d.port>>} ELSE opened
    /\ UNCHANGED <<storeVars, handler, wake, ppc, targets, envVars>>

\* wg.Wait() is over: applyProbe writes the verdicts, by identity alone.
ApplyProbe ==
    LET hit == {d.id : d \in targets} \cap Known(nodes)
        judged == [n \in Node |->
                     IF n \in hit
                     THEN Verdict(nodes[n], n \in up, ProbedAt(n))
                     ELSE nodes[n]]
        flipped == {n \in hit : judged[n].reachable # nodes[n].reachable}
    IN /\ ppc = "probe" /\ pending = {}
       /\ nodes' = judged
       /\ version' = version + Cardinality(flipped)
       /\ Save(judged)
       /\ handler' = [h \in Handler |->
             IF handler[h].live /\ handler[h].desc.id \in hit
             THEN [handler[h] EXCEPT !.reachable = judged[handler[h].desc.id].reachable]
             ELSE handler[h]]
       /\ ppc' = "wait" /\ targets' = {} /\ up' = {}
       /\ UNCHANGED <<wake, pending, envVars, opened>>

\* The select: the wake channel or the interval timer, whichever is chosen.
Woken == /\ ppc = "wait" /\ wake
         /\ wake' = FALSE /\ ppc' = "scan"
         /\ UNCHANGED <<storeVars, handler, targets, pending, up, envVars, opened>>

Timer == /\ ppc = "wait"
         /\ ppc' = "scan"
         /\ UNCHANGED <<storeVars, handler, wake, targets, pending, up, envVars, opened>>

----------------------------------------------------------------------------
\* The environment: time, ports that open and close, a restarted process.

Tick == /\ now < MaxTime
        /\ now' = now + 1
        /\ UNCHANGED <<storeVars, handler, wake, proberVars, listening, events, opened>>

Toggle(e) ==
    /\ events < MaxEvents
    /\ events' = events + 1
    /\ listening' = IF e \in listening THEN listening \ {e} ELSE listening \cup {e}
    /\ UNCHANGED <<storeVars, handler, wake, proberVars, now, opened>>

\* A crash at any point: handlers and the prober's round are gone, NewStore
\* loads the file, a new prober starts.  A crash inside the locked part of an
\* operation leaves the file as it was, so it is a crash before the operation.
Restart ==
    /\ events < MaxEvents
    /\ events' = events + 1
    /\ nodes' = Load(disk)
    /\ version' = 0
    /\ handler' = [h \in Handler |-> Idle]
    /\ wake' = FALSE
    /\ ppc' = "scan" /\ targets' = {} /\ pending' = {} /\ up' = {}
    /\ UNCHANGED <<disk, listening, now, opened>>

----------------------------------------------------------------------------
Init ==
    /\ nodes = [n \in Node |-> NoEntry]
    /\ version = 0
    /\ disk = nodes
    /\ handler = [h \in Handler |-> Idle]
    /\ wake = FALSE
    /\ ppc = "scan" /\ targets = {} /\ pending = {} /\ up = {}
    /\ listening \in SUBSET Endpoint
    /\ now = 1 /\ events = 0
    /\ opened = {}

HandlerStep(h) == Refuse(h) \/ Accept(h) \/ Kick(h)
ProberStep == Scan \/ (\E d \in pending : Connect(d)) \/ ApplyProbe \/ Woken \/ Timer

\* Everything but a restart.
Work ==
    \/ \E h \in Handler, d \in Descriptor : Receive(h, d)
    \/ \E h \in Handler : Refuse(h)
    \/ \E h \in Handler : Accept(h)
    \/ \E h \in Handler : Kick(h)
    \/ Scan
    \/ \E d \in pending : Connect(d)
    \/ ApplyProbe
    \/ Woken
    \/ Timer
    \/ Tick
    \/ \E e \in Endpoint : Toggle(e)

Next == Work \/ Restart

Spec == Init /\ [][Next]_vars

\* Goroutines that can run do run; requests, port changes and restarts may stop.
Fairness == /\ \A h \in Handler : WF_vars(HandlerStep(h))
            /\ WF_vars(ProberStep)
            /\ WF_vars(Tick)
FairSpec == Spec /\ Fairness

----------------------------------------------------------------------------
\* Properties.

\* Every variable has its type.
TypeOK ==
    /\ nodes \in [Node -> Entry \cup {NoEntry}]
    /\ disk \in [Node -> Entry \cup {NoEntry}]
    /\ version \in Nat
    /\ handler \in [Handler -> HandlerState]
    /\ wake \in BOOLEAN
    /\ ppc \in {"scan", "probe", "wait"}
    /\ targets \subseteq Descriptor /\ pending \subseteq targets /\ up \subseteq Node
    /\ listening \subseteq Endpoint
    /\ now \in Nat /\ events \in Nat
    /\ opened \subseteq Node \X IP \X Port

\* Entries sit under their own identity, and no two identities share ip:port.
UniqueIn(s) ==
    /\ \A n \in Known(s) : s[n].desc.id = n
    /\ \A m, n \in Known(s) : At(s[m].desc) = At(s[n].desc) => m = n

\* Store.Register: "ip:port is unique, nobody else's entry point can be taken",
\* whatever the interleaving of handlers, in memory and in the file a restart
\* will read.
EndpointUnique == UniqueIn(nodes) /\ UniqueIn(disk)

\* Store.Register: the store never holds more than -max-nodes identities, and
\* neither does the file.
NodeLimit == MaxNodes > 0 => /\ Cardinality(Known(nodes)) <= MaxNodes
                             /\ Cardinality(Known(disk)) <= MaxNodes

\* register/Kick/Prober.Run: a node that is fresh and of whose present endpoint
\* there is no verdict, whether it was never probed or the last verdict is of an
\* endpoint it has left, does not wait for the next timer tick: the wake channel is
\* full, a round that tries this endpoint is under way or about to begin, or its
\* handler has yet to kick.  The one exception is the race of ListedWasOpened: a
\* verdict of the endpoint it left made the node reachable before its handler
\* looked, and the handler does not kick.
NoLostWakeup ==
    Probe => \A n \in Known(nodes) :
        LET e == nodes[n]
        IN (Fresh(e) /\ e.probed # At(e.desc)) =>
             \/ wake
             \/ ppc = "scan"
             \/ \E d \in targets : d.id = n /\ At(d) = At(e.desc)
             \/ \E h \in Handler : /\ handler[h].pc = "kick" /\ handler[h].desc.id = n
                                   /\ handler[h].live /\ ~handler[h].reachable
             \/ e.probed # NoEntry /\ e.reachable

\* "The directory does not take a heartbeat at its word": an identity to which
\* no connection was ever opened is never listed, over moves and restarts.
NeverOnItsWord ==
    Probe => \A n \in Listed : \E e \in Endpoint : <<n, e[1], e[2]>> \in opened

\* src/directory.go:12-13: a node is in the consensus only if the directory
\* could open a TCP connection to *its ip:port*.
ListedWasOpened ==
    Probe => \A n \in Listed :
        <<n, nodes[n].desc.ip, nodes[n].desc.port>> \in opened

\* Prober.Run: a node whose port stays closed is in the end never listed.
EventuallyWithdrawn ==
    \A n \in Node :
        <>[](Probe /\ n \in Known(nodes) /\ At(nodes[n].desc) \notin listening)
            => <>[](n \notin Listed)

\* Prober.Run: a node that stays fresh and keeps listening is in the end listed
\* for good.
EventuallyListed ==
    \A n \in Node :
        <>[](/\ n \in Known(nodes) /\ Fresh(nodes[n]) /\ Current(nodes[n].desc)
             /\ At(nodes[n].desc) \in listening)
            => <>[](n \in Listed)
============================================================================
