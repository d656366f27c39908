---------------------------- MODULE Consensus ----------------------------
(***************************************************************************)
(* The signed documents GET /consensus and GET /bridges answer with        *)
(* (Consensus.Document, src/directory.go), composed with the node store    *)
(* they are built from.  A document is rebuilt under c.mu, but the store   *)
(* is read through its own lock, twice: first the version, then the nodes. *)
(* Registrations and probe verdicts land between the two reads.            *)
(*                                                                         *)
(* A cached document is served without any step of its own: Servable(p)    *)
(* says whether the next request for p is answered from the cache.         *)
(***************************************************************************)
EXTENDS NodeStore

CONSTANT Ttl    \* -cache, in clock ticks

ASSUME TtlAssumption == Ttl \in Nat

\* consensusCacheEntry: the nodes of the body, its time, the store's version.
Doc == [private : Private, at : Nat, version : Nat, nodes : SUBSET Descriptor]

VARIABLES
    cache,    \* Consensus.cache: per Private flag, a document or NoEntry
    building  \* the rebuild under c.mu: NoEntry, or the document so far and its stage

cvars == <<vars, cache, building>>
consensusVars == <<cache, building>>

----------------------------------------------------------------------------
\* Faulty variant for BoundedAge: the cache never expires.
ServableForever(p) == cache[p] # NoEntry /\ cache[p].version = version

\* The cache hit: same version, not older than the ttl.
Servable(p) == /\ cache[p] # NoEntry
               /\ cache[p].version = version
               /\ now < cache[p].at + Ttl

\* A request that misses the cache takes c.mu and reads the clock and the version.
Begin(p) ==
    /\ building = NoEntry
    /\ ~Servable(p)
    /\ building' = [stage |-> "version",
                    doc |-> [private |-> p, at |-> now, version |-> version, nodes |-> {}]]
    /\ UNCHANGED <<vars, cache>>

\* Store.Alive: the nodes of the body, one atomic read of the store.
ReadNodes ==
    /\ building # NoEntry /\ building.stage = "version"
    /\ building' = [stage |-> "nodes",
                    doc |-> [building.doc EXCEPT
                        !.nodes = {nodes[n].desc : n \in Alive(building.doc.private)}]]
    /\ UNCHANGED <<vars, cache>>

\* Faulty variant for CacheCoherent: the entry gets the version read last.
PublishLateVersion ==
    /\ building # NoEntry /\ building.stage = "nodes"
    /\ cache' = [cache EXCEPT ![building.doc.private] =
                    [building.doc EXCEPT !.version = version]]
    /\ building' = NoEntry
    /\ UNCHANGED vars

\* The signed document enters the cache and c.mu is released.
Publish ==
    /\ building # NoEntry /\ building.stage = "nodes"
    /\ cache' = [cache EXCEPT ![building.doc.private] = building.doc]
    /\ building' = NoEntry
    /\ UNCHANGED vars

\* A restarted process has an empty cache.
RestartAll == /\ Restart
              /\ cache' = [p \in Private |-> NoEntry]
              /\ building' = NoEntry

----------------------------------------------------------------------------
DocumentInit == /\ Init
                /\ cache = [p \in Private |-> NoEntry]
                /\ building = NoEntry

DocumentNext ==
    \/ Work /\ UNCHANGED consensusVars
    \/ RestartAll
    \/ \E p \in Private : Begin(p)
    \/ ReadNodes
    \/ Publish

DocumentSpec == DocumentInit /\ [][DocumentNext]_cvars

----------------------------------------------------------------------------
\* Properties.

\* The two variables of the cache have their types.
ConsensusTypeOK ==
    /\ cache \in [Private -> Doc \cup {NoEntry}]
    /\ building \in [stage : {"version", "nodes"}, doc : Doc] \cup {NoEntry}

\* Consensus.Document: "the signature is recomputed only when the membership
\* changes or the cache expires".  Whatever handlers and the prober did while a
\* document was built, a document that is served from the cache lists only
\* descriptors the store still holds, of nodes it still finds reachable; and it
\* misses a node that is alive only if the node sent a heartbeat, with the same
\* descriptor, after the document was begun.
CacheCoherent ==
    \A p \in {q \in Private : Servable(q)} :
        /\ \A d \in cache[p].nodes : /\ d.id \in Known(nodes)
                                     /\ nodes[d.id].desc = d
                                     /\ Probe => nodes[d.id].reachable
        /\ \A n \in Alive(p) : \/ nodes[n].desc \in cache[p].nodes
                               \/ nodes[n].seen >= cache[p].at

\* Store.Alive and Consensus.Document: the last heartbeat of a node served from
\* the cache is younger than -stale and -cache together.
BoundedAge ==
    \A p \in {q \in Private : Servable(q)} :
        \A d \in cache[p].nodes : now < nodes[d.id].seen + Stale + Ttl
============================================================================
