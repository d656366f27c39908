------------------------------ MODULE NodeLoop ------------------------------
(***************************************************************************)
(* The loop of a node that is not an exit (runNode, src/node.go): it       *)
(* registers with every directory at once, remembers the address they see  *)
(* it at, asks them for the network's nodes and lets its core connect to   *)
(* these nodes only.                                                       *)
(*                                                                         *)
(* Every goroutine of DirectorySet.Register (src/quorum.go) signs through  *)
(* one closure that puts the wanted address into c.PublicIP, has the       *)
(* configuration signed and puts the old address back.  Nothing is locked, *)
(* so each access is a step; a string is two words, so accesses that       *)
(* overlap may also leave or read an address that nobody meant, Garbled.   *)
(* No directory is run with -trust-ip.                                     *)
(*                                                                         *)
(* What a peer has left of its grace period is counted down; Fetch is far  *)
(* shorter than a tick, so its answers are as fresh as its end.            *)
(***************************************************************************)
EXTENDS Integers, FiniteSets

CONSTANTS
    Directory,     \* DirectorySet.Refs
    Honest,        \* those that run this program
    Quorum,        \* DirectorySet.Quorum
    Address,       \* the addresses a directory may see the node at
    NoAddress,     \* the empty string
    Garbled,       \* a string made of the words of two others
    Self,          \* the node's identity
    Descriptor,    \* descriptors of nodes: [id, at, pub]
    Grace,         \* -peer-grace, in ticks
    DiskFaults,    \* TRUE: writeJSONAtomic may fail
    MaxEvents      \* bound on restarts and changes of address together

Endpoint == {n.at : n \in Descriptor}
Text == Address \cup {NoAddress, Garbled}

ASSUME NodeLoopAssumption ==
    /\ IsFiniteSet(Directory) /\ Honest \subseteq Directory
    /\ Quorum \in 1..Cardinality(Directory)
    /\ NoAddress \notin Address /\ Garbled \notin Address
    /\ IsFiniteSet(Descriptor) /\ \A n \in Descriptor : n.pub \in Nat
    /\ Grace \in Nat /\ MaxEvents \in Nat /\ DiskFaults \in BOOLEAN

VARIABLES
    publicIP,   \* c.PublicIP
    file,       \* public_ip of the node's file
    pc,         \* where runNode stands: "wait", "register" or "fetch"
    worker,     \* per directory: its goroutine of Register
    view,       \* per directory: the address it sees the node at
    seen,       \* peerTracker.seen: the ticks left of each endpoint
    policy,     \* policyDialer.policy: the same, as the dialer has it
    events,     \* restarts and changes of address so far
    settled,    \* history: a round began with the address all directories see
    disturbed,  \* history: in this round a request failed or two goroutines
                \* were inside the closure together
    backed,     \* history: ticks left since an honest directory listed a node
                \* that an answer of the same Fetch puts at the endpoint
    confirmed   \* history: ticks left since a result named the endpoint

addressVars == <<publicIP, file, worker, settled, disturbed>>
peerVars == <<seen, policy, backed, confirmed>>
envVars == <<view, events>>
vars == <<addressVars, peerVars, envVars, pc>>

----------------------------------------------------------------------------
\* One goroutine of Register: the closure desc(ip).

Refused == NoAddress
NotRunning == [stage |-> "done", attempt |-> 0, ip |-> NoAddress,
               saved |-> NoAddress, signed |-> NoAddress, result |-> Refused]

Inside(d) == worker[d].stage \in {"write", "sign", "restore"}

\* What an access of d to c.PublicIP may yield where v is meant: v, or the
\* words of v mixed with those of another string on its way in or out.
Mixed(d, v) ==
    {v} \cup {Garbled : e \in {x \in Directory \ {d} :
                Inside(x) /\ (worker[x].ip # v \/ worker[x].saved # v)}}

\* "saved := c.PublicIP"
Enter(d) ==
    /\ worker[d].stage = "enter"
    /\ \E v \in Mixed(d, publicIP) :
         worker' = [worker EXCEPT ![d].stage = "write", ![d].saved = v]
    /\ disturbed' = (disturbed \/ \E e \in Directory \ {d} : Inside(e))
    /\ UNCHANGED <<publicIP, file, settled, pc, peerVars, envVars>>

\* "c.PublicIP = ip"
Write(d) ==
    /\ worker[d].stage = "write"
    /\ publicIP' \in Mixed(d, worker[d].ip)
    /\ worker' = [worker EXCEPT ![d].stage = "sign"]
    /\ UNCHANGED <<file, settled, disturbed, pc, peerVars, envVars>>

\* c.Descriptor: the address that is signed is the one found in c.PublicIP.
Sign(d) ==
    /\ worker[d].stage = "sign"
    /\ \E v \in Mixed(d, publicIP) :
         worker' = [worker EXCEPT ![d].stage = "restore", ![d].signed = v]
    /\ UNCHANGED <<publicIP, file, settled, disturbed, pc, peerVars, envVars>>

\* Faulty variant for StaysSettled: the address is cleared, not put back.
RestoreEmpty(d) ==
    /\ worker[d].stage = "restore"
    /\ publicIP' = NoAddress
    /\ worker' = [worker EXCEPT ![d] = [NotRunning EXCEPT !.stage = "post",
                      !.attempt = worker[d].attempt, !.signed = worker[d].signed]]
    /\ UNCHANGED <<file, settled, disturbed, pc, peerVars, envVars>>

\* "c.PublicIP = saved"
Restore(d) ==
    /\ worker[d].stage = "restore"
    /\ publicIP' \in Mixed(d, worker[d].saved)
    /\ worker' = [worker EXCEPT ![d] = [NotRunning EXCEPT !.stage = "post",
                      !.attempt = worker[d].attempt, !.signed = worker[d].signed]]
    /\ UNCHANGED <<file, settled, disturbed, pc, peerVars, envVars>>

----------------------------------------------------------------------------
\* The rest of the goroutine: c.Register and the directory's answer.

Finish(d, r) == worker' = [worker EXCEPT ![d] = [NotRunning EXCEPT !.result = r]]

\* The descriptor carries the observed address, and nothing else is against it.
Accepted(d) ==
    /\ worker[d].stage = "post" /\ worker[d].signed = view[d]
    /\ Finish(d, view[d])
    /\ UNCHANGED <<publicIP, file, settled, disturbed, pc, peerVars, envVars>>

\* Faulty variant for Settles: the address told is not signed.
MismatchOnce(d) ==
    /\ worker[d].stage = "post" /\ worker[d].signed # view[d]
    /\ Finish(d, Refused)
    /\ UNCHANGED <<publicIP, file, settled, disturbed, pc, peerVars, envVars>>

\* 409 with the observed address: the goroutine signs once more, but only once.
Mismatch(d) ==
    /\ worker[d].stage = "post" /\ worker[d].signed # view[d]
    /\ IF worker[d].attempt = 0
       THEN worker' = [worker EXCEPT ![d] = [NotRunning EXCEPT
                           !.stage = "enter", !.attempt = 1, !.ip = view[d]]]
       ELSE Finish(d, Refused)
    /\ UNCHANGED <<publicIP, file, settled, disturbed, pc, peerVars, envVars>>

\* The request fails, or the directory refuses the node for another reason.
Fail(d) ==
    /\ worker[d].stage = "post"
    /\ Finish(d, Refused)
    /\ disturbed' = TRUE
    /\ UNCHANGED <<publicIP, file, settled, pc, peerVars, envVars>>

----------------------------------------------------------------------------
\* runNode around Register.

\* The interval is over: every goroutine starts with the address known now.
Register ==
    /\ pc = "wait" /\ pc' = "register"
    /\ worker' = [d \in Directory |-> [NotRunning EXCEPT !.stage = "enter", !.ip = publicIP]]
    /\ settled' = \A d \in Directory : view[d] = publicIP
    /\ UNCHANGED <<publicIP, file, disturbed, peerVars, envVars>>

\* The directories that accepted the node at address a.
SeenAs(a) == {d \in Directory : worker[d].result = a}

\* The most frequent of the addresses accepted; which of two that are equally
\* frequent is up to the order of a map.
Observed ==
    LET accepted == {worker[d].result : d \in Directory} \ {Refused}
    IN IF accepted = {} THEN {NoAddress}
       ELSE {a \in accepted : \A b \in accepted :
                Cardinality(SeenAs(b)) <= Cardinality(SeenAs(a))}

\* Faulty variant for TypeOK: what c.PublicIP holds is saved after every round.
RememberHeld ==
    /\ pc = "register" /\ pc' = "fetch"
    /\ \A d \in Directory : worker[d].stage = "done"
    /\ \E observed \in Observed :
         publicIP' = IF observed = NoAddress THEN publicIP ELSE observed
    /\ file' = publicIP'
    /\ worker' = [d \in Directory |-> NotRunning]
    /\ UNCHANGED <<settled, disturbed, peerVars, envVars>>

\* wg.Wait() is over: an address that is new is remembered and saved.
Remember ==
    /\ pc = "register" /\ pc' = "fetch"
    /\ \A d \in Directory : worker[d].stage = "done"
    /\ \E observed \in Observed :
         IF observed # NoAddress /\ observed # publicIP
         THEN /\ publicIP' = observed
              /\ \/ file' = observed
                 \/ DiskFaults /\ UNCHANGED file
         ELSE UNCHANGED <<publicIP, file>>
    /\ worker' = [d \in Directory |-> NotRunning]
    /\ UNCHANGED <<settled, disturbed, peerVars, envVars>>

----------------------------------------------------------------------------
\* The peers.

Offered(answer) == UNION {answer[d] : d \in DOMAIN answer}
Votes(answer, id) == {d \in DOMAIN answer : \E n \in answer[d] : n.id = id}

\* DirectorySet.Fetch: the newest descriptor of every node with a quorum.
Result(answer) ==
    {n \in Offered(answer) : /\ Cardinality(Votes(answer, n.id)) >= Quorum
                             /\ \A m \in Offered(answer) : m.id = n.id => m.pub <= n.pub}

\* peerTracker.update skips the node itself.
Peers(nodes) == {n.at : n \in {m \in nodes : m.id # Self}}

Extended(left, ends) == [e \in Endpoint |-> IF e \in ends THEN Grace ELSE left[e]]

\* Faulty variant for GraceHolds: who is not in the result is forgotten.
UpdatedAfresh(nodes) == [e \in Endpoint |-> IF e \in Peers(nodes) THEN Grace ELSE 0]

\* peerTracker.update: its new map.  An entry whose time is up stays without
\* effect until it is deleted.
Updated(nodes) == Extended(seen, Peers(nodes))

\* What an honest directory's word is behind: every endpoint at which an answer
\* puts a node that an honest directory lists.
Backed(answer) ==
    {n.at : n \in {m \in Offered(answer) : Votes(answer, m.id) \cap Honest # {}}}

\* Faulty variant for PeersBacked: the directories' lists are not voted on.
FetchUnion(answer) ==
    /\ pc = "fetch" /\ pc' = "wait"
    /\ seen' = Updated(Offered(answer)) /\ policy' = seen'
    /\ confirmed' = Extended(confirmed, Peers(Offered(answer)))
    /\ backed' = Extended(backed, Backed(answer))
    /\ disturbed' = FALSE
    /\ UNCHANGED <<publicIP, file, worker, settled, envVars>>

\* Fetch, update and Store; without a quorum of answers the policy stays.
Fetch(answer) ==
    /\ pc = "fetch" /\ pc' = "wait"
    /\ IF Cardinality(DOMAIN answer) >= Quorum
       THEN /\ seen' = Updated(Result(answer)) /\ policy' = seen'
            /\ confirmed' = Extended(confirmed, Peers(Result(answer)))
            /\ backed' = Extended(backed, Backed(answer))
       ELSE UNCHANGED peerVars
    /\ disturbed' = FALSE
    /\ UNCHANGED <<publicIP, file, worker, settled, envVars>>

\* peerPolicy.permits: may the core connect to e now?
Permits(e) == policy[e] > 0

----------------------------------------------------------------------------
\* The environment.

Lapse(left) == [e \in Endpoint |-> IF left[e] > 0 THEN left[e] - 1 ELSE 0]

Tick ==
    /\ seen' = Lapse(seen) /\ policy' = Lapse(policy)
    /\ backed' = Lapse(backed) /\ confirmed' = Lapse(confirmed)
    /\ UNCHANGED <<addressVars, envVars, pc>>

\* A directory sees the node at another address from now on.
Renumber(d, a) ==
    /\ events < MaxEvents /\ events' = events + 1
    /\ view[d] # a /\ view' = [view EXCEPT ![d] = a]
    /\ settled' = FALSE
    /\ UNCHANGED <<publicIP, file, worker, disturbed, pc, peerVars>>

NobodyLeft == [e \in Endpoint |-> 0]

\* The node stops or crashes anywhere and is started again: until the next
\* result it connects to nobody.
Restart ==
    /\ events < MaxEvents /\ events' = events + 1
    /\ publicIP' = file /\ pc' = "wait"
    /\ worker' = [d \in Directory |-> NotRunning]
    /\ seen' = NobodyLeft /\ policy' = NobodyLeft /\ confirmed' = NobodyLeft
    /\ settled' = FALSE /\ disturbed' = FALSE
    /\ UNCHANGED <<file, view, backed>>

----------------------------------------------------------------------------
Init ==
    /\ publicIP \in {NoAddress} \cup Address /\ file = publicIP
    /\ pc = "wait" /\ worker = [d \in Directory |-> NotRunning]
    /\ view \in [Directory -> Address]
    /\ seen = NobodyLeft /\ policy = NobodyLeft
    /\ backed = NobodyLeft /\ confirmed = NobodyLeft
    /\ events = 0 /\ settled = FALSE /\ disturbed = FALSE

\* What the directories may answer: any lists, from any of them.
Answer == UNION {[D -> SUBSET Descriptor] : D \in SUBSET Directory}

WorkerStep(d) == \/ Enter(d) \/ Write(d) \/ Sign(d) \/ Restore(d)
                 \/ Accepted(d) \/ Mismatch(d) \/ Fail(d)

Next ==
    \/ \E d \in Directory : Enter(d)
    \/ \E d \in Directory : Write(d)
    \/ \E d \in Directory : Sign(d)
    \/ \E d \in Directory : Restore(d)
    \/ \E d \in Directory : Accepted(d)
    \/ \E d \in Directory : Mismatch(d)
    \/ \E d \in Directory : Fail(d)
    \/ Register
    \/ Remember
    \/ \E answer \in Answer : Fetch(answer)
    \/ Tick
    \/ \E d \in Directory, a \in Address : Renumber(d, a)
    \/ Restart

Spec == Init /\ [][Next]_vars

\* Requests end by their timeout, goroutines that can run do, the timer fires.
FairSpec == /\ Spec
            /\ \A d \in Directory : WF_vars(WorkerStep(d))
            /\ WF_vars(Register \/ Remember \/ \E answer \in Answer : Fetch(answer))

----------------------------------------------------------------------------
\* Properties.

Worker == [stage : {"enter", "write", "sign", "restore", "post", "done"},
           attempt : {0, 1}, ip : Text, saved : Text, signed : Text,
           result : Address \cup {Refused}]

\* Every variable has its type.
TypeOK ==
    /\ publicIP \in Text /\ file \in Address \cup {NoAddress}
    /\ pc \in {"wait", "register", "fetch"}
    /\ worker \in [Directory -> Worker] /\ view \in [Directory -> Address]
    /\ seen \in [Endpoint -> 0..Grace] /\ policy \in [Endpoint -> 0..Grace]
    /\ backed \in [Endpoint -> 0..Grace] /\ confirmed \in [Endpoint -> 0..Grace]
    /\ events \in 0..MaxEvents /\ settled \in BOOLEAN /\ disturbed \in BOOLEAN

\* The closure over c.PublicIP: a node that knows the address all directories
\* see signs that address for every one of them, however their goroutines
\* interleave inside the closure, and still knows it afterwards.
StaysSettled ==
    settled => \A d \in Directory : /\ publicIP = view[d]
                                    /\ worker[d].attempt = 0
                                    /\ worker[d].stage \in {"restore", "post"} =>
                                            worker[d].signed = view[d]

\* "an address in the signature that differs is told by the directory, and the
\* descriptor is signed again": if all directories see one address from some
\* time on, and now and then no request fails and no two goroutines meet inside
\* the closure, the node knows that address in the end and is not told it again.
Settles ==
    \A a \in Address :
        (/\ <>[](\A d \in Directory : view[d] = a)
         /\ []<>(pc = "fetch" /\ ~disturbed))
            => <>[](publicIP = a /\ \A d \in Directory : worker[d].attempt = 0)

\* "otherwise one directory could write in an address of its own": with fewer
\* liars than the quorum the core connects to no endpoint but those of nodes
\* that an honest directory listed within the grace period, even while no
\* quorum answers and the policy is old.
PeersBacked ==
    Cardinality(Directory \ Honest) < Quorum =>
        \A e \in Endpoint : Permits(e) => backed[e] > 0

\* peerTracker: "a node that drops out of the consensus for a minute must not
\* become unreachable at once": once a result named it, a peer stays allowed for
\* the grace period, through results without it and rounds without a quorum,
\* unless the node is restarted.
GraceHolds == \A e \in Endpoint : confirmed[e] > 0 => Permits(e)
============================================================================
