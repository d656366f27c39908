# A TLA+ verification of xray-onion

xray-onion is an onion network over Xray/VLESS with a directory service: nodes
register with directories and send heartbeats, directories publish signed lists
of nodes and keep a transparency log of every list they served, clients collect
the lists of several directories, keep what a quorum confirms and build
three-hop circuits. This directory holds TLA+ models of that program, the TLC
configurations that check them and proofs checked by TLAPS.

    tlasany M.tla                      parse a module
    tlc -config X.cfg M                run a model (the pairs are listed below)
    tlapm M.tla                        check the proofs of a module

## Inventory

Everything is one Go package. A directory, a node and a client are subcommands
of one binary; what follows is the state each part keeps.

| Component (source) | State | Operations | Interacts with | Hard behaviours | Correct when |
|---|---|---|---|---|---|
| Node store (`directory.go` 318-546) | map identity -> entry (descriptor, seen, reachable, probed), version, state file | Register, Alive, probeTargets, applyProbe, load, save | /register handlers, prober, Consensus; one mutex per call | handlers, prober and restarts interleave; failed saves; an entry is replaced while a handler holds a pointer to it | ip:port unique, limits kept, nobody listed on his word |
| Prober (554-620) | wake channel of one place, targets and results of a round | Run, Kick, tcpProbe | store (copies, then results by identity) | results are applied long after the copies were taken | no wake-up lost, verdicts arrive in the end |
| Consensus documents (622-696) | cache per kind, version and time of each | Document | store, log | version and nodes are read separately; ttl against staleness | the cache serves what the store still holds, of bounded age |
| Registration tokens (698-788, 939-988) | a file token -> identity | loadTokens, bindToken, MintToken | /register handlers, the `mint` command, which is another process | read-modify-write without a lock, one fixed temporary name, crashes | one identity per token, no token lost |
| Merkle tree (`translog.go` 41-201) | none | treeHash, paths, verifiers | log, client, tests | positions, sizes that are not powers of two | complete and sound |
| Transparency log (263-428) | leaves, index, file | Append, Head, InclusionProof, ConsistencyProofBetween, RootAt, Size | Document, /sth, /log/consistency | callers make several calls under separate locks; failed saves; restart | append-only, what is handed out verifies |
| Witness (430-516) | largest head seen per directory | Run, Observe, Seen | other directories, clients | only the largest head is kept | a fork shown to it is reported |
| Directory set (`quorum.go`) | keys and heads per directory | Fetch, fetchOne, checkLog, crossCheck, reconcile, Register | directories over HTTP, client state | parallel fetches, partial answers, forks, heads advanced before cross-checks | only quorum nodes; a rewritten history is noticed |
| Client state, guards (`path.go` 510-588, 676-757) | keys, heads, cached set, pinned guards; a file | LoadState, Save, ChooseGuards | refresh | nodes leave and return, crashes between change and save | guards stay pinned, bounded in number |
| Path selection (`path.go` 262-508, 590-632) | none | Compatible, Lookup, WeightedPick, BuildCircuits | refresh | pairwise rules over three positions | no two related nodes on a path |
| Circuits and proxy (`client.go` 106-752) | slots (path, ready, fails, downUntil), outbound handlers | Install, Pick, Report, Dial, connect, finish, pipe, SOCKS and HTTP handlers | Xray core, connections | Pick and Install race, late and repeated reports | a dead circuit is avoided, a slot never stays dead for good |
| Client loop (`client.go` 754-1021) | cached set, rotation | nodePool, refresh, runClient | all of the client | fall-back to the cache, errors half-way | the cache never bypasses the quorum |
| Node loop, egress policy (`node.go` 135-206, 328-452; `DirectorySet.Register` in `quorum.go`) | PublicIP and its file, peers with deadlines, the dialer's policy | Register round, update, permits | directories, Xray core | one closure over PublicIP called by parallel goroutines; rounds without a quorum | the right address is signed and kept; traffic goes to quorum-confirmed neighbours only, and to each for the grace period |
| Descriptors (`identity.go`, `path.go` 100-242) | none | Sign, Verify, Validate | everyone | expiry | nobody else's identity can be registered |
| HTTP surface, CLI, installation (`directory.go` 790-880, `main.go`, `install.go`) | none | routing, flags, files, units | - | - | not modelled |

`PROJECT.json` lists the same components with their status, and under
`hazards` what is hard to test in this code, each at its line and with the
properties that watch it.

## Modules

### NodeStore: store, registration, prober

`NodeStore.tla` holds the store and the goroutines around it. `nodes`,
`version`, `disk` are `Store.nodes`, `Store.version` and the state file;
`handler` has one entry per goroutine in `POST /register`; `wake`, `ppc`,
`targets`, `pending`, `up` are the prober's channel, its place in `Run` and the
local variables of a round. `listening` is the environment: the endpoints on
which somebody accepts connections.

| Action | Code |
|---|---|
| `Receive` | the checks of `Store.Register` before the lock |
| `Refuse`, `Accept` | the locked part: uniqueness, limits, new entry, version, save |
| `Kick` | the end of `dirServer.register`: the non-blocking send |
| `Scan`, `Connect`, `ApplyProbe`, `Woken`, `Timer` | one round of `Prober.Run` and its `select` |
| `Tick`, `Toggle`, `Restart` | time, ports that open and close, a crash at any point followed by `NewStore` |

Everything the code does under one acquisition of `Store.mu` is one action;
the steps between acquisitions interleave. The handler keeps a pointer to the
entry `Register` returned and reads `Reachable` through it without the lock.
The model keeps that pointer as `live`: as long as the entry is in the map,
`ApplyProbe` changes what the handler will read. `probed` remembers the endpoint
that the last verdict on an entry is about (`ProbedAt`). The code keeps no more than
that there was one, and no step looks at more; the properties do, since a round
writes its verdicts by identity and a node may have moved since.

Abstractions: a descriptor is identity, ip, port, the private flag and the
expiry; two descriptors with these fields equal count as one ("old.Sig !=
desc.Sig" is "they differ"). Signatures, field validation and the comparison
with the observed address reject without a change of state and are not steps.
The limit of 16 parallel attempts is any order of `Connect` steps.

### Consensus: documents and their cache

`Consensus.tla` extends NodeStore by `Consensus.Document`: `Begin` (lock, miss,
clock and version), `ReadNodes` (`Store.Alive`), `Publish` (cache entry, unlock).
Any step of the store may come between. A cache hit is the state function
`Servable`. Requests that wait for the mutex have no state of their own.

### TokenBinding: the token file

`TokenBinding.tla` models the file at the level of system calls: inodes with
contents, the two names that lead to them, and per handler or `mint` process
its place in lookup, `Store.Register`, `bindToken`, open/truncate, write and
rename. `CrashDirectory` and `CrashMint` stop an actor between any two of them.
`Serial = TRUE` restricts it to requests and mints that do not overlap.

### MerkleTree and TransparencyLog

`MerkleTree.tla` has the tree's operators, with the code's recursions and its
loops as recursive functions (`Walk` is the loop of both verifiers over a proof;
what `VerifyInclusion` does is what `VerifyConsistency` does with `sr`). Functions
take one argument and return a function of the others, because the prover
cannot look into functions of several. A hash is what was
hashed (SHA-256 is taken to be injective). `MCMerkleTree.tla` puts a verifier
beside them that holds an honest root and an earlier root, genuine or with one
leaf rewritten, and a prover that offers any proof made of existing hashes.

`TransparencyLog.tla` is the log with those who use it at once: a caller inside
`Consensus.Document` (`Begin`, `AppendLeaf`, `TakeHead`, `Prove`, `Finish`), a
reader of `/log/consistency` (`Ask`, `Path`, `RootAt`, `Answer`), `/sth`
(`ShowHead`) and `Restart`. Each call of a method of the log is one action.
`AppendOnlyLog.tla` is what the log promises: a history that only grows,
without repetitions, and heads each of which is the head of a prefix of it.
`Promise` maps `history` to `leaves` and `heads` to the heads handed out.
`MCTransparencyLog` puts the log and the verifier in one instance: a behaviour
is one of the log at work or one of the verifier.
`DiskFaults` lets a save fail, which `Append` does not notice. The run and the
theorems take it as FALSE: the promise holds only if saves succeed.

### DirectorySet: a client, its directories, their witnesses

`DirectorySet.tla` composes four parts of the code in one state: the logs of
the honest directories (`log`), what their `Witness` has seen of the others
(`seen`), the client's `DirectorySet` with its remembered heads (`heads`) and the
reports of a running `Fetch`, and the heads and the cached set in the client's
state, in memory and in the file (`st`, `disk`).

| Action | Code |
|---|---|
| `Grow`, `Expire` | `TransparencyLog.Append` of a new set; descriptors that go out of date |
| `Observe` | one turn of `Witness.Run`: GET /sth and `Witness.Observe` |
| `FetchOne` | a goroutine of `Fetch`: `fetchOne` with `checkLog`, the head remembered |
| `Settle` | `Fetch` after `wg.Wait`: `crossCheck`, `reconcile`, the votes; `nodePool` with its fall-back to the cache |
| `BuildFails`, `Save`, `Install` | the rest of `refresh`, step by step |
| `Restart` | a crash at any point; `LoadState`, `WithHeads` |

A directory that is not in `Honest` may sign anything, and something else each
time. A signed head stands for the history it commits to: what the log run
shows of the verifiers is used here as "a proof verifies exactly if the leaf is
in the history, or the one history begins the other". Honest logs only grow,
so when a proof is fetched makes no difference, and a goroutine of `Fetch` is
one step; the goroutines still come in any order and see different logs.

Each of the three kinds of request can fail by itself. The first gives the report
"down". A consistency proof that `checkLog` needs (`AsksForProof`) and does not get
gives "unproven": the answer does not count. A proof that `reconcile` needs
(`Asked`) and does not get counts as a fork, as `crossCheck` has it: `mute` in
`Settle` is the set of directories that leave those requests unanswered, and
`Forked(mute)` what is dropped then. A witness that cannot be asked has nothing to
say. Keys are taken as given, and bridges are left out, because no quorum is taken of
them. `relied` is a history variable: the heads behind the circuits installed.

### GuardPinning: guards over days, absences and crashes

`GuardPinning.tla` is `ChooseGuards` (`Kept`, `NewGuards`, `ChooseGuards`) inside
`refresh` (`BuildFails`, `Save`, `Install`) with `Restart` between any two steps,
`Tick` for days and `Change` for nodes that leave and return. `st` and `disk`
are `State.Guards` in memory and in the file.

`Since` and `LastSeen` are kept as ages in days that stop one day past the
limits they are compared with; the program compares nothing else. `NewGuards`
gives every set the loop over the shuffled candidates can end with.
Which circuits a guard may get, and which guards are compatible, is
`PathSelection`'s affair. A refresh that ends before
`ChooseGuards` does not touch the guards and is no step. A corrupt state file
is not modelled. `used` and `unsaved` are histories: the entries under which
guards got circuits while their terms last, and whether the last save failed.

Three things the model made visible and no document denies. Absence is counted
from the last refresh that saw a guard, so a client that was off for longer
than the retirement period unpins a guard that happens to be down at its start.
Circuits installed before a guard's term ended go on using it until their slot
rotates. A full set of guards that are all down stops the client until one of
them retires; `NotStarvedForever` is the promise that this ends.

### PathSelection: which nodes make up a circuit

`PathSelection.tla` has no variables: it is `SameFamily`, `netKey`, `Compatible`,
`LoadASNTable` and `Lookup`, `BWWeights`, `WeightedPick` and `BuildCircuits` as
operators over one network of relays, and `GuardPinning` extends it. A random
choice is the set of what may be chosen. `Table` is what `LoadASNTable` makes of
the file (unusable rows dropped, the rest in the order of their lower ends, with
one lower end in the order of the file; a row stands where as many rows are
`Before` it), `Search` is the binary search
of `sort.Search`, a recursive function over the rows still to be searched.
`Paths` holds the circuits that may start at each guard; `BuildFails`, `Save` and `Install` of `GuardPinning` use it, so the
guards that get circuits are those from which a path exists.

Against the code's means stand definitions made without them: `Unrelated`
(family, and the owners of an address by the rows of the file, not by the search)
and `CappedFor` (what honest nodes claim, not the median). They are the properties
`PathsUnrelated` and `WeightsCapped`. The network in `Unrelated` (`SameNetwork`) is
the code's: /16 for IPv4 and the whole address for IPv6. The comment above
`netKey` says /32 there, which nothing here claims; `Slash32Meets` in `MCGuardPinning`
is evaluated with the run and says that relays of one /32 do meet.

Owners mean something only if no two rows overlap. Nothing in the code checks
that: with nested rows the upper ends are not sorted and the search can miss a
row. So `OneOwner` is a premise of that part of `Unrelated`, and no assumption:
the other rules hold over any file. Addresses are a version and a number; a family names identities; the
weighted choice among candidates is any of those with a positive weight, and
`WeightsCapped` says that all have one.

### NodeLoop: a node between its directories and its peers

`NodeLoop.tla` is `runNode` for a node that is not an exit. `publicIP` and `file`
are `c.PublicIP` and the file's `public_ip`, `worker` has one entry per goroutine
of `DirectorySet.Register`, `seen` and `policy` are the map of `peerTracker` and
the policy its dialer holds. `view` is the environment: the address at which
each directory sees the node.

| Action | Code |
|---|---|
| `Register` | the timer; `DirectorySet.Register` starts its goroutines |
| `Enter`, `Write`, `Sign`, `Restore` | the accesses of the closure to `c.PublicIP`: saved, set, read by `c.Descriptor`, put back |
| `Accepted`, `Mismatch`, `Fail` | the directory's answer; after the first mismatch the goroutine signs once more |
| `Remember` | after `wg.Wait`: the most frequent address is kept and saved |
| `Fetch` | `DirectorySet.Fetch`, `peerTracker.update`, the new policy |
| `Tick`, `Renumber`, `Restart` | time, a directory that sees another address, a crash at any point |

The closure is called by all goroutines at once and locks nothing. That is a
data race on a string of two words: an access that overlaps another goroutine's
may yield `Garbled`, an address nobody meant, and a goroutine may sign or put
back what another one wrote. Deadlines are counted down (`Grace` ticks), since
only differences of times are compared. Directories may answer with any lists;
`backed` and `confirmed` are histories of what honest directories and results
said. `settled` and `disturbed` say what a round could have relied on.

What the race costs is bounded, and the model shows the bound. A node that
knows its address hands the same string to every goroutine, so all accesses
agree (`StaysSettled`). A node that does not may have its second descriptor
signed with a wrong address, and all its goroutines may fail in one round. An
address that is left behind in `c.PublicIP` and happens to equal the observed
one is not written to the file, because the code compares before it saves.
`PeersBacked` is about identities: among the descriptors of one identity the
newest wins, whichever directory gave it. The flag `-trust-ip`, with which a
directory believes the descriptor's address, is left out.

### Circuits: slots, Install, Pick and the proxy

`Circuits.tla` has the slots (`slot`), the core's table of handlers (`out`), the
place `Install` has reached (`inst`) and the place of each proxy goroutine
(`req`).

| Action | Code |
|---|---|
| `Rotate` | the rotation of `runClient` calls `refresh([]int{idx})`, which calls `Install` |
| `Remove`, `Add` | one `RemoveHandler` or `addOutbound` of `Install` |
| `Drop`, `Installed` | `Install` after an outbound failed and the rest was removed; the slot's new state |
| `Begin`, `Scan`, `Reset`, `Score` | `Pick`: one step per lock of a slot |
| `Refused`, `Dial`, `DialFails` | `connect`, with `Report` of a failed dial |
| `Answered`, `Silent`, `Unused` | `finish` and the outcomes of the plain HTTP handler |
| `Expire` | the end of a slot's pause (`downUntil`) |

The three actions of a request's end are all the proxy's handlers do to the
shared state; parsing and copying are left out. A failed dial of a plain HTTP
request is reported twice, by `connect` (line 495) and by the handler (701), and
every outcome is counted against the slot, also when the connection ran over
the circuit the slot had before: both are in the model as they are in the code.
The core is external: it has a table of handlers, and what becomes of a
connection is its choice, except that nothing comes back without an exit
handler. It looks up the exit's hops when it dials; a connection that finds the
exit of the old circuit and the hops of the new one, because `Install` ran
between its lookups, is not modelled. A path stands for its three nodes, a host
for host and port, the hash for a rank. `calm` and `usable` are histories that
say what a request could have relied on during its `Pick`.

## Runs

| Run | Module, cfg | Bounds | Shows |
|---|---|---|---|
| store_safety | MCNodeStore, `MCNodeStore_safety.cfg` | 3 identities, 3 endpoints, both limits 2, 2 handlers, clock 2, 3 events, failing saves | TypeOK, EndpointUnique, NodeLimit, NoLostWakeup, NeverOnItsWord |
| store_liveness | MCNodeStore, `MCNodeStore_liveness.cfg` | 2 identities, 2 endpoints, 1 handler, two expiry times, 3 events | EventuallyWithdrawn, EventuallyListed |
| store_stale_probe | MCNodeStore, `MCNodeStore_stale_probe.cfg` | 2 identities, 2 endpoints, 2 handlers, 3 events | ListedWasOpened is violated |
| consensus | MCConsensus, `MCConsensus.cfg` | 2 identities, 1 handler, 2 events, staleness 1, ttl 2; public and bridge documents up to clock 2, public ones up to clock 4 | CacheCoherent, BoundedAge |
| log | MCTransparencyLog, `MCTransparencyLog.cfg` | 4 sets of nodes, 2 document requests, 1 reader, restarts; own proofs up to 8 leaves, offered proofs up to 4 hashes against up to 5 leaves | ProofsVerify, AnswersVerify, HeadsStayProvable, InclusionExact, ConsistencyExact, OnlyGrows |
| tokens | MCTokenBinding, `MCTokenBinding.cfg` | 2 tokens, 2 identities, 2 handlers, 1 mint, crashes, no overlap | NothingLost, BindingHolds |
| tokens_race | MCTokenBinding, `MCTokenBinding_race.cfg` | the same, overlapping | OneIdentityPerToken is violated |
| quorum | MCDirectorySet, `MCDirectorySet.cfg` | 1 honest and 1 other directory, both quorums, 2 sets of nodes, histories of up to 2 (the honest one in one order), one expiry, crashes | HonestNeverForked, Accountable, EquivocatorDropped, OnlyConfirmed, NothingHidden |
| quorum_hiding | MCDirectorySet, `MCDirectorySet_hiding.cfg` | the same with the default quorum of two | HidingTakesAQuorum is violated |
| guards | MCGuardPinning, `MCGuardPinning.cfg` | 13 relays in both address families, a file of 6 rows, 3 guards, one a bridge, 1 wanted, terms of 2 days, 1 day of absence, claims of 0, 1, 2 and 9 under a cap of 2, failing saves, crashes | TypeOK, PinnedBound, GuardsStay, ExposureBound, PathsUnrelated, WeightsCapped, NotStarvedForever |
| node_loop | MCNodeLoop, `MCNodeLoop.cfg` | 2 directories, one honest, quorum 2, 2 addresses, 3 descriptors of 2 identities, grace of 1 tick, 1 restart or change of address, failing saves | TypeOK, StaysSettled, PeersBacked, GraceHolds, Settles |
| circuits | MCCircuits, `MCCircuits.cfg` | 2 slots, 2 circuits, one with an exit that rejects the port, 2 requests, threshold 2, 1 rotation that may fail | TypeOK, ChainComplete, ReadyIsInstalled, PickIsBest, NotTurnedAway, TriedAgain |

Why the bounds are enough. In NodeStore `MaxEvents` counts registrations, port
changes and restarts together. Three events are two registrations and a
restart, or a registration, a move and a port change: the shortest histories
in which a verdict is applied to a moved node, two handlers contend for one
endpoint, or a restart reads back a file that a failed save left behind. Three
identities and a limit of two make both limits bite. `MaxTime` 2 with `Stale`
0 lets a node go stale, and in the liveness run a descriptor expire; once the
clock stands still a node can stay fresh, which is what heartbeats do in the
program. In the consensus run a node may be one tick old when a document is
begun and the document is served in the tick after that, so the two limits add
up, and a node of the greatest age the bound allows is served. Bridges and
public nodes share the store for the first two values of the clock (`Both`);
the behaviours that go on have no bridges. Five leaves are the smallest tree with an inner and an outer unpaired
edge in the verifiers' walk. Four log entries with one reader are enough for
the log to grow twice between two calls of an answer.

In the quorum run the two
directories are the smallest system in which one can show two histories to two
observers; the second set of nodes lists one node with two descriptors, so that
votes and descriptors differ. Two leaves are enough for a head to be old, equal
or of another history; the liar shows all three, and the honest log is filled in
one order, since either set may be answered once both are in it. One expiry empties an answer that was valid before. In
the guards run one guard is wanted and two may be pinned, so three guards are
the fewest that can press against the bound. With one guard wanted the guards'
own compatibility excludes nobody; the proofs hold for any number. The relays
are placed so that each of the rules (one node, family, network, autonomous
system, one IPv6 address) is the only one against some guard and middle, some
guard and exit and some middle and exit, and that addresses lie at both ends of
rows; the claims are one that says nothing, two ordinary ones and one above the
cap. In the node_loop run two goroutines are what it takes to overlap in the
closure; with two addresses a round can observe a tie, and one event is a
restart, or a move, in the middle of a round. One descriptor is the node's own,
and of the peer's two the newer one has moved. A grace of one tick can be full,
run out and be renewed. Two slots, two circuits and two requests are what it takes for two
Picks and a rotation to be inside one slot's states at once; a threshold of two
separates a failure from a mark. One rotation replaces or loses one slot's
circuit; the proofs hold for any number.

Fairness. NodeStore's `FairSpec` (store_liveness): a handler that has a step
takes it, the prober's goroutine goes on (its timer always fires in the end and
a connection attempt has a timeout), and the clock advances. GuardPinning's
(guards): a refresh that has begun comes to an end, and days pass. That a refresh
begins is not assumed: with `-rotate` 0, the default, none follows the first
success, and the loop at the start gives up after 60 attempts.
`NotStarvedForever` has it as a premise that refreshes come again and again, by
rotation or by whoever starts the client. Circuits'
(circuits): goroutines inside `Pick`, `connect` and `Install` go on, and pauses
end; none of them waits for anything but a mutex held for a few lines.
NodeLoop's (node_loop): goroutines of `Register` that can run do, requests end,
by their timeout if nothing else, and the timer fires. `Settles` asks two things
more and has them as premises: that all directories see one address from some
time on, and that rounds come again and again in which no request fails and no
two goroutines meet inside the closure, which is short. What is assumed beyond
these premises is that goroutines which can run do, that requests and timers end
and that time passes. Nothing is assumed of requests, port changes, restarts,
refreshes and rotations, nodes that come and go, and connections, which
need not end. The properties say so in their premises.

## What the runs showed

The violated properties are statements of the repository's own documents; the
quotes are in `PROJECT.json` under `findings`.

* **ListedWasOpened.** `applyProbe` applies a round's verdicts by identity. A
  node that moves while its old port is probed is listed at its new endpoint
  on the old port's success. It stays listed until the next round.
  `NeverOnItsWord` is the weaker fact that does hold, and it is proved: an
  identity to which no connection was ever opened is never listed.
* **OneIdentityPerToken.** Two concurrent first uses of a token both register.
  `BindingHolds` is what holds when requests do not overlap, crashes included.
* **HidingTakesAQuorum.** `Fetch` keeps a node that a quorum of the counted
  directories lists, so n - quorum + 1 silent ones hide it: one of two under
  the default majority. `NothingHidden` is what the code guarantees: liars that
  leave a quorum of honest directories cannot.

One more comment and its code disagree. The comment of `netKey` (`path.go` 286)
names /32 as the network of an IPv6 address, the code (295) uses the whole address,
and two relays of one /32 may stand in one circuit. `PathsUnrelated` claims no more
than the code does; the guards run evaluates `Slash32Meets`, which exhibits such a
circuit.

Two promises hold only if saves succeed. `TransparencyLog.Append` drops the error
of `save` (`translog.go` 323). With `DiskFaults` TRUE a head that covers an unsaved set
goes out, and after a restart the log no longer has it: `HeadsStayProvable` fails,
and the clients that hold the head refuse the directory as one that rewrote its
history, although the log is called append-only (265). A client whose `State.Save`
fails (logged only) may after a restart rely on another history of a directory
than before, and `Accountable` fails. The log and quorum runs and the theorems
about heads therefore set `DiskFaults` FALSE and say nothing of these two;
store_safety, guards and node_loop let saves fail.

`NoLostWakeup` was the property least obvious in advance: the kick is decided
on an unlocked read of `Reachable`. It says that a fresh node whose present
endpoint no round has judged has a probe of just that endpoint coming: a wake-up,
a round that begins, or a handler about to kick. There is one way out of it, and the
property names it: the node moved, and a verdict on an older endpoint has marked
the entry reachable. That is the race of `ListedWasOpened`, in which the kick is
skipped too, and the new endpoint waits for the timer.

`HonestNeverForked` is another: heads are advanced before anyone is asked about
them, witnesses pass on old ones and a crash takes the client back, and still no
honest directory is refused for what its log says, nor called a fork if it
answers the request that would clear it. Both parts need the answer. A request
for a proof that fails inside `checkLog` costs the directory its place in the
round, and one that fails inside `reconcile` is even reported as a split log; the
model has both (`unproven`, `mute`). `TriedAgain`
holds because a mark lapses by time; counting failures alone would keep a slot
out for good (its mutant). `StaysSettled` was in doubt until it was proved: the
closure of `runNode` is a data race, and what saves a node that knows its
address is only that all goroutines write the same string.

## Proofs

`DirectoryProofs.tla` proves five invariants of NodeStore for every set of
nodes and handlers, all limits, any clock and number of events. The assumptions
are those named in the module: finitely many identities, bounds that are
naturals, a `NoEntry` distinct from entries and descriptors.

* `TypeCorrect`: `TypeOK` is inductive by itself.
* `EndpointsStayUnique`: `EndpointUnique` speaks of memory and file at once,
  which makes it inductive together with the types. The lemmas `AcceptShape`,
  `ApplyShape` and `LoadShape` say what the three writers do to identities and
  endpoints.
* `NodeLimitHolds`: needs cardinalities of `Known` before and after a write.
* `NoWakeupIsLost`: the invariant is strengthened by "a reachable entry has
  been probed" for memory and file, by the facts that tie the prober's
  place in its round to its local variables and a live handler to its entry, and by
  what a round in progress knows (`RoundInv`): it tries one endpoint per identity,
  and of a node that has left it since there is no verdict.
* `HeartbeatIsNotEnough`: strengthened by "every reachable entry, in memory or
  in the file, belongs to an identity that was connected to, and so does every
  identity in `up`".

The second half of `DirectoryProofs.tla` proves `CacheStaysCoherent` and
`AgeStaysBounded`, on top of
NodeStore's own theorems, for any nodes, handlers, limits and clocks. A document
carries the version of its beginning; `Coherent` says that while the store still
has that version, the document holds what the store holds, except heartbeats
that came later with an unchanged descriptor. The lemma `VersionTells` is the
reason: every other change of the store raises the version. Nobody looks at a
document under another version (`Early`: no document is of a later version or
time than the store). The bound on ages follows, because what a coherent
document lists was not stale when it was begun.

`MerkleTreeProofs.tla` proves what the functions of `translog.go` compute, for logs
of every size, any leaves and any proof. The one assumption is in the model:
the hash of a node determines its two children.

* `InclusionComplete` and `ConsistencyComplete`: the proofs the directory builds are
  accepted. The argument goes by levels. A position of the verifiers' walk is
  a block of 2^d leaves. A block that is not at the right edge is climbed one bit
  per hash (`WalksInside`, `ReachesInside`); the block at the edge may be
  shorter, and there the verifier skips the levels at which it has no sibling
  (`WalksEdge`, `ReachesEdge`), which are the levels `largestPowerOfTwoBelow` skips
  when it splits.
* `InclusionSound`: the walk visits positions that the proof's hashes cannot
  influence (`Visits`). Two accepted proofs therefore have one length and meet
  the same turns, and from equal roots one can go back down hash by hash: the
  proof is the log's own and so is the leaf.
* `ConsistencySound`: an accepted proof uses the same hashes for both roots, so it
  is the log's own path for its second root and its first root is that of the
  prefix; two logs of one length with one root are equal.

The library's induction theorems cannot be instantiated by the provers. They
are replaced by `LeastMember` (a set of naturals has a least member, from the
well-foundedness of `<`) and `Induction`, which are stated for sets. That the
recursive functions satisfy their recursions is itself proved, for `Pow2` and the
functions over logs by joining the solutions up to every length.

`TransparencyLogProofs.tla` is about the log with any number of callers and
readers.

* `LogRefinesPromise`: if saves succeed, it implements `AppendOnlyLog`. The
  inductive invariant `LogInv` adds what the abstract state does not have: the
  file equals the log (so a restart is a stutter), and a head taken earlier in a
  document is the head of a prefix of the present log.
* `ProofsAlwaysVerify`: every document that goes out proves its nodes, also when
  saves fail. `DocInv` holds because `Consensus.mu` lets one document be built at a
  time, so the log does not change between the index, the head and the path; a
  crash in between ends the document. Then `InclusionComplete` applies.
* `AnswersAlwaysVerify` and `HeadsAlwaysProvable`, if saves succeed: the calls
  behind `/log/consistency` are not under one lock, so the log may grow between
  them. `AnswerInv` says of each stage that what was read is true of a prefix,
  and that every head issued is that of a prefix; prefixes stay.
* `InclusionStaysExact` and `ConsistencyStaysExact` apply the soundness and
  completeness theorems to the verifier of `MCMerkleTree` (`VerifierInv`), for any
  leaves and proofs of any length. That module holds at most eight genuine
  leaves by construction (`SizeAssumption`); the theorems of `MerkleTreeProofs` have
  no such bound.

`TokenBindingProofs.tla` proves `PrintedTokensStay` and `BindingsStay` under the
hypothesis `Serial`, that requests and runs of mint do not overlap, for any
tokens, identities and inodes and with crashes anywhere; tokens_race shows that
the hypothesis is needed. The invariant follows the copy an actor carries from
its read of the file to its rename: `Faithful` says it has the tokens printed,
the one being minted and every binding of the file. With nobody else at work
the file does not change meanwhile and the temporary name is the actor's own.

`DirectorySetProofs.tla` proves the five safety properties of the quorum run for
any directories, quorum and histories; the one assumption about
the honest ones is in the model, that their logs only grow.

* `HonestStaysBelieved` and `NodesAreConfirmed` rest on `HonestPast`: every head
  of an honest directory that is anywhere, in the client, its file, a report or
  another directory's witness, is a prefix of that directory's log. Two
  prefixes of one history never contradict each other, so `checkLog` has nothing to
  object to, and `crossCheck` only if the directory does not answer it. A quorum that outnumbers the liars has an honest
  member (`HonestVoter`), and what it lists is in its log.
* `RewritingIsRefused` assumes `~DiskFaults`. `Continued` relates the heads relied
  on to those in the file, in the state and in memory, which grow in that order
  except after a crash.
* `EquivocatorIsDropped` follows from what `Settle` leaves in `fresh`.
* `HonestQuorumShows` needs that a node with a quorum of votes has a newest
  descriptor (`NewestExists`, over finite sets), so that the tally keeps one of it
  (`TallyComplete`). What goes out of date after the tally only weakens the
  premise.

`GuardPinningProofs.tla` proves `TypeCorrect`, `PinnedStayBounded` (by
cardinalities of what is kept and what is added), `GuardsStayPinned` and
`ExposureStaysBounded` for any nodes, networks, terms and numbers of guards,
with failing saves and crashes. `GuardsStay` becomes inductive with two facts:
what is in `used` is within its term, and between a successful save and the
installation the file equals memory. The exposure bound follows from it and the
bound on pinned guards.

Two more theorems there are about the circuits built from the guards in use,
for any relays, file and claims.

* `PathsStayUnrelated`: `Compatible` does what `Unrelated` says, for any file as far as
  identity, family, IPv4 /16 and IPv6 address are concerned. The substance is in
  `LookupFindsOwner`, the correctness of the table and its search: the rows of
  `Table` are the usable rows, in order, at ranks that no two share (`RankInjective`,
  `RankTaken`, `TableSorted`); the recursion of `Search` has a solution
  (`SearchExists`), and any solution finds the first row whose upper end is not
  below the address (`SearchFinds`, by induction on the number of rows left).
  `OneOwner`, that no two rows overlap, is what makes that row the owner's. It is a
  premise of what the theorem says about owners, inside `Unrelated`, because the
  code does not check it.
* `WeightsStayCapped`: an upper median exists (`MedianExists`: the least value that
  more than half of the claims do not exceed is a claim), at most half of the
  measured nodes claim less, and so less than half of them lying leaves an honest
  one that claims at least the median.

`CircuitsProofs.tla` proves the four safety properties of Circuits and its types,
for any slots, circuits, ranks, hosts, requests and rotations. (The names
"install" and "time", which stand for the other actors in the histories, must
not be requests.)

* `TypeCorrect` needs `FoundInv`: slots that a Pick goes on with have been given a
  circuit, so that there is something to score.
* `ChainStaysComplete` and `ReadySlotsAreInstalled` follow from `HandlerInv`: the
  tags `Install` has left tell which handlers there are, and slots it is not at
  work on are settled. `OnlyInstallChangesPaths` is the lemma that no request
  touches a path.
* `NobodyIsTurnedAway` follows from `LookoutInv`: what was usable ever since a Pick
  began has been found or is still to be looked at.
* `UndisturbedPickIsBest` follows from `PickInv`: what an undisturbed Pick has
  read is still so, its own reset included, and the best slot so far is the
  first of the highest of those it has scored. Ranks may be equal.

`NodeLoopProofs.tla` proves the types and three safety properties of NodeLoop for
any directories, addresses, descriptors and grace period, with the race, crashes
and failing saves.

* `TypeCorrect` is inductive by itself; it includes that neither a garbled address
  nor one that is only swapped in ever reaches the file.
* `SettledNodeStays` rests on `SettledInv`: after a round that begins with the
  address all directories see, every string that any goroutine holds or meets
  is that address (`OneAddress`), so that no mixture is possible and no
  directory objects.
* `PeersStayBacked` and `GraceAlwaysHolds` rest on `PeerInv`: the dialer's policy is
  the tracker's map and lies, tick by tick, between `confirmed` and `backed`. That a
  result's nodes are backed is the argument about quorums again.

With these every invariant of the passing runs is proved, and so are
`BindingHolds` (an action property) and `OnlyGrows` (the refinement). Only
model-checked: liveness (`EventuallyListed`, `EventuallyWithdrawn`,
`NotStarvedForever`, `TriedAgain`, `Settles`), which is out of TLAPS's reach.

Assumptions the proofs use beyond types and finiteness: `~DiskFaults` (three
theorems of the log and `RewritingIsRefused`), `Serial` (tokens), `GenuineAssumption` and `SizeAssumption` (the verifier of `MCMerkleTree`).

## Not modelled

Encodings, canonical JSON and signatures (trusted), the HTTP routing and access
tokens (stateless), the Xray core (third party), the copying of connections and
the parsing of SOCKS and HTTP, command line and installation (sequential I/O),
the building of the core's configuration and the bandwidth meter (sequential).

Within the components that are modelled: keys learnt at first use and the bridge
file (keys are taken as given, and bridges take part in no quorum); directories
run with `-trust-ip`; exits, whose policy allows everything; which autonomous
system an address belongs to when rows of the file overlap; a store restarted
with smaller limits than its file; a corrupt state file; a connection that finds hops of two
circuits while `Install` is between its steps.

## Plan

What is left, in this order:

1. Keys learnt at first use, in DirectorySet: what a first contact decides, and
   what a client that lost its state trusts.
2. What DirectorySet takes from the log, "a proof verifies exactly if the one
   history begins the other", tied to `ConsistencyComplete` and `ConsistencySound`
   by a module that composes the two.
3. The hazards of `PROJECT.json` without a property: a quorum answer that is empty,
   overlapping writers of one file, reports by slot.
4. A composition of the node's loop with the directories' stores, so that a
   node's descriptor is followed from its signature to a client's circuit.
