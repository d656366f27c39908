--------------------------- MODULE DirectorySet ---------------------------
(***************************************************************************)
(* A client and its directories: DirectorySet.Fetch, checkLog, crossCheck  *)
(* and reconcile (src/quorum.go), the directories' Witness                 *)
(* (src/translog.go), and what nodePool and refresh (src/client.go) do     *)
(* with the answers: the cache, the remembered heads, the state file.      *)
(*                                                                         *)
(* Honest directories run this program with a log that never rolls back.   *)
(* The others may answer anything they can sign, differently each time.    *)
(* A signed head stands for the history it commits to: the MerkleTree      *)
(* module shows that a proof verifies exactly if the leaf is in the        *)
(* history, or the one history begins the other.  A directory keeps its    *)
(* key, so a head's key is the directory that signed it.  An honest log    *)
(* only grows, so when it is asked for a proof does not matter; what one   *)
(* goroutine of Fetch does is therefore one step, and so is all that       *)
(* follows wg.Wait.  Bridges are left out: no quorum is taken of them.     *)
(***************************************************************************)
EXTENDS Integers, FiniteSets, Sequences, SequencesExt

CONSTANTS
    Directory,     \* DirectorySet.Refs
    Honest,        \* those that run this program
    Quorums,       \* the values of DirectorySet.Quorum considered
    Doc,           \* public sets of nodes: sets of descriptors [id, pub]
    Offered,       \* the histories a directory that is not honest may show
    MaxLog,        \* bound: leaves of an honest log
    MaxExpired,    \* bound: the newest Published that ever expires
    AllowNoLog,    \* -allow-no-log
    DiskFaults     \* TRUE: State.Save may fail

ASSUME DirectoryAssumption ==
    /\ IsFiniteSet(Directory) /\ Honest \subseteq Directory
    /\ Quorums \subseteq 1..Cardinality(Directory)
    /\ AllowNoLog \in BOOLEAN /\ DiskFaults \in BOOLEAN
    /\ MaxLog \in Nat /\ MaxExpired \in Nat
    /\ Offered \subseteq Seq(Doc)
    /\ \A D \in Doc : IsFiniteSet(D) /\ \A n \in D : n.pub \in Nat

VARIABLES
    quorum,    \* DirectorySet.Quorum, fixed for a run
    log,       \* per honest directory: its transparency log
    seen,      \* per honest directory: Witness.seen, <<>> for none
    expired,   \* descriptors published up to here are out of date
    heads,     \* DirectorySet.heads, <<>> for none
    report,    \* Fetch's dirReports
    pc,        \* where refresh stands: "fetch", "build" or "install"
    pool,      \* the nodes nodePool returned
    fresh,     \* the directories they come from; {} for the cache
    st, disk,  \* LogHeads and Cached of the State, and of its file
    relied     \* history: the heads of the documents circuits were built on last

vars == <<quorum, log, seen, expired, heads, report, pc, pool, fresh, st, disk, relied>>
envVars == <<log, seen, expired>>
clientVars == <<heads, report, pc, pool, fresh, st, disk, relied>>

Descriptor == UNION Doc
Liar == Directory \ Honest
Waiting == [state |-> "waiting"]
NoReports == [d \in Directory |-> Waiting]
Failed(why) == [state |-> why]

----------------------------------------------------------------------------
\* The directories.

\* A set of nodes is served for the first time: Append logs it once.
Grow(d, D) ==
    /\ Len(log[d]) < MaxLog /\ ~Contains(log[d], D)
    /\ log' = [log EXCEPT ![d] = Append(@, D)]
    /\ UNCHANGED <<quorum, seen, expired>> /\ UNCHANGED clientVars

\* What GET /sth of directory d may return.
ShownHead(d) == IF d \in Honest THEN {log[d]} ELSE Offered

\* Witness.Run and Observe: only a larger head replaces the one seen.  Heads
\* are kept by the key that signed them, so one that another directory passes
\* on adds nothing to what its signer may show.
Observe(w, d, h) ==
    /\ Len(h) > Len(seen[w][d])
    /\ seen' = [seen EXCEPT ![w][d] = h]
    /\ UNCHANGED <<quorum, log, expired>> /\ UNCHANGED clientVars

Expire ==
    /\ expired < MaxExpired
    /\ expired' = expired + 1
    /\ UNCHANGED <<quorum, log, seen>> /\ UNCHANGED clientVars

----------------------------------------------------------------------------
\* Fetch: one goroutine per directory.

\* What directory d may answer: a set of nodes, and a LogProof with a head or
\* none.  An honest directory may serve a cached document of its Consensus:
\* the head is that of an earlier log, but never earlier than one it served.
Answers(d) ==
    IF d \in Honest
    THEN {a \in [doc : ToSet(log[d]), logged : {TRUE}, sth : Prefixes(log[d])] :
            Contains(a.sth, a.doc) /\ Len(a.sth) >= Len(heads[d])}
    ELSE [doc : Doc, logged : {TRUE}, sth : Offered]
         \cup [doc : Doc, logged : {FALSE}, sth : {<<>>}]

\* The heads directory d hands out as witnessed, or none if the request fails.
\* A liar cannot sign for others, but chooses which of their heads it passes
\* on; one is enough, since crossCheck judges each head by itself.
Witnessed(d) ==
    {{}} \cup
    (IF d \in Honest
     THEN {{[dir |-> x, head |-> seen[d][x]] : x \in {y \in Directory : seen[d][y] # <<>>}}}
     ELSE UNION {{{[dir |-> x, head |-> p]} : p \in Prefixes(log[x]) \ {<<>>}} : x \in Honest})

\* Faulty variant for Accountable: equal sizes are not compared.
LogAcceptedBySize(prev, a) ==
    IF a.logged
    THEN Contains(a.sth, a.doc) /\ (Len(prev) < Len(a.sth) => IsPrefix(prev, a.sth))
                                /\ Len(prev) <= Len(a.sth)
    ELSE prev = <<>> /\ AllowNoLog

\* checkLog: the set is in the log, and the log has only grown since prev.
LogAccepted(prev, a) ==
    IF a.logged
    THEN Contains(a.sth, a.doc) /\ IsPrefix(prev, a.sth)
    ELSE prev = <<>> /\ AllowNoLog

\* checkLog has to ask for a consistency proof: the log grew since prev.
AsksForProof(prev, a) == /\ a.logged /\ Contains(a.sth, a.doc)
                         /\ 0 < Len(prev) /\ Len(prev) < Len(a.sth)

\* fetchOne.  An answer to the first request is not enough: the answer is given up
\* too if the request of checkLog for a proof fails ("unproven").  The head is
\* remembered before anyone else is asked about it.
FetchOne(d) ==
    /\ pc = "fetch" /\ report[d] = Waiting
    /\ \/ /\ report' = [report EXCEPT ![d] = Failed("down")]
          /\ UNCHANGED heads
       \/ /\ \E a \in Answers(d) : AsksForProof(heads[d], a)
          /\ report' = [report EXCEPT ![d] = Failed("unproven")]
          /\ UNCHANGED heads
       \/ \E a \in Answers(d) :
             IF LogAccepted(heads[d], a)
             THEN \E w \in Witnessed(d) :
                    /\ report' = [report EXCEPT ![d] = [state |-> "ok", doc |-> a.doc,
                                                        sth |-> a.sth, witness |-> w]]
                    /\ heads' = IF a.logged THEN [heads EXCEPT ![d] = a.sth] ELSE heads
             ELSE /\ report' = [report EXCEPT ![d] = Failed("refused")]
                  /\ UNCHANGED heads
    /\ UNCHANGED <<quorum, pc, pool, fresh, st, disk, relied>> /\ UNCHANGED envVars

----------------------------------------------------------------------------
\* Fetch after wg.Wait, and nodePool.

Ok == {d \in Directory : report[d].state = "ok"}

\* The heads that any answer witnesses for d.
WitnessedFor(d) == {w.head : w \in {v \in UNION {report[e].witness : e \in Ok} : v.dir = d}}

\* Faulty variant for HonestNeverForked: the smaller head is taken to be ours.
ReconcileUnordered(ours, theirs) == theirs = <<>> \/ IsPrefix(ours, theirs)

\* Faulty variant for EquivocatorDropped: only heads of one size are compared.
ReconcileSameSize(ours, theirs) == Len(ours) = Len(theirs) => ours = theirs

\* reconcile, if the directory answers: one history begins the other.
Reconcile(ours, theirs) == IsPrefix(ours, theirs) \/ IsPrefix(theirs, ours)

\* Those that have to prove a connection: heads of two sizes are compared.
Asked == {d \in Ok : report[d].sth # <<>> /\
                     \E h \in WitnessedFor(d) : Len(h) # Len(report[d].sth)}

\* crossCheck: the directories whose log is taken to be split, if those in "mute"
\* leave a request for a proof unanswered, which counts as a fork.
Forked(mute) == {d \in Ok : \/ d \in mute \cap Asked
                            \/ /\ report[d].sth # <<>>
                               /\ \E h \in WitnessedFor(d) : ~Reconcile(report[d].sth, h)}

Valid(D) == {n \in D : n.pub > expired}

\* Faulty variant for OnlyConfirmed: every descriptor is a vote, so a document
\* with two descriptors of one node votes twice.
VotesByDescriptor(id, C) ==
    Cardinality({v \in C \X Descriptor : v[2] \in Valid(report[v[1]].doc) /\ v[2].id = id})

\* The directories of C that list the node.
Votes(id, C) == Cardinality({d \in C : \E n \in Valid(report[d].doc) : n.id = id})

\* Faulty variant for NothingHidden: as many votes as the quorum do not do.
TallyAbove(C) ==
    LET offered == UNION {Valid(report[d].doc) : d \in C}
    IN {n \in offered : /\ Votes(n.id, C) > quorum
                        /\ \A m \in offered : m.id = n.id => m.pub <= n.pub}

\* QuorumResult.Nodes: the newest descriptor of each node with a quorum.
Tally(C) ==
    LET offered == UNION {Valid(report[d].doc) : d \in C}
    IN {n \in offered : /\ Votes(n.id, C) >= quorum
                        /\ \A m \in offered : m.id = n.id => m.pub <= n.pub}

\* nodePool, with the directories of C counted: their result, which becomes
\* the cache, or what is valid of the cache.  refresh ends if that is empty.
Settle ==
    /\ pc = "fetch" /\ \A d \in Directory : report[d] # Waiting
    /\ \E mute \in SUBSET Asked :
         LET C == Ok \ Forked(mute)
             quorate == Cardinality(C) >= quorum
             nodes == IF quorate THEN Tally(C) ELSE Valid(st.cached)
         IN /\ st' = IF quorate THEN [heads |-> heads, cached |-> nodes] ELSE st
            /\ pc' = IF nodes = {} THEN "fetch" ELSE "build"
            /\ pool' = nodes
            /\ fresh' = IF quorate /\ nodes # {} THEN C ELSE {}
            /\ report' = IF fresh' = {} THEN NoReports
                         ELSE [d \in Directory |-> IF d \in C THEN report[d]
                                                   ELSE Failed("rejected")]
    /\ UNCHANGED <<quorum, heads, disk, relied>> /\ UNCHANGED envVars

----------------------------------------------------------------------------
\* refresh after nodePool.

EndRound == /\ pc' = "fetch" /\ report' = NoReports
            /\ pool' = {} /\ fresh' = {}

\* BuildCircuits finds no path.
BuildFails ==
    /\ pc = "build" /\ EndRound
    /\ UNCHANGED <<quorum, heads, st, disk, relied>> /\ UNCHANGED envVars

\* BuildCircuits finds paths; State.Save, whose failure is only logged.
Save ==
    /\ pc = "build" /\ pc' = "install"
    /\ \/ disk' = st
       \/ DiskFaults /\ UNCHANGED disk
    /\ UNCHANGED <<quorum, heads, report, pool, fresh, st, relied>> /\ UNCHANGED envVars

\* The circuits are installed and carry traffic from now on.
Install ==
    /\ pc = "install" /\ EndRound
    /\ relied' = [d \in Directory |-> IF d \in fresh THEN report[d].sth ELSE relied[d]]
    /\ UNCHANGED <<quorum, heads, st, disk>> /\ UNCHANGED envVars

\* The client stops or crashes anywhere and is started again.
Restart ==
    /\ st' = disk /\ heads' = disk.heads /\ EndRound
    /\ UNCHANGED <<quorum, disk, relied>> /\ UNCHANGED envVars

----------------------------------------------------------------------------
Init ==
    /\ quorum \in Quorums
    /\ log = [d \in Honest |-> <<>>]
    /\ seen = [w \in Honest |-> [d \in Directory |-> <<>>]]
    /\ expired = 0
    /\ heads = [d \in Directory |-> <<>>]
    /\ st = [heads |-> heads, cached |-> {}] /\ disk = st
    /\ report = NoReports /\ pc = "fetch" /\ pool = {} /\ fresh = {}
    /\ relied = heads

Next ==
    \/ \E d \in Honest, D \in Doc : Grow(d, D)
    \/ \E w \in Honest : \E d \in Directory \ {w} : \E h \in ShownHead(d) : Observe(w, d, h)
    \/ Expire
    \/ \E d \in Directory : FetchOne(d)
    \/ Settle
    \/ BuildFails
    \/ Save
    \/ Install
    \/ Restart

Spec == Init /\ [][Next]_vars

----------------------------------------------------------------------------
\* Properties.

History == UNION {Offered, {h \in SeqOf(Doc, MaxLog) : IsInjective(h)}}
Report ==
    [state : {"waiting", "down", "unproven", "refused", "rejected"}]
    \cup [state : {"ok"}, doc : Doc, sth : History \cup {<<>>},
          witness : SUBSET [dir : Directory, head : History \cup {<<>>}]]

\* Every variable has its type; no set of nodes is logged twice.
TypeOK ==
    LET Heads == [Directory -> History \cup {<<>>}]
        State == [heads : Heads, cached : SUBSET Descriptor]
    IN /\ quorum \in Quorums /\ expired \in 0..MaxExpired
       /\ log \in [Honest -> History] /\ seen \in [Honest -> Heads]
       /\ heads \in Heads /\ st \in State /\ disk \in State
       /\ report \in [Directory -> Report]
       /\ pc \in {"fetch", "build", "install"}
       /\ pool \subseteq Descriptor /\ fresh \subseteq Ok
       /\ relied \in Heads

\* If an honest directory answers the requests for proofs, what it showed is never
\* refused by checkLog as a rewritten history nor taken for a fork by crossCheck,
\* whichever of the others answer, whatever the client has forgotten in a crash,
\* however old a head the others pass on and however the log grew meanwhile.  (If it
\* does not answer, the code gives its set up, "unproven", or calls its log split.)
HonestNeverForked ==
    \A d \in Honest : report[d].state # "refused" /\ d \notin Forked(Directory \ {d})

\* Whatever head the client built circuits on, in this run or an earlier one,
\* the history the client now remembers of that directory continues it.
Accountable == \A d \in Directory : IsPrefix(relied[d], heads[d])

\* No directory counts if its head and one that an honest directory witnessed
\* of it, in the same Fetch, are not of one history.
EquivocatorDropped ==
    \A d \in fresh, w \in Ok \cap Honest :
        \A v \in report[w].witness :
            v.dir = d /\ report[d].sth # <<>> =>
                \/ IsPrefix(v.head, report[d].sth)
                \/ IsPrefix(report[d].sth, v.head)

Published(id) == \E d \in Honest : \E D \in ToSet(log[d]) : \E n \in D : n.id = id

\* With fewer liars than the quorum, every node the client uses or keeps for
\* later, in memory or in the file, was once published by an honest directory.
OnlyConfirmed ==
    Cardinality(Liar) < quorum =>
        \A n \in pool \cup st.cached \cup disk.cached : Published(n.id)

\* Whether the liars have kept a node out of a result although every honest
\* directory was counted and listed it.
Hidden ==
    /\ pc = "build" /\ fresh # {} /\ Honest \subseteq fresh
    /\ \E m \in Descriptor :
         /\ \A d \in Honest : \E n \in Valid(report[d].doc) : n.id = m.id
         /\ \A n \in pool : n.id # m.id

\* Liars that leave a quorum of others cannot hide a node.
NothingHidden == Cardinality(Honest) >= quorum => ~Hidden

\* "to keep silent about a node now takes a collusion of Quorum directories"
\* (the comment at the head of src/quorum.go).
HidingTakesAQuorum == Cardinality(Liar) < quorum => ~Hidden
============================================================================
