------------------------------ MODULE Circuits ------------------------------
(***************************************************************************)
(* The client's circuits: Circuits.Install, Pick and Report and the Proxy  *)
(* that uses them (src/client.go).  Requests of the SOCKS and HTTP         *)
(* handlers run beside each other and beside the rotation, which installs  *)
(* circuits slot by slot.  Pick reads every slot under the slot's own      *)
(* lock, once for its state and once more for its path.                    *)
(*                                                                         *)
(* The Xray core is external: its table of handlers is modelled, what      *)
(* becomes of a connection is the environment's choice.  A path stands for *)
(* its three nodes, a host for host and port; rendezvous hashing is a rank *)
(* of slot and exit.  When a pause ends is nondeterministic.  The model    *)
(* starts when the first refresh has succeeded, which is when the proxy    *)
(* begins to listen.                                                       *)
(***************************************************************************)
EXTENDS Integers, FiniteSets

CONSTANTS
    Slot,           \* indices of the slots
    Path,           \* what BuildCircuits returns
    Host,           \* destinations: host and port
    Rejecting,      \* Rejecting[p]: hosts whose port the exit of p rejects
    Rank,           \* Rank[h][s][p]: the score
    Request,        \* goroutines of the proxy
    FailThreshold,  \* -fail-threshold
    MaxInstalls,    \* bound: rotations
    NoPath

ASSUME CircuitsAssumption ==
    /\ Slot \subseteq Nat /\ IsFiniteSet(Slot) /\ Slot # {}
    /\ Rejecting \in [Path -> SUBSET Host]
    /\ Rank \in [Host -> [Slot -> [Path -> Nat]]]
    /\ FailThreshold \in Nat \ {0} /\ MaxInstalls \in Nat
    /\ NoPath \notin Path /\ Request \cap {"install", "time"} = {}

VARIABLES
    slot,      \* per slot: path, ready, fails (counted up to the threshold),
               \* down (downUntil is to come)
    out,       \* the core's outbound handlers: per slot and tag, of which path
    inst,      \* where Install stands
    installs,  \* installs begun
    req,       \* where a request stands
    calm,      \* history: requests during whose Pick no one else changed a slot
    usable     \* history: slots usable for a request ever since its Pick began;
               \* {} once it has found one

vars == <<slot, out, inst, installs, req, calm, usable>>

\* A slot no failure is held against.
Unmarked(p, ready) == [path |-> p, ready |-> ready, fails |-> 0, down |-> FALSE]

Tag == {"hop1", "hop2", "exit"}
Idle == [at |-> "idle"]
UsableIn(slots, s, h) == slots[s].ready /\ h \notin Rejecting[slots[s].path]
Usable(s, h) == UsableIn(slot, s, h)

\* Faulty variant for TriedAgain: a slot is healthy by its count of failures.
HealthyByCount(s) == slot[s].ready /\ slot[s].fails < FailThreshold

Healthy(s) == slot[s].ready /\ ~slot[s].down

Lowest(S) == CHOOSE s \in S : \A t \in S : s <= t

\* The histories after a step of actor that may change slots.
Watch(actor) ==
    /\ calm' = IF slot' = slot THEN calm ELSE calm \cap {actor}
    /\ usable' = [r \in Request |-> {s \in usable[r] : UsableIn(slot', s, req[r].host)}]

----------------------------------------------------------------------------
\* Install, which the rotation calls for one slot after another.

\* Faulty variant for ChainComplete: handlers go in the order they were added.
NextToRemoveReversed(tags) ==
    IF "hop1" \in tags THEN "hop1" ELSE IF "hop2" \in tags THEN "hop2" ELSE "exit"

NextToRemove(tags) ==
    IF "exit" \in tags THEN "exit" ELSE IF "hop2" \in tags THEN "hop2" ELSE "hop1"

NextToAdd(tags) ==
    IF "hop1" \in tags THEN "hop1" ELSE IF "hop2" \in tags THEN "hop2" ELSE "exit"

\* The slots take turns; which of them is next makes no difference here.
Rotate(s, p) ==
    /\ inst = Idle /\ installs < MaxInstalls
    /\ inst' = [at |-> "remove", slot |-> s, path |-> p, tags |-> Tag]
    /\ installs' = installs + 1
    /\ UNCHANGED <<slot, out, req, calm, usable>>

\* Before the new handlers are added, or after one could not be.
Remove ==
    /\ inst.at \in {"remove", "undo"} /\ inst.tags # {}
    /\ LET tag == NextToRemove(inst.tags)
       IN /\ out' = [out EXCEPT ![inst.slot][tag] = NoPath]
          /\ inst' = IF inst.tags = {tag} /\ inst.at = "remove"
                     THEN [inst EXCEPT !.at = "add", !.tags = Tag]
                     ELSE [inst EXCEPT !.tags = @ \ {tag}]
    /\ UNCHANGED <<slot, installs, req, calm, usable>>

Add ==
    /\ inst.at = "add" /\ inst.tags # {}
    /\ LET tag == NextToAdd(inst.tags)
       IN \/ /\ out' = [out EXCEPT ![inst.slot][tag] = inst.path]
             /\ inst' = [inst EXCEPT !.tags = @ \ {tag}]
          \/ /\ inst' = [inst EXCEPT !.at = "undo", !.tags = Tag]
             /\ UNCHANGED out
    /\ UNCHANGED <<slot, installs, req, calm, usable>>

\* Faulty variant for ReadyIsInstalled: the slot stays as it was.
DropQuietly ==
    /\ inst.at = "undo" /\ inst.tags = {} /\ inst' = Idle
    /\ UNCHANGED <<slot, out, installs, req, calm, usable>>

Drop ==
    /\ inst.at = "undo" /\ inst.tags = {} /\ inst' = Idle
    /\ slot' = [slot EXCEPT ![inst.slot].ready = FALSE]
    /\ Watch("install") /\ UNCHANGED <<out, installs, req>>

\* Faulty variant for TypeOK: the slot's path is not replaced.
InstalledPathless ==
    /\ inst.at = "add" /\ inst.tags = {} /\ inst' = Idle
    /\ slot' = [slot EXCEPT ![inst.slot].ready = TRUE, ![inst.slot].fails = 0,
                            ![inst.slot].down = FALSE]
    /\ Watch("install") /\ UNCHANGED <<out, installs, req>>

Installed ==
    /\ inst.at = "add" /\ inst.tags = {} /\ inst' = Idle
    /\ slot' = [slot EXCEPT ![inst.slot] = Unmarked(inst.path, TRUE)]
    /\ Watch("install") /\ UNCHANGED <<out, installs, req>>

----------------------------------------------------------------------------
\* Pick.

Begin(r, h) ==
    /\ req[r] = Idle
    /\ req' = [req EXCEPT ![r] = [at |-> "scan", host |-> h, left |-> Slot,
                                  allowed |-> {}, live |-> {}]]
    /\ calm' = calm \cup {r}
    /\ usable' = [usable EXCEPT ![r] = {s \in Slot : Usable(s, h)}]
    /\ UNCHANGED <<slot, out, inst, installs>>

Scoring(h, live) == [at |-> "score", host |-> h, left |-> live, best |-> {}]

\* Faulty variant for PickIsBest: slots that are down are not skipped.
DecidedAll(h, allowed, live) ==
    IF allowed = {} THEN [at |-> "refused", host |-> h] ELSE Scoring(h, allowed)

\* Faulty variant for NotTurnedAway: marks are never taken away early.
DecidedStrictly(h, allowed, live) ==
    IF live = {} THEN [at |-> "refused", host |-> h] ELSE Scoring(h, live)

\* All slots were read.  No slot for this port: refused.  Only slots marked
\* dead: the marks go.
Decided(h, allowed, live) ==
    IF allowed = {} THEN [at |-> "refused", host |-> h]
    ELSE IF live # {} THEN Scoring(h, live)
    ELSE [at |-> "reset", host |-> h, left |-> allowed, live |-> allowed]

\* One slot is read under its lock.
Scan(r) ==
    /\ req[r].at = "scan"
    /\ LET s == Lowest(req[r].left)
           h == req[r].host
           allowed == req[r].allowed \cup (IF Usable(s, h) THEN {s} ELSE {})
           live == req[r].live \cup (IF Usable(s, h) /\ Healthy(s) THEN {s} ELSE {})
       IN /\ req' = [req EXCEPT ![r] =
                       IF req[r].left = {s} THEN Decided(h, allowed, live)
                       ELSE [req[r] EXCEPT !.left = @ \ {s}, !.allowed = allowed,
                                           !.live = live]]
          /\ usable' = IF req'[r].at \in {"scan", "refused"} THEN usable
                       ELSE [usable EXCEPT ![r] = {}]
    /\ UNCHANGED <<slot, out, inst, installs, calm>>

Reset(r) ==
    /\ req[r].at = "reset"
    /\ LET s == Lowest(req[r].left)
       IN /\ slot' = [slot EXCEPT ![s] = Unmarked(@.path, @.ready)]
          /\ req' = [req EXCEPT ![r] = IF req[r].left = {s}
                                       THEN Scoring(req[r].host, req[r].live)
                                       ELSE [req[r] EXCEPT !.left = @ \ {s}]]
    /\ Watch(r) /\ UNCHANGED <<out, inst, installs>>

\* One more slot is scored; the first of the highest is the one.
Score(r) ==
    /\ req[r].at = "score"
    /\ LET s == Lowest(req[r].left)
           score == Rank[req[r].host][s][slot[s].path]
           best == IF \A b \in req[r].best : score > b.score
                   THEN {[slot |-> s, score |-> score]} ELSE req[r].best
       IN req' = [req EXCEPT ![r] =
                    IF req[r].left = {s}
                    THEN [at |-> "picked", host |-> req[r].host,
                          slot |-> (CHOOSE b \in best : TRUE).slot]
                    ELSE [req[r] EXCEPT !.left = @ \ {s}, !.best = best]]
    /\ UNCHANGED <<slot, out, inst, installs, calm, usable>>

----------------------------------------------------------------------------
\* connect, the handlers and finish.

\* Report: what becomes of the slot.
Reported(s, ok) ==
    LET fails == IF ok THEN 0
                 ELSE IF slot[s].fails < FailThreshold THEN slot[s].fails + 1
                 ELSE FailThreshold
    IN [slot EXCEPT ![s] = [path |-> @.path, ready |-> @.ready, fails |-> fails,
                            down |-> @.down \/ fails >= FailThreshold]]

Refused(r) ==
    /\ req[r].at = "refused" /\ req' = [req EXCEPT ![r] = Idle]
    /\ usable' = [usable EXCEPT ![r] = {}] /\ calm' = calm \ {r}
    /\ UNCHANGED <<slot, out, inst, installs>>

\* The core returns a connection at once.  It will carry data only if the
\* slot's exit had a handler.
Dial(r) ==
    /\ req[r].at = "picked"
    /\ LET s == req[r].slot
       IN req' = [req EXCEPT ![r] = [at |-> "open", slot |-> s,
                                     routed |-> out[s]["exit"] # NoPath]]
    /\ calm' = calm \ {r}
    /\ UNCHANGED <<slot, out, inst, installs, usable>>

\* Or it fails: connect reports it.  A plain HTTP request goes on to RoundTrip's
\* error and reports it once more.
DialFails(r) ==
    /\ req[r].at = "picked"
    /\ slot' = Reported(req[r].slot, FALSE)
    /\ \/ req' = [req EXCEPT ![r] = Idle]
       \/ req' = [req EXCEPT ![r] = [at |-> "failed", slot |-> req[r].slot]]
    /\ calm' = IF slot' = slot THEN calm \ {r} ELSE {}
    /\ UNCHANGED <<out, inst, installs, usable>>

\* Data has come back: finish, or RoundTrip returns a response.
Answered(r) ==
    /\ req[r].at = "open" /\ req[r].routed
    /\ slot' = Reported(req[r].slot, TRUE) /\ req' = [req EXCEPT ![r] = Idle]
    /\ Watch(r) /\ UNCHANGED <<out, inst, installs>>

\* Data was sent and none came back, or RoundTrip failed.
Silent(r) ==
    /\ req[r].at \in {"open", "failed"}
    /\ slot' = Reported(req[r].slot, FALSE) /\ req' = [req EXCEPT ![r] = Idle]
    /\ Watch(r) /\ UNCHANGED <<out, inst, installs>>

\* The application sent nothing, or went away before pipe.
Unused(r) ==
    /\ req[r].at = "open" /\ req' = [req EXCEPT ![r] = Idle]
    /\ UNCHANGED <<slot, out, inst, installs, calm, usable>>

\* A pause ends.
Expire(s) ==
    /\ slot[s].down /\ slot' = [slot EXCEPT ![s].down = FALSE]
    /\ Watch("time") /\ UNCHANGED <<out, inst, installs, req>>

----------------------------------------------------------------------------
\* The first refresh has put circuits into some slots.
Init ==
    /\ \E first \in [Slot -> Path \cup {NoPath}] :
         /\ \E s \in Slot : first[s] # NoPath
         /\ slot = [s \in Slot |-> Unmarked(first[s], first[s] # NoPath)]
         /\ out = [s \in Slot |-> [t \in Tag |-> first[s]]]
    /\ inst = Idle /\ installs = 0
    /\ req = [r \in Request |-> Idle]
    /\ calm = {} /\ usable = [r \in Request |-> {}]

InstallStep == Remove \/ Add \/ Drop \/ Installed
PickStep(r) == Scan(r) \/ Reset(r) \/ Score(r)
ConnectStep(r) == Refused(r) \/ Dial(r) \/ DialFails(r)
FinishStep(r) == Answered(r) \/ Silent(r) \/ Unused(r)

Next ==
    \/ \E s \in Slot, p \in Path : Rotate(s, p)
    \/ InstallStep
    \/ \E r \in Request, h \in Host : Begin(r, h)
    \/ \E r \in Request : PickStep(r) \/ ConnectStep(r) \/ FinishStep(r)
    \/ \E s \in Slot : Expire(s)

Spec == Init /\ [][Next]_vars

\* Goroutines inside Pick, connect and Install go on, pauses end.  Requests
\* need not come, rotations need not happen, connections need not end.
FairSpec == /\ Spec /\ WF_vars(InstallStep)
            /\ \A r \in Request : WF_vars(PickStep(r) \/ ConnectStep(r))
            /\ \A s \in Slot : WF_vars(Expire(s))

----------------------------------------------------------------------------
\* Properties.

Installing(s) == inst # Idle /\ inst.slot = s

SlotState == [path : Path \cup {NoPath}, ready : BOOLEAN, fails : 0..FailThreshold, down : BOOLEAN]
SomeSlots == (SUBSET Slot) \ {{}}
RequestState ==
    {Idle}
    \cup [at : {"scan"}, host : Host, left : SomeSlots, allowed : SUBSET Slot, live : SUBSET Slot]
    \cup [at : {"reset"}, host : Host, left : SomeSlots, live : SomeSlots]
    \cup [at : {"score"}, host : Host, left : SomeSlots, best : SUBSET [slot : Slot, score : Nat]]
    \cup [at : {"picked"}, host : Host, slot : Slot]
    \cup [at : {"refused"}, host : Host]
    \cup [at : {"open"}, slot : Slot, routed : BOOLEAN]
    \cup [at : {"failed"}, slot : Slot]

\* Every variable has its type; a slot that is ready shows a path.
TypeOK ==
    /\ slot \in [Slot -> SlotState] /\ \A s \in Slot : slot[s].ready => slot[s].path \in Path
    /\ out \in [Slot -> [Tag -> Path \cup {NoPath}]]
    /\ inst \in {Idle} \cup [at : {"remove", "add", "undo"}, slot : Slot, path : Path,
                             tags : SUBSET Tag]
    /\ installs \in 0..MaxInstalls
    /\ req \in [Request -> RequestState]
    /\ calm \subseteq Request /\ usable \in [Request -> SUBSET Slot]

\* While the core has an exit handler for a slot, it has the two hops under it,
\* of the same circuit: at no point of Install does a new connection meet a
\* chain that is not whole.
ChainComplete ==
    \A s \in Slot : out[s]["exit"] # NoPath => \A t \in Tag : out[s][t] = out[s]["exit"]

\* What a ready slot shows to Pick is what the core has installed, unless
\* Install is at work on that very slot: also after an Install that failed.
ReadyIsInstalled ==
    \A s \in Slot : slot[s].ready /\ ~Installing(s) =>
                      \A t \in Tag : out[s][t] = slot[s].path

\* The slot that Pick promises: the first of the highest of the healthy slots
\* whose exits accept the port, or of all whose exits do if none is healthy.
Best(h) ==
    LET allowed == {s \in Slot : Usable(s, h)}
        live == {s \in allowed : Healthy(s)}
        from == IF live = {} THEN allowed ELSE live
        ScoreOf(s) == Rank[h][s][slot[s].path]
    IN CHOOSE s \in from :
         \A t \in from : ScoreOf(t) < ScoreOf(s) \/ (ScoreOf(t) = ScoreOf(s) /\ s <= t)

\* A Pick during which nobody else changes a slot picks the best one, for all
\* its separate reads and the marks it takes away.
PickIsBest ==
    \A r \in calm : req[r].at = "picked" => req[r].slot = Best(req[r].host)

\* No request is refused while there is a slot that was usable for it all the
\* time, dead or not.
NotTurnedAway ==
    \A r \in Request : req[r].at = "refused" => usable[r] = {}

\* h belongs to s: its circuit accepts h and scores higher than all others.
Favoured(s, h) ==
    /\ Usable(s, h)
    /\ \A t \in Slot \ {s} :
         slot[t].path = NoPath \/ Rank[h][t][slot[t].path] < Rank[h][s][slot[s].path]

\* A slot does not stay dead for good: while requests keep coming for a host
\* that belongs to it, it is tried again and again.
TriedAgain ==
    \A s \in Slot, h \in Host :
        (<>[]Favoured(s, h) /\ []<>(\E r \in Request : req[r].at = "scan" /\ req[r].host = h))
            => []<>(\E r \in Request : req[r].at = "picked" /\ req[r].slot = s)
============================================================================
