-------------------------- MODULE CircuitsProofs --------------------------
(***************************************************************************)
(* What Circuits promises of its slots, for any slots, circuits, hosts and *)
(* requests.  Which handlers a slot has is determined by the place Install *)
(* has reached: HandlerInv says how.  What a request could have used is in *)
(* what it has found or has still to look at: LookoutInv.  What a Pick has *)
(* read of the slots is still true while nobody else changes one: PickInv. *)
(***************************************************************************)
EXTENDS Circuits, WellFoundedInduction, TLAPS

AnyPath == Path \cup {NoPath}

\* Between two installations a slot's handlers are those of one circuit, or
\* there are none.
Settled(s) ==
    /\ \E p \in AnyPath : \A t \in Tag : out[s][t] = p
    /\ slot[s].ready => \A t \in Tag : out[s][t] = slot[s].path

\* During one the tags that are left tell which handlers there are.
Underway(s) ==
    \/ /\ inst.at = "remove" /\ inst.tags = Tag
       /\ \E p \in AnyPath : \A t \in Tag : out[s][t] = p
    \/ /\ inst.at = "remove" /\ inst.tags # Tag
       /\ "exit" \notin inst.tags /\ out[s]["exit"] = NoPath
       /\ \A t \in Tag \ inst.tags : out[s][t] = NoPath
    \/ /\ inst.at = "undo" /\ out[s]["exit"] = NoPath
       /\ \A t \in Tag \ inst.tags : out[s][t] = NoPath
    \/ /\ inst.at = "add"
       /\ "exit" \notin inst.tags => inst.tags = {}
       /\ \A t \in inst.tags : t = "exit" => out[s][t] = NoPath
       /\ \A t \in Tag \ inst.tags : out[s][t] = inst.path

HandlerInv == \A s \in Slot : IF Installing(s) THEN Underway(s) ELSE Settled(s)

\* What was usable all along has been found or is still to be looked at; only
\* a request that is looking or was refused has any such slot on record.
LookoutInv ==
    \A r \in Request :
        /\ req[r].at # "scan" => usable[r] = {}
        /\ req[r].at = "scan" =>
             /\ usable[r] \subseteq req[r].allowed \cup req[r].left
             /\ \A s \in usable[r] : Usable(s, req[r].host)

----------------------------------------------------------------------------
\* Sets of slots have a lowest slot.
LEMMA LowestIsLeast ==
    ASSUME NEW S \in SUBSET Slot, S # {}
    PROVE  Lowest(S) \in S /\ \A t \in S : Lowest(S) <= t
<1>1. \E s \in S : \A t \in S : s <= t
  <2>1. IsWellFoundedOn(OpToRel(<, Nat), Nat)
    BY NatLessThanWellFounded
  <2>2. S \subseteq Nat
    BY CircuitsAssumption
  <2>3. PICK s \in S : \A t \in S : ~(<<t, s>> \in OpToRel(<, Nat))
    BY <2>1, <2>2, WFMin
  <2>4. ASSUME NEW t \in S, t < s PROVE FALSE
    <3>1. <<t, s>> \in OpToRel(<, Nat)
      BY <2>2, <2>4 DEF OpToRel
    <3> QED BY <2>3, <3>1
  <2> QED BY <2>2, <2>4
<1> QED BY <1>1 DEF Lowest

LEMMA LowestExists ==
    ASSUME NEW S \in SUBSET Slot, S # {}
    PROVE  Lowest(S) \in S
BY LowestIsLeast

\* Reported returns the states of all slots.
LEMMA ReportedStates ==
    ASSUME TypeOK, NEW s \in Slot, NEW ok \in BOOLEAN
    PROVE  /\ Reported(s, ok) \in [Slot -> SlotState]
           /\ \A t \in Slot : /\ Reported(s, ok)[t].path = slot[t].path
                              /\ Reported(s, ok)[t].ready = slot[t].ready
<1> DEFINE fails == IF ok THEN 0
                    ELSE IF slot[s].fails < FailThreshold THEN slot[s].fails + 1
                    ELSE FailThreshold
<1> DEFINE down == slot[s].down \/ fails >= FailThreshold
<1>1. slot \in [Slot -> SlotState] /\ FailThreshold \in Nat /\ slot[s] \in SlotState
  BY CircuitsAssumption DEF TypeOK
<1>2. fails \in 0..FailThreshold /\ down \in BOOLEAN
  BY <1>1 DEF SlotState
<1> DEFINE new == [path |-> slot[s].path, ready |-> slot[s].ready, fails |-> fails, down |-> down]
<1>3. new \in SlotState
  <2> HIDE DEF fails, down
  <2> QED BY <1>1, <1>2 DEF SlotState
<1>4. Reported(s, ok) = [slot EXCEPT ![s] = new]
  BY <1>1 DEF Reported
<1> HIDE DEF new
<1>5. new.path = slot[s].path /\ new.ready = slot[s].ready
  BY DEF new
<1> QED BY <1>1, <1>3, <1>4, <1>5

\* How the steps change the slots: nothing but Install's last steps touches a
\* path or makes a slot ready or not.
SlotsKeep == \A t \in Slot : slot'[t].path = slot[t].path /\ slot'[t].ready = slot[t].ready

LEMMA OnlyInstallChangesPaths ==
    ASSUME TypeOK, [Next]_vars, ~Drop, ~Installed
    PROVE  slot' \in [Slot -> SlotState] /\ SlotsKeep
<1>0. slot \in [Slot -> SlotState]
  BY DEF TypeOK
<1>1. CASE slot' = slot
  BY <1>0, <1>1 DEF SlotsKeep
<1>2. ASSUME NEW s \in Slot, NEW ok \in BOOLEAN, slot' = Reported(s, ok)
      PROVE  slot' \in [Slot -> SlotState] /\ SlotsKeep
  BY <1>2, ReportedStates DEF SlotsKeep
<1>3. ASSUME NEW r \in Request, DialFails(r) \/ Answered(r) \/ Silent(r)
      PROVE  slot' \in [Slot -> SlotState] /\ SlotsKeep
  <2>1. req[r] \in RequestState
    BY DEF TypeOK
  <2>2. req[r].at \in {"picked", "open", "failed"} => req[r].slot \in Slot
    BY <2>1 DEF RequestState, Idle
  <2> QED BY <1>2, <1>3, <2>2 DEF DialFails, Answered, Silent
<1>4. ASSUME NEW r \in Request, Reset(r)
      PROVE  slot' \in [Slot -> SlotState] /\ SlotsKeep
  <2>1. req[r] \in RequestState /\ req[r].at = "reset"
    BY <1>4 DEF TypeOK, Reset
  <2>2. req[r].left \in SUBSET Slot /\ req[r].left # {}
    <3>1. req[r] \in [at : {"reset"}, host : Host, left : SomeSlots, live : SomeSlots]
      BY <2>1 DEF RequestState, Idle
    <3>2. req[r].left \in SomeSlots
      BY <3>1
    <3> QED BY <3>2 DEF SomeSlots
  <2>3. Lowest(req[r].left) \in Slot
    BY <2>2, LowestExists
  <2>4. \E t \in Slot : slot' = [slot EXCEPT ![t] = Unmarked(slot[t].path, slot[t].ready)]
    BY <1>0, <1>4, <2>3 DEF Reset
  <2> QED BY <1>0, <2>4, CircuitsAssumption DEF SlotState, SlotsKeep, Unmarked
<1>5. ASSUME NEW s \in Slot, Expire(s)
      PROVE  slot' \in [Slot -> SlotState] /\ SlotsKeep
  BY <1>0, <1>5 DEF Expire, SlotState, SlotsKeep
<1>6. \/ slot' = slot
      \/ \E r \in Request : DialFails(r) \/ Answered(r) \/ Silent(r) \/ Reset(r)
      \/ \E s \in Slot : Expire(s)
  BY DEF Next, vars, InstallStep, PickStep, ConnectStep, FinishStep, Rotate, Remove, Add,
         Begin, Scan, Score, Refused, Dial, Unused
<1> QED BY <1>1, <1>3, <1>4, <1>5, <1>6

----------------------------------------------------------------------------
\* Types.

HistoriesOK == calm \subseteq Request /\ usable \in [Request -> SUBSET Slot]

\* Watch keeps the histories what they are.
LEMMA WatchTypes ==
    ASSUME TypeOK, NEW actor, Watch(actor)
    PROVE  HistoriesOK'
BY DEF TypeOK, Watch, HistoriesOK

\* The slots a Pick has found and goes on with have been given circuits.
Found(q) == IF q.at = "scan" THEN q.allowed \cup q.live
            ELSE IF q.at = "reset" THEN q.left \cup q.live
            ELSE IF q.at = "score" THEN q.left ELSE {}

WithPath == {s \in Slot : slot[s].path \in Path}
FoundInv == \A r \in Request : Found(req[r]) \subseteq WithPath

\* A step of Pick leads a request from one of its states to another.
LEMMA PickTypes ==
    ASSUME TypeOK, FoundInv, NEW r \in Request, PickStep(r)
    PROVE  \E next \in RequestState :
             req' = [req EXCEPT ![r] = next] /\ Found(next) \subseteq WithPath
<1> DEFINE q == req[r]
<1>1. q \in RequestState /\ Found(q) \subseteq WithPath
  BY DEF TypeOK, FoundInv
<1>2. CASE Scan(r)
  <2>1. q \in [at : {"scan"}, host : Host, left : SomeSlots, allowed : SUBSET Slot,
               live : SUBSET Slot]
    BY <1>1, <1>2 DEF Scan, RequestState, Idle
  <2> DEFINE s == Lowest(q.left)
  <2> DEFINE h == q.host
  <2> DEFINE allowed == q.allowed \cup (IF Usable(s, h) THEN {s} ELSE {})
  <2> DEFINE live == q.live \cup (IF Usable(s, h) /\ Healthy(s) THEN {s} ELSE {})
  <2> DEFINE on == [q EXCEPT !.left = @ \ {s}, !.allowed = allowed, !.live = live]
  <2>2. q.left \in SUBSET Slot /\ q.left # {} /\ h \in Host
    BY <2>1 DEF SomeSlots
  <2>3. s \in q.left
    BY <2>2, LowestExists
  <2>4. Usable(s, h) => s \in WithPath
    BY <2>2, <2>3 DEF Usable, UsableIn, WithPath, TypeOK
  <2>5. allowed \in SUBSET Slot /\ live \in SUBSET Slot /\ allowed \cup live \subseteq WithPath
    BY <1>1, <2>1, <2>2, <2>3, <2>4 DEF Found
  <2> HIDE DEF s, h, allowed, live
  <2>6. Decided(h, allowed, live) \in RequestState
    BY <2>2, <2>5 DEF Decided, Scoring, RequestState, SomeSlots, h
  <2>7. Found(Decided(h, allowed, live)) \subseteq WithPath
    BY <2>5 DEF Decided, Scoring, Found
  <2>8. q.left # {s} => on \in RequestState /\ Found(on) \subseteq WithPath
    <3>1. q.left # {s} => q.left \ {s} \in SomeSlots
      BY <2>2, <2>3 DEF SomeSlots
    <3>2. q.left # {s} => on \in [at : {"scan"}, host : Host, left : SomeSlots,
                                 allowed : SUBSET Slot, live : SUBSET Slot]
      BY <2>1, <2>5, <3>1
    <3>3. on.at = "scan" /\ on.allowed = allowed /\ on.live = live
      BY <2>1
    <3>4. Found(on) \subseteq WithPath
      BY <2>5, <3>3 DEF Found
    <3> QED BY <3>2, <3>4 DEF RequestState
  <2>9. req' = [req EXCEPT ![r] = IF q.left = {s} THEN Decided(h, allowed, live) ELSE on]
    BY <1>2 DEF Scan, s, h, allowed, live
  <2> HIDE DEF on
  <2> QED BY <2>6, <2>7, <2>8, <2>9
<1>3. CASE Reset(r)
  <2>1. q \in [at : {"reset"}, host : Host, left : SomeSlots, live : SomeSlots]
    BY <1>1, <1>3 DEF Reset, RequestState, Idle
  <2> DEFINE s == Lowest(q.left)
  <2> DEFINE on == [q EXCEPT !.left = @ \ {s}]
  <2>2. q.left \in SUBSET Slot /\ q.left # {} /\ q.host \in Host
    BY <2>1 DEF SomeSlots
  <2>3. s \in q.left
    BY <2>2, LowestExists
  <2> HIDE DEF s
  <2>4. Scoring(q.host, q.live) \in RequestState /\ Found(Scoring(q.host, q.live)) \subseteq WithPath
    BY <1>1, <2>1, <2>2 DEF Scoring, RequestState, Found
  <2>5. q.left # {s} => on \in RequestState /\ Found(on) \subseteq WithPath
    <3>1. q.left # {s} => q.left \ {s} \in SomeSlots
      BY <2>2, <2>3 DEF SomeSlots
    <3>2. q.left # {s} => on \in [at : {"reset"}, host : Host, left : SomeSlots, live : SomeSlots]
      BY <2>1, <3>1
    <3>3. Found(on) \subseteq WithPath
      BY <1>1, <2>1 DEF Found
    <3> QED BY <3>2, <3>3 DEF RequestState
  <2>6. req' = [req EXCEPT ![r] = IF q.left = {s} THEN Scoring(q.host, q.live) ELSE on]
    BY <1>3 DEF Reset, s
  <2> HIDE DEF on
  <2> QED BY <2>4, <2>5, <2>6
<1>4. CASE Score(r)
  <2>1. q \in [at : {"score"}, host : Host, left : SomeSlots,
               best : SUBSET [slot : Slot, score : Nat]]
    <3>1. q.at = "score"
      BY <1>4 DEF Score
    <3> HIDE DEF q
    <3> QED BY <1>1, <3>1, SMTT(60) DEF RequestState, Idle
  <2> DEFINE s == Lowest(q.left)
  <2> DEFINE score == Rank[q.host][s][slot[s].path]
  <2> DEFINE best == IF \A b \in q.best : score > b.score
                     THEN {[slot |-> s, score |-> score]} ELSE q.best
  <2> DEFINE on == [q EXCEPT !.left = @ \ {s}, !.best = best]
  <2> DEFINE end == [at |-> "picked", host |-> q.host, slot |-> (CHOOSE b \in best : TRUE).slot]
  <2>2. q.left \in SUBSET Slot /\ q.left # {} /\ q.host \in Host
    BY <2>1 DEF SomeSlots
  <2>3. s \in q.left /\ s \in Slot
    BY <2>2, LowestExists
  <2>4. score \in Nat
    <3>1. s \in WithPath
      BY <1>1, <2>1, <2>3 DEF Found
    <3>2. slot[s].path \in Path
      BY <3>1 DEF WithPath
    <3>3. Rank[q.host] \in [Slot -> [Path -> Nat]]
      BY <2>2, CircuitsAssumption
    <3>4. Rank[q.host][s] \in [Path -> Nat]
      BY <2>3, <3>3
    <3> QED BY <3>2, <3>4
  <2> HIDE DEF s, score
  <2>5. best \in SUBSET [slot : Slot, score : Nat] /\ best # {}
    <3>1. q.best \in SUBSET [slot : Slot, score : Nat]
      BY <2>1
    <3>2. [slot |-> s, score |-> score] \in [slot : Slot, score : Nat]
      BY <2>3, <2>4
    <3>3. CASE \A b \in q.best : score > b.score
      BY <3>2, <3>3
    <3>4. CASE ~ \A b \in q.best : score > b.score
      BY <3>1, <3>4
    <3> QED BY <3>3, <3>4
  <2> HIDE DEF best
  <2>6. end \in RequestState /\ Found(end) \subseteq WithPath
    <3>1. (CHOOSE b \in best : TRUE) \in best
      BY <2>5
    <3>2. (CHOOSE b \in best : TRUE).slot \in Slot
      BY <2>5, <3>1
    <3> QED BY <2>2, <3>2 DEF RequestState, Found
  <2>7. q.left # {s} => on \in RequestState /\ Found(on) \subseteq WithPath
    <3>1. q.left # {s} => q.left \ {s} \in SomeSlots
      BY <2>2, <2>3 DEF SomeSlots
    <3>2. q.left # {s} => on \in [at : {"score"}, host : Host, left : SomeSlots,
                                 best : SUBSET [slot : Slot, score : Nat]]
      BY <2>1, <2>5, <3>1
    <3>3. Found(on) \subseteq WithPath
      BY <1>1, <2>1 DEF Found
    <3> QED BY <3>2, <3>3 DEF RequestState
  <2>8. req' = [req EXCEPT ![r] = IF q.left = {s} THEN end ELSE on]
    BY <1>4 DEF Score, s, score, best
  <2> HIDE DEF on, end
  <2> QED BY <2>6, <2>7, <2>8
<1> QED BY <1>2, <1>3, <1>4 DEF PickStep

\* Slots keep their types, and once they have a circuit they always show one.
LEMMA SlotTypes ==
    ASSUME TypeOK, [Next]_vars
    PROVE  /\ slot' \in [Slot -> SlotState]
           /\ \A s \in Slot : slot'[s].ready => slot'[s].path \in Path
           /\ WithPath \subseteq WithPath'
<1>1. CASE Drop
  <2>1. inst.slot \in Slot /\ slot' = [slot EXCEPT ![inst.slot].ready = FALSE]
    BY <1>1 DEF Drop, TypeOK, Idle
  <2>2. slot \in [Slot -> SlotState] /\ slot[inst.slot] \in SlotState
    BY <2>1 DEF TypeOK
  <2> DEFINE new == [slot[inst.slot] EXCEPT !.ready = FALSE]
  <2>3. new \in SlotState /\ new.path = slot[inst.slot].path /\ ~new.ready
    BY <2>2 DEF SlotState
  <2>4. slot' = [slot EXCEPT ![inst.slot] = new]
    BY <2>1
  <2> HIDE DEF new
  <2> QED BY <2>1, <2>2, <2>3, <2>4 DEF TypeOK, WithPath
<1>2. CASE Installed
  <2>1. inst.slot \in Slot /\ inst.path \in Path
    BY <1>2 DEF Installed, TypeOK, Idle
  <2>2. slot' = [slot EXCEPT ![inst.slot] = Unmarked(inst.path, TRUE)]
    BY <1>2 DEF Installed
  <2>3. Unmarked(inst.path, TRUE) \in SlotState /\ Unmarked(inst.path, TRUE).path = inst.path
    BY <2>1, CircuitsAssumption DEF Unmarked, SlotState
  <2> QED BY <2>1, <2>2, <2>3 DEF TypeOK, WithPath
<1>3. CASE ~Drop /\ ~Installed
  BY <1>3, OnlyInstallChangesPaths DEF SlotsKeep, TypeOK, WithPath
<1> QED BY <1>1, <1>2, <1>3

\* The core's handlers, and Install's own state.
LEMMA InstallTypes ==
    ASSUME TypeOK, InstallStep
    PROVE  /\ out' \in [Slot -> [Tag -> Path \cup {NoPath}]]
           /\ inst' \in {Idle} \cup [at : {"remove", "add", "undo"}, slot : Slot, path : Path,
                                     tags : SUBSET Tag]
           /\ HistoriesOK' /\ UNCHANGED <<installs, req>>
<1>1. inst \in [at : {"remove", "add", "undo"}, slot : Slot, path : Path, tags : SUBSET Tag]
  <2>1. inst.at \in {"remove", "add", "undo"}
    BY DEF InstallStep, Remove, Add, Drop, Installed
  <2> QED BY <2>1 DEF TypeOK, Idle
<1>2. CASE Remove
  <2> DEFINE tag == NextToRemove(inst.tags)
  <2>1. tag \in Tag
    BY DEF NextToRemove, Tag
  <2> HIDE DEF tag
  <2>2. out' = [out EXCEPT ![inst.slot][tag] = NoPath]
    BY <1>2 DEF Remove, tag
  <2>3. inst' = IF inst.tags = {tag} /\ inst.at = "remove"
                THEN [inst EXCEPT !.at = "add", !.tags = Tag]
                ELSE [inst EXCEPT !.tags = @ \ {tag}]
    BY <1>2 DEF Remove, tag
  <2>4. inst' \in [at : {"remove", "add", "undo"}, slot : Slot, path : Path, tags : SUBSET Tag]
    BY <1>1, <2>3
  <2>5. UNCHANGED <<slot, installs, req, calm, usable>>
    BY <1>2 DEF Remove
  <2> QED BY <1>1, <2>1, <2>2, <2>4, <2>5 DEF TypeOK, HistoriesOK
<1>3. CASE Add
  <2> DEFINE tag == NextToAdd(inst.tags)
  <2>1. tag \in Tag
    BY DEF NextToAdd, Tag
  <2> HIDE DEF tag
  <2>2. out' = [out EXCEPT ![inst.slot][tag] = inst.path] \/ out' = out
    BY <1>3 DEF Add, tag
  <2>3. inst' = [inst EXCEPT !.tags = @ \ {tag}] \/ inst' = [inst EXCEPT !.at = "undo", !.tags = Tag]
    BY <1>3 DEF Add, tag
  <2>4. inst' \in [at : {"remove", "add", "undo"}, slot : Slot, path : Path, tags : SUBSET Tag]
    BY <1>1, <2>3
  <2>5. UNCHANGED <<slot, installs, req, calm, usable>>
    BY <1>3 DEF Add
  <2>6. out' \in [Slot -> [Tag -> Path \cup {NoPath}]]
    <3>1. CASE out' = out
      BY <3>1 DEF TypeOK
    <3>2. CASE out' = [out EXCEPT ![inst.slot][tag] = inst.path]
      BY <1>1, <2>1, <3>2 DEF TypeOK
    <3> QED BY <2>2, <3>1, <3>2
  <2> QED BY <2>4, <2>5, <2>6 DEF TypeOK, HistoriesOK
<1>4. CASE Drop
  BY <1>4, WatchTypes DEF Drop, TypeOK
<1>5. CASE Installed
  BY <1>5, WatchTypes DEF Installed, TypeOK
<1> QED BY <1>2, <1>3, <1>4, <1>5 DEF InstallStep

\* Every variable keeps its type, however requests and rotations interleave.
THEOREM TypeCorrect == Spec => []TypeOK
<1>1. Init => TypeOK /\ FoundInv
  <2> SUFFICES ASSUME Init PROVE TypeOK /\ FoundInv
    OBVIOUS
  <2>1. PICK first \in [Slot -> Path \cup {NoPath}] :
          /\ slot = [s \in Slot |-> Unmarked(first[s], first[s] # NoPath)]
          /\ out = [s \in Slot |-> [t \in Tag |-> first[s]]]
    BY DEF Init
  <2>2. \A s \in Slot : Unmarked(first[s], first[s] # NoPath) \in SlotState
    BY CircuitsAssumption DEF Unmarked, SlotState
  <2>3. \A s \in Slot : slot[s].ready => slot[s].path \in Path
    BY <2>1 DEF Unmarked
  <2>4. FoundInv
    BY DEF Init, FoundInv, Found, Idle
  <2> QED BY <2>1, <2>2, <2>3, <2>4, CircuitsAssumption DEF Init, TypeOK, RequestState
<1>2. TypeOK /\ FoundInv /\ [Next]_vars => TypeOK' /\ FoundInv'
  <2> SUFFICES ASSUME TypeOK, FoundInv, [Next]_vars PROVE TypeOK' /\ FoundInv'
    OBVIOUS
  <2> DEFINE Rest == /\ out' \in [Slot -> [Tag -> Path \cup {NoPath}]]
                     /\ inst' \in {Idle} \cup [at : {"remove", "add", "undo"}, slot : Slot,
                                               path : Path, tags : SUBSET Tag]
                     /\ installs' \in 0..MaxInstalls
                     /\ HistoriesOK'
  <2> DEFINE Moves == \/ req' = req
                      \/ \E r \in Request : \E next \in RequestState :
                           req' = [req EXCEPT ![r] = next] /\ Found(next) \subseteq WithPath
  <2>1. Rest /\ Moves => TypeOK' /\ FoundInv'
    <3> SUFFICES ASSUME Rest, Moves PROVE TypeOK' /\ FoundInv'
      OBVIOUS
    <3>1. req' \in [Request -> RequestState]
          /\ \A r \in Request : Found(req'[r]) \subseteq WithPath
      BY DEF TypeOK, FoundInv
    <3>2. FoundInv'
      BY <3>1, SlotTypes DEF FoundInv
    <3> QED BY <3>1, <3>2, SlotTypes DEF TypeOK, HistoriesOK
  <2>2. CASE UNCHANGED vars
    BY <2>1, <2>2 DEF vars, TypeOK, HistoriesOK
  <2>3. ASSUME NEW s \in Slot, NEW p \in Path, Rotate(s, p) PROVE Rest /\ Moves
    BY <2>3, CircuitsAssumption DEF Rotate, TypeOK, HistoriesOK, Tag
  <2>4. CASE InstallStep
    BY <2>1, <2>4, InstallTypes DEF TypeOK
  <2>5. ASSUME NEW r \in Request, NEW h \in Host, Begin(r, h) PROVE Rest /\ Moves
    <3> DEFINE next == [at |-> "scan", host |-> h, left |-> Slot, allowed |-> {}, live |-> {}]
    <3>1. req' = [req EXCEPT ![r] = next]
      BY <2>5 DEF Begin
    <3>2. next \in RequestState /\ Found(next) \subseteq WithPath
      BY CircuitsAssumption DEF RequestState, SomeSlots, Found
    <3>3. HistoriesOK'
      BY <2>5 DEF Begin, TypeOK, HistoriesOK
    <3> QED BY <2>5, <3>1, <3>2, <3>3 DEF Begin, TypeOK
  <2>6. ASSUME NEW r \in Request, PickStep(r) PROVE Rest /\ Moves
    <3>1. HistoriesOK'
      BY <2>6, WatchTypes DEF PickStep, Scan, Reset, Score, TypeOK, HistoriesOK
    <3>2. UNCHANGED <<out, inst, installs>>
      BY <2>6 DEF PickStep, Scan, Reset, Score
    <3> QED BY <2>6, <3>1, <3>2, PickTypes DEF TypeOK
  <2>7. ASSUME NEW r \in Request, ConnectStep(r) \/ FinishStep(r) PROVE Rest /\ Moves
    <3>1. UNCHANGED <<out, inst, installs>>
      BY <2>7 DEF ConnectStep, FinishStep, Refused, Dial, DialFails, Answered, Silent, Unused
    <3>2. HistoriesOK'
      BY <2>7, WatchTypes DEF ConnectStep, FinishStep, Refused, Dial, DialFails, Answered,
         Silent, Unused, TypeOK, HistoriesOK
    <3>3. req[r] \in RequestState
      BY DEF TypeOK
    <3>4. req[r].at = "picked" => req[r].slot \in Slot
      BY <3>3 DEF RequestState, Idle
    <3>5. Idle \in RequestState /\ Found(Idle) = {}
      BY DEF RequestState, Found, Idle
    <3>6. req[r].at = "picked" =>
            \A b \in BOOLEAN :
              LET next == [at |-> "open", slot |-> req[r].slot, routed |-> b]
              IN next \in RequestState /\ Found(next) = {}
      BY <3>4 DEF RequestState, Found
    <3>7. req[r].at = "picked" =>
            LET next == [at |-> "failed", slot |-> req[r].slot]
            IN next \in RequestState /\ Found(next) = {}
      BY <3>4 DEF RequestState, Found
    <3>8. Moves
      BY <2>7, <3>5, <3>6, <3>7 DEF ConnectStep, FinishStep, Refused, Dial, DialFails,
         Answered, Silent, Unused
    <3> QED BY <3>1, <3>2, <3>8 DEF TypeOK
  <2>8. ASSUME NEW s \in Slot, Expire(s) PROVE Rest /\ Moves
    BY <2>8, WatchTypes DEF Expire, TypeOK
  <2> HIDE DEF Rest, Moves
  <2> QED BY <2>1, <2>2, <2>3, <2>4, <2>5, <2>6, <2>7, <2>8 DEF Next
<1> QED BY <1>1, <1>2, PTL DEF Spec

----------------------------------------------------------------------------
\* The core's handlers.

InstallState == [at : {"remove", "add", "undo"}, slot : Slot, path : Path, tags : SUBSET Tag]

\* A step that leaves the handlers and Install's place alone disturbs nothing,
\* as long as the slots keep their paths.
LEMMA ElsewhereHandlersStay ==
    ASSUME HandlerInv, SlotsKeep, UNCHANGED <<out, inst>>
    PROVE  HandlerInv'
BY DEF HandlerInv, Installing, Underway, Settled, SlotsKeep

\* Installing on one slot leaves the others settled.
LEMMA OthersStaySettled ==
    ASSUME HandlerInv, inst \in InstallState,
           NEW i \in Slot, inst.slot = i, inst' # Idle => inst'.slot = i,
           \A t \in Slot \ {i} : out'[t] = out[t] /\ slot'[t] = slot[t],
           IF inst' = Idle THEN Settled(i)' ELSE Underway(i)'
    PROVE  HandlerInv'
<1> SUFFICES ASSUME NEW s \in Slot
             PROVE  IF Installing(s)' THEN Underway(s)' ELSE Settled(s)'
  BY DEF HandlerInv
<1>1. inst # Idle
  BY DEF InstallState, Idle
<1>2. s # i => Settled(s)' /\ ~Installing(s)'
  BY <1>1 DEF HandlerInv, Installing, Settled
<1>3. s = i => (Installing(s)' <=> inst' # Idle)
  BY DEF Installing
<1> QED BY <1>2, <1>3

LEMMA InstallKeepsHandlerInv ==
    ASSUME TypeOK, HandlerInv, InstallStep
    PROVE  HandlerInv'
<1>1. inst \in InstallState /\ inst # Idle
  <2>1. inst.at \in {"remove", "add", "undo"}
    BY DEF InstallStep, Remove, Add, Drop, Installed
  <2> QED BY <2>1 DEF TypeOK, Idle, InstallState
<1>2. PICK i \in Slot : inst.slot = i /\ inst.tags \subseteq Tag /\ inst.path \in Path
  BY <1>1 DEF InstallState
<1>3. Underway(i)
  BY <1>1, <1>2 DEF HandlerInv, Installing
<1>4. out \in [Slot -> [Tag -> AnyPath]] /\ slot \in [Slot -> SlotState]
  BY DEF TypeOK, AnyPath
<1>5. CASE Remove
  <2> DEFINE tag == NextToRemove(inst.tags)
  <2>1. tag \in inst.tags
    BY <1>2, <1>5 DEF Remove, NextToRemove, Tag
  <2>2. tag # "exit" => "exit" \notin inst.tags
    BY DEF NextToRemove
  <2> HIDE DEF tag
  <2>3. out' = [out EXCEPT ![i][tag] = NoPath] /\ slot' = slot
    BY <1>2, <1>5 DEF Remove, tag
  <2>4. out'[i][tag] = NoPath /\ \A t \in Tag \ {tag} : out'[i][t] = out[i][t]
    BY <1>2, <1>4, <2>1, <2>3
  <2>5. inst' = IF inst.tags = {tag} /\ inst.at = "remove"
                THEN [inst EXCEPT !.at = "add", !.tags = Tag]
                ELSE [inst EXCEPT !.tags = @ \ {tag}]
    BY <1>2, <1>5 DEF Remove, tag
  <2>6. out'[i]["exit"] = NoPath
    BY <1>3, <1>5, <2>2, <2>4 DEF Underway, Remove, Tag
  <2>7. \A t \in Tag \ (inst.tags \ {tag}) : out'[i][t] = NoPath
    BY <1>2, <1>3, <1>5, <2>4 DEF Underway, Remove
  <2>8. CASE inst.tags = {tag} /\ inst.at = "remove"
    <3>1. inst'.at = "add" /\ inst'.tags = Tag /\ inst'.slot = i
      BY <1>1, <1>2, <2>5, <2>8 DEF InstallState
    <3>2. Underway(i)' /\ inst' # Idle
      BY <2>6, <3>1 DEF Underway, Tag, Idle
    <3> QED BY <1>1, <2>3, <3>1, <3>2, <1>2, <1>4, OthersStaySettled
  <2>9. CASE ~(inst.tags = {tag} /\ inst.at = "remove")
    <3>1. inst'.at = inst.at /\ inst'.tags = inst.tags \ {tag} /\ inst'.slot = i
      BY <1>1, <1>2, <2>5, <2>9 DEF InstallState
    <3>2. inst.at \in {"remove", "undo"}
      BY <1>5 DEF Remove
    <3>3. "exit" \notin inst'.tags /\ inst'.tags # Tag
      BY <2>2, <3>1, <2>1 DEF Tag
    <3>4. Underway(i)' /\ inst' # Idle
      BY <2>6, <2>7, <3>1, <3>2, <3>3 DEF Underway, Idle
    <3> QED BY <1>1, <2>3, <3>1, <3>4, <1>2, <1>4, OthersStaySettled
  <2> QED BY <2>8, <2>9
<1>6. CASE Add
  <2> DEFINE tag == NextToAdd(inst.tags)
  <2>1. tag \in inst.tags /\ "exit" \in inst.tags
    BY <1>2, <1>3, <1>6 DEF Add, NextToAdd, Tag, Underway
  <2>2. tag = "exit" => inst.tags = {tag}
    BY <1>2, <2>1 DEF NextToAdd, Tag
  <2> HIDE DEF tag
  <2>3. out[i]["exit"] = NoPath /\ \A t \in Tag \ inst.tags : out[i][t] = inst.path
    BY <1>3, <1>6, <2>1 DEF Underway, Add
  <2>4. slot' = slot
    BY <1>6 DEF Add
  <2>5. CASE out' = [out EXCEPT ![i][tag] = inst.path] /\ inst' = [inst EXCEPT !.tags = @ \ {tag}]
    <3>1. inst'.at = "add" /\ inst'.tags = inst.tags \ {tag} /\ inst'.slot = i
          /\ inst'.path = inst.path
      BY <1>1, <1>2, <1>6, <2>5 DEF InstallState, Add
    <3>2. out'[i][tag] = inst.path /\ \A t \in Tag \ {tag} : out'[i][t] = out[i][t]
      BY <1>2, <1>4, <2>1, <2>5
    <3>3. \A t \in Tag \ inst'.tags : out'[i][t] = inst.path
      BY <1>2, <2>3, <3>1, <3>2
    <3>4. "exit" \notin inst'.tags => inst'.tags = {}
      BY <2>1, <2>2, <3>1
    <3>5. \A t \in inst'.tags : t = "exit" => out'[i][t] = NoPath
      BY <1>2, <2>3, <3>1, <3>2
    <3>6. Underway(i)' /\ inst' # Idle
      BY <3>1, <3>3, <3>4, <3>5 DEF Underway, Idle
    <3> QED BY <1>1, <2>4, <2>5, <3>1, <3>6, <1>2, <1>4, OthersStaySettled
  <2>6. CASE out' = out /\ inst' = [inst EXCEPT !.at = "undo", !.tags = Tag]
    <3>1. inst'.at = "undo" /\ inst'.tags = Tag /\ inst'.slot = i
      BY <1>1, <1>2, <2>6 DEF InstallState
    <3>2. Underway(i)' /\ inst' # Idle
      BY <2>3, <2>6, <3>1 DEF Underway, Idle
    <3> QED BY <1>1, <1>2, <2>4, <2>6, <3>1, <3>2, OthersStaySettled
  <2> QED BY <1>2, <1>6, <2>5, <2>6 DEF Add, tag
<1>7. CASE Drop
  <2>1. \A t \in Tag : out[i][t] = NoPath
    BY <1>3, <1>7 DEF Drop, Underway
  <2>2. out' = out /\ inst' = Idle /\ slot' = [slot EXCEPT ![i].ready = FALSE]
    BY <1>2, <1>7 DEF Drop
  <2>3. ~slot'[i].ready /\ \A t \in Slot \ {i} : slot'[t] = slot[t]
    BY <1>2, <1>4, <2>2 DEF SlotState
  <2>4. Settled(i)'
    BY <2>1, <2>2, <2>3 DEF Settled, AnyPath
  <2> QED BY <1>1, <1>2, <2>2, <2>3, <2>4, OthersStaySettled
<1>8. CASE Installed
  <2>1. \A t \in Tag : out[i][t] = inst.path
    BY <1>3, <1>8 DEF Installed, Underway
  <2>2. out' = out /\ inst' = Idle /\ slot' = [slot EXCEPT ![i] = Unmarked(inst.path, TRUE)]
    BY <1>2, <1>8 DEF Installed
  <2>3. slot'[i].path = inst.path /\ \A t \in Slot \ {i} : slot'[t] = slot[t]
    BY <1>2, <1>4, <2>2 DEF Unmarked
  <2>4. Settled(i)'
    BY <1>2, <2>1, <2>2, <2>3 DEF Settled, AnyPath
  <2> QED BY <1>1, <1>2, <2>2, <2>3, <2>4, OthersStaySettled
<1> QED BY <1>5, <1>6, <1>7, <1>8 DEF InstallStep

LEMMA HandlersFollowInstall == Spec => []HandlerInv
<1>1. Init => HandlerInv
  <2> SUFFICES ASSUME Init, NEW s \in Slot PROVE Settled(s) /\ inst = Idle
    BY DEF HandlerInv, Installing
  <2>1. PICK first \in [Slot -> Path \cup {NoPath}] :
          /\ slot = [x \in Slot |-> Unmarked(first[x], first[x] # NoPath)]
          /\ out = [x \in Slot |-> [t \in Tag |-> first[x]]]
    BY DEF Init
  <2>2. slot[s].path = first[s] /\ \A t \in Tag : out[s][t] = first[s]
    BY <2>1 DEF Unmarked
  <2>3. first[s] \in AnyPath
    BY DEF AnyPath
  <2> QED BY <2>2, <2>3 DEF Init, Settled
<1>2. TypeOK /\ HandlerInv /\ [Next]_vars => HandlerInv'
  <2> SUFFICES ASSUME TypeOK, HandlerInv, [Next]_vars PROVE HandlerInv'
    OBVIOUS
  <2>1. CASE InstallStep
    BY <2>1, InstallKeepsHandlerInv
  <2>2. ASSUME NEW s \in Slot, NEW p \in Path, Rotate(s, p) PROVE HandlerInv'
    <3>1. inst = Idle /\ UNCHANGED <<slot, out>>
          /\ inst'.at = "remove" /\ inst'.slot = s /\ inst'.tags = Tag /\ inst' # Idle
      BY <2>2 DEF Rotate, Idle
    <3>2. \A t \in Slot : Settled(t)
      BY <3>1 DEF HandlerInv, Installing
    <3>3. \A t \in Slot : Settled(t)'
      BY <3>1, <3>2 DEF Settled
    <3>4. Underway(s)'
      BY <3>1, <3>2 DEF Settled, Underway
    <3> QED BY <3>1, <3>3, <3>4 DEF HandlerInv, Installing
  <2>3. CASE UNCHANGED <<out, inst>> /\ ~Drop /\ ~Installed
    BY <2>3, OnlyInstallChangesPaths, ElsewhereHandlersStay
  <2>4. \/ InstallStep \/ \E s \in Slot, p \in Path : Rotate(s, p)
        \/ UNCHANGED <<out, inst>>
    BY DEF Next, vars, PickStep, ConnectStep, FinishStep, Begin, Scan, Reset, Score,
           Refused, Dial, DialFails, Answered, Silent, Unused, Expire
  <2> QED BY <2>1, <2>2, <2>3, <2>4 DEF InstallStep
<1> QED BY <1>1, <1>2, TypeCorrect, PTL DEF Spec

\* At every point of Install, and of an Install that fails, an exit handler has
\* the two hops of its own circuit under it.
THEOREM ChainStaysComplete == Spec => []ChainComplete
<1>1. TypeOK /\ HandlerInv => ChainComplete
  <2> SUFFICES ASSUME TypeOK, HandlerInv, NEW s \in Slot, out[s]["exit"] # NoPath
               PROVE  \A t \in Tag : out[s][t] = out[s]["exit"]
    BY DEF ChainComplete
  <2>1. "exit" \in Tag
    BY DEF Tag
  <2>2. CASE Installing(s)
    BY <2>1, <2>2 DEF HandlerInv, Underway
  <2>3. CASE ~Installing(s)
    BY <2>1, <2>3 DEF HandlerInv, Settled
  <2> QED BY <2>2, <2>3
<1> QED BY <1>1, TypeCorrect, HandlersFollowInstall, PTL

\* A ready slot that Install is not at work on shows the circuit the core has.
THEOREM ReadySlotsAreInstalled == Spec => []ReadyIsInstalled
<1>1. HandlerInv => ReadyIsInstalled
  BY DEF HandlerInv, Settled, ReadyIsInstalled
<1> QED BY <1>1, HandlersFollowInstall, PTL

----------------------------------------------------------------------------
\* Requests.

\* A request's own step, and how its history goes with it.
LEMMA ScanKeepsLookout ==
    ASSUME TypeOK, LookoutInv, NEW r \in Request, Scan(r)
    PROVE  LookoutInv'
<1> DEFINE q == req[r]
<1> DEFINE s == Lowest(q.left)
<1> DEFINE h == q.host
<1> DEFINE allowed == q.allowed \cup (IF Usable(s, h) THEN {s} ELSE {})
<1> DEFINE live == q.live \cup (IF Usable(s, h) /\ Healthy(s) THEN {s} ELSE {})
<1> DEFINE on == [q EXCEPT !.left = @ \ {s}, !.allowed = allowed, !.live = live]
<1>1. q \in [at : {"scan"}, host : Host, left : SomeSlots, allowed : SUBSET Slot,
             live : SUBSET Slot]
  BY DEF Scan, RequestState, Idle, TypeOK
<1>2. usable[r] \subseteq q.allowed \cup q.left /\ \A t \in usable[r] : Usable(t, h)
  BY <1>1 DEF LookoutInv
<1>3. usable[r] \subseteq allowed \cup (q.left \ {s})
  BY <1>2
<1> HIDE DEF s, allowed, live
<1>4. slot' = slot /\ UNCHANGED <<out, inst>>
      /\ req' = [req EXCEPT ![r] = IF q.left = {s} THEN Decided(h, allowed, live) ELSE on]
  BY DEF Scan, s, allowed, live
<1>5. usable' = IF req'[r].at \in {"scan", "refused"} THEN usable
                ELSE [usable EXCEPT ![r] = {}]
  BY DEF Scan
<1>6. on.at = "scan" /\ on.host = h /\ on.allowed = allowed /\ on.left = q.left \ {s}
  BY <1>1
<1>7. req \in [Request -> RequestState] /\ usable \in [Request -> SUBSET Slot]
  BY DEF TypeOK
<1> HIDE DEF on
<1>8. \A x \in Request \ {r} : req'[x] = req[x] /\ usable'[x] = usable[x]
  BY <1>4, <1>5, <1>7
<1>9. req'[r] = IF q.left = {s} THEN Decided(h, allowed, live) ELSE on
  BY <1>4, <1>7
<1>10. CASE q.left = {s}
  <2>1. req'[r].at # "scan"
    BY <1>9, <1>10 DEF Decided, Scoring
  <2>2. req'[r].at = "refused" => allowed = {}
    BY <1>9, <1>10 DEF Decided, Scoring
  <2>3. usable'[r] = {}
    BY <1>3, <1>5, <1>7, <1>10, <2>1, <2>2
  <2> QED BY <1>4, <1>8, <2>1, <2>3 DEF LookoutInv, Usable, UsableIn
<1>11. CASE q.left # {s}
  <2>1. req'[r] = on /\ usable'[r] = usable[r]
    BY <1>5, <1>6, <1>9, <1>11
  <2>2. /\ usable'[r] \subseteq req'[r].allowed \cup req'[r].left
        /\ \A t \in usable'[r] : UsableIn(slot', t, req'[r].host)
    <3>1. usable'[r] \subseteq req'[r].allowed \cup req'[r].left
      BY <1>3, <1>6, <2>1
    <3>2. req'[r].host = h
      BY <1>6, <2>1
    <3> HIDE DEF h
    <3>3. \A t \in usable'[r] : UsableIn(slot', t, h)
      BY <1>2, <1>4, <2>1 DEF Usable, UsableIn
    <3> QED BY <3>1, <3>2, <3>3
  <2> QED BY <1>4, <1>6, <1>8, <2>1, <2>2 DEF LookoutInv, Usable, UsableIn
<1> QED BY <1>10, <1>11

\* A change of the slots takes out of the histories what is not usable any more.
LEMMA WatchKeepsLookout ==
    ASSUME TypeOK, LookoutInv, NEW actor, Watch(actor),
           \A x \in Request : \/ req'[x] = req[x]
                              \/ req[x].at # "scan" /\ req'[x].at # "scan"
    PROVE  LookoutInv'
BY DEF TypeOK, LookoutInv, Watch, Usable

\* While a request has an entry in the history it is looking for a slot: a
\* request is refused only when no slot was usable for it all the time.
THEOREM NobodyIsTurnedAway == Spec => []NotTurnedAway
<1>1. Init => LookoutInv
  BY DEF Init, LookoutInv, Idle
<1>2. TypeOK /\ LookoutInv /\ [Next]_vars => LookoutInv'
  <2> SUFFICES ASSUME TypeOK, LookoutInv, [Next]_vars PROVE LookoutInv'
    OBVIOUS
  <2>0. req \in [Request -> RequestState] /\ usable \in [Request -> SUBSET Slot]
    BY DEF TypeOK
  <2>1. CASE UNCHANGED <<slot, req, usable>>
    BY <2>1 DEF LookoutInv, Usable, UsableIn
  <2>2. CASE Drop \/ Installed
    BY <2>2, WatchKeepsLookout DEF Drop, Installed
  <2>3. ASSUME NEW r \in Request, NEW h \in Host, Begin(r, h) PROVE LookoutInv'
    <3>1. req'[r].at = "scan" /\ req'[r].left = Slot /\ req'[r].host = h
      BY <2>0, <2>3 DEF Begin
    <3>2. usable'[r] = {s \in Slot : Usable(s, h)}
      BY <2>0, <2>3 DEF Begin
    <3>3. slot' = slot /\ \A x \in Request \ {r} : req'[x] = req[x] /\ usable'[x] = usable[x]
      BY <2>0, <2>3 DEF Begin
    <3> QED BY <3>1, <3>2, <3>3 DEF LookoutInv, Usable, UsableIn
  <2>4. ASSUME NEW r \in Request, Scan(r) PROVE LookoutInv'
    BY <2>4, ScanKeepsLookout
  <2>5. ASSUME NEW r \in Request, Reset(r) \/ Answered(r) \/ Silent(r) PROVE LookoutInv'
    <3>1. Watch(r)
      BY <2>5 DEF Reset, Answered, Silent
    <3>2. req[r].at # "scan" /\ req'[r].at # "scan"
      <4>1. CASE Reset(r)
        <5>1. req[r].at = "reset"
          BY <4>1 DEF Reset
        <5> DEFINE on == [req[r] EXCEPT !.left = @ \ {Lowest(req[r].left)}]
        <5>2. on.at = "reset"
          <6>1. req[r] \in [at : {"reset"}, host : Host, left : SomeSlots, live : SomeSlots]
            BY <2>0, <5>1 DEF RequestState, Idle
          <6> QED BY <6>1
        <5>3. req'[r] = on \/ req'[r] = Scoring(req[r].host, req[r].live)
          BY <2>0, <4>1 DEF Reset
        <5> HIDE DEF on
        <5> QED BY <5>1, <5>2, <5>3 DEF Scoring
      <4>2. CASE Answered(r) \/ Silent(r)
        <5>1. req[r].at \in {"open", "failed"} /\ req' = [req EXCEPT ![r] = Idle]
          BY <4>2 DEF Answered, Silent
        <5> QED BY <2>0, <5>1 DEF Idle
      <4> QED BY <2>5, <4>1, <4>2
    <3>3. \A x \in Request \ {r} : req'[x] = req[x]
      BY <2>0, <2>5 DEF Reset, Answered, Silent
    <3> QED BY <3>1, <3>2, <3>3, WatchKeepsLookout
  <2>6. ASSUME NEW r \in Request, Score(r) \/ Refused(r) \/ Dial(r) \/ Unused(r)
        PROVE  LookoutInv'
    <3>1. slot' = slot /\ \A x \in Request \ {r} : req'[x] = req[x] /\ usable'[x] = usable[x]
      BY <2>0, <2>6 DEF Score, Refused, Dial, Unused
    <3>2. req[r].at # "scan" /\ req'[r].at # "scan"
      <4>1. CASE Score(r)
        <5>1. req[r].at = "score"
          BY <4>1 DEF Score
        <5>2. \A best : [req[r] EXCEPT !.left = @ \ {Lowest(req[r].left)}, !.best = best].at = "score"
          <6>1. req[r] \in [at : {"score"}, host : Host, left : SomeSlots,
                            best : SUBSET [slot : Slot, score : Nat]]
            BY <2>0, <5>1, SMTT(60) DEF RequestState, Idle
          <6> QED BY <6>1
        <5>3. req'[r].at = "picked" \/
              \E best : req'[r] = [req[r] EXCEPT !.left = @ \ {Lowest(req[r].left)}, !.best = best]
          BY <2>0, <4>1 DEF Score
        <5> QED BY <5>1, <5>2, <5>3
      <4>2. CASE Refused(r) \/ Dial(r) \/ Unused(r)
        BY <2>0, <4>2 DEF Refused, Dial, Unused, Idle
      <4> QED BY <2>6, <4>1, <4>2
    <3>3. usable[r] = {} /\ usable'[r] = {}
      BY <2>0, <2>6, <3>2 DEF LookoutInv, Score, Refused, Dial, Unused
    <3> QED BY <3>1, <3>2, <3>3 DEF LookoutInv, Usable, UsableIn
  <2>7. ASSUME NEW r \in Request, DialFails(r) PROVE LookoutInv'
    <3>1. SlotsKeep
      <4>1. req[r] \in RequestState /\ req[r].at = "picked"
        BY <2>0, <2>7 DEF DialFails
      <4>2. req[r].slot \in Slot
        BY <4>1 DEF RequestState, Idle
      <4> QED BY <2>7, <4>2, ReportedStates DEF DialFails, SlotsKeep
    <3>2. usable' = usable /\ \A x \in Request \ {r} : req'[x] = req[x]
      BY <2>0, <2>7 DEF DialFails
    <3>3. req[r].at # "scan" /\ req'[r].at # "scan"
      BY <2>0, <2>7 DEF DialFails, Idle
    <3> QED BY <2>0, <3>1, <3>2, <3>3 DEF LookoutInv, SlotsKeep, Usable, UsableIn
  <2>8. ASSUME NEW s \in Slot, Expire(s) PROVE LookoutInv'
    BY <2>8, WatchKeepsLookout DEF Expire
  <2>9. \/ UNCHANGED <<slot, req, usable>> \/ Drop \/ Installed
        \/ \E r \in Request, h \in Host : Begin(r, h)
        \/ \E r \in Request : Scan(r) \/ Reset(r) \/ Score(r) \/ Refused(r) \/ Dial(r)
                              \/ DialFails(r) \/ Answered(r) \/ Silent(r) \/ Unused(r)
        \/ \E s \in Slot : Expire(s)
    BY DEF Next, vars, InstallStep, PickStep, ConnectStep, FinishStep, Rotate, Remove, Add
  <2> QED BY <2>1, <2>2, <2>3, <2>4, <2>5, <2>6, <2>7, <2>8, <2>9
<1>3. LookoutInv => NotTurnedAway
  BY DEF LookoutInv, NotTurnedAway
<1> QED BY <1>1, <1>2, <1>3, TypeCorrect, PTL DEF Spec

----------------------------------------------------------------------------
\* Picks that nobody disturbs.

Allowed(h) == {s \in Slot : Usable(s, h)}
Live(h) == {s \in Allowed(h) : Healthy(s)}
From(h) == IF Live(h) = {} THEN Allowed(h) ELSE Live(h)
ScoreOf(s, h) == Rank[h][s][slot[s].path]

Beats(s, t, h) ==
    ScoreOf(t, h) < ScoreOf(s, h) \/ (ScoreOf(t, h) = ScoreOf(s, h) /\ s <= t)

\* s is the first of the highest of S.
Leads(s, S, h) == s \in S /\ \A t \in S : Beats(s, t, h)

\* What a Pick holds at each of its points, as the slots are now: what it has
\* read of them is what they still are.
Scanned(q) == /\ q.allowed = Allowed(q.host) \ q.left
              /\ q.live = Live(q.host) \ q.left

Resetting(q) == /\ q.live = Allowed(q.host) /\ q.left \subseteq Allowed(q.host)
                /\ \A s \in Allowed(q.host) \ q.left : Healthy(s)

Scored(q) ==
    LET done == From(q.host) \ q.left
    IN /\ q.left \subseteq From(q.host)
       /\ \A s \in done, t \in q.left : s < t
       /\ done = {} => q.best = {}
       /\ done # {} => \E s \in done : /\ q.best = {[slot |-> s, score |-> ScoreOf(s, q.host)]}
                                       /\ Leads(s, done, q.host)

PickAt(q) ==
    /\ q.at = "scan" => Scanned(q)
    /\ q.at = "reset" => Resetting(q)
    /\ q.at = "score" => Scored(q)
    /\ q.at = "picked" => Leads(q.slot, From(q.host), q.host)

PickInv == \A r \in calm : PickAt(req[r])

\* The scores that are compared are numbers.
LEMMA ScoreTypes ==
    ASSUME TypeOK, NEW h \in Host
    PROVE  /\ From(h) \subseteq Slot /\ Slot \subseteq Nat
           /\ \A s \in Allowed(h) : ScoreOf(s, h) \in Nat
           /\ \A s \in From(h) : ScoreOf(s, h) \in Nat
<1>1. \A s \in Allowed(h) : slot[s].path \in Path
  BY DEF Allowed, Usable, UsableIn, TypeOK
<1>2. \A s \in Allowed(h) : ScoreOf(s, h) \in Nat
  BY <1>1, CircuitsAssumption DEF ScoreOf, Allowed
<1> QED BY <1>2, CircuitsAssumption DEF From, Live, Allowed

\* Only one slot leads.
LEMMA LeaderIsBest ==
    ASSUME TypeOK, NEW h \in Host, NEW s, Leads(s, From(h), h)
    PROVE  s = Best(h)
<1>1. s \in From(h) /\ \A t \in From(h) : Beats(s, t, h)
  BY DEF Leads
<1>2. ASSUME NEW u \in From(h), \A t \in From(h) : Beats(u, t, h)
      PROVE  u = s
  <2>1. Beats(u, s, h) /\ Beats(s, u, h)
    BY <1>1, <1>2
  <2>2. s \in Nat /\ u \in Nat /\ ScoreOf(s, h) \in Nat /\ ScoreOf(u, h) \in Nat
    BY <1>1, ScoreTypes
  <2> QED BY <2>1, <2>2 DEF Beats
<1>3. Best(h) = CHOOSE u \in From(h) : \A t \in From(h) : Beats(u, t, h)
  BY DEF Best, From, Live, Allowed, Beats, ScoreOf
<1> HIDE DEF Beats
<1> QED BY <1>1, <1>2, <1>3

\* A request at which nothing happens, while no slot changes.
LEMMA PickUnmoved ==
    ASSUME NEW q, slot' = slot, PickAt(q)
    PROVE  PickAt(q)'
<1>1. \A h : Allowed(h)' = Allowed(h) /\ Live(h)' = Live(h)
  BY DEF Allowed, Live, Usable, UsableIn, Healthy
<1>2. \A h : From(h)' = From(h)
  BY <1>1 DEF From
<1>3. \A s, S, h : Leads(s, S, h)' <=> Leads(s, S, h)
  BY DEF Leads, Beats, ScoreOf
<1>4. \A s, h : ScoreOf(s, h)' = ScoreOf(s, h)
  BY DEF ScoreOf
<1>5. \A s : Healthy(s)' <=> Healthy(s)
  BY DEF Healthy
<1>6. (q.at = "scan" => Scanned(q)')
  BY <1>1 DEF PickAt, Scanned
<1>7. (q.at = "reset" => Resetting(q)')
  BY <1>1, <1>5 DEF PickAt, Resetting
<1>8. (q.at = "score" => Scored(q)')
  BY <1>2, <1>3, <1>4 DEF PickAt, Scored
<1>9. (q.at = "picked" => Leads(q.slot, From(q.host), q.host)')
  BY <1>2, <1>3 DEF PickAt
<1> QED BY <1>6, <1>7, <1>8, <1>9 DEF PickAt

\* A step of r during which, for whoever stays calm beside r, no slot changes.
LEMMA PickStepKeeps ==
    ASSUME TypeOK, PickInv, NEW r \in Request, NEW next,
           req' = [req EXCEPT ![r] = next],
           calm' \subseteq calm \cup {r},
           calm' \subseteq {r} \/ slot' = slot,
           r \in calm' => PickAt(next)'
    PROVE  PickInv'
<1> SUFFICES ASSUME NEW x \in calm' PROVE PickAt(req[x])'
  BY DEF PickInv
<1>1. req'[r] = next /\ \A y \in Request \ {r} : req'[y] = req[y]
  BY DEF TypeOK
<1>2. calm \subseteq Request
  BY DEF TypeOK
<1>3. CASE x = r
  BY <1>1, <1>3 DEF PickAt, Scanned, Resetting, Scored
<1>4. CASE x # r
  <2>1. x \in calm /\ slot' = slot /\ req'[x] = req[x]
    BY <1>1, <1>2, <1>4
  <2>2. PickAt(req[x])
    BY <2>1 DEF PickInv
  <2>3. PICK q : q = req[x]
    OBVIOUS
  <2>4. PickAt(q)'
    BY <2>1, <2>2, <2>3, PickUnmoved
  <2> QED BY <2>1, <2>3, <2>4 DEF PickAt, Scanned, Resetting, Scored
<1> QED BY <1>3, <1>4

LEMMA ScanKeepsPick ==
    ASSUME TypeOK, PickInv, NEW r \in Request, Scan(r)
    PROVE  PickInv'
<1> DEFINE q == req[r]
           s == Lowest(q.left)
           h == q.host
           allowed == q.allowed \cup (IF Usable(s, h) THEN {s} ELSE {})
           live == q.live \cup (IF Usable(s, h) /\ Healthy(s) THEN {s} ELSE {})
           on == [q EXCEPT !.left = @ \ {s}, !.allowed = allowed, !.live = live]
           next == IF q.left = {s} THEN Decided(h, allowed, live) ELSE on
<1>1. q \in [at : {"scan"}, host : Host, left : SomeSlots, allowed : SUBSET Slot,
             live : SUBSET Slot]
  BY DEF Scan, RequestState, Idle, TypeOK
<1>2. s \in q.left /\ s \in Slot /\ h \in Host
  BY <1>1, LowestExists DEF SomeSlots
<1>3. slot' = slot /\ calm' = calm /\ req' = [req EXCEPT ![r] = next]
  BY DEF Scan
<1>4. ASSUME r \in calm PROVE PickAt(next)
  <2>1. q.allowed = Allowed(h) \ q.left /\ q.live = Live(h) \ q.left
    BY <1>1, <1>4 DEF PickInv, PickAt, Scanned
  <2>2. allowed = Allowed(h) \ (q.left \ {s})
    BY <1>2, <2>1 DEF Allowed
  <2>3. live = Live(h) \ (q.left \ {s})
    BY <1>2, <2>1 DEF Live, Allowed
  <2> HIDE DEF allowed, live, s, h
  <2>4. CASE q.left = {s}
    <3>1. allowed = Allowed(h) /\ live = Live(h)
      BY <2>2, <2>3, <2>4
    <3>2. next = Decided(h, allowed, live)
      BY <2>4
    <3>3. CASE allowed = {}
      BY <3>2, <3>3 DEF Decided, PickAt
    <3>4. CASE allowed # {} /\ live # {}
      <4>1. /\ next.at = "score" /\ next.host = h /\ next.left = live /\ next.best = {}
        BY <3>2, <3>4 DEF Decided, Scoring
      <4>2. From(h) = live
        BY <3>1, <3>4 DEF From
      <4> HIDE DEF next
      <4> QED BY <4>1, <4>2 DEF PickAt, Scored
    <3>5. CASE allowed # {} /\ live = {}
      <4>1. next.at = "reset" /\ next.host = h /\ next.left = allowed /\ next.live = allowed
        BY <3>2, <3>5 DEF Decided
      <4> HIDE DEF next
      <4> QED BY <3>1, <4>1 DEF PickAt, Resetting
    <3> QED BY <3>3, <3>4, <3>5
  <2>5. CASE q.left # {s}
    <3>1. /\ next.at = "scan" /\ next.host = h /\ next.left = q.left \ {s}
          /\ next.allowed = allowed /\ next.live = live
      BY <1>1, <2>5 DEF h
    <3> HIDE DEF next
    <3> QED BY <2>2, <2>3, <3>1 DEF PickAt, Scanned
  <2> QED BY <2>4, <2>5
<1> HIDE DEF next
<1>5. PICK n : n = next
  OBVIOUS
<1>6. r \in calm' => PickAt(n)'
  BY <1>3, <1>4, <1>5, PickUnmoved
<1> QED BY <1>3, <1>5, <1>6, PickStepKeeps

LEMMA ResetKeepsPick ==
    ASSUME TypeOK, PickInv, NEW r \in Request, Reset(r)
    PROVE  PickInv'
<1>1. req[r] \in [at : {"reset"}, host : Host, left : SomeSlots, live : SomeSlots]
  BY DEF Reset, RequestState, Idle, TypeOK
<1>2. PICK q, s, h, n : /\ q = req[r] /\ s = Lowest(q.left) /\ h = q.host
                        /\ n = IF q.left = {s} THEN Scoring(h, q.live)
                               ELSE [q EXCEPT !.left = @ \ {s}]
  OBVIOUS
<1>3. s \in q.left /\ s \in Slot /\ h \in Host
  BY <1>1, <1>2, LowestExists DEF SomeSlots
<1>4. /\ slot' = [slot EXCEPT ![s] = Unmarked(slot[s].path, slot[s].ready)]
      /\ req' = [req EXCEPT ![r] = n]
      /\ calm' = IF slot' = slot THEN calm ELSE calm \cap {r}
  BY <1>2 DEF Reset, Watch
<1>5. \A t \in Slot : slot'[t] = IF t = s THEN Unmarked(slot[s].path, slot[s].ready)
                                 ELSE slot[t]
  BY <1>3, <1>4 DEF TypeOK
<1>6. \A t \in Slot : slot'[t].path = slot[t].path /\ slot'[t].ready = slot[t].ready
  BY <1>5 DEF Unmarked
<1>7. Allowed(h)' = Allowed(h)
  BY <1>6 DEF Allowed, Usable, UsableIn
<1>8. \A t \in Slot : (Healthy(t) => Healthy(t)') /\ (t = s /\ slot[t].ready => Healthy(t)')
  BY <1>5 DEF Healthy, Unmarked
<1>9. ASSUME r \in calm PROVE PickAt(n)'
  <2>1. /\ q.live = Allowed(h) /\ q.left \subseteq Allowed(h)
        /\ \A t \in Allowed(h) \ q.left : Healthy(t)
    BY <1>1, <1>2, <1>9 DEF PickInv, PickAt, Resetting
  <2>2. \A t \in Allowed(h)' \ (q.left \ {s}) : Healthy(t)'
    <3>1. \A t \in Allowed(h) : t \in Slot /\ slot[t].ready
      BY DEF Allowed, Usable, UsableIn
    <3> QED BY <1>7, <1>8, <2>1, <3>1
  <2>3. CASE q.left = {s}
    <3>1. Live(h)' = Allowed(h)'
      BY <2>2, <2>3 DEF Live
    <3>2. From(h)' = Allowed(h)'
      BY <3>1 DEF From
    <3>3. n.at = "score" /\ n.host = h /\ n.left = Allowed(h)' /\ n.best = {}
      BY <1>2, <1>7, <2>1, <2>3 DEF Scoring
    <3> QED BY <3>2, <3>3 DEF PickAt, Scored
  <2>4. CASE q.left # {s}
    <3>1. /\ n.at = "reset" /\ n.host = h /\ n.live = q.live /\ n.left = q.left \ {s}
      BY <1>1, <1>2, <2>4
    <3>2. /\ n.live = Allowed(h)' /\ n.left \subseteq Allowed(h)'
          /\ \A t \in Allowed(h)' \ n.left : Healthy(t)'
      BY <1>7, <2>1, <2>2, <3>1
    <3> QED BY <3>1, <3>2 DEF PickAt, Resetting
  <2> QED BY <2>3, <2>4
<1>10. calm' \subseteq calm \cup {r} /\ (calm' \subseteq {r} \/ slot' = slot)
  BY <1>4
<1>11. r \in calm' => PickAt(n)'
  BY <1>4, <1>9
<1> QED BY <1>4, <1>10, <1>11, PickStepKeeps

LEMMA ScoreKeepsPick ==
    ASSUME TypeOK, PickInv, NEW r \in Request, Score(r)
    PROVE  PickInv'
<1> DEFINE q == req[r]
           s == Lowest(q.left)
           h == q.host
           score == ScoreOf(s, h)
           best == IF \A b \in q.best : score > b.score
                   THEN {[slot |-> s, score |-> score]} ELSE q.best
           on == [q EXCEPT !.left = @ \ {s}, !.best = best]
           next == IF q.left = {s}
                   THEN [at |-> "picked", host |-> h, slot |-> (CHOOSE b \in best : TRUE).slot]
                   ELSE on
<1>1. q \in [at : {"score"}, host : Host, left : SomeSlots,
             best : SUBSET [slot : Slot, score : Nat]]
  <2>1. q \in RequestState /\ q.at = "score"
    BY DEF Score, TypeOK
  <2> HIDE DEF q
  <2> QED BY <2>1, SMTT(60) DEF RequestState, Idle
<1>2. q.left \in SUBSET Slot /\ q.left # {} /\ h \in Host
  BY <1>1 DEF SomeSlots
<1>3. s \in q.left /\ \A t \in q.left : s <= t
  BY <1>2, LowestIsLeast
<1>4. slot' = slot /\ calm' = calm /\ req' = [req EXCEPT ![r] = next]
  BY DEF Score, ScoreOf
<1>5. ASSUME r \in calm PROVE PickAt(next)
  <2>1. Scored(q)
    BY <1>1, <1>5 DEF PickInv, PickAt
  <2> DEFINE done == From(h) \ q.left
             then == From(h) \ (q.left \ {s})
  <2>2. then = done \cup {s} /\ s \notin done /\ s \in From(h)
    BY <1>3, <2>1 DEF Scored
  <2>3. \A t \in done : t < s
    BY <1>3, <2>1 DEF Scored
  <2>4. \E u \in then : best = {[slot |-> u, score |-> ScoreOf(u, h)]} /\ Leads(u, then, h)
    <3>1. s \in Nat /\ ScoreOf(s, h) \in Nat
          /\ \A t \in then : t \in Nat /\ ScoreOf(t, h) \in Nat
      BY <1>2, <2>2, ScoreTypes
    <3>2. Beats(s, s, h)
      BY <3>1 DEF Beats
    <3>3. CASE done = {}
      <4>1. q.best = {}
        BY <2>1, <3>3 DEF Scored
      <4>2. best = {[slot |-> s, score |-> ScoreOf(s, h)]}
        BY <4>1
      <4>3. then = {s}
        BY <2>2, <3>3
      <4> HIDE DEF best, then
      <4> QED BY <3>2, <4>2, <4>3 DEF Leads
    <3>4. CASE done # {}
      <4>1. PICK u \in done : /\ q.best = {[slot |-> u, score |-> ScoreOf(u, h)]}
                              /\ Leads(u, done, h)
        BY <2>1, <3>4 DEF Scored
      <4>2. u \in then /\ u \in Nat /\ ScoreOf(u, h) \in Nat /\ u < s
        BY <2>2, <2>3, <3>1, <4>1
      <4>3. \A t \in done : Beats(u, t, h)
        BY <4>1 DEF Leads
      <4>4. (\A b \in q.best : score > b.score) <=> ScoreOf(s, h) > ScoreOf(u, h)
        BY <4>1
      <4> HIDE DEF then, done, s, score
      <4>5. CASE ScoreOf(s, h) > ScoreOf(u, h)
        <5>1. best = {[slot |-> s, score |-> ScoreOf(s, h)]}
          BY <4>4, <4>5 DEF score
        <5>2. \A t \in then : Beats(s, t, h)
          <6> SUFFICES ASSUME NEW t \in then PROVE Beats(s, t, h)
            OBVIOUS
          <6>1. t = s \/ Beats(u, t, h)
            BY <2>2, <4>3
          <6> QED BY <3>1, <3>2, <4>2, <4>5, <6>1 DEF Beats
        <5> QED BY <2>2, <5>1, <5>2 DEF Leads
      <4>6. CASE ~(ScoreOf(s, h) > ScoreOf(u, h))
        <5>1. best = {[slot |-> u, score |-> ScoreOf(u, h)]}
          BY <4>1, <4>4, <4>6
        <5>2. Beats(u, s, h)
          BY <3>1, <4>2, <4>6 DEF Beats
        <5>3. \A t \in then : Beats(u, t, h)
          BY <2>2, <4>3, <5>2
        <5> HIDE DEF best
        <5> QED BY <4>2, <5>1, <5>3 DEF Leads
      <4> QED BY <4>5, <4>6
    <3> QED BY <3>3, <3>4
  <2>5. PICK u \in then : best = {[slot |-> u, score |-> ScoreOf(u, h)]} /\ Leads(u, then, h)
    BY <2>4
  <2> HIDE DEF best, s, h
  <2>6. CASE q.left = {s}
    <3>1. (CHOOSE b \in best : TRUE).slot = u
      <4>1. PICK only : only = [slot |-> u, score |-> ScoreOf(u, h)]
        OBVIOUS
      <4>2. best = {only} /\ only.slot = u
        BY <2>5, <4>1
      <4>3. (CHOOSE b \in {only} : TRUE) = only
        OBVIOUS
      <4> QED BY <4>2, <4>3
    <3>2. next.at = "picked" /\ next.host = h /\ next.slot = u
      BY <2>6, <3>1
    <3>3. then = From(h)
      BY <2>6
    <3> HIDE DEF next, then
    <3> QED BY <2>5, <3>2, <3>3 DEF PickAt
  <2>7. CASE q.left # {s}
    <3>1. /\ next.at = "score" /\ next.host = h /\ next.left = q.left \ {s}
          /\ next.best = best
      BY <1>1, <2>7 DEF h, s
    <3>2. next.left \subseteq From(h)
      BY <2>1, <3>1 DEF Scored, h
    <3>3. \A t \in then, x \in next.left : t < x
      <4> SUFFICES ASSUME NEW t \in then, NEW x \in next.left PROVE t < x
        OBVIOUS
      <4>1. x \in q.left /\ x # s /\ s <= x
        BY <1>3, <3>1
      <4>2. t = s \/ t \in done
        BY <2>2
      <4>3. t \in done => t < x
        BY <2>1, <4>1 DEF Scored, h
      <4>4. s \in Nat /\ x \in Nat
        BY <1>2, <1>3, <4>1, CircuitsAssumption
      <4> QED BY <4>1, <4>2, <4>3, <4>4
    <3> HIDE DEF next
    <3>4. then = From(h) \ next.left /\ then # {}
      BY <2>5, <3>1
    <3> HIDE DEF then
    <3> QED BY <2>5, <3>1, <3>2, <3>3, <3>4 DEF PickAt, Scored
  <2> QED BY <2>6, <2>7
<1> HIDE DEF next
<1>6. PICK n : n = next
  OBVIOUS
<1>7. r \in calm' => PickAt(n)'
  BY <1>4, <1>5, <1>6, PickUnmoved
<1> QED BY <1>4, <1>6, <1>7, PickStepKeeps

\* A Pick during which nobody else changes a slot takes the first of the best,
\* for all its separate reads and the marks it takes away.
THEOREM UndisturbedPickIsBest == Spec => []PickIsBest
<1>1. Init => PickInv
  BY DEF Init, PickInv
<1>2. TypeOK /\ PickInv /\ [Next]_vars => PickInv'
  <2> SUFFICES ASSUME TypeOK, PickInv, [Next]_vars PROVE PickInv'
    OBVIOUS
  <2>0. calm \subseteq Request
    BY DEF TypeOK
  <2>1. CASE calm' = {}
    BY <2>1 DEF PickInv
  <2>2. CASE UNCHANGED <<slot, req, calm>>
    <3> SUFFICES ASSUME NEW x \in calm' PROVE PickAt(req[x])'
      BY DEF PickInv
    <3>1. PICK q : q = req[x]
      OBVIOUS
    <3>2. PickAt(q)'
      BY <2>2, <3>1, PickUnmoved DEF PickInv
    <3> QED BY <2>2, <3>1, <3>2 DEF PickAt, Scanned, Resetting, Scored
  <2>3. CASE \E actor \in {"install", "time"} : Watch(actor) /\ req' = req
    <3>1. calm' = {} \/ UNCHANGED <<slot, req, calm>>
      BY <2>0, <2>3, CircuitsAssumption DEF Watch
    <3> QED BY <2>1, <2>2, <3>1
  <2>4. ASSUME NEW r \in Request, NEW h \in Host, Begin(r, h) PROVE PickInv'
    <3>1. PICK n : n = [at |-> "scan", host |-> h, left |-> Slot, allowed |-> {}, live |-> {}]
      OBVIOUS
    <3>2. slot' = slot /\ calm' = calm \cup {r} /\ req' = [req EXCEPT ![r] = n]
      BY <2>4, <3>1 DEF Begin
    <3>3. PickAt(n)'
      BY <3>1 DEF PickAt, Scanned, Allowed, Live
    <3> QED BY <3>2, <3>3, PickStepKeeps
  <2>5. ASSUME NEW r \in Request, PickStep(r) PROVE PickInv'
    BY <2>5, ScanKeepsPick, ResetKeepsPick, ScoreKeepsPick DEF PickStep
  <2>6. ASSUME NEW r \in Request, Refused(r) \/ Dial(r) \/ DialFails(r) PROVE PickInv'
    <3>1. PICK n : req' = [req EXCEPT ![r] = n]
      BY <2>6 DEF Refused, Dial, DialFails
    <3>2. calm' = {} \/ (calm' = calm \ {r} /\ slot' = slot)
      BY <2>6 DEF Refused, Dial, DialFails
    <3> QED BY <3>1, <3>2, <2>1, PickStepKeeps
  <2>7. ASSUME NEW r \in Request, Answered(r) \/ Silent(r) \/ Unused(r) PROVE PickInv'
    <3>1. req' = [req EXCEPT ![r] = Idle]
      BY <2>7 DEF Answered, Silent, Unused
    <3>2. calm' \subseteq calm /\ (calm' \subseteq {r} \/ slot' = slot)
      BY <2>7 DEF Answered, Silent, Unused, Watch
    <3>3. PickAt(Idle)'
      BY DEF PickAt, Idle
    <3>4. PICK n : n = Idle
      OBVIOUS
    <3>5. PickAt(n)'
      BY <3>3, <3>4
    <3> QED BY <3>1, <3>2, <3>4, <3>5, PickStepKeeps
  <2>8. \/ UNCHANGED <<slot, req, calm>>
        \/ \E actor \in {"install", "time"} : Watch(actor) /\ req' = req
        \/ \E r \in Request, h \in Host : Begin(r, h)
        \/ \E r \in Request : PickStep(r) \/ Refused(r) \/ Dial(r) \/ DialFails(r)
                              \/ Answered(r) \/ Silent(r) \/ Unused(r)
    BY DEF Next, vars, InstallStep, ConnectStep, FinishStep, Rotate, Remove, Add, Drop,
           Installed, Expire
  <2> QED BY <2>2, <2>3, <2>4, <2>5, <2>6, <2>7, <2>8
<1>3. TypeOK /\ PickInv => PickIsBest
  <2> SUFFICES ASSUME TypeOK, PickInv, NEW r \in calm, req[r].at = "picked"
               PROVE  req[r].slot = Best(req[r].host)
    BY DEF PickIsBest
  <2>1. req[r] \in RequestState
    BY DEF TypeOK
  <2>2. req[r].host \in Host
    BY <2>1 DEF RequestState, Idle
  <2>3. Leads(req[r].slot, From(req[r].host), req[r].host)
    BY DEF PickInv, PickAt
  <2> QED BY <2>2, <2>3, LeaderIsBest
<1> QED BY <1>1, <1>2, <1>3, TypeCorrect, PTL DEF Spec
============================================================================
