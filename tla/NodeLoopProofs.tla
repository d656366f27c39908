--------------------------- MODULE NodeLoopProofs ---------------------------
(***************************************************************************)
(* What NodeLoop promises, for any directories, addresses, descriptors and *)
(* grace period: a settled node stays settled although nothing guards      *)
(* c.PublicIP, because whatever its goroutines put there is one and the    *)
(* same address; and the peers are those that a quorum, so an honest       *)
(* directory, listed.                                                      *)
(***************************************************************************)
EXTENDS NodeLoop, FiniteSetTheorems, TLAPS

----------------------------------------------------------------------------
\* Types.

\* An access yields what is meant or a garbled string.
LEMMA MixedText ==
    ASSUME NEW d, NEW v \in Text
    PROVE  Mixed(d, v) \subseteq Text
BY DEF Mixed, Text

\* A goroutine that does not run is a goroutine.
LEMMA NotRunningWorker == NotRunning \in Worker
BY DEF NotRunning, Worker, Text, Refused

\* The goroutine that starts with the address ip, for the first or second time.
LEMMA StartedWorker ==
    ASSUME NEW ip \in Text, NEW k \in {0, 1}
    PROVE  [NotRunning EXCEPT !.stage = "enter", !.attempt = k, !.ip = ip] \in Worker
BY DEF NotRunning, Worker, Text, Refused

\* The steps inside the closure.
LEMMA EnterTypes ==
    ASSUME TypeOK, NEW d \in Directory, Enter(d)
    PROVE  worker' \in [Directory -> Worker]
<1>1. PICK v \in Mixed(d, publicIP) :
        worker' = [worker EXCEPT ![d].stage = "write", ![d].saved = v]
  BY DEF Enter
<1>2. v \in Text
  BY <1>1, MixedText DEF TypeOK
<1>3. worker \in [Directory -> Worker]
  BY DEF TypeOK
<1> QED BY <1>1, <1>2, <1>3 DEF Worker

LEMMA SignTypes ==
    ASSUME TypeOK, NEW d \in Directory, Sign(d)
    PROVE  worker' \in [Directory -> Worker]
<1>1. PICK v \in Mixed(d, publicIP) :
        worker' = [worker EXCEPT ![d].stage = "restore", ![d].signed = v]
  BY DEF Sign
<1>2. v \in Text
  BY <1>1, MixedText DEF TypeOK
<1>3. worker \in [Directory -> Worker]
  BY DEF TypeOK
<1> QED BY <1>1, <1>2, <1>3 DEF Worker

LEMMA RestoreTypes ==
    ASSUME TypeOK, NEW d \in Directory, Restore(d)
    PROVE  worker' \in [Directory -> Worker] /\ publicIP' \in Text
<1>1. worker[d] \in Worker /\ worker \in [Directory -> Worker]
  BY DEF TypeOK
<1>2. worker[d].attempt \in {0, 1} /\ worker[d].signed \in Text /\ worker[d].saved \in Text
  BY <1>1 DEF Worker
<1>3. [NotRunning EXCEPT !.stage = "post", !.attempt = worker[d].attempt,
                         !.signed = worker[d].signed] \in Worker
  BY <1>2 DEF NotRunning, Worker, Text, Refused
<1>4. publicIP' \in Text
  BY <1>2, MixedText DEF Restore
<1> QED BY <1>1, <1>3, <1>4 DEF Restore

\* An answer, with the addresses a goroutine may end with.
LEMMA FinishTypes ==
    ASSUME TypeOK, NEW d \in Directory, NEW r \in Address \cup {Refused}, Finish(d, r)
    PROVE  worker' \in [Directory -> Worker]
<1>1. [NotRunning EXCEPT !.result = r] \in Worker
  BY DEF NotRunning, Worker, Text
<1> QED BY <1>1 DEF Finish, TypeOK

LEMMA MismatchTypes ==
    ASSUME TypeOK, NEW d \in Directory, Mismatch(d)
    PROVE  worker' \in [Directory -> Worker]
<1>1. CASE worker[d].attempt = 0
  <2>1. view[d] \in Text
    BY DEF TypeOK, Text
  <2>2. [NotRunning EXCEPT !.stage = "enter", !.attempt = 1, !.ip = view[d]] \in Worker
    BY <2>1, StartedWorker
  <2> QED BY <1>1, <2>2 DEF Mismatch, TypeOK
<1>2. CASE worker[d].attempt # 0
  BY <1>2, FinishTypes DEF Mismatch
<1> QED BY <1>1, <1>2

\* What is observed is an address that a directory accepted, or none.
LEMMA ObservedAddress ==
    ASSUME TypeOK
    PROVE  \A a \in Observed : a \in Address \cup {NoAddress}
<1>1. \A d \in Directory : worker[d].result \in Address \cup {Refused}
  BY DEF TypeOK, Worker
<1> QED BY <1>1 DEF Observed, Refused

\* Ticks stay between none and the grace period.
LEMMA LeftTypes ==
    ASSUME NEW left \in [Endpoint -> 0..Grace]
    PROVE  /\ Lapse(left) \in [Endpoint -> 0..Grace]
           /\ \A ends : Extended(left, ends) \in [Endpoint -> 0..Grace]
<1>1. Grace \in Nat
  BY NodeLoopAssumption
<1>2. \A e \in Endpoint : left[e] \in 0..Grace
  OBVIOUS
<1>3. Lapse(left) \in [Endpoint -> 0..Grace]
  <2>1. \A k \in 0..Grace : (IF k > 0 THEN k - 1 ELSE 0) \in 0..Grace
    BY <1>1
  <2> QED BY <1>2, <2>1 DEF Lapse
<1>4. \A ends : Extended(left, ends) \in [Endpoint -> 0..Grace]
  BY <1>1, <1>2 DEF Extended
<1> QED BY <1>3, <1>4

\* Every variable keeps its type; only addresses that a directory saw are saved.
THEOREM TypeCorrect == Spec => []TypeOK
<1>1. Init => TypeOK
  <2> SUFFICES ASSUME Init PROVE TypeOK
    OBVIOUS
  <2>1. worker \in [Directory -> Worker]
    BY NotRunningWorker DEF Init
  <2>2. NobodyLeft \in [Endpoint -> 0..Grace]
    BY NodeLoopAssumption DEF NobodyLeft
  <2>3. events \in 0..MaxEvents
    BY NodeLoopAssumption DEF Init
  <2> QED BY <2>1, <2>2, <2>3 DEF Init, TypeOK, Text
<1>2. TypeOK /\ [Next]_vars => TypeOK'
  <2> SUFFICES ASSUME TypeOK, [Next]_vars PROVE TypeOK'
    OBVIOUS
  <2> USE DEF envVars, peerVars
  <2>1. ASSUME NEW d \in Directory, Enter(d) PROVE TypeOK'
    BY <2>1, EnterTypes DEF Enter, TypeOK
  <2>2. ASSUME NEW d \in Directory, Write(d) PROVE TypeOK'
    <3>1. worker \in [Directory -> Worker] /\ worker[d] \in Worker
      BY DEF TypeOK
    <3>2. publicIP' \in Text
      BY <2>2, <3>1, MixedText DEF Write, Worker
    <3>3. worker' \in [Directory -> Worker]
      BY <2>2, <3>1 DEF Write, Worker
    <3> QED BY <2>2, <3>2, <3>3 DEF Write, TypeOK
  <2>3. ASSUME NEW d \in Directory, Sign(d) PROVE TypeOK'
    BY <2>3, SignTypes DEF Sign, TypeOK
  <2>4. ASSUME NEW d \in Directory, Restore(d) PROVE TypeOK'
    BY <2>4, RestoreTypes DEF Restore, TypeOK
  <2>5. ASSUME NEW d \in Directory, Accepted(d) PROVE TypeOK'
    <3>1. view[d] \in Address
      BY DEF TypeOK
    <3> QED BY <2>5, <3>1, FinishTypes DEF Accepted, TypeOK
  <2>6. ASSUME NEW d \in Directory, Mismatch(d) PROVE TypeOK'
    BY <2>6, MismatchTypes DEF Mismatch, TypeOK
  <2>7. ASSUME NEW d \in Directory, Fail(d) PROVE TypeOK'
    BY <2>7, FinishTypes DEF Fail, TypeOK
  <2>8. CASE Register
    <3>1. publicIP \in Text
      BY DEF TypeOK
    <3>2. [NotRunning EXCEPT !.stage = "enter", !.ip = publicIP] \in Worker
      BY <3>1 DEF NotRunning, Worker, Text, Refused
    <3>3. worker' \in [Directory -> Worker] /\ settled' \in BOOLEAN
      BY <2>8, <3>2 DEF Register
    <3> QED BY <2>8, <3>3 DEF Register, TypeOK
  <2>9. CASE Remember
    <3>1. worker' \in [Directory -> Worker]
      BY <2>9, NotRunningWorker DEF Remember
    <3>2. publicIP' \in Text /\ file' \in Address \cup {NoAddress}
      BY <2>9, ObservedAddress DEF Remember, TypeOK, Text
    <3> QED BY <2>9, <3>1, <3>2 DEF Remember, TypeOK
  <2>10. ASSUME NEW answer \in Answer, Fetch(answer) PROVE TypeOK'
    <3>1. /\ seen' \in [Endpoint -> 0..Grace] /\ policy' \in [Endpoint -> 0..Grace]
          /\ backed' \in [Endpoint -> 0..Grace] /\ confirmed' \in [Endpoint -> 0..Grace]
      BY <2>10, LeftTypes DEF Fetch, TypeOK, Updated
    <3> QED BY <2>10, <3>1 DEF Fetch, TypeOK
  <2>11. CASE Tick
    <3>1. /\ seen' \in [Endpoint -> 0..Grace] /\ policy' \in [Endpoint -> 0..Grace]
          /\ backed' \in [Endpoint -> 0..Grace] /\ confirmed' \in [Endpoint -> 0..Grace]
      BY <2>11, LeftTypes DEF Tick, TypeOK
    <3> QED BY <2>11, <3>1 DEF Tick, TypeOK, addressVars
  <2>12. ASSUME NEW d \in Directory, NEW a \in Address, Renumber(d, a) PROVE TypeOK'
    <3>1. events' \in 0..MaxEvents
      BY <2>12, NodeLoopAssumption DEF Renumber, TypeOK
    <3> QED BY <2>12, <3>1 DEF Renumber, TypeOK
  <2>13. CASE Restart
    <3>1. events' \in 0..MaxEvents
      BY <2>13, NodeLoopAssumption DEF Restart, TypeOK
    <3>2. NobodyLeft \in [Endpoint -> 0..Grace]
      BY NodeLoopAssumption DEF NobodyLeft
    <3>3. worker' \in [Directory -> Worker]
      BY <2>13, NotRunningWorker DEF Restart
    <3> QED BY <2>13, <3>1, <3>2, <3>3 DEF Restart, TypeOK, Text
  <2>14. CASE UNCHANGED vars
    BY <2>14 DEF vars, addressVars, TypeOK
  <2> QED BY <2>1, <2>2, <2>3, <2>4, <2>5, <2>6, <2>7, <2>8, <2>9, <2>10, <2>11, <2>12,
             <2>13, <2>14 DEF Next
<1> QED BY <1>1, <1>2, PTL DEF Spec

----------------------------------------------------------------------------
\* A settled node.

\* All that the goroutine of d holds is the address c.PublicIP holds.
OneAddress(d) ==
    /\ publicIP = view[d] /\ worker[d].attempt = 0
    /\ worker[d].stage \in {"enter", "write", "sign", "restore"} => worker[d].ip = publicIP
    /\ worker[d].stage \in {"write", "sign", "restore"} => worker[d].saved = publicIP
    /\ worker[d].stage \in {"restore", "post"} => worker[d].signed = publicIP
    /\ worker[d].result \in {Refused, publicIP}

SettledInv == settled => \A d \in Directory : OneAddress(d)

\* Accesses that overlap do no harm where every string is the same.
LEMMA NothingGarbled ==
    ASSUME \A e \in Directory : OneAddress(e), NEW d \in Directory
    PROVE  Mixed(d, publicIP) = {publicIP}
BY DEF Mixed, Inside, OneAddress

\* The steps of one goroutine inside the closure leave every goroutine with
\* the one address.
LEMMA ClosureSettled ==
    ASSUME TypeOK, \A e \in Directory : OneAddress(e), NEW d \in Directory,
           Enter(d) \/ Write(d) \/ Sign(d) \/ Restore(d)
    PROVE  \A e \in Directory : OneAddress(e)'
<1>0. worker \in [Directory -> Worker] /\ worker[d] \in Worker
  BY DEF TypeOK
<1>1. OneAddress(d) /\ Mixed(d, publicIP) = {publicIP}
  BY NothingGarbled
<1>2. CASE Enter(d)
  <2>1. /\ worker' = [worker EXCEPT ![d].stage = "write", ![d].saved = publicIP]
        /\ worker[d].stage = "enter"
        /\ publicIP' = publicIP /\ view' = view
    BY <1>1, <1>2 DEF Enter, envVars
  <2>2. OneAddress(d)'
    BY <1>0, <1>1, <2>1 DEF OneAddress, Worker
  <2>3. \A e \in Directory \ {d} : worker'[e] = worker[e]
    BY <1>0, <2>1
  <2> QED BY <2>1, <2>2, <2>3 DEF OneAddress
<1>3. CASE Write(d)
  <2>1. /\ worker' = [worker EXCEPT ![d].stage = "sign"]
        /\ worker[d].stage = "write"
        /\ publicIP' = publicIP /\ view' = view
    BY <1>1, <1>3 DEF Write, envVars, OneAddress
  <2>2. OneAddress(d)'
    BY <1>0, <1>1, <2>1 DEF OneAddress, Worker
  <2>3. \A e \in Directory \ {d} : worker'[e] = worker[e]
    BY <1>0, <2>1
  <2> QED BY <2>1, <2>2, <2>3 DEF OneAddress
<1>4. CASE Sign(d)
  <2>1. /\ worker' = [worker EXCEPT ![d].stage = "restore", ![d].signed = publicIP]
        /\ worker[d].stage = "sign"
        /\ publicIP' = publicIP /\ view' = view
    BY <1>1, <1>4 DEF Sign, envVars
  <2>2. OneAddress(d)'
    BY <1>0, <1>1, <2>1 DEF OneAddress, Worker
  <2>3. \A e \in Directory \ {d} : worker'[e] = worker[e]
    BY <1>0, <2>1
  <2> QED BY <2>1, <2>2, <2>3 DEF OneAddress
<1>5. CASE Restore(d)
  <2>1. /\ worker' = [worker EXCEPT ![d] = [NotRunning EXCEPT !.stage = "post",
                          !.attempt = worker[d].attempt, !.signed = worker[d].signed]]
        /\ worker[d].stage = "restore"
        /\ publicIP' = publicIP /\ view' = view
    BY <1>1, <1>5 DEF Restore, envVars, OneAddress
  <2>2. OneAddress(d)'
    BY <1>0, <1>1, <2>1 DEF OneAddress, NotRunning, Refused
  <2>3. \A e \in Directory \ {d} : worker'[e] = worker[e]
    BY <1>0, <2>1
  <2> QED BY <2>1, <2>2, <2>3 DEF OneAddress
<1> QED BY <1>2, <1>3, <1>4, <1>5

\* So do the answers: a settled goroutine is not told another address.
LEMMA AnswerSettled ==
    ASSUME TypeOK, \A e \in Directory : OneAddress(e), NEW d \in Directory,
           Accepted(d) \/ Mismatch(d) \/ Fail(d)
    PROVE  \A e \in Directory : OneAddress(e)'
<1>0. worker \in [Directory -> Worker] /\ OneAddress(d)
  BY DEF TypeOK
<1>1. worker[d].stage = "post" /\ worker[d].signed = view[d]
  BY <1>0 DEF OneAddress, Accepted, Mismatch, Fail
<1>2. PICK r \in {Refused, publicIP} :
        worker' = [worker EXCEPT ![d] = [NotRunning EXCEPT !.result = r]]
  BY <1>0, <1>1 DEF Accepted, Mismatch, Fail, Finish, OneAddress
<1>3. publicIP' = publicIP /\ view' = view
  BY DEF Accepted, Mismatch, Fail, envVars
<1>4. OneAddress(d)'
  BY <1>0, <1>2, <1>3 DEF OneAddress, NotRunning
<1>5. \A e \in Directory \ {d} : worker'[e] = worker[e]
  BY <1>0, <1>2
<1> QED BY <1>3, <1>4, <1>5 DEF OneAddress

\* The end of a round in which all directories that accepted the node saw it
\* at the address it has.
LEMMA RememberSettled ==
    ASSUME \A e \in Directory : OneAddress(e), Remember
    PROVE  \A e \in Directory : OneAddress(e)'
<1>1. \A a \in Observed : a \in {NoAddress, publicIP}
  BY DEF Observed, OneAddress, Refused
<1>2. publicIP' = publicIP /\ view' = view
  BY <1>1 DEF Remember, envVars
<1>3. \A e \in Directory : worker'[e] = NotRunning
  BY DEF Remember
<1> QED BY <1>2, <1>3 DEF OneAddress, NotRunning

\* A node that knows the address all directories see signs this address for
\* every one of them, although nothing guards the variable its goroutines swap
\* the address in, and knows it still when they are through.
THEOREM SettledNodeStays == Spec => []StaysSettled
<1>1. Init => SettledInv
  BY DEF Init, SettledInv
<1>2. TypeOK /\ SettledInv /\ [Next]_vars => SettledInv'
  <2> SUFFICES ASSUME TypeOK, SettledInv, [Next]_vars, settled' PROVE \A e \in Directory : OneAddress(e)'
    BY DEF SettledInv
  <2>1. ASSUME NEW d \in Directory, Enter(d) \/ Write(d) \/ Sign(d) \/ Restore(d)
        PROVE  \A e \in Directory : OneAddress(e)'
    <3>1. settled
      BY <2>1 DEF Enter, Write, Sign, Restore
    <3> QED BY <2>1, <3>1, ClosureSettled DEF SettledInv
  <2>2. ASSUME NEW d \in Directory, Accepted(d) \/ Mismatch(d) \/ Fail(d)
        PROVE  \A e \in Directory : OneAddress(e)'
    <3>1. settled
      BY <2>2 DEF Accepted, Mismatch, Fail
    <3> QED BY <2>2, <3>1, AnswerSettled DEF SettledInv
  <2>3. CASE Register
    <3>1. publicIP' = publicIP /\ view' = view /\ \A d \in Directory : view[d] = publicIP
      BY <2>3 DEF Register, envVars
    <3>2. \A d \in Directory : worker'[d] = [NotRunning EXCEPT !.stage = "enter", !.ip = publicIP]
      BY <2>3 DEF Register
    <3> QED BY <3>1, <3>2 DEF OneAddress, NotRunning
  <2>4. CASE Remember
    <3>1. settled
      BY <2>4 DEF Remember
    <3> QED BY <2>4, <3>1, RememberSettled DEF SettledInv
  <2>5. CASE UNCHANGED <<publicIP, worker, view, settled>>
    BY <2>5 DEF SettledInv, OneAddress
  <2>6. ASSUME NEW answer \in Answer, Fetch(answer)
        PROVE  UNCHANGED <<publicIP, worker, view, settled>>
    BY <2>6 DEF Fetch, envVars
  <2>7. CASE Tick
    BY <2>5, <2>7 DEF Tick, addressVars, envVars
  <2>8. ASSUME NEW d \in Directory, NEW a \in Address, Renumber(d, a) PROVE FALSE
    BY <2>8 DEF Renumber
  <2>9. CASE Restart
    BY <2>9 DEF Restart
  <2>10. CASE UNCHANGED vars
    BY <2>5, <2>10 DEF vars, addressVars, envVars
  <2> QED BY <2>1, <2>2, <2>3, <2>4, <2>5, <2>6, <2>7, <2>8, <2>9, <2>10 DEF Next
<1>3. SettledInv => StaysSettled
  BY DEF SettledInv, OneAddress, StaysSettled
<1> QED BY <1>1, <1>2, <1>3, TypeCorrect, PTL DEF Spec

----------------------------------------------------------------------------
\* The peers.

\* With fewer liars than the quorum a result holds only nodes that an honest
\* directory listed.
LEMMA ResultBacked ==
    ASSUME NEW answer \in Answer, Cardinality(Directory \ Honest) < Quorum
    PROVE  Peers(Result(answer)) \subseteq Backed(answer)
<1>1. SUFFICES ASSUME NEW n \in Result(answer)
               PROVE  Votes(answer, n.id) \cap Honest # {}
  BY DEF Peers, Backed, Result
<1>2. Votes(answer, n.id) \subseteq Directory
  BY DEF Votes, Answer
<1>3. IsFiniteSet(Directory \ Honest)
  BY NodeLoopAssumption, FS_Subset
<1>4. CASE Votes(answer, n.id) \subseteq Directory \ Honest
  <2>1. Cardinality(Votes(answer, n.id)) <= Cardinality(Directory \ Honest)
    BY <1>3, <1>4, FS_Subset
  <2>2. Cardinality(Votes(answer, n.id)) \in Nat /\ Cardinality(Directory \ Honest) \in Nat
    BY <1>3, <1>4, FS_Subset, FS_CardinalityType
  <2>3. Quorum \in Nat
    BY NodeLoopAssumption, FS_CardinalityType
  <2>4. Quorum <= Cardinality(Votes(answer, n.id))
    BY DEF Result
  <2> QED BY <2>1, <2>2, <2>3, <2>4
<1> QED BY <1>2, <1>4

\* Of two counts, the smaller stays so, extended or not, as time passes.
Below(f, g) == \A e \in Endpoint : f[e] <= g[e]

LEMMA BelowLapse ==
    ASSUME NEW f \in [Endpoint -> 0..Grace], NEW g \in [Endpoint -> 0..Grace], Below(f, g)
    PROVE  Below(Lapse(f), Lapse(g))
<1>1. \A i, j \in 0..Grace : i <= j =>
        (IF i > 0 THEN i - 1 ELSE 0) <= (IF j > 0 THEN j - 1 ELSE 0)
  BY NodeLoopAssumption
<1>2. \A e \in Endpoint : f[e] \in 0..Grace /\ g[e] \in 0..Grace
  OBVIOUS
<1> QED BY <1>1, <1>2 DEF Below, Lapse

LEMMA BelowExtended ==
    ASSUME NEW f \in [Endpoint -> 0..Grace], NEW g \in [Endpoint -> 0..Grace], Below(f, g),
           NEW few, NEW many, few \subseteq many
    PROVE  Below(Extended(f, few), Extended(g, many))
<1>1. \A e \in Endpoint : f[e] \in 0..Grace /\ g[e] \in 0..Grace /\ f[e] <= g[e]
  BY DEF Below
<1> QED BY <1>1, NodeLoopAssumption DEF Below, Extended

\* The dialer has what update made, which is no less than results confirmed
\* and, while liars are few, no more than honest directories backed.
PeerInv ==
    /\ policy = seen
    /\ Below(confirmed, policy)
    /\ Cardinality(Directory \ Honest) < Quorum => Below(policy, backed)

LEMMA PeerInvHolds == Spec => []PeerInv
<1>1. Init => PeerInv
  BY DEF Init, PeerInv, Below, NobodyLeft
<1>2. TypeOK /\ PeerInv /\ [Next]_vars => PeerInv'
  <2> SUFFICES ASSUME TypeOK, PeerInv, [Next]_vars PROVE PeerInv'
    OBVIOUS
  <2>1. CASE UNCHANGED peerVars
    BY <2>1 DEF peerVars, PeerInv, Below
  <2>2. ASSUME NEW d \in Directory, WorkerStep(d) PROVE UNCHANGED peerVars
    BY <2>2 DEF WorkerStep, Enter, Write, Sign, Restore, Accepted, Mismatch, Fail
  <2>3. ASSUME Register \/ Remember PROVE UNCHANGED peerVars
    BY <2>3 DEF Register, Remember
  <2>4. ASSUME NEW answer \in Answer, Fetch(answer) PROVE PeerInv'
    <3>1. CASE UNCHANGED peerVars
      BY <2>1, <3>1
    <3>2. CASE /\ seen' = Updated(Result(answer)) /\ policy' = seen'
               /\ confirmed' = Extended(confirmed, Peers(Result(answer)))
               /\ backed' = Extended(backed, Backed(answer))
      <4>1. policy' = Extended(policy, Peers(Result(answer))) /\ policy' = seen'
        BY <3>2 DEF Updated, PeerInv
      <4>2. Below(confirmed', policy')
        BY <3>2, <4>1, BelowExtended DEF TypeOK, PeerInv
      <4>3. Cardinality(Directory \ Honest) < Quorum => Below(policy', backed')
        BY <3>2, <4>1, BelowExtended, ResultBacked DEF TypeOK, PeerInv
      <4> QED BY <4>1, <4>2, <4>3 DEF PeerInv, Below
    <3> QED BY <2>4, <3>1, <3>2 DEF Fetch
  <2>5. CASE Tick
    <3>1. /\ seen' = Lapse(seen) /\ policy' = Lapse(policy)
          /\ backed' = Lapse(backed) /\ confirmed' = Lapse(confirmed)
      BY <2>5 DEF Tick
    <3>2. Below(confirmed', policy')
      BY <3>1, BelowLapse DEF TypeOK, PeerInv
    <3>3. Cardinality(Directory \ Honest) < Quorum => Below(policy', backed')
      BY <3>1, BelowLapse DEF TypeOK, PeerInv
    <3> QED BY <3>1, <3>2, <3>3 DEF PeerInv, Below
  <2>6. ASSUME NEW d \in Directory, NEW a \in Address, Renumber(d, a) PROVE UNCHANGED peerVars
    BY <2>6 DEF Renumber
  <2>7. CASE Restart
    <3>1. \A e \in Endpoint : backed[e] \in Nat
      BY NodeLoopAssumption DEF TypeOK
    <3> QED BY <2>7, <3>1 DEF Restart, PeerInv, Below, NobodyLeft
  <2>8. CASE UNCHANGED vars
    BY <2>1, <2>8 DEF vars
  <2> QED BY <2>1, <2>2, <2>3, <2>4, <2>5, <2>6, <2>7, <2>8 DEF Next, WorkerStep
<1> QED BY <1>1, <1>2, TypeCorrect, PTL DEF Spec

\* With fewer liars than the quorum the core connects to no endpoint but those
\* of nodes that an honest directory listed within the grace period.
THEOREM PeersStayBacked == Spec => []PeersBacked
<1>1. TypeOK /\ PeerInv => PeersBacked
  <2> SUFFICES ASSUME TypeOK, PeerInv, Cardinality(Directory \ Honest) < Quorum,
                      NEW e \in Endpoint, Permits(e)
               PROVE  backed[e] > 0
    BY DEF PeersBacked
  <2>1. policy[e] \in 0..Grace /\ backed[e] \in 0..Grace /\ policy[e] > 0 /\ policy[e] <= backed[e]
    BY DEF TypeOK, PeerInv, Below, Permits
  <2> QED BY <2>1, NodeLoopAssumption
<1> QED BY <1>1, TypeCorrect, PeerInvHolds, PTL

\* A peer that a result named stays allowed for the grace period, through
\* results without it and rounds without a quorum.
THEOREM GraceAlwaysHolds == Spec => []GraceHolds
<1>1. TypeOK /\ PeerInv => GraceHolds
  <2> SUFFICES ASSUME TypeOK, PeerInv, NEW e \in Endpoint, confirmed[e] > 0
               PROVE  Permits(e)
    BY DEF GraceHolds
  <2>1. policy[e] \in 0..Grace /\ confirmed[e] \in 0..Grace /\ confirmed[e] <= policy[e]
    BY DEF TypeOK, PeerInv, Below
  <2> QED BY <2>1, NodeLoopAssumption DEF Permits
<1> QED BY <1>1, TypeCorrect, PeerInvHolds, PTL
============================================================================
