---------------------- MODULE TransparencyLogProofs ----------------------
(***************************************************************************)
(* The transparency log for any leaves, callers and readers, and the       *)
(* verifiers beside it.                                                    *)
(*                                                                         *)
(* When saves succeed the log implements AppendOnlyLog.  The mapping needs *)
(* two facts that are not in the abstract state (LogInv): the file equals  *)
(* the log, so a restart is a stutter, and a head taken earlier in a       *)
(* document is that of a prefix of the log as it has become since.         *)
(*                                                                         *)
(* Documents verify also when saves fail (DocInv): one is built at a time, *)
(* and between its three calls nobody else appends.  Consistency answers   *)
(* are built without a lock around them, so the log may grow in between;   *)
(* AnswerInv says that what was taken from a prefix stays true of it.      *)
(*                                                                         *)
(* What the verifiers accept is in MerkleTreeProofs; here it is applied to *)
(* the verifier of MCMerkleTree (VerifierInv).                             *)
(***************************************************************************)
EXTENDS MCTransparencyLog, MerkleTreeProofs, TLAPS

----------------------------------------------------------------------------
\* The head h is that of some prefix of the log.
PrefixHead(h) == \E n \in 0..Len(leaves) : h = HeadOf(First(leaves, n))

\* The inductive invariant behind the refinement.
LogInv ==
    /\ leaves \in Seq(Leaf)
    /\ disk = leaves
    /\ \A c \in Caller :
         /\ caller[c].stage = "append" => caller[c].leaf \in Leaf
         /\ caller[c].stage \in {"proof", "served"} => PrefixHead(caller[c].head)
    /\ DOMAIN caller = Caller

\* A prefix of the log is one of the log with a leaf appended.
LEMMA FirstOfAppend ==
    ASSUME NEW S, NEW s \in Seq(S), NEW l \in S, NEW n \in 0..Len(s)
    PROVE  /\ n \in 0..Len(Append(s, l))
           /\ First(Append(s, l), n) = First(s, n)
<1>1. Append(s, l) \in Seq(S) /\ Len(Append(s, l)) = Len(s) + 1
  OBVIOUS
<1>2. \A i \in 1..n : Append(s, l)[i] = s[i]
  OBVIOUS
<1>3. First(Append(s, l), n) = First(s, n)
  BY <1>1, <1>2 DEF First
<1> QED BY <1>1, <1>3

\* The whole log is a prefix of itself.
LEMMA FirstWhole ==
    ASSUME NEW S, NEW s \in Seq(S)
    PROVE  First(s, Len(s)) = s /\ Len(s) \in 0..Len(s)
BY DEF First

----------------------------------------------------------------------------
\* The invariant holds.

\* Heads of the log stay heads of the log when it grows or stands still.
LEMMA PrefixHeadStays ==
    ASSUME leaves \in Seq(Leaf), NEW h, PrefixHead(h),
           leaves' = leaves \/ \E l \in Leaf : leaves' = Append(leaves, l)
    PROVE  PrefixHead(h)'
<1>1. PICK n \in 0..Len(leaves) : h = HeadOf(First(leaves, n))
  BY DEF PrefixHead
<1>2. n \in 0..Len(leaves') /\ First(leaves', n) = First(leaves, n)
  <2>1. CASE leaves' = leaves
    BY <2>1
  <2>2. ASSUME NEW l \in Leaf, leaves' = Append(leaves, l)
        PROVE  n \in 0..Len(leaves') /\ First(leaves', n) = First(leaves, n)
    BY <2>2, FirstOfAppend
  <2> QED BY <2>1, <2>2
<1> QED BY <1>1, <1>2 DEF PrefixHead

\* Every step keeps LogInv, unless a save fails.
LEMMA LogStep ==
    ASSUME ~DiskFaults, LogInv, [Next]_tvars
    PROVE  LogInv'
<1> DEFINE HeadOK(c) == /\ caller[c].stage = "append" => caller[c].leaf \in Leaf
                        /\ caller[c].stage \in {"proof", "served"} => PrefixHead(caller[c].head)
<1>a. \A c \in Caller : HeadOK(c)
  BY DEF LogInv
\* A step of one caller leaves the others as they were.
<1>b. ASSUME NEW c \in Caller, NEW v, caller' = [caller EXCEPT ![c] = v],
             leaves' = leaves \/ \E l \in Leaf : leaves' = Append(leaves, l),
             v.stage = "append" => v.leaf \in Leaf,
             v.stage \in {"proof", "served"} => PrefixHead(v.head)'
      PROVE  (\A d \in Caller : HeadOK(d)') /\ DOMAIN caller' = Caller
  <2>1. ASSUME NEW d \in Caller PROVE HeadOK(d)'
    <3>1. CASE d = c
      BY <1>b, <3>1 DEF LogInv
    <3>2. CASE d # c
      <4>1. caller'[d] = caller[d]
        BY <1>b, <3>2
      <4> QED BY <1>a, <1>b, <4>1, PrefixHeadStays DEF LogInv
    <3> QED BY <3>1, <3>2
  <2> QED BY <1>b, <2>1 DEF LogInv
<1>1. ASSUME NEW c \in Caller, NEW l \in Served, Begin(c, l) PROVE LogInv'
  <2>1. (\A d \in Caller : HeadOK(d)') /\ DOMAIN caller' = Caller
    BY <1>1, <1>b, ServedAssumption DEF Begin
  <2>2. leaves' = leaves /\ disk' = disk
    BY <1>1 DEF Begin
  <2> QED BY <2>1, <2>2 DEF LogInv
<1>2. ASSUME NEW c \in Caller, AppendLeaf(c) PROVE LogInv'
  <2>1. caller[c].leaf \in Leaf
    BY <1>2, <1>a DEF AppendLeaf
  <2>2. leaves' = leaves \/ leaves' = Append(leaves, caller[c].leaf)
    BY <1>2 DEF AppendLeaf
  <2>3. disk' = leaves'
    <3>1. Save(leaves') \/ UNCHANGED <<leaves, disk>>
      BY <1>2 DEF AppendLeaf
    <3> QED BY <3>1 DEF Save, LogInv
  <2>4. leaves' \in Seq(Leaf)
    <3>1. leaves \in Seq(Leaf)
      BY DEF LogInv
    <3> QED BY <2>1, <2>2, <3>1
  <2>5. (\A d \in Caller : HeadOK(d)') /\ DOMAIN caller' = Caller
    BY <1>2, <1>b, <2>1, <2>2 DEF AppendLeaf
  <2> QED BY <2>3, <2>4, <2>5 DEF LogInv
<1>3. ASSUME NEW c \in Caller, TakeHead(c) PROVE LogInv'
  <2>1. PrefixHead(HeadOf(leaves))'
    BY <1>3, FirstWhole DEF TakeHead, LogInv, PrefixHead
  <2>2. (\A d \in Caller : HeadOK(d)') /\ DOMAIN caller' = Caller
    BY <1>3, <1>b, <2>1 DEF TakeHead
  <2> QED BY <1>3, <2>2 DEF TakeHead, LogInv
<1>4. ASSUME NEW c \in Caller, Prove(c) PROVE LogInv'
  <2>1. PICK h : h = caller[c].head
    OBVIOUS
  <2>2. PrefixHead(h)'
    BY <1>4, <1>a, <2>1, PrefixHeadStays DEF Prove, LogInv
  <2>3. PICK v : v = [stage |-> "served", leaf |-> caller[c].leaf,
                      index |-> caller[c].index, head |-> h,
                      proof |-> InclusionPath(caller[c].index, leaves)]
    OBVIOUS
  <2>4. v.stage = "served" /\ v.head = h
    BY <2>3
  <2>5. caller' = [caller EXCEPT ![c] = v] /\ leaves' = leaves /\ disk' = disk
    BY <1>4, <2>1, <2>3 DEF Prove
  <2>6. (\A d \in Caller : HeadOK(d)') /\ DOMAIN caller' = Caller
    BY <1>b, <2>2, <2>4, <2>5
  <2> QED BY <2>5, <2>6 DEF LogInv
<1>5. ASSUME NEW c \in Caller, Finish(c) PROVE LogInv'
  <2>1. (\A d \in Caller : HeadOK(d)') /\ DOMAIN caller' = Caller
    BY <1>5, <1>b DEF Finish, Free
  <2> QED BY <1>5, <2>1 DEF Finish, LogInv
<1>6. CASE UNCHANGED <<leaves, disk, caller>>
  BY <1>6 DEF LogInv, PrefixHead
<1>7. CASE Restart
  BY <1>7 DEF Restart, LogInv, Free
<1> QED BY <1>1, <1>2, <1>3, <1>4, <1>5, <1>6, <1>7
        DEF Next, ShowHead, Ask, Path, RootAt, Answer, tvars

\* The invariant holds in every state of a log whose saves succeed.
LEMMA LogInvHolds == ~DiskFaults => (Spec => []LogInv)
<1>1. Init => LogInv
  BY DEF Init, LogInv, Free
<1>2. ASSUME ~DiskFaults PROVE LogInv /\ [Next]_tvars => LogInv'
  BY <1>2, LogStep
<1>3. ASSUME ~DiskFaults PROVE Spec => []LogInv
  BY <1>1, <1>2, <1>3, PTL DEF Spec
<1> QED BY <1>3

----------------------------------------------------------------------------
\* The refinement.

\* A step that shows a head of the log to somebody is Show.
LEMMA ShowStep ==
    ASSUME NEW h, PrefixHead(h), issued' = issued \cup {h}, leaves' = leaves
    PROVE  Promise!Next
<1>1. PICK n \in 0..Len(leaves) : h = HeadOf(First(leaves, n))
  BY DEF PrefixHead
<1>2. h = Promise!HeadOf(SubSeq(leaves, 1, n))
  BY <1>1 DEF HeadOf, Promise!HeadOf, First
<1>3. Promise!Show(n)
  BY <1>2 DEF Promise!Show
<1> QED BY <1>3 DEF Promise!Next

\* Every step of the log is a step of AppendOnlyLog or changes nothing it sees.
LEMMA RefinesStep ==
    ASSUME ~DiskFaults, LogInv, [Next]_tvars
    PROVE  [Promise!Next]_(Promise!logVars)
<1>1. ASSUME NEW c \in Caller, AppendLeaf(c) PROVE [Promise!Next]_(Promise!logVars)
  <2>1. CASE leaves' = leaves
    BY <1>1, <2>1 DEF AppendLeaf, Promise!logVars
  <2>2. CASE leaves' # leaves
    <3>1. /\ ~Contains(leaves, caller[c].leaf)
          /\ leaves' = Append(leaves, caller[c].leaf)
          /\ caller[c].leaf \in Leaf
          /\ issued' = issued
      BY <1>1, <2>2 DEF AppendLeaf, LogInv
    <3>2. \A i \in 1..Len(leaves) : leaves[i] # caller[c].leaf
      BY <3>1 DEF Contains
    <3>3. Promise!Grow(caller[c].leaf)
      BY <3>1, <3>2 DEF Promise!Grow
    <3> QED BY <3>1, <3>3 DEF Promise!Next
  <2> QED BY <2>1, <2>2
<1>2. ASSUME NEW c \in Caller, Prove(c) PROVE [Promise!Next]_(Promise!logVars)
  <2>1. PrefixHead(caller[c].head)
    BY <1>2 DEF Prove, LogInv
  <2>2. issued' = issued \cup {caller[c].head} /\ leaves' = leaves
    BY <1>2 DEF Prove
  <2> QED BY <2>1, <2>2, ShowStep
<1>3. CASE ShowHead
  <2>1. PrefixHead(HeadOf(leaves))
    BY FirstWhole DEF LogInv, PrefixHead
  <2>2. issued' = issued \cup {HeadOf(leaves)} /\ leaves' = leaves
    BY <1>3 DEF ShowHead
  <2> QED BY <2>1, <2>2, ShowStep
<1>4. CASE UNCHANGED <<leaves, issued>>
  BY <1>4 DEF Promise!logVars
<1>5. CASE Restart
  BY <1>5 DEF Restart, LogInv, Promise!logVars
<1> QED BY <1>1, <1>2, <1>3, <1>4, <1>5
        DEF Next, Begin, TakeHead, Finish, Ask, Path, RootAt, Answer, tvars

\* TransparencyLog: if every save succeeds, the log with its documents, heads,
\* consistency answers and restarts implements an append-only log.
THEOREM LogRefinesPromise == ~DiskFaults => (Spec => OnlyGrows)
<1>1. Init => Promise!Init
  BY DEF Init, Promise!Init
<1>2. ASSUME ~DiskFaults
      PROVE  LogInv /\ [Next]_tvars => [Promise!Next]_(Promise!logVars)
  BY <1>2, RefinesStep
<1>3. ASSUME ~DiskFaults PROVE Spec => OnlyGrows
  BY <1>1, <1>2, <1>3, LogInvHolds, PTL DEF Spec, OnlyGrows, Promise!Spec
<1> QED BY <1>3

----------------------------------------------------------------------------
\* The documents, also when saves fail.  Documents are built one at a time, so the
\* log does not change between the head a document carries and its proof.

\* What a caller knows is in the log.
Logged(v) == v.index \in 0..Len(leaves) - 1 /\ leaves[v.index + 1] = v.leaf

\* A document under construction, stage by stage.
CallerOK(v) ==
    /\ v.stage = "append" => v.leaf \in Leaf
    /\ v.stage = "head" => Logged(v)
    /\ v.stage = "proof" => Logged(v) /\ v.head = HeadOf(leaves)
    /\ v.stage = "served" =>
          VerifyInclusion(v.leaf, v.index, v.head.size, v.proof, v.head.root)

\* The inductive invariant behind ProofsVerify.
DocInv ==
    /\ leaves \in Seq(Leaf) /\ disk \in Seq(Leaf)
    /\ DOMAIN caller = Caller
    /\ \A c, d \in Caller : caller[c] # Free /\ caller[d] # Free => c = d
    /\ \A c \in Caller : CallerOK(caller[c])

\* A step of the one document under construction.
LEMMA DocumentBuilds ==
    ASSUME DocInv, NEW c \in Caller, NEW v, caller' = [caller EXCEPT ![c] = v],
           \A d \in Caller : d # c => caller[d] = Free,
           CallerOK(v)', leaves' \in Seq(Leaf), disk' \in Seq(Leaf)
    PROVE  DocInv'
<1>1. DOMAIN caller' = Caller
  BY DEF DocInv
<1>2. caller'[c] = v /\ \A d \in Caller : d # c => caller'[d] = Free
  BY DEF DocInv
<1>3. ASSUME NEW d \in Caller PROVE CallerOK(caller[d])'
  <2>1. CASE d = c
    BY <1>2, <2>1
  <2>2. CASE d # c
    <3>1. caller'[d].stage = "idle"
      BY <1>2, <2>2 DEF Free
    <3> QED BY <3>1 DEF CallerOK
  <2> QED BY <2>1, <2>2
<1> QED BY <1>1, <1>2, <1>3 DEF DocInv

\* Append finds the leaf where it is, or where it put it.
LEMMA AppendFinds ==
    ASSUME leaves \in Seq(Leaf), NEW l \in Leaf,
           \/ leaves' = leaves /\ Contains(leaves, l)
           \/ leaves' = Append(leaves, l)
    PROVE  /\ leaves' \in Seq(Leaf)
           /\ \E i \in 1..Len(leaves') : leaves'[i] = l
<1>1. CASE leaves' = leaves /\ Contains(leaves, l)
  BY <1>1 DEF Contains
<1>2. CASE leaves' = Append(leaves, l)
  <2>1. leaves' \in Seq(Leaf) /\ Len(leaves') = Len(leaves) + 1
    BY <1>2
  <2>2. Len(leaves) + 1 \in 1..Len(leaves') /\ leaves'[Len(leaves) + 1] = l
    BY <1>2, <2>1
  <2> QED BY <2>1, <2>2
<1> QED BY <1>1, <1>2

\* Every step keeps DocInv.
LEMMA DocStep ==
    ASSUME DocInv, [Next]_tvars
    PROVE  DocInv'
<1>1. ASSUME NEW c \in Caller, caller[c].stage # "idle", NEW d \in Caller, d # c
      PROVE  caller[d] = Free
  BY <1>1 DEF DocInv, Free
<1>2. ASSUME NEW c \in Caller, NEW l \in Served, Begin(c, l) PROVE DocInv'
  <2>1. PICK v : v = [stage |-> "append", leaf |-> l]
    OBVIOUS
  <2>2. CallerOK(v)'
    BY <2>1, ServedAssumption DEF CallerOK
  <2>3. \A d \in Caller : d # c => caller[d] = Free
    BY <1>2 DEF Begin
  <2>4. caller' = [caller EXCEPT ![c] = v] /\ leaves' = leaves /\ disk' = disk
    BY <1>2, <2>1 DEF Begin
  <2>5. leaves' \in Seq(Leaf) /\ disk' \in Seq(Leaf)
    BY <2>4 DEF DocInv
  <2> QED BY <2>2, <2>3, <2>4, <2>5, DocumentBuilds
<1>3. ASSUME NEW c \in Caller, AppendLeaf(c) PROVE DocInv'
  <2>1. PICK l : l = caller[c].leaf /\ l \in Leaf
    BY <1>3 DEF AppendLeaf, DocInv, CallerOK
  <2>2. /\ \/ leaves' = leaves /\ Contains(leaves, l)
           \/ leaves' = Append(leaves, l)
        /\ disk' = leaves' \/ disk' = disk
    BY <1>3, <2>1 DEF AppendLeaf, Save
  <2>3. leaves' \in Seq(Leaf) /\ \E i \in 1..Len(leaves') : leaves'[i] = l
    BY <2>1, <2>2, AppendFinds DEF DocInv
  <2>4. PICK i : i = (CHOOSE j \in 1..Len(leaves') : leaves'[j] = l)
    OBVIOUS
  <2>5. i \in 1..Len(leaves') /\ leaves'[i] = l
    BY <2>3, <2>4
  <2>6. PICK v : v = [stage |-> "head", leaf |-> l, index |-> i - 1]
    OBVIOUS
  <2>7. CallerOK(v)'
    <3>1. v.index \in 0..Len(leaves') - 1 /\ v.index + 1 = i /\ v.leaf = l
      BY <2>3, <2>5, <2>6
    <3> QED BY <2>5, <2>6, <3>1 DEF CallerOK, Logged
  <2>8. caller' = [caller EXCEPT ![c] = v]
    BY <1>3, <2>1, <2>4, <2>6 DEF AppendLeaf
  <2>9. \A d \in Caller : d # c => caller[d] = Free
    BY <1>1, <1>3 DEF AppendLeaf
  <2>10. disk' \in Seq(Leaf)
    BY <2>2, <2>3 DEF DocInv
  <2> QED BY <2>3, <2>7, <2>8, <2>9, <2>10, DocumentBuilds
<1>4. ASSUME NEW c \in Caller, TakeHead(c) PROVE DocInv'
  <2>1. PICK l, i : l = caller[c].leaf /\ i = caller[c].index
    OBVIOUS
  <2>2. i \in 0..Len(leaves) - 1 /\ leaves[i + 1] = l
    BY <1>4, <2>1 DEF TakeHead, DocInv, CallerOK, Logged
  <2>3. PICK v : v = [stage |-> "proof", leaf |-> l, index |-> i, head |-> HeadOf(leaves)]
    OBVIOUS
  <2>4. caller' = [caller EXCEPT ![c] = v] /\ leaves' = leaves /\ disk' = disk
    BY <1>4, <2>1, <2>3 DEF TakeHead
  <2>5. CallerOK(v)'
    BY <2>2, <2>3, <2>4 DEF CallerOK, Logged, HeadOf
  <2>6. \A d \in Caller : d # c => caller[d] = Free
    BY <1>1, <1>4 DEF TakeHead
  <2> QED BY <2>4, <2>5, <2>6, DocumentBuilds DEF DocInv
<1>5. ASSUME NEW c \in Caller, Prove(c) PROVE DocInv'
  <2>1. PICK l, i, h : l = caller[c].leaf /\ i = caller[c].index /\ h = caller[c].head
    OBVIOUS
  <2>2. i \in 0..Len(leaves) - 1 /\ leaves[i + 1] = l /\ h = HeadOf(leaves)
    BY <1>5, <2>1 DEF Prove, DocInv, CallerOK, Logged
  <2>3. PICK v : v = [stage |-> "served", leaf |-> l, index |-> i, head |-> h,
                      proof |-> InclusionPath(i, leaves)]
    OBVIOUS
  <2>4. caller' = [caller EXCEPT ![c] = v] /\ leaves' = leaves /\ disk' = disk
    BY <1>5, <2>1, <2>3 DEF Prove
  <2>5. VerifyInclusion(l, i, h.size, InclusionPath(i, leaves), h.root)
    <3>1. leaves \in Seq(Leaf)
      BY DEF DocInv
    <3>2. h.size = Len(leaves) /\ h.root = TreeHash[leaves]
      BY <2>2 DEF HeadOf
    <3> QED BY <2>2, <3>1, <3>2, InclusionComplete
  <2>6. CallerOK(v)'
    BY <2>3, <2>5 DEF CallerOK
  <2>7. \A d \in Caller : d # c => caller[d] = Free
    BY <1>1, <1>5 DEF Prove
  <2> QED BY <2>4, <2>6, <2>7, DocumentBuilds DEF DocInv
<1>6. ASSUME NEW c \in Caller, Finish(c) PROVE DocInv'
  <2>1. CallerOK(Free)'
    BY DEF CallerOK, Free
  <2>2. caller' = [caller EXCEPT ![c] = Free] /\ leaves' = leaves /\ disk' = disk
    BY <1>6 DEF Finish
  <2>3. \A d \in Caller : d # c => caller[d] = Free
    BY <1>1, <1>6 DEF Finish
  <2> QED BY <2>1, <2>2, <2>3, DocumentBuilds DEF DocInv
<1>7. CASE UNCHANGED <<leaves, disk, caller>>
  BY <1>7 DEF DocInv, CallerOK, Logged
<1>8. CASE Restart
  <2>1. \A c \in Caller : caller'[c] = Free /\ CallerOK(caller[c])'
    BY <1>8 DEF Restart, CallerOK, Free
  <2> QED BY <1>8, <2>1 DEF Restart, DocInv
<1> QED BY <1>2, <1>3, <1>4, <1>5, <1>6, <1>7, <1>8
        DEF Next, ShowHead, Ask, Path, RootAt, Answer, tvars

\* logProof: for any leaves, callers and readers, with failing saves and restarts,
\* every document that goes out proves its set of nodes under the head it carries.
THEOREM ProofsAlwaysVerify == Spec => []ProofsVerify
<1>1. Init => DocInv
  BY DEF Init, DocInv, CallerOK, Free
<1>2. DocInv /\ [Next]_tvars => DocInv'
  BY DocStep
<1>3. DocInv => ProofsVerify
  BY DEF DocInv, CallerOK, ProofsVerify
<1> QED BY <1>1, <1>2, <1>3, PTL DEF Spec

----------------------------------------------------------------------------
\* The heads given out and the consistency answers, when saves succeed.

\* ConsistencyProofBetween.
PathFor(m, n) == IF m = 0 \/ m = n THEN <<>> ELSE ConsistencyPath(m, First(leaves, n))

\* An answer under construction, stage by stage: it is about the first v.second leaves,
\* which the log does not change.
ReaderOK(v) ==
    /\ v.stage \in {"path", "root", "served"} =>
          v.first \in Nat /\ v.second \in Nat /\ v.first <= v.second
    /\ v.stage \in {"root", "served"} =>
          v.second <= Len(leaves) /\ v.path = PathFor(v.first, v.second)
    /\ v.stage = "served" => v.root = TreeHash[First(leaves, v.second)]

\* With LogInv, the inductive invariant behind AnswersVerify and HeadsStayProvable.
AnswerInv ==
    /\ \A h \in issued : PrefixHead(h)
    /\ DOMAIN reader = Reader
    /\ \A r \in Reader : ReaderOK(reader[r])

\* When saves succeed, the log only grows, by one leaf at a time.
LEMMA LeavesGrow ==
    ASSUME ~DiskFaults, LogInv, [Next]_tvars
    PROVE  leaves' = leaves \/ \E l \in Leaf : leaves' = Append(leaves, l)
<1>1. ASSUME NEW c \in Caller, AppendLeaf(c)
      PROVE  leaves' = leaves \/ \E l \in Leaf : leaves' = Append(leaves, l)
  BY <1>1 DEF AppendLeaf, LogInv
<1>2. CASE Restart
  BY <1>2 DEF Restart, LogInv
<1> QED BY <1>1, <1>2
        DEF Next, Begin, TakeHead, Prove, Finish, ShowHead, Ask, Path, RootAt, Answer, tvars

\* What an answer is about stays in the log.
LEMMA ReaderStays ==
    ASSUME leaves \in Seq(Leaf), NEW v, ReaderOK(v),
           leaves' = leaves \/ \E l \in Leaf : leaves' = Append(leaves, l)
    PROVE  ReaderOK(v)'
<1>1. CASE v.stage \in {"root", "served"}
  <2>1. PICK n : n = v.second /\ n \in 0..Len(leaves)
    BY <1>1 DEF ReaderOK
  <2>2. n \in 0..Len(leaves') /\ First(leaves', n) = First(leaves, n)
    <3>1. CASE leaves' = leaves
      BY <2>1, <3>1
    <3>2. ASSUME NEW l \in Leaf, leaves' = Append(leaves, l)
          PROVE  n \in 0..Len(leaves') /\ First(leaves', n) = First(leaves, n)
      BY <2>1, <3>2, FirstOfAppend
    <3> QED BY <3>1, <3>2
  <2> QED BY <1>1, <2>1, <2>2 DEF ReaderOK, PathFor
<1>2. CASE v.stage \notin {"root", "served"}
  BY <1>2 DEF ReaderOK
<1> QED BY <1>1, <1>2

\* A step of one answer, which leaves the log and its heads as they are.
LEMMA AnswerBuilds ==
    ASSUME LogInv, AnswerInv, NEW r \in Reader, NEW v, reader' = [reader EXCEPT ![r] = v],
           ReaderOK(v), leaves' = leaves, issued' = issued
    PROVE  AnswerInv'
<1>1. leaves \in Seq(Leaf)
  BY DEF LogInv
<1>2. ASSUME NEW h \in issued' PROVE PrefixHead(h)'
  BY <1>1, <1>2, PrefixHeadStays DEF AnswerInv
<1>3. ASSUME NEW q \in Reader PROVE ReaderOK(reader[q])'
  <2>1. ReaderOK(reader'[q])
    BY DEF AnswerInv
  <2> QED BY <1>1, <2>1, ReaderStays
<1> QED BY <1>2, <1>3 DEF AnswerInv

\* Every step keeps AnswerInv.
LEMMA AnswerStep ==
    ASSUME ~DiskFaults, LogInv, AnswerInv, [Next]_tvars
    PROVE  AnswerInv'
<1>1. leaves \in Seq(Leaf) /\ PrefixHead(HeadOf(leaves))
  BY FirstWhole DEF LogInv, PrefixHead
<1>2. leaves' = leaves \/ \E l \in Leaf : leaves' = Append(leaves, l)
  BY LeavesGrow
\* A step that shows a head, or none, and leaves the answers alone.
<1>3. ASSUME NEW h, PrefixHead(h), issued' \subseteq issued \cup {h}, reader' = reader
      PROVE  AnswerInv'
  <2>1. ASSUME NEW g \in issued' PROVE PrefixHead(g)'
    <3>1. PrefixHead(g)
      BY <1>3, <2>1 DEF AnswerInv
    <3> QED BY <1>1, <1>2, <3>1, PrefixHeadStays
  <2>2. ASSUME NEW r \in Reader PROVE ReaderOK(reader[r])'
    <3>1. ReaderOK(reader'[r])
      BY <1>3 DEF AnswerInv
    <3> QED BY <1>1, <1>2, <3>1, ReaderStays
  <2> QED BY <1>3, <2>1, <2>2 DEF AnswerInv
<1>4. ASSUME NEW c \in Caller, Prove(c) PROVE AnswerInv'
  <2>1. PrefixHead(caller[c].head)
    BY <1>4 DEF Prove, LogInv
  <2> QED BY <1>3, <1>4, <2>1 DEF Prove
<1>5. CASE UNCHANGED <<reader, issued>>
  BY <1>1, <1>3, <1>5
<1>6. CASE ShowHead
  BY <1>1, <1>3, <1>6 DEF ShowHead
<1>7. ASSUME NEW r \in Reader, NEW n \in 0..Len(leaves), NEW m \in 0..n, Ask(r, m, n)
      PROVE  AnswerInv'
  <2>1. PICK v : v = [stage |-> "path", first |-> m, second |-> n]
    OBVIOUS
  <2>2. reader' = [reader EXCEPT ![r] = v] /\ leaves' = leaves /\ issued' = issued
    BY <1>7, <2>1 DEF Ask
  <2>3. ReaderOK(v)
    BY <2>1 DEF ReaderOK
  <2> QED BY <2>2, <2>3, AnswerBuilds
<1>8. ASSUME NEW r \in Reader, Path(r) PROVE AnswerInv'
  <2>1. PICK m, n : m = reader[r].first /\ n = reader[r].second
    OBVIOUS
  <2>2. m \in Nat /\ n \in Nat /\ m <= n
    BY <1>8, <2>1 DEF Path, AnswerInv, ReaderOK
  <2>3. CASE n > Len(leaves)
    <3>1. reader' = [reader EXCEPT ![r] = Free] /\ leaves' = leaves /\ issued' = issued
      BY <1>8, <2>1, <2>3 DEF Path
    <3>2. ReaderOK(Free)
      BY DEF ReaderOK, Free
    <3> QED BY <3>1, <3>2, AnswerBuilds
  <2>4. CASE n <= Len(leaves)
    <3>1. PICK v : v = [stage |-> "root", first |-> m, second |-> n, path |-> PathFor(m, n)]
      OBVIOUS
    <3>2. ~(m > n \/ n > Len(leaves))
      BY <1>1, <2>2, <2>4
    <3>3. reader' = [reader EXCEPT ![r] = [stage |-> "root", first |-> m, second |-> n,
                                           path |-> PathFor(m, n)]]
      BY <1>8, <2>1, <3>2, Zenon DEF Path, PathFor
    <3>4. leaves' = leaves /\ issued' = issued
      BY <1>8 DEF Path
    <3>5. ReaderOK(v)
      BY <2>2, <2>4, <3>1 DEF ReaderOK
    <3> QED BY <3>1, <3>3, <3>4, <3>5, AnswerBuilds
  <2> QED BY <1>1, <2>2, <2>3, <2>4
<1>9. ASSUME NEW r \in Reader, RootAt(r) PROVE AnswerInv'
  <2>1. PICK m, n, p : m = reader[r].first /\ n = reader[r].second /\ p = reader[r].path
    OBVIOUS
  <2>2. m \in Nat /\ n \in Nat /\ m <= n /\ n <= Len(leaves) /\ p = PathFor(m, n)
    BY <1>9, <2>1 DEF RootAt, AnswerInv, ReaderOK
  <2>3. PICK v : v = [stage |-> "served", first |-> m, second |-> n, path |-> p,
                      root |-> TreeHash[First(leaves, n)]]
    OBVIOUS
  <2>4. reader' = [reader EXCEPT ![r] = v] /\ leaves' = leaves /\ issued' = issued
    BY <1>9, <2>1, <2>3 DEF RootAt
  <2>5. ReaderOK(v)
    BY <2>2, <2>3 DEF ReaderOK
  <2> QED BY <2>4, <2>5, AnswerBuilds
<1>10. ASSUME NEW r \in Reader, Answer(r) PROVE AnswerInv'
  <2>1. ReaderOK(Free)
    BY DEF ReaderOK, Free
  <2> QED BY <1>10, <2>1, AnswerBuilds DEF Answer
<1>11. CASE Restart
  <2>1. \A r \in Reader : ReaderOK(reader[r])'
    BY <1>11 DEF Restart, ReaderOK, Free
  <2>2. leaves' = leaves /\ issued' = issued /\ DOMAIN reader' = Reader
    BY <1>11 DEF Restart, LogInv
  <2>3. ASSUME NEW h \in issued' PROVE PrefixHead(h)'
    BY <1>1, <2>2, <2>3, PrefixHeadStays DEF AnswerInv
  <2> QED BY <2>1, <2>2, <2>3 DEF AnswerInv
<1> QED BY <1>4, <1>5, <1>6, <1>7, <1>8, <1>9, <1>10, <1>11
        DEF Next, Begin, AppendLeaf, TakeHead, Finish, tvars

\* A head of the log, given out at any time, and a later size of it: the path between
\* them is accepted.
LEMMA PathVerifies ==
    ASSUME leaves \in Seq(Leaf), NEW h, PrefixHead(h),
           NEW n \in Nat, h.size <= n, n <= Len(leaves)
    PROVE  VerifyConsistency(h.size, n, PathFor(h.size, n), h.root,
                             TreeHash[First(leaves, n)])
<1>1. PICK k \in 0..Len(leaves) : h = HeadOf(First(leaves, k))
  BY DEF PrefixHead
<1>2. Len(First(leaves, k)) = k
  BY <1>1 DEF First
<1>3. h.size = k /\ h.root = TreeHash[First(leaves, k)] /\ k \in Nat /\ k <= n
  BY <1>1, <1>2 DEF HeadOf
<1>4. CASE k = 0 \/ k = n
  BY <1>3, <1>4 DEF PathFor, VerifyConsistency
<1>5. CASE 0 < k /\ k < n
  <2>1. PICK s : s = First(leaves, n)
    OBVIOUS
  <2>2. s \in Seq(Leaf) /\ Len(s) = n
    BY <1>5, <2>1, Halves
  <2>3. First(s, k) = First(leaves, k)
    BY <1>3, <1>5, <2>1, FirstOfFirst
  <2>4. VerifyConsistency(k, Len(s), ConsistencyPath(k, s), TreeHash[First(s, k)], TreeHash[s])
    BY <1>5, <2>2, ConsistencyComplete
  <2>5. PathFor(k, n) = ConsistencyPath(k, s)
    BY <1>5, <2>1 DEF PathFor
  <2> QED BY <1>3, <2>1, <2>2, <2>3, <2>4, <2>5
<1> QED BY <1>3, <1>4, <1>5

\* The invariants hold in every state of a log whose saves succeed.
LEMMA AnswerInvHolds == ~DiskFaults => (Spec => [](LogInv /\ AnswerInv))
<1>1. Init => AnswerInv
  BY DEF Init, AnswerInv, ReaderOK, Free
<1>2. ASSUME ~DiskFaults PROVE LogInv /\ AnswerInv /\ [Next]_tvars => AnswerInv'
  BY <1>2, AnswerStep
<1>3. ASSUME ~DiskFaults PROVE Spec => [](LogInv /\ AnswerInv)
  BY <1>1, <1>2, <1>3, LogInvHolds, PTL DEF Spec
<1> QED BY <1>3

\* dirServer.consistency: if every save succeeds, an answer built over three calls
\* links every head of the first size that was ever given out to the second size.
THEOREM AnswersAlwaysVerify == ~DiskFaults => (Spec => []AnswersVerify)
<1>1. ASSUME LogInv, AnswerInv PROVE AnswersVerify
  <2> SUFFICES ASSUME NEW r \in Reader, reader[r].stage = "served",
                      NEW h \in issued, h.size = reader[r].first
               PROVE  VerifyConsistency(h.size, reader[r].second, reader[r].path,
                                        h.root, reader[r].root)
    BY DEF AnswersVerify
  <2>1. PICK n \in Nat : n = reader[r].second
    BY <1>1 DEF AnswerInv, ReaderOK
  <2>2. /\ h.size <= n /\ n <= Len(leaves) /\ PrefixHead(h)
        /\ reader[r].path = PathFor(h.size, n)
        /\ reader[r].root = TreeHash[First(leaves, n)]
    BY <1>1, <2>1 DEF AnswerInv, ReaderOK
  <2> QED BY <1>1, <2>1, <2>2, PathVerifies DEF LogInv
<1>2. ASSUME ~DiskFaults PROVE Spec => []AnswersVerify
  BY <1>1, <1>2, AnswerInvHolds, PTL
<1> QED BY <1>2

\* GET /log/consistency: if every save succeeds, every head a client was ever given
\* can be linked to the log as it is now.
THEOREM HeadsAlwaysProvable == ~DiskFaults => (Spec => []HeadsStayProvable)
<1>1. ASSUME LogInv, AnswerInv PROVE HeadsStayProvable
  <2> SUFFICES ASSUME NEW h \in issued
               PROVE  /\ h.size <= Len(leaves)
                      /\ VerifyConsistency(h.size, Len(leaves),
                             IF h.size \in {0, Len(leaves)} THEN <<>>
                             ELSE ConsistencyPath(h.size, leaves),
                             h.root, TreeHash[leaves])
    BY DEF HeadsStayProvable
  <2>1. leaves \in Seq(Leaf) /\ PrefixHead(h)
    BY <1>1 DEF LogInv, AnswerInv
  <2>2. PICK n \in Nat : n = Len(leaves)
    BY <2>1
  <2>3. First(leaves, n) = leaves
    BY <2>1, <2>2, FirstWhole
  <2>4. h.size <= n
    <3>1. PICK k \in 0..Len(leaves) : h = HeadOf(First(leaves, k))
      BY <2>1 DEF PrefixHead
    <3>2. Len(First(leaves, k)) = k
      BY <2>1, <3>1 DEF First
    <3> QED BY <2>2, <3>1, <3>2 DEF HeadOf
  <2>5. VerifyConsistency(h.size, n, PathFor(h.size, n), h.root, TreeHash[First(leaves, n)])
    BY <2>1, <2>2, <2>4, PathVerifies
  <2>6. PathFor(h.size, n) = IF h.size \in {0, n} THEN <<>> ELSE ConsistencyPath(h.size, leaves)
    BY <2>3 DEF PathFor
  <2> QED BY <2>2, <2>3, <2>4, <2>5, <2>6
<1>2. ASSUME ~DiskFaults PROVE Spec => []HeadsStayProvable
  BY <1>1, <1>2, AnswerInvHolds, PTL
<1> QED BY <1>2

----------------------------------------------------------------------------
\* The verifiers against the logs and proofs of MCTransparencyLog, of any length.

\* The logs in use, and the hashes offered.
InUse == Honest \cup Rewritten \cup {<<>>}
Offered == UNION {Offers[s] : s \in InUse}

\* What the verifier holds.
VerifierInv ==
    /\ ours \in Honest \cup {<<>>} /\ ours \in Seq(Leaf)
    /\ theirs \in InUse /\ theirs \in Seq(Leaf)
    /\ proof \in Seq(Offered)

\* Honest logs are logs, and so are their prefixes.
LEMMA HonestLogs ==
    ASSUME NEW s \in Honest
    PROVE  /\ s \in Seq(Leaf)
           /\ \A m \in 1..Len(s) : /\ First(s, m) \in Honest
                                   /\ First(s, m) \in Seq(Leaf)
                                   /\ First(s, m) = First(Genuine, m)
<1>1. Genuine \in Seq(Leaf) /\ Len(Genuine) = 8
  BY GenuineAssumption DEF Genuine
<1>2. PICK n \in 1..MaxSize : s = First(Genuine, n)
  BY DEF Honest
<1>3. n \in 1..Len(Genuine) /\ MaxSize \in Nat
  BY <1>1, SizeAssumption
<1>4. s \in Seq(Leaf) /\ Len(s) = n
  BY <1>1, <1>2, <1>3, Halves
<1>5. ASSUME NEW m \in 1..Len(s)
      PROVE  /\ First(s, m) \in Honest /\ First(s, m) \in Seq(Leaf)
             /\ First(s, m) = First(Genuine, m)
  <2>1. First(s, m) = First(Genuine, m)
    BY <1>1, <1>2, <1>3, <1>4, FirstOfFirst
  <2>2. m \in 1..MaxSize
    BY <1>3, <1>4
  <2>3. First(s, m) \in Honest
    BY <2>1, <2>2 DEF Honest
  <2>4. First(s, m) \in Seq(Leaf)
    BY <1>4, Halves
  <2> QED BY <2>1, <2>3, <2>4
<1> QED BY <1>4, <1>5

\* Every step keeps VerifierInv.
LEMMA VerifierStep ==
    ASSUME VerifierInv, [MCNext]_<<tvars, mvars>>
    PROVE  VerifierInv'
<1>1. CASE UNCHANGED mvars
  BY <1>1 DEF VerifierInv, mvars
<1>2. CASE ours # <<>> /\ VerifierNext
  <2>1. ours \in Honest /\ ours \in Seq(Leaf)
    BY <1>2 DEF VerifierInv
  <2>2. ASSUME NEW m \in 1..Len(ours), NEW i \in 1..m, Remember(m, i) PROVE VerifierInv'
    <3>1. /\ First(ours, m) \in Honest /\ First(ours, m) \in Seq(Leaf)
          /\ First(ours, m) = First(Genuine, m)
      BY <2>1, HonestLogs
    <3>2. CASE theirs' = First(ours, m)
      BY <2>2, <3>1, <3>2 DEF Remember, VerifierInv, InUse
    <3>3. CASE theirs' = [First(ours, m) EXCEPT ![i] = Forged]
      <4>1. m \in 1..MaxChecked
        BY <2>1, <2>2, SizeAssumption DEF Remember
      <4>2. theirs' \in {[First(Genuine, m) EXCEPT ![j] = Forged] : j \in 1..m}
        BY <3>1, <3>3, Zenon
      <4>3. theirs' \in Rewritten
        <5>1. PICK x : x = theirs'
          OBVIOUS
        <5>2. \E n \in 1..MaxChecked :
                x \in {[First(Genuine, n) EXCEPT ![j] = Forged] : j \in 1..n}
          BY <4>1, <4>2, <5>1
        <5>3. x \in Rewritten
          BY <5>2, SMT DEF Rewritten
        <5> QED BY <5>1, <5>3
      <4>4. theirs' \in Seq(Leaf)
        <5>1. Forged \in Leaf /\ i \in 1..Len(First(ours, m))
          BY <2>1, GenuineAssumption, Halves
        <5> QED BY <3>1, <3>3, <5>1, ExceptSeq
      <4> QED BY <2>2, <4>3, <4>4 DEF Remember, VerifierInv, InUse
    <3> QED BY <2>2, <3>2, <3>3 DEF Remember
  <2>3. ASSUME NEW h \in Offers[ours] \cup Offers[theirs], Offer(h) PROVE VerifierInv'
    <3>1. h \in Offered
      BY <2>1, <2>3 DEF Offered, VerifierInv, InUse
    <3>2. proof' \in Seq(Offered)
      BY <2>3, <3>1 DEF Offer, VerifierInv
    <3> QED BY <2>3, <3>2 DEF Offer, VerifierInv
  <2>4. CASE Judge
    BY <2>4 DEF Judge, VerifierInv, InUse
  <2> QED BY <1>2, <2>2, <2>3, <2>4 DEF VerifierNext
<1> QED BY <1>1, <1>2 DEF MCNext

\* The verifier's state is what VerifierInv says.
LEMMA VerifierInvHolds == MCSpec => []VerifierInv
<1>1. MCInit => VerifierInv
  <2>1. CASE ours = <<>> /\ theirs = <<>> /\ proof = <<>>
    BY <2>1 DEF VerifierInv, InUse
  <2>2. CASE VerifierInit
    BY <2>2, HonestLogs DEF VerifierInit, VerifierInv, InUse
  <2> QED BY <2>1, <2>2 DEF MCInit
<1>2. VerifierInv /\ [MCNext]_<<tvars, mvars>> => VerifierInv'
  BY VerifierStep
<1> QED BY <1>1, <1>2, PTL DEF MCSpec

\* inclusionPath/VerifyInclusion: whatever the leaves, the path of every leaf is accepted
\* and no proof, however long, places a leaf where the log holds another one.
THEOREM InclusionStaysExact == MCSpec => []InclusionExact
<1>1. ASSUME VerifierInv PROVE InclusionExact
  <2> SUFFICES ASSUME NEW i \in 0..Len(ours) - 1
               PROVE  /\ VerifyInclusion(ours[i + 1], i, Len(ours), InclusionPath(i, ours),
                                          Root[ours])
                      /\ \A leaf \in Offers[ours] :
                           VerifyInclusion(leaf, i, Len(ours), proof, Root[ours])
                             => leaf = ours[i + 1]
    BY DEF InclusionExact
  <2>1. ours \in Seq(Leaf) /\ Root[ours] = TreeHash[ours]
    BY <1>1 DEF VerifierInv, Root
  <2>2. VerifyInclusion(ours[i + 1], i, Len(ours), InclusionPath(i, ours), Root[ours])
    BY <2>1, InclusionComplete
  <2>3. ASSUME NEW leaf \in Offers[ours],
               VerifyInclusion(leaf, i, Len(ours), proof, Root[ours])
        PROVE  leaf = ours[i + 1]
    <3>1. proof \in Seq(Offered)
      BY <1>1 DEF VerifierInv
    <3> QED BY <2>1, <2>3, <3>1, InclusionSound
  <2> QED BY <2>2, <2>3
<1> QED BY <1>1, VerifierInvHolds, PTL

\* consistencyPath/VerifyConsistency: whatever the leaves, the path from every earlier size
\* is accepted and no proof, however long, links a rewritten history to the present tree.
THEOREM ConsistencyStaysExact == MCSpec => []ConsistencyExact
<1>1. ASSUME VerifierInv PROVE ConsistencyExact
  <2>1. ours \in Seq(Leaf) /\ Root[ours] = TreeHash[ours]
    BY <1>1 DEF VerifierInv, Root
  <2>2. theirs \in Seq(Leaf) /\ Root[theirs] = TreeHash[theirs] /\ proof \in Seq(Offered)
    BY <1>1 DEF VerifierInv, InUse, Root
  <2>3. ASSUME NEW m \in 1..Len(ours)
        PROVE  VerifyConsistency(m, Len(ours), ConsistencyPath(m, ours),
                                 TreeHash[First(ours, m)], Root[ours])
    BY <2>1, ConsistencyComplete
  <2>4. ASSUME VerifyConsistency(Len(theirs), Len(ours), proof, Root[theirs], Root[ours])
        PROVE  IsPrefix(theirs, ours)
    BY <2>1, <2>2, <2>4, ConsistencySound
  <2> QED BY <2>3, <2>4 DEF ConsistencyExact
<1> QED BY <1>1, VerifierInvHolds, PTL
============================================================================
