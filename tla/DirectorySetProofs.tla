------------------------ MODULE DirectorySetProofs ------------------------
(***************************************************************************)
(* What DirectorySet promises, for any directories, quorum, logs and bad   *)
(* directories.  All of it rests on one fact about honest directories:     *)
(* every head of theirs that is anywhere, in the client, its file or       *)
(* another directory, is a prefix of their log, and two prefixes of one    *)
(* history never contradict each other.                                    *)
(***************************************************************************)
EXTENDS DirectorySet, FiniteSetTheorems, SequenceTheorems, WellFoundedInduction, TLAPS

HeadMap == [Directory -> Seq(Doc)]
StateRecord == [heads : HeadMap, cached : SUBSET Descriptor]
SeenHead == [dir : Directory, head : Seq(Doc)]
NoAnswer == [state : {"waiting", "down", "unproven", "refused", "rejected"}]
OkReport == [state : {"ok"}, doc : Doc, sth : Seq(Doc), witness : SUBSET SeenHead]

\* The types the proofs need, and which directories may be counted when.
WellFormed ==
    /\ quorum \in Quorums
    /\ log \in [Honest -> Seq(Doc)]
    /\ seen \in [Honest -> HeadMap]
    /\ heads \in HeadMap /\ relied \in HeadMap
    /\ st \in StateRecord /\ disk \in StateRecord
    /\ report \in [Directory -> NoAnswer \cup OkReport]
    /\ pc \in {"fetch", "build", "install"}
    /\ pool \subseteq Descriptor
    /\ fresh \subseteq Ok
    /\ pc = "fetch" => fresh = {} /\ pool = {}

----------------------------------------------------------------------------
\* Histories that begin one another.

\* One history begins another if they agree as far as the first one goes.
LEMMA PrefixMeans ==
    ASSUME NEW S, NEW s \in Seq(S), NEW t \in Seq(S)
    PROVE  IsPrefix(s, t) <=> /\ Len(s) <= Len(t)
                              /\ \A i \in 1..Len(s) : s[i] = t[i]
<1>1. Len(s) \in Nat /\ Len(t) \in Nat
  OBVIOUS
<1>2. ASSUME Len(s) <= Len(t)
      PROVE  /\ SubSeq(s, 1, Len(s)) = [i \in 1..Len(s) |-> s[i]]
             /\ SubSeq(t, 1, Len(s)) = [i \in 1..Len(s) |-> t[i]]
  BY <1>1, <1>2
<1> QED BY <1>1, <1>2 DEF IsPrefix

\* The relation is reflexive, with the empty history below all others.
LEMMA PrefixReflexive ==
    ASSUME NEW S, NEW s \in Seq(S)
    PROVE  IsPrefix(s, s) /\ IsPrefix(<<>>, s) /\ <<>> \in Seq(S)
<1>1. <<>> \in Seq(S) /\ Len(<<>>) = 0 /\ Len(s) \in Nat
  BY EmptySeq
<1>2. ASSUME NEW e \in Seq(S), Len(e) = 0 PROVE IsPrefix(e, s)
  <2>1. Len(e) <= Len(s) /\ \A i \in 1..Len(e) : e[i] = s[i]
    BY <1>1, <1>2
  <2> QED BY <2>1, PrefixMeans
<1>3. IsPrefix(s, s)
  BY <1>1, PrefixMeans
<1> QED BY <1>1, <1>2, <1>3

\* It is transitive.
LEMMA PrefixTransitive ==
    ASSUME NEW S, NEW s \in Seq(S), NEW t \in Seq(S), NEW u \in Seq(S),
           IsPrefix(s, t), IsPrefix(t, u)
    PROVE  IsPrefix(s, u)
<1>1. Len(s) \in Nat /\ Len(t) \in Nat /\ Len(u) \in Nat
  OBVIOUS
<1> QED BY <1>1, PrefixMeans

\* Of two histories that both begin a third one, the shorter begins the other.
LEMMA PrefixComparable ==
    ASSUME NEW S, NEW s \in Seq(S), NEW t \in Seq(S), NEW u \in Seq(S),
           IsPrefix(s, u), IsPrefix(t, u)
    PROVE  /\ Len(s) <= Len(t) => IsPrefix(s, t)
           /\ IsPrefix(s, t) \/ IsPrefix(t, s)
<1>1. Len(s) \in Nat /\ Len(t) \in Nat /\ Len(u) \in Nat
  OBVIOUS
<1> QED BY <1>1, PrefixMeans

\* A history begins the one it grows into.
LEMMA PrefixOfAppend ==
    ASSUME NEW S, NEW s \in Seq(S), NEW x \in S
    PROVE  Append(s, x) \in Seq(S) /\ IsPrefix(s, Append(s, x))
<1>1. /\ Append(s, x) \in Seq(S) /\ Len(Append(s, x)) = Len(s) + 1
      /\ \A i \in 1..Len(s) : Append(s, x)[i] = s[i]
  BY AppendProperties
<1>2. ASSUME NEW t \in Seq(S), Len(t) = Len(s) + 1,
             \A i \in 1..Len(s) : t[i] = s[i]
      PROVE  IsPrefix(s, t)
  <2>1. Len(s) \in Nat /\ Len(s) <= Len(t)
    BY <1>2
  <2> QED BY <1>2, <2>1, PrefixMeans
<1> QED BY <1>1, <1>2

\* The members of Prefixes(s) begin s.
LEMMA PrefixesMeans ==
    ASSUME NEW S, NEW s \in Seq(S), NEW t \in Prefixes(s)
    PROVE  t \in Seq(S) /\ IsPrefix(t, s)
<1>1. PICK l \in 0..Len(s) : t = SubSeq(s, 1, l)
  BY DEF Prefixes
<1>2. t \in Seq(S) /\ Len(t) = l /\ \A i \in 1..l : t[i] = s[i]
  BY <1>1, SubSeqProperties
<1>3. Len(s) \in Nat /\ Len(t) <= Len(s)
  BY <1>1, <1>2
<1>4. \A i \in 1..Len(t) : t[i] = s[i]
  BY <1>2
<1> QED BY <1>2, <1>3, <1>4, PrefixMeans

\* What is in a history is in every longer one.
LEMMA ContainsGrows ==
    ASSUME NEW S, NEW s \in Seq(S), NEW t \in Seq(S), IsPrefix(s, t),
           NEW x, Contains(s, x)
    PROVE  Contains(t, x) /\ x \in ToSet(t) /\ x \in S
<1>1. PICK i \in 1..Len(s) : s[i] = x
  BY DEF Contains
<1>2. Len(s) \in Nat /\ Len(t) \in Nat /\ DOMAIN t = 1..Len(t)
  OBVIOUS
<1>3. i \in 1..Len(t) /\ t[i] = x
  BY <1>1, <1>2, PrefixMeans
<1> QED BY <1>2, <1>3 DEF Contains, ToSet

----------------------------------------------------------------------------
\* Answers, and what a step of Fetch makes of them.

\* A counted answer has all the fields of one.
LEMMA OkFields ==
    ASSUME WellFormed, NEW d \in Ok
    PROVE  report[d] \in OkReport
BY DEF WellFormed, Ok, NoAnswer, OkReport

\* What is known of an answer; without a LogProof the head is empty.
LEMMA AnswerFields ==
    ASSUME WellFormed, NEW d \in Directory, NEW a \in Answers(d)
    PROVE  /\ a.doc \in Doc /\ a.sth \in Seq(Doc)
           /\ a.logged = FALSE => a.sth = <<>>
           /\ d \in Honest => /\ a.logged = TRUE
                              /\ IsPrefix(a.sth, log[d]) /\ Contains(a.sth, a.doc)
                              /\ Len(a.sth) >= Len(heads[d])
<1>1. CASE d \in Honest
  <2>1. log[d] \in Seq(Doc)
    BY <1>1 DEF WellFormed
  <2>2. /\ a.logged = TRUE /\ a.sth \in Prefixes(log[d])
        /\ Contains(a.sth, a.doc) /\ Len(a.sth) >= Len(heads[d])
    BY <1>1 DEF Answers
  <2>3. a.sth \in Seq(Doc) /\ IsPrefix(a.sth, log[d])
    BY <2>1, <2>2, PrefixesMeans
  <2>4. a.doc \in Doc
    BY <2>1, <2>2, <2>3, ContainsGrows
  <2> QED BY <2>2, <2>3, <2>4
<1>2. CASE d \notin Honest
  <2>1. /\ a.doc \in Doc
        /\ \/ a.logged = TRUE /\ a.sth \in Offered
           \/ a.logged = FALSE /\ a.sth = <<>>
    BY <1>2 DEF Answers
  <2>2. <<>> \in Seq(Doc) /\ Offered \subseteq Seq(Doc)
    BY EmptySeq, DirectoryAssumption
  <2> QED BY <1>2, <2>1, <2>2
<1> QED BY <1>1, <1>2

\* What is known of the heads a directory passes on: those of an honest one
\* were seen by a directory, or are of its log.
LEMMA WitnessFields ==
    ASSUME WellFormed, NEW d \in Directory, NEW w \in Witnessed(d)
    PROVE  /\ w \in SUBSET SeenHead
           /\ \A v \in w : v.dir \in Honest =>
                \/ d \in Honest /\ v.head = seen[d][v.dir]
                \/ v.head \in Prefixes(log[v.dir])
<1>1. CASE w = {}
  BY <1>1
<1>2. CASE d \in Honest /\ w # {}
  <2>1. w = {[dir |-> x, head |-> seen[d][x]] : x \in {y \in Directory : seen[d][y] # <<>>}}
    BY <1>2 DEF Witnessed
  <2>2. \A x \in Directory : seen[d][x] \in Seq(Doc)
    BY <1>2 DEF WellFormed, HeadMap
  <2> QED BY <1>2, <2>1, <2>2 DEF SeenHead
<1>3. CASE d \notin Honest /\ w # {}
  <2>1. PICK x \in Honest : \E p \in Prefixes(log[x]) \ {<<>>} : w = {[dir |-> x, head |-> p]}
    BY <1>3 DEF Witnessed
  <2>2. PICK p \in Prefixes(log[x]) : w = {[dir |-> x, head |-> p]}
    BY <2>1
  <2>3. p \in Seq(Doc) /\ x \in Directory
    BY <2>2, PrefixesMeans, DirectoryAssumption DEF WellFormed
  <2> QED BY <2>2, <2>3 DEF SeenHead
<1> QED BY <1>1, <1>2, <1>3

\* How fetchOne ends.
LEMMA FetchOutcome ==
    ASSUME WellFormed, NEW d \in Directory, FetchOne(d)
    PROVE  \/ /\ heads' = heads
              /\ \E why \in {"down", "unproven"} : report' = [report EXCEPT ![d] = Failed(why)]
           \/ \E a \in Answers(d) :
                /\ ~LogAccepted(heads[d], a) /\ heads' = heads
                /\ report' = [report EXCEPT ![d] = Failed("refused")]
           \/ \E a \in Answers(d), w \in Witnessed(d) :
                /\ LogAccepted(heads[d], a)
                /\ heads' = [heads EXCEPT ![d] = a.sth]
                /\ report' = [report EXCEPT ![d] = [state |-> "ok", doc |-> a.doc,
                                                    sth |-> a.sth, witness |-> w]]
<1>1. CASE /\ heads' = heads
           /\ \E why \in {"down", "unproven"} : report' = [report EXCEPT ![d] = Failed(why)]
  BY <1>1
<1>2. ASSUME NEW a \in Answers(d),
             IF LogAccepted(heads[d], a)
             THEN \E w \in Witnessed(d) :
                    /\ report' = [report EXCEPT ![d] = [state |-> "ok", doc |-> a.doc,
                                                        sth |-> a.sth, witness |-> w]]
                    /\ heads' = IF a.logged THEN [heads EXCEPT ![d] = a.sth] ELSE heads
             ELSE /\ report' = [report EXCEPT ![d] = Failed("refused")]
                  /\ UNCHANGED heads
      PROVE  \/ /\ ~LogAccepted(heads[d], a) /\ heads' = heads
                /\ report' = [report EXCEPT ![d] = Failed("refused")]
             \/ \E w \in Witnessed(d) :
                  /\ LogAccepted(heads[d], a)
                  /\ heads' = [heads EXCEPT ![d] = a.sth]
                  /\ report' = [report EXCEPT ![d] = [state |-> "ok", doc |-> a.doc,
                                                      sth |-> a.sth, witness |-> w]]
  <2>1. CASE ~LogAccepted(heads[d], a)
    BY <1>2, <2>1
  <2>2. CASE LogAccepted(heads[d], a)
    <3>1. heads \in [Directory -> Seq(Doc)]
      BY DEF WellFormed, HeadMap
    <3>2. CASE a.logged
      BY <1>2, <2>2, <3>2
    <3>3. CASE ~a.logged
      <4>1. heads[d] = <<>>
        BY <2>2, <3>3 DEF LogAccepted
      <4>2. a.sth = <<>>
        <5>1. a.logged \in BOOLEAN
          BY DEF Answers
        <5> QED BY <3>3, <5>1, AnswerFields
      <4>3. heads = [heads EXCEPT ![d] = a.sth]
        BY <3>1, <4>1, <4>2
      <4> QED BY <1>2, <2>2, <3>3, <4>3
    <3> QED BY <3>2, <3>3
  <2> QED BY <2>1, <2>2
<1> QED BY <1>1, <1>2 DEF FetchOne

----------------------------------------------------------------------------
\* Types.

LEMMA WellFormedHolds == Spec => []WellFormed
<1>1. Init => WellFormed
  <2> SUFFICES ASSUME Init PROVE WellFormed
    OBVIOUS
  <2>1. <<>> \in Seq(Doc)
    BY EmptySeq
  <2>2. heads \in HeadMap /\ relied \in HeadMap /\ st \in StateRecord /\ disk \in StateRecord
    BY <2>1 DEF Init, HeadMap, StateRecord
  <2>3. log \in [Honest -> Seq(Doc)] /\ seen \in [Honest -> HeadMap]
    BY <2>1 DEF Init, HeadMap
  <2>4. report \in [Directory -> NoAnswer \cup OkReport]
    BY DEF Init, NoReports, Waiting, NoAnswer
  <2> QED BY <2>2, <2>3, <2>4 DEF Init, WellFormed
<1>2. WellFormed /\ [Next]_vars => WellFormed'
  <2> SUFFICES ASSUME WellFormed, [Next]_vars PROVE WellFormed'
    OBVIOUS
  <2>a. NoReports \in [Directory -> NoAnswer \cup OkReport]
    BY DEF NoReports, Waiting, NoAnswer
  <2>b. EndRound => /\ pc' = "fetch" /\ fresh' = {} /\ pool' = {}
                    /\ report' \in [Directory -> NoAnswer \cup OkReport]
    BY <2>a DEF EndRound
  <2>1. ASSUME NEW d \in Honest, NEW D \in Doc, Grow(d, D) PROVE WellFormed'
    <3>1. log' \in [Honest -> Seq(Doc)]
      BY <2>1, PrefixOfAppend DEF Grow, WellFormed
    <3> QED BY <2>1, <3>1 DEF Grow, clientVars, WellFormed, Ok
  <2>2. ASSUME NEW w \in Honest, NEW d \in Directory \ {w}, NEW h \in ShownHead(d),
               Observe(w, d, h)
        PROVE  WellFormed'
    <3>1. h \in Seq(Doc)
      BY DirectoryAssumption DEF ShownHead, WellFormed
    <3>2. seen' \in [Honest -> HeadMap]
      BY <2>2, <3>1 DEF Observe, WellFormed, HeadMap
    <3> QED BY <2>2, <3>2 DEF Observe, clientVars, WellFormed, Ok
  <2>3. CASE Expire
    BY <2>3 DEF Expire, clientVars, WellFormed, Ok
  <2>4. ASSUME NEW d \in Directory, FetchOne(d) PROVE WellFormed'
    <3>1. heads' \in HeadMap /\ report' \in [Directory -> NoAnswer \cup OkReport]
      <4>1. ASSUME NEW why \in {"down", "unproven"}, heads' = heads,
                   report' = [report EXCEPT ![d] = Failed(why)]
            PROVE  heads' \in HeadMap /\ report' \in [Directory -> NoAnswer \cup OkReport]
        BY <4>1 DEF WellFormed, Failed, NoAnswer
      <4>2. CASE heads' = heads /\ report' = [report EXCEPT ![d] = Failed("refused")]
        BY <4>2 DEF WellFormed, Failed, NoAnswer
      <4>3. ASSUME NEW a \in Answers(d), NEW w \in Witnessed(d),
                   heads' = [heads EXCEPT ![d] = a.sth],
                   report' = [report EXCEPT ![d] = [state |-> "ok", doc |-> a.doc,
                                                    sth |-> a.sth, witness |-> w]]
            PROVE  heads' \in HeadMap /\ report' \in [Directory -> NoAnswer \cup OkReport]
        <5>1. a.doc \in Doc /\ a.sth \in Seq(Doc) /\ w \in SUBSET SeenHead
          BY AnswerFields, WitnessFields
        <5>2. [state |-> "ok", doc |-> a.doc, sth |-> a.sth, witness |-> w] \in OkReport
          BY <5>1 DEF OkReport
        <5> QED BY <4>3, <5>1, <5>2 DEF WellFormed, HeadMap
      <4> QED BY <2>4, <4>1, <4>2, <4>3, FetchOutcome
    <3>2. fresh = {} /\ pc = "fetch"
      BY <2>4 DEF FetchOne, WellFormed
    <3> QED BY <2>4, <3>1, <3>2 DEF FetchOne, envVars, WellFormed
  <2>5. CASE Settle
    <3>1. PICK mute \in SUBSET Asked :
            LET C == Ok \ Forked(mute)
                quorate == Cardinality(C) >= quorum
                nodes == IF quorate THEN Tally(C) ELSE Valid(st.cached)
            IN /\ st' = IF quorate THEN [heads |-> heads, cached |-> nodes] ELSE st
               /\ pc' = IF nodes = {} THEN "fetch" ELSE "build"
               /\ pool' = nodes
               /\ fresh' = IF quorate /\ nodes # {} THEN C ELSE {}
               /\ report' = IF fresh' = {} THEN NoReports
                            ELSE [d \in Directory |-> IF d \in C THEN report[d]
                                                      ELSE Failed("rejected")]
      BY <2>5 DEF Settle
    <3> DEFINE C == Ok \ Forked(mute)
               quorate == Cardinality(C) >= quorum
               nodes == IF quorate THEN Tally(C) ELSE Valid(st.cached)
    <3>2. C \subseteq Ok /\ C \subseteq Directory
      BY DEF Ok
    <3>3. \A d \in C : report[d].doc \in Doc
      BY <3>2, OkFields DEF OkReport
    <3>4. nodes \subseteq Descriptor
      BY <3>3 DEF Tally, Valid, Descriptor, WellFormed, StateRecord
    <3>5. st' \in StateRecord
      BY <3>1, <3>4 DEF WellFormed, StateRecord
    <3>6. report' \in [Directory -> NoAnswer \cup OkReport]
      <4>1. Failed("rejected") \in NoAnswer
        BY DEF Failed, NoAnswer
      <4> QED BY <2>a, <3>1, <4>1 DEF WellFormed
    <3>7. fresh' \subseteq Ok'
      <4>1. CASE fresh' = {}
        BY <4>1
      <4>2. CASE fresh' # {}
        <5>1. fresh' = C /\ \A d \in C : report'[d] = report[d]
          BY <3>1, <3>2, <4>2
        <5> QED BY <3>2, <5>1 DEF Ok
      <4> QED BY <4>1, <4>2
    <3>8. pc' \in {"fetch", "build"} /\ pool' \subseteq Descriptor
          /\ (pc' = "fetch" => fresh' = {} /\ pool' = {})
      BY <3>1, <3>4
    <3> QED BY <2>5, <3>5, <3>6, <3>7, <3>8 DEF Settle, envVars, WellFormed
  <2>6. CASE BuildFails
    BY <2>6, <2>b DEF BuildFails, envVars, WellFormed, HeadMap
  <2>7. CASE Save
    BY <2>7 DEF Save, envVars, WellFormed, Ok
  <2>8. CASE Install
    <3>1. \A d \in fresh : report[d].sth \in Seq(Doc)
      BY OkFields DEF WellFormed, OkReport
    <3>2. relied' \in HeadMap
      BY <2>8, <3>1 DEF Install, WellFormed, HeadMap
    <3> QED BY <2>8, <2>b, <3>2 DEF Install, envVars, WellFormed
  <2>9. CASE Restart
    BY <2>9, <2>b DEF Restart, envVars, WellFormed, StateRecord
  <2>10. CASE UNCHANGED vars
    BY <2>10 DEF vars, WellFormed, Ok
  <2> QED BY <2>1, <2>2, <2>3, <2>4, <2>5, <2>6, <2>7, <2>8, <2>9, <2>10 DEF Next
<1> QED BY <1>1, <1>2, PTL DEF Spec

----------------------------------------------------------------------------
\* Honest directories are believed.

\* Wherever a head of an honest directory is remembered, it begins the log.
HonestPast ==
    \A d \in Honest :
      /\ IsPrefix(heads[d], log[d])
      /\ IsPrefix(st.heads[d], log[d])
      /\ IsPrefix(disk.heads[d], log[d])
      /\ \A w \in Honest : IsPrefix(seen[w][d], log[d])
      /\ report[d].state # "refused"
      /\ d \in Ok => IsPrefix(report[d].sth, log[d]) /\ Contains(report[d].sth, report[d].doc)
      /\ \A e \in Ok : \A v \in report[e].witness : v.dir = d => IsPrefix(v.head, log[d])

\* The log of an honest directory is a history, and so are the heads.
LEMMA Histories ==
    ASSUME WellFormed, NEW d \in Honest
    PROVE  /\ d \in Directory /\ log[d] \in Seq(Doc) /\ heads[d] \in Seq(Doc)
           /\ st.heads[d] \in Seq(Doc) /\ disk.heads[d] \in Seq(Doc)
           /\ \A w \in Honest : seen[w][d] \in Seq(Doc)
           /\ d \in Ok => report[d].sth \in Seq(Doc)
           /\ \A e \in Ok : \A v \in report[e].witness : v.head \in Seq(Doc)
<1>1. d \in Directory
  BY DirectoryAssumption
<1>2. \A e \in Ok : report[e].sth \in Seq(Doc) /\ report[e].witness \in SUBSET SeenHead
  BY OkFields DEF OkReport
<1> QED BY <1>1, <1>2 DEF WellFormed, HeadMap, StateRecord, SeenHead

\* checkLog accepts what an honest directory answers.
LEMMA HonestAccepted ==
    ASSUME WellFormed, HonestPast, NEW d \in Honest, NEW a \in Answers(d)
    PROVE  LogAccepted(heads[d], a)
<1>1. d \in Directory /\ log[d] \in Seq(Doc) /\ heads[d] \in Seq(Doc)
  BY Histories
<1>2. /\ a.sth \in Seq(Doc) /\ a.logged = TRUE /\ IsPrefix(a.sth, log[d])
      /\ Contains(a.sth, a.doc) /\ Len(a.sth) >= Len(heads[d])
  BY <1>1, AnswerFields
<1>3. IsPrefix(heads[d], log[d])
  BY DEF HonestPast
<1>4. Len(heads[d]) <= Len(a.sth)
  BY <1>1, <1>2
<1>5. IsPrefix(heads[d], a.sth)
  BY <1>1, <1>2, <1>3, <1>4, PrefixComparable
<1> QED BY <1>2, <1>5 DEF LogAccepted

LEMMA HonestPastHolds == Spec => []HonestPast
<1>1. Init => HonestPast
  <2> SUFFICES ASSUME Init, NEW d \in Honest
               PROVE  /\ IsPrefix(heads[d], log[d])
                      /\ IsPrefix(st.heads[d], log[d])
                      /\ IsPrefix(disk.heads[d], log[d])
                      /\ \A w \in Honest : IsPrefix(seen[w][d], log[d])
                      /\ Ok = {} /\ report[d].state # "refused"
    BY DEF HonestPast
  <2>1. d \in Directory
    BY DirectoryAssumption
  <2>2. IsPrefix(<<>>, <<>>)
    BY EmptySeq, PrefixReflexive
  <2> QED BY <2>1, <2>2 DEF Init, NoReports, Waiting, Ok
<1>2. WellFormed /\ WellFormed' /\ HonestPast /\ [Next]_vars => HonestPast'
  <2> SUFFICES ASSUME WellFormed, WellFormed', HonestPast, [Next]_vars,
                      NEW d \in Honest
               PROVE  /\ IsPrefix(heads'[d], log'[d])
                      /\ IsPrefix(st'.heads[d], log'[d])
                      /\ IsPrefix(disk'.heads[d], log'[d])
                      /\ \A w \in Honest : IsPrefix(seen'[w][d], log'[d])
                      /\ report'[d].state # "refused"
                      /\ d \in Ok' => /\ IsPrefix(report'[d].sth, log'[d])
                                      /\ Contains(report'[d].sth, report'[d].doc)
                      /\ \A e \in Ok' : \A v \in report'[e].witness :
                           v.dir = d => IsPrefix(v.head, log'[d])
    BY DEF HonestPast, Ok
  <2> DEFINE Goal == /\ IsPrefix(heads'[d], log'[d])
                     /\ IsPrefix(st'.heads[d], log'[d])
                     /\ IsPrefix(disk'.heads[d], log'[d])
                     /\ \A w \in Honest : IsPrefix(seen'[w][d], log'[d])
                     /\ report'[d].state # "refused"
                     /\ d \in Ok' => /\ IsPrefix(report'[d].sth, log'[d])
                                     /\ Contains(report'[d].sth, report'[d].doc)
                     /\ \A e \in Ok' : \A v \in report'[e].witness :
                          v.dir = d => IsPrefix(v.head, log'[d])
  <2>a. NoReports = report' => Ok' = {} /\ report'[d].state # "refused"
    BY Histories DEF NoReports, Waiting, Ok
  <2>1. ASSUME NEW c \in Honest, NEW D \in Doc, Grow(c, D) PROVE Goal
    <3>1. IsPrefix(log[d], log'[d]) /\ log'[d] \in Seq(Doc)
      <4>1. log \in [Honest -> Seq(Doc)] /\ log[d] \in Seq(Doc) /\ log[c] \in Seq(Doc)
        BY DEF WellFormed
      <4>2. log'[d] = log[d] \/ log'[d] = Append(log[d], D)
        BY <2>1, <4>1 DEF Grow
      <4> QED BY <4>1, <4>2, PrefixOfAppend, PrefixReflexive
    <3>2. ASSUME NEW h \in Seq(Doc), IsPrefix(h, log[d]) PROVE IsPrefix(h, log'[d])
      BY <3>1, <3>2, Histories, PrefixTransitive
    <3>3. UNCHANGED <<seen, heads, report, st, disk>>
      BY <2>1 DEF Grow, clientVars
    <3> QED BY <3>2, <3>3, Histories DEF HonestPast, Ok
  <2>2. ASSUME NEW w \in Honest, NEW c \in Directory \ {w}, NEW h \in ShownHead(c),
               Observe(w, c, h)
        PROVE  Goal
    <3>1. c = d => h = log[d]
      BY DEF ShownHead
    <3>2. IsPrefix(log[d], log[d])
      BY Histories, PrefixReflexive
    <3>3. \A x \in Honest : seen'[x][d] = seen[x][d] \/ (c = d /\ seen'[x][d] = h)
      <4>1. seen' = [seen EXCEPT ![w] = [seen[w] EXCEPT ![c] = h]] /\ d \in Directory
        BY <2>2, Histories DEF Observe
      <4>2. \A x \in Honest : seen[x] \in [Directory -> Seq(Doc)]
        BY DEF WellFormed, HeadMap
      <4>3. seen'[w] = [seen[w] EXCEPT ![c] = h] /\ \A x \in Honest \ {w} : seen'[x] = seen[x]
        BY <4>1 DEF WellFormed
      <4>4. [seen[w] EXCEPT ![c] = h][d] = IF c = d THEN h ELSE seen[w][d]
        BY <4>1, <4>2
      <4>5. ASSUME NEW x \in Honest
            PROVE  seen'[x][d] = seen[x][d] \/ (c = d /\ seen'[x][d] = h)
        <5>1. CASE x = w
          <6>1. seen'[w][d] = IF c = d THEN h ELSE seen[w][d]
            BY <4>3, <4>4
          <6> QED BY <5>1, <6>1
        <5>2. CASE x # w
          BY <4>3, <5>2
        <5> QED BY <5>1, <5>2
      <4> QED BY <4>5
    <3>4. UNCHANGED <<log, heads, report, st, disk>>
      BY <2>2 DEF Observe, clientVars
    <3> QED BY <3>1, <3>2, <3>3, <3>4 DEF HonestPast, Ok
  <2>3. CASE Expire
    BY <2>3 DEF Expire, clientVars, HonestPast, Ok
  <2>4. ASSUME NEW c \in Directory, FetchOne(c) PROVE Goal
    <3>0. /\ UNCHANGED <<log, seen, st, disk>> /\ report[c] = Waiting
          /\ heads \in [Directory -> Seq(Doc)]
          /\ report \in [Directory -> NoAnswer \cup OkReport]
      BY <2>4 DEF FetchOne, envVars, WellFormed, HeadMap
    <3>1. ASSUME NEW why \in {"down", "unproven"}, heads' = heads,
                 report' = [report EXCEPT ![c] = Failed(why)]
          PROVE  Goal
      <4>1. Ok' = Ok /\ c \notin Ok
        BY <3>0, <3>1 DEF Ok, Failed, Waiting
      <4> QED BY <3>0, <3>1, <4>1, Histories DEF HonestPast, Failed, Ok
    <3>2. ASSUME NEW a \in Answers(c), ~LogAccepted(heads[c], a), heads' = heads,
                 report' = [report EXCEPT ![c] = Failed("refused")]
          PROVE  Goal
      <4>1. c # d
        BY <3>2, HonestAccepted
      <4>2. Ok' = Ok /\ c \notin Ok
        BY <3>0, <3>2 DEF Ok, Failed, Waiting
      <4> QED BY <3>0, <3>2, <4>1, <4>2, Histories DEF HonestPast, Failed, Ok
    <3>3. ASSUME NEW a \in Answers(c), NEW w \in Witnessed(c),
                 heads' = [heads EXCEPT ![c] = a.sth],
                 report' = [report EXCEPT ![c] = [state |-> "ok", doc |-> a.doc,
                                                  sth |-> a.sth, witness |-> w]]
          PROVE  Goal
      <4>1. Ok' = Ok \cup {c} /\ d \in Directory
        BY <3>0, <3>3, Histories DEF Ok
      <4>2. \A e \in Ok' : IF e = c THEN /\ report'[e].witness = w
                                         /\ report'[e].sth = a.sth
                                         /\ report'[e].doc = a.doc
                                    ELSE e \in Ok /\ report'[e] = report[e]
        BY <3>0, <3>3, <4>1 DEF Ok
      <4>3. c = d => IsPrefix(a.sth, log[d]) /\ Contains(a.sth, a.doc)
        BY AnswerFields
      <4>4. \A v \in w : v.dir = d => IsPrefix(v.head, log[d])
        BY WitnessFields, PrefixesMeans, Histories DEF HonestPast
      <4>5. report'[d].state # "refused"
        BY <3>0, <3>3, <4>1 DEF HonestPast
      <4> QED BY <3>0, <3>3, <4>1, <4>2, <4>3, <4>4, <4>5 DEF HonestPast
    <3> QED BY <2>4, <3>1, <3>2, <3>3, FetchOutcome
  <2>5. CASE Settle
    <3>1. /\ UNCHANGED <<log, seen, heads, disk>>
          /\ st'.heads = heads \/ st' = st
          /\ \/ report' = NoReports
             \/ \E C \in SUBSET Ok :
                  report' = [x \in Directory |-> IF x \in C THEN report[x]
                                                 ELSE Failed("rejected")]
      <4>1. PICK mute \in SUBSET Asked :
              LET C == Ok \ Forked(mute)
                  quorate == Cardinality(C) >= quorum
                  nodes == IF quorate THEN Tally(C) ELSE Valid(st.cached)
              IN /\ st' = IF quorate THEN [heads |-> heads, cached |-> nodes] ELSE st
                 /\ report' = IF fresh' = {} THEN NoReports
                              ELSE [x \in Directory |-> IF x \in C THEN report[x]
                                                        ELSE Failed("rejected")]
        BY <2>5 DEF Settle
      <4>2. Ok \ Forked(mute) \in SUBSET Ok
        OBVIOUS
      <4>3. st'.heads = heads \/ st' = st
        BY <4>1
      <4> QED BY <2>5, <4>1, <4>2, <4>3 DEF Settle, envVars
    <3>2. CASE report' = NoReports
      BY <2>a, <3>1, <3>2 DEF HonestPast
    <3>3. ASSUME NEW C \in SUBSET Ok,
                 report' = [x \in Directory |-> IF x \in C THEN report[x]
                                                ELSE Failed("rejected")]
          PROVE  Goal
      <4>1. Ok' = C /\ \A e \in C : report'[e] = report[e]
        BY <3>3 DEF Ok, Failed
      <4>2. report'[d].state # "refused"
        BY <3>3, Histories DEF HonestPast, Failed
      <4> QED BY <3>1, <4>1, <4>2 DEF HonestPast
    <3> QED BY <3>1, <3>2, <3>3
  <2>6. CASE BuildFails \/ Install
    BY <2>a, <2>6 DEF BuildFails, Install, EndRound, envVars, HonestPast
  <2>7. CASE Save
    BY <2>7 DEF Save, envVars, HonestPast, Ok
  <2>8. CASE Restart
    BY <2>a, <2>8 DEF Restart, EndRound, envVars, HonestPast
  <2>9. CASE UNCHANGED vars
    BY <2>9 DEF vars, HonestPast, Ok
  <2> QED BY <2>1, <2>2, <2>3, <2>4, <2>5, <2>6, <2>7, <2>8, <2>9 DEF Next
<1> QED BY <1>1, <1>2, WellFormedHolds, PTL DEF Spec

\* checkLog, crossCheck: nobody can have what an honest directory showed rejected as
\* a rewritten or a split history, neither by what other directories pass on nor by
\* making the client crash, if the directory's own answers to the requests for proofs
\* arrive.
THEOREM HonestStaysBelieved == Spec => []HonestNeverForked
<1>1. WellFormed /\ HonestPast => HonestNeverForked
  <2> SUFFICES ASSUME WellFormed, HonestPast, NEW d \in Honest
               PROVE  report[d].state # "refused" /\ d \notin Forked(Directory \ {d})
    BY DEF HonestNeverForked
  <2>1. ASSUME d \in Ok, NEW h \in WitnessedFor(d)
        PROVE  Reconcile(report[d].sth, h)
    <3>1. h \in Seq(Doc) /\ IsPrefix(h, log[d])
      BY Histories DEF WitnessedFor, HonestPast
    <3>2. report[d].sth \in Seq(Doc) /\ log[d] \in Seq(Doc) /\ IsPrefix(report[d].sth, log[d])
      BY <2>1, Histories DEF HonestPast
    <3> QED BY <3>1, <3>2, PrefixComparable DEF Reconcile
  <2> QED BY <2>1 DEF HonestPast, Forked
<1> QED BY <1>1, WellFormedHolds, HonestPastHolds, PTL

----------------------------------------------------------------------------
\* What the client relied on.

\* From the file over the state in memory to what Fetch remembers, each head
\* continues the one before; counted answers carry the remembered heads.
Continued ==
    /\ \A d \in Directory :
         /\ IsPrefix(relied[d], disk.heads[d])
         /\ IsPrefix(disk.heads[d], st.heads[d])
         /\ IsPrefix(st.heads[d], heads[d])
         /\ d \in Ok => report[d].sth = heads[d]
    /\ pc \in {"build", "install"} /\ fresh # {} => st.heads = heads
    /\ pc = "install" => disk = st

\* All of them are histories.
LEMMA HeadTypes ==
    ASSUME WellFormed, NEW d \in Directory
    PROVE  /\ heads[d] \in Seq(Doc) /\ relied[d] \in Seq(Doc)
           /\ st.heads[d] \in Seq(Doc) /\ disk.heads[d] \in Seq(Doc)
BY DEF WellFormed, HeadMap, StateRecord

LEMMA ContinuedHolds == ~DiskFaults => (Spec => []Continued)
<1>1. Init => Continued
  <2>1. IsPrefix(<<>>, <<>>)
    BY EmptySeq, PrefixReflexive
  <2> QED BY <2>1 DEF Init, Continued, NoReports, Waiting, Ok
<1>2. ASSUME ~DiskFaults PROVE WellFormed /\ Continued /\ [Next]_vars => Continued'
  <2> SUFFICES ASSUME WellFormed, Continued, [Next]_vars PROVE Continued'
    OBVIOUS
  <2>a. report' = NoReports => Ok' = {}
    BY DEF NoReports, Waiting, Ok
  <2>1. CASE \/ \E d \in Honest, D \in Doc : Grow(d, D)
             \/ \E w \in Honest : \E d \in Directory \ {w} : \E h \in ShownHead(d) :
                  Observe(w, d, h)
             \/ Expire \/ UNCHANGED vars
    <3>1. UNCHANGED clientVars
      BY <2>1 DEF Grow, Observe, Expire, vars, clientVars
    <3> QED BY <3>1 DEF clientVars, Continued, Ok
  <2>2. ASSUME NEW c \in Directory, FetchOne(c) PROVE Continued'
    <3>0. /\ UNCHANGED <<st, disk, relied>> /\ report[c] = Waiting
          /\ pc = "fetch" /\ pc' = "fetch"
          /\ heads \in [Directory -> Seq(Doc)]
          /\ report \in [Directory -> NoAnswer \cup OkReport]
      BY <2>2 DEF FetchOne, WellFormed, HeadMap
    <3>1. ASSUME heads' = heads,
                 \E why \in {"down", "unproven", "refused"} :
                    report' = [report EXCEPT ![c] = Failed(why)]
          PROVE  Continued'
      <4>1. Ok' = Ok /\ c \notin Ok
        BY <3>0, <3>1 DEF Ok, Failed, Waiting
      <4>2. \A d \in Ok' : report'[d] = report[d] /\ d \in Directory
        BY <3>0, <3>1, <4>1 DEF Ok
      <4> QED BY <3>0, <3>1, <4>1, <4>2 DEF Continued
    <3>2. ASSUME NEW a \in Answers(c), NEW w \in Witnessed(c),
                 LogAccepted(heads[c], a), heads' = [heads EXCEPT ![c] = a.sth],
                 report' = [report EXCEPT ![c] = [state |-> "ok", doc |-> a.doc,
                                                  sth |-> a.sth, witness |-> w]]
          PROVE  Continued'
      <4>1. a.sth \in Seq(Doc) /\ (a.logged = FALSE => a.sth = <<>>)
        BY AnswerFields
      <4>2. IsPrefix(heads[c], a.sth)
        <5>1. CASE a.logged
          BY <3>2, <5>1 DEF LogAccepted
        <5>2. CASE ~a.logged
          BY <3>2, <4>1, <5>2, PrefixReflexive DEF LogAccepted
        <5> QED BY <5>1, <5>2
      <4>3. ASSUME NEW d \in Directory
            PROVE  IsPrefix(st.heads[d], heads'[d])
        <5>1. CASE d = c
          BY <3>0, <3>2, <4>1, <4>2, <5>1, HeadTypes, PrefixTransitive DEF Continued
        <5>2. CASE d # c
          BY <3>0, <3>2, <5>2 DEF Continued
        <5> QED BY <5>1, <5>2
      <4>4. \A d \in Ok' : report'[d].sth = heads'[d]
        BY <3>0, <3>2 DEF Ok, Continued
      <4> QED BY <3>0, <4>3, <4>4 DEF Continued
    <3> QED BY <2>2, <3>1, <3>2, FetchOutcome
  <2>3. CASE Settle
    <3>1. PICK mute \in SUBSET Asked :
            LET C == Ok \ Forked(mute)
                quorate == Cardinality(C) >= quorum
                nodes == IF quorate THEN Tally(C) ELSE Valid(st.cached)
            IN /\ st' = IF quorate THEN [heads |-> heads, cached |-> nodes] ELSE st
               /\ pc' = IF nodes = {} THEN "fetch" ELSE "build"
               /\ fresh' = IF quorate /\ nodes # {} THEN C ELSE {}
               /\ report' = IF fresh' = {} THEN NoReports
                            ELSE [d \in Directory |-> IF d \in C THEN report[d]
                                                      ELSE Failed("rejected")]
      BY <2>3 DEF Settle
    <3> DEFINE C == Ok \ Forked(mute)
               quorate == Cardinality(C) >= quorum
               nodes == IF quorate THEN Tally(C) ELSE Valid(st.cached)
    <3>2. UNCHANGED <<heads, disk, relied>>
      BY <2>3 DEF Settle
    <3>3. ASSUME NEW d \in Directory
          PROVE  IsPrefix(disk.heads[d], st'.heads[d]) /\ IsPrefix(st'.heads[d], heads[d])
      <4>1. st'.heads = heads \/ st' = st
        BY <3>1
      <4>2. IsPrefix(heads[d], heads[d]) /\ IsPrefix(disk.heads[d], heads[d])
        BY HeadTypes, PrefixReflexive, PrefixTransitive DEF Continued
      <4> QED BY <4>1, <4>2 DEF Continued
    <3>4. \A d \in Ok' : report'[d].sth = heads[d]
      <4>1. CASE fresh' = {}
        BY <2>a, <3>1, <4>1
      <4>2. CASE fresh' # {}
        <5>1. report' = [d \in Directory |-> IF d \in C THEN report[d] ELSE Failed("rejected")]
          BY <3>1, <4>2
        <5>2. \A d \in Ok' : d \in C /\ report'[d] = report[d]
          BY <5>1 DEF Ok, Failed
        <5> QED BY <5>2 DEF Continued, Ok
      <4> QED BY <4>1, <4>2
    <3>5. fresh' # {} => st'.heads = heads
      BY <3>1
    <3>6. pc' # "install"
      BY <3>1
    <3> QED BY <3>2, <3>3, <3>4, <3>5, <3>6 DEF Continued
  <2>4. CASE BuildFails
    BY <2>a, <2>4 DEF BuildFails, EndRound, Continued
  <2>5. CASE Save
    <3>1. disk' = st /\ pc' = "install" /\ pc = "build"
          /\ UNCHANGED <<heads, report, fresh, st, relied>>
      BY <1>2, <2>5 DEF Save
    <3>2. \A d \in Directory : /\ IsPrefix(relied[d], st.heads[d])
                               /\ IsPrefix(st.heads[d], st.heads[d])
      BY HeadTypes, PrefixReflexive, PrefixTransitive DEF Continued
    <3> QED BY <3>1, <3>2 DEF Continued, Ok
  <2>6. CASE Install
    <3>1. disk = st /\ (fresh # {} => st.heads = heads)
      BY <2>6 DEF Install, Continued
    <3>2. ASSUME NEW d \in Directory PROVE IsPrefix(relied'[d], disk.heads[d])
      <4>1. relied'[d] = IF d \in fresh THEN report[d].sth ELSE relied[d]
        BY <2>6 DEF Install
      <4>2. CASE d \in fresh
        <5>1. d \in Ok /\ disk.heads[d] = heads[d]
          BY <3>1, <4>2 DEF WellFormed
        <5> QED BY <4>1, <4>2, <5>1, HeadTypes, PrefixReflexive DEF Continued
      <4>3. CASE d \notin fresh
        BY <4>1, <4>3 DEF Continued
      <4> QED BY <4>2, <4>3
    <3> QED BY <2>a, <2>6, <3>2 DEF Install, EndRound, Continued
  <2>7. CASE Restart
    <3>1. \A d \in Directory : IsPrefix(disk.heads[d], disk.heads[d])
      BY HeadTypes, PrefixReflexive
    <3> QED BY <2>a, <2>7, <3>1 DEF Restart, EndRound, Continued
  <2> QED BY <2>1, <2>2, <2>3, <2>4, <2>5, <2>6, <2>7 DEF Next
<1>3. ASSUME ~DiskFaults PROVE Spec => []Continued
  BY <1>1, <1>2, <1>3, WellFormedHolds, PTL DEF Spec
<1> QED BY <1>3

\* If saves succeed, a directory cannot rewrite or shorten a history that the
\* client ever built circuits on without being refused, crashes or not.
THEOREM RewritingIsRefused == ~DiskFaults => (Spec => []Accountable)
<1>1. WellFormed /\ Continued => Accountable
  BY HeadTypes, PrefixTransitive DEF Continued, Accountable
<1>2. ASSUME ~DiskFaults PROVE Spec => []Accountable
  BY <1>1, <1>2, WellFormedHolds, ContinuedHolds, PTL
<1> QED BY <1>2

----------------------------------------------------------------------------
\* Who vouches for the nodes.

\* A quorum that outnumbers the bad directories has an honest one in it.
LEMMA HonestVoter ==
    ASSUME Cardinality(Liar) < quorum, quorum \in Quorums,
           NEW V \in SUBSET Directory, Cardinality(V) >= quorum
    PROVE  \E d \in V : d \in Honest
<1>1. IsFiniteSet(Liar) /\ Cardinality(Liar) \in Nat
  BY DirectoryAssumption, FS_Subset, FS_CardinalityType DEF Liar
<1>2. IsFiniteSet(V) /\ Cardinality(V) \in Nat /\ quorum \in Int
  BY DirectoryAssumption, FS_Subset, FS_CardinalityType
<1>3. ~(V \subseteq Liar)
  <2>1. V \subseteq Liar => Cardinality(V) <= Cardinality(Liar)
    BY <1>1, FS_Subset
  <2> QED BY <1>1, <1>2, <2>1
<1> QED BY <1>3 DEF Liar

\* The nodes of a result were all published by an honest directory.
LEMMA TallyPublished ==
    ASSUME WellFormed, HonestPast, Cardinality(Liar) < quorum,
           NEW C \in SUBSET Ok, NEW n \in Tally(C)
    PROVE  Published(n.id)
<1> DEFINE V == {d \in C : \E m \in Valid(report[d].doc) : m.id = n.id}
<1>1. Cardinality(V) >= quorum
  BY DEF Tally, Votes
<1>2. V \in SUBSET Directory /\ quorum \in Quorums
  BY DEF Ok, WellFormed
<1>3. PICK d \in V : d \in Honest
  <2> HIDE DEF V
  <2> QED BY <1>1, <1>2, HonestVoter
<1>4. d \in Ok /\ \E m \in report[d].doc : m.id = n.id
  BY DEF Valid
<1>5. /\ report[d].sth \in Seq(Doc) /\ log[d] \in Seq(Doc)
      /\ IsPrefix(report[d].sth, log[d]) /\ Contains(report[d].sth, report[d].doc)
  BY <1>3, <1>4, Histories DEF HonestPast
<1>6. report[d].doc \in ToSet(log[d])
  BY <1>5, ContainsGrows
<1> QED BY <1>3, <1>4, <1>6 DEF Published

\* What was published once stays published.
LEMMA PublishedStays ==
    ASSUME WellFormed, [Next]_vars, NEW i, Published(i)
    PROVE  Published(i)'
<1>0. PICK d \in Honest : \E D \in ToSet(log[d]) : \E n \in D : n.id = i
  BY DEF Published
<1>1. PICK D \in ToSet(log[d]) : \E n \in D : n.id = i
  BY <1>0
<1>2. log[d] \in Seq(Doc)
  BY DEF WellFormed
<1>3. CASE \E c \in Honest, E \in Doc : Grow(c, E)
  <2>1. PICK c \in Honest, E \in Doc : log' = [log EXCEPT ![c] = Append(log[c], E)]
    BY <1>3 DEF Grow
  <2>2. log'[d] = log[d] \/ log'[d] = Append(log[d], E)
    BY <2>1 DEF WellFormed
  <2>3. log'[d] \in Seq(Doc) /\ IsPrefix(log[d], log'[d])
    BY <1>2, <2>2, PrefixOfAppend, PrefixReflexive
  <2>4. Contains(log[d], D)
    BY <1>1, <1>2 DEF ToSet, Contains
  <2>5. D \in ToSet(log'[d])
    BY <1>2, <2>3, <2>4, ContainsGrows
  <2> QED BY <1>1, <2>5 DEF Published
<1>4. CASE log' = log
  BY <1>1, <1>4 DEF Published
<1>5. log' = log \/ \E c \in Honest, E \in Doc : Grow(c, E)
  BY DEF Next, vars, envVars, Observe, Expire, FetchOne, Settle, BuildFails, Save,
         Install, Restart
<1> QED BY <1>3, <1>4, <1>5

\* With fewer bad directories than the quorum, the client neither uses nor
\* keeps for later a node that no honest directory ever published.
THEOREM NodesAreConfirmed == Spec => []OnlyConfirmed
<1>1. Init => OnlyConfirmed
  BY DEF Init, OnlyConfirmed
<1>2. WellFormed /\ HonestPast /\ OnlyConfirmed /\ [Next]_vars => OnlyConfirmed'
  <2> SUFFICES ASSUME WellFormed, HonestPast, OnlyConfirmed, [Next]_vars,
                      Cardinality(Liar) < quorum',
                      NEW n \in pool' \cup st'.cached \cup disk'.cached
               PROVE  Published(n.id)'
    BY DEF OnlyConfirmed, Liar
  <2>1. quorum' = quorum
    BY DEF Next, vars, Grow, Observe, Expire, FetchOne, Settle, BuildFails, Save,
           Install, Restart
  <2>2. \A m \in pool \cup st.cached \cup disk.cached : Published(m.id)
    BY <2>1 DEF OnlyConfirmed
  <2>3. CASE Settle
    <3>1. PICK mute \in SUBSET Asked :
            LET C == Ok \ Forked(mute)
                quorate == Cardinality(C) >= quorum
                nodes == IF quorate THEN Tally(C) ELSE Valid(st.cached)
            IN /\ st' = IF quorate THEN [heads |-> heads, cached |-> nodes] ELSE st
               /\ pool' = nodes
      BY <2>3 DEF Settle
    <3>2. disk' = disk
      BY <2>3 DEF Settle
    <3>3. n \in Tally(Ok \ Forked(mute)) \/ n \in st.cached \cup disk.cached
      BY <3>1, <3>2 DEF Valid
    <3>4. Published(n.id)
      BY <2>1, <2>2, <3>3, TallyPublished
    <3> QED BY <3>4, PublishedStays
  <2>4. CASE ~Settle
    <3>1. n \in pool \cup st.cached \cup disk.cached
      BY <2>4 DEF Next, vars, clientVars, Grow, Observe, Expire, FetchOne, BuildFails, Save,
             Install, Restart, EndRound
    <3> QED BY <2>2, <3>1, PublishedStays
  <2> QED BY <2>3, <2>4
<1> QED BY <1>1, <1>2, WellFormedHolds, HonestPastHolds, PTL DEF Spec

----------------------------------------------------------------------------
\* What the bad directories cannot hide.

\* Of finitely many descriptors one is the newest: else take the least number
\* of descriptors without a newest one, and leave one of them out.
LEMMA NewestExists ==
    ASSUME NEW S, IsFiniteSet(S), S # {}, \A n \in S : n.pub \in Nat
    PROVE  \E n \in S : \A m \in S : m.pub <= n.pub
<1> DEFINE Bad(T) == /\ T \subseteq S /\ T # {}
                     /\ \A n \in T : \E m \in T : ~(m.pub <= n.pub)
           Sizes == {Cardinality(T) : T \in {U \in SUBSET S : Bad(U)}}
<1> SUFFICES ASSUME Sizes # {} PROVE FALSE
  <2>1. ASSUME Bad(S) PROVE Cardinality(S) \in Sizes
    BY <2>1
  <2> HIDE DEF Sizes
  <2> QED BY <2>1
<1>1. Sizes \subseteq Nat
  BY FS_Subset, FS_CardinalityType
<1>2. PICK k \in Sizes : \A j \in Sizes : ~(<<j, k>> \in OpToRel(<, Nat))
  <2> HIDE DEF Sizes
  <2> QED BY <1>1, NatLessThanWellFounded, WFMin
<1>3. PICK T \in SUBSET S : Bad(T) /\ Cardinality(T) = k
  OBVIOUS
<1>4. PICK x \in T : TRUE
  BY <1>3
<1>5. IsFiniteSet(T) /\ IsFiniteSet(T \ {x}) /\ Cardinality(T) \in Nat
      /\ Cardinality(T \ {x}) \in Nat /\ Cardinality(T \ {x}) = Cardinality(T) - 1
  BY <1>3, <1>4, FS_Subset, FS_RemoveElement, FS_CardinalityType
<1>6. Cardinality(T \ {x}) < k
  BY <1>3, <1>5
<1>7. ~Bad(T \ {x})
  <2> SUFFICES ASSUME Bad(T \ {x}) PROVE FALSE
    OBVIOUS
  <2>1. Cardinality(T \ {x}) \in Sizes
    OBVIOUS
  <2>2. <<Cardinality(T \ {x}), k>> \in OpToRel(<, Nat)
    BY <1>1, <1>5, <1>6 DEF OpToRel
  <2> HIDE DEF Bad, Sizes
  <2> QED BY <1>2, <2>1, <2>2
<1>8. CASE T = {x}
  BY <1>3, <1>8
<1>9. CASE T # {x}
  <2>1. PICK y \in T \ {x} : \A m \in T \ {x} : m.pub <= y.pub
    BY <1>3, <1>4, <1>7, <1>9
  <2>2. x.pub \in Nat /\ y.pub \in Nat /\ \A m \in T : m.pub \in Nat
    BY <1>3, <1>4, <2>1
  <2>3. CASE x.pub <= y.pub
    BY <1>3, <2>1, <2>3
  <2>4. CASE ~(x.pub <= y.pub)
    <3>1. \A m \in T : m.pub <= x.pub
      BY <2>1, <2>2, <2>4
    <3> QED BY <1>3, <1>4, <3>1
  <2> QED BY <2>3, <2>4
<1> QED BY <1>8, <1>9

\* A node that a quorum of the counted directories lists is in the result.
LEMMA TallyComplete ==
    ASSUME WellFormed, NEW C \in SUBSET Ok, NEW H \in SUBSET C,
           Cardinality(H) >= quorum, H # {},
           NEW i, \A d \in H : \E n \in Valid(report[d].doc) : n.id = i
    PROVE  \E n \in Tally(C) : n.id = i
<1> DEFINE V == {d \in C : \E n \in Valid(report[d].doc) : n.id = i}
           offered == UNION {Valid(report[d].doc) : d \in C}
           S == {n \in offered : n.id = i}
<1>1. IsFiniteSet(C) /\ IsFiniteSet(V) /\ IsFiniteSet(H)
  BY DirectoryAssumption, FS_Subset DEF Ok
<1>2. H \subseteq V
  OBVIOUS
<1>3. Cardinality(V) >= quorum
  <2>1. quorum \in Nat
    BY DirectoryAssumption, FS_CardinalityType DEF WellFormed
  <2> HIDE DEF V
  <2>2. Cardinality(H) <= Cardinality(V)
    BY <1>1, <1>2, FS_Subset
  <2>3. Cardinality(H) \in Nat /\ Cardinality(V) \in Nat
    BY <1>1, FS_CardinalityType
  <2> QED BY <2>1, <2>2, <2>3
<1>4. Votes(i, C) >= quorum
  BY <1>3 DEF Votes
<1>5. \A d \in C : /\ Valid(report[d].doc) \subseteq report[d].doc
                   /\ IsFiniteSet(report[d].doc)
                   /\ \A n \in report[d].doc : n.pub \in Nat
  BY OkFields, DirectoryAssumption DEF OkReport, Valid
<1>6. IsFiniteSet(offered)
  <2>1. IsFiniteSet({Valid(report[d].doc) : d \in C})
    <3> DEFINE F == [d \in C |-> Valid(report[d].doc)]
    <3>1. F \in Surjection(C, {Valid(report[d].doc) : d \in C})
      BY DEF Surjection
    <3> QED BY <1>1, <3>1, FS_Surjection
  <2>2. \A T \in {Valid(report[d].doc) : d \in C} : IsFiniteSet(T)
    BY <1>5, FS_Subset
  <2> QED BY <2>1, <2>2, FS_UNION
<1>7. IsFiniteSet(S) /\ \A n \in S : n.pub \in Nat
  BY <1>5, <1>6, FS_Subset
<1>8. S # {}
  BY <1>2
<1>9. PICK n \in S : \A m \in S : m.pub <= n.pub
  <2> HIDE DEF S
  <2> QED BY <1>7, <1>8, NewestExists
<1>10. n \in Tally(C)
  BY <1>4, <1>9 DEF Tally
<1> QED BY <1>9, <1>10

\* When the directories that follow the protocol make a quorum, the others hide
\* no node that all of those list and that were counted (Fetch).
THEOREM HonestQuorumShows == Spec => []NothingHidden
<1>1. Init => NothingHidden
  BY DEF Init, NothingHidden, Hidden
<1>2. WellFormed /\ expired \in Nat /\ NothingHidden /\ [Next]_vars => NothingHidden'
  <2> SUFFICES ASSUME WellFormed, expired \in Nat, NothingHidden, [Next]_vars,
                      Cardinality(Honest) >= quorum', Hidden'
               PROVE  FALSE
    BY DEF NothingHidden
  <2>1. quorum' = quorum /\ ~Hidden
    BY DEF NothingHidden, Next, vars, Grow, Observe, Expire, FetchOne, Settle, BuildFails,
           Save, Install, Restart
  <2>2. PICK m \in Descriptor :
          /\ \A d \in Honest : \E n \in Valid(report[d].doc)' : n.id = m.id
          /\ \A n \in pool' : n.id # m.id
    BY DEF Hidden
  <2>3. pc' = "build" /\ fresh' # {} /\ Honest \subseteq fresh'
    BY DEF Hidden
  <2>4. CASE Settle
    <3>1. PICK mute \in SUBSET Asked :
            LET C == Ok \ Forked(mute)
                quorate == Cardinality(C) >= quorum
                nodes == IF quorate THEN Tally(C) ELSE Valid(st.cached)
            IN /\ pool' = nodes
               /\ fresh' = IF quorate /\ nodes # {} THEN C ELSE {}
               /\ report' = IF fresh' = {} THEN NoReports
                            ELSE [d \in Directory |-> IF d \in C THEN report[d]
                                                      ELSE Failed("rejected")]
      BY <2>4 DEF Settle
    <3>2. PICK C \in SUBSET Ok : C = Ok \ Forked(mute)
      OBVIOUS
    <3>3. fresh' = C /\ pool' = Tally(C)
      BY <2>3, <3>1, <3>2
    <3>4. \A d \in C : report'[d] = report[d]
      BY <2>3, <3>1, <3>2, <3>3 DEF Ok
    <3>5. expired' = expired
      BY <2>4 DEF Settle, envVars
    <3>6. \A d \in Honest : \E n \in Valid(report[d].doc) : n.id = m.id
      BY <2>2, <2>3, <3>3, <3>4, <3>5 DEF Valid
    <3>7. Honest \in SUBSET C /\ Honest # {}
      <4>1. quorum \in Nat \ {0}
        BY DirectoryAssumption, FS_CardinalityType DEF WellFormed
      <4>2. Cardinality(Honest) >= quorum
        BY <2>1
      <4> QED BY <2>3, <3>3, <4>1, <4>2, FS_EmptySet
    <3>8. \E n \in Tally(C) : n.id = m.id
      BY <2>1, <3>6, <3>7, TallyComplete
    <3> QED BY <2>2, <3>3, <3>8
  <2>5. CASE pc = "build" /\ UNCHANGED <<report, pool, fresh>>
    <3>1. expired' = expired \/ expired' = expired + 1
      BY DEF Next, vars, envVars, Grow, Observe, Expire, FetchOne, Settle, BuildFails,
             Save, Install, Restart
    <3>2. \A d \in Honest : \E n \in Valid(report[d].doc) : n.id = m.id
      <4> SUFFICES ASSUME NEW d \in Honest
                   PROVE  \E n \in Valid(report[d].doc) : n.id = m.id
        OBVIOUS
      <4>1. PICK n \in report[d].doc : n.pub > expired' /\ n.id = m.id
        BY <2>2, <2>5 DEF Valid
      <4>2. n.pub \in Nat
        BY <2>3, <2>5, OkFields, DirectoryAssumption DEF WellFormed, OkReport
      <4>3. n.pub > expired
        BY <3>1, <4>1, <4>2
      <4> QED BY <4>1, <4>3 DEF Valid
    <3> QED BY <2>1, <2>2, <2>3, <2>5, <3>2 DEF Hidden
  <2>6. Settle \/ (pc = "build" /\ UNCHANGED <<report, pool, fresh>>)
    BY <2>3 DEF Next, vars, clientVars, Grow, Observe, Expire, FetchOne, BuildFails, Save,
           Install, Restart, EndRound
  <2> QED BY <2>4, <2>5, <2>6
<1>3. Init => expired \in Nat
  BY DEF Init
<1>4. expired \in Nat /\ [Next]_vars => (expired \in Nat)'
  BY DEF Next, vars, envVars, Grow, Observe, Expire, FetchOne, Settle, BuildFails,
         Save, Install, Restart
<1> QED BY <1>1, <1>2, <1>3, <1>4, WellFormedHolds, PTL DEF Spec

----------------------------------------------------------------------------
\* A directory whose head contradicts one that an honest directory passed on
\* in the same Fetch is not counted.
THEOREM EquivocatorIsDropped == Spec => []EquivocatorDropped
<1> DEFINE Agree(d, w) == \A v \in report[w].witness :
                            v.dir = d /\ report[d].sth # <<>> => Reconcile(report[d].sth, v.head)
<1> DEFINE Agreed == \A d \in fresh, w \in Ok : Agree(d, w)
<1>1. Init => Agreed
  BY DEF Init
<1>2. WellFormed /\ Agreed /\ [Next]_vars => Agreed'
  <2> SUFFICES ASSUME WellFormed, Agreed, [Next]_vars PROVE Agreed'
    OBVIOUS
  <2>1. CASE Settle
    <3>1. PICK mute \in SUBSET Asked :
            LET C == Ok \ Forked(mute)
            IN /\ fresh' = C \/ fresh' = {}
               /\ report' = IF fresh' = {} THEN NoReports
                            ELSE [d \in Directory |-> IF d \in C THEN report[d]
                                                      ELSE Failed("rejected")]
      BY <2>1 DEF Settle
    <3> DEFINE C == Ok \ Forked(mute)
    <3>2. ASSUME NEW d \in fresh', NEW w \in Ok', NEW v \in report'[w].witness,
                 v.dir = d, report'[d].sth # <<>>
          PROVE  Reconcile(report'[d].sth, v.head)
      <4>1. report' = [x \in Directory |-> IF x \in C THEN report[x] ELSE Failed("rejected")]
            /\ d \in C
        BY <3>1, <3>2
      <4>2. w \in C /\ report'[w] = report[w] /\ report'[d] = report[d]
        BY <4>1 DEF Ok, Failed
      <4>3. v.head \in WitnessedFor(d)
        BY <3>2, <4>2 DEF WitnessedFor
      <4>4. d \in Ok /\ d \notin Forked(mute)
        BY <4>1
      <4> QED BY <3>2, <4>2, <4>3, <4>4 DEF Forked
    <3> QED BY <3>2
  <2>2. CASE fresh' = {}
    BY <2>2
  <2>3. CASE fresh' = fresh /\ report' = report
    BY <2>3 DEF Ok
  <2>4. fresh' = {} \/ (fresh' = fresh /\ report' = report) \/ Settle
    BY DEF Next, vars, clientVars, WellFormed, Grow, Observe, Expire, FetchOne, BuildFails,
           Save, Install, Restart, EndRound
  <2> QED BY <2>1, <2>2, <2>3, <2>4
<1>3. WellFormed /\ Agreed => EquivocatorDropped
  BY DEF EquivocatorDropped, Reconcile
<1> QED BY <1>1, <1>2, <1>3, WellFormedHolds, PTL DEF Spec
===========================================================================
