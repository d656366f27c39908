------------------------- MODULE TransparencyLog -------------------------
(***************************************************************************)
(* The directory's transparency log (src/translog.go) and those who use it *)
(* at once: Consensus.Document, which appends the set of nodes it serves   *)
(* and proves it included (logProof, src/directory.go), GET /sth, and GET  *)
(* /log/consistency.  Every method of the log takes the log's lock for     *)
(* itself, so what one caller does in several calls interleaves with the   *)
(* others; documents alone are serialised, by Consensus.mu.                *)
(***************************************************************************)
EXTENDS MerkleTree

CONSTANTS
    Served,      \* the leaf hashes of the sets of nodes there are to serve
    Caller,      \* goroutines inside Consensus.Document
    Reader,      \* goroutines serving GET /log/consistency
    DiskFaults   \* TRUE: writeJSONAtomic may fail

ASSUME ServedAssumption == Served \subseteq Leaf
ASSUME DiskFaultsAssumption == DiskFaults \in BOOLEAN

VARIABLES
    leaves,   \* TransparencyLog.leaves
    disk,     \* what the log's file holds
    caller,   \* per caller: the LogProof it is building
    reader,   \* per reader: the consistency answer it is building
    issued    \* history: the heads clients have been given

tvars == <<leaves, disk, caller, reader, issued>>

HeadOf(s) == [size |-> Len(s), root |-> TreeHash[s]]

Free == [stage |-> "idle"]

\* TransparencyLog.Append: "_ = l.save()", the error is dropped.
Save(s) == \/ disk' = s
           \/ DiskFaults /\ UNCHANGED disk

----------------------------------------------------------------------------
\* Consensus.Document with a log.

\* Faulty variant for ProofsVerify: documents are built without c.mu.
BeginUnlocked(c, l) ==
    /\ caller[c] = Free
    /\ caller' = [caller EXCEPT ![c] = [stage |-> "append", leaf |-> l]]
    /\ UNCHANGED <<leaves, disk, reader, issued>>

\* c.mu is taken and a set of nodes with leaf hash l is to be served.
Begin(c, l) ==
    /\ \A d \in Caller : caller[d] = Free
    /\ caller' = [caller EXCEPT ![c] = [stage |-> "append", leaf |-> l]]
    /\ UNCHANGED <<leaves, disk, reader, issued>>

\* Faulty variant for OnlyGrows: the file is not written on every append.
AppendUnsaved(c) ==
    LET l == caller[c].leaf
    IN /\ caller[c].stage = "append"
       /\ leaves' = IF Contains(leaves, l) THEN leaves ELSE Append(leaves, l)
       /\ caller' = [caller EXCEPT ![c] = [stage |-> "head", leaf |-> l,
                        index |-> (CHOOSE i \in 1..Len(leaves') : leaves'[i] = l) - 1]]
       /\ UNCHANGED <<disk, reader, issued>>

\* Append: a set already logged keeps its index, a new one is saved at once.
AppendLeaf(c) ==
    LET l == caller[c].leaf
    IN /\ caller[c].stage = "append"
       /\ \/ /\ ~Contains(leaves, l)
             /\ leaves' = Append(leaves, l)
             /\ Save(leaves')
          \/ Contains(leaves, l) /\ UNCHANGED <<leaves, disk>>
       /\ caller' = [caller EXCEPT ![c] = [stage |-> "head", leaf |-> l,
                        index |-> (CHOOSE i \in 1..Len(leaves') : leaves'[i] = l) - 1]]
       /\ UNCHANGED <<reader, issued>>

TakeHead(c) ==
    /\ caller[c].stage = "head"
    /\ caller' = [caller EXCEPT ![c] = [stage |-> "proof", leaf |-> caller[c].leaf,
                     index |-> caller[c].index, head |-> HeadOf(leaves)]]
    /\ UNCHANGED <<leaves, disk, reader, issued>>

\* InclusionProof against the log as it is now; the document goes out.
Prove(c) ==
    /\ caller[c].stage = "proof"
    /\ caller' = [caller EXCEPT ![c] = [stage |-> "served", leaf |-> caller[c].leaf,
                     index |-> caller[c].index, head |-> caller[c].head,
                     proof |-> InclusionPath(caller[c].index, leaves)]]
    /\ issued' = issued \cup {caller[c].head}
    /\ UNCHANGED <<leaves, disk, reader>>

\* c.mu is released.
Finish(c) == /\ caller[c].stage = "served"
             /\ caller' = [caller EXCEPT ![c] = Free]
             /\ UNCHANGED <<leaves, disk, reader, issued>>

----------------------------------------------------------------------------
\* The read-only handlers.

\* GET /sth
ShowHead == /\ issued' = issued \cup {HeadOf(leaves)}
            /\ UNCHANGED <<leaves, disk, caller, reader>>

\* GET /log/consistency?first=m&second=n.  Without "second" it is the log's size,
\* read on its own.
Ask(r, m, n) == /\ reader[r] = Free
                /\ reader' = [reader EXCEPT ![r] = [stage |-> "path", first |-> m,
                                                    second |-> n]]
                /\ UNCHANGED <<leaves, disk, caller, issued>>

\* Faulty variant for AnswersVerify: the proof is of the log as it is now.
PathNow(r) ==
    LET m == reader[r].first
        n == reader[r].second
    IN /\ reader[r].stage = "path"
       /\ reader' = [reader EXCEPT ![r] =
             IF m > n THEN Free
             ELSE [stage |-> "root", first |-> m, second |-> n,
                   path |-> IF m = 0 \/ m = n THEN <<>> ELSE ConsistencyPath(m, leaves)]]
       /\ UNCHANGED <<leaves, disk, caller, issued>>

\* ConsistencyProofBetween, or 400 when the sizes do not fit the log.
Path(r) ==
    LET m == reader[r].first
        n == reader[r].second
    IN /\ reader[r].stage = "path"
       /\ reader' = [reader EXCEPT ![r] =
             IF m > n \/ n > Len(leaves) THEN Free
             ELSE [stage |-> "root", first |-> m, second |-> n,
                   path |-> IF m = 0 \/ m = n THEN <<>>
                            ELSE ConsistencyPath(m, First(leaves, n))]]
       /\ UNCHANGED <<leaves, disk, caller, issued>>

\* RootAt, after which the answer is complete.
RootAt(r) ==
    /\ reader[r].stage = "root"
    /\ reader' = [reader EXCEPT ![r] = [stage |-> "served", first |-> reader[r].first,
                     second |-> reader[r].second, path |-> reader[r].path,
                     root |-> TreeHash[First(leaves, reader[r].second)]]]
    /\ UNCHANGED <<leaves, disk, caller, issued>>

Answer(r) == /\ reader[r].stage = "served"
             /\ reader' = [reader EXCEPT ![r] = Free]
             /\ UNCHANGED <<leaves, disk, caller, issued>>

----------------------------------------------------------------------------
\* A restarted directory reads the log's file.
Restart == /\ leaves' = disk
           /\ caller' = [c \in Caller |-> Free]
           /\ reader' = [r \in Reader |-> Free]
           /\ UNCHANGED <<disk, issued>>

Init == /\ leaves = <<>> /\ disk = <<>> /\ issued = {}
        /\ caller = [c \in Caller |-> Free]
        /\ reader = [r \in Reader |-> Free]

Next == \/ \E c \in Caller, l \in Served : Begin(c, l)
        \/ \E c \in Caller : AppendLeaf(c)
        \/ \E c \in Caller : TakeHead(c)
        \/ \E c \in Caller : Prove(c)
        \/ \E c \in Caller : Finish(c)
        \/ ShowHead
        \/ \E r \in Reader : \E n \in 0..Len(leaves) : \E m \in 0..n : Ask(r, m, n)
        \/ \E r \in Reader : Path(r)
        \/ \E r \in Reader : RootAt(r)
        \/ \E r \in Reader : Answer(r)
        \/ Restart

Spec == Init /\ [][Next]_tvars

----------------------------------------------------------------------------
\* Properties.

\* logProof: whatever else uses the log meanwhile, the document that goes out
\* proves its set of nodes included under the head it carries.
ProofsVerify ==
    \A c \in Caller : caller[c].stage = "served" =>
        VerifyInclusion(caller[c].leaf, caller[c].index, caller[c].head.size,
                        caller[c].proof, caller[c].head.root)

\* dirServer.consistency: an answer built over three calls still links the two
\* sizes it names, for a client that holds an earlier head of that size.
AnswersVerify ==
    \A r \in Reader : reader[r].stage = "served" =>
        \A h \in {x \in issued : x.size = reader[r].first} :
            VerifyConsistency(h.size, reader[r].second, reader[r].path,
                              h.root, reader[r].root)

\* translog.go 265, README.md 187-195: the log is append-only, so every head a client
\* was given can be linked to the log as it is now.
HeadsStayProvable ==
    \A h \in issued :
        /\ h.size <= Len(leaves)
        /\ VerifyConsistency(h.size, Len(leaves),
                             IF h.size \in {0, Len(leaves)} THEN <<>>
                             ELSE ConsistencyPath(h.size, leaves),
                             h.root, TreeHash[leaves])

\* "TransparencyLog is an append-only log of the sets the directory served":
\* over crashes and restarts the log implements AppendOnlyLog; no set is logged
\* twice.
Promise == INSTANCE AppendOnlyLog WITH RootOf <- TreeHash, history <- leaves, heads <- issued
OnlyGrows == Promise!Spec
============================================================================
