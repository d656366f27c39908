------------------------ MODULE TokenBindingProofs ------------------------
(***************************************************************************)
(* Of TokenBinding, for requests and runs of mint that do not overlap      *)
(* (Serial) but may crash at any step: the token file always holds exactly *)
(* the tokens that were printed, and keeps the identities it names.        *)
(*                                                                         *)
(* The argument is about the copy an actor carries from its read of the    *)
(* file to its rename: Faithful says that it is as good as the file, but   *)
(* for the token being minted.  With nobody else at work the file does not *)
(* change in between, and the temporary file is the actor's own.           *)
(***************************************************************************)
EXTENDS TokenBinding, TLAPS

Busy(a) == actor[a] # Idle

\* A table that could replace the file: it holds the tokens printed and the one
\* that a is minting, and every binding of the file.
Faithful(a, table) ==
    /\ table \in Table
    /\ \A t \in Token :
          /\ table[t] # Missing <=> (t \in minted \/ (a \in Minter /\ t = actor[a].token))
          /\ Tokens[t] \in Identity => table[t] = Tokens[t]

InAuth(a) == actor[a].id \in Identity /\ actor[a].token \in minted

InStore(a) == /\ actor[a].id \in Identity /\ actor[a].token \in minted
              /\ actor[a].bound = Tokens[actor[a].token]

InBind(a) == /\ actor[a].id \in Identity /\ actor[a].token \in minted
             /\ Tokens[actor[a].token] = Unbound

InOpen(a) == actor[a].token \in Token /\ Faithful(a, actor[a].data)

InWrite(a) == /\ actor[a].token \in Token /\ Faithful(a, actor[a].data)
              /\ tmp = actor[a].fd /\ tmp # Missing
              /\ content[actor[a].fd] = Empty

InRename(a) == /\ actor[a].token \in Token /\ tmp # Missing
               /\ Faithful(a, content[tmp])

Stage(a) ==
    \/ actor[a] = Idle
    \/ actor[a].pc = "auth" /\ InAuth(a)
    \/ actor[a].pc = "store" /\ InStore(a)
    \/ actor[a].pc = "bind" /\ InBind(a)
    \/ actor[a].pc = "open" /\ InOpen(a)
    \/ actor[a].pc = "write" /\ InWrite(a)
    \/ actor[a].pc = "rename" /\ InRename(a)

Shape ==
    /\ minted \subseteq Token
    /\ file \in Inode /\ tmp \in (Inode \ {file}) \cup {Missing}
    /\ content = [f \in Inode |-> content[f]]
    /\ actor = [a \in Actor |-> actor[a]]
    /\ admitted = [t \in Token |-> admitted[t]]

\* The file holds exactly the tokens printed.
FileExact == /\ content[file] \in Table
             /\ \A t \in Token : content[file][t] # Missing <=> t \in minted

OneAtWork == \A a, b \in Actor : Busy(a) /\ Busy(b) => a = b

TokenInv == /\ Shape
            /\ FileExact
            /\ OneAtWork
            /\ \A a \in Actor : Stage(a)

----------------------------------------------------------------------------
LEMMA InitTokenInv == Init => TokenInv
  <1> SUFFICES ASSUME Init PROVE TokenInv
    OBVIOUS
  <1>1. Shape
    BY TokenAssumption DEF Init, Shape
  <1>2. FileExact
    BY TokenAssumption DEF Init, FileExact, Table
  <1>3. OneAtWork /\ \A a \in Actor : Stage(a)
    BY DEF Init, OneAtWork, Busy, Stage
  <1> QED BY <1>1, <1>2, <1>3 DEF TokenInv

\* What an actor does leaves the others where they are: idle.
LEMMA OthersIdle ==
    ASSUME TokenInv, NEW a \in Actor, NEW state,
           \A b \in Actor \ {a} : ~Busy(b),
           Go(a, state)
    PROVE  /\ actor' = [b \in Actor |-> actor'[b]]
           /\ actor'[a] = state
           /\ OneAtWork'
           /\ \A b \in Actor \ {a} : Stage(b)'
  <1>1. actor' = [b \in Actor |-> IF b = a THEN state ELSE actor[b]]
    BY DEF Go, TokenInv, Shape
  <1>2. \A b \in Actor \ {a} : actor'[b] = Idle
    BY <1>1 DEF Busy
  <1> QED BY <1>1, <1>2 DEF OneAtWork, Busy, Stage

\* An actor past its first step is the only one at work.
LEMMA AtWork ==
    ASSUME TokenInv, NEW a \in Actor, Busy(a)
    PROVE  \A b \in Actor \ {a} : ~Busy(b)
  BY DEF TokenInv, OneAtWork

LEMMA BusyByPc ==
    ASSUME NEW a \in Actor, actor[a].pc # "idle"
    PROVE  Busy(a)
  BY DEF Busy, Idle

\* Where an actor stands, by its program counter.
LEMMA StageByPc ==
    ASSUME TokenInv, NEW a \in Actor
    PROVE  /\ actor[a].pc = "auth" => InAuth(a)
           /\ actor[a].pc = "store" => InStore(a)
           /\ actor[a].pc = "bind" => InBind(a)
           /\ actor[a].pc = "open" => InOpen(a)
           /\ actor[a].pc = "write" => InWrite(a)
           /\ actor[a].pc = "rename" => InRename(a)
  <1>1. Stage(a)
    BY DEF TokenInv
  <1>2. actor[a] = Idle => actor[a].pc = "idle"
    BY DEF Idle
  <1> HIDE DEF InAuth, InStore, InBind, InOpen, InWrite, InRename
  <1> QED BY <1>1, <1>2 DEF Stage

\* A step of one actor that leaves the files alone.
LEMMA FilesKept ==
    ASSUME TokenInv, NEW a \in Actor, NEW state,
           \A b \in Actor \ {a} : ~Busy(b),
           Go(a, state),
           UNCHANGED <<content, file, tmp, minted>>,
           admitted' = [t \in Token |-> admitted'[t]],
           Stage(a)'
    PROVE  TokenInv'
  <1>1. /\ actor' = [b \in Actor |-> actor'[b]]
        /\ OneAtWork'
        /\ \A b \in Actor \ {a} : Stage(b)'
    BY OthersIdle
  <1>2. Shape'
    BY <1>1 DEF TokenInv, Shape
  <1>3. FileExact'
    BY DEF TokenInv, FileExact
  <1> QED BY <1>1, <1>2, <1>3 DEF TokenInv

LEMMA RequestKeeps ==
    ASSUME Serial, TokenInv, NEW h \in Handler, NEW t \in Token, NEW i \in Identity,
           Request(h, t, i)
    PROVE  TokenInv'
  <1> DEFINE state == [pc |-> "auth", token |-> t, id |-> i]
  <1>0. h \in Actor
    BY DEF Actor
  <1>1. \A b \in Actor \ {h} : ~Busy(b)
    BY DEF Request, Alone, Busy
  <1>2. Go(h, state) /\ UNCHANGED <<content, file, tmp, minted, admitted>> /\ t \in minted
    BY DEF Request
  <1>3. actor'[h] = state
    BY <1>0, <1>1, <1>2, OthersIdle
  <1>4. Stage(h)'
    BY <1>2, <1>3 DEF Stage, InAuth
  <1>5. admitted' = [u \in Token |-> admitted'[u]]
    BY <1>2 DEF TokenInv, Shape
  <1> HIDE DEF state
  <1> QED BY <1>0, <1>1, <1>2, <1>4, <1>5, FilesKept

LEMMA AuthorizeKeeps ==
    ASSUME TokenInv, NEW h \in Handler, Authorize(h)
    PROVE  TokenInv'
  <1>0. h \in Actor
    BY DEF Actor
  <1>1. actor[h].pc = "auth"
    BY DEF Authorize
  <1>2. InAuth(h) /\ \A b \in Actor \ {h} : ~Busy(b)
    BY <1>0, <1>1, StageByPc, AtWork, BusyByPc
  <1>3. UNCHANGED <<content, file, tmp, minted, admitted>>
    BY DEF Authorize
  <1>4. admitted' = [u \in Token |-> admitted'[u]]
    BY <1>3 DEF TokenInv, Shape
  <1> DEFINE t == actor[h].token
  <1> DEFINE state == [pc |-> "store", token |-> t, id |-> actor[h].id, bound |-> Tokens[t]]
  <1>5. CASE Go(h, state)
    <2>1. actor'[h] = state
      BY <1>0, <1>2, <1>5, OthersIdle
    <2>2. Stage(h)'
      BY <1>2, <1>3, <2>1 DEF Stage, InAuth, InStore, Tokens
    <2> HIDE DEF state
    <2> QED BY <1>0, <1>2, <1>3, <1>4, <1>5, <2>2, FilesKept
  <1>6. CASE Go(h, Idle)
    <2>1. actor'[h] = Idle
      BY <1>0, <1>2, <1>6, OthersIdle
    <2>2. Stage(h)'
      BY <2>1 DEF Stage
    <2> QED BY <1>0, <1>2, <1>3, <1>4, <1>6, <2>2, FilesKept
  <1> QED BY <1>5, <1>6 DEF Authorize

LEMMA AdmitKeeps ==
    ASSUME TokenInv, NEW h \in Handler, Admit(h)
    PROVE  TokenInv'
  <1>0. h \in Actor
    BY DEF Actor
  <1>1. actor[h].pc = "store"
    BY DEF Admit
  <1>2. InStore(h) /\ \A b \in Actor \ {h} : ~Busy(b)
    BY <1>0, <1>1, StageByPc, AtWork, BusyByPc
  <1>3. UNCHANGED <<content, file, tmp, minted>>
    BY DEF Admit
  <1> DEFINE t == actor[h].token
             i == actor[h].id
             state == [pc |-> "bind", token |-> t, id |-> i]
  <1>4. admitted' = [u \in Token |-> admitted'[u]]
    BY DEF TokenInv, Shape, Admit
  <1>5. CASE actor[h].bound = Unbound /\ Go(h, state)
    <2>1. actor'[h] = state
      BY <1>0, <1>2, <1>5, OthersIdle
    <2>2. actor'[h].pc = "bind" /\ actor'[h].token = t /\ actor'[h].id = i
      BY <2>1
    <2>3. content[file][t] = Unbound /\ t \in minted /\ i \in Identity
      BY <1>2, <1>5 DEF InStore, Tokens
    <2>4. Stage(h)'
      BY <1>3, <2>2, <2>3 DEF Stage, InBind, Tokens
    <2> HIDE DEF state
    <2> QED BY <1>0, <1>2, <1>3, <1>4, <1>5, <2>4, FilesKept
  <1>6. CASE Go(h, Idle)
    <2>1. actor'[h] = Idle
      BY <1>0, <1>2, <1>6, OthersIdle
    <2>2. Stage(h)'
      BY <2>1 DEF Stage
    <2> QED BY <1>0, <1>2, <1>3, <1>4, <1>6, <2>2, FilesKept
  <1> QED BY <1>5, <1>6 DEF Admit

LEMMA RejectKeeps ==
    ASSUME TokenInv, NEW h \in Handler, Reject(h)
    PROVE  TokenInv'
  <1>0. h \in Actor
    BY DEF Actor
  <1>1. \A b \in Actor \ {h} : ~Busy(b)
    BY <1>0, AtWork, BusyByPc DEF Reject
  <1>2. Go(h, Idle) /\ UNCHANGED <<content, file, tmp, minted, admitted>>
    BY DEF Reject
  <1>3. actor'[h] = Idle
    BY <1>0, <1>1, <1>2, OthersIdle
  <1>4. Stage(h)'
    BY <1>3 DEF Stage
  <1>5. admitted' = [u \in Token |-> admitted'[u]]
    BY <1>2 DEF TokenInv, Shape
  <1> QED BY <1>0, <1>1, <1>2, <1>4, <1>5, FilesKept

LEMMA BindKeeps ==
    ASSUME TokenInv, NEW h \in Handler, Bind(h)
    PROVE  TokenInv'
  <1>0. h \in Actor
    BY DEF Actor
  <1>1. actor[h].pc = "bind"
    BY DEF Bind
  <1>2. InBind(h) /\ \A b \in Actor \ {h} : ~Busy(b)
    BY <1>0, <1>1, StageByPc, AtWork, BusyByPc
  <1>3. UNCHANGED <<content, file, tmp, minted, admitted>>
    BY DEF Bind
  <1>4. admitted' = [u \in Token |-> admitted'[u]]
    BY <1>3 DEF TokenInv, Shape
  <1> DEFINE t == actor[h].token
             i == actor[h].id
             table == [Tokens EXCEPT ![t] = i]
             state == [pc |-> "open", token |-> t, data |-> table]
  <1>5. CASE Go(h, state)
    <2>1. actor'[h] = state
      BY <1>0, <1>2, <1>5, OthersIdle
    <2>2. t \in Token /\ t \in minted /\ i \in Identity /\ Tokens[t] = Unbound
      BY <1>2 DEF InBind, TokenInv, Shape
    <2>3. table \in Table
      BY <2>2 DEF TokenInv, FileExact, Tokens, Table
    <2>4. \A u \in Token : /\ table[u] # Missing <=> u \in minted
                           /\ Tokens[u] \in Identity => table[u] = Tokens[u]
      BY <2>2, TokenAssumption DEF TokenInv, FileExact, Tokens, Table
    <2>5. Stage(h)'
      <3> HIDE DEF table, t
      <3>1. actor'[h].pc = "open" /\ actor'[h].token = t /\ actor'[h].data = table
        BY <2>1
      <3> QED BY <1>3, <2>2, <2>3, <2>4, <3>1 DEF Stage, InOpen, Faithful, Tokens
    <2> HIDE DEF state
    <2> QED BY <1>0, <1>2, <1>3, <1>4, <1>5, <2>5, FilesKept
  <1>6. CASE Go(h, Idle)
    <2>1. actor'[h] = Idle
      BY <1>0, <1>2, <1>6, OthersIdle
    <2>2. Stage(h)'
      BY <2>1 DEF Stage
    <2> QED BY <1>0, <1>2, <1>3, <1>4, <1>6, <2>2, FilesKept
  <1> QED BY <1>5, <1>6 DEF Bind

LEMMA MintKeeps ==
    ASSUME Serial, TokenInv, NEW m \in Minter, NEW t \in Token, Mint(m, t)
    PROVE  TokenInv'
  <1>0. m \in Actor
    BY DEF Actor
  <1>1. \A b \in Actor \ {m} : ~Busy(b)
    BY DEF Mint, Alone, Busy
  <1>2. UNCHANGED <<content, file, tmp, minted, admitted>> /\ t \notin minted
    BY DEF Mint
  <1>3. admitted' = [u \in Token |-> admitted'[u]]
    BY <1>2 DEF TokenInv, Shape
  <1> DEFINE table == [Tokens EXCEPT ![t] = Unbound]
             state == [pc |-> "open", token |-> t, data |-> table]
  <1>4. Go(m, state)
    BY DEF Mint, TokenInv, FileExact, Readable
  <1>5. actor'[m] = state
    BY <1>0, <1>1, <1>4, OthersIdle
  <1>6. table \in Table
    BY DEF TokenInv, FileExact, Tokens, Table
  <1>7. \A u \in Token : /\ table[u] # Missing <=> (u \in minted \/ u = t)
                         /\ Tokens[u] \in Identity => table[u] = Tokens[u]
    BY <1>2, TokenAssumption DEF TokenInv, FileExact, Tokens, Table
  <1>8. Stage(m)'
    <2> HIDE DEF table
    <2>1. actor'[m].pc = "open" /\ actor'[m].token = t /\ actor'[m].data = table
      BY <1>5
    <2> QED BY <1>2, <1>6, <1>7, <2>1 DEF Stage, InOpen, Faithful, Tokens
  <1> HIDE DEF state
  <1> QED BY <1>0, <1>1, <1>2, <1>3, <1>4, <1>8, FilesKept

----------------------------------------------------------------------------
\* Opening truncates the temporary file or a file without a name.
LEMMA OpenKeeps ==
    ASSUME TokenInv, NEW a \in Actor, Open(a)
    PROVE  TokenInv'
  <1>1. actor[a].pc = "open"
    BY DEF Open
  <1>2. InOpen(a) /\ \A b \in Actor \ {a} : ~Busy(b)
    BY <1>1, StageByPc, AtWork, BusyByPc
  <1>3. PICK f \in Inode \ {file} :
           /\ tmp' = f
           /\ content' = [content EXCEPT ![f] = Empty]
           /\ Go(a, [pc |-> "write", token |-> actor[a].token, data |-> actor[a].data,
                     fd |-> f])
    BY DEF Open, TokenInv, Shape
  <1>4. UNCHANGED <<file, minted, admitted>>
    BY DEF Open
  <1> DEFINE state == [pc |-> "write", token |-> actor[a].token, data |-> actor[a].data,
                       fd |-> f]
  <1>5. /\ actor' = [b \in Actor |-> actor'[b]]
        /\ actor'[a] = state
        /\ OneAtWork'
        /\ \A b \in Actor \ {a} : Stage(b)'
    BY <1>2, <1>3, OthersIdle
  <1>6. content' = [g \in Inode |-> IF g = f THEN Empty ELSE content[g]]
    BY <1>3 DEF TokenInv, Shape
  <1>7. content'[file'] = content[file] /\ content'[f] = Empty
    BY <1>3, <1>4, <1>6 DEF TokenInv, Shape
  <1>8. Shape'
    BY <1>3, <1>4, <1>5, <1>6 DEF TokenInv, Shape
  <1>9. FileExact'
    BY <1>4, <1>7 DEF TokenInv, FileExact
  <1>10. Stage(a)'
    <2>1. /\ actor'[a].pc = "write" /\ actor'[a].token = actor[a].token
          /\ actor'[a].data = actor[a].data /\ actor'[a].fd = f
      BY <1>5
    <2>2. Faithful(a, actor[a].data)'
      BY <1>2, <1>4, <1>7, <2>1 DEF InOpen, Faithful, Tokens
    <2>3. InWrite(a)'
      BY <1>2, <1>3, <1>7, <2>1, <2>2, TokenAssumption DEF InWrite, InOpen
    <2> QED BY <2>1, <2>3 DEF Stage
  <1> QED BY <1>5, <1>8, <1>9, <1>10 DEF TokenInv

LEMMA WriteKeeps ==
    ASSUME TokenInv, NEW a \in Actor, Write(a)
    PROVE  TokenInv'
  <1>1. actor[a].pc = "write"
    BY DEF Write
  <1>2. InWrite(a) /\ \A b \in Actor \ {a} : ~Busy(b)
    BY <1>1, StageByPc, AtWork, BusyByPc
  <1>3. tmp \in Inode /\ tmp # file /\ tmp = actor[a].fd
    BY <1>2 DEF InWrite, TokenInv, Shape
  <1>4. content' = [content EXCEPT ![tmp] = actor[a].data]
    BY <1>2, <1>3 DEF Write, InWrite
  <1>5. /\ Go(a, [pc |-> "rename", token |-> actor[a].token])
        /\ UNCHANGED <<file, tmp, minted, admitted>>
    BY DEF Write
  <1>6. /\ actor' = [b \in Actor |-> actor'[b]]
        /\ actor'[a] = [pc |-> "rename", token |-> actor[a].token]
        /\ OneAtWork'
        /\ \A b \in Actor \ {a} : Stage(b)'
    BY <1>2, <1>5, OthersIdle
  <1>7. content' = [g \in Inode |-> IF g = tmp THEN actor[a].data ELSE content[g]]
    BY <1>4 DEF TokenInv, Shape
  <1>8. content'[file] = content[file] /\ content'[tmp] = actor[a].data
    BY <1>3, <1>7 DEF TokenInv, Shape
  <1>9. Shape'
    BY <1>5, <1>6, <1>7 DEF TokenInv, Shape
  <1>10. FileExact'
    BY <1>5, <1>8 DEF TokenInv, FileExact
  <1>11. Stage(a)'
    <2>1. actor'[a].pc = "rename" /\ actor'[a].token = actor[a].token
      BY <1>6
    <2>2. Faithful(a, content[tmp])'
      BY <1>2, <1>5, <1>8, <2>1 DEF InWrite, Faithful, Tokens
    <2>3. InRename(a)'
      BY <1>2, <1>5, <2>1, <2>2 DEF InRename, InWrite
    <2> QED BY <2>1, <2>3 DEF Stage
  <1> QED BY <1>6, <1>9, <1>10, <1>11 DEF TokenInv

\* What the rename puts in the file's place.
LEMMA RenameGives ==
    ASSUME TokenInv, NEW a \in Actor, Rename(a)
    PROVE  /\ tmp \in Inode
           /\ file' = tmp /\ tmp' = Missing /\ content' = content
           /\ Faithful(a, content[tmp]) /\ actor[a].token \in Token
           /\ minted' = IF a \in Minter THEN minted \cup {actor[a].token} ELSE minted
  <1>1. InRename(a)
    BY StageByPc DEF Rename
  <1> QED BY <1>1 DEF Rename, InRename, TokenInv, Shape

LEMMA RenameKeeps ==
    ASSUME TokenInv, NEW a \in Actor, Rename(a)
    PROVE  TokenInv'
  <1>1. \A b \in Actor \ {a} : ~Busy(b)
    BY AtWork, BusyByPc DEF Rename
  <1>2. Go(a, Idle) /\ UNCHANGED admitted
    BY DEF Rename
  <1>3. /\ actor' = [b \in Actor |-> actor'[b]]
        /\ actor'[a] = Idle
        /\ OneAtWork'
        /\ \A b \in Actor \ {a} : Stage(b)'
    BY <1>1, <1>2, OthersIdle
  <1>4. Shape'
    BY <1>2, <1>3, RenameGives, TokenAssumption DEF TokenInv, Shape
  <1>5. FileExact'
    <2>1. content'[file'] = content[tmp]
      BY RenameGives
    <2>2. \A t \in Token : t \in minted' <=> (t \in minted \/ (a \in Minter /\ t = actor[a].token))
      BY RenameGives
    <2> QED BY <2>1, <2>2, RenameGives DEF FileExact, Faithful
  <1>6. Stage(a)'
    BY <1>3 DEF Stage
  <1> QED BY <1>3, <1>4, <1>5, <1>6 DEF TokenInv

\* A crash makes some of the actors idle and leaves the files.
LEMMA CrashKeeps ==
    ASSUME TokenInv,
           UNCHANGED <<content, file, tmp, minted, admitted>>,
           actor' = [a \in Actor |-> actor'[a]],
           \A a \in Actor : actor'[a] \in {actor[a], Idle}
    PROVE  TokenInv'
  <1>1. Shape'
    BY DEF TokenInv, Shape
  <1>2. FileExact'
    BY DEF TokenInv, FileExact
  <1>3. OneAtWork'
    BY DEF TokenInv, OneAtWork, Busy
  <1>4. ASSUME NEW a \in Actor
        PROVE  Stage(a)'
    <2>1. CASE actor'[a] = Idle
      BY <2>1 DEF Stage
    <2>2. CASE actor'[a] = actor[a]
      <3>1. Stage(a)
        BY DEF TokenInv
      <3> QED BY <2>2, <3>1 DEF Stage, InAuth, InStore, InBind, InOpen, InWrite, InRename,
                                Faithful, Tokens
    <2> QED BY <2>1, <2>2
  <1> QED BY <1>1, <1>2, <1>3, <1>4 DEF TokenInv

LEMMA NextTokenInv ==
    ASSUME Serial, TokenInv, [Next]_vars
    PROVE  TokenInv'
  <1>1. CASE \E h \in Handler, t \in Token, i \in Identity : Request(h, t, i)
    BY <1>1, RequestKeeps
  <1>2. CASE \E h \in Handler : Authorize(h) \/ Admit(h) \/ Reject(h) \/ Bind(h)
    BY <1>2, AuthorizeKeeps, AdmitKeeps, RejectKeeps, BindKeeps
  <1>3. CASE \E m \in Minter, t \in Token : Mint(m, t)
    BY <1>3, MintKeeps
  <1>4. CASE \E a \in Actor : Open(a) \/ Write(a) \/ Rename(a)
    BY <1>4, OpenKeeps, WriteKeeps, RenameKeeps
  <1>5. CASE CrashDirectory
    BY <1>5, CrashKeeps DEF CrashDirectory
  <1>6. CASE \E m \in Minter : CrashMint(m)
    <2>1. PICK m \in Minter : CrashMint(m)
      BY <1>6
    <2>2. actor' = [a \in Actor |-> IF a = m THEN Idle ELSE actor[a]]
      BY <2>1 DEF CrashMint, Go, TokenInv, Shape
    <2>3. UNCHANGED <<content, file, tmp, minted, admitted>>
      BY <2>1 DEF CrashMint
    <2> QED BY <2>2, <2>3, CrashKeeps
  <1>7. CASE UNCHANGED vars
    <2>1. actor' = [a \in Actor |-> actor'[a]]
      BY <1>7 DEF vars, TokenInv, Shape
    <2> QED BY <1>7, <2>1, CrashKeeps DEF vars
  <1> QED BY <1>1, <1>2, <1>3, <1>4, <1>5, <1>6, <1>7 DEF Next

----------------------------------------------------------------------------
LEMMA AlwaysTokenInv == ASSUME Serial PROVE Spec => []TokenInv
  <1>1. Init => TokenInv
    BY InitTokenInv
  <1>2. TokenInv /\ [Next]_vars => TokenInv'
    BY NextTokenInv
  <1> QED BY <1>1, <1>2, PTL DEF Spec

\* Whatever crashes, and whenever, the token file can be read and holds every
\* token that was printed (MintToken, bindToken, writeJSONAtomic), as long as
\* requests and runs of mint do not overlap.
THEOREM PrintedTokensStay == ASSUME Serial PROVE Spec => []NothingLost
  <1>1. TokenInv => NothingLost
    BY DEF TokenInv, Shape, FileExact, NothingLost, Readable, Tokens
  <1> QED BY <1>1, AlwaysTokenInv, PTL

LEMMA StepKeepsBindings ==
    ASSUME Serial, TokenInv, TokenInv', [Next]_vars,
           NEW t \in Token, Readable, Tokens[t] \in Identity
    PROVE  /\ Readable' /\ Tokens'[t] = Tokens[t]
           /\ admitted'[t] \subseteq admitted[t] \cup {Tokens[t]}
  <1>1. Readable'
    BY DEF TokenInv, FileExact, Readable
  <1>2. Tokens'[t] = Tokens[t]
    <2>1. CASE \E a \in Actor : Rename(a)
      <3>1. PICK a \in Actor : Rename(a)
        BY <2>1
      <3>2. content'[file'] = content[tmp] /\ Faithful(a, content[tmp])
        BY <3>1, RenameGives
      <3> QED BY <3>2 DEF Faithful, Tokens
    <2>2. CASE \E a \in Actor : Open(a)
      <3>1. PICK a \in Actor : Open(a)
        BY <2>2
      <3>2. PICK f \in Inode \ {file} : content' = [content EXCEPT ![f] = Empty]
        BY <3>1 DEF Open, TokenInv, Shape
      <3>3. content'[file] = content[file] /\ file' = file
        BY <3>1, <3>2 DEF Open, TokenInv, Shape
      <3> QED BY <3>3 DEF Tokens
    <2>3. CASE \E a \in Actor : Write(a)
      <3>1. PICK a \in Actor : Write(a)
        BY <2>3
      <3>2. tmp # file /\ tmp = actor[a].fd
        BY <3>1, StageByPc DEF Write, InWrite, TokenInv, Shape
      <3>3. PICK new : content' = [content EXCEPT ![tmp] = new]
        BY <3>1, <3>2 DEF Write
      <3>4. content'[file] = content[file] /\ file' = file
        BY <3>1, <3>2, <3>3 DEF Write, TokenInv, Shape
      <3> QED BY <3>4 DEF Tokens
    <2>4. CASE UNCHANGED <<content, file>>
      BY <2>4 DEF Tokens
    <2> QED BY <2>1, <2>2, <2>3, <2>4 DEF Next, vars, Request, Authorize, Admit, Reject, Bind,
                                         Mint, CrashDirectory, CrashMint
  <1>3. admitted'[t] \subseteq admitted[t] \cup {Tokens[t]}
    <2>1. CASE \E h \in Handler : Admit(h)
      <3>1. PICK h \in Handler : Admit(h)
        BY <2>1
      <3>2. InStore(h)
        BY <3>1, StageByPc DEF Admit, Actor
      <3>3. CASE actor[h].token = t
        <4>1. actor[h].bound = Tokens[t] /\ actor[h].bound # Unbound
          BY <3>2, <3>3, TokenAssumption DEF InStore
        <4>2. actor[h].id = Tokens[t]
          BY <3>1, <4>1 DEF Admit
        <4>3. admitted'[t] = admitted[t] \cup {Tokens[t]}
          BY <3>1, <3>3, <4>2 DEF Admit, TokenInv, Shape
        <4> QED BY <4>3
      <3>4. CASE actor[h].token # t
        <4>1. admitted'[t] = admitted[t]
          BY <3>1, <3>4 DEF Admit, TokenInv, Shape
        <4> QED BY <4>1
      <3> QED BY <3>3, <3>4
    <2>2. CASE UNCHANGED admitted
      BY <2>2
    <2> QED BY <2>1, <2>2 DEF Next, vars, Request, Authorize, Reject, Bind,
                              Mint, Open, Write, Rename, CrashDirectory, CrashMint
  <1> QED BY <1>1, <1>2, <1>3

\* An identity that the file names for a token stays there, and no other is
\* registered with it from then on (bindToken, register), as long as requests
\* and runs of mint do not overlap.
THEOREM BindingsStay == ASSUME Serial PROVE Spec => BindingHolds
  <1>1. TokenInv /\ TokenInv' /\ [Next]_vars
           => [\A t \in Token : (Readable /\ Tokens[t] \in Identity) =>
                 /\ Readable' /\ Tokens'[t] = Tokens[t]
                 /\ admitted'[t] \subseteq admitted[t] \cup {Tokens[t]}]_vars
    BY StepKeepsBindings
  <1> QED BY <1>1, AlwaysTokenInv, PTL DEF Spec, BindingHolds
============================================================================
