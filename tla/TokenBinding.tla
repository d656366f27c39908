--------------------------- MODULE TokenBinding ---------------------------
(***************************************************************************)
(* The file of individual tokens (src/directory.go): /register handlers    *)
(* that look a token up, register the node and then bind the token to the  *)
(* node's identity, and "mint" processes that add tokens.  Nothing locks   *)
(* the file: each of them reads it whole, changes its copy and writes it   *)
(* whole with writeJSONAtomic, whose temporary file has one fixed name.    *)
(* The directory or a run of mint may crash between any two system calls.  *)
(*                                                                         *)
(* Files are inodes: WriteFile opens and truncates the inode the temporary *)
(* name leads to (a new one if there is none) and writes to it, Rename     *)
(* gives that name's inode the name of the token file.  A handler's        *)
(* Store.Register is the step Admit; what else the store may object to is  *)
(* the step Reject.  Labels are left out: whether mint finds an unused     *)
(* token with its label is a choice.                                       *)
(***************************************************************************)
EXTENDS Naturals, FiniteSets

CONSTANTS
    Token, Identity,
    Handler, Minter,   \* handlers of the directory, runs of "mint"
    Inode,             \* inodes to choose a new file from
    Unbound,           \* the empty ID of a tokenEntry
    Missing,           \* a token that is not in the map; no temporary file
    Empty, Torn,       \* content of a truncated file; of one written over
    Serial             \* TRUE: requests and runs of mint never overlap

ASSUME TokenAssumption ==
    /\ Missing \notin Identity \cup Inode
    /\ Unbound \notin Identity \cup {Missing}

VARIABLES
    content,    \* what each inode holds
    file, tmp,  \* the inodes under the two names; tmp may be Missing
    actor,      \* per handler and minter: where it stands
    minted,     \* history: the tokens printed
    admitted    \* history: per token, the identities registered with it

vars == <<content, file, tmp, actor, minted, admitted>>

Actor == Handler \cup Minter
Table == [Token -> Identity \cup {Unbound, Missing}]

\* loadTokens: nil when the file does not parse.
Readable == content[file] \in Table
Tokens == content[file]

Idle == [pc |-> "idle"]
Alone == Serial => \A a \in Actor : actor[a] = Idle

Go(a, state) == actor' = [actor EXCEPT ![a] = state]

----------------------------------------------------------------------------
\* POST /register with an individual token.

Request(h, t, i) ==
    /\ Alone /\ actor[h] = Idle /\ t \in minted
    /\ Go(h, [pc |-> "auth", token |-> t, id |-> i])
    /\ UNCHANGED <<content, file, tmp, minted, admitted>>

\* The token is looked up; boundID is what the file says now.
Authorize(h) ==
    LET t == actor[h].token
    IN /\ actor[h].pc = "auth"
       /\ IF Readable /\ Tokens[t] # Missing
          THEN Go(h, [pc |-> "store", token |-> t, id |-> actor[h].id, bound |-> Tokens[t]])
          ELSE Go(h, Idle)                                               \* 401
       /\ UNCHANGED <<content, file, tmp, minted, admitted>>

\* Faulty variant for BindingHolds: the bound identity is not compared.
AdmitAnyone(h) ==
    LET t == actor[h].token
        i == actor[h].id
    IN /\ actor[h].pc = "store"
       /\ admitted' = [admitted EXCEPT ![t] = @ \cup {i}]
       /\ Go(h, IF actor[h].bound = Unbound THEN [pc |-> "bind", token |-> t, id |-> i]
                ELSE Idle)
       /\ UNCHANGED <<content, file, tmp, minted>>

\* Store.Register succeeds: the token is free or bound to this identity.
Admit(h) ==
    LET t == actor[h].token
        i == actor[h].id
    IN /\ actor[h].pc = "store"
       /\ actor[h].bound \in {Unbound, i}
       /\ admitted' = [admitted EXCEPT ![t] = @ \cup {i}]
       /\ Go(h, IF actor[h].bound = Unbound THEN [pc |-> "bind", token |-> t, id |-> i]
                ELSE Idle)
       /\ UNCHANGED <<content, file, tmp, minted>>

\* Store.Register fails, for the token or for a reason of the store's own.
Reject(h) == /\ actor[h].pc = "store"
             /\ Go(h, Idle)
             /\ UNCHANGED <<content, file, tmp, minted, admitted>>

\* bindToken reads the file again and puts the identity in its copy, whatever
\* identity is there by now.  An error is logged and the node is answered 200.
Bind(h) ==
    LET t == actor[h].token
        i == actor[h].id
    IN /\ actor[h].pc = "bind"
       /\ IF Readable /\ Tokens[t] \notin {Missing, i}
          THEN Go(h, [pc |-> "open", token |-> t, data |-> [Tokens EXCEPT ![t] = i]])
          ELSE Go(h, Idle)
       /\ UNCHANGED <<content, file, tmp, minted, admitted>>

----------------------------------------------------------------------------
\* Faulty variant for NothingLost: mint never starts from the tokens there are.
MintAfresh(m, t) ==
    /\ Alone /\ actor[m] = Idle /\ t \notin minted
    /\ \A a \in Minter \ {m} : actor[a] # Idle => actor[a].token # t
    /\ Go(m, [pc |-> "open", token |-> t,
              data |-> [u \in Token |-> IF u = t THEN Unbound ELSE Missing]])
    /\ UNCHANGED <<content, file, tmp, minted, admitted>>

\* MintToken: an unreadable file counts as an empty map; the token is random.
Mint(m, t) ==
    /\ Alone /\ actor[m] = Idle /\ t \notin minted
    /\ \A a \in Minter \ {m} : actor[a] # Idle => actor[a].token # t
    /\ Go(m, [pc |-> "open", token |-> t,
              data |-> IF Readable THEN [Tokens EXCEPT ![t] = Unbound]
                       ELSE [u \in Token |-> IF u = t THEN Unbound ELSE Missing]])
    /\ UNCHANGED <<content, file, tmp, minted, admitted>>

----------------------------------------------------------------------------
\* writeJSONAtomic.

\* The inodes that are open for writing.
Written == {actor[a].fd : a \in {b \in Actor : actor[b].pc = "write"}}

\* WriteFile opens the temporary file with O_CREATE|O_TRUNC ...
Open(a) ==
    /\ actor[a].pc = "open"
    /\ \E f \in IF tmp # Missing THEN {tmp} ELSE Inode \ ({file} \cup Written) :
          /\ tmp' = f
          /\ content' = [content EXCEPT ![f] = Empty]
          /\ Go(a, [pc |-> "write", token |-> actor[a].token, data |-> actor[a].data,
                    fd |-> f])
    /\ UNCHANGED <<file, minted, admitted>>

\* ... and writes; over another writer's bytes the result may be a mixture.
Write(a) ==
    LET f == actor[a].fd
    IN /\ actor[a].pc = "write"
       /\ \E new \in IF content[f] = Empty THEN {actor[a].data} ELSE {actor[a].data, Torn} :
             content' = [content EXCEPT ![f] = new]
       /\ Go(a, [pc |-> "rename", token |-> actor[a].token])
       /\ UNCHANGED <<file, tmp, minted, admitted>>

\* Rename fails when another writer has renamed the temporary file already;
\* mint prints the token when it succeeds.
Rename(a) ==
    /\ actor[a].pc = "rename"
    /\ \/ tmp = Missing /\ UNCHANGED <<file, tmp, minted>>
       \/ /\ tmp # Missing
          /\ file' = tmp /\ tmp' = Missing
          /\ minted' = IF a \in Minter THEN minted \cup {actor[a].token} ELSE minted
    /\ Go(a, Idle)
    /\ UNCHANGED <<content, admitted>>

----------------------------------------------------------------------------
\* Crashes.  The files stay as they are; a restarted directory reads nothing of
\* the token file until a request needs it.

CrashDirectory ==
    /\ actor' = [a \in Actor |-> IF a \in Handler THEN Idle ELSE actor[a]]
    /\ UNCHANGED <<content, file, tmp, minted, admitted>>

CrashMint(m) == /\ Go(m, Idle)
                /\ UNCHANGED <<content, file, tmp, minted, admitted>>

----------------------------------------------------------------------------
\* Some tokens have been printed, none has been used.
Init ==
    /\ minted \in SUBSET Token
    /\ file \in Inode
    /\ content = [f \in Inode |->
          IF f = file THEN [t \in Token |-> IF t \in minted THEN Unbound ELSE Missing]
          ELSE Empty]
    /\ tmp = Missing
    /\ actor = [a \in Actor |-> Idle]
    /\ admitted = [t \in Token |-> {}]

Next ==
    \/ \E h \in Handler, t \in Token, i \in Identity : Request(h, t, i)
    \/ \E h \in Handler : Authorize(h)
    \/ \E h \in Handler : Admit(h)
    \/ \E h \in Handler : Reject(h)
    \/ \E h \in Handler : Bind(h)
    \/ \E m \in Minter, t \in Token : Mint(m, t)
    \/ \E a \in Actor : Open(a)
    \/ \E a \in Actor : Write(a)
    \/ \E a \in Actor : Rename(a)
    \/ CrashDirectory
    \/ \E m \in Minter : CrashMint(m)

Spec == Init /\ [][Next]_vars

----------------------------------------------------------------------------
\* Properties.

\* tokenEntry: "the first successful registration binds the token to the node's
\* identity, and another node will not register with it any more".
OneIdentityPerToken == \A t \in Token : Cardinality(admitted[t]) <= 1

\* bindToken and register: an identity the file names for a token stays there,
\* and no other identity is registered with the token after that.
BindingHolds ==
    [][\A t \in Token : (Readable /\ Tokens[t] \in Identity) =>
          /\ Readable' /\ Tokens'[t] = Tokens[t]
          /\ admitted'[t] \subseteq admitted[t] \cup {Tokens[t]}]_vars

\* MintToken/writeJSONAtomic: whatever crashes, and whenever, the file can be
\* read and holds every token that was printed.
NothingLost == Readable /\ \A t \in minted : Tokens[t] # Missing
============================================================================
