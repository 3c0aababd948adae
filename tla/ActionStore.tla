----------------------------- MODULE ActionStore -----------------------------
(***************************************************************************)
(* mongoadapter.cpp and its users: the handlers of httpserver.cpp, which   *)
(* ask hasAction and then act, on the server thread, and actionRun, which  *)
(* fetches the definition later, on a pool thread.  Each call is one step, *)
(* because the adapter locks a mutex in each of its functions; a handler   *)
(* makes two, and pool threads come in between.                            *)
(*                                                                         *)
(* From some time on the database may fail at any call.  The adapter logs  *)
(* that and answers all the same.  The process may end at any time, and    *)
(* the documents stay.  What it has sent to the database is carried out,   *)
(* or not, before it is started again.                                     *)
(***************************************************************************)
EXTENDS Naturals, Sequences

CONSTANTS Names, Defs, Runs, None

ASSUME StoreConstants == None \notin Names \cup Defs

VARIABLES
  docs,      (* the documents of each name, in the order of insertion      *)
  pending,   (* what the handler is about to do after hasAction, or None   *)
  wants,     (* the name each accepted run is going to fetch, or None      *)
  got,       (* what each run has fetched, None for an empty definition    *)
  said,      (* the last answer to a client                                *)
  told,      (* history: the definition of each name that a client was     *)
             (* told is created and nobody has asked to delete, or None    *)
  failing    (* may a call to the database fail?                           *)

vars == <<docs, pending, wants, got, said, told, failing>>

Pending == [to : {"create"}, name : Names, def : Defs]
             \cup [to : {"delete"}, name : Names]

Answer == [to : {"create", "delete", "run"}, name : Names, done : BOOLEAN]

Init ==
  /\ docs = [n \in Names |-> <<>>]
  /\ pending = None
  /\ wants = [r \in Runs |-> None] /\ got = [r \in Runs |-> None]
  /\ said = None /\ told = [n \in Names |-> None]
  /\ failing = FALSE

-----------------------------------------------------------------------------
(* MongoAdapter: what each call may return, or leave in the database       *)

(* What getAction takes from the cursor: the last document it comes to.    *)
Current(n) == IF docs[n] = <<>> THEN None ELSE docs[n][Len(docs[n])]

(* Mutant: an error counts as "there is none".                             *)
HasAction_FalseOnError(n) ==
  {docs[n] # <<>>} \cup (IF failing THEN {FALSE} ELSE {})

(* A negative count, that is an error, is taken for "there is one".        *)
HasAction(n) == {docs[n] # <<>>} \cup (IF failing THEN {TRUE} ELSE {})

(* A cursor that fails ends like one that has no more documents.           *)
GetAction(n) == {Current(n)} \cup (IF failing THEN {None} ELSE {})

AddAction(n, d) ==
  {[docs EXCEPT ![n] = Append(@, d)]} \cup (IF failing THEN {docs} ELSE {})

(* Mutant: the query does not match.                                       *)
DeleteAction_OtherName(n) == {docs}

(* Mutant: the query is empty, any document may be the first.              *)
DeleteAction_AnyName(n) ==
  {[docs EXCEPT ![m] = IF @ = <<>> THEN @ ELSE Tail(@)] : m \in Names}

(* delete_one: the first document, if there is one.                        *)
DeleteAction(n) ==
  {[docs EXCEPT ![n] = IF @ = <<>> THEN @ ELSE Tail(@)]}
    \cup (IF failing THEN {docs} ELSE {})

-----------------------------------------------------------------------------
(* The server thread: one handler at a time                                *)

Say(to, n, done) == said' = [to |-> to, name |-> n, done |-> done]

CheckCreate(n, d) ==
  /\ pending = None
  /\ \E has \in HasAction(n) :
       IF has
       THEN Say("create", n, FALSE) /\ pending' = pending
       ELSE /\ pending' = [to |-> "create", name |-> n, def |-> d]
            /\ said' = said
  /\ UNCHANGED <<docs, wants, got, told, failing>>

(* What the client is told here can be relied on as long as the database   *)
(* has not failed.                                                         *)
Insert ==
  /\ pending # None /\ pending.to = "create"
  /\ docs' \in AddAction(pending.name, pending.def)
  /\ Say("create", pending.name, TRUE)
  /\ told' = IF failing THEN told ELSE [told EXCEPT ![pending.name] = pending.def]
  /\ pending' = None
  /\ UNCHANGED <<wants, got, failing>>

(* The code does not compile: the client is told so, nothing is stored.    *)
Reject ==
  /\ pending # None /\ pending.to = "create"
  /\ pending' = None
  /\ UNCHANGED <<docs, wants, got, said, told, failing>>

CheckDelete(n) ==
  /\ pending = None
  /\ \E has \in HasAction(n) :
       IF has
       THEN /\ pending' = [to |-> "delete", name |-> n] /\ said' = said
            /\ told' = [told EXCEPT ![n] = None]
       ELSE Say("delete", n, FALSE) /\ UNCHANGED <<pending, told>>
  /\ UNCHANGED <<docs, wants, got, failing>>

Remove ==
  /\ pending # None /\ pending.to = "delete"
  /\ docs' \in DeleteAction(pending.name)
  /\ Say("delete", pending.name, TRUE)
  /\ pending' = None
  /\ UNCHANGED <<wants, got, told, failing>>

(* POST /actions/:id and .../block: a run is accepted if there is such an  *)
(* action now.                                                             *)
Accept(r, n) ==
  /\ pending = None /\ wants[r] = None
  /\ \E has \in HasAction(n) :
       /\ Say("run", n, has)
       /\ wants' = IF has THEN [wants EXCEPT ![r] = n] ELSE wants
  /\ UNCHANGED <<docs, pending, got, told, failing>>

-----------------------------------------------------------------------------
(* The pool threads, and the process                                       *)

Fetch(r) ==
  /\ wants[r] # None
  /\ \E d \in GetAction(wants[r]) : got' = [got EXCEPT ![r] = d]
  /\ wants' = [wants EXCEPT ![r] = None]
  /\ UNCHANGED <<docs, pending, said, told, failing>>

(* The process has ended and is started again.  An insert or a delete that *)
(* was sent may have been carried out; no answer was.                      *)
Restart ==
  /\ \/ docs' = docs
     \/ /\ pending # None /\ pending.to = "create"
        /\ docs' \in AddAction(pending.name, pending.def)
     \/ /\ pending # None /\ pending.to = "delete"
        /\ docs' \in DeleteAction(pending.name)
  /\ pending' = None
  /\ wants' = [r \in Runs |-> None]
  /\ UNCHANGED <<got, said, told, failing>>

(* From now on calls may fail: the network, the server, the disk.          *)
Break ==
  /\ ~failing
  /\ failing' = TRUE
  /\ UNCHANGED <<docs, pending, wants, got, said, told>>

Next ==
  \/ \E n \in Names :
       \/ \E d \in Defs : CheckCreate(n, d)
       \/ CheckDelete(n)
       \/ \E r \in Runs : Accept(r, n)
  \/ Insert \/ Reject \/ Remove
  \/ \E r \in Runs : Fetch(r)
  \/ Restart \/ Break

Spec == Init /\ [][Next]_vars

-----------------------------------------------------------------------------
(* Properties                                                              *)

TypeOK ==
  /\ docs \in [Names -> Seq(Defs)]
  /\ pending \in Pending \cup {None}
  /\ wants \in [Runs -> Names \cup {None}]
  /\ got \in [Runs -> Defs \cup {None}]
  /\ said \in Answer \cup {None}
  /\ told \in [Names -> Defs \cup {None}]
  /\ failing \in BOOLEAN

(* What a client was told is created, by a database that had not failed by *)
(* then, is the one document of its name until a client asks to delete it: *)
(* other creates of the name, deletes of other names, failures of the      *)
(* database and the end of the process at any point leave it as it is.     *)
KeptAsTold == \A n \in Names : told[n] # None => docs[n] = <<told[n]>>

(* The inductive invariant: no name has two documents, although nothing in *)
(* the database forbids it, the check and the insert are two calls and     *)
(* each of them may fail; what is about to be inserted is not there yet,   *)
(* and what is about to be deleted is there, unless hasAction had failed,  *)
(* and is promised to nobody any more.                                     *)
StoreInv ==
  /\ TypeOK
  /\ KeptAsTold
  /\ \A n \in Names : Len(docs[n]) <= 1
  /\ pending # None /\ pending.to = "create" => docs[pending.name] = <<>>
  /\ pending # None /\ pending.to = "delete" =>
       told[pending.name] = None /\ (~failing => docs[pending.name] # <<>>)

(* Until the database fails the handlers' check-then-act and the late      *)
(* fetch are the operations of one map: see ActionMap.                     *)
Mapped == INSTANCE ActionMap WITH map <- [n \in Names |-> Current(n)]

ImplementsMap ==
  Mapped!MapInit /\ [][~failing => Mapped!MapNext]_(Mapped!mapVars)

=============================================================================
