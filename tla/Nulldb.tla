------------------------------- MODULE Nulldb -------------------------------
(***************************************************************************)
(* nulldb.cpp, the store in memory, and its users: the handlers of the     *)
(* server thread, and actionRun on the pool threads, which calls getAction *)
(* later.  Nulldb has no lock.  So getAction is taken apart here, into the *)
(* search by operator[] and the copy of what the pointer found points to,  *)
(* and a search in a tree that is being changed, or a copy of what is      *)
(* freed, may come out in any way.  The server thread has one handler at a *)
(* time; one handler is one step.                                          *)
(*                                                                         *)
(* With the process everything that is stored ends; the next one begins in *)
(* Init.                                                                   *)
(***************************************************************************)
EXTENDS Naturals, FiniteSets

CONSTANTS Names, Defs, Runs, None,
          Null   (* a key with a null pointer                              *)

ASSUME NullConstants == None \notin Names \cup Defs /\ Null \notin Defs \cup {None}

VARIABLES
  storage,  (* what each name leads to: a definition, Null, or None        *)
  wants,    (* the name each accepted run is going to fetch, or None       *)
  at,       (* where each run's getAction is                               *)
  found,    (* the pointer that its search has come to                     *)
  hit,      (* runs whose action was deleted since they were accepted, or  *)
            (* in whose search the tree was changed                        *)
  got, said, (* as in ActionStore                                          *)
  alive     (* has the process not crashed?                                *)

vars == <<storage, wants, at, found, hit, got, said, alive>>

Init ==
  /\ storage = [n \in Names |-> None]
  /\ wants = [r \in Runs |-> None] /\ got = [r \in Runs |-> None]
  /\ at = [r \in Runs |-> "out"] /\ found = [r \in Runs |-> None]
  /\ hit = {}
  /\ said = None
  /\ alive = TRUE

-----------------------------------------------------------------------------
(* The server thread                                                       *)

Say(to, n, done) == said' = [to |-> to, name |-> n, done |-> done]

(* Mutant: a key is looked for with operator[], which finds it always.     *)
HasAction_Inserts(n) == TRUE

HasAction(n) == storage[n] # None

Searching == {r \in Runs : at[r] = "search"}

(* Mutant: an action that exists is replaced, although a run copies it.    *)
Create_Replaces(n, d) ==
  /\ Say("create", n, TRUE)
  /\ storage' = [storage EXCEPT ![n] = d]
  /\ hit' = IF HasAction(n) THEN hit ELSE hit \cup Searching
  /\ UNCHANGED <<wants, at, found, got, alive>>

(* addAction: operator[] makes the node, and the pointer is filled in.     *)
(* Code that does not compile does not come here.                          *)
Create(n, d) ==
  /\ IF HasAction(n)
     THEN Say("create", n, FALSE) /\ UNCHANGED <<storage, hit>>
     ELSE /\ Say("create", n, TRUE)
          /\ storage' = [storage EXCEPT ![n] = d]
          /\ hit' = hit \cup Searching
  /\ UNCHANGED <<wants, at, found, got, alive>>

(* deleteAction: erase frees the node and the definition.                  *)
Delete(n) ==
  /\ IF HasAction(n)
     THEN /\ Say("delete", n, TRUE)
          /\ storage' = [storage EXCEPT ![n] = None]
          /\ hit' = hit \cup Searching \cup {r \in Runs : wants[r] = n}
     ELSE Say("delete", n, FALSE) /\ UNCHANGED <<storage, hit>>
  /\ UNCHANGED <<wants, at, found, got, alive>>

(* getActions: a null pointer in the map is followed.                      *)
List ==
  /\ alive' = (\A n \in Names : storage[n] # Null)
  /\ UNCHANGED <<storage, wants, at, found, hit, got, said>>

Accept(r, n) ==
  /\ wants[r] = None
  /\ Say("run", n, HasAction(n))
  /\ wants' = IF HasAction(n) THEN [wants EXCEPT ![r] = n] ELSE wants
  /\ at' = IF HasAction(n) THEN [at EXCEPT ![r] = "accepted"] ELSE at
  /\ UNCHANGED <<storage, found, hit, got, alive>>

-----------------------------------------------------------------------------
(* The pool threads: getAction                                             *)

Search(r) ==
  /\ at[r] = "accepted"
  /\ at' = [at EXCEPT ![r] = "search"]
  /\ UNCHANGED <<storage, wants, found, hit, got, said, alive>>

(* operator[]: what is there, or a new key with a null pointer.  That also *)
(* is a change of the tree.                                                *)
Find(r) ==
  LET n == wants[r]
  IN  /\ at[r] = "search"
      /\ at' = [at EXCEPT ![r] = "copy"]
      /\ \/ /\ storage[n] # None
            /\ found' = [found EXCEPT ![r] = storage[n]]
            /\ UNCHANGED <<storage, hit>>
         \/ /\ storage[n] = None \/ r \in hit
            /\ found' = [found EXCEPT ![r] = Null]
            /\ storage' = [storage EXCEPT ![n] = IF @ = None THEN Null ELSE @]
            /\ hit' = hit \cup (Searching \ {r})
      /\ UNCHANGED <<wants, got, said, alive>>

(* Return the definition by value.                                         *)
Copy(r) ==
  /\ at[r] = "copy" /\ found[r] # Null
  /\ \E d \in IF r \in hit THEN Defs ELSE {found[r]} : got' = [got EXCEPT ![r] = d]
  /\ at' = [at EXCEPT ![r] = "out"]
  /\ wants' = [wants EXCEPT ![r] = None]
  /\ found' = [found EXCEPT ![r] = None]
  /\ hit' = hit \ {r}
  /\ UNCHANGED <<storage, said, alive>>

(* A null pointer is followed, or one to nowhere, or a tree that is torn.  *)
Die(r) ==
  /\ \/ at[r] = "copy" /\ found[r] = Null
     \/ at[r] \in {"search", "copy"} /\ r \in hit
  /\ alive' = FALSE
  /\ UNCHANGED <<storage, wants, at, found, hit, got, said>>

Next ==
  /\ alive
  /\ \/ \E n \in Names :
          \/ \E d \in Defs : Create(n, d)
          \/ Delete(n)
          \/ \E r \in Runs : Accept(r, n)
     \/ List
     \/ \E r \in Runs : Search(r) \/ Find(r) \/ Copy(r) \/ Die(r)

Spec == Init /\ [][Next]_vars

-----------------------------------------------------------------------------
(* Properties                                                              *)

(* Types; and how pointers to nothing come into being: by a run that has   *)
(* been hit, and that is going to follow one.                              *)
NullInv ==
  /\ storage \in [Names -> Defs \cup {Null, None}]
  /\ wants \in [Runs -> Names \cup {None}]
  /\ at \in [Runs -> {"out", "accepted", "search", "copy"}]
  /\ found \in [Runs -> Defs \cup {Null, None}]
  /\ hit \subseteq Runs /\ alive \in BOOLEAN
  /\ \A r \in Runs :
       /\ at[r] = "out" <=> wants[r] = None
       /\ at[r] = "copy" <=> found[r] # None
       /\ wants[r] # None /\ r \notin hit =>
            /\ storage[wants[r]] # None
            /\ at[r] = "copy" => found[r] = storage[wants[r]]
  /\ (\E n \in Names : storage[n] = Null) => \E r \in hit : found[r] = Null

(* The process crashes only if a run was hit: the action of an accepted    *)
(* run was deleted, or the map was changed while a pool thread was in it.  *)
(* Without deletes and creates that overlap with runs Nulldb is safe.      *)
OnlyChangesKill == [][~alive' => hit # {}]_vars

(* As long as no run is hit, Nulldb is the map that MongoAdapter is, too.  *)
Mapped == INSTANCE ActionMap
            WITH map <- [n \in Names |-> IF storage[n] \in Defs THEN storage[n] ELSE None]

IsMapUntilHit ==
  Mapped!MapInit /\ [][hit = {} => Mapped!MapNext]_(Mapped!mapVars)

=============================================================================
