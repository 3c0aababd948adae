------------------------------ MODULE ActionMap ------------------------------
(***************************************************************************)
(* What persistence.h and the handlers of httpserver.cpp promise together: *)
(* a map from names to definitions in which a name is given once, until it *)
(* is deleted, and from which runs take what is there when they start.     *)
(***************************************************************************)

CONSTANTS Names,    (* names of actions                                    *)
          Defs,     (* definitions: bytecode and limits                    *)
          Runs,     (* accepted runs                                       *)
          None

VARIABLES map,      (* the definition under each name, or None             *)
          wants,    (* the name each run is going to fetch, or None        *)
          got,      (* what each run has fetched, None for nothing         *)
          said      (* the last answer to a client                         *)

mapVars == <<map, wants, got, said>>

Answer == [to : {"create", "delete", "run"}, name : Names, done : BOOLEAN]

Say(to, n, done) == said' = [to |-> to, name |-> n, done |-> done]

MapInit ==
  /\ map = [n \in Names |-> None]
  /\ wants = [r \in Runs |-> None] /\ got = [r \in Runs |-> None]
  /\ said = None

Put(n, d) == map[n] = None /\ map' = [map EXCEPT ![n] = d]

Drop(n) == map[n] # None /\ map' = [map EXCEPT ![n] = None]

Create(n, d) ==
  /\ \/ Put(n, d) /\ Say("create", n, TRUE)
     \/ map[n] # None /\ map' = map /\ Say("create", n, FALSE)
  /\ UNCHANGED <<wants, got>>

Delete(n) ==
  /\ \/ Drop(n) /\ Say("delete", n, TRUE)
     \/ map[n] = None /\ map' = map /\ Say("delete", n, FALSE)
  /\ UNCHANGED <<wants, got>>

Accept(r, n) ==
  /\ wants[r] = None
  /\ \/ /\ map[n] # None
        /\ wants' = [wants EXCEPT ![r] = n]
        /\ Say("run", n, TRUE)
     \/ /\ map[n] = None
        /\ wants' = wants
        /\ Say("run", n, FALSE)
  /\ UNCHANGED <<map, got>>

Fetch(r) ==
  /\ wants[r] # None
  /\ got' = [got EXCEPT ![r] = map[wants[r]]]
  /\ wants' = [wants EXCEPT ![r] = None]
  /\ UNCHANGED <<map, said>>

(* The process is started again.  Runs are lost, the map is not; a change  *)
(* may have been made whose client has had no answer.                      *)
Restart ==
  /\ \/ map' = map
     \/ \E n \in Names : Drop(n) \/ \E d \in Defs : Put(n, d)
  /\ wants' = [r \in Runs |-> None]
  /\ UNCHANGED <<got, said>>

MapNext ==
  \/ \E n \in Names :
       \/ \E d \in Defs : Create(n, d)
       \/ Delete(n)
       \/ \E r \in Runs : Accept(r, n)
  \/ \E r \in Runs : Fetch(r)
  \/ Restart

MapSpec == MapInit /\ [][MapNext]_mapVars

=============================================================================
