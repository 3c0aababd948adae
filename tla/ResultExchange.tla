--------------------------- MODULE ResultExchange ---------------------------
(***************************************************************************)
(* What the invocation ring promises to the rest of the server, without    *)
(* the map it is built on: results are posted under an invocation id,      *)
(* callbacks ask for an id, and a posted result is handed to exactly one   *)
(* callback that asked for it: at once if one is waiting, and otherwise to *)
(* the next one that asks.                                                 *)
(*                                                                         *)
(* A callback that asks for an id while another one is still unserved is   *)
(* outside of the promise: it may be ignored, or it may bring the process  *)
(* down (it is called with the undefined pointer Wild).                    *)
(***************************************************************************)

CONSTANTS Ids,        (* invocation ids                                    *)
          Callbacks,  (* closures, one for each request that asks          *)
          None,       (* "no id yet"                                       *)
          Wild        (* an undefined, non-null pointer                    *)

VARIABLES posted,     (* the ids whose result has been posted              *)
          asked,      (* the id each callback asked for, or None           *)
          calls       (* the pairs <<callback, result>> of the calls made  *)

vars == <<posted, asked, calls>>

Init == /\ posted = {}
        /\ asked = [cb \in Callbacks |-> None]
        /\ calls = {}

Crashed == \E call \in calls : call[2] = Wild

Served(cb) == \E call \in calls : call[1] = cb

HandedOut(id) == \E call \in calls : call[2] = id

Unserved(id) == {cb \in Callbacks : asked[cb] = id /\ ~Served(cb)}

Post(id) ==
  /\ ~Crashed
  /\ id \notin posted
  /\ posted' = posted \cup {id}
  /\ IF Unserved(id) = {}
     THEN calls' = calls
     ELSE \E cb \in Unserved(id) : calls' = calls \cup {<<cb, id>>}
  /\ UNCHANGED asked

Ask(id, cb) ==
  /\ ~Crashed
  /\ asked[cb] = None
  /\ asked' = [asked EXCEPT ![cb] = id]
  /\ \/ /\ id \in posted /\ ~HandedOut(id)
        /\ calls' = calls \cup {<<cb, id>>}
     \/ /\ id \notin posted \/ HandedOut(id)
        /\ calls' = calls
     \/ /\ Unserved(id) # {}
        /\ calls' = calls \cup {<<cb, Wild>>}
  /\ UNCHANGED posted

Next == \E id \in Ids : Post(id) \/ \E cb \in Callbacks : Ask(id, cb)

Spec == Init /\ [][Next]_vars

=============================================================================
