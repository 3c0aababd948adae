--------------------------- MODULE InvocationRing ---------------------------
(***************************************************************************)
(* invocationring.h / invocationring.cpp: the map in which the result of a *)
(* non-blocking run meets the request that asks for it.  putCallback is    *)
(* called by the HTTP server thread (GET /invocation/:id), putAction by    *)
(* the event loop thread (end of a non-blocking run).  Both hold _lock     *)
(* from their first to their last line, so each is one step.               *)
(*                                                                         *)
(* A baton is named by its invocation id: the counter that numbers them is *)
(* never reset, so an id stands for one ActionBaton.                       *)
(*                                                                         *)
(* posted, asked and calls are histories: the ring itself keeps only the   *)
(* map.  They record what its callers did and which callbacks it ran.      *)
(***************************************************************************)

CONSTANTS Ids,        (* invocation ids: keys of the map                   *)
          Callbacks,  (* the std::function objects, one for each request   *)
          None,       (* null pointer, empty std::function, absent key     *)
          Wild        (* what an uninitialized non-null pointer reads as   *)

(* The Invocation record.  Its member `action` has no initializer.         *)
Entry == [action : Ids \cup {None, Wild}, callback : Callbacks \cup {None}]

ASSUME RingConstants ==
  /\ None \notin Ids \cup Callbacks \cup Entry \cup {Wild}
  /\ Wild \notin Ids

VARIABLES ring,       (* *ptr: the map from ids to Invocation records      *)
          posted,     (* ids given to putAction so far                     *)
          asked,      (* the id given to putCallback with each callback    *)
          calls       (* the pairs <<callback, action>> of the calls made  *)

ringVars == <<ring, posted, asked, calls>>

-----------------------------------------------------------------------------

RingInit ==
  /\ ring = [id \in Ids |-> None]
  /\ posted = {}
  /\ asked = [cb \in Callbacks |-> None]
  /\ calls = {}

(* A callback was called with an undefined pointer: it reads act->code     *)
(* through it and the process is gone.                                     *)
Crashed == \E call \in calls : call[2] = Wild

Stored(id) == ring[id] # None /\ ring[id].action # None

-----------------------------------------------------------------------------
(* putCallback                                                             *)

(* Mutant: the key is overwritten without looking it up first.             *)
RegisterCallback_Overwrites(id, cb) ==
  /\ \E residue \in {None, Wild} :
       ring' = [ring EXCEPT ![id] = [action |-> residue, callback |-> cb]]
  /\ UNCHANGED calls

(* The key is new: `Invocation inv; inv.callback = cb;` leaves inv.action  *)
(* uninitialized and copies it into the map.  Whatever it holds matters    *)
(* only as null or not null.                                               *)
RegisterCallback(id, cb) ==
  /\ ring[id] = None
  /\ \E residue \in {None, Wild} :
       ring' = [ring EXCEPT ![id] = [action |-> residue, callback |-> cb]]
  /\ UNCHANGED calls

(* The key exists and its action reads as null: cb is dropped.             *)
DropCallback(id, cb) ==
  /\ ring[id] # None
  /\ ~Stored(id)
  /\ UNCHANGED <<ring, calls>>

(* Mutant: the entry stays in the map after its action was collected.      *)
CollectAction_KeepsEntry(id, cb) ==
  /\ Stored(id)
  /\ calls' = calls \cup {<<cb, ring[id].action>>}
  /\ UNCHANGED ring

(* The key exists and its action does not read as null: cb gets it and the *)
(* entry goes away.                                                        *)
CollectAction(id, cb) ==
  /\ Stored(id)
  /\ calls' = calls \cup {<<cb, ring[id].action>>}
  /\ ring' = [ring EXCEPT ![id] = None]

PutCallback(id, cb) ==
  /\ ~Crashed
  /\ asked[cb] = None
  /\ asked' = [asked EXCEPT ![cb] = id]
  /\ RegisterCallback(id, cb) \/ DropCallback(id, cb) \/ CollectAction(id, cb)
  /\ UNCHANGED posted

-----------------------------------------------------------------------------
(* putAction                                                               *)

(* Mutant: the callback that waits is erased without being called.         *)
CallBack_Forgets(id) ==
  /\ ring[id] # None
  /\ ring' = [ring EXCEPT ![id] = None]
  /\ UNCHANGED calls

(* The key exists: its callback gets the action and the entry goes away.   *)
CallBack(id) ==
  /\ ring[id] # None
  /\ calls' = calls \cup {<<ring[id].callback, id>>}
  /\ ring' = [ring EXCEPT ![id] = None]

(* Mutant: a waiting callback is overwritten by the action.                *)
StoreAction_Overwrites(id) ==
  /\ ring' = [ring EXCEPT ![id] = [action |-> id, callback |-> None]]
  /\ UNCHANGED calls

(* The key is new: the action waits in the map for a callback.             *)
StoreAction(id) ==
  /\ ring[id] = None
  /\ ring' = [ring EXCEPT ![id] = [action |-> id, callback |-> None]]
  /\ UNCHANGED calls

PutAction(id) ==
  /\ ~Crashed
  /\ posted' = posted \cup {id}
  /\ CallBack(id) \/ StoreAction(id)
  /\ UNCHANGED asked

-----------------------------------------------------------------------------
(* The ring in an environment that does what the server does with it: each *)
(* callback is registered once, and each id gets its action once.          *)

RingNext ==
  \E id \in Ids :
    \/ id \notin posted /\ PutAction(id)
    \/ \E cb \in Callbacks : PutCallback(id, cb)

RingSpec == RingInit /\ [][RingNext]_ringVars

-----------------------------------------------------------------------------
(* Properties                                                              *)

(* Types.  In particular putAction never calls an empty std::function      *)
(* (invocationring.cpp:42-43 does not test it): every call was made on a   *)
(* callback that was registered.                                           *)
RingTypeOK ==
  /\ ring \in [Ids -> Entry \cup {None}]
  /\ posted \subseteq Ids
  /\ asked \in [Callbacks -> Ids \cup {None}]
  /\ calls \subseteq Callbacks \X (Ids \cup {Wild})

Served(cb) == \E call \in calls : call[1] = cb

HandedOut(id) == \E call \in calls : call[2] = id

(* The result of a run is given to one request only, and to one that asked *)
(* for this run (invocationring.cpp:23-24 and 43-44: call, then erase).    *)
HandedOutOnce ==
  \A call, other \in calls :
    /\ call[2] \in Ids => asked[call[1]] = call[2]
    /\ call[2] = other[2] /\ call[2] \in Ids => call = other

(* A result given to putAction is in the map until a callback has had it,  *)
(* and not any longer: whichever of the two calls came first.              *)
NoResultLost ==
  \A id \in posted :
    HandedOut(id) <=> ~(ring[id] # None /\ ring[id].action = id)

(* A request that is the only one to ask for an id is answered as soon as  *)
(* the result is there, whether it asked before the run ended or after.    *)
SoleAskerServed ==
  \A cb \in Callbacks :
    /\ asked[cb] \in posted
    /\ \A other \in Callbacks : asked[other] = asked[cb] => other = cb
    => <<cb, asked[cb]>> \in calls

(* Why the four hold.  An entry with a callback is a request that waits    *)
(* for a run that has not ended, or for one whose result is gone; an entry *)
(* without one is the result of a run that nobody had yet.                 *)
EntryMeans(id) ==
  LET e == ring[id] IN
  e # None =>
    IF e.callback = None
    THEN e.action = id /\ id \in posted /\ ~HandedOut(id)
    ELSE /\ e.action \in {None, Wild}
         /\ asked[e.callback] = id
         /\ ~Served(e.callback)
         /\ id \notin posted \/ HandedOut(id)

(* The inductive invariant.  Its last part says that a request that waits  *)
(* for a run keeps its id in the map, so that putAction finds it there.    *)
RingInv ==
  /\ RingTypeOK
  /\ HandedOutOnce
  /\ NoResultLost
  /\ SoleAskerServed
  /\ \A id \in Ids : EntryMeans(id)
  /\ \A id \in Ids : HandedOut(id) => id \in posted
  /\ \A cb \in Callbacks : Served(cb) => asked[cb] # None
  /\ \A cb \in Callbacks :
       asked[cb] \in Ids \ posted /\ ~Crashed => ring[asked[cb]] # None
  /\ \A cb \in Callbacks :
       /\ asked[cb] \in Ids \ posted
       /\ \A other \in Callbacks : asked[other] = asked[cb] => other = cb
       => ring[asked[cb]] # None /\ ring[asked[cb]].callback = cb

(* The ring keeps the promise of ResultExchange.                           *)
Exchange == INSTANCE ResultExchange
ExchangeSpec == Exchange!Spec

=============================================================================
