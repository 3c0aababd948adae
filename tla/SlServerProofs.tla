--------------------------- MODULE SlServerProofs ---------------------------
(***************************************************************************)
(* Proofs about the ring, for every set of ids and callbacks, and about    *)
(* SlServer, for any number of clients, addresses, actions, pool threads   *)
(* and jobs, whether clients disconnect or not: ServerInv is inductive, so *)
(* jobs wait in order, are in one place and are not used after they were   *)
(* deleted; the server implements JobLifecycle, and uses the ring as       *)
(* RingSpec says; and the result of a run is sent once.  As long as no     *)
(* client disconnects, a client gets one reply and only the result it      *)
(* asked for.                                                              *)
(***************************************************************************)
EXTENDS SlServer, TLAPS

-----------------------------------------------------------------------------
(* The ring by itself: RingInv is inductive, so the safety properties of   *)
(* the ring hold, and the ring implements ResultExchange.  The theorems    *)
(* about the server use these.                                             *)

(* No parts of the invariant can be broken by an empty ring.               *)
LEMMA RingInvInit == RingInit => RingInv
<1> SUFFICES ASSUME RingInit PROVE RingInv
  OBVIOUS
<1> USE RingConstants DEF RingInit
<1>1. RingTypeOK
  BY DEF RingTypeOK
<1>2. HandedOutOnce /\ NoResultLost
  BY DEF HandedOutOnce, NoResultLost, HandedOut
<1>3. \A cb \in Callbacks : asked[cb] \notin Ids
  OBVIOUS
<1>4. SoleAskerServed
  BY DEF SoleAskerServed
<1>5. \A id \in Ids : EntryMeans(id)
  BY DEF EntryMeans
<1> QED
  BY <1>1, <1>2, <1>3, <1>4, <1>5 DEF RingInv, HandedOut, Served

(* What a call of a callback changes about who was served with what.       *)
LEMMA CallMade ==
  ASSUME NEW cb, NEW action, calls' = calls \cup {<<cb, action>>}
  PROVE  /\ \A c : Served(c)' <=> Served(c) \/ c = cb
         /\ \A i : HandedOut(i)' <=> HandedOut(i) \/ i = action
         /\ Crashed' <=> Crashed \/ action = Wild
<1>1. \A call : call \in calls' <=> call \in calls \/ call = <<cb, action>>
  OBVIOUS
<1>2. /\ <<cb, action>>[1] = cb
      /\ <<cb, action>>[2] = action
  OBVIOUS
<1>3. \A c : Served(c)' <=> Served(c) \/ c = cb
  BY <1>1, <1>2, Zenon DEF Served
<1>4. \A i : HandedOut(i)' <=> HandedOut(i) \/ i = action
  BY <1>1, <1>2, Zenon DEF HandedOut
<1>5. Crashed' <=> Crashed \/ action = Wild
  BY <1>1, <1>2, Zenon DEF Crashed
<1> QED
  BY <1>3, <1>4, <1>5

(* putAction of an id that was not posted before.                          *)
LEMMA PutActionKeepsInv ==
  ASSUME RingInv, NEW id \in Ids, id \notin posted, PutAction(id)
  PROVE  RingInv'
<1> USE RingConstants
<1>1. RingTypeOK'
  <2>1. CASE CallBack(id)
    <3>1. ring[id] # None /\ ring[id] \in Entry
      BY <2>1 DEF CallBack, RingInv, RingTypeOK
    <3>2. ring[id].callback \in Callbacks
      BY <3>1 DEF RingInv, EntryMeans, Entry
    <3> QED
      BY <2>1, <3>2 DEF CallBack, PutAction, RingInv, RingTypeOK
  <2>2. CASE StoreAction(id)
    BY <2>2 DEF StoreAction, PutAction, RingInv, RingTypeOK, Entry
  <2> QED
    BY <2>1, <2>2 DEF PutAction
<1> DEFINE cb == ring[id].callback
<1>2. CASE CallBack(id)
  <2> USE <1>2 DEF CallBack, PutAction
  <2>1. /\ ring[id] # None
        /\ cb \in Callbacks
        /\ asked[cb] = id
        /\ ~Served(cb)
        /\ ~HandedOut(id)
    BY DEF RingInv, RingTypeOK, EntryMeans, Entry
  <2>2. /\ \A c \in Callbacks : Served(c)' <=> Served(c) \/ c = cb
        /\ \A i \in Ids : HandedOut(i)' <=> HandedOut(i) \/ i = id
        /\ Crashed' <=> Crashed
    BY <2>1, CallMade
  <2>3. \A i \in Ids : i # id => ring'[i] = ring[i]
    BY DEF RingInv, RingTypeOK
  <2>4. ring'[id] = None
    BY DEF RingInv, RingTypeOK
  <2>5. HandedOutOnce'
    BY <2>1, <2>2 DEF RingInv, RingTypeOK, HandedOutOnce, HandedOut
  <2>6. NoResultLost'
    BY <2>1, <2>2, <2>3, <2>4 DEF RingInv, RingTypeOK, NoResultLost
  <2>7. SoleAskerServed'
    BY <2>1 DEF RingInv, RingTypeOK, SoleAskerServed
  <2>8. \A i \in Ids : EntryMeans(i)'
    <3> SUFFICES ASSUME NEW i \in Ids PROVE EntryMeans(i)'
      OBVIOUS
    <3>1. CASE i = id
      BY <3>1, <2>4 DEF EntryMeans
    <3>2. CASE i # id /\ ring[i] # None
      <4>1. EntryMeans(i)
        BY DEF RingInv
      <4>2. ring[i].callback # None => ring[i].callback \in Callbacks /\ ring[i].callback # cb
        BY <3>2, <4>1, <2>1 DEF RingInv, RingTypeOK, Entry, EntryMeans
      <4> QED
        BY <3>2, <4>1, <4>2, <2>2, <2>3 DEF EntryMeans
    <3>3. CASE i # id /\ ring[i] = None
      BY <3>3, <2>3 DEF EntryMeans
    <3> QED
      BY <3>1, <3>2, <3>3
  <2>9. \A i \in Ids : HandedOut(i)' => i \in posted'
    BY <2>2 DEF RingInv, RingTypeOK
  <2>10. \A c \in Callbacks : Served(c)' => asked'[c] # None
    BY <2>1, <2>2 DEF RingInv, RingTypeOK
  <2>11. \A c \in Callbacks :
           asked'[c] \in Ids \ posted' /\ ~Crashed' => ring'[asked'[c]] # None
    BY <2>2, <2>3 DEF RingInv, RingTypeOK
  <2>12. \A c \in Callbacks :
          /\ asked'[c] \in Ids \ posted'
          /\ \A other \in Callbacks : asked'[other] = asked'[c] => other = c
          => ring'[asked'[c]] # None /\ ring'[asked'[c]].callback = c
    BY <2>3 DEF RingInv, RingTypeOK
  <2> QED
    BY <1>1, <2>5, <2>6, <2>7, <2>8, <2>9, <2>10, <2>11, <2>12 DEF RingInv
<1>3. CASE StoreAction(id)
  <2> USE <1>3 DEF StoreAction, PutAction
  <2>1. /\ \A c \in Callbacks : Served(c)' <=> Served(c)
        /\ \A i \in Ids : HandedOut(i)' <=> HandedOut(i)
        /\ Crashed' <=> Crashed
    BY DEF Served, HandedOut, Crashed
  <2>2. /\ \A i \in Ids : i # id => ring'[i] = ring[i]
        /\ ring'[id] = [action |-> id, callback |-> None]
        /\ ring'[id] # None
        /\ ~HandedOut(id)
    BY DEF RingInv, RingTypeOK, Entry
  <2>3. \A c \in Callbacks : asked[c] # id
    BY DEF RingInv, RingTypeOK
  <2>4. HandedOutOnce'
    BY DEF RingInv, HandedOutOnce
  <2>5. NoResultLost'
    BY <2>1, <2>2 DEF RingInv, RingTypeOK, NoResultLost
  <2>6. SoleAskerServed'
    BY <2>3 DEF RingInv, RingTypeOK, SoleAskerServed
  <2>7. \A i \in Ids : EntryMeans(i)'
    <3> SUFFICES ASSUME NEW i \in Ids PROVE EntryMeans(i)'
      OBVIOUS
    <3>1. CASE i = id
      BY <3>1, <2>1, <2>2 DEF EntryMeans, RingInv, RingTypeOK
    <3>2. CASE i # id /\ ring[i] # None
      <4>1. EntryMeans(i)
        BY DEF RingInv
      <4>2. ring[i].callback # None => ring[i].callback \in Callbacks
        BY <3>2 DEF RingInv, RingTypeOK, Entry
      <4> QED
        BY <3>2, <4>1, <4>2, <2>1, <2>2 DEF EntryMeans
    <3>3. CASE i # id /\ ring[i] = None
      BY <3>3, <2>2 DEF EntryMeans
    <3> QED
      BY <3>1, <3>2, <3>3
  <2>8. \A i \in Ids : HandedOut(i)' => i \in posted'
    BY <2>1 DEF RingInv, RingTypeOK
  <2>9. \A c \in Callbacks : Served(c)' => asked'[c] # None
    BY <2>1 DEF RingInv, RingTypeOK
  <2>10. \A c \in Callbacks :
           asked'[c] \in Ids \ posted' /\ ~Crashed' => ring'[asked'[c]] # None
    BY <2>1, <2>2 DEF RingInv, RingTypeOK
  <2>11. \A c \in Callbacks :
          /\ asked'[c] \in Ids \ posted'
          /\ \A other \in Callbacks : asked'[other] = asked'[c] => other = c
          => ring'[asked'[c]] # None /\ ring'[asked'[c]].callback = c
    BY <2>2 DEF RingInv, RingTypeOK
  <2> QED
    BY <1>1, <2>4, <2>5, <2>6, <2>7, <2>8, <2>9, <2>10, <2>11 DEF RingInv
<1> QED
  BY <1>2, <1>3 DEF PutAction

(* putCallback with a callback that was not used before.                   *)
LEMMA PutCallbackKeepsInv ==
  ASSUME RingInv, NEW id \in Ids, NEW cb \in Callbacks, PutCallback(id, cb)
  PROVE  RingInv'
<1> USE RingConstants DEF PutCallback
<1>a. /\ asked \in [Callbacks -> Ids \cup {None}]
      /\ asked'[cb] = id
      /\ \A c \in Callbacks : c # cb => asked'[c] = asked[c]
      /\ asked[cb] = None /\ id # None /\ id # Wild
      /\ ~Served(cb)
      /\ posted' = posted /\ posted \subseteq Ids /\ None \notin posted
  BY DEF RingInv, RingTypeOK
<1>b. \A i \in Ids : /\ ring[i] # None /\ ring[i].callback # None
                     => ring[i].callback \in Callbacks \ {cb}
  BY <1>a DEF RingInv, RingTypeOK, EntryMeans, Entry
<1>1. CASE RegisterCallback(id, cb)
  <2> USE <1>1 DEF RegisterCallback
  <2>1. PICK residue \in {None, Wild} :
          ring' = [ring EXCEPT ![id] = [action |-> residue, callback |-> cb]]
    OBVIOUS
  <2>2. /\ \A i \in Ids : i # id => ring'[i] = ring[i]
        /\ ring'[id] = [action |-> residue, callback |-> cb]
        /\ ring'[id] \in Entry
        /\ ring[id] = None
    BY <2>1 DEF RingInv, RingTypeOK, Entry
  <2>3. /\ \A c : Served(c)' <=> Served(c)
        /\ \A i : HandedOut(i)' <=> HandedOut(i)
        /\ Crashed' <=> Crashed
    BY DEF Served, HandedOut, Crashed
  <2>4. RingTypeOK'
    BY <2>1, <2>2, <1>a DEF RingInv, RingTypeOK
  <2>5. HandedOutOnce'
    <3>1. \A call \in calls : call[1] \in Callbacks /\ Served(call[1])
      BY DEF Served, RingInv, RingTypeOK
    <3> QED
      BY <3>1, <1>a DEF RingInv, HandedOutOnce
  <2>6. id \in posted => HandedOut(id)
    BY <2>2 DEF RingInv, NoResultLost
  <2>7. NoResultLost'
    BY <2>2, <2>3, <2>6, <1>a DEF RingInv, RingTypeOK, NoResultLost
  <2>8. SoleAskerServed'
    <3> SUFFICES ASSUME NEW c \in Callbacks, asked'[c] \in posted,
                        \A other \in Callbacks : asked'[other] = asked'[c] => other = c
                 PROVE  <<c, asked'[c]>> \in calls
      BY DEF SoleAskerServed
    <3>1. CASE c = cb
      <4>1. PICK call \in calls : call[2] = id
        BY <3>1, <1>a, <2>6 DEF HandedOut
      <4>2. call[1] \in Callbacks /\ asked[call[1]] = id
        BY <4>1 DEF RingInv, HandedOutOnce, RingTypeOK
      <4> QED
        BY <3>1, <4>2, <1>a
    <3>2. CASE c # cb
      BY <3>2, <1>a DEF RingInv, SoleAskerServed
    <3> QED
      BY <3>1, <3>2
  <2>9. \A i \in Ids : EntryMeans(i)'
    <3> SUFFICES ASSUME NEW i \in Ids PROVE EntryMeans(i)'
      OBVIOUS
    <3>1. CASE i = id
      BY <3>1, <2>2, <2>3, <2>6, <1>a DEF EntryMeans
    <3>2. CASE i # id
      <4>1. EntryMeans(i)
        BY DEF RingInv
      <4> QED
        BY <3>2, <4>1, <2>2, <2>3, <1>a, <1>b DEF EntryMeans
    <3> QED
      BY <3>1, <3>2
  <2>10. \A i \in Ids : HandedOut(i)' => i \in posted'
    BY <2>3, <1>a DEF RingInv
  <2>11. \A c \in Callbacks : Served(c)' => asked'[c] # None
    BY <2>3, <1>a DEF RingInv
  <2>12. \A c \in Callbacks :
           asked'[c] \in Ids \ posted' /\ ~Crashed' => ring'[asked'[c]] # None
    BY <2>2, <2>3, <1>a DEF RingInv
  <2>13. \A c \in Callbacks :
          /\ asked'[c] \in Ids \ posted'
          /\ \A other \in Callbacks : asked'[other] = asked'[c] => other = c
          => ring'[asked'[c]] # None /\ ring'[asked'[c]].callback = c
    BY <2>2, <1>a DEF RingInv
  <2> QED
    BY <2>4, <2>5, <2>7, <2>8, <2>9, <2>10, <2>11, <2>12, <2>13 DEF RingInv
<1>2. CASE DropCallback(id, cb)
  <2> USE <1>2 DEF DropCallback
  <2>1. /\ ring' = ring /\ calls' = calls
        /\ \A c : Served(c)' <=> Served(c)
        /\ \A i : HandedOut(i)' <=> HandedOut(i)
        /\ Crashed' <=> Crashed
    BY DEF Served, HandedOut, Crashed
  <2>2. ring[id] # None /\ ring[id].action = None
    BY DEF Stored
  <2>3. ring[id].callback \in Callbacks /\ asked[ring[id].callback] = id
    BY <2>2, <1>b DEF RingInv, EntryMeans
  <2>4. RingTypeOK'
    BY <2>1, <1>a DEF RingInv, RingTypeOK
  <2>5. HandedOutOnce'
    <3>1. \A call \in calls : call[1] \in Callbacks /\ Served(call[1])
      BY DEF Served, RingInv, RingTypeOK
    <3> QED
      BY <3>1, <2>1, <1>a DEF RingInv, HandedOutOnce
  <2>6. NoResultLost'
    BY <2>1, <1>a DEF RingInv, NoResultLost
  <2>7. SoleAskerServed'
    BY <2>1, <2>3, <1>a, <1>b DEF RingInv, SoleAskerServed
  <2>8. \A i \in Ids : EntryMeans(i)'
    <3> SUFFICES ASSUME NEW i \in Ids PROVE EntryMeans(i)'
      OBVIOUS
    <3>1. EntryMeans(i)
      BY DEF RingInv
    <3> QED
      BY <3>1, <2>1, <1>a, <1>b DEF EntryMeans
  <2>9. \A i \in Ids : HandedOut(i)' => i \in posted'
    BY <2>1, <1>a DEF RingInv
  <2>10. \A c \in Callbacks : Served(c)' => asked'[c] # None
    BY <2>1, <1>a DEF RingInv
  <2>11. \A c \in Callbacks :
           asked'[c] \in Ids \ posted' /\ ~Crashed' => ring'[asked'[c]] # None
    BY <2>1, <2>2, <1>a DEF RingInv
  <2>12. \A c \in Callbacks :
          /\ asked'[c] \in Ids \ posted'
          /\ \A other \in Callbacks : asked'[other] = asked'[c] => other = c
          => ring'[asked'[c]] # None /\ ring'[asked'[c]].callback = c
    BY <2>1, <2>3, <1>a, <1>b, <2>2 DEF RingInv
  <2> QED
    BY <2>4, <2>5, <2>6, <2>7, <2>8, <2>9, <2>10, <2>11, <2>12 DEF RingInv
<1>3. CASE CollectAction(id, cb)
  <2> DEFINE action == ring[id].action
  <2> USE <1>3 DEF CollectAction
  <2>1. /\ ring[id] # None /\ action # None
        /\ \A i \in Ids : i # id => ring'[i] = ring[i]
        /\ ring'[id] = None
        /\ ring[id] \in Entry
        /\ calls' = calls \cup {<<cb, action>>}
    BY DEF RingInv, RingTypeOK, Stored
  <2>2. /\ \A c : Served(c)' <=> Served(c) \/ c = cb
        /\ \A i : HandedOut(i)' <=> HandedOut(i) \/ i = action
        /\ Crashed' <=> Crashed \/ action = Wild
    BY <2>1, CallMade
  <2>3. \/ action = id /\ id \in posted /\ ~HandedOut(id) /\ ring[id].callback = None
        \/ /\ action = Wild
           /\ ring[id].callback \in Callbacks \ {cb}
           /\ asked[ring[id].callback] = id
           /\ id \notin posted \/ HandedOut(id)
    BY <2>1, <1>b DEF RingInv, EntryMeans
  <2>4. RingTypeOK'
    BY <2>1, <2>3, <1>a DEF RingInv, RingTypeOK
  <2>5. HandedOutOnce'
    <3>1. \A call \in calls : call[1] \in Callbacks /\ call[1] # cb
      BY <1>a DEF Served, RingInv, RingTypeOK
    <3>2. \A call \in calls : call[2] \in Ids => call[2] # action
      BY <2>3 DEF HandedOut
    <3> QED
      BY <3>1, <3>2, <2>1, <2>3, <1>a DEF RingInv, HandedOutOnce
  <2>6. NoResultLost'
    BY <2>1, <2>2, <2>3, <1>a DEF RingInv, NoResultLost
  <2>7. SoleAskerServed'
    BY <2>1, <2>3, <1>a DEF RingInv, SoleAskerServed
  <2>8. \A i \in Ids : EntryMeans(i)'
    <3> SUFFICES ASSUME NEW i \in Ids PROVE EntryMeans(i)'
      OBVIOUS
    <3>1. CASE i = id
      BY <3>1, <2>1 DEF EntryMeans
    <3>2. CASE i # id
      <4>1. EntryMeans(i)
        BY DEF RingInv
      <4>2. HandedOut(i)' <=> HandedOut(i)
        BY <3>2, <2>2, <2>3
      <4> QED
        BY <3>2, <4>1, <4>2, <2>1, <2>2, <1>a, <1>b DEF EntryMeans
    <3> QED
      BY <3>1, <3>2
  <2>9. \A i \in Ids : HandedOut(i)' => i \in posted'
    BY <2>2, <2>3, <1>a DEF RingInv
  <2>10. \A c \in Callbacks : Served(c)' => asked'[c] # None
    BY <2>2, <1>a DEF RingInv
  <2>11. \A c \in Callbacks :
           asked'[c] \in Ids \ posted' /\ ~Crashed' => ring'[asked'[c]] # None
    BY <2>1, <2>2, <2>3, <1>a DEF RingInv
  <2>12. \A c \in Callbacks :
          /\ asked'[c] \in Ids \ posted'
          /\ \A other \in Callbacks : asked'[other] = asked'[c] => other = c
          => ring'[asked'[c]] # None /\ ring'[asked'[c]].callback = c
    BY <2>1, <2>3, <1>a DEF RingInv
  <2> QED
    BY <2>4, <2>5, <2>6, <2>7, <2>8, <2>9, <2>10, <2>11, <2>12 DEF RingInv
<1> QED
  BY <1>1, <1>2, <1>3

LEMMA RingInvUnchanged == RingInv /\ UNCHANGED ringVars => RingInv'
  BY DEF ringVars, RingInv, RingTypeOK, HandedOutOnce, NoResultLost,
         SoleAskerServed, EntryMeans, HandedOut, Served, Crashed

(* The map never holds anything but waiting requests and uncollected       *)
(* results, whatever order putCallback and putAction are called in.        *)
THEOREM RingInvariant == RingSpec => []RingInv
<1>1. RingInv /\ [RingNext]_ringVars => RingInv'
  <2> SUFFICES ASSUME RingInv, [RingNext]_ringVars PROVE RingInv'
    OBVIOUS
  <2>1. CASE UNCHANGED ringVars
    BY <2>1, RingInvUnchanged
  <2>2. CASE RingNext
    BY <2>2, PutActionKeepsInv, PutCallbackKeepsInv DEF RingNext
  <2> QED
    BY <2>1, <2>2
<1> QED
  BY RingInvInit, <1>1, PTL DEF RingSpec

(* Types of the ring; in particular putAction calls no empty std::function:*)
(* every call is made on a callback that putCallback was given.            *)
THEOREM RingTypes == RingSpec => []RingTypeOK
<1>1. RingInv => RingTypeOK
  BY DEF RingInv
<1> QED
  BY RingInvariant, <1>1, PTL

(* The result of a run reaches one request only, one that asked for it:    *)
(* putCallback and putAction erase the entry they serve.                   *)
THEOREM ResultsHandedOutOnce == RingSpec => []HandedOutOnce
<1>1. RingInv => HandedOutOnce
  BY DEF RingInv
<1> QED
  BY RingInvariant, <1>1, PTL

(* No result given to putAction disappears before somebody has had it.     *)
THEOREM ResultsKept == RingSpec => []NoResultLost
<1>1. RingInv => NoResultLost
  BY DEF RingInv
<1> QED
  BY RingInvariant, <1>1, PTL

(* The only request for a run gets its result, whichever came first.       *)
THEOREM SoleAskersServed == RingSpec => []SoleAskerServed
<1>1. RingInv => SoleAskerServed
  BY DEF RingInv
<1> QED
  BY RingInvariant, <1>1, PTL

-----------------------------------------------------------------------------
(* The refinement                                                          *)

(* putAction hands the result to an unserved request if there is one.      *)
LEMMA PutActionPosts ==
  ASSUME RingInv, NEW id \in Ids, id \notin posted, PutAction(id)
  PROVE  Exchange!Post(id)
<1> USE RingConstants DEF PutAction, Exchange!Crashed, Exchange!Served
<1>1. CASE CallBack(id)
  <2> DEFINE cb == ring[id].callback
  <2>1. cb \in Callbacks /\ asked[cb] = id /\ ~Served(cb)
    BY <1>1 DEF CallBack, RingInv, RingTypeOK, EntryMeans, Entry
  <2>2. cb \in Exchange!Unserved(id)
    BY <2>1 DEF Exchange!Unserved, Served
  <2> QED
    BY <1>1, <2>2 DEF CallBack, Exchange!Post, Crashed
<1>2. CASE StoreAction(id)
  <2>1. \A cb \in Callbacks : asked[cb] # id
    BY <1>2 DEF StoreAction, RingInv, RingTypeOK
  <2>2. Exchange!Unserved(id) = {}
    BY <2>1 DEF Exchange!Unserved
  <2> QED
    BY <1>2, <2>2 DEF StoreAction, Exchange!Post, Crashed
<1> QED
  BY <1>1, <1>2

(* putCallback hands out a result that nobody had, waits if there is none, *)
(* and brings the process down only while another request waits.           *)
LEMMA PutCallbackAsks ==
  ASSUME RingInv, NEW id \in Ids, NEW cb \in Callbacks, PutCallback(id, cb)
  PROVE  Exchange!Ask(id, cb)
<1> USE RingConstants DEF PutCallback, Exchange!Crashed, Exchange!Served,
                          Exchange!HandedOut
<1>1. HandedOut(id) <=> Exchange!HandedOut(id)
  BY DEF HandedOut
<1>2. CASE RegisterCallback(id, cb)
  <2>1. id \notin posted \/ HandedOut(id)
    BY <1>2 DEF RegisterCallback, RingInv, NoResultLost
  <2> QED
    BY <1>1, <1>2, <2>1 DEF RegisterCallback, Exchange!Ask, Crashed
<1>3. CASE DropCallback(id, cb)
  <2>1. id \notin posted \/ HandedOut(id)
    BY <1>3 DEF DropCallback, Stored, RingInv, NoResultLost
  <2> QED
    BY <1>1, <1>3, <2>1 DEF DropCallback, Exchange!Ask, Crashed
<1>4. CASE CollectAction(id, cb)
  <2>1. CASE ring[id].callback = None
    <3>1. ring[id].action = id /\ id \in posted /\ ~HandedOut(id)
      BY <1>4, <2>1 DEF CollectAction, Stored, RingInv, EntryMeans
    <3> QED
      BY <1>1, <1>4, <3>1 DEF CollectAction, Exchange!Ask, Crashed
  <2>2. CASE ring[id].callback # None
    <3> DEFINE other == ring[id].callback
    <3>1. /\ ring[id].action = Wild
          /\ other \in Callbacks /\ asked[other] = id /\ ~Served(other)
      BY <1>4, <2>2 DEF CollectAction, Stored, RingInv, RingTypeOK, Entry, EntryMeans
    <3>2. other \in Exchange!Unserved(id)
      BY <3>1 DEF Exchange!Unserved, Served
    <3> QED
      BY <1>4, <3>1, <3>2 DEF CollectAction, Exchange!Ask, Crashed
  <2> QED
    BY <2>1, <2>2
<1> QED
  BY <1>2, <1>3, <1>4

(* The ring implements the exchange of results: seen through what was      *)
(* posted, asked and called, every step of it is one of ResultExchange.    *)
THEOREM RingImplementsExchange == RingSpec => ExchangeSpec
<1>1. RingInit => Exchange!Init
  BY DEF RingInit, Exchange!Init
<1>2. RingInv /\ [RingNext]_ringVars => [Exchange!Next]_Exchange!vars
  <2> SUFFICES ASSUME RingInv, [RingNext]_ringVars
               PROVE  [Exchange!Next]_Exchange!vars
    OBVIOUS
  <2>1. CASE UNCHANGED ringVars
    BY <2>1 DEF ringVars, Exchange!vars
  <2>2. CASE RingNext
    BY <2>2, PutActionPosts, PutCallbackAsks DEF RingNext, Exchange!Next
  <2> QED
    BY <2>1, <2>2
<1> QED
  BY RingInvariant, <1>1, <1>2, PTL DEF RingSpec, ExchangeSpec, Exchange!Spec

-----------------------------------------------------------------------------
(* The server                                                              *)

USE DEF Clients

-----------------------------------------------------------------------------
(* Sequences                                                               *)

LEMMA AppendFacts ==
  ASSUME NEW S, NEW s \in Seq(S), NEW e \in S
  PROVE  /\ Append(s, e) \in Seq(S)
         /\ Len(Append(s, e)) = Len(s) + 1
         /\ \A i \in 1 .. Len(s) : Append(s, e)[i] = s[i]
         /\ Append(s, e)[Len(s) + 1] = e
         /\ Elements(Append(s, e)) = Elements(s) \cup {e}
<1>1. /\ Append(s, e) \in Seq(S)
      /\ Len(Append(s, e)) = Len(s) + 1
      /\ \A i \in 1 .. Len(s) : Append(s, e)[i] = s[i]
      /\ Append(s, e)[Len(s) + 1] = e
  OBVIOUS
<1>2. 1 .. Len(s) + 1 = (1 .. Len(s)) \cup {Len(s) + 1}
  OBVIOUS
<1> QED
  BY <1>1, <1>2 DEF Elements

LEMMA TailFacts ==
  ASSUME NEW S, NEW s \in Seq(S), s # <<>>
  PROVE  /\ Head(s) \in S /\ Tail(s) \in Seq(S)
         /\ Len(s) \in Nat \ {0} /\ Len(Tail(s)) = Len(s) - 1
         /\ Head(s) = s[1]
         /\ \A i \in 1 .. Len(s) - 1 : Tail(s)[i] = s[i + 1]
         /\ Elements(s) = Elements(Tail(s)) \cup {Head(s)}
<1>1. /\ Head(s) \in S /\ Tail(s) \in Seq(S)
      /\ Len(s) \in Nat \ {0} /\ Len(Tail(s)) = Len(s) - 1
      /\ Head(s) = s[1]
      /\ \A i \in 1 .. Len(s) - 1 : Tail(s)[i] = s[i + 1]
  OBVIOUS
<1>2. ASSUME NEW x \in Elements(s)
      PROVE  x \in Elements(Tail(s)) \cup {Head(s)}
  <2>1. PICK i \in 1 .. Len(s) : x = s[i]
    BY DEF Elements
  <2>2. CASE i = 1
    BY <1>1, <2>1, <2>2
  <2>3. CASE i # 1
    <3>1. i - 1 \in 1 .. Len(Tail(s)) /\ Tail(s)[i - 1] = x
      BY <1>1, <2>1, <2>3
    <3> QED
      BY <3>1 DEF Elements
  <2> QED
    BY <2>2, <2>3
<1>3. ASSUME NEW x \in Elements(Tail(s))
      PROVE  x \in Elements(s)
  <2>1. PICK i \in 1 .. Len(Tail(s)) : x = Tail(s)[i]
    BY DEF Elements
  <2>2. i + 1 \in 1 .. Len(s) /\ s[i + 1] = x
    BY <1>1, <2>1
  <2> QED
    BY <2>2 DEF Elements
<1>4. Head(s) \in Elements(s)
  BY <1>1 DEF Elements
<1> QED
  BY <1>1, <1>2, <1>3, <1>4

-----------------------------------------------------------------------------
(* The inductive invariant                                                 *)

LEMMA ServerInvInit == Init => ServerInv
<1> SUFFICES ASSUME Init PROVE ServerInv
  OBVIOUS
<1> USE RingConstants, ServerConstants DEF Init
<1>1. RingInv /\ ~Crashed /\ posted = {}
  BY RingInvInit DEF RingInit, Crashed
<1>2. Running = {} /\ Elements(finished) = {} /\ Kept = {}
  BY DEF Running, Elements, Kept, RingInit
<1>3. LastStarted = 1
  BY DEF LastStarted, Pushed
<1>4. TypeOK
  BY <1>1 DEF TypeOK, RingInv
<1>5. WaitingInOrder /\ OnePlace /\ BatonsLive
  BY <1>2, <1>3 DEF WaitingInOrder, OnePlace, BatonsLive
<1> QED
  BY <1>1, <1>2, <1>3, <1>4, <1>5 DEF ServerInv, RingInit

(* Steps that leave the jobs and the ring alone: replies and refusals,     *)
(* changes of the store, disconnections, and crashes.                      *)
LEMMA NetStepKeepsInv ==
  ASSUME ServerInv,
         UNCHANGED <<ringVars, jobVars>>,
         up' \in BOOLEAN, up' => up,
         store' \in [Names -> Codes \cup {None}],
         addr' \in [Clients -> Addrs \cup {None}],
         conn' \in [Addrs -> Clients \cup {None}],
         inbox' \in [Clients -> Seq(Reply)],
         \A cl \in Clients : addr[cl] # None => addr'[cl] # None
  PROVE  ServerInv'
<1> USE DEF ringVars, jobVars
<1>1. RingInv'
  BY RingInvUnchanged DEF ServerInv
<1>2. /\ Running' = Running /\ Elements(finished)' = Elements(finished)
      /\ Kept' = Kept /\ LastStarted' = LastStarted /\ (Crashed' <=> Crashed)
  BY DEF Running, Elements, Kept, LastStarted, Pushed, Crashed
<1>3. TypeOK'
  BY <1>1, <1>2 DEF ServerInv, TypeOK, RingInv
<1>4. WaitingInOrder'
  BY <1>2 DEF ServerInv, WaitingInOrder
<1>5. OnePlace' /\ BatonsLive'
  BY <1>2 DEF ServerInv, OnePlace, BatonsLive
<1>6. \A id \in Ids : baton[id] # None => baton[id].client \in Clients
  BY DEF ServerInv, TypeOK, Baton
<1> QED
  BY <1>1, <1>2, <1>3, <1>4, <1>5, <1>6 DEF ServerInv

(* The types of the job variables, for the steps that move a job.          *)
LEMMA JobTypes ==
  ASSUME ServerInv
  PROVE  /\ lastId \in 1 .. MaxId
         /\ baton \in [Ids -> Baton \cup {None}]
         /\ queue \in Seq(Ids) /\ pool \in Seq(Ids) /\ finished \in Seq(Ids)
         /\ work \in [Workers -> Job \cup {None}]
         /\ Len(queue) \in Nat /\ Len(pool) \in Nat /\ Len(finished) \in Nat
         /\ Pushed \in Int /\ LastStarted \in Int
         /\ MaxId \in Nat /\ Ids = 2 .. MaxId
  BY ServerConstants DEF ServerInv, TypeOK, Pushed, LastStarted

LEMMA JobInts ==
  ASSUME ServerInv
  PROVE  /\ lastId \in Int /\ Pushed \in Int /\ LastStarted \in Int
         /\ Len(queue) \in Nat /\ Len(pool) \in Nat
         /\ LastStarted = Pushed - Len(queue) - Len(pool)
         /\ Pushed <= lastId /\ LastStarted <= Pushed
         /\ Ids \subseteq Int
<1>1. lastId \in Int /\ Len(queue) \in Nat /\ Len(pool) \in Nat /\ Ids \subseteq Int
  BY JobTypes
<1>2. Pushed \in Int /\ Pushed <= lastId
  BY <1>1 DEF Pushed
<1> QED
  BY <1>1, <1>2 DEF LastStarted

LEMMA SendTypes ==
  ASSUME ServerInv, NEW cl \in Clients, NEW of, NEW id,
         [of |-> of, id |-> id] \in Reply, Send(cl, of, id)
  PROVE  inbox' \in [Clients -> Seq(Reply)]
<1> DEFINE r == [of |-> of, id |-> id]
<1>1. inbox \in [Clients -> Seq(Reply)]
  BY DEF ServerInv, TypeOK
<1>2. Append(inbox[cl], r) \in Seq(Reply)
  BY <1>1, AppendFacts
<1> QED
  BY <1>1, <1>2 DEF Send

(* The first job has number 2, and one that waits was started by nobody.   *)
LEMMA FirstJob == ServerInv => LastStarted >= 1 /\ LastStarted <= lastId
<1> SUFFICES ASSUME ServerInv PROVE LastStarted >= 1 /\ LastStarted <= lastId
  OBVIOUS
<1> DEFINE P == Len(pool)
           Q == Len(queue)
<1>1. P \in Nat /\ Q \in Nat /\ lastId \in Int /\ lastId >= 1
  BY JobTypes
<1>2. LastStarted \in Int /\ LastStarted <= lastId
  BY <1>1 DEF LastStarted, Pushed
<1>3. \A id \in Ids : id >= 2
  BY JobTypes
<1>4. CASE P > 0
  <2>1. pool[1] \in Ids /\ pool[1] = LastStarted + 1
    BY <1>4, JobTypes DEF ServerInv, WaitingInOrder
  <2> QED
    BY <2>1, <1>2, <1>3
<1>5. CASE P = 0 /\ Q > 0
  <2>1. queue[1] \in Ids
    BY <1>5, JobTypes
  <2>2. queue[1] = LastStarted + P + 1
    BY <1>5, <1>1 DEF ServerInv, WaitingInOrder
  <2> QED
    BY <2>1, <2>2, <1>2, <1>3, <1>5
<1>6. CASE P = 0 /\ Q = 0
  <2>1. pushing # None => lastId \in Ids
    BY DEF ServerInv, TypeOK, WaitingInOrder
  <2>2. LastStarted = Pushed
    BY <1>6, <1>1 DEF LastStarted, Pushed
  <2> QED
    BY <2>1, <2>2, <1>1, <1>3 DEF Pushed
<1> QED
  BY <1>1, <1>2, <1>4, <1>5, <1>6

(* Jobs that run, have finished or were posted have been started.          *)
LEMMA StartedJobs ==
  ASSUME ServerInv, NEW x \in Running \cup Elements(finished) \cup Kept \cup posted
  PROVE  x \in Ids /\ x <= LastStarted
<1>1. CASE x \in Running
  <2>1. PICK v \in Workers : work[v] # None /\ x = work[v].id
    BY <1>1 DEF Running
  <2>2. work[v] \in Job
    BY <2>1, JobTypes
  <2> QED
    BY <1>1, <2>1, <2>2 DEF Job, ServerInv, OnePlace
<1>2. CASE x \in Elements(finished)
  <2>1. x \in Ids
    BY <1>2, JobTypes DEF Elements
  <2> QED
    BY <1>2, <2>1 DEF ServerInv, OnePlace
<1>3. CASE x \in Kept
  BY <1>3 DEF Kept, ServerInv, OnePlace
<1>4. CASE x \in posted
  BY <1>4 DEF ServerInv, TypeOK, RingTypeOK
<1> QED
  BY <1>1, <1>2, <1>3, <1>4

(* A run is accepted: the job gets the next number.                        *)
LEMMA AcceptKeepsInv ==
  ASSUME ServerInv, NEW cl \in Clients, NEW a \in Addrs, NEW n \in Names,
         NEW block \in BOOLEAN, Run(cl, a, n, block), jobVars' # jobVars
  PROVE  ServerInv'
<1> USE RingConstants, ServerConstants
<1> DEFINE new == lastId + 1
           made == [name |-> n, client |-> cl, block |-> block,
                    code |-> None, freed |-> FALSE]
<1>1. /\ pushing = None /\ lastId < MaxId /\ lastId' = new /\ pushing' = new
      /\ baton' = [baton EXCEPT ![new] = made]
      /\ UNCHANGED <<queue, pool, work, finished, inbox>>
      /\ UNCHANGED <<ringVars, up, store>>
      /\ addr[cl] = None
      /\ addr' = [addr EXCEPT ![cl] = a]
      /\ conn' = [conn EXCEPT ![a] = cl]
  BY DEF Run, Arrive, jobVars
<1>2. /\ new \in Ids /\ new # None /\ made \in Baton /\ made # None
      /\ baton[new] = None
      /\ baton'[new] = made
      /\ \A id \in Ids : id # new => baton'[id] = baton[id]
  <2>1. new \in Ids
    BY <1>1, JobTypes
  <2>2. made \in Baton
    BY DEF Baton
  <2>3. made # None
    BY <2>2
  <2> QED
    BY <1>1, <2>1, <2>2, <2>3, JobTypes DEF ServerInv
<1>3. RingInv' /\ (Crashed' <=> Crashed)
  BY <1>1, RingInvUnchanged DEF ServerInv, Crashed, ringVars
<1>4. /\ Running' = Running /\ Elements(finished)' = Elements(finished)
      /\ Kept' = Kept /\ LastStarted' = LastStarted
  BY <1>1, JobTypes DEF Running, Elements, Kept, LastStarted, Pushed, ringVars
<1>5. TypeOK'
  <2>1. baton' \in [Ids -> Baton \cup {None}] /\ lastId' \in 1 .. MaxId
    BY <1>1, <1>2, JobTypes
  <2>2. addr' \in [Clients -> Addrs \cup {None}] /\ conn' \in [Addrs -> Clients \cup {None}]
    BY <1>1 DEF ServerInv, TypeOK
  <2> QED
    BY <1>1, <1>2, <1>3, <2>1, <2>2 DEF ServerInv, TypeOK, RingInv
<1>6. WaitingInOrder'
  BY <1>1, <1>4 DEF ServerInv, WaitingInOrder
<1>7. OnePlace'
  BY <1>1, <1>4 DEF ServerInv, OnePlace
<1>8. BatonsLive'
  <2>1. Running \cup Elements(finished) \cup Kept \subseteq Ids
    BY JobTypes DEF Running, Elements, Kept, Job
  <2>2. \A id \in Elements(finished) \cup Kept : id # new
    BY <2>1, <1>2, JobTypes DEF ServerInv, BatonsLive
  <2>3. \A id \in (LastStarted + 1 .. new) : id = new \/ id \in LastStarted + 1 .. lastId
    BY JobTypes
  <2>4. LastStarted >= 1
    BY FirstJob
  <2>5. LastStarted + 1 .. lastId \subseteq Ids
    BY <2>4, JobTypes
  <2> QED
    BY <1>1, <1>2, <1>4, <2>1, <2>2, <2>3, <2>5 DEF ServerInv, BatonsLive
<1>9. \A id \in Ids : baton'[id] # None <=> id <= lastId'
  BY <1>1, <1>2, JobTypes DEF ServerInv
<1>10. \A id \in Ids : baton'[id] # None => addr'[baton'[id].client] # None
  <2>1. \A id \in Ids : baton[id] # None => baton[id].client \in Clients
    BY JobTypes DEF Baton
  <2>2. \A c \in Clients : c # cl => addr'[c] = addr[c]
    BY <1>1 DEF ServerInv, TypeOK
  <2>3. addr'[cl] = a /\ a # None
    BY <1>1 DEF ServerInv, TypeOK
  <2>4. made.client = cl
    OBVIOUS
  <2> QED
    BY <1>1, <1>2, <2>1, <2>2, <2>3, <2>4 DEF ServerInv
<1>11. \A id \in Ids : baton'[id] # None /\ baton'[id].freed => baton'[id].block
  BY <1>1, <1>2 DEF ServerInv
<1>12. \A c \in Clients : asked'[c] # None => addr'[c] # None
  BY <1>1 DEF ServerInv, TypeOK, ringVars
<1>13. \A id \in posted' :
       /\ id <= LastStarted'
       /\ id \notin (Running \cup Elements(finished))'
       /\ ~baton'[id].block
       /\ baton'[id].code # None
  <2>1. posted' = posted /\ posted \subseteq Ids
    BY <1>1 DEF ServerInv, TypeOK, RingTypeOK, ringVars
  <2>2. \A id \in posted : id # new
    BY <2>1, JobTypes DEF ServerInv, LastStarted, Pushed
  <2> QED
    BY <1>1, <1>2, <1>4, <2>1, <2>2 DEF ServerInv
<1> QED
  BY <1>3, <1>5, <1>6, <1>7, <1>8, <1>9, <1>10, <1>11, <1>12, <1>13 DEF ServerInv

(* Steps that move a waiting job on its way to the pool threads.           *)
LEMMA MoveKeepsInv ==
  ASSUME ServerInv,
         UNCHANGED <<ringVars, up, store, lastId, baton, work, finished, addr, conn>>,
         pushing' \in Ids \cup {None}, queue' \in Seq(Ids), pool' \in Seq(Ids),
         inbox' \in [Clients -> Seq(Reply)],
         LastStarted' = LastStarted,
         WaitingInOrder'
  PROVE  ServerInv'
<1> USE DEF ringVars
<1>1. RingInv'
  BY RingInvUnchanged DEF ServerInv
<1>2. /\ Running' = Running /\ Elements(finished)' = Elements(finished)
      /\ Kept' = Kept /\ (Crashed' <=> Crashed)
  BY DEF Running, Elements, Kept, Crashed
<1>3. TypeOK'
  BY <1>1, <1>2 DEF ServerInv, TypeOK, RingInv
<1>4. OnePlace' /\ BatonsLive'
  BY <1>2 DEF ServerInv, OnePlace, BatonsLive
<1> QED
  BY <1>1, <1>2, <1>3, <1>4 DEF ServerInv

(* A job in push or on its way to the pool waits as before.                *)
LEMMA MoveEffect ==
  ServerInv /\ (Enqueue \/ Idle) => LastStarted' = LastStarted
<1> SUFFICES ASSUME ServerInv, Enqueue \/ Idle PROVE LastStarted' = LastStarted
  OBVIOUS
<1>1. /\ lastId \in Int /\ Pushed \in Int /\ None \notin Ids
      /\ Len(queue) \in Nat /\ Len(pool) \in Nat
      /\ LastStarted = Pushed - Len(queue) - Len(pool)
  BY JobInts, RingConstants
<1>2. CASE Enqueue
  <2>1. pushing \in Ids /\ pushing = lastId
    BY <1>2 DEF Enqueue, ServerInv, TypeOK, WaitingInOrder
  <2>2. Len(queue') = Len(queue) + 1
    BY <1>2, <2>1, JobTypes, AppendFacts DEF Enqueue
  <2>3. Pushed = lastId - 1 /\ Pushed' = lastId /\ pool' = pool
    BY <1>1, <1>2, <2>1 DEF Enqueue, Pushed
  <2> QED
    BY <1>1, <2>2, <2>3 DEF LastStarted
<1>3. CASE Idle
  <2>1. Head(queue) \in Ids /\ Len(queue') = Len(queue) - 1
    BY <1>3, JobTypes, TailFacts DEF Idle
  <2>2. Len(pool') = Len(pool) + 1
    BY <1>3, <2>1, JobTypes, AppendFacts DEF Idle
  <2>3. Pushed' = Pushed
    BY <1>3 DEF Idle, Pushed
  <2> QED
    BY <1>1, <2>1, <2>2, <2>3 DEF LastStarted
<1> QED
  BY <1>2, <1>3

(* The end of a push.                                                      *)
LEMMA EnqueueKeepsInv == ServerInv /\ Enqueue => ServerInv'
<1> SUFFICES ASSUME ServerInv, Enqueue PROVE ServerInv'
  OBVIOUS
<1> DEFINE P == Len(pool)
           Q == Len(queue)
<1>1. /\ pushing \in Ids /\ pushing = lastId /\ pushing' = None
      /\ P \in Nat /\ Q \in Nat /\ lastId \in Int
      /\ pool' = pool /\ lastId' = lastId
      /\ LastStarted \in Int
  BY JobTypes DEF Enqueue, ServerInv, TypeOK, WaitingInOrder
<1>2. /\ queue' \in Seq(Ids)
      /\ Len(queue') = Q + 1
      /\ \A i \in 1 .. Q : queue'[i] = queue[i]
      /\ queue'[Q + 1] = lastId
  <2>1. queue' = Append(queue, lastId) /\ lastId \in Ids
    BY <1>1 DEF Enqueue
  <2> QED
    BY <2>1, AppendFacts, JobTypes
<1>3. /\ LastStarted = lastId - 1 - Q - P
      /\ LastStarted' = LastStarted
  <2>1. LastStarted' = LastStarted
    BY MoveEffect
  <2>2. Pushed = lastId - 1
    BY <1>1, RingConstants DEF Pushed
  <2> QED
    BY <1>1, <2>1, <2>2, JobInts
<1>4. \A i \in 1 .. Len(queue') : queue'[i] = LastStarted + P + i
  <2>1. \A i \in 1 .. Q : queue[i] = LastStarted + P + i
    BY DEF ServerInv, WaitingInOrder
  <2>2. queue'[Q + 1] = LastStarted + P + (Q + 1)
    BY <1>1, <1>2, <1>3
  <2>3. \A i \in 1 .. Q + 1 : i \in 1 .. Q \/ i = Q + 1
    BY <1>1
  <2> QED
    BY <1>2, <2>1, <2>2, <2>3
<1>5. WaitingInOrder'
  BY <1>1, <1>3, <1>4 DEF ServerInv, WaitingInOrder
<1>6. inbox' \in [Clients -> Seq(Reply)]
  <2>1. [of |-> "id", id |-> pushing] \in Reply
    BY <1>1 DEF Reply
  <2>2. baton[pushing].client \in Clients
    BY <1>1, JobTypes DEF ServerInv, Baton
  <2>3. CASE baton[pushing].block
    BY <2>3 DEF Enqueue, ServerInv, TypeOK
  <2>4. CASE ~baton[pushing].block
    <3>1. Send(baton[pushing].client, "id", pushing)
      BY <2>4 DEF Enqueue
    <3> QED
      BY <2>1, <2>2, <3>1, SendTypes
  <2> QED
    BY <2>3, <2>4
<1> QED
  BY <1>1, <1>2, <1>3, <1>5, <1>6, JobTypes, MoveKeepsInv DEF Enqueue

(* The loop thread submits a job.                                          *)
LEMMA IdleKeepsInv == ServerInv /\ Idle => ServerInv'
<1> SUFFICES ASSUME ServerInv, Idle PROVE ServerInv'
  OBVIOUS
<1> DEFINE P == Len(pool)
           Q == Len(queue)
<1>1. /\ P \in Nat /\ Q \in Nat \ {0}
      /\ pushing' = pushing /\ lastId' = lastId
      /\ LastStarted \in Int /\ Pushed' = Pushed /\ Pushed \in Int
      /\ queue[1] \in Ids
      /\ queue' = Tail(queue) /\ pool' = Append(pool, queue[1])
  BY JobTypes, TailFacts DEF Idle, Pushed
<1>2. /\ queue' \in Seq(Ids)
      /\ Len(queue') = Q - 1
      /\ \A i \in 1 .. Q - 1 : queue'[i] = queue[i + 1]
  BY <1>1, JobTypes, TailFacts DEF Idle
<1>3. /\ pool' \in Seq(Ids)
      /\ Len(pool') = P + 1
      /\ \A i \in 1 .. P : pool'[i] = pool[i]
      /\ pool'[P + 1] = queue[1]
  BY <1>1, JobTypes, AppendFacts
<1>4. LastStarted' = LastStarted
  BY MoveEffect
<1>5. /\ \A i \in 1 .. Q : queue[i] = LastStarted + P + i
      /\ \A i \in 1 .. P : pool[i] = LastStarted + i
  BY DEF ServerInv, WaitingInOrder
<1>6. \A i \in 1 .. Len(pool') : pool'[i] = LastStarted + i
  <2>1. pool'[P + 1] = LastStarted + (P + 1)
    BY <1>1, <1>3, <1>5
  <2>2. \A i \in 1 .. P + 1 : i \in 1 .. P \/ i = P + 1
    BY <1>1
  <2> QED
    BY <1>3, <1>5, <2>1, <2>2
<1>7. \A i \in 1 .. Len(queue') : queue'[i] = LastStarted + (P + 1) + i
  <2> SUFFICES ASSUME NEW i \in 1 .. Q - 1
               PROVE  queue'[i] = LastStarted + (P + 1) + i
    BY <1>2
  <2>1. i + 1 \in 1 .. Q
    BY <1>1
  <2>2. queue[i + 1] = LastStarted + P + (i + 1)
    BY <2>1, <1>5
  <2> QED
    BY <2>2, <1>1, <1>2
<1>8. WaitingInOrder'
  BY <1>1, <1>3, <1>4, <1>6, <1>7 DEF ServerInv, WaitingInOrder
<1>9. inbox' \in [Clients -> Seq(Reply)] /\ pushing' \in Ids \cup {None}
  BY DEF Idle, netVars, ServerInv, TypeOK
<1> QED
  BY <1>2, <1>3, <1>4, <1>8, <1>9, MoveKeepsInv DEF Idle, netVars

(* Which job a pool thread takes.                                          *)
LEMMA StartEffect ==
  ASSUME ServerInv, NEW w \in Workers, Start(w),
         store[baton[Head(pool)].name] # None
  PROVE  /\ Head(pool) \in Ids /\ Head(pool) = LastStarted + 1 /\ Head(pool) <= lastId
         /\ LastStarted' = LastStarted + 1
         /\ [id |-> Head(pool), code |-> store[baton[Head(pool)].name]] \in Job
         /\ Running' = Running \cup {Head(pool)}
         /\ UNCHANGED <<ringVars, lastId, finished>>
<1> DEFINE P == Len(pool)
           id == Head(pool)
           code == store[baton[id].name]
           job == [id |-> id, code |-> code]
<1>1. /\ work[w] = None /\ pool # <<>> /\ code # None
      /\ pool' = Tail(pool) /\ work' = [work EXCEPT ![w] = job]
      /\ UNCHANGED <<ringVars, lastId, pushing, queue, finished>>
  BY DEF Start
<1>2. /\ id \in Ids /\ id = pool[1] /\ P \in Nat \ {0}
      /\ Len(pool') = P - 1
  BY <1>1, JobTypes, TailFacts
<1>3. id = LastStarted + 1
  <2>1. \A i \in 1 .. P : pool[i] = LastStarted + i
    BY DEF ServerInv, WaitingInOrder
  <2>2. 1 \in 1 .. P
    BY <1>2
  <2> QED
    BY <2>1, <2>2, <1>2, JobInts
<1>4. LastStarted' = LastStarted + 1
  <2>1. Pushed' = Pushed
    BY <1>1 DEF Pushed
  <2> QED
    BY <1>1, <1>2, <2>1, JobInts DEF LastStarted
<1>5. LastStarted + 1 <= lastId
  BY <1>2, JobInts
<1>6. job \in Job /\ job # None /\ job.id = id
  <2>1. id \in LastStarted + 1 .. lastId
    BY <1>3, <1>5, JobInts
  <2>2. baton[id] # None
    BY <2>1 DEF ServerInv, BatonsLive
  <2>3. store \in [Names -> Codes \cup {None}] /\ baton[id].name \in Names
    BY <1>2, <2>2 DEF ServerInv, TypeOK, Baton
  <2>4. code \in Codes
    BY <1>1, <2>3
  <2> QED
    BY <1>2, <2>4, ServerConstants DEF Job
<1>7. /\ \A v \in Workers : v # w => work'[v] = work[v]
      /\ work'[w] = job
  BY <1>1, JobTypes
<1>8. Running' = Running \cup {id}
  <2>1. ASSUME NEW x \in Running' PROVE x \in Running \cup {id}
    <3>1. PICK v \in Workers : work'[v] # None /\ x = work'[v].id
      BY DEF Running
    <3> QED
      BY <3>1, <1>6, <1>7 DEF Running
  <2>2. ASSUME NEW x \in Running PROVE x \in Running'
    <3>1. PICK v \in Workers : work[v] # None /\ x = work[v].id
      BY DEF Running
    <3>2. v # w
      BY <3>1, <1>1
    <3> QED
      BY <3>1, <3>2, <1>7 DEF Running
  <2>3. id \in Running'
    BY <1>6, <1>7 DEF Running
  <2> QED
    BY <2>1, <2>2, <2>3
<1> QED
  BY <1>1, <1>2, <1>3, <1>4, <1>5, <1>6, <1>8

(* A pool thread takes the job that has waited longest.                    *)
LEMMA StartKeepsInv ==
  ASSUME ServerInv, NEW w \in Workers, Start(w),
         store[baton[Head(pool)].name] # None
  PROVE  ServerInv'
<1> DEFINE P == Len(pool)
           id == Head(pool)
           code == store[baton[id].name]
           job == [id |-> id, code |-> code]
<1>1. /\ up /\ work[w] = None /\ pool # <<>> /\ code # None
      /\ pool' = Tail(pool) /\ work' = [work EXCEPT ![w] = job]
      /\ UNCHANGED <<ringVars, up, store, lastId, baton, pushing, queue, finished, netVars>>
  BY DEF Start
<1>2. /\ id \in Ids /\ id = pool[1] /\ P \in Nat \ {0}
      /\ pool' \in Seq(Ids) /\ Len(pool') = P - 1
      /\ \A i \in 1 .. P - 1 : pool'[i] = pool[i + 1]
  BY <1>1, JobTypes, TailFacts
<1>3. /\ id = LastStarted + 1 /\ LastStarted \in Int /\ LastStarted + 1 <= lastId
      /\ LastStarted' = LastStarted + 1
      /\ Running' = Running \cup {id}
      /\ job \in Job
  BY StartEffect, JobInts
<1>4. baton[id] # None /\ baton[id] \in Baton /\ ~baton[id].freed
  <2>1. id \in LastStarted + 1 .. lastId
    BY <1>3, JobInts
  <2>2. baton[id] # None /\ ~baton[id].freed
    BY <2>1 DEF ServerInv, BatonsLive
  <2> QED
    BY <1>2, <2>2, JobTypes
<1>5. code \in Codes /\ job \in Job /\ job # None /\ job.id = id
  BY <1>3, ServerConstants DEF Job
<1>6. RingInv' /\ (Crashed' <=> Crashed) /\ Kept' = Kept
      /\ Elements(finished)' = Elements(finished)
  BY <1>1, RingInvUnchanged DEF ServerInv, Crashed, ringVars, Kept, Elements
<1>7. /\ \A v \in Workers : v # w => work'[v] = work[v]
      /\ work'[w] = job
      /\ work' \in [Workers -> Job \cup {None}]
  BY <1>1, <1>5, JobTypes
<1>8. \A x \in Running \cup Elements(finished) \cup Kept \cup posted :
         x \in Ids /\ x <= LastStarted
  BY StartedJobs
<1>9. id \notin Running \cup Elements(finished) \cup Kept \cup posted
  BY <1>3, <1>8
<1>10. TypeOK'
  BY <1>1, <1>2, <1>6, <1>7 DEF ServerInv, TypeOK, RingInv, netVars
<1>11. WaitingInOrder'
  <2>1. \A i \in 1 .. P : pool[i] = LastStarted + i
    BY DEF ServerInv, WaitingInOrder
  <2>2. \A i \in 1 .. P - 1 : pool'[i] = LastStarted' + i
    <3> SUFFICES ASSUME NEW i \in 1 .. P - 1 PROVE pool'[i] = LastStarted' + i
      OBVIOUS
    <3>1. i + 1 \in 1 .. P
      BY <1>2
    <3>2. pool[i + 1] = LastStarted + (i + 1)
      BY <3>1, <2>1
    <3> QED
      BY <1>2, <1>3, <3>2
  <2>3. \A i \in 1 .. Len(queue) : queue[i] = LastStarted' + (P - 1) + i
    <3>1. \A i \in 1 .. Len(queue) : queue[i] = LastStarted + P + i
      BY DEF ServerInv, WaitingInOrder
    <3>2. LastStarted' + (P - 1) = LastStarted + P
      BY <1>2, <1>3
    <3> QED
      BY <3>1, <3>2
  <2> QED
    BY <1>1, <1>2, <2>2, <2>3 DEF ServerInv, WaitingInOrder
<1>12. OnePlace'
  <2>1. \A u, v \in Workers :
          work'[u] # None /\ work'[v] # None /\ work'[u].id = work'[v].id => u = v
    <3>1. \A v \in Workers : v # w /\ work'[v] # None => work'[v].id \in Running
      BY <1>7 DEF Running
    <3> QED
      BY <1>5, <1>7, <1>9, <3>1 DEF ServerInv, OnePlace
  <2>2. \A x \in Running' \cup Elements(finished) \cup Kept : x <= LastStarted'
    BY <1>3, <1>8, JobTypes
  <2> QED
    BY <1>1, <1>3, <1>6, <1>9, <2>1, <2>2 DEF ServerInv, OnePlace
<1>13. BatonsLive'
  <2>1. \A x \in LastStarted' + 1 .. lastId : x \in LastStarted + 1 .. lastId
    BY <1>3, JobTypes
  <2> QED
    BY <1>1, <1>3, <1>4, <1>6, <2>1 DEF ServerInv, BatonsLive
<1>14. \A x \in posted' :
       /\ x <= LastStarted'
       /\ x \notin (Running \cup Elements(finished))'
       /\ ~baton'[x].block
       /\ baton'[x].code # None
  <2>1. posted' = posted
    BY <1>1 DEF ringVars
  <2>2. \A x \in posted : x <= LastStarted'
    BY <1>3, <1>8, JobTypes
  <2> QED
    BY <1>1, <1>3, <1>6, <1>9, <2>1, <2>2 DEF ServerInv
<1> QED
  BY <1>1, <1>6, <1>10, <1>11, <1>12, <1>13, <1>14 DEF ServerInv, netVars, ringVars

(* A baton stays a baton when actionRun sets its code or actionCleanup     *)
(* deletes it.                                                             *)
LEMMA BatonUpdate ==
  \A b \in Baton : \A c \in {"returns", "fails"} :
         /\ [b EXCEPT !.code = c] \in Baton
         /\ [b EXCEPT !.code = c].code = c
         /\ [b EXCEPT !.code = c].client = b.client
         /\ [b EXCEPT !.code = c].block = b.block
         /\ [b EXCEPT !.code = c].freed = b.freed
         /\ [b EXCEPT !.freed = TRUE] \in Baton
         /\ [b EXCEPT !.freed = TRUE].code = b.code
         /\ [b EXCEPT !.freed = TRUE].client = b.client
         /\ [b EXCEPT !.freed = TRUE].block = b.block
  BY DEF Baton

(* Which job a pool thread leaves.                                         *)
LEMMA FinishEffect ==
  ASSUME ServerInv, NEW w \in Workers, Finish(w), Outcome[work[w].code] # "dies"
  PROVE  /\ work[w].id \in Ids /\ work[w].id \in Running
         /\ Running' = Running \ {work[w].id}
         /\ Elements(finished)' = Elements(finished) \cup {work[w].id}
         /\ UNCHANGED <<ringVars, lastId>> /\ LastStarted' = LastStarted
<1> DEFINE id == work[w].id
<1>1. /\ work[w] # None
      /\ finished' = Append(finished, id)
      /\ work' = [work EXCEPT ![w] = None]
      /\ UNCHANGED <<ringVars, lastId, pushing, queue, pool>>
  BY DEF Finish
<1>2. /\ id \in Ids /\ id \in Running
      /\ work'[w] = None
      /\ \A v \in Workers : v # w => work'[v] = work[v]
  <2>1. work[w] \in Job
    BY <1>1, JobTypes
  <2> QED
    BY <1>1, <2>1, JobTypes DEF Job, Running
<1>3. Running' = Running \ {id}
  <2>1. ASSUME NEW x \in Running' PROVE x \in Running \ {id}
    <3>1. PICK v \in Workers : work'[v] # None /\ x = work'[v].id
      BY DEF Running
    <3>2. v # w /\ work[v] # None /\ x = work[v].id
      BY <3>1, <1>2
    <3>3. x # id
      BY <1>1, <3>2 DEF ServerInv, OnePlace
    <3> QED
      BY <3>2, <3>3 DEF Running
  <2>2. ASSUME NEW x \in Running, x # id PROVE x \in Running'
    <3>1. PICK v \in Workers : work[v] # None /\ x = work[v].id
      BY DEF Running
    <3>2. v # w
      BY <3>1, <2>2
    <3> QED
      BY <3>1, <3>2, <1>2 DEF Running
  <2> QED
    BY <2>1, <2>2
<1>4. Elements(finished)' = Elements(finished) \cup {id}
  <2>1. Elements(finished)' = Elements(Append(finished, id))
    BY <1>1 DEF Elements
  <2>2. id \in Ids /\ finished \in Seq(Ids)
    BY <1>2, JobTypes
  <2> HIDE DEF id
  <2> QED
    BY <2>1, <2>2, AppendFacts
<1>5. LastStarted' = LastStarted
  BY <1>1 DEF LastStarted, Pushed
<1> QED
  BY <1>1, <1>2, <1>3, <1>4, <1>5

(* A run ends.                                                             *)
LEMMA FinishKeepsInv ==
  ASSUME ServerInv, NEW w \in Workers, Finish(w), Outcome[work[w].code] # "dies"
  PROVE  ServerInv'
<1> DEFINE id == work[w].id
           end == Outcome[work[w].code]
           done == [baton[id] EXCEPT !.code = end]
           F == Len(finished)
<1>1. /\ work[w] # None /\ end \in {"returns", "fails"}
      /\ baton' = [baton EXCEPT ![id].code = end]
      /\ finished' = Append(finished, id)
      /\ work' = [work EXCEPT ![w] = None]
      /\ UNCHANGED <<ringVars, up, store, lastId, pushing, queue, pool, netVars>>
  BY DEF Finish
<1>2. /\ id \in Ids /\ id \in Running
      /\ work' \in [Workers -> Job \cup {None}]
      /\ work'[w] = None
      /\ \A v \in Workers : v # w => work'[v] = work[v]
  <2>1. work[w] \in Job
    BY <1>1, JobTypes
  <2> QED
    BY <1>1, <2>1, JobTypes DEF Job, Running
<1>3. id \notin Elements(finished) \cup Kept \cup posted
  BY <1>2 DEF ServerInv, OnePlace
<1>4. /\ baton[id] # None /\ baton[id] \in Baton /\ ~baton[id].freed
      /\ id <= LastStarted
  BY <1>2, JobTypes DEF ServerInv, BatonsLive, OnePlace
<1>5. /\ done \in Baton /\ done # None
      /\ done.code = end /\ done.code # None
      /\ done.client = baton[id].client /\ done.block = baton[id].block /\ ~done.freed
  <2>1. done \in Baton /\ done.code = end /\ done.client = baton[id].client
        /\ done.block = baton[id].block /\ done.freed = baton[id].freed
    BY <1>1, <1>4, BatonUpdate
  <2>2. end # None /\ done # None
    BY <1>1, <2>1, ServerConstants
  <2> QED
    BY <2>1, <2>2, <1>4
<1>6. /\ baton' \in [Ids -> Baton \cup {None}]
      /\ baton'[id] = done
      /\ \A x \in Ids : x # id => baton'[x] = baton[x]
  BY <1>1, <1>2, <1>5, JobTypes
<1>7. /\ finished' \in Seq(Ids) /\ F \in Nat /\ Len(finished') = F + 1
      /\ \A i \in 1 .. F : finished'[i] = finished[i]
      /\ finished'[F + 1] = id
      /\ Elements(finished') = Elements(finished) \cup {id}
  <2>1. finished' = Append(finished, id) /\ finished \in Seq(Ids) /\ F \in Nat
    BY <1>1, JobTypes
  <2> HIDE DEF id, F
  <2> QED
    BY <2>1, <1>2, AppendFacts DEF F
<1>8. RingInv' /\ (Crashed' <=> Crashed) /\ Kept' = Kept /\ LastStarted' = LastStarted
  BY <1>1, RingInvUnchanged DEF ServerInv, Crashed, ringVars, Kept, LastStarted, Pushed
<1>9. Running' = Running \ {id}
  BY FinishEffect
<1>10. TypeOK'
  BY <1>1, <1>2, <1>6, <1>7, <1>8 DEF ServerInv, TypeOK, RingInv, netVars
<1>11. WaitingInOrder'
  BY <1>1, <1>8 DEF ServerInv, WaitingInOrder
<1>12. OnePlace'
  <2>1. \A u, v \in Workers :
          work'[u] # None /\ work'[v] # None /\ work'[u].id = work'[v].id => u = v
    BY <1>2 DEF ServerInv, OnePlace
  <2>2. \A i \in 1 .. F : finished[i] # id
    BY <1>3 DEF Elements
  <2>3. \A i, j \in 1 .. Len(finished') : finished'[i] = finished'[j] => i = j
    <3>1. \A i \in 1 .. F + 1 : i \in 1 .. F \/ i = F + 1
      BY <1>7
    <3> QED
      BY <3>1, <2>2, <1>7 DEF ServerInv, OnePlace
  <2>4. /\ Running' \cap Elements(finished') = {}
        /\ Kept' \cap (Running' \cup Elements(finished')) = {}
        /\ \A x \in Running' \cup Elements(finished') \cup Kept' : x <= LastStarted'
    BY <1>3, <1>4, <1>7, <1>8, <1>9 DEF ServerInv, OnePlace
  <2> QED
    BY <2>1, <2>3, <2>4 DEF OnePlace, Elements
<1>13. Elements(finished)' = Elements(finished) \cup {id}
  BY <1>7 DEF Elements
<1>14. BatonsLive'
  <2>1. \A x \in LastStarted + 1 .. lastId : x \in Ids /\ x # id
    <3>1. \A x \in LastStarted + 1 .. lastId : x \in Ids
      BY FirstJob, JobTypes
    <3> QED
      BY <3>1, <1>2, <1>4, JobInts
  <2>2. \A x \in Running \cup Elements(finished) \cup Kept : x \in Ids
    BY StartedJobs
  <2>3. \A x \in Elements(finished) \cup Kept : x # id /\ baton'[x] = baton[x]
    BY <1>3, <1>6, <2>2
  <2>4. \A x \in (LastStarted + 1 .. lastId) \cup Running \cup Elements(finished) \cup Kept :
          baton'[x] # None /\ ~baton'[x].freed
    <3>1. \A x \in (LastStarted + 1 .. lastId) \cup Running \cup Elements(finished) \cup Kept :
            baton[x] # None /\ ~baton[x].freed /\ x \in Ids
      BY <2>1, <2>2 DEF ServerInv, BatonsLive
    <3> QED
      BY <3>1, <1>5, <1>6
  <2> QED
    BY <1>1, <1>2, <1>5, <1>6, <1>8, <1>9, <1>13, <2>3, <2>4 DEF ServerInv, BatonsLive
<1>15. \A x \in Ids :
       /\ baton'[x] # None <=> x <= lastId'
       /\ baton'[x] # None => addr'[baton'[x].client] # None
       /\ baton'[x] # None /\ baton'[x].freed => baton'[x].block
  BY <1>1, <1>4, <1>5, <1>6 DEF ServerInv, netVars
<1>16. \A x \in posted' :
       /\ x <= LastStarted'
       /\ x \notin (Running \cup Elements(finished))'
       /\ ~baton'[x].block
       /\ baton'[x].code # None
  <2>1. posted' = posted
    BY <1>1 DEF ringVars
  <2>2. \A x \in posted : x \in Ids /\ x # id
    BY <1>3, StartedJobs
  <2> QED
    BY <1>6, <1>8, <1>9, <1>13, <2>1, <2>2 DEF ServerInv
<1> QED
  BY <1>1, <1>8, <1>10, <1>11, <1>12, <1>14, <1>15, <1>16 DEF ServerInv, netVars, ringVars

(* GET /invocation/:id keeps a callback or takes a kept result.            *)
LEMMA ResolveKeepsInv ==
  ASSUME ServerInv, NEW cl \in Clients, NEW a \in Addrs, NEW id \in Ids, Resolve(cl, a, id)
  PROVE  ServerInv'
<1>1. /\ PutCallback(id, cl) /\ up' = ~Crashed'
      /\ addr' = [addr EXCEPT ![cl] = a] /\ conn' = [conn EXCEPT ![a] = cl]
      /\ UNCHANGED <<store, jobVars>>
      /\ up
  BY DEF Resolve, Arrive
<1>2. RingInv'
  BY <1>1, PutCallbackKeepsInv DEF ServerInv
<1>3. posted' = posted /\ asked' = [asked EXCEPT ![cl] = id]
  BY <1>1 DEF PutCallback
<1>4. Kept' \subseteq Kept
  <2>1. ring \in [Ids -> Entry \cup {None}]
    BY DEF ServerInv, TypeOK, RingTypeOK
  <2>2. \A x \in Ids \ {id} : ring'[x] = ring[x]
    BY <1>1, <2>1 DEF PutCallback, RegisterCallback, DropCallback, CollectAction
  <2>3. \/ ring' = ring
        \/ ring'[id] = None
        \/ ring'[id].action \in {None, Wild}
    BY <1>1, <2>1 DEF PutCallback, RegisterCallback, DropCallback, CollectAction
  <2>4. id # None /\ id # Wild
    BY RingConstants
  <2> QED
    BY <2>2, <2>3, <2>4 DEF Kept
<1>5. /\ Running' = Running /\ Elements(finished)' = Elements(finished)
      /\ LastStarted' = LastStarted
  BY <1>1 DEF jobVars, Running, Elements, LastStarted, Pushed
<1>6. inbox' \in [Clients -> Seq(Reply)]
  <2>1. CASE <<cl, id>> \in calls'
    <3>1. id \in posted
      <4>1. <<cl, id>>[2] = id
        OBVIOUS
      <4>2. HandedOut(id)'
        BY <2>1, <4>1, Zenon DEF HandedOut
      <4> QED
        BY <4>2, <1>2, <1>3 DEF RingInv
    <3>2. baton[id] \in Baton /\ baton[id].code # None
      <4>1. baton[id].code # None /\ id <= LastStarted
        BY <3>1 DEF ServerInv
      <4>2. baton[id] # None
        BY <4>1, FirstJob, JobInts DEF ServerInv
      <4> QED
        BY <4>1, <4>2, JobTypes
    <3>3. [of |-> baton[id].code, id |-> id] \in Reply
      BY <3>2 DEF Baton, Reply
    <3>4. Send(cl, baton[id].code, id)
      BY <2>1 DEF Resolve
    <3> QED
      BY <3>3, <3>4, SendTypes
  <2>2. CASE <<cl, id>> \notin calls'
    BY <2>2 DEF Resolve, ServerInv, TypeOK
  <2> QED
    BY <2>1, <2>2
<1>7. TypeOK'
  BY <1>1, <1>2, <1>6 DEF ServerInv, TypeOK, RingInv, jobVars
<1>8. WaitingInOrder'
  BY <1>1, <1>5 DEF ServerInv, WaitingInOrder, jobVars
<1>9. OnePlace' /\ BatonsLive'
  BY <1>1, <1>4, <1>5 DEF ServerInv, OnePlace, BatonsLive, jobVars
<1>10. /\ \A c \in Clients : addr[c] # None => addr'[c] # None
       /\ addr'[cl] # None
  BY <1>1, ServerConstants DEF ServerInv, TypeOK
<1>11. \A x \in Ids : baton[x] # None => baton[x].client \in Clients
  BY JobTypes DEF Baton
<1>12. \A c \in Clients : asked'[c] # None => addr'[c] # None
  BY <1>3, <1>10 DEF ServerInv, TypeOK, RingTypeOK
<1> QED
  BY <1>1, <1>2, <1>3, <1>5, <1>7, <1>8, <1>9, <1>10, <1>11, <1>12 DEF ServerInv, jobVars

(* A reply that the loop thread sends.                                     *)
LEMMA CrossThreadTypes ==
  ASSUME ServerInv, up, NEW cl \in Clients, addr[cl] # None, NEW id \in Ids,
         baton[id] \in Baton, baton[id].code # None, CrossThreadSend(cl, id)
  PROVE  inbox' \in [Clients -> Seq(Reply)] /\ up' \in BOOLEAN
<1> DEFINE receiver == conn[addr[cl]]
<1>1. receiver # None => receiver \in Clients
  BY DEF ServerInv, TypeOK
<1>2. /\ [of |-> baton[id].code, id |-> id] \in Reply
      /\ [of |-> "garbled", id |-> None] \in Reply
  BY DEF Baton, Reply
<1>3. CASE receiver # None /\ up' = up /\ Send(receiver, baton[id].code, id)
  BY <1>1, <1>2, <1>3, SendTypes
<1>4. CASE receiver # None /\ up' = up /\ Send(receiver, "garbled", None)
  BY <1>1, <1>2, <1>4, SendTypes
<1>5. CASE up' = FALSE /\ UNCHANGED inbox
  BY <1>5 DEF ServerInv, TypeOK
<1> QED
  BY <1>3, <1>4, <1>5 DEF CrossThreadSend

(* The list of finished work loses its first job.                          *)
LEMMA FinishedTail ==
  ASSUME ServerInv, finished # <<>>, finished' = Tail(finished)
  PROVE  /\ Head(finished) \in Ids /\ Head(finished) \in Elements(finished)
         /\ finished' \in Seq(Ids)
         /\ Elements(finished)' = Elements(finished) \ {Head(finished)}
         /\ \A i, j \in 1 .. Len(finished') : finished'[i] = finished'[j] => i = j
<1> DEFINE F == Len(finished)
           id == Head(finished)
<1>1. finished \in Seq(Ids)
  BY JobTypes
<1>2. /\ id \in Ids /\ Tail(finished) \in Seq(Ids)
      /\ F \in Nat \ {0} /\ Len(Tail(finished)) = F - 1
      /\ id = finished[1]
      /\ \A i \in 1 .. F - 1 : Tail(finished)[i] = finished[i + 1]
      /\ Elements(finished) = Elements(Tail(finished)) \cup {id}
  BY <1>1, TailFacts
<1>3. \A i \in 1 .. F - 1 : i + 1 \in 1 .. F /\ i + 1 # 1
  BY <1>2
<1>4. \A i, j \in 1 .. F : finished[i] = finished[j] => i = j
  BY DEF ServerInv, OnePlace
<1>5. \A i, j \in 1 .. F - 1 : Tail(finished)[i] = Tail(finished)[j] => i = j
  <2> SUFFICES ASSUME NEW i \in 1 .. F - 1, NEW j \in 1 .. F - 1,
                      Tail(finished)[i] = Tail(finished)[j]
               PROVE  i = j
    OBVIOUS
  <2>1. i + 1 = j + 1
    BY <1>2, <1>3, <1>4
  <2> QED
    BY <2>1, <1>2
<1>6. id \notin Elements(Tail(finished))
  <2>1. \A i \in 1 .. F - 1 : Tail(finished)[i] # id
    <3>1. 1 \in 1 .. F
      BY <1>2
    <3> QED
      BY <3>1, <1>2, <1>3, <1>4
  <2> QED
    BY <2>1, <1>2 DEF Elements
<1>7. Elements(finished)' = Elements(Tail(finished))
  BY DEF Elements
<1> QED
  BY <1>2, <1>5, <1>6, <1>7

(* The end of a blocking run: the reply is sent and the baton deleted.     *)
LEMMA CleanupBlockingKeepsInv ==
  ASSUME ServerInv, Cleanup, CleanupBlocking(Head(finished))
  PROVE  ServerInv'
<1> DEFINE id == Head(finished)
           deleted == [baton[id] EXCEPT !.freed = TRUE]
<1> HIDE DEF id
<1>1. /\ up /\ finished # <<>> /\ finished' = Tail(finished)
      /\ baton[id].block
      /\ CrossThreadSend(baton[id].client, id)
      /\ baton' = [baton EXCEPT ![id].freed = TRUE]
      /\ UNCHANGED <<ringVars, store, lastId, pushing, queue, pool, work, addr, conn>>
  BY DEF Cleanup, CleanupBlocking, id
<1>2. /\ id \in Ids /\ id \in Elements(finished)
      /\ finished' \in Seq(Ids)
      /\ Elements(finished)' = Elements(finished) \ {id}
      /\ \A i, j \in 1 .. Len(finished') : finished'[i] = finished'[j] => i = j
  BY <1>1, FinishedTail DEF id
<1>3. /\ baton[id] # None /\ baton[id] \in Baton /\ ~baton[id].freed
      /\ baton[id].code # None
      /\ id <= LastStarted
  BY <1>2, JobTypes DEF ServerInv, BatonsLive, OnePlace
<1>4. id \notin Running \cup Kept \cup posted
  BY <1>2 DEF ServerInv, OnePlace
<1>5. deleted \in Baton /\ deleted # None /\ deleted.code = baton[id].code
      /\ deleted.client = baton[id].client /\ deleted.block
  BY <1>1, <1>3, BatonUpdate, ServerConstants
<1>6. /\ baton' \in [Ids -> Baton \cup {None}]
      /\ baton'[id] = deleted
      /\ \A x \in Ids : x # id => baton'[x] = baton[x]
  BY <1>1, <1>2, <1>5, JobTypes
<1>7. inbox' \in [Clients -> Seq(Reply)] /\ up' \in BOOLEAN
  <2>1. baton[id].client \in Clients /\ addr[baton[id].client] # None
    BY <1>2, <1>3 DEF Baton, ServerInv
  <2> QED
    BY <2>1, <1>1, <1>2, <1>3, CrossThreadTypes
<1>8. RingInv' /\ (Crashed' <=> Crashed)
      /\ Kept' = Kept /\ Running' = Running /\ LastStarted' = LastStarted
  BY <1>1, RingInvUnchanged
     DEF ServerInv, Crashed, ringVars, Kept, Running, LastStarted, Pushed
<1>9. TypeOK'
  BY <1>1, <1>2, <1>6, <1>7, <1>8 DEF ServerInv, TypeOK, RingInv
<1>10. WaitingInOrder'
  BY <1>1, <1>8 DEF ServerInv, WaitingInOrder
<1>11. OnePlace'
  BY <1>1, <1>2, <1>8 DEF ServerInv, OnePlace
<1>12. BatonsLive'
  <2>1. \A x \in (LastStarted + 1 .. lastId) \cup Running \cup (Elements(finished) \ {id}) \cup Kept :
          x \in Ids /\ x # id
    <3>1. \A x \in LastStarted + 1 .. lastId : x \in Ids /\ x # id
      <4>1. \A x \in LastStarted + 1 .. lastId : x \in Ids
        BY FirstJob, JobTypes
      <4> QED
        BY <4>1, <1>2, <1>3, JobInts
    <3>2. \A x \in Running \cup Elements(finished) \cup Kept : x \in Ids
      BY StartedJobs
    <3> QED
      BY <3>1, <3>2, <1>4
  <2>2. \A x \in (LastStarted + 1 .. lastId) \cup Running \cup (Elements(finished) \ {id}) \cup Kept :
          baton'[x] = baton[x]
    BY <2>1, <1>6
  <2>3. \A x \in (LastStarted + 1 .. lastId) \cup Running \cup (Elements(finished) \ {id}) \cup Kept :
          baton'[x] # None /\ ~baton'[x].freed
    BY <2>2 DEF ServerInv, BatonsLive
  <2>4. \A x \in (Elements(finished) \ {id}) \cup Kept : baton'[x].code # None
    BY <2>2 DEF ServerInv, BatonsLive
  <2> QED
    BY <1>1, <1>2, <1>8, <2>3, <2>4 DEF BatonsLive
<1>13. \A x \in Ids :
       /\ baton'[x] # None <=> x <= lastId'
       /\ baton'[x] # None => addr'[baton'[x].client] # None
       /\ baton'[x] # None /\ baton'[x].freed => baton'[x].block
  BY <1>1, <1>3, <1>5, <1>6 DEF ServerInv
<1>14. \A x \in posted' :
       /\ x <= LastStarted'
       /\ x \notin (Running \cup Elements(finished))'
       /\ ~baton'[x].block
       /\ baton'[x].code # None
  <2>1. posted' = posted
    BY <1>1 DEF ringVars
  <2>2. \A x \in posted : x \in Ids /\ x # id
    BY <1>4, StartedJobs
  <2> QED
    BY <1>2, <1>6, <1>8, <2>1, <2>2 DEF ServerInv
<1> QED
  BY <1>1, <1>8, <1>9, <1>10, <1>11, <1>12, <1>13, <1>14 DEF ServerInv, ringVars

(* The end of a non-blocking run: the ring sends the result or keeps it.   *)
LEMMA CleanupNonblockingKeepsInv ==
  ASSUME ServerInv, Cleanup, CleanupNonblocking(Head(finished))
  PROVE  ServerInv'
<1> DEFINE id == Head(finished)
<1> HIDE DEF id
<1>1. /\ up /\ finished # <<>> /\ finished' = Tail(finished)
      /\ ~baton[id].block
      /\ PutAction(id)
      /\ \/ \E cl \in Clients : <<cl, id>> \in calls' /\ CrossThreadSend(cl, id)
         \/ up' = up /\ UNCHANGED inbox
      /\ baton' = baton
      /\ UNCHANGED <<store, lastId, pushing, queue, pool, work, addr, conn>>
  BY DEF Cleanup, CleanupNonblocking, id
<1>2. /\ id \in Ids /\ id \in Elements(finished)
      /\ finished' \in Seq(Ids)
      /\ Elements(finished)' = Elements(finished) \ {id}
      /\ \A i, j \in 1 .. Len(finished') : finished'[i] = finished'[j] => i = j
  BY <1>1, FinishedTail DEF id
<1>3. /\ baton[id] # None /\ baton[id] \in Baton /\ ~baton[id].freed
      /\ baton[id].code # None
      /\ id <= LastStarted
  BY <1>2, JobTypes DEF ServerInv, BatonsLive, OnePlace
<1>4. id \notin Running \cup Kept \cup posted
  BY <1>2 DEF ServerInv, OnePlace
<1>5. RingInv' /\ posted' = posted \cup {id} /\ asked' = asked
  BY <1>1, <1>2, <1>4, PutActionKeepsInv DEF ServerInv, PutAction
<1>6. Kept' \subseteq Kept \cup {id}
  <2>1. ring \in [Ids -> Entry \cup {None}]
    BY DEF ServerInv, TypeOK, RingTypeOK
  <2>2. \A x \in Ids \ {id} : ring'[x] = ring[x]
    BY <1>1, <2>1 DEF PutAction, CallBack, StoreAction
  <2> QED
    BY <2>2 DEF Kept
<1>7. Crashed' <=> Crashed
  <2>1. id # Wild
    BY <1>2, RingConstants
  <2>2. CASE CallBack(id)
    <3>1. calls' = calls \cup {<<ring[id].callback, id>>}
      BY <2>2 DEF CallBack
    <3>2. \A call : call \in calls'
             <=> call \in calls \/ call = <<ring[id].callback, id>>
      BY <3>1
    <3> QED
      BY <2>1, <3>2 DEF Crashed
  <2>3. CASE StoreAction(id)
    BY <2>3 DEF StoreAction, Crashed
  <2> QED
    BY <1>1, <2>2, <2>3 DEF PutAction
<1>8. inbox' \in [Clients -> Seq(Reply)] /\ up' \in BOOLEAN
  <2>1. ASSUME NEW cl \in Clients, <<cl, id>> \in calls', CrossThreadSend(cl, id)
        PROVE  inbox' \in [Clients -> Seq(Reply)] /\ up' \in BOOLEAN
    <3>1. asked[cl] = id
      BY <1>2, <1>5, <2>1 DEF RingInv, HandedOutOnce
    <3>2. addr[cl] # None
      BY <3>1, <1>2, RingConstants DEF ServerInv
    <3> QED
      BY <3>2, <2>1, <1>1, <1>2, <1>3, CrossThreadTypes
  <2>2. CASE up' = up /\ UNCHANGED inbox
    BY <2>2 DEF ServerInv, TypeOK
  <2> QED
    BY <1>1, <2>1, <2>2
<1>9. Running' = Running /\ LastStarted' = LastStarted
  BY <1>1 DEF Running, LastStarted, Pushed
<1>10. TypeOK'
  BY <1>1, <1>2, <1>5, <1>7, <1>8 DEF ServerInv, TypeOK, RingInv
<1>11. WaitingInOrder'
  BY <1>1, <1>9 DEF ServerInv, WaitingInOrder
<1>12. OnePlace'
  BY <1>1, <1>2, <1>3, <1>4, <1>6, <1>9 DEF ServerInv, OnePlace
<1>13. BatonsLive'
  BY <1>1, <1>2, <1>3, <1>6, <1>9 DEF ServerInv, BatonsLive
<1>14. \A x \in posted' :
       /\ x <= LastStarted'
       /\ x \notin (Running \cup Elements(finished))'
       /\ ~baton'[x].block
       /\ baton'[x].code # None
  BY <1>1, <1>2, <1>3, <1>4, <1>5, <1>9 DEF ServerInv
<1> QED
  BY <1>1, <1>5, <1>9, <1>10, <1>11, <1>12, <1>13, <1>14 DEF ServerInv

LEMMA NextKeepsInv == ServerInv /\ [Next]_vars => ServerInv'
<1> SUFFICES ASSUME ServerInv, [Next]_vars PROVE ServerInv'
  OBVIOUS
<1>0. /\ up \in BOOLEAN
      /\ store \in [Names -> Codes \cup {None}]
      /\ addr \in [Clients -> Addrs \cup {None}]
      /\ conn \in [Addrs -> Clients \cup {None}]
      /\ inbox \in [Clients -> Seq(Reply)]
  BY DEF ServerInv, TypeOK
<1>1. CASE UNCHANGED vars
  BY <1>0, <1>1, NetStepKeepsInv DEF vars, netVars
<1>2. CASE Request
  <2>1. PICK cl \in Clients, a \in Addrs :
          \/ Query(cl, a) \/ Malformed(cl, a) \/ Unconvertible(cl, a)
          \/ \E n \in Names :
               \/ \E code \in Codes : Create(cl, a, n, code)
               \/ Delete(cl, a, n)
               \/ \E block \in BOOLEAN : Run(cl, a, n, block)
          \/ \E id \in Ids : Resolve(cl, a, id)
    BY <1>2 DEF Request
  <2>2. Arrive(cl, a) => /\ addr' \in [Clients -> Addrs \cup {None}]
                         /\ conn' \in [Addrs -> Clients \cup {None}]
                         /\ \A c \in Clients : addr[c] # None => addr'[c] # None
    BY <1>0, ServerConstants DEF Arrive
  <2>3. \A of \in {"ok", "refused"} :
          Send(cl, of, None) => inbox' \in [Clients -> Seq(Reply)]
    <3> SUFFICES ASSUME NEW of \in {"ok", "refused"}, Send(cl, of, None)
                 PROVE  inbox' \in [Clients -> Seq(Reply)]
      OBVIOUS
    <3>1. [of |-> of, id |-> None] \in Reply
      BY DEF Reply
    <3> QED
      BY <3>1, SendTypes
  <2>4. CASE Query(cl, a) \/ Malformed(cl, a)
    BY <1>0, <2>2, <2>3, <2>4, NetStepKeepsInv DEF Query, Malformed
  <2>4a. CASE Unconvertible(cl, a)
    BY <1>0, <2>2, <2>4a, NetStepKeepsInv DEF Unconvertible
  <2>5. ASSUME NEW n \in Names, NEW code \in Codes, Create(cl, a, n, code)
        PROVE  ServerInv'
    <3>1. store' \in [Names -> Codes \cup {None}]
      BY <1>0, <2>5 DEF Create
    <3> QED
      BY <1>0, <2>2, <2>3, <2>5, <3>1, NetStepKeepsInv DEF Create
  <2>6. ASSUME NEW n \in Names, Delete(cl, a, n)
        PROVE  ServerInv'
    <3>1. store' \in [Names -> Codes \cup {None}]
      BY <1>0, <2>6 DEF Delete
    <3> QED
      BY <1>0, <2>2, <2>3, <2>6, <3>1, NetStepKeepsInv DEF Delete
  <2>7. ASSUME NEW n \in Names, NEW block \in BOOLEAN, Run(cl, a, n, block)
        PROVE  ServerInv'
    <3>1. CASE jobVars' # jobVars
      BY <2>7, <3>1, AcceptKeepsInv
    <3>2. CASE jobVars' = jobVars /\ Send(cl, "refused", None)
      BY <1>0, <2>2, <2>3, <2>7, <3>2, NetStepKeepsInv DEF Run
    <3>3. CASE jobVars' = jobVars /\ UNCHANGED inbox
      BY <1>0, <2>2, <2>7, <3>3, NetStepKeepsInv DEF Run
    <3> QED
      BY <2>7, <3>1, <3>2, <3>3 DEF Run
  <2>8. ASSUME NEW id \in Ids, Resolve(cl, a, id)
        PROVE  ServerInv'
    BY <2>8, ResolveKeepsInv
  <2> QED
    BY <2>1, <2>4, <2>4a, <2>5, <2>6, <2>7, <2>8
<1>3. CASE Enqueue
  BY <1>3, EnqueueKeepsInv
<1>4. ASSUME NEW cl \in Clients, Close(cl)
      PROVE  ServerInv'
  <2>1. conn' \in [Addrs -> Clients \cup {None}]
    BY <1>0, <1>4 DEF Close
  <2> QED
    BY <1>0, <1>4, <2>1, NetStepKeepsInv DEF Close
<1>5. CASE Idle
  BY <1>5, IdleKeepsInv
<1>6. CASE TornDequeue
  BY <1>0, <1>6, NetStepKeepsInv DEF TornDequeue, netVars
<1>7. CASE Cleanup
  BY <1>7, CleanupBlockingKeepsInv, CleanupNonblockingKeepsInv DEF Cleanup
<1>8. ASSUME NEW w \in Workers, Start(w)
      PROVE  ServerInv'
  <2>1. CASE store[baton[Head(pool)].name] # None
    BY <1>8, <2>1, StartKeepsInv
  <2>2. CASE store[baton[Head(pool)].name] = None
    <3>1. /\ up' = FALSE /\ UNCHANGED <<pool, work>>
          /\ UNCHANGED <<ringVars, store, lastId, baton, pushing, queue, finished, netVars>>
      BY <1>8, <2>2 DEF Start
    <3> QED
      BY <1>0, <3>1, NetStepKeepsInv DEF Start, jobVars, netVars
  <2> QED
    BY <2>1, <2>2
<1>9. ASSUME NEW w \in Workers, Finish(w)
      PROVE  ServerInv'
  <2>1. CASE Outcome[work[w].code] # "dies"
    BY <1>9, <2>1, FinishKeepsInv
  <2>2. CASE Outcome[work[w].code] = "dies"
    <3>1. /\ up' = FALSE /\ UNCHANGED <<baton, finished, work>>
          /\ UNCHANGED <<ringVars, store, lastId, pushing, queue, pool, netVars>>
      BY <1>9, <2>2 DEF Finish
    <3> QED
      BY <1>0, <3>1, NetStepKeepsInv DEF jobVars, netVars
  <2> QED
    BY <2>1, <2>2
<1> QED
  BY <1>1, <1>2, <1>3, <1>4, <1>5, <1>6, <1>7, <1>8, <1>9 DEF Next

(* Whatever clients, workers and connections do, jobs are numbered, queued *)
(* and started in order, are in one place, and batons are used only while  *)
(* they are there.                                                         *)
THEOREM ServerInvariant == Spec => []ServerInv
  BY ServerInvInit, NextKeepsInv, PTL DEF Spec

(* The jobs that wait are in the order of their numbers, with no gap: none *)
(* is dropped, doubled or overtaken on the way from enqueue to the pool.   *)
THEOREM JobsWaitInOrder == Spec => []WaitingInOrder
<1>1. ServerInv => WaitingInOrder
  BY DEF ServerInv
<1> QED
  BY <1>1, ServerInvariant, PTL

(* A job runs on one thread, ends once, and is kept by the ring only after *)
(* that.                                                                   *)
THEOREM JobsInOnePlace == Spec => []OnePlace
<1>1. ServerInv => OnePlace
  BY DEF ServerInv
<1> QED
  BY <1>1, ServerInvariant, PTL

(* No thread, list or map holds a baton that actionCleanup has deleted,    *)
(* and results are read from batons whose run has ended.                   *)
THEOREM BatonsUsedWhileLive == Spec => []BatonsLive
<1>1. ServerInv => BatonsLive
  BY DEF ServerInv
<1> QED
  BY <1>1, ServerInvariant, PTL

LEMMA FinishedEnds ==
  ServerInv /\ finished # <<>> => Head(finished) \notin posted
<1> SUFFICES ASSUME ServerInv, finished # <<>> PROVE Head(finished) \notin posted
  OBVIOUS
<1>1. Head(finished) \in Elements(finished)
  BY JobTypes, TailFacts
<1> QED
  BY <1>1 DEF ServerInv

(* What the server does with the ring is what RingSpec lets an environment *)
(* do: only jobs that have just ended are posted, and that makes each id   *)
(* be posted once.                                                         *)
LEMMA StepUsesRing == ServerInv /\ [Next]_vars => [RingNext]_ringVars
<1> SUFFICES ASSUME ServerInv, [Next]_vars PROVE [RingNext]_ringVars
  OBVIOUS
<1>1. CASE UNCHANGED vars \/ Enqueue \/ Idle \/ TornDequeue
           \/ (\E cl \in Clients : Close(cl))
           \/ (\E w \in Workers : Start(w) \/ Finish(w))
  BY <1>1 DEF vars, Enqueue, Idle, TornDequeue, Close, Start, Finish
<1>2. CASE Request
  <2>1. ASSUME NEW id \in Ids, NEW cl \in Clients, NEW a \in Addrs, Resolve(cl, a, id)
        PROVE  RingNext
    BY <2>1 DEF Resolve, RingNext
  <2> QED
    BY <1>2, <2>1 DEF Request, Query, Malformed, Unconvertible, Create, Delete, Run
<1>3. CASE Cleanup
  <2>1. Head(finished) \in Ids /\ Head(finished) \notin posted
    BY <1>3, JobTypes, FinishedEnds DEF Cleanup
  <2>2. CASE CleanupBlocking(Head(finished))
    BY <2>2 DEF CleanupBlocking
  <2>3. CASE CleanupNonblocking(Head(finished))
    BY <2>1, <2>3 DEF CleanupNonblocking, RingNext
  <2> QED
    BY <1>3, <2>2, <2>3 DEF Cleanup
<1> QED
  BY <1>1, <1>2, <1>3 DEF Next

(* The composition: in the server the ring meets the assumptions that its  *)
(* own theorems make about its environment ...                             *)
THEOREM RingUsedRight == Spec => RingUsedAsSpecified
<1>1. Init => RingInit
  BY DEF Init
<1> QED
  BY <1>1, StepUsesRing, ServerInvariant, PTL DEF Spec, RingUsedAsSpecified, RingSpec

(* ... so the server keeps the promise of ResultExchange.                  *)
THEOREM ServerImplementsExchange == Spec => ExchangeSpec
  BY RingUsedRight, RingImplementsExchange DEF RingUsedAsSpecified

-----------------------------------------------------------------------------
(* How far jobs have come                                                  *)

(* Status, read off from the numbers of the jobs.                          *)
Stage(id) ==
  IF id > lastId THEN "none"
  ELSE IF id > LastStarted THEN "accepted"
  ELSE IF id \in Running THEN "running"
  ELSE IF id \in Elements(finished) \cup Kept THEN "done"
  ELSE "handed"

(* The jobs that wait are those after the last one that was started.       *)
LEMMA WaitingByNumber ==
  ASSUME ServerInv, NEW id \in Ids
  PROVE  id \in {pushing} \cup Elements(queue) \cup Elements(pool)
           <=> LastStarted < id /\ id <= lastId
<1> DEFINE P == Len(pool)
           Q == Len(queue)
           L == LastStarted
<1>1. /\ P \in Nat /\ Q \in Nat /\ L \in Int /\ lastId \in Int /\ id \in Int
      /\ L = Pushed - Q - P
  BY JobInts
<1>2. /\ \A i \in 1 .. P : pool[i] = L + i
      /\ \A i \in 1 .. Q : queue[i] = L + P + i
  BY DEF ServerInv, WaitingInOrder
<1> HIDE DEF P, Q, L
<1>3. id \in Elements(pool) <=> L < id /\ id <= L + P
  <2>1. ASSUME NEW i \in 1 .. P, id = pool[i]
        PROVE  L < id /\ id <= L + P
    BY <1>1, <1>2, <2>1
  <2>2. ASSUME L < id, id <= L + P
        PROVE  \E i \in 1 .. P : id = pool[i]
    <3>1. id - L \in 1 .. P /\ id = L + (id - L)
      BY <1>1, <2>2
    <3> QED
      BY <3>1, <1>2
  <2> QED
    BY <2>1, <2>2 DEF Elements, P
<1>4. id \in Elements(queue) <=> L + P < id /\ id <= L + P + Q
  <2>1. ASSUME NEW i \in 1 .. Q, id = queue[i]
        PROVE  L + P < id /\ id <= L + P + Q
    BY <1>1, <1>2, <2>1
  <2>2. ASSUME L + P < id, id <= L + P + Q
        PROVE  \E i \in 1 .. Q : id = queue[i]
    <3>1. id - (L + P) \in 1 .. Q /\ id = L + P + (id - (L + P))
      BY <1>1, <2>2
    <3> QED
      BY <3>1, <1>2
  <2> QED
    BY <2>1, <2>2 DEF Elements, Q
<1>5. CASE pushing = None
  <2>1. lastId = L + P + Q /\ id # pushing
    BY <1>1, <1>5, RingConstants DEF Pushed
  <2> QED
    BY <2>1, <1>1, <1>3, <1>4 DEF L
<1>6. CASE pushing # None
  <2>1. lastId = L + P + Q + 1 /\ pushing = lastId
    BY <1>1, <1>6 DEF Pushed, ServerInv, WaitingInOrder
  <2> QED
    BY <2>1, <1>1, <1>3, <1>4 DEF L
<1> QED
  BY <1>5, <1>6

LEMMA StatusIsStage ==
  ServerInv => \A id \in Ids : Status(id) = Stage(id)
<1> SUFFICES ASSUME ServerInv, NEW id \in Ids
             PROVE  Status(id) = Stage(id)
  OBVIOUS
<1>1. baton[id] = None <=> ~(id <= lastId)
  BY DEF ServerInv
<1>2. ~(id <= lastId) <=> id > lastId
  BY JobInts
<1>3. LastStarted < id <=> id > LastStarted
  BY JobInts
<1> QED
  BY <1>1, <1>2, <1>3, WaitingByNumber DEF Status, Stage

LEMMA StatusIsStageNext ==
  ServerInv' => \A id \in Ids : Status(id)' = Stage(id)'
<1>1. (ServerInv => \A id \in Ids : Status(id) = Stage(id))'
  BY StatusIsStage, PTL
<1> QED
  BY <1>1

Statuses == [id \in Ids |-> Status(id)]

(* A step after which every job is where it was, and one that moves one.   *)
LEMMA NoneMoves ==
  ASSUME ServerInv, ServerInv', \A id \in Ids : Stage(id)' = Stage(id)
  PROVE  UNCHANGED Statuses
  BY StatusIsStage, StatusIsStageNext DEF Statuses

LEMMA OneMoves ==
  ASSUME ServerInv, ServerInv', NEW id \in Ids, NEW from, NEW to,
         Stage(id) = from, Stage(id)' = to,
         \A other \in Ids : other # id => Stage(other)' = Stage(other)
  PROVE  Lifecycle!Move(id, from, to)
<1>1. /\ \A x \in Ids : Status(x) = Stage(x)
      /\ \A x \in Ids : Status(x)' = Stage(x)'
  BY StatusIsStage, StatusIsStageNext
<1>2. Statuses \in [Ids -> {Stage(x) : x \in Ids}] /\ Statuses[id] = from
  BY <1>1 DEF Statuses
<1>3. Statuses' = [Statuses EXCEPT ![id] = to]
  BY <1>1 DEF Statuses
<1> QED
  BY <1>2, <1>3 DEF Lifecycle!Move, Statuses

LEMMA AcceptMoves ==
  ASSUME ServerInv, ServerInv', NEW cl \in Clients, NEW a \in Addrs, NEW n \in Names,
         NEW block \in BOOLEAN, Run(cl, a, n, block), jobVars' # jobVars
  PROVE  \E id \in Ids : Lifecycle!Accept(id)
<1>1. /\ lastId < MaxId /\ lastId' = lastId + 1
      /\ pushing = None /\ pushing' = lastId'
      /\ UNCHANGED <<queue, pool, work, finished>>
      /\ UNCHANGED ringVars
  BY DEF Run, Arrive, jobVars
<1>2. lastId + 1 \in Ids /\ lastId \in Int /\ Ids \subseteq Int
  BY <1>1, JobTypes
<1>3. PICK new \in Ids : new = lastId + 1
  BY <1>2
<1>4. LastStarted \in Int /\ LastStarted <= lastId
  BY JobInts
<1>5. /\ Running' = Running /\ Elements(finished)' = Elements(finished)
      /\ Kept' = Kept /\ LastStarted' = LastStarted
  BY <1>1, <1>2, JobTypes, RingConstants
     DEF Running, Elements, Kept, LastStarted, Pushed, ringVars
<1>6. Stage(new) = "none" /\ Stage(new)' = "accepted"
  BY <1>1, <1>2, <1>3, <1>4, <1>5 DEF Stage
<1>7. \A other \in Ids : other # new => Stage(other)' = Stage(other)
  BY <1>1, <1>2, <1>3, <1>4, <1>5 DEF Stage
<1>8. \A other \in Ids : other < new => Stage(other) # "none"
  BY <1>2, <1>3 DEF Stage
<1>9. Lifecycle!Move(new, "none", "accepted")
  BY <1>6, <1>7, OneMoves
<1>10. \A other \in Lifecycle!Earlier(new) : Statuses[other] # "none"
  BY <1>8, StatusIsStage DEF Lifecycle!Earlier, Statuses
<1> QED
  BY <1>9, <1>10 DEF Lifecycle!Accept, Statuses

LEMMA StartMoves ==
  ASSUME ServerInv, ServerInv', NEW w \in Workers, Start(w),
         store[baton[Head(pool)].name] # None
  PROVE  \E id \in Ids : Lifecycle!Start(id)
<1>1. PICK id \in Ids : id = Head(pool)
  BY JobTypes, TailFacts DEF Start
<1>2. /\ id = LastStarted + 1 /\ id <= lastId
      /\ LastStarted' = LastStarted + 1
      /\ Running' = Running \cup {id}
      /\ UNCHANGED <<ringVars, lastId, finished>>
  BY <1>1, StartEffect
<1>3. /\ Elements(finished)' = Elements(finished) /\ Kept' = Kept
      /\ LastStarted \in Int /\ lastId \in Int /\ Ids \subseteq Int
  BY <1>2, JobInts DEF Elements, Kept, ringVars
<1>4. Stage(id) = "accepted" /\ Stage(id)' = "running"
  BY <1>2, <1>3 DEF Stage
<1>5. \A other \in Ids : other # id => Stage(other)' = Stage(other)
  BY <1>2, <1>3 DEF Stage
<1>6. \A other \in Ids : other < id => Stage(other) # "accepted"
  BY <1>2, <1>3 DEF Stage
<1>7. Lifecycle!Move(id, "accepted", "running")
  BY <1>4, <1>5, OneMoves
<1>8. \A other \in Lifecycle!Earlier(id) : Statuses[other] # "accepted"
  BY <1>6, StatusIsStage DEF Lifecycle!Earlier, Statuses
<1> QED
  BY <1>7, <1>8 DEF Lifecycle!Start, Statuses

LEMMA FinishMoves ==
  ASSUME ServerInv, ServerInv', NEW w \in Workers, Finish(w), Outcome[work[w].code] # "dies"
  PROVE  \E id \in Ids : Lifecycle!Finish(id)
<1>1. PICK id \in Ids : id = work[w].id
  BY FinishEffect
<1>2. /\ id \in Running
      /\ Running' = Running \ {id}
      /\ Elements(finished)' = Elements(finished) \cup {id}
      /\ UNCHANGED <<ringVars, lastId>> /\ LastStarted' = LastStarted
  BY <1>1, FinishEffect
<1>3. /\ Kept' = Kept
      /\ id \notin Elements(finished) \cup Kept
  BY <1>2 DEF Kept, ringVars, ServerInv, OnePlace
<1>4. LastStarted \in Int /\ lastId \in Int /\ Ids \subseteq Int
      /\ id <= LastStarted /\ LastStarted <= lastId
  BY <1>2, JobInts, StartedJobs
<1>5. Stage(id) = "running" /\ Stage(id)' = "done"
  BY <1>2, <1>4 DEF Stage
<1>6. \A other \in Ids : other # id => Stage(other)' = Stage(other)
  BY <1>2, <1>3 DEF Stage
<1> QED
  BY <1>5, <1>6, OneMoves DEF Lifecycle!Finish

(* The result of a run is sent, or taken out of the ring.                  *)
LEMMA ResultLeaves ==
  ASSUME ServerInv, ServerInv', NEW id \in Ids,
         id \in Elements(finished) \cup Kept,
         (Elements(finished) \cup Kept)' = (Elements(finished) \cup Kept) \ {id},
         UNCHANGED <<lastId, pushing, queue, pool, work>>
  PROVE  Lifecycle!HandOver(id)
<1>1. Running' = Running /\ LastStarted' = LastStarted
  BY DEF Running, LastStarted, Pushed
<1>2. LastStarted \in Int /\ lastId \in Int /\ id \in Int
      /\ id <= LastStarted /\ LastStarted <= lastId
      /\ id \notin Running
  BY JobInts, StartedJobs DEF ServerInv, OnePlace
<1>3. Stage(id) = "done" /\ Stage(id)' = "handed"
  BY <1>1, <1>2 DEF Stage
<1>4. \A other \in Ids : other # id => Stage(other)' = Stage(other)
  BY <1>1 DEF Stage
<1> QED
  BY <1>3, <1>4, OneMoves DEF Lifecycle!HandOver

LEMMA CleanupMoves ==
  ASSUME ServerInv, ServerInv', Cleanup
  PROVE  (\E id \in Ids : Lifecycle!HandOver(id)) \/ UNCHANGED Statuses
<1>1. PICK id \in Ids : id = Head(finished)
  BY FinishedTail DEF Cleanup
<1>2. /\ id \in Elements(finished)
      /\ Elements(finished)' = Elements(finished) \ {id}
      /\ UNCHANGED <<lastId, pushing, queue, pool, work>>
      /\ CleanupBlocking(id) \/ CleanupNonblocking(id)
  BY <1>1, FinishedTail DEF Cleanup
<1>3. id \notin Kept
  BY <1>2 DEF ServerInv, OnePlace
<1>4. ring \in [Ids -> Entry \cup {None}]
  BY DEF ServerInv, TypeOK, RingTypeOK
<1>5. CASE Kept' = Kept
  <2>1. (Elements(finished) \cup Kept)' = (Elements(finished) \cup Kept) \ {id}
    BY <1>2, <1>3, <1>5
  <2> QED
    BY <1>2, <2>1, ResultLeaves
<1>6. CASE Kept' = Kept \cup {id}
  <2>1. (Elements(finished) \cup Kept)' = Elements(finished) \cup Kept
    BY <1>2, <1>6
  <2>2. Running' = Running /\ LastStarted' = LastStarted
    BY <1>2 DEF Running, LastStarted, Pushed
  <2> QED
    BY <1>2, <2>1, <2>2, NoneMoves DEF Stage
<1>7. CASE CleanupBlocking(id)
  BY <1>5, <1>7 DEF CleanupBlocking, Kept, ringVars
<1>8. CASE CleanupNonblocking(id) /\ CallBack(id)
  BY <1>3, <1>4, <1>5, <1>8 DEF CallBack, Kept
<1>9. CASE CleanupNonblocking(id) /\ StoreAction(id)
  <2>1. /\ ring'[id] # None /\ ring'[id].action = id
        /\ \A x \in Ids : x # id => ring'[x] = ring[x]
    BY <1>4, <1>9, RingConstants DEF StoreAction, Entry
  <2> QED
    BY <1>6, <2>1 DEF Kept
<1> QED
  BY <1>2, <1>7, <1>8, <1>9 DEF CleanupNonblocking, PutAction

LEMMA ResolveMoves ==
  ASSUME ServerInv, ServerInv', NEW cl \in Clients, NEW a \in Addrs, NEW id \in Ids,
         Resolve(cl, a, id)
  PROVE  Lifecycle!HandOver(id) \/ UNCHANGED Statuses
<1>1. PutCallback(id, cl) /\ UNCHANGED jobVars
  BY DEF Resolve
<1>2. ring \in [Ids -> Entry \cup {None}] /\ id # None /\ id # Wild
  BY RingConstants DEF ServerInv, TypeOK, RingTypeOK
<1>3. \A x \in Ids : x # id => ring'[x] = ring[x]
  BY <1>1, <1>2 DEF PutCallback, RegisterCallback, DropCallback, CollectAction
<1>4. Running' = Running /\ LastStarted' = LastStarted
      /\ Elements(finished)' = Elements(finished)
  BY <1>1 DEF jobVars, Running, LastStarted, Pushed, Elements
<1>5. CASE Kept' = Kept
  BY <1>1, <1>4, <1>5, NoneMoves DEF Stage, jobVars
<1>6. CASE CollectAction(id, cl) /\ id \in Kept
  <2>1. Kept' = Kept \ {id}
    BY <1>2, <1>3, <1>6 DEF CollectAction, Kept
  <2>2. id \notin Elements(finished)
    BY <1>6 DEF ServerInv, OnePlace
  <2>3. (Elements(finished) \cup Kept)' = (Elements(finished) \cup Kept) \ {id}
    BY <1>4, <2>1, <2>2
  <2> QED
    BY <1>1, <1>6, <2>3, ResultLeaves DEF jobVars
<1>7. CASE CollectAction(id, cl) /\ id \notin Kept
  BY <1>2, <1>3, <1>5, <1>7 DEF CollectAction, Kept
<1>8. CASE DropCallback(id, cl)
  BY <1>5, <1>8 DEF DropCallback, Kept
<1>9. CASE RegisterCallback(id, cl)
  <2>1. ring[id] = None /\ ring'[id].action \in {None, Wild}
    BY <1>2, <1>9 DEF RegisterCallback
  <2> QED
    BY <1>2, <1>3, <1>5, <2>1 DEF Kept
<1> QED
  BY <1>1, <1>6, <1>7, <1>8, <1>9 DEF PutCallback

(* The threads keep the promise: a step of the server moves one job on, as *)
(* JobLifecycle allows, or none.                                           *)
LEMMA StepKeepsPromise ==
  ServerInv /\ ServerInv' /\ [Next]_vars => [Lifecycle!Next]_Statuses
<1> SUFFICES ASSUME ServerInv, ServerInv', [Next]_vars
             PROVE  [Lifecycle!Next]_Statuses
  OBVIOUS
<1>1. ASSUME UNCHANGED <<ringVars, lastId, work, finished>>, LastStarted' = LastStarted
      PROVE  UNCHANGED Statuses
  <2>1. Running' = Running /\ Elements(finished)' = Elements(finished) /\ Kept' = Kept
    BY <1>1 DEF Running, Elements, Kept, ringVars
  <2> QED
    BY <1>1, <2>1, NoneMoves DEF Stage
<1>2. ASSUME UNCHANGED <<ringVars, jobVars>>
      PROVE  UNCHANGED Statuses
  BY <1>1, <1>2 DEF jobVars, LastStarted, Pushed
<1>3. CASE UNCHANGED vars \/ TornDequeue \/ \E cl \in Clients : Close(cl)
  BY <1>2, <1>3 DEF vars, TornDequeue, Close
<1>4. CASE Request
  <2>1. ASSUME NEW cl \in Clients, NEW a \in Addrs, NEW n \in Names,
               NEW block \in BOOLEAN, Run(cl, a, n, block)
        PROVE  [Lifecycle!Next]_Statuses
    <3>1. CASE jobVars' # jobVars
      BY <2>1, <3>1, AcceptMoves DEF Lifecycle!Next
    <3>2. CASE jobVars' = jobVars
      BY <1>2, <2>1, <3>2 DEF Run
    <3> QED
      BY <3>1, <3>2
  <2>2. ASSUME NEW cl \in Clients, NEW a \in Addrs, NEW id \in Ids, Resolve(cl, a, id)
        PROVE  [Lifecycle!Next]_Statuses
    BY <2>2, ResolveMoves DEF Lifecycle!Next
  <2>3. ASSUME NEW cl \in Clients, NEW a \in Addrs,
               \/ Query(cl, a) \/ Malformed(cl, a) \/ Unconvertible(cl, a)
               \/ \E n \in Names : Delete(cl, a, n) \/ \E code \in Codes : Create(cl, a, n, code)
        PROVE  UNCHANGED Statuses
    BY <1>2, <2>3 DEF Query, Malformed, Unconvertible, Delete, Create
  <2> QED
    BY <1>4, <2>1, <2>2, <2>3 DEF Request
<1>5. CASE Enqueue \/ Idle
  BY <1>1, <1>5, MoveEffect DEF Enqueue, Idle
<1>6. CASE Cleanup
  BY <1>6, CleanupMoves DEF Lifecycle!Next
<1>7. ASSUME NEW w \in Workers, Start(w)
      PROVE  [Lifecycle!Next]_Statuses
  <2>1. CASE store[baton[Head(pool)].name] # None
    BY <1>7, <2>1, StartMoves DEF Lifecycle!Next
  <2>2. CASE store[baton[Head(pool)].name] = None
    BY <1>2, <1>7, <2>2 DEF Start, jobVars
  <2> QED
    BY <2>1, <2>2
<1>8. ASSUME NEW w \in Workers, Finish(w)
      PROVE  [Lifecycle!Next]_Statuses
  <2>1. CASE Outcome[work[w].code] # "dies"
    BY <1>8, <2>1, FinishMoves DEF Lifecycle!Next
  <2>2. CASE Outcome[work[w].code] = "dies"
    BY <1>2, <1>8, <2>2 DEF Finish, jobVars
  <2> QED
    BY <2>1, <2>2
<1> QED
  BY <1>3, <1>4, <1>5, <1>6, <1>7, <1>8 DEF Next

(* In spite of its threads and queues the server does what JobLifecycle    *)
(* promises: it starts jobs in the order it has accepted them in, runs     *)
(* each of them at most once and gives its result away at most once.       *)
THEOREM ServerKeepsLifecycle == Spec => LifecycleSpec
<1>1. Init => Lifecycle!Init
  BY DEF Init, Lifecycle!Init, Status
<1> QED
  BY <1>1, ServerInvariant, StepKeepsPromise, PTL DEF Spec, LifecycleSpec, Lifecycle!Spec, Statuses

-----------------------------------------------------------------------------
(* Replies                                                                 *)

LEMMA FirstReply ==
  ASSUME inbox \in [Clients -> Seq(Reply)], inbox' \in [Clients -> Seq(Reply)],
         NEW cl \in Clients, NEW of, NEW id,
         Send(cl, of, id), inbox[cl] = <<>>
  PROVE  /\ inbox'[cl] = << [of |-> of, id |-> id] >>
         /\ Len(inbox'[cl]) = 1 /\ inbox'[cl] # <<>>
         /\ inbox'[cl][1].of = of /\ inbox'[cl][1].id = id
         /\ \A c \in Clients : c # cl => inbox'[c] = inbox[c]
<1>1. inbox' = [inbox EXCEPT ![cl] = Append(inbox[cl], [of |-> of, id |-> id])]
  BY DEF Send
<1>2. Append(<<>>, [of |-> of, id |-> id]) = << [of |-> of, id |-> id] >>
  OBVIOUS
<1>3. inbox'[cl] = << [of |-> of, id |-> id] >>
  BY <1>1, <1>2
<1>4. \A c \in Clients : c # cl => inbox'[c] = inbox[c]
  BY <1>1
<1> QED
  BY <1>3, <1>4

(* Batons are only made, completed and deleted.                            *)
SameBatons ==
  \A id \in Ids :
    /\ baton'[id] # None <=> baton[id] # None
    /\ baton[id] # None =>
         /\ baton'[id].client = baton[id].client
         /\ baton'[id].block = baton[id].block
         /\ baton[id].freed => baton'[id].freed

(* Steps that send nothing and in which nobody arrives.                    *)
LEMMA SilentStep ==
  ASSUME ServerInv, ReplyInv, SameBatons,
         inbox' = inbox, addr' = addr, asked' = asked, calls \subseteq calls',
         pushing' \in {pushing, None},
         \A cl \in Clients :
           addr[cl] # None /\ inbox[cl] = <<>> /\ conn[addr[cl]] = cl => conn'[addr[cl]] = cl
  PROVE  ReplyInv'
<1>1. OneReply'
  BY DEF ReplyInv, OneReply
<1>2. RepliesToAskers'
  BY DEF ReplyInv, RepliesToAskers, SameBatons
<1>3. \A cl \in Clients : Served(cl) => Served(cl)'
  BY DEF Served
<1>4. \A cl \in Clients :
       /\ inbox'[cl] # <<>> => addr'[cl] # None
       /\ addr'[cl] # None /\ inbox'[cl] = <<>> => conn'[addr'[cl]] = cl
       /\ asked'[cl] # None /\ ~Served(cl)' => inbox'[cl] = <<>>
       /\ inbox'[cl] # <<>> /\ inbox'[cl][1].of \in {"id", "returns", "fails"} =>
            inbox'[cl][1].id \in Ids /\ baton'[inbox'[cl][1].id] # None
  BY <1>3 DEF ReplyInv, SameBatons
<1>5. pushing' # None => inbox'[baton'[pushing'].client] = <<>>
  <2> SUFFICES ASSUME pushing' # None PROVE inbox'[baton'[pushing].client] = <<>>
    OBVIOUS
  <2>1. pushing' = pushing /\ pushing \in Ids /\ baton[pushing] # None
    BY DEF ServerInv, TypeOK, WaitingInOrder
  <2> QED
    BY <2>1 DEF ReplyInv, SameBatons
<1>6. \A id \in Ids : baton'[id] # None =>
       /\ asked'[baton'[id].client] = None
       /\ baton'[id].block /\ ~baton'[id].freed => inbox'[baton'[id].client] = <<>>
       /\ \A other \in Ids :
            baton'[other] # None /\ baton'[other].client = baton'[id].client => other = id
  BY DEF ReplyInv, SameBatons
<1> QED
  BY <1>1, <1>2, <1>4, <1>5, <1>6 DEF ReplyInv

(* Steps that send one reply, to a client that had none.                   *)
LEMMA SendStep ==
  ASSUME ServerInv, ServerInv', ReplyInv, SameBatons,
         NEW cl \in Clients, NEW of, NEW id,
         Send(cl, of, id), inbox[cl] = <<>>,
         addr'[cl] # None, calls \subseteq calls',
         \A c \in Clients : c # cl =>
           /\ addr'[c] = addr[c] /\ asked'[c] = asked[c]
           /\ addr[c] # None /\ inbox[c] = <<>> /\ conn[addr[c]] = c => conn'[addr[c]] = c,
         of = "id" => /\ id \in Ids /\ baton[id] # None
                      /\ baton[id].client = cl /\ ~baton[id].block,
         of \in {"returns", "fails"} =>
           /\ id \in Ids /\ baton[id] # None
           /\ IF baton[id].block THEN baton[id].client = cl ELSE asked'[cl] = id,
         pushing' # None => pushing' = pushing /\ baton[pushing].client # cl,
         \A x \in Ids : baton[x] # None /\ baton[x].client = cl =>
           /\ asked'[cl] = None
           /\ baton[x].block => baton'[x].freed,
         asked'[cl] # None => Served(cl)'
  PROVE  ReplyInv'
<1>0. inbox \in [Clients -> Seq(Reply)] /\ inbox' \in [Clients -> Seq(Reply)]
  BY DEF ServerInv, TypeOK
<1>a. /\ Len(inbox'[cl]) = 1 /\ inbox'[cl] # <<>>
      /\ inbox'[cl][1].of = of /\ inbox'[cl][1].id = id
      /\ \A c \in Clients : c # cl => inbox'[c] = inbox[c]
  BY <1>0, FirstReply
<1>b. \A x \in Ids : baton[x] # None => baton[x].client \in Clients
  BY JobTypes DEF Baton
<1>1. OneReply'
  <2> SUFFICES ASSUME NEW c \in Clients PROVE Len(inbox'[c]) <= 1
    BY DEF OneReply
  <2>1. CASE c = cl
    <3>1. Len(inbox'[c]) = 1
      BY <1>a, <2>1, Zenon
    <3> QED
      BY <3>1
  <2>2. CASE c # cl
    BY <1>a, <2>2 DEF ReplyInv, OneReply
  <2> QED
    BY <2>1, <2>2
<1>2. RepliesToAskers'
  <2> SUFFICES ASSUME NEW c \in Clients, inbox'[c] # <<>>
               PROVE  /\ inbox'[c][1].of = "id" =>
                           /\ baton'[inbox'[c][1].id].client = c
                           /\ ~baton'[inbox'[c][1].id].block
                      /\ inbox'[c][1].of \in {"returns", "fails"} =>
                           IF baton'[inbox'[c][1].id].block
                           THEN baton'[inbox'[c][1].id].client = c
                           ELSE asked'[c] = inbox'[c][1].id
    BY DEF RepliesToAskers
  <2>1. CASE c = cl
    BY <1>a, <2>1 DEF SameBatons
  <2>2. CASE c # cl
    <3>1. inbox'[c] = inbox[c] /\ asked'[c] = asked[c]
      BY <1>a, <2>2
    <3>2. /\ inbox[c][1].of = "id" =>
                /\ baton[inbox[c][1].id].client = c
                /\ ~baton[inbox[c][1].id].block
          /\ inbox[c][1].of \in {"returns", "fails"} =>
                IF baton[inbox[c][1].id].block
                THEN baton[inbox[c][1].id].client = c
                ELSE asked[c] = inbox[c][1].id
      BY <3>1 DEF ReplyInv, RepliesToAskers
    <3>3. inbox[c][1].of \in {"id", "returns", "fails"} =>
            inbox[c][1].id \in Ids /\ baton[inbox[c][1].id] # None
      BY <3>1 DEF ReplyInv
    <3> QED
      BY <3>1, <3>2, <3>3 DEF SameBatons
  <2> QED
    BY <2>1, <2>2
<1>3. \A c \in Clients : Served(c) => Served(c)'
  BY DEF Served
<1>4. ASSUME NEW c \in Clients
      PROVE  /\ inbox'[c] # <<>> => addr'[c] # None
             /\ addr'[c] # None /\ inbox'[c] = <<>> => conn'[addr'[c]] = c
             /\ asked'[c] # None /\ ~Served(c)' => inbox'[c] = <<>>
             /\ inbox'[c] # <<>> /\ inbox'[c][1].of \in {"id", "returns", "fails"} =>
                  inbox'[c][1].id \in Ids /\ baton'[inbox'[c][1].id] # None
  <2>1. CASE c = cl
    BY <1>a, <2>1 DEF SameBatons
  <2>2. CASE c # cl
    BY <1>a, <1>3, <2>2 DEF ReplyInv, SameBatons
  <2> QED
    BY <2>1, <2>2
<1>5. pushing' # None => inbox'[baton'[pushing'].client] = <<>>
  <2> SUFFICES ASSUME pushing' # None PROVE inbox'[baton'[pushing].client] = <<>>
    OBVIOUS
  <2>1. pushing' = pushing /\ pushing \in Ids /\ baton[pushing] # None
    BY DEF ServerInv, TypeOK, WaitingInOrder
  <2>2. baton[pushing].client # cl /\ baton[pushing].client \in Clients
    BY <1>b, <2>1
  <2> QED
    BY <1>a, <2>1, <2>2 DEF ReplyInv, SameBatons
<1>6. ASSUME NEW x \in Ids, baton'[x] # None
      PROVE  /\ asked'[baton'[x].client] = None
             /\ baton'[x].block /\ ~baton'[x].freed => inbox'[baton'[x].client] = <<>>
             /\ \A other \in Ids :
                  baton'[other] # None /\ baton'[other].client = baton'[x].client => other = x
  <2>1. baton[x] # None /\ baton'[x].client = baton[x].client
        /\ baton'[x].block = baton[x].block /\ baton[x].client \in Clients
    BY <1>b, <1>6 DEF SameBatons
  <2>2. CASE baton[x].client = cl
    BY <2>1, <2>2 DEF ReplyInv, SameBatons
  <2>3. CASE baton[x].client # cl
    BY <1>a, <2>1, <2>3 DEF ReplyInv, SameBatons
  <2> QED
    BY <2>2, <2>3
<1> QED
  BY <1>1, <1>2, <1>4, <1>5, <1>6 DEF ReplyInv

(* Steps in which a client arrives that is not answered yet.               *)
LEMMA ArrivedStep ==
  ASSUME ServerInv, ServerInv', ReplyInv,
         NEW cl \in Clients, NEW a \in Addrs, Arrive(cl, a),
         inbox' = inbox, calls \subseteq calls',
         pushing' = None, baton' = baton,
         \A c \in Clients : c # cl => asked'[c] = asked[c]
  PROVE  ReplyInv'
<1>1. /\ addr[cl] = None /\ conn[a] = None
      /\ addr' = [addr EXCEPT ![cl] = a] /\ conn' = [conn EXCEPT ![a] = cl]
      /\ addr \in [Clients -> Addrs \cup {None}] /\ conn \in [Addrs -> Clients \cup {None}]
  BY DEF Arrive, ServerInv, TypeOK
<1>2. inbox[cl] = <<>> /\ asked[cl] = None
  BY <1>1 DEF ReplyInv, ServerInv
<1>3. \A x \in Ids : baton[x] # None => baton[x].client \in Clients /\ baton[x].client # cl
  BY <1>1, JobTypes DEF Baton, ServerInv
<1>4. \A c \in Clients :
        c # cl /\ addr[c] # None /\ inbox[c] = <<>> => addr'[c] = addr[c] /\ conn'[addr[c]] = c
  <2> SUFFICES ASSUME NEW c \in Clients, c # cl, addr[c] # None, inbox[c] = <<>>
               PROVE  addr'[c] = addr[c] /\ conn'[addr[c]] = c
    OBVIOUS
  <2>0. conn[addr[c]] = c
    BY DEF ReplyInv
  <2>1. conn[addr[c]] = c /\ addr[c] \in Addrs
    <3>1. addr \in [Clients -> Addrs \cup {None}]
      BY <1>1
    <3> QED
      BY <3>1, <2>0
  <2>2. c # None
    BY RingConstants
  <2> QED
    BY <1>1, <2>1, <2>2
<1>5. addr'[cl] = a /\ conn'[a] = cl /\ a # None
  BY <1>1, ServerConstants
<1>6. \A c \in Clients : Served(c) => Served(c)'
  BY DEF Served
<1>7. OneReply'
  BY DEF ReplyInv, OneReply
<1>8. RepliesToAskers'
  BY <1>2 DEF ReplyInv, RepliesToAskers
<1>9. \A c \in Clients :
       /\ inbox'[c] # <<>> => addr'[c] # None
       /\ addr'[c] # None /\ inbox'[c] = <<>> => conn'[addr'[c]] = c
       /\ asked'[c] # None /\ ~Served(c)' => inbox'[c] = <<>>
       /\ inbox'[c] # <<>> /\ inbox'[c][1].of \in {"id", "returns", "fails"} =>
            inbox'[c][1].id \in Ids /\ baton'[inbox'[c][1].id] # None
  <2> SUFFICES ASSUME NEW c \in Clients
               PROVE  /\ inbox'[c] # <<>> => addr'[c] # None
                      /\ addr'[c] # None /\ inbox'[c] = <<>> => conn'[addr'[c]] = c
                      /\ asked'[c] # None /\ ~Served(c)' => inbox'[c] = <<>>
                      /\ inbox'[c] # <<>> /\ inbox'[c][1].of \in {"id", "returns", "fails"} =>
                           inbox'[c][1].id \in Ids /\ baton'[inbox'[c][1].id] # None
    OBVIOUS
  <2>1. CASE c = cl
    BY <1>2, <1>5, <2>1
  <2>2. CASE c # cl
    BY <1>1, <1>4, <1>6, <2>2 DEF ReplyInv
  <2> QED
    BY <2>1, <2>2
<1>10. \A x \in Ids : baton'[x] # None =>
       /\ asked'[baton'[x].client] = None
       /\ baton'[x].block /\ ~baton'[x].freed => inbox'[baton'[x].client] = <<>>
       /\ \A other \in Ids :
            baton'[other] # None /\ baton'[other].client = baton'[x].client => other = x
  BY <1>3 DEF ReplyInv
<1> QED
  BY <1>7, <1>8, <1>9, <1>10 DEF ReplyInv

(* A run is accepted: its client has a new baton and no reply.             *)
LEMMA AcceptedStep ==
  ASSUME ServerInv, ServerInv', ReplyInv, NEW cl \in Clients, NEW a \in Addrs,
         NEW n \in Names, NEW block \in BOOLEAN, Run(cl, a, n, block), jobVars' # jobVars
  PROVE  ReplyInv'
<1> USE RingConstants, ServerConstants
<1> DEFINE new == lastId + 1
           made == [name |-> n, client |-> cl, block |-> block,
                    code |-> None, freed |-> FALSE]
<1>1. /\ lastId < MaxId /\ pushing' = new
      /\ baton' = [baton EXCEPT ![new] = made]
      /\ inbox' = inbox /\ UNCHANGED ringVars
      /\ addr[cl] = None /\ conn[a] = None
      /\ addr' = [addr EXCEPT ![cl] = a] /\ conn' = [conn EXCEPT ![a] = cl]
      /\ addr \in [Clients -> Addrs \cup {None}] /\ conn \in [Addrs -> Clients \cup {None}]
  BY DEF Run, Arrive, jobVars, ServerInv, TypeOK
<1>2. /\ new \in Ids /\ made # None
      /\ baton[new] = None /\ baton'[new] = made
      /\ \A id \in Ids : id # new => baton'[id] = baton[id]
  <2>1. new \in Ids
    BY <1>1, JobTypes
  <2>2. made \in Baton
    BY DEF Baton
  <2>3. made # None
    BY <2>2
  <2> QED
    BY <1>1, <2>1, <2>2, <2>3, JobTypes DEF ServerInv
<1>3. inbox[cl] = <<>> /\ asked[cl] = None /\ asked' = asked
  BY <1>1 DEF ReplyInv, ServerInv, ringVars
<1>4. \A x \in Ids : baton[x] # None => baton[x].client \in Clients /\ baton[x].client # cl
  BY <1>1, JobTypes DEF Baton, ServerInv
<1>5. \A c \in Clients : Served(c)' <=> Served(c)
  BY <1>1 DEF Served, ringVars
<1>6. OneReply'
  BY <1>1 DEF ReplyInv, OneReply
<1>7. \A c \in Clients :
        inbox[c] # <<>> /\ inbox[c][1].of \in {"id", "returns", "fails"} =>
          inbox[c][1].id \in Ids /\ baton[inbox[c][1].id] # None
          /\ baton'[inbox[c][1].id] = baton[inbox[c][1].id]
  BY <1>2 DEF ReplyInv
<1>8. RepliesToAskers'
  BY <1>1, <1>3, <1>7 DEF ReplyInv, RepliesToAskers
<1>9. ASSUME NEW c \in Clients
      PROVE  /\ inbox'[c] # <<>> => addr'[c] # None
             /\ addr'[c] # None /\ inbox'[c] = <<>> => conn'[addr'[c]] = c
             /\ asked'[c] # None /\ ~Served(c)' => inbox'[c] = <<>>
             /\ inbox'[c] # <<>> /\ inbox'[c][1].of \in {"id", "returns", "fails"} =>
                  inbox'[c][1].id \in Ids /\ baton'[inbox'[c][1].id] # None
  <2>1. CASE c = cl
    BY <1>1, <1>3, <2>1
  <2>2. CASE c # cl
    <3>1. addr'[c] = addr[c]
      BY <1>1, <2>2
    <3>2. addr[c] # None /\ inbox[c] = <<>> => conn'[addr[c]] = c
      <4> SUFFICES ASSUME addr[c] # None, inbox[c] = <<>> PROVE conn'[addr[c]] = c
        OBVIOUS
      <4>0. conn[addr[c]] = c
        BY DEF ReplyInv
      <4>1. conn[addr[c]] = c /\ addr[c] \in Addrs /\ c # None
        <5>1. addr \in [Clients -> Addrs \cup {None}]
          BY <1>1
        <5> QED
          BY <5>1, <4>0
      <4> QED
        BY <1>1, <4>1
    <3>3. /\ inbox[c] # <<>> => addr[c] # None
          /\ asked[c] # None /\ ~Served(c) => inbox[c] = <<>>
      BY DEF ReplyInv
    <3>4. inbox'[c] = inbox[c] /\ asked'[c] = asked[c] /\ (Served(c)' <=> Served(c))
      BY <1>1, <1>3, <1>5
    <3>5. inbox[c] # <<>> /\ inbox[c][1].of \in {"id", "returns", "fails"} =>
            inbox[c][1].id \in Ids /\ baton'[inbox[c][1].id] # None
      BY <1>7
    <3> QED
      BY <3>1, <3>2, <3>3, <3>4, <3>5
  <2> QED
    BY <2>1, <2>2
<1>10. ASSUME NEW x \in Ids, baton'[x] # None
       PROVE  /\ asked'[baton'[x].client] = None
              /\ baton'[x].block /\ ~baton'[x].freed => inbox'[baton'[x].client] = <<>>
              /\ \A other \in Ids :
                   baton'[other] # None /\ baton'[other].client = baton'[x].client => other = x
  <2>1. CASE x = new
    BY <1>1, <1>2, <1>3, <1>4, <2>1
  <2>2. CASE x # new
    BY <1>1, <1>2, <1>3, <1>4, <1>10, <2>2 DEF ReplyInv
  <2> QED
    BY <2>1, <2>2
<1>11. inbox'[baton'[pushing'].client] = <<>>
  BY <1>1, <1>2, <1>3
<1> QED
  BY <1>6, <1>8, <1>9, <1>10, <1>11 DEF ReplyInv

(* A request that is answered as it arrives.                               *)
LEMMA AnsweredStep ==
  ASSUME ServerInv, ServerInv', ReplyInv,
         NEW cl \in Clients, NEW a \in Addrs, Arrive(cl, a),
         NEW of \in {"ok", "refused"}, Send(cl, of, None),
         UNCHANGED <<ringVars, jobVars>>
  PROVE  ReplyInv'
<1>1. /\ addr[cl] = None /\ conn[a] = None
      /\ addr' = [addr EXCEPT ![cl] = a] /\ conn' = [conn EXCEPT ![a] = cl]
      /\ addr \in [Clients -> Addrs \cup {None}] /\ conn \in [Addrs -> Clients \cup {None}]
  BY DEF Arrive, ServerInv, TypeOK
<1>2. inbox[cl] = <<>> /\ asked[cl] = None /\ addr'[cl] # None
  BY <1>1, ServerConstants DEF ReplyInv, ServerInv
<1>3. \A x \in Ids : baton[x] # None => baton[x].client # cl
  BY <1>1 DEF ServerInv
<1>4. ASSUME NEW c \in Clients, c # cl
      PROVE  /\ addr'[c] = addr[c] /\ asked'[c] = asked[c]
             /\ addr[c] # None /\ inbox[c] = <<>> /\ conn[addr[c]] = c => conn'[addr[c]] = c
  <2>1. c # None
    BY RingConstants
  <2>2. addr'[c] = addr[c] /\ asked'[c] = asked[c]
    BY <1>1, <1>4 DEF ringVars
  <2>3. addr[c] # None /\ conn[addr[c]] = c => conn'[addr[c]] = c
    BY <1>1, <2>1
  <2> QED
    BY <2>2, <2>3
<1>5. calls' = calls /\ asked' = asked /\ baton' = baton /\ pushing' = pushing /\ pushing = None
  BY DEF ringVars, jobVars, Arrive
<1>6. SameBatons
  BY <1>5 DEF SameBatons
<1>7. of # "id" /\ of \notin {"returns", "fails"}
  OBVIOUS
<1> QED
  BY <1>2, <1>3, <1>4, <1>5, <1>6, <1>7, SendStep

(* Whatever the handler of a request does, clients have one reply at most. *)
LEMMA RequestKeepsReplies ==
  ASSUME ServerInv, ServerInv', ReplyInv, Request
  PROVE  ReplyInv'
<1>1. PICK cl \in Clients, a \in Addrs :
        \/ Query(cl, a) \/ Malformed(cl, a) \/ Unconvertible(cl, a)
        \/ \E n \in Names :
             \/ \E code \in Codes : Create(cl, a, n, code)
             \/ Delete(cl, a, n)
             \/ \E block \in BOOLEAN : Run(cl, a, n, block)
        \/ \E id \in Ids : Resolve(cl, a, id)
  BY DEF Request
<1>2. CASE Query(cl, a) \/ Malformed(cl, a)
  BY <1>2, AnsweredStep DEF Query, Malformed
<1>3. CASE Unconvertible(cl, a)
  <2>1. /\ Arrive(cl, a) /\ pushing = None
        /\ UNCHANGED <<ringVars, store, jobVars, inbox>>
    BY <1>3 DEF Unconvertible, Arrive
  <2> QED
    BY <2>1, ArrivedStep DEF ringVars, jobVars
<1>4. ASSUME NEW n \in Names, NEW code \in Codes, Create(cl, a, n, code)
      PROVE  ReplyInv'
  BY <1>4, AnsweredStep DEF Create, jobVars, ringVars
<1>5. ASSUME NEW n \in Names, Delete(cl, a, n)
      PROVE  ReplyInv'
  BY <1>5, AnsweredStep DEF Delete, jobVars, ringVars
<1>6. ASSUME NEW n \in Names, NEW block \in BOOLEAN, Run(cl, a, n, block)
      PROVE  ReplyInv'
  <2>1. CASE jobVars' # jobVars
    BY <1>6, <2>1, AcceptedStep
  <2>2. CASE jobVars' = jobVars /\ Send(cl, "refused", None)
    BY <1>6, <2>2, AnsweredStep DEF Run
  <2>3. CASE ~(jobVars' = jobVars /\ Send(cl, "refused", None)) /\ jobVars' = jobVars
    <3>1. Arrive(cl, a) /\ UNCHANGED <<ringVars, jobVars, inbox>> /\ pushing = None
      BY <1>6, <2>3 DEF Run, Arrive
    <3> QED
      BY <3>1, ArrivedStep DEF ringVars, jobVars
  <2> QED
    BY <2>1, <2>2, <2>3
<1>7. ASSUME NEW id \in Ids, Resolve(cl, a, id)
      PROVE  ReplyInv'
  <2>1. /\ Arrive(cl, a) /\ PutCallback(id, cl) /\ pushing = None
        /\ UNCHANGED jobVars
    BY <1>7 DEF Resolve, Arrive
  <2>2. /\ asked' = [asked EXCEPT ![cl] = id] /\ calls \subseteq calls'
        /\ asked \in [Callbacks -> Ids \cup {None}]
    BY <2>1 DEF PutCallback, RegisterCallback, DropCallback, CollectAction,
                ServerInv, TypeOK, RingTypeOK
  <2>3. CASE <<cl, id>> \notin calls'
    <3>1. inbox' = inbox
      BY <1>7, <2>3 DEF Resolve
    <3> QED
      BY <2>1, <2>2, <3>1, ArrivedStep DEF jobVars
  <2>4. CASE <<cl, id>> \in calls'
    <3>1. Send(cl, baton[id].code, id)
      BY <1>7, <2>4 DEF Resolve
    <3>2. id \in posted'
      <4>1. <<cl, id>>[2] = id
        OBVIOUS
      <4>2. HandedOut(id)'
        BY <2>4, <4>1, Zenon DEF HandedOut
      <4> QED
        BY <4>2 DEF ServerInv, RingInv
    <3>3. Served(cl)'
      <4>1. <<cl, id>>[1] = cl
        OBVIOUS
      <4> QED
        BY <2>4, <4>1, Zenon DEF Served
    <3>4. /\ baton[id] # None /\ baton[id] \in Baton /\ ~baton[id].block /\ baton[id].code # None
          /\ baton' = baton /\ pushing' = None
      <4>1. baton' = baton /\ pushing' = None
        BY <2>1 DEF jobVars
      <4>2. baton'[id].code # None /\ ~baton'[id].block /\ id <= LastStarted'
        BY <3>2 DEF ServerInv
      <4>3. baton'[id] # None
        <5>1. lastId' \in Int /\ LastStarted' \in Int /\ LastStarted' <= lastId' /\ id \in Int
          BY <2>1, FirstJob, JobInts DEF LastStarted, Pushed, jobVars
        <5> QED
          BY <4>2, <5>1 DEF ServerInv
      <4> QED
        BY <4>1, <4>2, <4>3, JobTypes
    <3>5. baton[id].code \in {"returns", "fails"}
      BY <3>4 DEF Baton
    <3>6. /\ addr[cl] = None /\ conn[a] = None
          /\ addr' = [addr EXCEPT ![cl] = a] /\ conn' = [conn EXCEPT ![a] = cl]
          /\ addr \in [Clients -> Addrs \cup {None}] /\ conn \in [Addrs -> Clients \cup {None}]
      BY <2>1 DEF Arrive, ServerInv, TypeOK
    <3>7. inbox[cl] = <<>> /\ addr'[cl] # None /\ asked'[cl] = id
      BY <2>2, <3>6, ServerConstants DEF ReplyInv
    <3>8. \A x \in Ids : baton[x] # None => baton[x].client # cl
      BY <3>6 DEF ServerInv
    <3>9. ASSUME NEW c \in Clients, c # cl
          PROVE  /\ addr'[c] = addr[c] /\ asked'[c] = asked[c]
                 /\ addr[c] # None /\ inbox[c] = <<>> /\ conn[addr[c]] = c => conn'[addr[c]] = c
      <4>1. c # None
        BY RingConstants
      <4>2. addr'[c] = addr[c] /\ asked'[c] = asked[c]
        BY <2>2, <3>6, <3>9
      <4>3. addr[c] # None /\ conn[addr[c]] = c => conn'[addr[c]] = c
        BY <3>6, <4>1
      <4> QED
        BY <4>2, <4>3
    <3>10. SameBatons
      BY <3>4 DEF SameBatons
    <3>11. baton[id].code # "id"
      BY <3>5
    <3> QED
      BY <2>2, <3>1, <3>3, <3>4, <3>5, <3>7, <3>8, <3>9, <3>10, <3>11, SendStep
  <2> QED
    BY <2>3, <2>4
<1> QED
  BY <1>1, <1>2, <1>3, <1>4, <1>5, <1>6, <1>7

(* The reply that the loop thread sends reaches the client it is for: its  *)
(* connection is still where the closure believes it to be.                *)
LEMMA CrossThreadStep ==
  ASSUME ServerInv, ServerInv', ReplyInv, SameBatons,
         NEW cl \in Clients, NEW id \in Ids, CrossThreadSend(cl, id),
         baton[id] # None, baton[id].code \in {"returns", "fails"},
         inbox[cl] = <<>>, addr[cl] # None,
         addr' = addr, conn' = conn, asked' = asked, calls \subseteq calls',
         pushing' = pushing,
         pushing # None => baton[pushing].client # cl,
         IF baton[id].block THEN baton[id].client = cl ELSE asked[cl] = id,
         \A x \in Ids : baton[x] # None /\ baton[x].client = cl =>
           /\ asked[cl] = None
           /\ baton[x].block => baton'[x].freed,
         asked[cl] # None => Served(cl)'
  PROVE  ReplyInv'
<1>1. conn[addr[cl]] = cl
  BY DEF ReplyInv
<1>2. CASE UNCHANGED inbox
  <2>1. \A c \in Clients :
          addr[c] # None /\ inbox[c] = <<>> /\ conn[addr[c]] = c => conn'[addr[c]] = c
    OBVIOUS
  <2> QED
    BY <1>2, <2>1, SilentStep
<1>3. CASE Send(cl, baton[id].code, id)
  <2>1. baton[id].code # "id"
    OBVIOUS
  <2> QED
    BY <1>3, <2>1, SendStep
<1>4. CASE Send(cl, "garbled", None)
  BY <1>4, SendStep
<1> QED
  BY <1>1, <1>2, <1>3, <1>4 DEF CrossThreadSend

LEMMA EnqueueKeepsReplies ==
  ASSUME ServerInv, ServerInv', ReplyInv, Enqueue
  PROVE  ReplyInv'
<1>1. /\ pushing \in Ids /\ baton[pushing] # None /\ baton[pushing] \in Baton
      /\ pushing' = None /\ UNCHANGED <<ringVars, baton, addr, conn>>
  <2>1. pushing \in Ids /\ pushing = lastId
    BY DEF Enqueue, ServerInv, TypeOK, WaitingInOrder
  <2>2. baton[pushing] # None
    BY <2>1, JobInts DEF ServerInv
  <2> QED
    BY <2>1, <2>2, JobTypes DEF Enqueue
<1>2. SameBatons
  BY <1>1 DEF SameBatons
<1>3. /\ \A c \in Clients :
          addr[c] # None /\ inbox[c] = <<>> /\ conn[addr[c]] = c => conn'[addr[c]] = c
      /\ asked' = asked /\ calls' = calls /\ addr' = addr
  BY <1>1 DEF ringVars
<1>4. CASE baton[pushing].block
  <2>1. inbox' = inbox
    BY <1>4 DEF Enqueue
  <2> QED
    BY <1>1, <1>2, <1>3, <2>1, SilentStep
<1>5. CASE ~baton[pushing].block
  <2> DEFINE cl == baton[pushing].client
  <2>1. Send(cl, "id", pushing) /\ cl \in Clients
    BY <1>1, <1>5 DEF Enqueue, Baton
  <2>2. inbox[cl] = <<>> /\ addr'[cl] # None /\ asked'[cl] = None
    <3>1. inbox[cl] = <<>>
      BY <1>1, RingConstants DEF ReplyInv
    <3>2. asked[cl] = None
      BY <1>1 DEF ReplyInv
    <3>3. addr[cl] # None
      BY <1>1 DEF ServerInv
    <3> QED
      BY <1>3, <3>1, <3>2, <3>3
  <2>3. \A x \in Ids : baton[x] # None /\ baton[x].client = cl => x = pushing
    BY <1>1 DEF ReplyInv
  <2> HIDE DEF cl
  <2>4. baton[pushing].client = cl
    BY DEF cl
  <2> QED
    BY <1>1, <1>2, <1>3, <1>5, <2>1, <2>2, <2>3, <2>4, SendStep
<1> QED
  BY <1>4, <1>5

LEMMA CleanupKeepsReplies ==
  ASSUME ServerInv, ServerInv', ReplyInv, Cleanup
  PROVE  ReplyInv'
<1> DEFINE id == Head(finished)
<1> HIDE DEF id
<1>1. /\ id \in Ids /\ id \in Elements(finished)
      /\ finished # <<>>
      /\ CleanupBlocking(id) \/ CleanupNonblocking(id)
      /\ UNCHANGED <<pushing, addr, conn>>
  <2>1. finished # <<>> /\ finished' = Tail(finished)
    BY DEF Cleanup
  <2>2. CleanupBlocking(id) \/ CleanupNonblocking(id)
    BY DEF Cleanup, id
  <2> QED
    BY <2>1, <2>2, FinishedTail DEF Cleanup, id
<1>2. /\ baton[id] # None /\ baton[id] \in Baton /\ ~baton[id].freed
      /\ baton[id].code # None /\ id <= LastStarted
  BY <1>1, JobTypes DEF ServerInv, BatonsLive, OnePlace
<1>3. baton[id].code \in {"returns", "fails"}
  BY <1>2 DEF Baton
<1>4. pushing # None => pushing \in Ids /\ pushing # id /\ baton[pushing] # None
  <2>1. pushing # None => pushing = lastId /\ Pushed = lastId - 1
    BY DEF ServerInv, WaitingInOrder, Pushed
  <2>2. pushing # None => pushing \in Ids
    BY DEF ServerInv, TypeOK
  <2> QED
    BY <1>1, <1>2, <2>1, <2>2, JobInts DEF ServerInv
<1>5. CASE CleanupBlocking(id)
  <2> DEFINE cl == baton[id].client
  <2>1. /\ baton[id].block /\ CrossThreadSend(cl, id)
        /\ baton' = [baton EXCEPT ![id].freed = TRUE] /\ UNCHANGED ringVars
    BY <1>5 DEF CleanupBlocking
  <2>2. /\ baton'[id] = [baton[id] EXCEPT !.freed = TRUE]
        /\ \A x \in Ids : x # id => baton'[x] = baton[x]
    BY <1>1, <2>1, JobTypes
  <2>3. /\ baton'[id] # None /\ baton'[id].client = cl /\ baton'[id].block = baton[id].block
        /\ baton'[id].freed
    <3>1. baton'[id] \in Baton /\ baton'[id].client = cl /\ baton'[id].block = baton[id].block
      BY <1>2, <2>2, BatonUpdate
    <3>2. baton'[id].freed
      BY <1>2, <2>2 DEF Baton
    <3> QED
      BY <3>1, <3>2, ServerConstants
  <2>4. SameBatons
    BY <1>2, <2>2, <2>3 DEF SameBatons
  <2>5. cl \in Clients /\ inbox[cl] = <<>> /\ addr[cl] # None /\ asked[cl] = None
    BY <1>1, <1>2, <2>1 DEF ReplyInv, ServerInv, Baton
  <2>6. \A x \in Ids : baton[x] # None /\ baton[x].client = cl => x = id
    BY <1>1, <1>2 DEF ReplyInv
  <2>7. pushing # None => baton[pushing].client # cl
    BY <1>4, <2>6
  <2>8. asked' = asked /\ calls' = calls
    BY <2>1 DEF ringVars
  <2>9. baton[id].client = cl
    OBVIOUS
  <2> HIDE DEF cl
  <2> QED
    BY <1>1, <1>2, <1>3, <2>1, <2>3, <2>4, <2>5, <2>6, <2>7, <2>8, <2>9, CrossThreadStep
<1>6. CASE CleanupNonblocking(id)
  <2>1. ~baton[id].block /\ PutAction(id) /\ baton' = baton /\ asked' = asked
    BY <1>6 DEF CleanupNonblocking, PutAction
  <2>2. SameBatons
    BY <2>1 DEF SameBatons
  <2>3. calls \subseteq calls'
    BY <2>1 DEF PutAction, CallBack, StoreAction
  <2>4. CASE UNCHANGED inbox
    <3>1. \A c \in Clients :
            addr[c] # None /\ inbox[c] = <<>> /\ conn[addr[c]] = c => conn'[addr[c]] = c
      BY <1>1
    <3> QED
      BY <1>1, <2>1, <2>2, <2>3, <2>4, <3>1, SilentStep
  <2>5. ASSUME NEW cl \in Clients, <<cl, id>> \in calls' \ calls, CrossThreadSend(cl, id)
        PROVE  ReplyInv'
    <3>1. ring[id] # None /\ calls' = calls \cup {<<ring[id].callback, id>>}
      BY <2>1, <2>5 DEF PutAction, CallBack, StoreAction
    <3>2. ring[id].callback = cl
      <4>1. <<cl, id>> = <<ring[id].callback, id>>
        BY <2>5, <3>1
      <4> QED
        BY <4>1
    <3>3. asked[cl] = id /\ ~Served(cl)
      <4>1. cl # None
        BY RingConstants
      <4> QED
        BY <1>1, <3>1, <3>2, <4>1 DEF ServerInv, RingInv, EntryMeans
    <3>4. id # None
      BY <1>1, RingConstants
    <3>5. inbox[cl] = <<>> /\ addr[cl] # None
      BY <3>3, <3>4 DEF ReplyInv, ServerInv
    <3>6. Served(cl)'
      <4>1. <<cl, id>>[1] = cl
        OBVIOUS
      <4> QED
        BY <2>5, <4>1, Zenon DEF Served
    <3>7. \A x \in Ids : baton[x] # None => baton[x].client # cl
      BY <3>3, <3>4 DEF ReplyInv
    <3>8. pushing # None => baton[pushing].client # cl
      BY <1>4, <3>7
    <3> QED
      BY <1>1, <1>2, <1>3, <2>1, <2>2, <2>3, <2>5, <3>3, <3>5, <3>6, <3>7, <3>8, CrossThreadStep
  <2> QED
    BY <1>6, <2>4, <2>5 DEF CleanupNonblocking
<1> QED
  BY <1>1, <1>5, <1>6

(* What pool threads do to batons.                                         *)
LEMMA WorkKeepsBatons ==
  ASSUME ServerInv, NEW w \in Workers, Start(w) \/ Finish(w)
  PROVE  SameBatons
<1>1. CASE baton' = baton
  BY <1>1 DEF SameBatons
<1>2. CASE baton' # baton
  <2> DEFINE x == work[w].id
             end == Outcome[work[w].code]
  <2>1. baton' = [baton EXCEPT ![x].code = end] /\ work[w] # None /\ end \in {"returns", "fails"}
    BY <1>2 DEF Start, Finish
  <2>2. x \in Ids /\ baton[x] # None /\ baton[x] \in Baton
    <3>1. x \in Running
      BY <2>1 DEF Running
    <3>2. x \in Ids /\ baton[x] # None
      BY <3>1, StartedJobs DEF ServerInv, BatonsLive
    <3> QED
      BY <3>2, JobTypes
  <2> HIDE DEF x, end
  <2>3. /\ baton'[x] = [baton[x] EXCEPT !.code = end]
        /\ \A y \in Ids : y # x => baton'[y] = baton[y]
    BY <2>1, <2>2, JobTypes
  <2>4. /\ baton'[x] # None /\ baton'[x].client = baton[x].client
        /\ baton'[x].block = baton[x].block /\ baton'[x].freed = baton[x].freed
    BY <2>1, <2>2, <2>3, BatonUpdate, ServerConstants DEF Baton
  <2> QED
    BY <2>2, <2>3, <2>4 DEF SameBatons
<1> QED
  BY <1>1, <1>2

LEMMA ReplyInvInit == Init => ReplyInv
<1> SUFFICES ASSUME Init PROVE ReplyInv
  OBVIOUS
<1>1. \A cl \in Clients : inbox[cl] = <<>> /\ addr[cl] = None /\ asked[cl] = None
  BY DEF Init, RingInit
<1>2. pushing = None /\ \A id \in Ids : baton[id] = None
  BY DEF Init
<1> QED
  BY <1>1, <1>2 DEF ReplyInv, OneReply, RepliesToAskers

LEMMA NextKeepsReplies ==
  ASSUME ~Disconnects, ServerInv, ServerInv', ReplyInv, [Next]_vars
  PROVE  ReplyInv'
<1>1. CASE UNCHANGED vars \/ Idle \/ TornDequeue
  <2>1. /\ UNCHANGED <<ringVars, netVars, baton, pushing>>
    BY <1>1 DEF vars, jobVars, Idle, TornDequeue
  <2>2. SameBatons
    BY <2>1 DEF SameBatons
  <2> QED
    BY <2>1, <2>2, SilentStep DEF ringVars, netVars
<1>2. CASE Request
  BY <1>2, RequestKeepsReplies
<1>3. CASE Enqueue
  BY <1>3, EnqueueKeepsReplies
<1>4. ASSUME NEW cl \in Clients, Close(cl)
      PROVE  ReplyInv'
  <2>1. /\ conn[addr[cl]] = cl /\ inbox[cl] # <<>> /\ addr[cl] # None
        /\ conn' = [conn EXCEPT ![addr[cl]] = None]
        /\ UNCHANGED <<ringVars, jobVars, addr, inbox>>
    BY <1>4 DEF Close
  <2>2. SameBatons
    BY <2>1 DEF SameBatons, jobVars
  <2>3. ASSUME NEW c \in Clients, addr[c] # None, inbox[c] = <<>>, conn[addr[c]] = c
        PROVE  conn'[addr[c]] = c
    <3>1. addr[c] # addr[cl]
      BY <2>1, <2>3
    <3>2. conn \in [Addrs -> Clients \cup {None}] /\ addr \in [Clients -> Addrs \cup {None}]
      BY DEF ServerInv, TypeOK
    <3> QED
      BY <2>1, <2>3, <3>1, <3>2
  <2> QED
    BY <2>1, <2>2, <2>3, SilentStep DEF ringVars, jobVars
<1>5. CASE Cleanup
  BY <1>5, CleanupKeepsReplies
<1>6. ASSUME NEW w \in Workers, Start(w) \/ Finish(w)
      PROVE  ReplyInv'
  <2>1. UNCHANGED <<ringVars, netVars, pushing>>
    BY <1>6 DEF Start, Finish
  <2>2. SameBatons
    BY <1>6, WorkKeepsBatons
  <2> QED
    BY <2>1, <2>2, SilentStep DEF ringVars, netVars
<1> QED
  BY <1>1, <1>2, <1>3, <1>4, <1>5, <1>6 DEF Next

LEMMA ReplyInvariant ==
  ASSUME ~Disconnects
  PROVE  Spec => []ReplyInv
<1>1. Init => ReplyInv
  BY ReplyInvInit
<1>2. ServerInv /\ ServerInv' /\ ReplyInv /\ [Next]_vars => ReplyInv'
  BY NextKeepsReplies
<1> QED
  BY <1>1, <1>2, ServerInvariant, PTL DEF Spec

(* If clients stay until they are answered, what they get is the reply to  *)
(* their own request, although two threads write replies and closures hold *)
(* on to connections by their addresses.                                   *)
THEOREM RepliesReachAskers ==
  ASSUME ~Disconnects
  PROVE  Spec => []RepliesToAskers
<1>1. ReplyInv => RepliesToAskers
  BY DEF ReplyInv
<1> QED
  BY <1>1, ReplyInvariant, PTL

(* And no client is answered twice, by the route and by the ring or by two *)
(* jobs, which would shift all later replies on its connection.            *)
THEOREM ClientsAnsweredOnce ==
  ASSUME ~Disconnects
  PROVE  Spec => []OneReply
<1>1. ReplyInv => OneReply
  BY DEF ReplyInv
<1> QED
  BY <1>1, ReplyInvariant, PTL

-----------------------------------------------------------------------------
(* Results, when clients may go away                                       *)

Growing ==
  /\ calls \subseteq calls'
  /\ \A id \in Ids : baton[id] # None =>
       /\ baton'[id] # None /\ baton'[id].block = baton[id].block
       /\ baton[id].freed => baton'[id].freed

LEMMA GivenStays == Growing => Given \subseteq Given'
  BY DEF Growing, Given, HandedOut

LEMMA SilentKeepsResults ==
  ASSUME ResultInv, Growing, inbox' = inbox
  PROVE  ResultInv'
<1>1. ResultSentOnce'
  BY DEF ResultInv, ResultSentOnce
<1> QED
  BY <1>1, GivenStays DEF ResultInv

(* One more reply is sent, and if it is a result then one that was not     *)
(* given to anybody.                                                       *)
LEMMA SendKeepsResults ==
  ASSUME ServerInv, ResultInv, Growing, NEW cl \in Clients, NEW of, NEW id,
         [of |-> of, id |-> id] \in Reply, Send(cl, of, id),
         of \in {"returns", "fails"} => id \notin Given /\ id \in Given'
  PROVE  ResultInv'
<1> DEFINE r == [of |-> of, id |-> id]
           new == Len(inbox[cl]) + 1
<1>1. inbox \in [Clients -> Seq(Reply)] /\ inbox[cl] \in Seq(Reply)
  BY DEF ServerInv, TypeOK
<1>2. /\ inbox'[cl] = Append(inbox[cl], r)
      /\ \A c \in Clients : c # cl => inbox'[c] = inbox[c]
  BY <1>1 DEF Send
<1>3. /\ Len(inbox'[cl]) = new /\ new \in Nat
      /\ \A i \in 1 .. Len(inbox[cl]) : inbox'[cl][i] = inbox[cl][i]
      /\ inbox'[cl][new] = r
  BY <1>1, <1>2, AppendFacts
<1>4. \A c \in Clients : \A i \in 1 .. Len(inbox'[c]) :
        \/ c = cl /\ i = new /\ inbox'[c][i] = r
        \/ i \in 1 .. Len(inbox[c]) /\ inbox'[c][i] = inbox[c][i]
  <2> SUFFICES ASSUME NEW c \in Clients, NEW i \in 1 .. Len(inbox'[c])
               PROVE  \/ c = cl /\ i = new /\ inbox'[c][i] = r
                      \/ i \in 1 .. Len(inbox[c]) /\ inbox'[c][i] = inbox[c][i]
    OBVIOUS
  <2>1. CASE c # cl
    BY <1>2, <2>1
  <2>2. CASE c = cl
    <3>1. i \in 1 .. new
      BY <1>3, <2>2
    <3>2. i = new \/ i \in 1 .. Len(inbox[cl])
      BY <1>1, <3>1
    <3> QED
      BY <1>3, <2>2, <3>2
  <2> QED
    BY <2>1, <2>2
<1>5. \A c \in Clients : \A i \in 1 .. Len(inbox[c]) :
        inbox[c][i].of \in {"returns", "fails"} => inbox[c][i].id \in Given
  BY DEF ResultInv
<1>6. r.of = of /\ r.id = id
  OBVIOUS
<1> HIDE DEF r, new
<1>7. \A c \in Clients : \A i \in 1 .. Len(inbox'[c]) :
        inbox'[c][i].of \in {"returns", "fails"} => inbox'[c][i].id \in Given'
  BY <1>4, <1>5, <1>6, GivenStays
<1>8. ResultSentOnce'
  <2> SUFFICES ASSUME NEW c \in Clients, NEW o \in Clients,
                      NEW i \in 1 .. Len(inbox'[c]), NEW j \in 1 .. Len(inbox'[o]),
                      inbox'[c][i].of \in {"returns", "fails"},
                      inbox'[o][j].of \in {"returns", "fails"},
                      inbox'[c][i].id = inbox'[o][j].id
               PROVE  c = o /\ i = j
    BY DEF ResultSentOnce
  <2>1. CASE c = cl /\ i = new /\ inbox'[c][i] = r
    <3>1. id \notin Given /\ inbox'[o][j].id = id
      BY <1>6, <2>1
    <3>2. ~(j \in 1 .. Len(inbox[o]) /\ inbox'[o][j] = inbox[o][j])
      BY <1>5, <3>1
    <3> QED
      BY <1>4, <2>1, <3>2
  <2>2. CASE i \in 1 .. Len(inbox[c]) /\ inbox'[c][i] = inbox[c][i]
    <3>1. inbox'[c][i].id \in Given
      BY <1>5, <2>2
    <3>2. CASE o = cl /\ j = new /\ inbox'[o][j] = r
      BY <1>6, <3>1, <3>2
    <3>3. CASE j \in 1 .. Len(inbox[o]) /\ inbox'[o][j] = inbox[o][j]
      BY <2>2, <3>3 DEF ResultInv, ResultSentOnce
    <3> QED
      BY <1>4, <3>2, <3>3
  <2> QED
    BY <1>4, <2>1, <2>2
<1> QED
  BY <1>7, <1>8 DEF ResultInv

LEMMA SameBatonsGrow == SameBatons /\ calls \subseteq calls' => Growing
  BY DEF SameBatons, Growing

LEMMA RequestKeepsResults ==
  ASSUME ServerInv, ServerInv', ResultInv, Request
  PROVE  ResultInv'
<1>1. PICK cl \in Clients, a \in Addrs :
        \/ Query(cl, a) \/ Malformed(cl, a) \/ Unconvertible(cl, a)
        \/ \E n \in Names :
             \/ \E code \in Codes : Create(cl, a, n, code)
             \/ Delete(cl, a, n)
             \/ \E block \in BOOLEAN : Run(cl, a, n, block)
        \/ \E id \in Ids : Resolve(cl, a, id)
  BY DEF Request
<1>2. UNCHANGED <<ringVars, jobVars>> => Growing
  BY DEF ringVars, jobVars, Growing
<1>3. ASSUME UNCHANGED <<ringVars, jobVars>>,
             inbox' = inbox \/ Send(cl, "ok", None) \/ Send(cl, "refused", None)
      PROVE  ResultInv'
  <2>1. [of |-> "ok", id |-> None] \in Reply /\ [of |-> "refused", id |-> None] \in Reply
    BY DEF Reply
  <2> QED
    BY <1>2, <1>3, <2>1, SilentKeepsResults, SendKeepsResults
<1>4. CASE Query(cl, a) \/ Malformed(cl, a) \/ Unconvertible(cl, a)
  BY <1>3, <1>4 DEF Query, Malformed, Unconvertible
<1>5. ASSUME NEW n \in Names, NEW code \in Codes, Create(cl, a, n, code)
      PROVE  ResultInv'
  BY <1>3, <1>5 DEF Create, jobVars, ringVars
<1>5a. ASSUME NEW n \in Names, Delete(cl, a, n)
      PROVE  ResultInv'
  BY <1>3, <1>5a DEF Delete, jobVars, ringVars
<1>6. ASSUME NEW n \in Names, NEW block \in BOOLEAN, Run(cl, a, n, block)
      PROVE  ResultInv'
  <2>1. CASE jobVars' # jobVars
    <3>1. /\ baton' = [baton EXCEPT ![lastId + 1] =
               [name |-> n, client |-> cl, block |-> block, code |-> None, freed |-> FALSE]]
          /\ inbox' = inbox /\ calls' = calls /\ lastId < MaxId
      BY <1>6, <2>1 DEF Run, jobVars, ringVars
    <3>2. \A x \in Ids : baton[x] # None => x # lastId + 1
      BY JobInts DEF ServerInv
    <3>3. \A x \in Ids : baton[x] # None => baton'[x] = baton[x]
      BY <3>1, <3>2, JobTypes
    <3> QED
      BY <3>1, <3>3, SilentKeepsResults DEF Growing
  <2>2. CASE jobVars' = jobVars
    BY <1>3, <1>6, <2>2 DEF Run
  <2> QED
    BY <2>1, <2>2
<1>7. ASSUME NEW id \in Ids, Resolve(cl, a, id)
      PROVE  ResultInv'
  <2>1. /\ PutCallback(id, cl) /\ baton' = baton /\ lastId' = lastId
        /\ pushing' = pushing /\ queue' = queue /\ pool' = pool
    BY <1>7 DEF Resolve, jobVars
  <2>2. calls \subseteq calls'
    BY <2>1 DEF PutCallback, RegisterCallback, DropCallback, CollectAction
  <2>3. Growing
    BY <2>1, <2>2 DEF Growing
  <2>4. CASE <<cl, id>> \notin calls'
    BY <1>7, <2>3, <2>4, SilentKeepsResults DEF Resolve
  <2>5. CASE <<cl, id>> \in calls'
    <3>1. Send(cl, baton[id].code, id)
      BY <1>7, <2>5 DEF Resolve
    <3>2. <<cl, id>>[1] = cl /\ <<cl, id>>[2] = id
      OBVIOUS
    <3>3. HandedOut(id)' /\ id \in posted'
      <4>1. HandedOut(id)'
        BY <2>5, <3>2, Zenon DEF HandedOut
      <4> QED
        BY <4>1 DEF ServerInv, RingInv
    <3>4. <<cl, id>> \notin calls
      <4>1. asked[cl] = None /\ id # None
        BY <2>1, RingConstants DEF PutCallback
      <4> QED
        BY <3>2, <4>1 DEF ServerInv, RingInv, HandedOutOnce
    <3>5. ring[id] # None /\ ring[id].action = id
      <4>1. Stored(id) /\ calls' = calls \cup {<<cl, ring[id].action>>}
        BY <2>1, <2>5, <3>4
           DEF PutCallback, RegisterCallback, DropCallback, CollectAction
      <4>2. <<cl, id>> = <<cl, ring[id].action>>
        BY <2>5, <3>4, <4>1
      <4> QED
        BY <4>1, <4>2 DEF Stored
    <3>6. ~HandedOut(id)
      <4>1. id \notin {None, Wild}
        BY RingConstants
      <4> QED
        BY <3>5, <4>1 DEF ServerInv, RingInv, EntryMeans
    <3>7. /\ baton[id] # None /\ baton[id] \in Baton /\ ~baton[id].block /\ baton[id].code # None
      <4>1. baton'[id].code # None /\ ~baton'[id].block /\ id <= LastStarted'
        BY <3>3 DEF ServerInv
      <4>2. baton'[id] # None
        <5>1. lastId' \in Int /\ LastStarted' \in Int /\ LastStarted' <= lastId' /\ id \in Int
          BY <2>1, FirstJob, JobInts DEF LastStarted, Pushed
        <5> QED
          BY <4>1, <5>1 DEF ServerInv
      <4> QED
        BY <2>1, <4>1, <4>2, JobTypes
    <3>8. [of |-> baton[id].code, id |-> id] \in Reply
      BY <3>7 DEF Reply, Baton
    <3>9. id \notin Given /\ id \in Given'
      BY <2>1, <3>3, <3>6, <3>7 DEF Given
    <3> QED
      BY <2>3, <3>1, <3>8, <3>9, SendKeepsResults
  <2> QED
    BY <2>4, <2>5
<1> QED
  BY <1>1, <1>4, <1>5, <1>5a, <1>6, <1>7

LEMMA CleanupKeepsResults ==
  ASSUME ServerInv, ServerInv', ResultInv, Cleanup
  PROVE  ResultInv'
<1>1. PICK id \in Ids :
        /\ id = Head(finished)
        /\ id \in Elements(finished) /\ id \notin posted
        /\ CleanupBlocking(id) \/ CleanupNonblocking(id)
  BY FinishedTail, FinishedEnds DEF Cleanup
<1>2. /\ baton[id] # None /\ baton[id] \in Baton /\ ~baton[id].freed
      /\ baton[id].code # None
  BY <1>1, JobTypes DEF ServerInv, BatonsLive
<1>3. id \notin Given
  BY <1>1, <1>2 DEF Given, ServerInv, RingInv
<1>4. /\ [of |-> baton[id].code, id |-> id] \in Reply
      /\ [of |-> "garbled", id |-> None] \in Reply
  BY <1>2 DEF Reply, Baton
<1>5. ASSUME Growing, id \in Given', NEW cl \in Clients, CrossThreadSend(cl, id), addr[cl] # None
      PROVE  ResultInv'
  <2> DEFINE receiver == conn[addr[cl]]
  <2>1. receiver # None => receiver \in Clients
    BY <1>5 DEF ServerInv, TypeOK
  <2>2. CASE inbox' = inbox
    BY <1>5, <2>2, SilentKeepsResults
  <2>3. CASE receiver # None /\ Send(receiver, baton[id].code, id)
    BY <1>3, <1>4, <1>5, <2>1, <2>3, SendKeepsResults
  <2>4. CASE receiver # None /\ Send(receiver, "garbled", None)
    BY <1>4, <1>5, <2>1, <2>4, SendKeepsResults
  <2> QED
    BY <1>5, <2>2, <2>3, <2>4 DEF CrossThreadSend
<1>6. CASE CleanupBlocking(id)
  <2>1. /\ baton[id].block /\ CrossThreadSend(baton[id].client, id)
        /\ baton' = [baton EXCEPT ![id].freed = TRUE] /\ UNCHANGED ringVars
    BY <1>6 DEF CleanupBlocking
  <2>2. /\ baton'[id] = [baton[id] EXCEPT !.freed = TRUE]
        /\ \A x \in Ids : x # id => baton'[x] = baton[x]
    BY <2>1, JobTypes
  <2>3. baton'[id] # None /\ baton'[id].block = baton[id].block /\ baton'[id].freed
    <3>1. baton'[id] \in Baton /\ baton'[id].block = baton[id].block
      BY <1>2, <2>2, BatonUpdate
    <3>2. baton'[id].freed
      BY <1>2, <2>2 DEF Baton
    <3> QED
      BY <3>1, <3>2, ServerConstants
  <2>4. Growing
    BY <1>2, <2>1, <2>2, <2>3 DEF Growing, ringVars
  <2>5. id \in Given'
    BY <2>1, <2>3 DEF Given
  <2>6. baton[id].client \in Clients /\ addr[baton[id].client] # None
    BY <1>2 DEF Baton, ServerInv
  <2> QED
    BY <1>5, <2>1, <2>4, <2>5, <2>6
<1>7. CASE CleanupNonblocking(id)
  <2>1. ~baton[id].block /\ PutAction(id) /\ baton' = baton /\ asked' = asked
    BY <1>7 DEF CleanupNonblocking, PutAction
  <2>2. Growing
    BY <2>1 DEF PutAction, CallBack, StoreAction, Growing
  <2>3. ASSUME NEW cl \in Clients, <<cl, id>> \in calls', CrossThreadSend(cl, id)
        PROVE  ResultInv'
    <3>1. <<cl, id>>[1] = cl /\ <<cl, id>>[2] = id
      OBVIOUS
    <3>2. HandedOut(id)'
      BY <2>3, <3>1, Zenon DEF HandedOut
    <3>3. id \in Given'
      BY <1>2, <2>1, <3>2 DEF Given
    <3>4. asked[cl] = id
      BY <2>1, <2>3, <3>1 DEF ServerInv, RingInv, HandedOutOnce
    <3>5. addr[cl] # None
      BY <3>4, RingConstants DEF ServerInv
    <3> QED
      BY <1>5, <2>2, <2>3, <3>3, <3>5
  <2> QED
    BY <1>7, <2>2, <2>3, SilentKeepsResults DEF CleanupNonblocking
<1> QED
  BY <1>1, <1>6, <1>7

LEMMA NextKeepsResults ==
  ASSUME ServerInv, ServerInv', ResultInv, [Next]_vars
  PROVE  ResultInv'
<1>1. CASE UNCHANGED vars \/ Idle \/ TornDequeue \/ \E cl \in Clients : Close(cl)
  BY <1>1, SilentKeepsResults
     DEF vars, jobVars, netVars, ringVars, Idle, TornDequeue, Close, Growing
<1>2. CASE Request
  BY <1>2, RequestKeepsResults
<1>3. CASE Enqueue
  <2>1. pushing \in Ids /\ baton[pushing] \in Baton
    <3>1. pushing \in Ids /\ pushing = lastId
      BY <1>3 DEF Enqueue, ServerInv, TypeOK, WaitingInOrder
    <3>2. baton[pushing] # None
      BY <3>1, JobInts DEF ServerInv
    <3> QED
      BY <3>1, <3>2, JobTypes
  <2>2. Growing
    BY <1>3 DEF Enqueue, Growing, ringVars
  <2>3. baton[pushing].client \in Clients /\ [of |-> "id", id |-> pushing] \in Reply
    BY <2>1 DEF Baton, Reply
  <2> QED
    BY <1>3, <2>2, <2>3, SilentKeepsResults, SendKeepsResults DEF Enqueue
<1>4. CASE Cleanup
  BY <1>4, CleanupKeepsResults
<1>5. ASSUME NEW w \in Workers, Start(w) \/ Finish(w)
      PROVE  ResultInv'
  <2>1. UNCHANGED <<ringVars, netVars>>
    BY <1>5 DEF Start, Finish
  <2>2. SameBatons
    BY <1>5, WorkKeepsBatons
  <2> QED
    BY <2>1, <2>2, SameBatonsGrow, SilentKeepsResults DEF ringVars, netVars
<1> QED
  BY <1>1, <1>2, <1>3, <1>4, <1>5 DEF Next

(* The result of a run goes to one connection, whether clients stay or not *)
(* and whoever has got the address that a closure has kept.                *)
THEOREM ResultsSentOnce == Spec => []ResultSentOnce
<1>1. Init => ResultInv
  BY DEF Init, ResultInv, ResultSentOnce
<1>2. ServerInv /\ ServerInv' /\ ResultInv /\ [Next]_vars => ResultInv'
  BY NextKeepsResults
<1>3. ResultInv => ResultSentOnce
  BY DEF ResultInv
<1> QED
  BY <1>1, <1>2, <1>3, ServerInvariant, PTL DEF Spec

(* Every variable of the server keeps its type, and the process is up only *)
(* as long as no callback was called with an undefined pointer.            *)
THEOREM ServerTypes == Spec => []TypeOK
<1>1. ServerInv => TypeOK
  BY DEF ServerInv
<1> QED
  BY <1>1, ServerInvariant, PTL

=============================================================================
