---------------------------- MODULE NulldbProofs ----------------------------
(***************************************************************************)
(* Proofs about Nulldb, for any names, definitions and runs.               *)
(***************************************************************************)
EXTENDS Nulldb, TLAPS

LEMMA NullInvInit == Init => NullInv
BY NullConstants DEF Init, NullInv

LEMMA NullInvNext == NullInv /\ [Next]_vars => NullInv'
<1> SUFFICES ASSUME NullInv, [Next]_vars PROVE NullInv'
  OBVIOUS
<1> USE NullConstants
<1>1. CASE UNCHANGED vars
  BY <1>1 DEF vars, NullInv
<1>2. ASSUME NEW n \in Names, NEW d \in Defs, Create(n, d) PROVE NullInv'
  BY <1>2 DEF Create, Say, HasAction, Searching, NullInv
<1>3. ASSUME NEW n \in Names, Delete(n) PROVE NullInv'
  BY <1>3 DEF Delete, Say, HasAction, Searching, NullInv
<1>4. ASSUME NEW n \in Names, NEW r \in Runs, Accept(r, n) PROVE NullInv'
  BY <1>4 DEF Accept, Say, HasAction, NullInv
<1>5. CASE List
  BY <1>5 DEF List, NullInv
<1>6. ASSUME NEW r \in Runs, Search(r) PROVE NullInv'
  BY <1>6 DEF Search, NullInv
<1>7. ASSUME NEW r \in Runs, Find(r) PROVE NullInv'
  BY <1>7 DEF Find, Searching, NullInv
<1>8. ASSUME NEW r \in Runs, Copy(r) PROVE NullInv'
  BY <1>8 DEF Copy, NullInv
<1>9. ASSUME NEW r \in Runs, Die(r) PROVE NullInv'
  BY <1>9 DEF Die, NullInv
<1> QED
  BY <1>1, <1>2, <1>3, <1>4, <1>5, <1>6, <1>7, <1>8, <1>9 DEF Next

(* Null pointers are in the map only while a run that was hit is about to  *)
(* follow one.                                                             *)
THEOREM NullInvariant == Spec => []NullInv
  BY NullInvInit, NullInvNext, PTL DEF Spec

(* Without a delete of an action that is to be run, and without a change   *)
(* of the map during a search, nulldb.cpp:21 follows no null pointer.      *)
THEOREM CrashNeedsHit == Spec => OnlyChangesKill
<1>1. NullInv /\ [Next]_vars => [~alive' => hit # {}]_vars
  <2> SUFFICES ASSUME NullInv, Next, ~alive' PROVE hit # {}
    OBVIOUS
  <2>1. CASE List
    BY <2>1 DEF List, NullInv, Next
  <2>2. ASSUME NEW r \in Runs, Die(r) PROVE hit # {}
    BY <2>2, NullConstants DEF Die, NullInv
  <2>3. ~(\E n \in Names : (\E d \in Defs : Create(n, d)) \/ Delete(n)
                             \/ \E r \in Runs : Accept(r, n))
    BY DEF Next, Create, Delete, Accept
  <2>4. ~(\E r \in Runs : Search(r) \/ Find(r) \/ Copy(r))
    BY DEF Next, Search, Find, Copy
  <2> QED
    BY <2>1, <2>2, <2>3, <2>4 DEF Next
<1> QED
  BY <1>1, NullInvariant, PTL DEF Spec, OnlyChangesKill

-----------------------------------------------------------------------------
(* The refinement                                                          *)

LEMMA StepIsMapped ==
  ASSUME NullInv, [Next]_vars, hit = {}
  PROVE  [Mapped!MapNext]_(Mapped!mapVars)
<1> DEFINE map == [n \in Names |-> IF storage[n] \in Defs THEN storage[n] ELSE None]
<1>0. /\ storage \in [Names -> Defs \cup {None}]
      /\ map = storage
  <2>1. \A n \in Names : storage[n] # Null
    BY DEF NullInv
  <2>2. storage \in [Names -> Defs \cup {None}]
    BY <2>1 DEF NullInv
  <2>3. \A n \in Names : map[n] = storage[n]
    BY <2>2
  <2> QED
    BY <2>2, <2>3
<1>1. CASE UNCHANGED vars
  BY <1>1 DEF vars, Mapped!mapVars
<1>2. ASSUME NEW n \in Names, NEW d \in Defs, Create(n, d)
      PROVE  [Mapped!MapNext]_(Mapped!mapVars)
  <2>1. CASE HasAction(n)
    <3>1. map[n] # None /\ map' = map
      BY <1>0, <1>2, <2>1 DEF Create, HasAction
    <3>2. Mapped!Create(n, d)
      BY <1>2, <2>1, <3>1 DEF Create, Mapped!Create, Say, Mapped!Say
    <3> QED
      BY <3>2 DEF Mapped!MapNext
  <2>2. CASE ~HasAction(n)
    <3>1. map[n] = None
      BY <1>0, <2>2 DEF HasAction
    <3>2. storage' = [storage EXCEPT ![n] = d]
      BY <1>2, <2>2 DEF Create
    <3>3. map' = [map EXCEPT ![n] = d]
      BY <1>0, <3>2
    <3>4. Mapped!Create(n, d)
      BY <1>2, <2>2, <3>1, <3>3 DEF Create, Mapped!Create, Mapped!Put, Say, Mapped!Say
    <3> QED
      BY <3>4 DEF Mapped!MapNext
  <2> QED
    BY <2>1, <2>2
<1>3. ASSUME NEW n \in Names, Delete(n)
      PROVE  [Mapped!MapNext]_(Mapped!mapVars)
  <2>1. CASE ~HasAction(n)
    <3>1. map[n] = None /\ map' = map
      BY <1>0, <1>3, <2>1 DEF Delete, HasAction
    <3>2. Mapped!Delete(n)
      BY <1>3, <2>1, <3>1 DEF Delete, Mapped!Delete, Say, Mapped!Say
    <3> QED
      BY <3>2 DEF Mapped!MapNext
  <2>2. CASE HasAction(n)
    <3>1. map[n] # None
      BY <1>0, <2>2 DEF HasAction
    <3>2. storage' = [storage EXCEPT ![n] = None]
      BY <1>3, <2>2 DEF Delete
    <3>3. map' = [map EXCEPT ![n] = None]
      BY <1>0, <3>2
    <3>4. Mapped!Delete(n)
      BY <1>3, <2>2, <3>1, <3>3 DEF Delete, Mapped!Delete, Mapped!Drop, Say, Mapped!Say
    <3> QED
      BY <3>4 DEF Mapped!MapNext
  <2> QED
    BY <2>1, <2>2
<1>4. ASSUME NEW n \in Names, NEW r \in Runs, Accept(r, n)
      PROVE  [Mapped!MapNext]_(Mapped!mapVars)
  <2>1. (HasAction(n) <=> map[n] # None) /\ map' = map
    BY <1>0, <1>4 DEF Accept, HasAction
  <2>2. CASE HasAction(n)
    <3>1. Mapped!Accept(r, n)
      BY <1>4, <2>1, <2>2 DEF Accept, Mapped!Accept, Say, Mapped!Say
    <3> QED
      BY <3>1 DEF Mapped!MapNext
  <2>3. CASE ~HasAction(n)
    <3>1. HasAction(n) = FALSE
      BY <2>3 DEF HasAction
    <3>2. Mapped!Say("run", n, FALSE)
      BY <1>4, <3>1 DEF Accept, Say, Mapped!Say
    <3>3. wants[r] = None /\ map[n] = None /\ map' = map /\ wants' = wants /\ got' = got
      BY <1>4, <2>1, <2>3 DEF Accept
    <3>4. Mapped!Accept(r, n)
      BY <3>2, <3>3 DEF Mapped!Accept
    <3> QED
      BY <3>4 DEF Mapped!MapNext
  <2> QED
    BY <2>2, <2>3
<1>5. CASE List
  BY <1>5 DEF List, Mapped!mapVars
<1>6. ASSUME NEW r \in Runs, Search(r)
      PROVE  [Mapped!MapNext]_(Mapped!mapVars)
  BY <1>6 DEF Search, Mapped!mapVars
<1>7. ASSUME NEW r \in Runs, Find(r)
      PROVE  [Mapped!MapNext]_(Mapped!mapVars)
  <2>1. storage[wants[r]] # None
    BY <1>7, NullConstants DEF Find, NullInv
  <2>2. storage' = storage
    BY <1>7, <2>1 DEF Find
  <2> QED
    BY <1>7, <2>2 DEF Find, Mapped!mapVars
<1>8. ASSUME NEW r \in Runs, Copy(r)
      PROVE  [Mapped!MapNext]_(Mapped!mapVars)
  <2>1. wants[r] \in Names /\ found[r] = storage[wants[r]]
    BY <1>8 DEF Copy, NullInv
  <2>2. got' = [got EXCEPT ![r] = map[wants[r]]]
    BY <1>0, <1>8, <2>1 DEF Copy
  <2>3. map' = map
    BY <1>8 DEF Copy
  <2>4. Mapped!Fetch(r)
    BY <1>8, <2>1, <2>2, <2>3, NullConstants DEF Copy, Mapped!Fetch
  <2> QED
    BY <2>4 DEF Mapped!MapNext
<1>9. ASSUME NEW r \in Runs, Die(r)
      PROVE  [Mapped!MapNext]_(Mapped!mapVars)
  BY <1>9 DEF Die, Mapped!mapVars
<1> QED
  BY <1>1, <1>2, <1>3, <1>4, <1>5, <1>6, <1>7, <1>8, <1>9 DEF Next

(* As long as no run is hit, clients and runs see the one map that they    *)
(* see with MongoAdapter.                                                  *)
THEOREM NulldbIsMap == Spec => IsMapUntilHit
<1>1. Init => Mapped!MapInit
  BY NullConstants DEF Init, Mapped!MapInit
<1>2. NullInv /\ [Next]_vars => [hit = {} => Mapped!MapNext]_(Mapped!mapVars)
  BY StepIsMapped
<1> QED
  BY <1>1, <1>2, NullInvariant, PTL DEF Spec, IsMapUntilHit

=============================================================================
