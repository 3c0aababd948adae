-------------------------- MODULE ActionStoreProofs --------------------------
(***************************************************************************)
(* Proofs about ActionStore, for any names, definitions and runs.          *)
(***************************************************************************)
EXTENDS ActionStore, SequenceTheorems, TLAPS

LEMMA ShortSequence ==
  ASSUME NEW S, NEW s \in Seq(S), Len(s) <= 1, s # <<>>
  PROVE  Len(s) = 1 /\ Tail(s) = <<>>
<1>1. Len(s) \in Nat /\ Len(s) # 0
  OBVIOUS
<1>2. Len(s) = 1
  BY <1>1
<1>3. Tail(s) \in Seq(S) /\ Len(Tail(s)) = 0
  BY <1>2
<1> QED
  BY <1>2, <1>3, EmptySeq

(* A database in which the documents of one name are replaced by none or   *)
(* one.                                                                    *)
LEMMA OneChanged ==
  ASSUME StoreInv, NEW n \in Names, NEW s \in Seq(Defs), Len(s) <= 1,
         docs' = [docs EXCEPT ![n] = s]
  PROVE  /\ docs' \in [Names -> Seq(Defs)]
         /\ \A m \in Names : Len(docs'[m]) <= 1
         /\ \A m \in Names : m # n => docs'[m] = docs[m]
         /\ docs'[n] = s
<1>1. docs \in [Names -> Seq(Defs)] /\ \A m \in Names : Len(docs[m]) <= 1
  BY DEF StoreInv, TypeOK
<1>2. docs' \in [Names -> Seq(Defs)]
  BY <1>1
<1>3. /\ \A m \in Names : m # n => docs'[m] = docs[m]
      /\ docs'[n] = s
  BY <1>1
<1>4. ASSUME NEW m \in Names PROVE Len(docs'[m]) <= 1
  BY <1>1, <1>3
<1> QED
  BY <1>2, <1>3, <1>4

LEMMA StoreInvInit == Init => StoreInv
<1> SUFFICES ASSUME Init PROVE StoreInv
  OBVIOUS
<1>1. docs \in [Names -> Seq(Defs)] /\ \A n \in Names : Len(docs[n]) <= 1
  BY DEF Init
<1>2. pending = None /\ said = None
  BY DEF Init
<1>3. wants \in [Runs -> Names \cup {None}] /\ got \in [Runs -> Defs \cup {None}]
  BY DEF Init
<1>4. failing \in BOOLEAN /\ told \in [Names -> Defs \cup {None}] /\ KeptAsTold
  BY DEF Init, KeptAsTold
<1> QED
  BY <1>1, <1>2, <1>3, <1>4 DEF StoreInv, TypeOK

(* An insert under a name that is free, and what is left of one document   *)
(* when it is deleted.                                                     *)
LEMMA AddTypes ==
  ASSUME StoreInv, NEW n \in Names, NEW d \in Defs, docs[n] = <<>>,
         docs' \in AddAction(n, d)
  PROVE  /\ docs' \in [Names -> Seq(Defs)]
         /\ \A m \in Names : Len(docs'[m]) <= 1
         /\ \A m \in Names : docs[m] # <<>> => docs'[m] = docs[m]
         /\ docs' = docs \/ docs' = [docs EXCEPT ![n] = <<d>>]
<1>1. docs' = docs \/ docs' = [docs EXCEPT ![n] = <<d>>]
  <2>1. docs' = docs \/ docs' = [docs EXCEPT ![n] = Append(@, d)]
    BY DEF AddAction
  <2>2. Append(docs[n], d) = <<d>>
    OBVIOUS
  <2> QED
    BY <2>1, <2>2
<1>2. <<d>> \in Seq(Defs) /\ Len(<<d>>) <= 1
  OBVIOUS
<1>3. CASE docs' = docs
  BY <1>3 DEF StoreInv, TypeOK
<1>4. CASE docs' = [docs EXCEPT ![n] = <<d>>]
  <2>1. PICK s \in Seq(Defs) : s = <<d>> /\ Len(s) <= 1
    BY <1>2
  <2>2. docs' = [docs EXCEPT ![n] = s]
    BY <1>4, <2>1
  <2>3. /\ docs' \in [Names -> Seq(Defs)]
        /\ \A m \in Names : Len(docs'[m]) <= 1
        /\ \A m \in Names : m # n => docs'[m] = docs[m]
    BY <2>1, <2>2, OneChanged
  <2> QED
    BY <1>4, <2>3
<1> QED
  BY <1>1, <1>3, <1>4

LEMMA DeleteTypes ==
  ASSUME StoreInv, NEW n \in Names, docs' \in DeleteAction(n)
  PROVE  /\ docs' \in [Names -> Seq(Defs)]
         /\ \A m \in Names : Len(docs'[m]) <= 1
         /\ \A m \in Names : m # n => docs'[m] = docs[m]
         /\ docs' = docs \/ docs' = [docs EXCEPT ![n] = <<>>]
<1>1. docs[n] \in Seq(Defs) /\ Len(docs[n]) <= 1
  BY DEF StoreInv, TypeOK
<1>2. docs' = docs \/ docs' = [docs EXCEPT ![n] = <<>>]
  <2>1. docs[n] # <<>> => Tail(docs[n]) = <<>>
    BY <1>1, ShortSequence
  <2> QED
    BY <2>1 DEF DeleteAction
<1>3. <<>> \in Seq(Defs) /\ Len(<<>>) <= 1
  OBVIOUS
<1>4. CASE docs' = docs
  BY <1>4 DEF StoreInv, TypeOK
<1>5. CASE docs' = [docs EXCEPT ![n] = <<>>]
  <2>1. PICK s \in Seq(Defs) : s = <<>> /\ Len(s) <= 1
    BY <1>3
  <2>2. docs' = [docs EXCEPT ![n] = s]
    BY <1>5, <2>1
  <2>3. /\ docs' \in [Names -> Seq(Defs)]
        /\ \A m \in Names : Len(docs'[m]) <= 1
        /\ \A m \in Names : m # n => docs'[m] = docs[m]
        /\ docs'[n] = <<>>
    BY <2>1, <2>2, OneChanged
  <2> QED
    BY <1>5, <2>3
<1> QED
  BY <1>2, <1>4, <1>5

(* What a change that the handler is about to make comes to.               *)
LEMMA PendingTypes ==
  ASSUME StoreInv, pending # None
  PROVE  /\ pending.to \in {"create", "delete"}
         /\ pending.name \in Names
         /\ pending.to = "create" => pending.def \in Defs /\ docs[pending.name] = <<>>
         /\ pending.to = "delete" => told[pending.name] = None
         /\ pending.to = "delete" /\ ~failing => docs[pending.name] # <<>>
BY DEF StoreInv, TypeOK, Pending

LEMMA DocsChange ==
  ASSUME StoreInv,
         \/ docs' = docs
         \/ /\ pending # None /\ pending.to = "create"
            /\ docs' \in AddAction(pending.name, pending.def)
         \/ /\ pending # None /\ pending.to = "delete"
            /\ docs' \in DeleteAction(pending.name)
  PROVE  /\ docs' \in [Names -> Seq(Defs)]
         /\ \A n \in Names : Len(docs'[n]) <= 1
         /\ \A n \in Names : told[n] # None => docs'[n] = <<told[n]>>
<1>0. \A n \in Names : told[n] # None => docs[n] = <<told[n]>> /\ docs[n] # <<>>
  <2>1. \A n \in Names : told[n] # None => docs[n] = <<told[n]>>
    BY DEF StoreInv, KeptAsTold
  <2>2. \A d : <<d>> # <<>>
    OBVIOUS
  <2> QED
    BY <2>1, <2>2
<1>1. CASE docs' = docs
  BY <1>0, <1>1 DEF StoreInv, TypeOK
<1>2. CASE /\ pending # None /\ pending.to = "create"
           /\ docs' \in AddAction(pending.name, pending.def)
  BY <1>0, <1>2, PendingTypes, AddTypes
<1>3. CASE /\ pending # None /\ pending.to = "delete"
           /\ docs' \in DeleteAction(pending.name)
  BY <1>0, <1>3, PendingTypes, DeleteTypes
<1> QED
  BY <1>1, <1>2, <1>3

LEMMA SayTypes ==
  ASSUME NEW to \in {"create", "delete", "run"}, NEW n \in Names, NEW done \in BOOLEAN,
         Say(to, n, done)
  PROVE  said' \in Answer
BY DEF Say, Answer

LEMMA HasActionTypes ==
  ASSUME NEW n \in Names
  PROVE  /\ HasAction(n) \subseteq BOOLEAN
         /\ FALSE \in HasAction(n) => docs[n] = <<>>
         /\ ~failing /\ TRUE \in HasAction(n) => docs[n] # <<>>
BY StoreConstants DEF HasAction

LEMMA NextKeepsInv == StoreInv /\ [Next]_vars => StoreInv'
<1> SUFFICES ASSUME StoreInv, [Next]_vars PROVE StoreInv'
  OBVIOUS
<1>0. /\ docs \in [Names -> Seq(Defs)] /\ pending \in Pending \cup {None}
      /\ wants \in [Runs -> Names \cup {None}] /\ got \in [Runs -> Defs \cup {None}]
      /\ said \in Answer \cup {None} /\ failing \in BOOLEAN
      /\ told \in [Names -> Defs \cup {None}]
      /\ \A n \in Names : Len(docs[n]) <= 1
      /\ pending # None /\ pending.to = "create" => docs[pending.name] = <<>>
      /\ pending # None /\ pending.to = "delete" =>
           told[pending.name] = None /\ (~failing => docs[pending.name] # <<>>)
  BY DEF StoreInv, TypeOK
<1>k. KeptAsTold
  BY DEF StoreInv
<1>u. UNCHANGED <<docs, told>> => KeptAsTold'
  BY <1>k DEF KeptAsTold
<1>1. CASE UNCHANGED vars
  BY <1>0, <1>u, <1>1 DEF vars, StoreInv, TypeOK
<1>2. ASSUME NEW n \in Names, NEW d \in Defs, CheckCreate(n, d)
      PROVE  StoreInv'
  <2>1. PICK has \in HasAction(n) :
          IF has
          THEN Say("create", n, FALSE) /\ pending' = pending
          ELSE /\ pending' = [to |-> "create", name |-> n, def |-> d]
               /\ said' = said
    BY <1>2 DEF CheckCreate
  <2>2. has \in BOOLEAN /\ (~has => docs[n] = <<>>)
    BY <2>1, HasActionTypes
  <2>3. UNCHANGED <<docs, wants, got, told, failing>>
    BY <1>2 DEF CheckCreate
  <2>4. CASE has
    BY <1>0, <1>u, <2>1, <2>3, <2>4, SayTypes DEF StoreInv, TypeOK
  <2>5. CASE ~has
    <3>1. pending' \in Pending /\ pending'.name = n /\ pending'.to = "create"
      BY <2>1, <2>5 DEF Pending
    <3> QED
      BY <1>0, <1>u, <2>1, <2>2, <2>3, <2>5, <3>1 DEF StoreInv, TypeOK
  <2> QED
    BY <2>2, <2>4, <2>5
<1>3. ASSUME NEW n \in Names, CheckDelete(n)
      PROVE  StoreInv'
  <2>1. PICK has \in HasAction(n) :
          IF has
          THEN /\ pending' = [to |-> "delete", name |-> n] /\ said' = said
               /\ told' = [told EXCEPT ![n] = None]
          ELSE Say("delete", n, FALSE) /\ UNCHANGED <<pending, told>>
    BY <1>3 DEF CheckDelete
  <2>2. has \in BOOLEAN
    BY <2>1, HasActionTypes
  <2>3. UNCHANGED <<docs, wants, got, failing>>
    BY <1>3 DEF CheckDelete
  <2>4. CASE has
    <3>1. pending' \in Pending /\ pending'.to = "delete" /\ pending'.name = n
      BY <2>1, <2>4 DEF Pending
    <3>2. told' \in [Names -> Defs \cup {None}] /\ told'[n] = None /\ KeptAsTold'
      BY <1>0, <1>k, <2>1, <2>3, <2>4 DEF KeptAsTold
    <3> QED
      BY <1>0, <2>1, <2>3, <2>4, <3>1, <3>2, HasActionTypes DEF StoreInv, TypeOK
  <2>5. CASE ~has
    BY <1>0, <1>u, <2>1, <2>3, <2>5, SayTypes DEF StoreInv, TypeOK
  <2> QED
    BY <2>2, <2>4, <2>5
<1>4. CASE Insert \/ Remove \/ Reject
  <2>1. /\ docs' \in [Names -> Seq(Defs)] /\ \A n \in Names : Len(docs'[n]) <= 1
        /\ \A n \in Names : told[n] # None => docs'[n] = <<told[n]>>
    BY <1>4, DocsChange DEF Insert, Remove, Reject
  <2>3. told' \in [Names -> Defs \cup {None}] /\ KeptAsTold'
    <3>1. CASE told' = told
      BY <1>0, <2>1, <3>1 DEF KeptAsTold
    <3>2. CASE Insert /\ ~failing /\ told' = [told EXCEPT ![pending.name] = pending.def]
      <4>1. /\ pending.name \in Names /\ pending.def \in Defs
            /\ docs[pending.name] = <<>>
        BY <3>2, PendingTypes DEF Insert
      <4>2. docs' = [docs EXCEPT ![pending.name] = Append(docs[pending.name], pending.def)]
        BY <3>2 DEF Insert, AddAction
      <4>3. docs'[pending.name] = <<pending.def>>
        BY <1>0, <4>1, <4>2
      <4> QED
        BY <1>0, <2>1, <3>2, <4>1, <4>3 DEF KeptAsTold
    <3> QED
      BY <1>4, <3>1, <3>2 DEF Insert, Remove, Reject
  <2>2. said' \in Answer \cup {None}
    BY <1>0, <1>4, PendingTypes, SayTypes DEF Insert, Remove, Reject
  <2> QED
    BY <1>0, <1>4, <2>1, <2>2, <2>3 DEF Insert, Remove, Reject, StoreInv, TypeOK
<1>5. ASSUME NEW n \in Names, NEW r \in Runs, Accept(r, n)
      PROVE  StoreInv'
  <2>1. PICK has \in HasAction(n) :
          /\ Say("run", n, has)
          /\ wants' = IF has THEN [wants EXCEPT ![r] = n] ELSE wants
    BY <1>5 DEF Accept
  <2>2. said' \in Answer
    BY <2>1, HasActionTypes, SayTypes
  <2>3. wants' \in [Runs -> Names \cup {None}]
    BY <1>0, <2>1
  <2> QED
    BY <1>0, <1>u, <1>5, <2>2, <2>3 DEF Accept, StoreInv, TypeOK
<1>6. ASSUME NEW r \in Runs, Fetch(r)
      PROVE  StoreInv'
  <2>1. wants[r] \in Names
    BY <1>0, <1>6 DEF Fetch
  <2>2. GetAction(wants[r]) \subseteq Defs \cup {None}
    BY <1>0, <2>1 DEF GetAction, Current
  <2>3. got' \in [Runs -> Defs \cup {None}] /\ wants' \in [Runs -> Names \cup {None}]
    BY <1>0, <1>6, <2>2 DEF Fetch
  <2> QED
    BY <1>0, <1>u, <1>6, <2>3 DEF Fetch, StoreInv, TypeOK
<1>7. CASE Restart
  <2>1. /\ docs' \in [Names -> Seq(Defs)] /\ \A n \in Names : Len(docs'[n]) <= 1
        /\ \A n \in Names : told[n] # None => docs'[n] = <<told[n]>>
    BY <1>7, DocsChange DEF Restart
  <2>2. UNCHANGED <<got, said, told, failing>> /\ KeptAsTold'
    BY <1>7, <2>1 DEF Restart, KeptAsTold
  <2> QED
    BY <1>0, <1>7, <2>1, <2>2 DEF Restart, StoreInv, TypeOK
<1>8. CASE Break
  <2>1. UNCHANGED <<docs, pending, wants, got, said, told>> /\ failing' = TRUE
    BY <1>8 DEF Break
  <2> QED
    BY <1>0, <1>u, <2>1 DEF StoreInv, TypeOK
<1> QED
  BY <1>1, <1>2, <1>3, <1>4, <1>5, <1>6, <1>7, <1>8 DEF Next

(* One document for each name, with a database that may fail at any call   *)
(* and a process that may end at any time.                                 *)
THEOREM StoreInvariant == Spec => []StoreInv
  BY StoreInvInit, NextKeepsInv, PTL DEF Spec

(* What a client was told is created stays the one definition of its name  *)
(* until a client asks to delete it, through restarts and failures.        *)
THEOREM ToldIsKept == Spec => []KeptAsTold
<1>1. StoreInv => KeptAsTold
  BY DEF StoreInv
<1> QED
  BY <1>1, StoreInvariant, PTL

-----------------------------------------------------------------------------
(* The refinement                                                          *)

LEMMA CurrentFacts ==
  ASSUME StoreInv, NEW n \in Names
  PROVE  Current(n) = None <=> docs[n] = <<>>
<1>1. docs[n] \in Seq(Defs)
  BY DEF StoreInv, TypeOK
<1>2. docs[n] # <<>> => docs[n][Len(docs[n])] \in Defs
  BY <1>1
<1> QED
  BY <1>2, StoreConstants DEF Current

(* An insert and a delete are changes of the map.                          *)
LEMMA AddPuts ==
  ASSUME StoreInv, ~failing, NEW n \in Names, NEW d \in Defs, docs[n] = <<>>,
         docs' \in AddAction(n, d)
  PROVE  Mapped!Put(n, d)
<1>1. docs' = [docs EXCEPT ![n] = Append(@, d)]
  BY DEF AddAction
<1>2. docs \in [Names -> Seq(Defs)]
  BY DEF StoreInv, TypeOK
<1>3. docs'[n] # <<>> /\ docs'[n][Len(docs'[n])] = d
  <2>1. docs'[n] = <<d>>
    BY <1>1, <1>2
  <2> QED
    BY <2>1
<1>4. \A m \in Names : m # n => docs'[m] = docs[m]
  BY <1>1, <1>2
<1>5. [m \in Names |-> Current(m)]' = [[m \in Names |-> Current(m)] EXCEPT ![n] = d]
  BY <1>3, <1>4 DEF Current
<1>6. [m \in Names |-> Current(m)][n] = None
  BY DEF Current
<1> QED
  BY <1>5, <1>6 DEF Mapped!Put

LEMMA DeleteDrops ==
  ASSUME StoreInv, ~failing, NEW n \in Names, docs[n] # <<>>,
         docs' \in DeleteAction(n)
  PROVE  Mapped!Drop(n)
<1>1. docs' = [docs EXCEPT ![n] = Tail(@)]
  BY DEF DeleteAction
<1>2. docs \in [Names -> Seq(Defs)] /\ Len(docs[n]) <= 1
  BY DEF StoreInv, TypeOK
<1>3. docs'[n] = <<>>
  BY <1>1, <1>2, ShortSequence
<1>4. \A m \in Names : m # n => docs'[m] = docs[m]
  BY <1>1, <1>2
<1>5. [m \in Names |-> Current(m)]' = [[m \in Names |-> Current(m)] EXCEPT ![n] = None]
  BY <1>3, <1>4 DEF Current
<1>6. [m \in Names |-> Current(m)][n] # None
  BY CurrentFacts
<1> QED
  BY <1>5, <1>6 DEF Mapped!Drop

LEMMA StepIsMapped ==
  ASSUME StoreInv, [Next]_vars, ~failing
  PROVE  [Mapped!MapNext]_(Mapped!mapVars)
<1> DEFINE map == [m \in Names |-> Current(m)]
<1>0. docs' = docs => map' = map
  BY DEF Current
<1>1. CASE UNCHANGED vars
  BY <1>0, <1>1 DEF vars, Mapped!mapVars
<1>2. ASSUME NEW n \in Names, NEW d \in Defs, CheckCreate(n, d)
      PROVE  [Mapped!MapNext]_(Mapped!mapVars)
  <2>1. PICK has \in HasAction(n) :
          IF has
          THEN Say("create", n, FALSE) /\ pending' = pending
          ELSE /\ pending' = [to |-> "create", name |-> n, def |-> d]
               /\ said' = said
    BY <1>2 DEF CheckCreate
  <2>2. has \in BOOLEAN /\ (has => docs[n] # <<>>) /\ map' = map
    BY <1>0, <1>2, <2>1, HasActionTypes DEF CheckCreate
  <2>3. CASE has
    <3>1. map[n] # None
      BY <2>2, <2>3, CurrentFacts
    <3>2. Mapped!Create(n, d)
      BY <1>2, <2>1, <2>2, <2>3, <3>1 DEF CheckCreate, Mapped!Create, Mapped!Say, Say
    <3> QED
      BY <3>2 DEF Mapped!MapNext
  <2>4. CASE ~has
    BY <1>2, <2>1, <2>2, <2>4 DEF CheckCreate, Mapped!mapVars
  <2> QED
    BY <2>2, <2>3, <2>4
<1>3. ASSUME NEW n \in Names, CheckDelete(n)
      PROVE  [Mapped!MapNext]_(Mapped!mapVars)
  <2>1. PICK has \in HasAction(n) :
          IF has
          THEN /\ pending' = [to |-> "delete", name |-> n] /\ said' = said
               /\ told' = [told EXCEPT ![n] = None]
          ELSE Say("delete", n, FALSE) /\ UNCHANGED <<pending, told>>
    BY <1>3 DEF CheckDelete
  <2>2. has \in BOOLEAN /\ (~has => docs[n] = <<>>) /\ map' = map
    BY <1>0, <1>3, <2>1, HasActionTypes DEF CheckDelete
  <2>3. CASE ~has
    <3>1. map[n] = None
      BY <2>2, <2>3, CurrentFacts
    <3>2. Mapped!Delete(n)
      BY <1>3, <2>1, <2>2, <2>3, <3>1 DEF CheckDelete, Mapped!Delete, Mapped!Say, Say
    <3> QED
      BY <3>2 DEF Mapped!MapNext
  <2>4. CASE has
    BY <1>3, <2>1, <2>2, <2>4 DEF CheckDelete, Mapped!mapVars
  <2> QED
    BY <2>2, <2>3, <2>4
<1>4. CASE Insert
  <2>1. /\ pending.name \in Names /\ pending.def \in Defs
        /\ Mapped!Put(pending.name, pending.def)
    BY <1>4, PendingTypes, AddPuts DEF Insert
  <2>2. Mapped!Create(pending.name, pending.def)
    BY <1>4, <2>1 DEF Insert, Mapped!Create, Mapped!Say, Say
  <2> QED
    BY <2>1, <2>2 DEF Mapped!MapNext
<1>5. CASE Remove
  <2>1. pending.name \in Names /\ Mapped!Drop(pending.name)
    BY <1>5, PendingTypes, DeleteDrops DEF Remove
  <2>2. Mapped!Delete(pending.name)
    BY <1>5, <2>1 DEF Remove, Mapped!Delete, Mapped!Say, Say
  <2> QED
    BY <2>1, <2>2 DEF Mapped!MapNext
<1>6. CASE Reject
  BY <1>0, <1>6 DEF Reject, Mapped!mapVars
<1>7. ASSUME NEW n \in Names, NEW r \in Runs, Accept(r, n)
      PROVE  [Mapped!MapNext]_(Mapped!mapVars)
  <2>1. PICK has \in HasAction(n) :
          /\ Say("run", n, has)
          /\ wants' = IF has THEN [wants EXCEPT ![r] = n] ELSE wants
    BY <1>7 DEF Accept
  <2>2. /\ has \in BOOLEAN /\ (~has => docs[n] = <<>>) /\ (has => docs[n] # <<>>)
        /\ map' = map
    BY <1>0, <1>7, <2>1, HasActionTypes DEF Accept
  <2>3. has <=> map[n] # None
    BY <2>2, CurrentFacts
  <2>4. CASE has
    <3>1. Mapped!Accept(r, n)
      BY <1>7, <2>1, <2>2, <2>3, <2>4 DEF Accept, Mapped!Accept, Mapped!Say, Say
    <3> QED
      BY <3>1 DEF Mapped!MapNext
  <2>5. CASE ~has
    <3>1. Mapped!Accept(r, n)
      BY <1>7, <2>1, <2>2, <2>3, <2>5 DEF Accept, Mapped!Accept, Mapped!Say, Say
    <3> QED
      BY <3>1 DEF Mapped!MapNext
  <2> QED
    BY <2>2, <2>4, <2>5
<1>8. ASSUME NEW r \in Runs, Fetch(r)
      PROVE  [Mapped!MapNext]_(Mapped!mapVars)
  <2>1. wants[r] \in Names
    BY <1>8 DEF Fetch, StoreInv, TypeOK
  <2>2. got' = [got EXCEPT ![r] = map[wants[r]]]
    BY <1>8, <2>1 DEF Fetch, GetAction
  <2>3. Mapped!Fetch(r)
    BY <1>0, <1>8, <2>2 DEF Fetch, Mapped!Fetch
  <2> QED
    BY <2>3 DEF Mapped!MapNext
<1>9. CASE Restart
  <2>1. \/ map' = map
        \/ \E n \in Names : Mapped!Drop(n) \/ \E d \in Defs : Mapped!Put(n, d)
    <3>1. CASE docs' = docs
      BY <1>0, <3>1
    <3>2. CASE /\ pending # None /\ pending.to = "create"
               /\ docs' \in AddAction(pending.name, pending.def)
      BY <3>2, PendingTypes, AddPuts
    <3>3. CASE /\ pending # None /\ pending.to = "delete"
               /\ docs' \in DeleteAction(pending.name)
      BY <3>3, PendingTypes, DeleteDrops
    <3> QED
      BY <1>9, <3>1, <3>2, <3>3 DEF Restart
  <2>2. Mapped!Restart
    BY <1>9, <2>1 DEF Restart, Mapped!Restart
  <2> QED
    BY <2>2 DEF Mapped!MapNext
<1>10. CASE Break
  BY <1>0, <1>10 DEF Break, Mapped!mapVars
<1> QED
  BY <1>1, <1>2, <1>3, <1>4, <1>5, <1>6, <1>7, <1>8, <1>9, <1>10 DEF Next

(* Until the database fails, what clients are told and what runs get is    *)
(* what a single map would say and give, whatever comes between the check  *)
(* and the act of a handler and before a fetch.                            *)
THEOREM StoreImplementsMap == Spec => ImplementsMap
<1>1. Init => Mapped!MapInit
  BY DEF Init, Mapped!MapInit, Current
<1>2. StoreInv /\ [Next]_vars => [~failing => Mapped!MapNext]_(Mapped!mapVars)
  BY StepIsMapped
<1> QED
  BY <1>1, <1>2, StoreInvariant, PTL DEF Spec, ImplementsMap

=============================================================================
