---------------------------- MODULE DataPathProofs ----------------------------
(***************************************************************************)
(* Proofs about JsonParser and DataPath, for sources of any length and     *)
(* depth, and for any names and numbers.                                   *)
(***************************************************************************)
EXTENDS DataPath, SequenceTheorems, FiniteSetTheorems, TLAPS

LEMMA FrontOfSequence ==
  ASSUME NEW S, NEW s \in Seq(S), s # <<>>
  PROVE  /\ Front(s) \in Seq(S)
         /\ Len(Front(s)) = Len(s) - 1
         /\ \A i \in 1..Len(s) - 1 : Front(s)[i] = s[i]
<1>1. Len(s) \in Nat \ {0} /\ \A i \in 1..Len(s) : s[i] \in S
  OBVIOUS
<1>2. Len(s) - 1 \in Int /\ 1 \in Int /\ \A i \in 1..Len(s) - 1 : s[i] \in S
  BY <1>1
<1>3. Front(s) = SubSeq(s, 1, Len(s) - 1)
  BY DEF Front
<1>4. /\ SubSeq(s, 1, Len(s) - 1) \in Seq(S)
      /\ Len(SubSeq(s, 1, Len(s) - 1)) = Len(s) - 1
  <2> DEFINE n == Len(s) - 1
  <2>1. n \in Nat /\ \A i \in 1..n : s[i] \in S
    BY <1>1, <1>2
  <2> HIDE DEF n
  <2>2. SubSeq(s, 1, n) \in Seq(S)
    BY <2>1, SubSeqProperties
  <2>3. Len(SubSeq(s, 1, n)) = n
    BY <2>1
  <2> QED
    BY <2>2, <2>3 DEF n
<1>5. \A i \in 1..Len(s) - 1 : SubSeq(s, 1, Len(s) - 1)[i] = s[i]
  BY <1>1
<1> QED
  BY <1>3, <1>4, <1>5

(* A longer path is above no shorter one.                                  *)
LEMMA LongerIsNoPrefix ==
  ASSUME NEW p \in Paths, NEW q \in Paths, Len(q) < Len(p)
  PROVE  ~IsPrefix(p, q)
  BY DEF IsPrefix, Paths

LEMMA PrefixOfItself ==
  ASSUME NEW p \in Paths
  PROVE  IsPrefix(p, p)
  BY DEF IsPrefix, Paths

LEMMA AppendedPath ==
  ASSUME NEW p \in Paths, NEW k \in Keys
  PROVE  /\ Append(p, k) \in Paths
         /\ Len(Append(p, k)) = Len(p) + 1
         /\ IsPrefix(p, Append(p, k))
<1>1. Append(p, k) \in Paths /\ Len(Append(p, k)) = Len(p) + 1
  BY DEF Paths
<1>2. SubSeq(p, 1, Len(p)) = SubSeq(Append(p, k), 1, Len(p))
  BY <1>1 DEF Paths
<1> QED
  BY <1>1, <1>2 DEF IsPrefix, Paths

(* What Assign leaves alone, and what it sets.                             *)
LEMMA Assigned ==
  ASSUME NEW d, IsFiniteSet(DOMAIN d), DOMAIN d \subseteq Paths,
         \A q \in DOMAIN d : d[q] \in Kinds,
         NEW p \in Paths, NEW kind \in Kinds
  PROVE  LET e == Assign(d, p, kind) IN
         /\ IsFiniteSet(DOMAIN e) /\ DOMAIN e \subseteq Paths
         /\ \A q \in DOMAIN e : e[q] \in Kinds
         /\ p \in DOMAIN e /\ e[p] = kind
         /\ \A q \in DOMAIN d : ~IsPrefix(p, q) => q \in DOMAIN e /\ e[q] = d[q]
<1> DEFINE e == Assign(d, p, kind)
<1>1. DOMAIN e = (DOMAIN d \ Below(d, p)) \union {p}
  BY DEF Assign
<1>2. IsFiniteSet(DOMAIN e)
  <2>1. IsFiniteSet(DOMAIN d \ Below(d, p))
    BY FS_Subset
  <2> QED
    BY <1>1, <2>1, FS_AddElement
<1>3. \A q \in DOMAIN e : e[q] = IF q = p THEN kind ELSE d[q]
  BY <1>1 DEF Assign
<1>4. \A q \in DOMAIN d : ~IsPrefix(p, q) => q \in DOMAIN e /\ q # p
  BY <1>1, PrefixOfItself DEF Below
<1> QED
  BY <1>1, <1>2, <1>3, <1>4

-----------------------------------------------------------------------------

(* Where a value is stored: directly in the innermost open bracket.        *)
LEMMA SlotInInnermost ==
  ASSUME JsonInv, at \in {"value", "first_element"}
  PROVE  /\ Slot \in Paths
         /\ calls = <<>> => Slot = Root
         /\ calls # <<>> => Len(Slot) = Len(calls)
         /\ IsPrefix(Top, Slot)
<1>1. Len(objectStack) = Len(calls) + 1 /\ Top = objectStack[Len(calls) + 1]
      /\ Top \in Paths /\ Top \in DOMAIN doc
  BY DEF JsonInv, JsonTypeOK, StackFollowsBrackets, Top, Last
<1>2. CASE calls = <<>>
  <2>1. Top = Root /\ doc[Top] = "null"
    BY <1>1, <1>2 DEF JsonInv, StackFollowsBrackets, PlacesFit, NullValue, Root
  <2>2. Slot = Root
    BY <2>1 DEF Slot
  <2> QED
    BY <2>1, <2>2, <1>1, <1>2, PrefixOfItself
<1>3. CASE calls # <<>>
  <2>1. Len(calls) \in Nat \ {0} /\ Last(calls) = calls[Len(calls)]
        /\ calls[Len(calls)] \in {"obj", "arr"}
    BY <1>3 DEF JsonInv, JsonTypeOK, Last
  <2>2. doc[Top] = calls[Len(calls)] /\ Len(Top) = Len(calls) - 1
    BY <2>1, <1>1 DEF JsonInv, StackFollowsBrackets
  <2>3. Cardinality(Children(doc, Top)) \in Nat
    BY FS_Subset, FS_CardinalityType DEF JsonInv, Children, Below
  <2>4. CASE doc[Top] = "arr"
    <3>1. Slot = Append(Top, Element(Cardinality(Children(doc, Top)) + 1))
      BY <2>4 DEF Slot
    <3>2. Element(Cardinality(Children(doc, Top)) + 1) \in Keys
      BY <2>3 DEF Keys, Element, Property
    <3> QED
      BY <3>1, <3>2, <2>1, <2>2, <1>1, <1>3, AppendedPath
  <2>5. CASE doc[Top] = "obj"
    <3>1. Slot = Append(Top, Property(currentProperty))
      BY <2>5 DEF Slot
    <3>2. currentProperty \in Names
      BY <2>1, <2>2, <2>5, <1>3 DEF JsonInv, PlacesFit
    <3>3. Property(currentProperty) \in Keys
      BY <3>2 DEF Keys, Element, Property
    <3> QED
      BY <3>1, <3>3, <2>1, <2>2, <1>1, <1>3, AppendedPath
  <2> QED
    BY <2>1, <2>2, <2>4, <2>5
<1> QED
  BY <1>2, <1>3

(* A store leaves every pointer on the stack valid.                        *)
LEMMA StoreKeepsStack ==
  ASSUME JsonInv, at \in {"value", "first_element"},
         NEW kind \in Kinds, Store(kind)
  PROVE  /\ IsFiniteSet(DOMAIN doc') /\ DOMAIN doc' \subseteq Paths
         /\ \A p \in DOMAIN doc' : doc'[p] \in Kinds
         /\ Slot \in DOMAIN doc' /\ doc'[Slot] = kind
         /\ \A i \in 1..Len(objectStack) : objectStack[i] \in DOMAIN doc'
         /\ \A i \in 1..Len(calls) : doc'[objectStack[i + 1]] = calls[i]
<1>1. /\ IsFiniteSet(DOMAIN doc') /\ DOMAIN doc' \subseteq Paths
      /\ \A p \in DOMAIN doc' : doc'[p] \in Kinds
      /\ Slot \in DOMAIN doc' /\ doc'[Slot] = kind
      /\ \A q \in DOMAIN doc : ~IsPrefix(Slot, q) => q \in DOMAIN doc' /\ doc'[q] = doc[q]
  BY SlotInInnermost, Assigned DEF JsonInv, JsonTypeOK, Store
<1>2. CASE calls = <<>>
  <2>1. Len(objectStack) = 1 /\ objectStack[1] = Root /\ Slot = Root
    BY <1>2, SlotInInnermost DEF JsonInv, StackFollowsBrackets
  <2> QED
    BY <1>1, <1>2, <2>1
<1>3. CASE calls # <<>>
  <2>1. \A i \in 1..Len(objectStack) :
           /\ objectStack[i] \in Paths /\ objectStack[i] \in DOMAIN doc
           /\ Len(objectStack[i]) < Len(Slot)
    <3>1. Len(calls) \in Nat \ {0} /\ Len(Slot) = Len(calls)
      BY <1>3, SlotInInnermost DEF JsonInv, JsonTypeOK
    <3>2. objectStack[1] \in DOMAIN doc /\ Len(objectStack[1]) = 0
      BY <3>1 DEF JsonInv, StackFollowsBrackets, Root
    <3>3. \A i \in 2..Len(objectStack) : Len(objectStack[i]) = i - 2
      <4> TAKE i \in 2..Len(objectStack)
      <4>1. i - 1 \in 1..Len(calls) /\ (i - 1) + 1 = i
        BY <3>1 DEF JsonInv, StackFollowsBrackets
      <4>2. \A j \in 1..Len(calls) : Len(objectStack[j + 1]) = j - 1
        BY DEF JsonInv, StackFollowsBrackets
      <4>3. Len(objectStack[(i - 1) + 1]) = (i - 1) - 1
        BY <4>1, <4>2
      <4> QED
        BY <4>1, <4>3
    <3> QED
      BY <3>1, <3>2, <3>3 DEF JsonInv, JsonTypeOK, StackFollowsBrackets
  <2>2. \A i \in 1..Len(objectStack) : ~IsPrefix(Slot, objectStack[i])
    BY <2>1, LongerIsNoPrefix, SlotInInnermost
  <2>3. \A i \in 1..Len(calls) : i + 1 \in 1..Len(objectStack)
    BY DEF JsonInv, JsonTypeOK, StackFollowsBrackets
  <2> QED
    BY <1>1, <2>1, <2>2, <2>3 DEF JsonInv, StackFollowsBrackets
<1> QED
  BY <1>2, <1>3

-----------------------------------------------------------------------------

LEMMA InitInv == Init => JsonInv
<1> SUFFICES ASSUME Init PROVE JsonInv
  OBVIOUS
<1>1. DOMAIN doc = {<<>>} /\ doc[<<>>] = "null" /\ <<>> \in Paths
  BY DEF Init, NullValue, Root, Paths
<1>2. JsonTypeOK
  BY <1>1, JsonConstants DEF Init, JsonTypeOK, Places, Kinds, Leaves, Root
<1>3. StackFollowsBrackets
  BY <1>1 DEF Init, StackFollowsBrackets, Root
<1>4. PlacesFit
  BY DEF Init, PlacesFit
<1>5. IsFiniteSet(DOMAIN doc)
  BY <1>1, FS_Singleton
<1> QED
  BY <1>2, <1>3, <1>4, <1>5 DEF JsonInv

LEMMA OpenKeepsInv ==
  ASSUME JsonInv, NEW t \in Tokens,
         NEW kind \in {"obj", "arr"}, NEW first \in {"first_property", "first_element"},
         first = "first_property" <=> kind = "obj",
         OpenContainer(t, kind, first)
  PROVE  JsonInv'
<1>1. /\ at \in {"value", "first_element"} /\ at' = first
      /\ Store(kind) /\ tokens' = Append(tokens, t)
      /\ objectStack' = Append(objectStack, Slot) /\ calls' = Append(calls, kind)
      /\ currentProperty' = currentProperty
  BY DEF OpenContainer, Consume
<1>2. kind \in Kinds
  BY DEF Kinds
<1>3. Len(calls) \in Nat /\ Len(objectStack) = Len(calls) + 1
      /\ calls \in Seq({"obj", "arr"}) /\ objectStack \in Seq(Paths) /\ Slot \in Paths
  <2>1. calls \in Seq({"obj", "arr"}) /\ objectStack \in Seq(Paths)
        /\ Len(objectStack) = Len(calls) + 1
    BY DEF JsonInv, JsonTypeOK, StackFollowsBrackets
  <2>2. Slot \in Paths
    BY <1>1, SlotInInnermost
  <2>3. Len(calls) \in Nat
    BY <2>1
  <2> QED
    BY <2>1, <2>2, <2>3
<1>4. JsonTypeOK' /\ IsFiniteSet(DOMAIN doc')
  <2>1. /\ IsFiniteSet(DOMAIN doc') /\ DOMAIN doc' \subseteq Paths
        /\ \A p \in DOMAIN doc' : doc'[p] \in Kinds
    BY <1>1, <1>2, StoreKeepsStack
  <2>2. calls' \in Seq({"obj", "arr"}) /\ objectStack' \in Seq(Paths)
    BY <1>1, <1>3
  <2>3. tokens' \in Seq(Tokens) /\ at' \in Places /\ currentProperty' \in Names \union {"empty"}
    BY <1>1 DEF JsonInv, JsonTypeOK, Places
  <2> QED
    BY <2>1, <2>2, <2>3 DEF JsonTypeOK
<1>5. /\ Len(calls') = Len(calls) + 1 /\ Len(objectStack') = Len(calls') + 1
      /\ \A i \in 1..Len(calls) : calls'[i] = calls[i]
      /\ calls'[Len(calls')] = kind
      /\ \A i \in 1..Len(objectStack) : objectStack'[i] = objectStack[i]
      /\ objectStack'[Len(objectStack')] = Slot
  BY <1>1, <1>3
<1>6. StackFollowsBrackets'
  <2>1. objectStack'[1] = Root
    BY <1>3, <1>5 DEF JsonInv, StackFollowsBrackets
  <2>2. \A i \in 1..Len(objectStack') : objectStack'[i] \in DOMAIN doc'
    BY <1>1, <1>2, <1>3, <1>5, StoreKeepsStack
  <2>3. ASSUME NEW i \in 1..Len(calls')
        PROVE  /\ doc'[objectStack'[i + 1]] = calls'[i]
               /\ Len(objectStack'[i + 1]) = i - 1
               /\ IsPrefix(objectStack'[i], objectStack'[i + 1])
    <3>1. CASE i \in 1..Len(calls)
      <4>1. /\ doc'[objectStack[i + 1]] = calls[i]
            /\ Len(objectStack[i + 1]) = i - 1
            /\ IsPrefix(objectStack[i], objectStack[i + 1])
        BY <3>1, <1>1, <1>2, StoreKeepsStack DEF JsonInv, StackFollowsBrackets
      <4>2. i \in 1..Len(objectStack) /\ i + 1 \in 1..Len(objectStack)
        BY <3>1, <1>3
      <4> QED
        BY <4>1, <4>2, <3>1, <1>5
    <3>2. CASE i = Len(calls')
      <4>1. objectStack'[i + 1] = Slot /\ calls'[i] = kind /\ i = Len(calls) + 1
        BY <3>2, <1>5
      <4>2. objectStack'[i] = Top
        BY <4>1, <1>3, <1>5 DEF Top, Last
      <4>3. Len(Slot) = i - 1
        BY <4>1, <1>1, <1>3, SlotInInnermost DEF Root
      <4> QED
        BY <4>1, <4>2, <4>3, <1>1, <1>2, SlotInInnermost, StoreKeepsStack
    <3> QED
      BY <3>1, <3>2, <1>3, <1>5
  <2> QED
    BY <2>1, <2>2, <2>3, <1>5 DEF StackFollowsBrackets
<1>7. PlacesFit'
  BY <1>1, <1>3, <1>5 DEF PlacesFit, Last
<1> QED
  BY <1>4, <1>6, <1>7 DEF JsonInv

LEMMA ScalarKeepsInv ==
  ASSUME JsonInv, NEW t \in Literals, ParseScalar(t)
  PROVE  JsonInv'
<1>1. /\ at \in {"value", "first_element"} /\ at' = Caller(Len(calls))
      /\ Store(t) /\ tokens' = Append(tokens, t)
      /\ objectStack' = objectStack /\ calls' = calls /\ currentProperty' = currentProperty
  BY DEF ParseScalar, Consume
<1>2. t \in Kinds /\ t \in Tokens
  BY JsonConstants DEF Kinds, Tokens
<1>3. at' \in {"end", "more"} /\ (at' = "more" => calls # <<>>)
  BY <1>1 DEF Caller, JsonInv, JsonTypeOK
<1>4. JsonTypeOK' /\ IsFiniteSet(DOMAIN doc')
  BY <1>1, <1>2, <1>3, StoreKeepsStack DEF JsonInv, JsonTypeOK, Places
<1>5. StackFollowsBrackets'
  BY <1>1, <1>2, StoreKeepsStack DEF JsonInv, StackFollowsBrackets
<1>6. PlacesFit'
  BY <1>1, <1>3 DEF PlacesFit
<1> QED
  BY <1>4, <1>5, <1>6 DEF JsonInv

LEMMA CloseKeepsInv ==
  ASSUME JsonInv, NEW t \in Tokens, NEW kind \in {"obj", "arr"},
         NEW first \in {"first_property", "first_element"},
         Close(t, kind, first)
  PROVE  JsonInv'
<1>1. /\ at \in {"first_property", "first_element", "more"} /\ at' = Caller(Len(calls) - 1)
      /\ tokens' = Append(tokens, t)
      /\ objectStack' = Front(objectStack) /\ calls' = Front(calls)
      /\ currentProperty' = currentProperty /\ doc' = doc
  BY DEF Close, Consume
<1>2. calls \in Seq({"obj", "arr"}) /\ Len(calls) \in Nat \ {0} /\ objectStack \in Seq(Paths)
      /\ Len(objectStack) = Len(calls) + 1
  BY <1>1 DEF JsonInv, JsonTypeOK, StackFollowsBrackets, PlacesFit
<1>3. /\ calls' \in Seq({"obj", "arr"}) /\ Len(calls') = Len(calls) - 1
      /\ objectStack' \in Seq(Paths) /\ Len(objectStack') = Len(calls)
      /\ \A i \in 1..Len(calls') : calls'[i] = calls[i]
      /\ \A i \in 1..Len(objectStack') : objectStack'[i] = objectStack[i]
  <2>1. calls # <<>> /\ objectStack # <<>> /\ Len(calls) = Len(objectStack) - 1
    BY <1>2
  <2>2. /\ Front(calls) \in Seq({"obj", "arr"}) /\ Len(Front(calls)) = Len(calls) - 1
        /\ \A i \in 1..Len(calls) - 1 : Front(calls)[i] = calls[i]
    BY <1>2, <2>1, FrontOfSequence
  <2>3. /\ Front(objectStack) \in Seq(Paths) /\ Len(Front(objectStack)) = Len(objectStack) - 1
        /\ \A i \in 1..Len(objectStack) - 1 : Front(objectStack)[i] = objectStack[i]
    BY <1>2, <2>1, FrontOfSequence
  <2> QED
    BY <1>1, <2>1, <2>2, <2>3
<1>4. at' \in {"end", "more"} /\ (at' = "more" => calls' # <<>>)
  BY <1>1, <1>2, <1>3 DEF Caller
<1>5. JsonTypeOK' /\ IsFiniteSet(DOMAIN doc')
  BY <1>1, <1>3, <1>4 DEF JsonInv, JsonTypeOK, Places
<1>6. StackFollowsBrackets'
  <2>1. \A i \in 1..Len(calls') :
           /\ i \in 1..Len(calls) /\ i \in 1..Len(objectStack') /\ i + 1 \in 1..Len(objectStack')
    BY <1>2, <1>3
  <2>2. \A i \in 1..Len(objectStack') : i \in 1..Len(objectStack)
    BY <1>2, <1>3
  <2>3. \A i \in 1..Len(calls') :
           /\ doc[objectStack[i + 1]] = calls[i]
           /\ Len(objectStack[i + 1]) = i - 1
           /\ IsPrefix(objectStack[i], objectStack[i + 1])
    BY <2>1 DEF JsonInv, StackFollowsBrackets
  <2>4. 1 \in 1..Len(objectStack') /\ Len(objectStack') = Len(calls') + 1
    BY <1>2, <1>3
  <2>5. \A i \in 1..Len(objectStack') : objectStack[i] \in DOMAIN doc
    BY <2>2 DEF JsonInv, StackFollowsBrackets
  <2>6. objectStack[1] = Root
    BY DEF JsonInv, StackFollowsBrackets
  <2> QED
    BY <1>1, <1>3, <2>1, <2>3, <2>4, <2>5, <2>6 DEF StackFollowsBrackets
<1>7. PlacesFit'
  BY <1>4 DEF PlacesFit
<1> QED
  BY <1>5, <1>6, <1>7 DEF JsonInv

LEMMA ElseKeepsInv ==
  ASSUME JsonInv,
         \/ \E t \in Literals \intersect Names : ParseName(t)
         \/ Colon \/ Comma \/ EndOfStream \/ EmptySource
         \/ \E t \in Tokens : Throw(t)
  PROVE  JsonInv'
<1>1. UNCHANGED <<calls, objectStack, doc>>
  BY DEF ParseName, Colon, Comma, EndOfStream, EmptySource, Throw
<1>2. \E t \in Tokens : tokens' \in {tokens, Append(tokens, t)}
  BY DEF ParseName, Colon, Comma, EndOfStream, EmptySource, Throw, Consume, Tokens, Marks
<1>3. at' \in Places /\ currentProperty' \in Names \union {"empty"}
  BY DEF ParseName, Colon, Comma, EndOfStream, EmptySource, Throw, Places, JsonInv, JsonTypeOK
<1>4. JsonTypeOK' /\ StackFollowsBrackets' /\ IsFiniteSet(DOMAIN doc')
  <2>1. tokens' \in Seq(Tokens)
    BY <1>2 DEF JsonInv, JsonTypeOK
  <2> QED
    BY <1>1, <1>3, <2>1 DEF JsonInv, JsonTypeOK, StackFollowsBrackets
<1>5. PlacesFit'
  <2>1. CASE \E t \in Literals \intersect Names : ParseName(t)
    BY <1>1, <2>1 DEF ParseName, JsonInv, PlacesFit, Last
  <2>2. CASE Colon \/ Comma
    <3>1. calls # <<>> /\ calls' = calls
      BY <1>1, <2>2 DEF Colon, Comma, JsonInv, PlacesFit
    <3>2. currentProperty' = currentProperty
      BY <2>2 DEF Colon, Comma
    <3>3. CASE Colon
      <4>1. at' = "value" /\ Last(calls) = "obj"
        BY <3>3 DEF Colon, JsonInv, PlacesFit
      <4>2. currentProperty \in Names
        BY <3>3 DEF Colon, JsonInv, PlacesFit
      <4> QED
        BY <3>1, <3>2, <4>1, <4>2 DEF PlacesFit
    <3>4. CASE Comma
      BY <3>1, <3>2, <3>4 DEF Comma, PlacesFit
    <3> QED
      BY <2>2, <3>3, <3>4
  <2>3. CASE EndOfStream \/ EmptySource \/ \E t \in Tokens : Throw(t)
    BY <1>1, <2>3 DEF EndOfStream, EmptySource, Throw, PlacesFit
  <2> QED
    BY <2>1, <2>2, <2>3
<1> QED
  BY <1>4, <1>5 DEF JsonInv

LEMMA NextInv == JsonInv /\ [Next]_parserVars => JsonInv'
<1> SUFFICES ASSUME JsonInv, [Next]_parserVars PROVE JsonInv'
  OBVIOUS
<1>1. {"begin_object", "end_object", "begin_array", "end_array"} \subseteq Tokens
  BY DEF Tokens, Marks
<1>2. CASE OpenObject \/ OpenArray
  BY <1>1, <1>2, OpenKeepsInv DEF OpenObject, OpenArray
<1>3. CASE \E t \in Literals : ParseScalar(t)
  BY <1>3, ScalarKeepsInv
<1>4. CASE CloseObject \/ CloseArray
  BY <1>1, <1>4, CloseKeepsInv DEF CloseObject, CloseArray
<1>5. CASE \/ \E t \in Literals \intersect Names : ParseName(t)
           \/ Colon \/ Comma \/ EndOfStream \/ EmptySource
           \/ \E t \in Tokens : Throw(t)
  BY <1>5, ElseKeepsInv
<1>6. CASE Parse
  <2>1. DOMAIN doc' = {<<>>} /\ doc'[<<>>] = "null" /\ <<>> \in Paths /\ doc' = NullValue
    BY <1>6 DEF Parse, Fresh, NullValue, Root, Paths
  <2>2. JsonTypeOK'
    BY <2>1, <1>6, JsonConstants
       DEF Parse, Fresh, JsonInv, JsonTypeOK, Places, Kinds, Leaves, Root
  <2>3. StackFollowsBrackets' /\ PlacesFit'
    BY <2>1, <1>6 DEF Parse, Fresh, StackFollowsBrackets, PlacesFit, Root
  <2> QED
    BY <2>1, <2>2, <2>3, FS_Singleton DEF JsonInv
<1>7. CASE UNCHANGED parserVars
  BY <1>7 DEF parserVars, JsonInv, JsonTypeOK, StackFollowsBrackets, PlacesFit, Last
<1> QED
  BY <1>2, <1>3, <1>4, <1>5, <1>6, <1>7 DEF Next, Step

(* The pointers that the parser keeps (objectStack) and its recursion      *)
(* agree, whatever the source: a value is stored in the innermost open     *)
(* bracket, and no pointer is left to something that has been replaced.    *)
THEOREM PointersFollowBrackets == Spec => [](JsonTypeOK /\ StackFollowsBrackets)
<1>1. JsonInv => JsonTypeOK /\ StackFollowsBrackets
  BY DEF JsonInv
<1> QED
  BY InitInv, NextInv, <1>1, PTL DEF Spec

-----------------------------------------------------------------------------

LEMMA LeastNumber ==
  ASSUME NEW T, T \subseteq Nat, T # {}
  PROVE  \E x \in T : \A y \in T : x <= y
<1> DEFINE upTo == {1..n : n \in T}
<1>1. upTo \subseteq FiniteSubsetsOf(Nat)
  <2>1. ASSUME NEW n \in T PROVE IsFiniteSet(1..n) /\ 1..n \in SUBSET Nat
    BY FS_Interval
  <2> QED
    BY <2>1 DEF FiniteSubsetsOf
<1>2. upTo # {}
  OBVIOUS
<1>3. \E s \in upTo : \A t \in upTo : <<t, s>> \notin StrictSubsetOrdering(Nat)
  <2> HIDE DEF upTo
  <2> QED
    BY <1>1, <1>2, FS_StrictSubsetOrderingWellFounded, WFMin, Zenon
<1>4. PICK x \in T : \A y \in T : <<1..y, 1..x>> \notin StrictSubsetOrdering(Nat)
  BY <1>3
<1>5. ASSUME NEW y \in T PROVE x <= y
  <2> SUFFICES ASSUME y < x PROVE FALSE
    OBVIOUS
  <2>1. x \in 1..x /\ x \notin 1..y /\ 1..y \subseteq 1..x
    OBVIOUS
  <2>2. 1..y \in SUBSET Nat /\ 1..x \in SUBSET Nat /\ 1..y # 1..x
    BY <2>1
  <2>3. <<1..y, 1..x>> \in StrictSubsetOrdering(Nat)
    BY <2>1, <2>2 DEF StrictSubsetOrdering
  <2> QED
    BY <1>4, <2>3
<1> QED
  BY <1>5

LEMMA Induction ==
  ASSUME NEW S, 0 \in S, \A n \in Nat : n \in S => n + 1 \in S
  PROVE  \A n \in Nat : n \in S
<1> SUFFICES ASSUME Nat \ S # {} PROVE FALSE
  OBVIOUS
<1>1. PICK x \in Nat \ S : \A y \in Nat \ S : x <= y
  BY LeastNumber
<1>2. x # 0 /\ x - 1 \in Nat /\ x - 1 \in S
  BY <1>1
<1> QED
  BY <1>2

-----------------------------------------------------------------------------

(* The prefix ordering of paths.                                           *)
LEMMA FrontIsPrefix ==
  ASSUME NEW p \in Paths, p # Root
  PROVE  /\ Front(p) \in Paths /\ Len(p) \in Nat \ {0} /\ Len(p) = Len(Front(p)) + 1
         /\ IsPrefix(Front(p), p)
         /\ \A i \in 1..Len(p) - 1 : Front(p)[i] = p[i]
         /\ Last(p) = p[Len(p)] /\ Last(p) \in Keys
<1>1. p \in Seq(Keys) /\ p # <<>>
  BY DEF Paths, Root
<1>2. /\ Front(p) \in Seq(Keys) /\ Len(Front(p)) = Len(p) - 1
      /\ \A i \in 1..Len(p) - 1 : Front(p)[i] = p[i]
  BY <1>1, FrontOfSequence
<1>3. Len(p) \in Nat \ {0} /\ p[Len(p)] \in Keys
  BY <1>1
<1>4. SubSeq(Front(p), 1, Len(Front(p))) = Front(p)
  BY <1>2
<1>5. SubSeq(p, 1, Len(Front(p))) = Front(p)
  BY <1>2 DEF Front
<1> QED
  BY <1>1, <1>2, <1>3, <1>4, <1>5 DEF IsPrefix, Paths, Last

LEMMA PrefixByElements ==
  ASSUME NEW p \in Paths, NEW q \in Paths
  PROVE  IsPrefix(p, q) <=> Len(p) <= Len(q) /\ \A i \in 1..Len(p) : p[i] = q[i]
<1>1. p \in Seq(Keys) /\ q \in Seq(Keys) /\ Len(p) \in Nat /\ Len(q) \in Nat
  BY DEF Paths
<1>2. SubSeq(p, 1, Len(p)) = p
  BY <1>1
<1>3. ASSUME Len(p) <= Len(q)
      PROVE  SubSeq(q, 1, Len(p)) \in Seq(Keys) /\ Len(SubSeq(q, 1, Len(p))) = Len(p)
             /\ \A i \in 1..Len(p) : SubSeq(q, 1, Len(p))[i] = q[i]
  BY <1>1, <1>3
<1>4. ASSUME Len(p) <= Len(q), \A i \in 1..Len(p) : p[i] = q[i]
      PROVE  p = SubSeq(q, 1, Len(p))
  BY <1>1, <1>3, <1>4, SeqEqual
<1> QED
  BY <1>2, <1>3, <1>4 DEF IsPrefix

(* A path is the child of another when its first keys are.                 *)
LEMMA ChildByFront ==
  ASSUME NEW d, DOMAIN d \subseteq Paths, NEW p \in Paths, NEW q \in DOMAIN d
  PROVE  q \in Children(d, p) <=> q # Root /\ Front(q) = p
<1>1. p \in Seq(Keys) /\ q \in Seq(Keys) /\ q \in Paths /\ Len(p) \in Nat /\ Len(q) \in Nat
  BY DEF Paths
<1>2. q \in Children(d, p) <=> IsPrefix(p, q) /\ Len(q) = Len(p) + 1
  BY DEF Children, Below
<1>3. ASSUME q # Root, Front(q) = p PROVE q \in Children(d, p)
  BY <1>1, <1>2, <1>3, FrontIsPrefix
<1>4. ASSUME IsPrefix(p, q), Len(q) = Len(p) + 1 PROVE q # Root /\ Front(q) = p
  <2>1. q # Root
    BY <1>1, <1>4 DEF Root
  <2>2. Front(q) \in Seq(Keys) /\ Len(Front(q)) = Len(p)
        /\ \A i \in 1..Len(p) : Front(q)[i] = q[i]
    BY <1>1, <1>4, <2>1, FrontIsPrefix DEF Paths
  <2>3. \A i \in 1..Len(p) : p[i] = q[i]
    BY <1>1, <1>4, PrefixByElements
  <2>4. Front(q) = p
    BY <1>1, <2>2, <2>3, SeqEqual
  <2> QED
    BY <2>1, <2>4
<1> QED
  BY <1>2, <1>3, <1>4

-----------------------------------------------------------------------------

(* The text of a key, when it is a property or an element of an array that *)
(* has been parsed, is a name that has itself as its text.                 *)
LEMMA TextOfKey ==
  ASSUME NEW k \in Keys, k[2] <= MaxTokens
  PROVE  /\ KeyText(k) \in Names
         /\ Property(KeyText(k)) \in Keys
         /\ KeyText(Property(KeyText(k))) = KeyText(k)
<1>1. ASSUME NEW n \in DOMAIN NumberText
      PROVE  NumberText[n] \in Names /\ KeyText(Property(NumberText[n])) = NumberText[n]
  BY LuaConstants DEF KeyText, Property
<1>2. CASE k[2] > 0
  <2>1. k[2] \in 1..MaxTokens
    BY <1>2, JsonConstants DEF Keys
  <2>2. k[2] \in DOMAIN NumberText /\ KeyText(k) = NumberText[k[2]]
    BY <1>2, <2>1, PathConstants DEF KeyText
  <2> QED
    BY <1>1, <2>2 DEF Keys, Property
<1>3. CASE ~(k[2] > 0)
  <2>1. k[1] \in Names
    BY <1>3 DEF Keys
  <2>2. CASE k[1] \in DOMAIN NumberOf
    <3>1. NumberOf[k[1]] \in DOMAIN NumberText /\ KeyText(k) = NumberText[NumberOf[k[1]]]
      BY <1>3, <2>2, LuaConstants DEF KeyText
    <3> QED
      BY <1>1, <3>1 DEF Keys, Property
  <2>3. CASE k[1] \notin DOMAIN NumberOf
    <3>1. KeyText(k) = k[1] /\ KeyText(Property(k[1])) = k[1]
      BY <1>3, <2>3 DEF KeyText, Property
    <3> QED
      BY <2>1, <3>1 DEF Keys, Property
  <2> QED
    BY <2>2, <2>3
<1> QED
  BY <1>2, <1>3

(* The paths of the values that a client can send and get.                 *)
Short(p) == p \in Paths /\ \A i \in DOMAIN p : p[i][2] <= MaxTokens

LEMMA TextOfPath ==
  ASSUME NEW p, Short(p)
  PROVE  /\ TextPath(p) \in Paths /\ Short(TextPath(p)) /\ Len(TextPath(p)) = Len(p)
         /\ \A i \in 1..Len(p) : TextPath(p)[i] = Property(KeyText(p[i]))
         /\ TextPath(TextPath(p)) = TextPath(p)
         /\ p = Root <=> TextPath(p) = Root
<1>1. p \in Seq(Keys) /\ Len(p) \in Nat /\ DOMAIN p = 1..Len(p)
  BY DEF Short, Paths
<1>2. ASSUME NEW i \in 1..Len(p)
      PROVE  /\ Property(KeyText(p[i])) \in Keys
             /\ KeyText(Property(KeyText(p[i]))) = KeyText(p[i])
             /\ Property(KeyText(p[i]))[2] <= MaxTokens
  <2>1. p[i] \in Keys /\ p[i][2] <= MaxTokens
    BY <1>1 DEF Short
  <2>2. \A name : Property(name)[2] = 0
    BY DEF Property
  <2> QED
    BY <2>1, <2>2, TextOfKey, JsonConstants
<1>3. TextPath(p) = [i \in 1..Len(p) |-> Property(KeyText(p[i]))]
  BY <1>1 DEF TextPath
<1>4. TextPath(p) \in Seq(Keys) /\ Len(TextPath(p)) = Len(p) /\ DOMAIN TextPath(p) = 1..Len(p)
  <2>1. TextPath(p) \in [1..Len(p) -> Keys]
    BY <1>2, <1>3
  <2> QED
    BY <1>1, <1>3, <2>1
<1>5. \A i \in 1..Len(p) : TextPath(p)[i] = Property(KeyText(p[i]))
  BY <1>3
<1>6. TextPath(TextPath(p)) = TextPath(p)
  <2>1. TextPath(TextPath(p)) = [i \in 1..Len(p) |-> Property(KeyText(TextPath(p)[i]))]
    BY <1>4 DEF TextPath
  <2>2. \A i \in 1..Len(p) : Property(KeyText(TextPath(p)[i])) = Property(KeyText(p[i]))
    BY <1>2, <1>5
  <2> QED
    BY <1>3, <2>1, <2>2
<1>7. Short(TextPath(p))
  BY <1>2, <1>4, <1>5 DEF Short, Paths
<1>8. p = Root <=> TextPath(p) = Root
  BY <1>1, <1>4 DEF Root
<1> QED
  BY <1>4, <1>5, <1>6, <1>7, <1>8 DEF Paths

(* Two paths have one text when they have one length and key by key one.   *)
LEMMA SameText ==
  ASSUME NEW p, NEW q, Short(p), Short(q)
  PROVE  TextPath(p) = TextPath(q)
           <=> Len(p) = Len(q) /\ \A i \in 1..Len(p) : KeyText(p[i]) = KeyText(q[i])
<1>1. p \in Seq(Keys) /\ q \in Seq(Keys) /\ DOMAIN p = 1..Len(p) /\ DOMAIN q = 1..Len(q)
  BY DEF Short, Paths
<1>2. \A a, b : Property(a) = Property(b) <=> a = b
  BY DEF Property
<1>3. ASSUME TextPath(p) = TextPath(q)
      PROVE  Len(p) = Len(q) /\ \A i \in 1..Len(p) : KeyText(p[i]) = KeyText(q[i])
  <2>1. Len(p) = Len(q)
    BY <1>3, TextOfPath
  <2>2. \A i \in 1..Len(p) : Property(KeyText(p[i])) = Property(KeyText(q[i]))
    BY <1>3, <2>1, TextOfPath
  <2> QED
    BY <1>2, <2>1, <2>2
<1>4. ASSUME Len(p) = Len(q), \A i \in 1..Len(p) : KeyText(p[i]) = KeyText(q[i])
      PROVE  TextPath(p) = TextPath(q)
  BY <1>1, <1>4 DEF TextPath
<1> QED
  BY <1>3, <1>4

(* The text of a path and of the path above it.                            *)
LEMMA TextOfFront ==
  ASSUME NEW p, Short(p), p # Root
  PROVE  /\ Short(Front(p)) /\ TextPath(p) # Root
         /\ Front(TextPath(p)) = TextPath(Front(p))
         /\ Last(TextPath(p)) = Property(KeyText(Last(p)))
<1>1. p \in Paths /\ p # Root /\ DOMAIN p = 1..Len(p) /\ Len(p) \in Nat \ {0}
      /\ \A i \in 1..Len(p) : p[i][2] <= MaxTokens
  BY FrontIsPrefix DEF Short, Paths
<1>2. Front(p) \in Paths /\ Len(Front(p)) = Len(p) - 1 /\ DOMAIN Front(p) = 1..Len(p) - 1
      /\ \A i \in 1..Len(p) - 1 : Front(p)[i] = p[i]
  <2>1. Front(p) \in Paths /\ Len(p) = Len(Front(p)) + 1
        /\ \A i \in 1..Len(p) - 1 : Front(p)[i] = p[i]
    BY <1>1, FrontIsPrefix
  <2>2. DOMAIN Front(p) = 1..Len(Front(p)) /\ Len(Front(p)) \in Nat
    BY <2>1 DEF Paths
  <2> QED
    BY <2>1, <2>2
<1>3. Short(Front(p))
  BY <1>1, <1>2 DEF Short
<1>4. TextPath(p) \in Paths /\ Len(TextPath(p)) = Len(p) /\ TextPath(p) # Root
      /\ \A i \in 1..Len(p) : TextPath(p)[i] = Property(KeyText(p[i]))
  BY <1>1, TextOfPath
<1>5. Front(TextPath(p)) \in Paths /\ Len(Front(TextPath(p))) = Len(p) - 1
      /\ \A i \in 1..Len(p) - 1 : Front(TextPath(p))[i] = TextPath(p)[i]
      /\ Last(TextPath(p)) = TextPath(p)[Len(p)]
  <2>1. /\ Front(TextPath(p)) \in Paths /\ Len(TextPath(p)) = Len(Front(TextPath(p))) + 1
        /\ Len(Front(TextPath(p))) \in Nat
        /\ \A i \in 1..Len(TextPath(p)) - 1 : Front(TextPath(p))[i] = TextPath(p)[i]
        /\ Last(TextPath(p)) = TextPath(p)[Len(TextPath(p))]
    BY <1>4, FrontIsPrefix DEF Paths
  <2> QED
    BY <1>4, <2>1
<1>6. TextPath(Front(p)) \in Paths /\ Len(TextPath(Front(p))) = Len(p) - 1
      /\ \A i \in 1..Len(p) - 1 : TextPath(Front(p))[i] = Property(KeyText(p[i]))
  BY <1>2, <1>3, TextOfPath
<1>7. Front(TextPath(p)) = TextPath(Front(p))
  <2>1. \A i \in 1..Len(p) - 1 : Front(TextPath(p))[i] = TextPath(Front(p))[i]
    BY <1>1, <1>4, <1>5, <1>6
  <2> QED
    BY <1>5, <1>6, <2>1, SeqEqual DEF Paths
<1>8. Last(TextPath(p)) = Property(KeyText(Last(p)))
  BY <1>1, <1>4, <1>5 DEF Last
<1> QED
  BY <1>3, <1>4, <1>7, <1>8

-----------------------------------------------------------------------------

(* A value as a tree: the path above a node is one of its paths, too.      *)
Tree(l) == /\ Root \in DOMAIN l
           /\ \A q \in DOMAIN l : Short(q)
           /\ \A q \in DOMAIN l \ {Root} : Front(q) \in DOMAIN l

LEMMA PrefixOfFront ==
  ASSUME NEW q \in Paths, q # Root, NEW i \in 0..Len(Front(q))
  PROVE  SubSeq(Front(q), 1, i) = SubSeq(q, 1, i) /\ i \in 0..Len(q)
<1>1. /\ Front(q) \in Seq(Keys) /\ q \in Seq(Keys) /\ Len(q) = Len(Front(q)) + 1
      /\ Len(Front(q)) \in Nat
      /\ \A j \in 1..Len(Front(q)) : Front(q)[j] = q[j]
  <2>1. Front(q) \in Paths /\ Len(q) = Len(Front(q)) + 1 /\ Len(q) \in Nat
        /\ \A j \in 1..Len(q) - 1 : Front(q)[j] = q[j]
    BY FrontIsPrefix
  <2>2. Len(Front(q)) \in Nat /\ Len(q) - 1 = Len(Front(q))
    BY <2>1 DEF Paths
  <2> QED
    BY <2>1, <2>2 DEF Paths
<1>2. /\ SubSeq(Front(q), 1, i) \in Seq(Keys) /\ Len(SubSeq(Front(q), 1, i)) = i
      /\ \A j \in 1..i : SubSeq(Front(q), 1, i)[j] = Front(q)[j]
  BY <1>1
<1>3. /\ SubSeq(q, 1, i) \in Seq(Keys) /\ Len(SubSeq(q, 1, i)) = i
      /\ \A j \in 1..i : SubSeq(q, 1, i)[j] = q[j]
  BY <1>1
<1>4. \A j \in 1..i : SubSeq(Front(q), 1, i)[j] = SubSeq(q, 1, i)[j]
  BY <1>1, <1>2, <1>3
<1> QED
  BY <1>1, <1>2, <1>3, <1>4, SeqEqual

LEMMA PrefixesInTree ==
  ASSUME NEW l, Tree(l), NEW p \in DOMAIN l
  PROVE  \A i \in 0..Len(p) : SubSeq(p, 1, i) \in DOMAIN l
<1> DEFINE Whole(n) == \A q \in DOMAIN l :
                         Len(q) = n => \A i \in 0..n : SubSeq(q, 1, i) \in DOMAIN l
           S == {n \in Nat : Whole(n)}
<1>1. \A q \in DOMAIN l : q \in Paths /\ q \in Seq(Keys) /\ Len(q) \in Nat /\ SubSeq(q, 1, Len(q)) = q
  BY DEF Tree, Short, Paths
<1>2. Whole(0)
  <2>1. ASSUME NEW q \in DOMAIN l, Len(q) = 0, NEW i \in 0..0 PROVE SubSeq(q, 1, i) \in DOMAIN l
    <3>1. i = Len(q)
      BY <2>1
    <3> QED
      BY <1>1, <3>1
  <2> QED
    BY <2>1
<1>3. ASSUME NEW n \in Nat, Whole(n) PROVE Whole(n + 1)
  <2> SUFFICES ASSUME NEW q \in DOMAIN l, Len(q) = n + 1, NEW i \in 0..(n + 1)
               PROVE  SubSeq(q, 1, i) \in DOMAIN l
    OBVIOUS
  <2>1. q # Root
    BY <1>1 DEF Root
  <2>2. Front(q) \in DOMAIN l /\ Len(Front(q)) = n
    <3>1. Front(q) \in DOMAIN l
      BY <2>1 DEF Tree
    <3>2. Len(q) = Len(Front(q)) + 1 /\ Len(Front(q)) \in Nat
      BY <1>1, <2>1, <3>1, FrontIsPrefix
    <3> QED
      BY <3>1, <3>2
  <2>3. CASE i = n + 1
    BY <1>1, <2>3
  <2>4. CASE i \in 0..n
    <3>1. SubSeq(Front(q), 1, i) = SubSeq(q, 1, i)
      BY <1>1, <2>1, <2>2, <2>4, PrefixOfFront
    <3> QED
      BY <1>3, <2>2, <2>4, <3>1
  <2> QED
    BY <2>3, <2>4
<1> HIDE DEF Whole
<1>4. \A n \in Nat : n \in S
  <2> HIDE DEF S
  <2>1. 0 \in S
    BY <1>2 DEF S
  <2>2. \A n \in Nat : n \in S => n + 1 \in S
    BY <1>3 DEF S
  <2> QED
    BY <2>1, <2>2, Induction
<1>5. Whole(Len(p)) /\ Len(p) \in Nat
  BY <1>1, <1>4
<1> QED
  BY <1>5 DEF Whole

(* Of two keys of a table that are printed alike one survives.             *)
LEMMA OneSurvives ==
  ASSUME NEW l, Tree(l), NEW W \in Survivors(l),
         NEW q \in DOMAIN l, q # Root, Front(q) \in W
  PROVE  \E one \in W : /\ one # Root /\ Front(one) = Front(q)
                        /\ TextPath(one) = TextPath(q)
                        /\ \A r \in W : r # Root /\ Front(r) = Front(q) /\ TextPath(r) = TextPath(q)
                                          => r = one
<1>1. W \subseteq DOMAIN l /\ DOMAIN l \subseteq Paths /\ \A r \in DOMAIN l : Short(r) /\ r \in Paths
  BY DEF Survivors, Tree, Short
<1>2. \A r \in DOMAIN l : r \in Children(l, Front(q)) <=> r # Root /\ Front(r) = Front(q)
  <2>1. Front(q) \in Paths
    BY <1>1
  <2> QED
    BY <1>1, <2>1, ChildByFront
<1>3. \A r \in DOMAIN l : r # Root /\ Front(r) = Front(q)
         => (KeyText(Last(r)) = KeyText(Last(q)) <=> TextPath(r) = TextPath(q))
  <2> SUFFICES ASSUME NEW r \in DOMAIN l, r # Root, Front(r) = Front(q)
               PROVE  KeyText(Last(r)) = KeyText(Last(q)) <=> TextPath(r) = TextPath(q)
    OBVIOUS
  <2>1. /\ r \in Paths /\ q \in Paths /\ Short(r) /\ Short(q)
        /\ Len(r) \in Nat \ {0} /\ Len(q) = Len(r) /\ Len(r) = Len(Front(r)) + 1
        /\ \A i \in 1..Len(r) - 1 : r[i] = q[i]
        /\ Last(r) = r[Len(r)] /\ Last(q) = q[Len(r)]
    <3>1. /\ Len(r) \in Nat \ {0} /\ Len(r) = Len(Front(r)) + 1 /\ Last(r) = r[Len(r)]
          /\ \A i \in 1..Len(r) - 1 : Front(r)[i] = r[i]
      BY <1>1, FrontIsPrefix
    <3>2. /\ Len(q) = Len(Front(q)) + 1 /\ Last(q) = q[Len(q)]
          /\ \A i \in 1..Len(q) - 1 : Front(q)[i] = q[i]
      BY <1>1, FrontIsPrefix
    <3>3. Len(q) = Len(r)
      BY <3>1, <3>2
    <3> QED
      BY <1>1, <3>1, <3>2, <3>3
  <2>2. \A i \in 1..Len(r) : i = Len(r) \/ i \in 1..Len(r) - 1
    BY <2>1
  <2>3. Len(r) \in 1..Len(r)
    BY <2>1
  <2> QED
    BY <2>1, <2>2, <2>3, SameText
<1>4. q \in Children(l, Front(q))
  BY <1>2
<1>5. \E one \in W \intersect Children(l, Front(q)) :
         \A r \in W \intersect Children(l, Front(q)) :
            (KeyText(Last(r)) = KeyText(Last(q))) <=> (r = one)
  BY <1>4 DEF Survivors
<1> QED
  BY <1>1, <1>2, <1>3, <1>5

(* No two survivors have one text.                                         *)
LEMMA SurvivorsDiffer ==
  ASSUME NEW l, Tree(l), NEW W \in Survivors(l)
  PROVE  \A q, r \in W : TextPath(q) = TextPath(r) => q = r
<1> DEFINE Same(n) == \A q, r \in W : Len(q) = n /\ TextPath(q) = TextPath(r) => q = r
           S == {n \in Nat : Same(n)}
<1>1. /\ W \subseteq DOMAIN l /\ \A q \in W \ {Root} : Front(q) \in W
      /\ \A q \in W : Short(q) /\ q \in Paths /\ Len(q) \in Nat
      /\ \A q \in W : Len(q) = 0 <=> q = Root
  BY DEF Survivors, Tree, Short, Root, Paths
<1>2. \A q, r \in W : TextPath(q) = TextPath(r) => Len(q) = Len(r)
  BY <1>1, SameText
<1>3. Same(0)
  BY <1>1, <1>2
<1>4. ASSUME NEW n \in Nat, Same(n) PROVE Same(n + 1)
  <2> SUFFICES ASSUME NEW q \in W, NEW r \in W, Len(q) = n + 1, TextPath(q) = TextPath(r)
               PROVE  q = r
    OBVIOUS
  <2>1. Len(r) = n + 1 /\ q # Root /\ r # Root
    BY <1>1, <1>2
  <2>2. Front(q) \in W /\ Front(r) \in W /\ Len(Front(q)) = n
    <3>1. Len(q) = Len(Front(q)) + 1 /\ Front(q) \in W /\ Front(r) \in W
      BY <1>1, <2>1, FrontIsPrefix
    <3>2. Len(Front(q)) \in Nat
      BY <1>1, <3>1
    <3> QED
      BY <3>1, <3>2
  <2>3. TextPath(Front(q)) = TextPath(Front(r))
    BY <1>1, <2>1, TextOfFront
  <2>4. Front(q) = Front(r)
    BY <1>4, <2>2, <2>3
  <2> QED
    BY <1>1, <2>1, <2>2, <2>4, OneSurvives
<1> HIDE DEF Same
<1>5. \A n \in Nat : n \in S
  <2> HIDE DEF S
  <2>1. 0 \in S
    BY <1>3 DEF S
  <2>2. \A n \in Nat : n \in S => n + 1 \in S
    BY <1>4 DEF S
  <2> QED
    BY <2>1, <2>2, Induction
<1>6. \A n \in Nat : Same(n)
  BY <1>5
<1> QED
  BY <1>1, <1>6 DEF Same

(* A node that shares its text with no other one survives, when the nodes  *)
(* above it do not either.                                                 *)
LEMMA NamedSurvive ==
  ASSUME NEW l, Tree(l), NEW W \in Survivors(l), NEW p \in DOMAIN l,
         \A i \in 0..Len(p) : \A r \in DOMAIN l :
            TextPath(r) = TextPath(SubSeq(p, 1, i)) => r = SubSeq(p, 1, i)
  PROVE  p \in W
<1> DEFINE Alone(q) == \A i \in 0..Len(q) : \A r \in DOMAIN l :
                          TextPath(r) = TextPath(SubSeq(q, 1, i)) => r = SubSeq(q, 1, i)
           Survive(n) == \A q \in DOMAIN l : Len(q) = n /\ Alone(q) => q \in W
           S == {n \in Nat : Survive(n)}
<1>1. /\ W \subseteq DOMAIN l /\ Root \in W
      /\ \A q \in DOMAIN l : Short(q) /\ q \in Paths /\ Len(q) \in Nat
      /\ \A q \in DOMAIN l : Len(q) = 0 <=> q = Root
      /\ \A q \in DOMAIN l \ {Root} : Front(q) \in DOMAIN l
  BY DEF Survivors, Tree, Short, Root, Paths
<1>2. Survive(0)
  BY <1>1
<1>3. ASSUME NEW n \in Nat, Survive(n) PROVE Survive(n + 1)
  <2> SUFFICES ASSUME NEW q \in DOMAIN l, Len(q) = n + 1, Alone(q)
               PROVE  q \in W
    OBVIOUS
  <2>1. q # Root /\ Front(q) \in DOMAIN l
    BY <1>1
  <2>2. Len(Front(q)) = n
    <3>1. Len(q) = Len(Front(q)) + 1 /\ Len(Front(q)) \in Nat
      BY <1>1, <2>1, FrontIsPrefix
    <3> QED
      BY <3>1
  <2>3. Alone(Front(q))
    BY <1>1, <2>1, PrefixOfFront
  <2>4. Front(q) \in W
    BY <1>3, <2>1, <2>2, <2>3
  <2>5. PICK one \in W : TextPath(one) = TextPath(q)
    BY <2>1, <2>4, OneSurvives
  <2>6. SubSeq(q, 1, Len(q)) = q /\ Len(q) \in 0..Len(q)
    BY <1>1 DEF Paths
  <2> QED
    BY <1>1, <2>5, <2>6
<1>4. Alone(p)
  OBVIOUS
<1> HIDE DEF Survive, Alone
<1>5. \A n \in Nat : n \in S
  <2> HIDE DEF S
  <2>1. 0 \in S
    BY <1>2 DEF S
  <2>2. \A n \in Nat : n \in S => n + 1 \in S
    BY <1>3 DEF S
  <2> QED
    BY <2>1, <2>2, Induction
<1>6. Survive(Len(p)) /\ Len(p) \in Nat
  BY <1>1, <1>5
<1> QED
  BY <1>4, <1>6 DEF Survive

-----------------------------------------------------------------------------

(* A value that has been parsed, or is a reply.                            *)
Value(d) == /\ Tree(d) /\ d \in [DOMAIN d -> Kinds]
            /\ \A p \in DOMAIN d \ {Root} : d[Front(p)] \in {"obj", "arr"}

LEMMA KindsDiffer ==
  /\ "null" \in Leaves /\ Leaves \intersect {"obj", "arr", "nil", "table"} = {}
  /\ \A kind \in Kinds : kind = "null" \/ kind \in {"obj", "arr"} \/ kind \in Leaves \ {"null"}
  BY JsonConstants, LuaConstants DEF Leaves, Kinds

LEMMA ShownKinds ==
  /\ Shown("null") = "null" /\ Shown("obj") = "obj"
  /\ \A leaf \in Leaves \ {"null"} :
        Shown(leaf) \in Leaves \ {"null"} /\ Shown(Shown(leaf)) = Shown(leaf)
  BY KindsDiffer, PrinterConstants DEF Shown, Leaves

(* Of a value main gets the nodes that are not null.                       *)
LEMMA WrittenNodes ==
  ASSUME NEW d, Value(d), NEW l, l = Written(d)
  PROVE  /\ Tree(l)
         /\ DOMAIN l \subseteq DOMAIN d
         /\ \A p \in DOMAIN d : d[p] # "null" => p \in DOMAIN l
         /\ \A p \in DOMAIN l :
              /\ d[p] = "null" => l[p] = "nil"
              /\ d[p] \in {"obj", "arr"} => l[p] = "table"
              /\ d[p] \in Leaves \ {"null"} => l[p] = d[p] /\ l[p] \notin {"nil", "table"}
<1>1. DOMAIN l = {p \in DOMAIN d : d[p] # "null"} \union {Root}
  BY DEF Written, Root
<1>2. DOMAIN l \subseteq DOMAIN d /\ \A p \in DOMAIN d : d[p] # "null" => p \in DOMAIN l
  BY <1>1 DEF Value, Tree
<1>3. Tree(l)
  <2>1. ASSUME NEW q \in DOMAIN l \ {Root} PROVE Front(q) \in DOMAIN l
    <3>1. Front(q) \in DOMAIN d /\ d[Front(q)] \in {"obj", "arr"}
      BY <1>2 DEF Value, Tree
    <3>2. d[Front(q)] # "null"
      BY <3>1
    <3> QED
      BY <1>1, <3>1, <3>2
  <2> QED
    BY <1>1, <1>2, <2>1 DEF Tree, Value
<1>4. ASSUME NEW p \in DOMAIN l
      PROVE  l[p] = CASE d[p] = "null"           -> "nil"
                      [] d[p] \in {"obj", "arr"} -> "table"
                      [] OTHER                   -> d[p]
  BY <1>1 DEF Written, Root
<1>5. ASSUME NEW p \in DOMAIN l
      PROVE  /\ d[p] = "null" => l[p] = "nil"
             /\ d[p] \in {"obj", "arr"} => l[p] = "table"
             /\ d[p] \in Leaves \ {"null"} => l[p] = d[p] /\ l[p] \notin {"nil", "table"}
  BY <1>4, KindsDiffer
<1> QED
  BY <1>2, <1>3, <1>5

(* A reply with what survives, under its text.                             *)
ReplyOf(d, l, W, reply) ==
    /\ DOMAIN reply = {TextPath(q) : q \in W}
    /\ reply = [t \in DOMAIN reply |-> reply[t]]
    /\ \A q \in W :
         /\ d[q] = "null" => reply[TextPath(q)] = "null"
         /\ d[q] \in {"obj", "arr"} =>
              reply[TextPath(q)] = IF Children(l, q) = {} THEN "null" ELSE "obj"
         /\ d[q] \in Leaves \ {"null"} => reply[TextPath(q)] = Shown(d[q])

LEMMA ReplyNodes ==
  ASSUME NEW d, Value(d), NEW reply \in Replies(d), NEW l, l = Written(d)
  PROVE  \E W \in Survivors(l) : ReplyOf(d, l, W, reply)
<1> DEFINE back(q) == CASE l[q] = "nil"   -> "null"
                        [] l[q] = "table" -> IF Children(l, q) = {} THEN "null" ELSE "obj"
                        [] OTHER          -> l[q]
           first(W, t) == CHOOSE r \in W : TextPath(r) = t
           read(W) == [t \in {TextPath(q) : q \in W} |-> back(first(W, t))]
<1>1. PICK W \in Survivors(l) : reply = [p \in DOMAIN read(W) |-> Shown(read(W)[p])]
  <2>1. Echo(d) = {read(W) : W \in Survivors(l)}
    BY DEF Echo, ReadBack
  <2> HIDE DEF read
  <2> QED
    BY <2>1 DEF Replies
<1>2. DOMAIN reply = {TextPath(q) : q \in W}
      /\ \A t \in DOMAIN reply : reply[t] = Shown(back(first(W, t)))
  <2> HIDE DEF back, first
  <2> QED
    BY <1>1
<1>3. ASSUME NEW q \in W
      PROVE  TextPath(q) \in DOMAIN reply /\ reply[TextPath(q)] = Shown(back(q))
  <2>1. first(W, TextPath(q)) = q
    <3>1. \E r \in W : TextPath(r) = TextPath(q)
      OBVIOUS
    <3>2. first(W, TextPath(q)) \in W /\ TextPath(first(W, TextPath(q))) = TextPath(q)
      BY <3>1
    <3> HIDE DEF first
    <3> QED
      BY <3>2, SurvivorsDiffer, WrittenNodes
  <2> HIDE DEF back, first
  <2> QED
    BY <1>2, <2>1
<1>4. reply = [t \in DOMAIN reply |-> reply[t]]
  <2> HIDE DEF back, first
  <2> QED
    BY <1>1
<1>5. ASSUME NEW q \in W
      PROVE  /\ d[q] = "null" => reply[TextPath(q)] = "null"
             /\ d[q] \in {"obj", "arr"} =>
                  reply[TextPath(q)] = IF Children(l, q) = {} THEN "null" ELSE "obj"
             /\ d[q] \in Leaves \ {"null"} => reply[TextPath(q)] = Shown(d[q])
  <2>1. q \in DOMAIN l
    BY DEF Survivors
  <2>2. /\ d[q] = "null" => l[q] = "nil"
        /\ d[q] \in {"obj", "arr"} => l[q] = "table"
        /\ d[q] \in Leaves \ {"null"} => l[q] = d[q] /\ l[q] \notin {"nil", "table"}
    BY <2>1, WrittenNodes
  <2>3. reply[TextPath(q)] = Shown(back(q))
    BY <1>3
  <2>4. ASSUME d[q] = "null" PROVE reply[TextPath(q)] = "null"
    <3>1. back(q) = "null"
      BY <2>2, <2>4
    <3> HIDE DEF back
    <3> QED
      BY <2>3, <3>1, ShownKinds
  <2>5. ASSUME d[q] \in {"obj", "arr"}
        PROVE  reply[TextPath(q)] = IF Children(l, q) = {} THEN "null" ELSE "obj"
    <3>1. back(q) = IF Children(l, q) = {} THEN "null" ELSE "obj"
      BY <2>2, <2>5
    <3> HIDE DEF back
    <3> QED
      BY <2>3, <3>1, ShownKinds
  <2>6. ASSUME d[q] \in Leaves \ {"null"} PROVE reply[TextPath(q)] = Shown(d[q])
    <3>1. back(q) = d[q]
      BY <2>2, <2>6
    <3> HIDE DEF back
    <3> QED
      BY <2>3, <3>1
  <2> QED
    BY <2>4, <2>5, <2>6
<1> HIDE DEF back, first
<1> QED
  BY <1>2, <1>4, <1>5 DEF ReplyOf

(* What Lua makes of a value, and what is lost of it.                      *)
LEMMA LeavesArrive ==
  ASSUME NEW d, Value(d), NEW reply \in Replies(d), NEW p \in DOMAIN d,
         d[p] \in Leaves \ {"null"},
         \A i \in 0..Len(p) : SubSeq(p, 1, i) \notin Nameless(d)
  PROVE  TextPath(p) \in DOMAIN reply /\ reply[TextPath(p)] = Shown(d[p])
<1>0. PICK l : l = Written(d)
  OBVIOUS
<1>1. /\ Tree(l) /\ DOMAIN l \subseteq DOMAIN d /\ p \in DOMAIN l
  BY <1>0, WrittenNodes, KindsDiffer
<1>2. PICK W \in Survivors(l) : ReplyOf(d, l, W, reply)
  BY <1>0, ReplyNodes
<1>3. \A i \in 0..Len(p) : SubSeq(p, 1, i) \in DOMAIN d
  BY PrefixesInTree DEF Value
<1>4. \A i \in 0..Len(p) : \A r \in DOMAIN l :
         TextPath(r) = TextPath(SubSeq(p, 1, i)) => r = SubSeq(p, 1, i)
  BY <1>1, <1>3 DEF Nameless
<1>5. p \in W
  BY <1>1, <1>4, NamedSurvive
<1> QED
  BY <1>2, <1>5 DEF ReplyOf

(* A reply is a value, and one that Lua has nothing left to change of.     *)
LEMMA ReplyIsValue ==
  ASSUME NEW d, Value(d), IsFiniteSet(DOMAIN d), NEW reply \in Replies(d)
  PROVE  Value(reply) /\ IsFiniteSet(DOMAIN reply) /\ IsReply(reply)
<1>0. PICK l : l = Written(d)
  OBVIOUS
<1>1. Tree(l) /\ DOMAIN l \subseteq DOMAIN d /\ DOMAIN l \subseteq Paths /\ \A q \in DOMAIN l : Short(q)
  BY <1>0, WrittenNodes DEF Tree, Short
<1>2. PICK W \in Survivors(l) : ReplyOf(d, l, W, reply)
  BY <1>0, ReplyNodes
<1>3. W \subseteq DOMAIN l /\ Root \in W /\ \A q \in W \ {Root} : Front(q) \in W
  BY DEF Survivors, Root
<1>4. DOMAIN reply = {TextPath(q) : q \in W} /\ reply = [t \in DOMAIN reply |-> reply[t]]
  BY <1>2 DEF ReplyOf
<1>5. ASSUME NEW q \in W
      PROVE  /\ reply[TextPath(q)] \in Kinds \ {"arr"}
             /\ Shown(reply[TextPath(q)]) = reply[TextPath(q)]
             /\ reply[TextPath(q)] = "obj" => Children(l, q) # {}
             /\ d[q] \in {"obj", "arr"} /\ Children(l, q) # {} => reply[TextPath(q)] = "obj"
  <2>1. d[q] = "null" \/ d[q] \in {"obj", "arr"} \/ d[q] \in Leaves \ {"null"}
    <3>1. q \in DOMAIN d /\ d[q] \in Kinds
      BY <1>1, <1>3 DEF Value
    <3> QED
      BY <3>1, KindsDiffer
  <2>2. /\ d[q] = "null" => reply[TextPath(q)] = "null"
        /\ d[q] \in {"obj", "arr"} =>
             reply[TextPath(q)] = IF Children(l, q) = {} THEN "null" ELSE "obj"
        /\ d[q] \in Leaves \ {"null"} => reply[TextPath(q)] = Shown(d[q])
    BY <1>2 DEF ReplyOf
  <2>3. CASE d[q] = "null"
    BY <2>2, <2>3, KindsDiffer, ShownKinds DEF Kinds
  <2>4. CASE d[q] \in {"obj", "arr"}
    BY <2>2, <2>4, KindsDiffer, ShownKinds DEF Kinds
  <2>5. CASE d[q] \in Leaves \ {"null"}
    <3>1. Shown(d[q]) \in Leaves \ {"null"} /\ Shown(Shown(d[q])) = Shown(d[q])
      BY <2>5, ShownKinds
    <3>2. Shown(d[q]) \notin {"obj", "arr"} /\ d[q] \notin {"obj", "arr"}
      BY <2>5, <3>1, KindsDiffer
    <3> QED
      BY <2>2, <2>5, <3>1, <3>2 DEF Kinds
  <2> QED
    BY <2>1, <2>3, <2>4, <2>5
<1>6. ASSUME NEW q \in W
      PROVE  /\ Short(TextPath(q)) /\ TextPath(q) \in Paths /\ TextPath(q) \in DOMAIN reply
             /\ TextPath(TextPath(q)) = TextPath(q)
             /\ q = Root <=> TextPath(q) = Root
  BY <1>1, <1>3, <1>4, TextOfPath
<1>7. ASSUME NEW q \in W, q # Root
      PROVE  /\ Front(q) \in W /\ TextPath(Front(q)) \in DOMAIN reply
             /\ Front(TextPath(q)) = TextPath(Front(q))
             /\ reply[TextPath(Front(q))] = "obj"
  <2>1. Front(q) \in W
    BY <1>3, <1>7
  <2>2. q \in DOMAIN l /\ q \in DOMAIN d /\ d[Front(q)] \in {"obj", "arr"}
    BY <1>1, <1>3, <1>7 DEF Value
  <2>3. q \in Children(l, Front(q))
    BY <1>1, <1>3, <1>7, <2>1, ChildByFront
  <2>4. Front(TextPath(q)) = TextPath(Front(q))
    BY <1>1, <1>3, <1>7, TextOfFront
  <2> QED
    BY <1>5, <1>6, <2>1, <2>2, <2>3, <2>4
<1>8. Value(reply)
  <2>1. Root \in DOMAIN reply
    BY <1>3, <1>6
  <2>2. \A t \in DOMAIN reply : Short(t)
    BY <1>4, <1>6
  <2>3. reply \in [DOMAIN reply -> Kinds]
    <3>1. \A t \in DOMAIN reply : reply[t] \in Kinds
      BY <1>4, <1>5
    <3> QED
      BY <1>4, <3>1
  <2>4. ASSUME NEW t \in DOMAIN reply \ {Root}
        PROVE  Front(t) \in DOMAIN reply /\ reply[Front(t)] \in {"obj", "arr"}
    <3>1. PICK q \in W : t = TextPath(q)
      BY <1>4
    <3>2. q # Root
      BY <1>6, <3>1
    <3> QED
      BY <1>7, <3>1, <3>2
  <2> QED
    BY <2>1, <2>2, <2>3, <2>4 DEF Value, Tree
<1>9. IsFiniteSet(DOMAIN reply)
  <2> DEFINE f == [q \in W |-> TextPath(q)]
  <2>1. f \in Surjection(W, DOMAIN reply)
    BY <1>4 DEF Surjection
  <2>2. IsFiniteSet(W)
    BY <1>1, <1>3, FS_Subset
  <2> QED
    BY <2>1, <2>2, FS_Surjection
<1>10. IsReply(reply)
  <2>1. ASSUME NEW q \in W, reply[TextPath(q)] = "obj"
        PROVE  Children(reply, TextPath(q)) # {}
    <3>1. PICK c : c \in Children(l, q)
      BY <1>5, <2>1
    <3>2. c \in DOMAIN l /\ c # Root /\ Front(c) = q
      <4>1. c \in DOMAIN l
        BY <3>1 DEF Children, Below
      <4> QED
        BY <1>1, <1>3, <3>1, <4>1, ChildByFront
    <3>3. PICK one \in W : one # Root /\ Front(one) = q
      BY <1>1, <3>2, OneSurvives
    <3>4. TextPath(one) \in DOMAIN reply /\ TextPath(one) # Root
          /\ Front(TextPath(one)) = TextPath(q)
      BY <1>6, <1>7, <3>3
    <3>5. DOMAIN reply \subseteq Paths /\ TextPath(q) \in Paths
      BY <1>4, <1>6
    <3>6. TextPath(one) \in Children(reply, TextPath(q))
      BY <3>4, <3>5, ChildByFront
    <3> QED
      BY <3>6
  <2>2. ASSUME NEW t \in DOMAIN reply
        PROVE  /\ TextPath(t) = t /\ reply[t] # "arr" /\ Shown(reply[t]) = reply[t]
               /\ reply[t] = "obj" => Children(reply, t) # {}
    <3>1. PICK q \in W : t = TextPath(q)
      BY <1>4
    <3> QED
      BY <1>5, <1>6, <2>1, <3>1
  <2> QED
    BY <2>2 DEF IsReply
<1> QED
  BY <1>8, <1>9, <1>10

(* When there is nothing to lose, nothing changes.                         *)
LEMMA ReplyStays ==
  ASSUME NEW d, Value(d), IsReply(d), \A p \in DOMAIN d : d[p] # "null",
         NEW reply \in Replies(d)
  PROVE  reply = d
<1>0. PICK l : l = Written(d)
  OBVIOUS
<1>1. Tree(l) /\ DOMAIN l = DOMAIN d
  BY <1>0, WrittenNodes
<1>2. PICK W \in Survivors(l) : ReplyOf(d, l, W, reply)
  BY <1>0, ReplyNodes
<1>3. ASSUME NEW p \in DOMAIN l PROVE p \in W
  <2>1. \A i \in 0..Len(p) : SubSeq(p, 1, i) \in DOMAIN l
    BY <1>1, PrefixesInTree
  <2>2. \A q \in DOMAIN l : TextPath(q) = q
    BY <1>1 DEF IsReply
  <2>3. \A i \in 0..Len(p) : \A r \in DOMAIN l :
           TextPath(r) = TextPath(SubSeq(p, 1, i)) => r = SubSeq(p, 1, i)
    BY <2>1, <2>2
  <2> QED
    BY <1>1, <2>3, NamedSurvive
<1>4. W = DOMAIN d
  BY <1>1, <1>3 DEF Survivors
<1>5. DOMAIN reply = DOMAIN d
  <2>1. \A q \in W : TextPath(q) = q
    BY <1>4 DEF IsReply
  <2>2. DOMAIN reply = {TextPath(q) : q \in W}
    BY <1>2 DEF ReplyOf
  <2> QED
    BY <1>4, <2>1, <2>2
<1>6. ASSUME NEW q \in DOMAIN d PROVE reply[q] = d[q]
  <2>1. /\ d[q] \in {"obj", "arr"} =>
             reply[q] = IF Children(l, q) = {} THEN "null" ELSE "obj"
        /\ d[q] \in Leaves \ {"null"} => reply[q] = Shown(d[q])
    <3>1. TextPath(q) = q
      BY DEF IsReply
    <3> QED
      BY <1>2, <1>4, <3>1 DEF ReplyOf
  <2>2. d[q] \in {"obj", "arr"} \/ d[q] \in Leaves \ {"null"}
    BY KindsDiffer DEF Value
  <2>3. d[q] # "arr" /\ Shown(d[q]) = d[q] /\ (d[q] = "obj" => Children(d, q) # {})
    BY DEF IsReply
  <2>4. Children(l, q) = Children(d, q)
    BY <1>1 DEF Children, Below
  <2> QED
    BY <2>1, <2>2, <2>3, <2>4
<1>7. reply = [t \in DOMAIN reply |-> reply[t]] /\ d = [t \in DOMAIN d |-> d[t]]
  BY <1>2 DEF ReplyOf, Value
<1> QED
  BY <1>5, <1>6, <1>7

-----------------------------------------------------------------------------

(* A new element of an array has a number that the source is long enough   *)
(* for, and the container that a value is stored in is above it.           *)
LEMMA SlotIsShort ==
  ASSUME JsonInv, TreeOK, at \in {"value", "first_element"}, Len(tokens) < MaxTokens, Slot # Root
  PROVE  /\ Short(Slot) /\ Front(Slot) = Top /\ ~IsPrefix(Slot, Top)
         /\ Top \in DOMAIN doc /\ doc[Top] \in {"obj", "arr"}
<1>1. /\ calls # <<>> /\ calls \in Seq({"obj", "arr"}) /\ Slot \in Paths
      /\ Len(objectStack) = Len(calls) + 1 /\ Top = objectStack[Len(calls) + 1]
      /\ Top \in Paths /\ Top \in DOMAIN doc
  BY SlotInInnermost DEF JsonInv, JsonTypeOK, StackFollowsBrackets, Top, Last
<1>2. doc[Top] \in {"obj", "arr"}
  <2>1. Len(calls) \in 1..Len(calls) /\ calls[Len(calls)] \in {"obj", "arr"}
    BY <1>1
  <2> QED
    BY <1>1, <2>1 DEF JsonInv, StackFollowsBrackets
<1>3. Cardinality(Children(doc, Top)) + 1 \in 1..MaxTokens
  <2>1. /\ IsFiniteSet(DOMAIN doc) /\ Cardinality(DOMAIN doc) <= Len(tokens) + 1
        /\ tokens \in Seq(Tokens)
    BY DEF TreeOK, JsonInv, JsonTypeOK
  <2>2. Children(doc, Top) \in SUBSET (DOMAIN doc \ {Top})
    BY <1>1 DEF Children, Below, Paths
  <2>3. /\ IsFiniteSet(DOMAIN doc \ {Top})
        /\ Cardinality(DOMAIN doc \ {Top}) = Cardinality(DOMAIN doc) - 1
    BY <1>1, <2>1, FS_RemoveElement
  <2>4. /\ Cardinality(Children(doc, Top)) \in Nat
        /\ Cardinality(Children(doc, Top)) <= Cardinality(DOMAIN doc \ {Top})
    BY <2>2, <2>3, FS_Subset, FS_CardinalityType
  <2>5. Cardinality(DOMAIN doc) \in Nat /\ Len(tokens) \in Nat /\ MaxTokens \in Nat
    BY <2>1, FS_CardinalityType, JsonConstants
  <2> QED
    BY <2>1, <2>3, <2>4, <2>5
<1>4. PICK k : k \in Keys /\ Slot = Append(Top, k) /\ k[2] <= MaxTokens
  <2>1. CASE doc[Top] = "arr"
    <3>1. Slot = Append(Top, Element(Cardinality(Children(doc, Top)) + 1))
      BY <2>1 DEF Slot
    <3>2. PICK n \in 1..MaxTokens : n = Cardinality(Children(doc, Top)) + 1
      BY <1>3
    <3>3. Element(n) \in Keys /\ Element(n)[2] = n
      BY JsonConstants DEF Keys, Element
    <3> QED
      BY <3>1, <3>2, <3>3, JsonConstants
  <2>2. CASE doc[Top] = "obj"
    <3>1. Slot = Append(Top, Property(currentProperty))
      BY <2>2 DEF Slot
    <3>2. currentProperty \in Names
      <4>1. Last(calls) = "obj"
        BY <1>1, <2>2 DEF JsonInv, StackFollowsBrackets, Last
      <4>2. at = "value"
        BY <1>1, <4>1 DEF JsonInv, PlacesFit
      <4> QED
        BY <1>1, <4>1, <4>2 DEF JsonInv, PlacesFit
    <3>3. Property(currentProperty) \in Keys /\ Property(currentProperty)[2] = 0
      BY <3>2 DEF Keys, Property
    <3> QED
      BY <3>1, <3>3, JsonConstants
  <2> QED
    BY <1>2, <2>1, <2>2
<1>5. Front(Slot) = Top /\ Len(Slot) = Len(Top) + 1
  <2>1. Top \in Seq(Keys) /\ Len(Slot) = Len(Top) + 1
    BY <1>1, <1>4, AppendedPath DEF Paths
  <2>2. Slot \in Seq(Keys) /\ Slot # <<>> /\ Len(Top) \in Nat
    BY <1>1, <2>1 DEF Paths
  <2>3. /\ Front(Slot) \in Seq(Keys) /\ Len(Front(Slot)) = Len(Top)
        /\ \A i \in 1..Len(Top) : Front(Slot)[i] = Slot[i]
    <3>1. /\ Front(Slot) \in Seq(Keys) /\ Len(Front(Slot)) = Len(Slot) - 1
          /\ \A i \in 1..Len(Slot) - 1 : Front(Slot)[i] = Slot[i]
      BY <2>2, FrontOfSequence
    <3> QED
      BY <2>1, <2>2, <3>1
  <2>4. \A i \in 1..Len(Top) : Front(Slot)[i] = Top[i]
    BY <1>4, <2>1, <2>3
  <2> QED
    BY <2>1, <2>3, <2>4, SeqEqual
<1>6. Short(Slot)
  <2>1. DOMAIN Slot = 1..(Len(Top) + 1) /\ Slot \in Paths /\ Len(Top) \in Nat /\ DOMAIN Top = 1..Len(Top)
    BY <1>1, <1>5 DEF Paths
  <2>2. \A i \in 1..Len(Top) : Slot[i] = Top[i] /\ Top[i][2] <= MaxTokens
    BY <1>1, <1>4, <2>1 DEF TreeOK, Paths
  <2>3. Slot[Len(Top) + 1] = k
    BY <1>1, <1>4 DEF Paths
  <2>4. \A i \in 1..(Len(Top) + 1) : i \in 1..Len(Top) \/ i = Len(Top) + 1
    BY <2>1
  <2> QED
    BY <1>4, <2>1, <2>2, <2>3, <2>4 DEF Short
<1>7. ~IsPrefix(Slot, Top)
  BY <1>1, <1>5, LongerIsNoPrefix DEF Paths
<1> QED
  BY <1>1, <1>2, <1>5, <1>6, <1>7

LEMMA StoreKeepsTree ==
  ASSUME JsonInv, TreeOK, at \in {"value", "first_element"},
         NEW t \in Tokens, NEW kind \in Kinds, Consume(t), Store(kind)
  PROVE  TreeOK'
<1>1. /\ Len(tokens) \in Nat /\ Len(tokens) < MaxTokens /\ Len(tokens') = Len(tokens) + 1
      /\ doc' = Assign(doc, Slot, kind) /\ Slot \in Paths
      /\ DOMAIN doc \subseteq Paths /\ IsFiniteSet(DOMAIN doc)
  BY SlotInInnermost DEF Consume, Store, JsonInv, JsonTypeOK
<1>2. /\ DOMAIN doc' = (DOMAIN doc \ Below(doc, Slot)) \union {Slot}
      /\ doc'[Slot] = kind
      /\ \A p \in DOMAIN doc \ Below(doc, Slot) : doc'[p] = IF p = Slot THEN kind ELSE doc[p]
      /\ \A p \in DOMAIN doc : p \notin Below(doc, Slot) <=> ~IsPrefix(Slot, p)
      /\ doc' \in [DOMAIN doc' -> Kinds]
  BY <1>1 DEF Assign, Below, TreeOK
<1>3. ASSUME NEW p \in DOMAIN doc' \ {Root}
      PROVE  Front(p) \in DOMAIN doc' /\ doc'[Front(p)] \in {"obj", "arr"}
  <2>1. CASE p = Slot
    <3>1. /\ Front(Slot) = Top /\ ~IsPrefix(Slot, Top)
          /\ Top \in DOMAIN doc /\ doc[Top] \in {"obj", "arr"}
      BY <1>1, <2>1, SlotIsShort
    <3>2. Top # Slot
      BY <1>1, <3>1, PrefixOfItself
    <3> QED
      BY <1>2, <2>1, <3>1, <3>2
  <2>2. CASE p # Slot
    <3>1. p \in DOMAIN doc /\ ~IsPrefix(Slot, p) /\ p \in Paths
      BY <1>1, <1>2, <2>2
    <3>2. Front(p) \in DOMAIN doc /\ doc[Front(p)] \in {"obj", "arr"}
      BY <3>1 DEF TreeOK
    <3>3. ~IsPrefix(Slot, Front(p))
      <4> SUFFICES ASSUME IsPrefix(Slot, Front(p)) PROVE IsPrefix(Slot, p)
        BY <3>1
      <4>1. /\ Front(p) \in Paths /\ Len(p) = Len(Front(p)) + 1 /\ Len(p) \in Nat
            /\ \A i \in 1..Len(p) - 1 : Front(p)[i] = p[i]
        BY <3>1, FrontIsPrefix
      <4>2. Len(Slot) <= Len(Front(p)) /\ \A i \in 1..Len(Slot) : Slot[i] = Front(p)[i]
        BY <1>1, <4>1, PrefixByElements
      <4>3. Len(Slot) \in Nat /\ Len(Front(p)) \in Nat
        BY <1>1, <4>1 DEF Paths
      <4>4. Len(Slot) <= Len(p) /\ \A i \in 1..Len(Slot) : Slot[i] = p[i]
        BY <4>1, <4>2, <4>3
      <4> QED
        BY <1>1, <3>1, <4>4, PrefixByElements
    <3>4. Front(p) # Slot
      BY <1>1, <3>3, PrefixOfItself
    <3> QED
      BY <1>2, <3>2, <3>3, <3>4
  <2> QED
    BY <2>1, <2>2
<1>4. ASSUME NEW p \in DOMAIN doc' PROVE \A i \in DOMAIN p : p[i][2] <= MaxTokens
  <2>1. CASE p = Slot /\ Slot # Root
    BY <1>1, <2>1, SlotIsShort DEF Short
  <2>2. CASE p = Root
    BY <2>2 DEF Root
  <2>3. CASE p # Slot
    <3>1. p \in DOMAIN doc
      BY <1>2, <2>3
    <3> QED
      BY <3>1 DEF TreeOK
  <2> QED
    BY <2>1, <2>2, <2>3
<1>5. at' \notin {"done", "error"} => Cardinality(DOMAIN doc') <= Len(tokens') + 1
  <2>1. Cardinality(DOMAIN doc) \in Nat /\ Cardinality(DOMAIN doc) <= Len(tokens) + 1
    BY <1>1, FS_CardinalityType DEF TreeOK
  <2>2. DOMAIN doc' \in SUBSET (DOMAIN doc \union {Slot})
    BY <1>2
  <2>3. /\ IsFiniteSet(DOMAIN doc \union {Slot})
        /\ Cardinality(DOMAIN doc \union {Slot}) <= Cardinality(DOMAIN doc) + 1
    <3>1. /\ IsFiniteSet(DOMAIN doc \union {Slot})
          /\ Cardinality(DOMAIN doc \union {Slot})
               = IF Slot \in DOMAIN doc THEN Cardinality(DOMAIN doc) ELSE Cardinality(DOMAIN doc) + 1
      BY <1>1, FS_AddElement
    <3> QED
      BY <2>1, <3>1
  <2>4. IsFiniteSet(DOMAIN doc') /\ Cardinality(DOMAIN doc') <= Cardinality(DOMAIN doc \union {Slot})
    BY <2>2, <2>3, FS_Subset
  <2>5. Cardinality(DOMAIN doc') \in Nat /\ Cardinality(DOMAIN doc \union {Slot}) \in Nat
    BY <2>3, <2>4, FS_CardinalityType
  <2> QED
    BY <1>1, <2>1, <2>3, <2>4, <2>5
<1> QED
  BY <1>2, <1>3, <1>4, <1>5 DEF TreeOK

-----------------------------------------------------------------------------

LEMMA PathValue == ASSUME PathInv PROVE Value(doc) /\ IsFiniteSet(DOMAIN doc)
<1>1. Root \in DOMAIN doc
  <2>1. 1 \in 1..Len(objectStack) /\ objectStack[1] = Root
    BY DEF PathInv, JsonInv, JsonTypeOK, StackFollowsBrackets
  <2> QED
    BY <2>1 DEF PathInv, JsonInv, StackFollowsBrackets
<1> QED
  BY <1>1 DEF PathInv, TreeOK, JsonInv, JsonTypeOK, Value, Tree, Short

LEMMA PathInvInit == PathInit => PathInv
<1> SUFFICES ASSUME PathInit PROVE PathInv
  OBVIOUS
<1>1. JsonInv
  BY InitInv DEF PathInit
<1>2. DOMAIN doc = {Root} /\ doc[Root] = "null" /\ doc \in [DOMAIN doc -> Kinds]
  BY KindsDiffer DEF PathInit, Init, NullValue, Kinds
<1>3. Cardinality(DOMAIN doc) = 1 /\ Len(tokens) = 0 /\ DOMAIN Root = {}
  <2>1. Cardinality({Root}) = 1
    BY FS_Singleton
  <2> QED
    BY <1>2, <2>1 DEF PathInit, Init, Root
<1>4. TreeOK
  BY <1>2, <1>3 DEF TreeOK
<1> QED
  BY <1>1, <1>4, PathConstants DEF PathInit, Init, PathInv

(* A step of the parser: the value stays a tree, and no call is left when  *)
(* the parser comes back to parse().                                       *)
LEMMA StepKeepsTree ==
  ASSUME JsonInv, TreeOK, Step
  PROVE  TreeOK'
<1>1. {"begin_object", "end_object", "begin_array", "end_array", "value_separator",
       "name_separator"} \subseteq Tokens /\ Literals \subseteq Tokens
  BY DEF Tokens, Marks
<1>2. CASE OpenObject
  BY <1>1, <1>2, StoreKeepsTree DEF OpenObject, OpenContainer, Kinds
<1>3. CASE OpenArray
  BY <1>1, <1>3, StoreKeepsTree DEF OpenArray, OpenContainer, Kinds
<1>4. CASE \E t \in Literals : ParseScalar(t)
  <2>1. PICK t \in Literals : ParseScalar(t)
    BY <1>4
  <2>2. t \in Tokens /\ t \in Kinds
    BY <1>1, JsonConstants DEF Kinds
  <2> QED
    BY <2>1, <2>2, StoreKeepsTree DEF ParseScalar
<1>5. CASE \/ \E t \in Literals \intersect Names : ParseName(t)
           \/ Colon \/ Comma \/ CloseObject \/ CloseArray
           \/ \E t \in Tokens : Throw(t)
           \/ EndOfStream \/ EmptySource
  <2>1. doc' = doc
    BY <1>5 DEF ParseName, Colon, Comma, CloseObject, CloseArray, Close, Throw, EndOfStream, EmptySource
  <2>2. \E t : tokens' = Append(tokens, t) \/ tokens' = tokens
    BY <1>5 DEF ParseName, Colon, Comma, CloseObject, CloseArray, Close, Throw, EndOfStream,
                EmptySource, Consume
  <2>3. at \notin {"done", "error"}
    BY <1>5 DEF ParseName, Colon, Comma, CloseObject, CloseArray, Close, Throw, EndOfStream, EmptySource
  <2>4. Len(tokens') >= Len(tokens) /\ Len(tokens) \in Nat /\ Len(tokens') \in Nat
    BY <2>2 DEF JsonInv, JsonTypeOK
  <2>5. Cardinality(DOMAIN doc) \in Nat
    BY FS_CardinalityType DEF JsonInv
  <2> QED
    BY <2>1, <2>3, <2>4, <2>5 DEF TreeOK
<1> QED
  BY <1>2, <1>3, <1>4, <1>5 DEF Step

LEMMA StepEndsCalls ==
  ASSUME JsonInv, at \in {"end", "done"} \/ tokens = <<>> => calls = <<>>, Step
  PROVE  at' \in {"end", "done"} \/ tokens' = <<>> => calls' = <<>>
<1>1. calls \in Seq({"obj", "arr"}) /\ Len(calls) \in Nat /\ tokens \in Seq(Tokens)
  BY DEF JsonInv, JsonTypeOK
<1>2. \A t : Append(tokens, t) # <<>>
  BY <1>1
<1>3. CASE OpenObject \/ OpenArray
  BY <1>2, <1>3 DEF OpenObject, OpenArray, OpenContainer, Consume
<1>4. CASE \E t \in Literals : ParseScalar(t)
  BY <1>1, <1>2, <1>4 DEF ParseScalar, Consume, Caller
<1>5. CASE CloseObject \/ CloseArray
  <2>1. /\ at' = Caller(Len(calls) - 1) /\ calls' = Front(calls) /\ tokens' # <<>>
        /\ at \in {"first_property", "first_element", "more"}
    BY <1>2, <1>5 DEF CloseObject, CloseArray, Close, Consume
  <2>2. calls # <<>>
    BY <2>1 DEF JsonInv, PlacesFit
  <2>3. Front(calls) \in Seq({"obj", "arr"}) /\ Len(Front(calls)) = Len(calls) - 1
    BY <1>1, <2>2, FrontOfSequence
  <2>4. at' \in {"end", "done"} => Len(calls) - 1 = 0
    BY <2>1 DEF Caller
  <2>5. Len(Front(calls)) = 0 => Front(calls) = <<>>
    BY <2>3, EmptySeq
  <2> QED
    BY <2>1, <2>3, <2>4, <2>5
<1>6. CASE \/ \E t \in Literals \intersect Names : ParseName(t)
           \/ Colon \/ Comma \/ \E t \in Tokens : Throw(t)
  BY <1>2, <1>6 DEF ParseName, Colon, Comma, Throw, Consume
<1>7. CASE EndOfStream \/ EmptySource
  BY <1>7 DEF EndOfStream, EmptySource
<1> QED
  BY <1>3, <1>4, <1>5, <1>6, <1>7 DEF Step

LEMMA PathInvNext == PathInv /\ [PathNext]_pathVars => PathInv'
<1> SUFFICES ASSUME PathInv, [PathNext]_pathVars PROVE PathInv'
  OBVIOUS
<1>1. CASE ParseBody
  <2>1. JsonInv'
    BY <1>1, NextInv DEF ParseBody, Next, PathInv
  <2>2. TreeOK'
    BY <1>1, StepKeepsTree DEF ParseBody, PathInv
  <2>3. at' \in {"end", "done"} \/ tokens' = <<>> => calls' = <<>>
    BY <1>1, StepEndsCalls DEF ParseBody, PathInv
  <2>4. at # "done"
    BY <1>1 DEF ParseBody, Step, OpenObject, OpenArray, OpenContainer, ParseScalar, ParseName, Colon,
                Comma, CloseObject, CloseArray, Close, Throw, EndOfStream, EmptySource
  <2>5. hops' = 0 /\ hops = 0
    BY <1>1, <2>4 DEF ParseBody, PathInv
  <2> QED
    BY <2>1, <2>2, <2>3, <2>5, PathConstants DEF PathInv
<1>2. CASE ParseNext
  <2>1. JsonInv'
    BY <1>2, NextInv DEF ParseNext, Next, PathInv
  <2>2. DOMAIN doc' = {Root} /\ doc'[Root] = "null" /\ doc' \in [DOMAIN doc' -> Kinds]
        /\ tokens' = <<>> /\ calls' = <<>>
    BY <1>2, KindsDiffer DEF ParseNext, Parse, Fresh, NullValue, Kinds
  <2>3. Cardinality(DOMAIN doc') = 1 /\ Len(tokens') = 0 /\ DOMAIN Root = {}
    <3>1. Cardinality({Root}) = 1
      BY FS_Singleton
    <3> QED
      BY <2>2, <3>1 DEF Root
  <2>4. TreeOK'
    BY <2>2, <2>3 DEF TreeOK
  <2> QED
    BY <1>2, <2>1, <2>2, <2>4, PathConstants DEF ParseNext, PathInv
<1>3. CASE Run
  <2>1. /\ at = "done" /\ at' = "done" /\ hops' = hops + 1 /\ hops < MaxHops
        /\ doc' \in Replies(doc)
        /\ UNCHANGED <<tokens, calls, objectStack, currentProperty>>
    BY <1>3 DEF Run
  <2>2. Value(doc') /\ IsFiniteSet(DOMAIN doc') /\ IsReply(doc')
    BY <2>1, PathValue, ReplyIsValue
  <2>3. calls = <<>> /\ Len(objectStack) = 1 /\ objectStack[1] = Root
    BY <2>1 DEF PathInv, JsonInv, StackFollowsBrackets
  <2>4. JsonInv'
    <3>1. JsonTypeOK'
      BY <2>1, <2>2 DEF PathInv, JsonInv, JsonTypeOK, Value, Tree, Short
    <3>2. StackFollowsBrackets'
      <4>1. calls' = <<>> /\ Len(objectStack') = 1 /\ objectStack'[1] = Root /\ Root \in DOMAIN doc'
        BY <2>1, <2>2, <2>3 DEF Value, Tree
      <4> QED
        BY <4>1 DEF StackFollowsBrackets
    <3>3. PlacesFit'
      BY <2>1 DEF PlacesFit
    <3> QED
      BY <2>2, <3>1, <3>2, <3>3 DEF JsonInv
  <2>5. TreeOK'
    BY <2>1, <2>2 DEF Value, Tree, Short, TreeOK
  <2>6. hops' \in 0..MaxHops
    BY <2>1, PathConstants DEF PathInv
  <2> QED
    BY <2>1, <2>2, <2>3, <2>4, <2>5, <2>6 DEF PathInv
<1>4. CASE UNCHANGED pathVars
  BY <1>4 DEF pathVars, parserVars, PathInv, JsonInv, JsonTypeOK, StackFollowsBrackets, PlacesFit,
              TreeOK, Last
<1> QED
  BY <1>1, <1>2, <1>3, <1>4 DEF PathNext

(* Whatever is parsed, and however often what came of it is sent on: the   *)
(* value stays a tree that no pointer of the parser has been left to, and  *)
(* from its first run on it is made of what Lua leaves as it is.           *)
THEOREM PathInvariant == PathSpec => [](PathInv /\ StackFollowsBrackets)
<1>1. PathInv => StackFollowsBrackets
  BY DEF PathInv, JsonInv
<1> QED
  BY PathInvInit, PathInvNext, <1>1, PTL DEF PathSpec

(* A payload that main returns loses nothing but nulls, the difference of  *)
(* arrays and objects, and all but one of the properties that are printed  *)
(* alike (luatools.cpp).                                                   *)
THEOREM PayloadsSurvive == PathSpec => []NothingElseLost
<1>1. PathInv => NothingElseLost
  BY PathValue, LeavesArrive DEF NothingElseLost
<1> QED
  BY PathInvariant, <1>1, PTL

(* And what is left of it after its first run stays as it is, when it has  *)
(* no nulls: an object that holds one loses it in the next run.            *)
THEOREM RepliesAreStable == PathSpec => StableWithoutNull
<1>1. ASSUME PathInv, Run, hops > 0, \A p \in DOMAIN doc : doc[p] # "null"
      PROVE  doc' = doc
  <2>1. Value(doc) /\ IsReply(doc) /\ doc' \in Replies(doc)
    BY <1>1, PathValue DEF PathInv, Run
  <2> QED
    BY <1>1, <2>1, ReplyStays
<1>2. PathInv /\ [PathNext]_pathVars
        => [Run /\ hops > 0 /\ (\A p \in DOMAIN doc : doc[p] # "null") => doc' = doc]_pathVars
  BY <1>1
<1> QED
  BY PathInvariant, <1>2, PTL DEF PathSpec, StableWithoutNull

-----------------------------------------------------------------------------

(* How many brackets are open behind a token.                              *)
LEMMA DepthSteps ==
  ASSUME NEW s, NEW i \in Nat
  PROVE  /\ Depth(s, i) \in Int /\ Depth(s, 0) = 0
         /\ s[i + 1] \in Opening => Depth(s, i + 1) = Depth(s, i) + 1
         /\ s[i + 1] \in Closing => Depth(s, i + 1) = Depth(s, i) - 1
         /\ s[i + 1] \notin Opening \union Closing => Depth(s, i + 1) = Depth(s, i)
<1> DEFINE of(S, m) == {j \in 1..m : s[j] \in S}
<1>1. ASSUME NEW S, NEW m \in Nat
      PROVE  IsFiniteSet(of(S, m)) /\ Cardinality(of(S, m)) \in Nat
  <2>1. IsFiniteSet(1..m) /\ of(S, m) \in SUBSET (1..m)
    BY FS_Interval
  <2> QED
    BY <2>1, FS_Subset, FS_CardinalityType
<1>2. ASSUME NEW S
      PROVE  Cardinality(of(S, i + 1)) =
               IF s[i + 1] \in S THEN Cardinality(of(S, i)) + 1 ELSE Cardinality(of(S, i))
  <2>1. CASE s[i + 1] \in S
    <3>1. of(S, i + 1) = of(S, i) \union {i + 1} /\ i + 1 \notin of(S, i)
      BY <2>1
    <3> HIDE DEF of
    <3> QED
      BY <1>1, <2>1, <3>1, FS_AddElement
  <2>2. CASE s[i + 1] \notin S
    <3>1. of(S, i + 1) = of(S, i)
      BY <2>2
    <3> HIDE DEF of
    <3> QED
      BY <2>2, <3>1
  <2> QED
    BY <2>1, <2>2
<1>3. \A S : Cardinality(of(S, 0)) = 0
  <2>1. \A S : of(S, 0) = {}
    OBVIOUS
  <2> HIDE DEF of
  <2> QED
    BY <2>1, FS_EmptySet
<1>4. \A m \in Nat : Depth(s, m) =
        Cardinality(of(Opening, m)) - Cardinality(of(Closing, m))
  BY DEF Depth
<1>5. Opening \intersect Closing = {}
  BY DEF Opening, Closing
<1> HIDE DEF of
<1>6. Depth(s, i) \in Int /\ Depth(s, 0) = 0
  BY <1>1, <1>3, <1>4
<1>7. /\ Cardinality(of(Opening, i)) \in Nat /\ Cardinality(of(Closing, i)) \in Nat
      /\ Depth(s, i) = Cardinality(of(Opening, i)) - Cardinality(of(Closing, i))
      /\ Depth(s, i + 1) = Cardinality(of(Opening, i + 1)) - Cardinality(of(Closing, i + 1))
  BY <1>1, <1>4
<1>8. ASSUME s[i + 1] \in Opening PROVE Depth(s, i + 1) = Depth(s, i) + 1
  <2>1. s[i + 1] \notin Closing
    BY <1>5, <1>8
  <2> QED
    BY <1>2, <1>7, <1>8, <2>1
<1>9. ASSUME s[i + 1] \in Closing PROVE Depth(s, i + 1) = Depth(s, i) - 1
  <2>1. s[i + 1] \notin Opening
    BY <1>5, <1>9
  <2> QED
    BY <1>2, <1>7, <1>9, <2>1
<1>10. ASSUME s[i + 1] \notin Opening \union Closing PROVE Depth(s, i + 1) = Depth(s, i)
  BY <1>2, <1>7, <1>10
<1> QED
  BY <1>6, <1>8, <1>9, <1>10

(* What the reference says of the first n tokens does not depend on the    *)
(* others.                                                                 *)
Agree(s, t, n) == \A i \in 1..n : s[i] = t[i]

LEMMA SameDepth ==
  ASSUME NEW s, NEW t, NEW n \in Nat, Agree(s, t, n), NEW i \in 0..n
  PROVE  Depth(s, i) = Depth(t, i) /\ Depth(s, i) \in Int
<1>1. \A S : {j \in 1..i : s[j] \in S} = {j \in 1..i : t[j] \in S}
  BY DEF Agree
<1>2. Depth(s, i) = Depth(t, i)
  BY <1>1 DEF Depth
<1> QED
  BY <1>2, DepthSteps

LEMMA SameCloses ==
  ASSUME NEW s, NEW t, NEW n \in Nat, Agree(s, t, n),
         NEW a \in 1..n, NEW b \in Int, b <= n
  PROVE  /\ Closes(s, a, b) <=> Closes(t, a, b)
         /\ IsValue(s, a, b) <=> IsValue(t, a, b)
         /\ Commas(s, a, b) = Commas(t, a, b)
<1>1. \A i \in 0..n : Depth(s, i) = Depth(t, i)
  BY SameDepth
<1>2. Closes(s, a, b) <=> Closes(t, a, b)
  <2>1. CASE a < b
    BY <1>1, <2>1 DEF Closes, Agree
  <2>2. CASE ~(a < b)
    BY <2>2 DEF Closes
  <2> QED
    BY <2>1, <2>2
<1>3. Commas(s, a, b) = Commas(t, a, b)
  BY <1>1 DEF Commas, Agree
<1> QED
  BY <1>2, <1>3 DEF IsValue, Agree

LEMMA SamePart ==
  ASSUME NEW s, NEW t, NEW n \in Nat, Agree(s, t, n),
         NEW a \in 1..n, NEW c \in a..n, NEW d \in 1..(n + 1)
  PROVE  IsPart(s, a, c, d) <=> IsPart(t, a, c, d)
<1>1. ASSUME NEW e \in {c + 1, c + 3}
      PROVE  IsValue(s, e, d - 1) <=> IsValue(t, e, d - 1)
  <2>1. CASE e <= n
    BY <2>1, SameCloses
  <2>2. CASE ~(e <= n)
    BY <2>2 DEF IsValue, Closes
  <2> QED
    BY <2>1, <2>2
<1>2. ASSUME c + 2 < d PROVE s[c + 1] = t[c + 1] /\ s[c + 2] = t[c + 2]
  BY <1>2 DEF Agree
<1> QED
  BY <1>1, <1>2 DEF IsPart, Agree

LEMMA SameContainer ==
  ASSUME NEW s, NEW t, NEW n \in Nat, Agree(s, t, n),
         NEW a \in 1..n, NEW b \in 1..n
  PROVE  IsContainer(s, a, b) <=> IsContainer(t, a, b)
<1>1. /\ Closes(s, a, b) <=> Closes(t, a, b)
      /\ \A d \in 1..(n + 1) : Commas(s, a, d - 1) = Commas(t, a, d - 1)
  BY SameCloses
<1>2. Commas(s, a, b - 1) = Commas(t, a, b - 1)
  BY <1>1
<1>3. ASSUME Closes(s, a, b) PROVE {a, b} \union Commas(s, a, b - 1) \subseteq a..n
  BY <1>3 DEF Closes, Commas
<1>4. \A c, d \in a..n : IsPart(s, a, c, d) <=> IsPart(t, a, c, d)
  BY SamePart
<1> QED
  BY <1>1, <1>2, <1>3, <1>4 DEF IsContainer

(* The brackets that are open behind n tokens: bracket k was opened at     *)
(* opens[k] and cut last at cuts[k], and all before that cut are parts of  *)
(* it; of the other brackets each is a container.                          *)
Cuts(s, a, n) == {a} \union Commas(s, a, n)

IsOpen(s, n, k, a) ==
    /\ a \in 1..n /\ s[a] \in Opening
    /\ Depth(s, a) = k /\ \A j \in a..n : Depth(s, j) >= k

IsCut(s, n, a, last) ==
    /\ last \in Cuts(s, a, n) /\ \A d \in Cuts(s, a, n) : d <= last
    /\ \A c, d \in Cuts(s, a, n) : c < d /\ Commas(s, a, d - 1) \subseteq 1..c => IsPart(s, a, c, d)

Begun(s, a, c, i) ==
    \/ s[a] = "begin_array" /\ i = c + 1
    \/ s[a] = "begin_object" /\ i = c + 3 /\ s[c + 1] \in Names /\ s[c + 2] = "name_separator"

Brackets(s, n, depth, opens, cuts) ==
    /\ Depth(s, n) = depth
    /\ \A k \in 1..depth : IsOpen(s, n, k, opens[k]) /\ IsCut(s, n, opens[k], cuts[k])
    /\ \A k \in 1..(depth - 1) : Begun(s, opens[k], cuts[k], opens[k + 1])
    /\ \A a \in 1..n : s[a] \in Opening =>
         (\E k \in 1..depth : opens[k] = a) \/ \E b \in 1..n : IsContainer(s, a, b)
    /\ depth > 0 => opens[1] = 1

(* One more token, and what it leaves as it was.                           *)
LEMMA LongerCommas ==
  ASSUME NEW s, NEW t, NEW n \in Nat, Agree(s, t, n), NEW a \in 1..n
  PROVE  /\ t[n + 1] = "value_separator" /\ Depth(t, n + 1) = Depth(s, a)
              => Commas(t, a, n + 1) = Commas(s, a, n) \union {n + 1}
         /\ ~(t[n + 1] = "value_separator" /\ Depth(t, n + 1) = Depth(s, a))
              => Commas(t, a, n + 1) = Commas(s, a, n)
         /\ \A d \in 1..(n + 1) : Commas(t, a, d - 1) = Commas(s, a, d - 1)
<1>1. \A i \in 0..n : Depth(s, i) = Depth(t, i)
  BY SameDepth
<1>2. \A d \in 1..(n + 1) : Commas(t, a, d - 1) = Commas(s, a, d - 1)
  BY SameCloses
<1>3. Commas(s, a, n) = Commas(t, a, n)
  BY SameCloses
<1>4. Depth(s, a) = Depth(t, a)
  BY <1>1
<1>5. ASSUME t[n + 1] = "value_separator" /\ Depth(t, n + 1) = Depth(t, a)
      PROVE  Commas(t, a, n + 1) = Commas(t, a, n) \union {n + 1}
  BY <1>5 DEF Commas
<1>6. ASSUME ~(t[n + 1] = "value_separator" /\ Depth(t, n + 1) = Depth(t, a))
      PROVE  Commas(t, a, n + 1) = Commas(t, a, n)
  BY <1>6 DEF Commas
<1> QED
  BY <1>2, <1>3, <1>4, <1>5, <1>6

LEMMA LongerOpen ==
  ASSUME NEW s, NEW t, NEW n \in Nat, Agree(s, t, n),
         NEW k \in Nat, NEW a, IsOpen(s, n, k, a), Depth(t, n + 1) >= k
  PROVE  IsOpen(t, n + 1, k, a)
<1>1. \A i \in 0..n : Depth(s, i) = Depth(t, i)
  BY SameDepth
<1>2. a \in 1..(n + 1) /\ t[a] \in Opening /\ Depth(t, a) = k
  BY <1>1 DEF IsOpen, Agree
<1>3. ASSUME NEW j \in a..(n + 1) PROVE Depth(t, j) >= k
  <2>1. CASE j = n + 1
    BY <2>1
  <2>2. CASE j # n + 1
    <3>1. a \in 1..n
      BY DEF IsOpen
    <3>2. j \in a..n
      BY <2>2, <3>1
    <3>3. Depth(s, j) >= k
      BY <3>2 DEF IsOpen
    <3> QED
      BY <1>1, <3>1, <3>2, <3>3
  <2> QED
    BY <2>1, <2>2
<1> QED
  BY <1>2, <1>3 DEF IsOpen

LEMMA LongerCut ==
  ASSUME NEW s, NEW t, NEW n \in Nat, Agree(s, t, n),
         NEW a \in 1..n, NEW last, IsCut(s, n, a, last),
         ~(t[n + 1] = "value_separator" /\ Depth(t, n + 1) = Depth(s, a))
  PROVE  IsCut(t, n + 1, a, last)
<1>1. Cuts(t, a, n + 1) = Cuts(s, a, n)
  BY LongerCommas DEF Cuts
<1>2. Cuts(s, a, n) \subseteq a..n
  BY DEF Cuts, Commas
<1>3. \A c \in a..n, d \in 1..(n + 1) : IsPart(s, a, c, d) <=> IsPart(t, a, c, d)
  BY SamePart
<1>4. \A d \in 1..(n + 1) : Commas(t, a, d - 1) = Commas(s, a, d - 1)
  BY LongerCommas
<1>5. ASSUME NEW c \in Cuts(s, a, n), NEW d \in Cuts(s, a, n),
             c < d, Commas(t, a, d - 1) \subseteq 1..c
      PROVE  IsPart(t, a, c, d)
  <2>1. c \in a..n /\ d \in 1..(n + 1)
    BY <1>2
  <2>2. Commas(s, a, d - 1) \subseteq 1..c
    BY <1>4, <1>5, <2>1
  <2>3. IsPart(s, a, c, d)
    BY <1>5, <2>2 DEF IsCut
  <2> QED
    BY <1>3, <2>1, <2>3
<1> QED
  BY <1>1, <1>5 DEF IsCut

LEMMA LongerBegun ==
  ASSUME NEW s, NEW t, NEW n \in Nat, Agree(s, t, n),
         NEW a \in 1..n, NEW c \in a..n, NEW i \in 1..(n + 1)
  PROVE  Begun(s, a, c, i) => Begun(t, a, c, i)
  BY DEF Begun, Agree

Kept(t, n, depth, opens, cuts) ==
    /\ \A k \in 1..depth :
         /\ opens[k] \in 1..n /\ cuts[k] \in opens[k]..n
         /\ t[opens[k]] \in Opening /\ Depth(t, opens[k]) = k
         /\ Depth(t, n + 1) >= k => IsOpen(t, n + 1, k, opens[k])
         /\ ~(t[n + 1] = "value_separator" /\ Depth(t, n + 1) = k)
              => IsCut(t, n + 1, opens[k], cuts[k])
    /\ \A k \in 1..(depth - 1) : Begun(t, opens[k], cuts[k], opens[k + 1])
    /\ \A a \in 1..n : t[a] \in Opening =>
         (\E k \in 1..depth : opens[k] = a) \/ \E b \in 1..(n + 1) : IsContainer(t, a, b)
    /\ depth > 0 => opens[1] = 1

LEMMA LongerBrackets ==
  ASSUME NEW s, NEW t, NEW n \in Nat, Agree(s, t, n),
         NEW depth \in Nat, NEW opens, NEW cuts, Brackets(s, n, depth, opens, cuts)
  PROVE  /\ Kept(t, n, depth, opens, cuts)
         /\ Depth(s, n) = depth /\ Depth(t, n) = depth
<1>1. ASSUME NEW k \in 1..depth
      PROVE  /\ opens[k] \in 1..n /\ cuts[k] \in opens[k]..n
             /\ s[opens[k]] \in Opening /\ Depth(s, opens[k]) = k
             /\ IsOpen(s, n, k, opens[k]) /\ IsCut(s, n, opens[k], cuts[k])
  <2>1. IsOpen(s, n, k, opens[k]) /\ IsCut(s, n, opens[k], cuts[k])
    BY DEF Brackets
  <2>2. opens[k] \in 1..n /\ s[opens[k]] \in Opening /\ Depth(s, opens[k]) = k
    BY <2>1 DEF IsOpen
  <2>3. cuts[k] \in Cuts(s, opens[k], n)
    BY <2>1 DEF IsCut
  <2>4. cuts[k] \in opens[k]..n
    BY <2>2, <2>3 DEF Cuts, Commas
  <2> QED
    BY <2>1, <2>2, <2>4
<1>2. ASSUME NEW k \in 1..depth
      PROVE  /\ t[opens[k]] \in Opening /\ Depth(t, opens[k]) = k
             /\ Depth(t, n + 1) >= k => IsOpen(t, n + 1, k, opens[k])
             /\ ~(t[n + 1] = "value_separator" /\ Depth(t, n + 1) = k)
                  => IsCut(t, n + 1, opens[k], cuts[k])
  <2>1. Depth(t, opens[k]) = k
    BY <1>1, SameDepth
  <2>2. Depth(t, n + 1) >= k => IsOpen(t, n + 1, k, opens[k])
    BY <1>1, LongerOpen
  <2>3. ~(t[n + 1] = "value_separator" /\ Depth(t, n + 1) = k)
           => IsCut(t, n + 1, opens[k], cuts[k])
    BY <1>1, LongerCut
  <2> QED
    BY <1>1, <2>1, <2>2, <2>3 DEF Agree
<1>3. ASSUME NEW k \in 1..(depth - 1) PROVE Begun(t, opens[k], cuts[k], opens[k + 1])
  <2>1. k \in 1..depth /\ k + 1 \in 1..depth
    OBVIOUS
  <2>2. opens[k + 1] \in 1..(n + 1) /\ opens[k] \in 1..n /\ cuts[k] \in opens[k]..n
    BY <1>1, <2>1
  <2>3. Begun(s, opens[k], cuts[k], opens[k + 1])
    BY DEF Brackets
  <2> QED
    BY <2>2, <2>3, LongerBegun
<1>4. ASSUME NEW a \in 1..n, t[a] \in Opening
      PROVE  (\E k \in 1..depth : opens[k] = a) \/ \E b \in 1..(n + 1) : IsContainer(t, a, b)
  <2>1. s[a] \in Opening
    BY <1>4 DEF Agree
  <2>2. CASE \E k \in 1..depth : opens[k] = a
    BY <2>2
  <2>3. CASE \E b \in 1..n : IsContainer(s, a, b)
    <3>1. PICK b \in 1..n : IsContainer(s, a, b)
      BY <2>3
    <3>2. IsContainer(t, a, b) /\ b \in 1..(n + 1)
      BY <3>1, SameContainer
    <3> QED
      BY <3>2
  <2> QED
    BY <2>1, <2>2, <2>3 DEF Brackets
<1>5. depth > 0 => opens[1] = 1
  BY DEF Brackets
<1>6. Depth(s, n) = depth /\ Depth(t, n) = depth
  <2>1. Depth(s, n) = depth
    BY DEF Brackets
  <2> QED
    BY <2>1, SameDepth
<1> QED
  BY <1>1, <1>2, <1>3, <1>4, <1>5, <1>6 DEF Kept

(* A token that is no bracket and no comma.                                *)
LEMMA BracketsStay ==
  ASSUME NEW s, NEW t, NEW n \in Nat, Agree(s, t, n),
         NEW depth \in Nat, NEW opens, NEW cuts, Brackets(s, n, depth, opens, cuts),
         t[n + 1] \notin Opening \union Closing \union {"value_separator"}
  PROVE  Brackets(t, n + 1, depth, opens, cuts)
<1>1. Kept(t, n, depth, opens, cuts) /\ Depth(t, n) = depth
  BY LongerBrackets
<1>2. Depth(t, n + 1) = depth
  BY <1>1, DepthSteps
<1>3. ASSUME NEW a \in 1..(n + 1), t[a] \in Opening PROVE a \in 1..n
  BY <1>3
<1> QED
  BY <1>1, <1>2, <1>3 DEF Brackets, Kept

With(f, i, j, g) == g \in [Nat -> Nat] /\ g[i] = j /\ \A k \in Nat \ {i} : g[k] = f[k]

LEMMA WithOne ==
  ASSUME NEW f \in [Nat -> Nat], NEW i \in Nat, NEW j \in Nat
  PROVE  \E g : With(f, i, j, g)
<1> WITNESS [f EXCEPT ![i] = j]
<1> QED
  BY DEF With

(* A comma, behind a part.                                                 *)
LEMMA BracketsComma ==
  ASSUME NEW s, NEW t, NEW n \in Nat, Agree(s, t, n),
         NEW depth \in Nat \ {0}, NEW opens \in [Nat -> Nat], NEW cuts \in [Nat -> Nat],
         Brackets(s, n, depth, opens, cuts),
         t[n + 1] = "value_separator", IsPart(s, opens[depth], cuts[depth], n + 1),
         NEW new, With(cuts, depth, n + 1, new)
  PROVE  Brackets(t, n + 1, depth, opens, new)
<1> DEFINE a == opens[depth]
<1>0. Kept(t, n, depth, opens, cuts) /\ Depth(t, n) = depth /\ Depth(s, n) = depth
  BY LongerBrackets
<1>1. Depth(t, n + 1) = depth
  <2>1. t[n + 1] \notin Opening \union Closing
    BY DEF Opening, Closing
  <2> QED
    BY <1>0, <2>1, DepthSteps
<1>2. ASSUME NEW b \in 1..(n + 1), t[b] \in Opening PROVE b \in 1..n
  BY <1>2 DEF Opening
<1>3. new[depth] = n + 1 /\ \A k \in 1..depth : k # depth => new[k] = cuts[k]
  BY DEF With
<1>4. /\ a \in 1..n /\ cuts[depth] \in a..n
      /\ Depth(s, a) = depth /\ IsCut(s, n, a, cuts[depth])
  <2>1. depth \in 1..depth
    OBVIOUS
  <2>2. IsCut(s, n, a, cuts[depth]) /\ IsOpen(s, n, depth, a)
    BY <2>1 DEF Brackets
  <2> QED
    BY <1>0, <2>1, <2>2 DEF IsOpen, Kept
<1>9. ASSUME NEW b \in 1..n, Depth(s, b) = depth
      PROVE  /\ Commas(t, b, n + 1) = Commas(s, b, n) \union {n + 1}
             /\ \A d \in 1..(n + 1) : Commas(t, b, d - 1) = Commas(s, b, d - 1)
  BY <1>1, <1>9, LongerCommas
<1>5. IsCut(t, n + 1, a, n + 1)
  <2> HIDE DEF a
  <2>1. Cuts(t, a, n + 1) = Cuts(s, a, n) \union {n + 1}
    <3>2. Commas(t, a, n + 1) = Commas(s, a, n) \union {n + 1}
      BY <1>4, <1>9
    <3> QED
      BY <3>2 DEF Cuts
  <2>2. /\ Cuts(s, a, n) \subseteq a..n
        /\ \A d \in 1..(n + 1) : Commas(t, a, d - 1) = Commas(s, a, d - 1)
    <3>1. \A d \in 1..(n + 1) : Commas(t, a, d - 1) = Commas(s, a, d - 1)
      BY <1>4, <1>9
    <3> QED
      BY <1>4, <3>1 DEF Cuts, Commas
  <2>3. ASSUME NEW c \in Cuts(t, a, n + 1), NEW d \in Cuts(t, a, n + 1),
               c < d, Commas(t, a, d - 1) \subseteq 1..c
        PROVE  IsPart(t, a, c, d)
    <3>1. c \in Cuts(s, a, n) /\ c \in a..n /\ d \in 1..(n + 1)
      BY <1>4, <2>1, <2>2, <2>3
    <3>2. Commas(t, a, d - 1) = Commas(s, a, d - 1)
      BY <2>2, <3>1
    <3>3. IsPart(s, a, c, d)
      <4>1. CASE d = n + 1
        <5>1. d - 1 = n /\ Commas(s, a, n) \subseteq 1..c
          BY <2>3, <3>2, <4>1
        <5>2. c <= cuts[depth] /\ cuts[depth] \in {a} \union Commas(s, a, n)
          BY <1>4, <3>1 DEF IsCut, Cuts
        <5>3. c = cuts[depth]
          BY <1>4, <3>1, <5>1, <5>2
        <5> QED
          BY <4>1, <5>3 DEF a
      <4>2. CASE d # n + 1
        <5>1. d \in Cuts(s, a, n)
          BY <2>1, <4>2
        <5> QED
          BY <1>4, <2>3, <3>1, <3>2, <5>1 DEF IsCut
      <4> QED
        BY <4>1, <4>2
    <3> QED
      BY <1>4, <3>1, <3>3, SamePart
  <2>4. n + 1 \in Cuts(t, a, n + 1) /\ \A d \in Cuts(t, a, n + 1) : d <= n + 1
    BY <1>4, <2>1, <2>2
  <2> QED
    BY <2>3, <2>4 DEF IsCut
<1>6. ASSUME NEW k \in 1..depth
      PROVE  IsOpen(t, n + 1, k, opens[k]) /\ IsCut(t, n + 1, opens[k], new[k])
  <2>1. IsOpen(t, n + 1, k, opens[k])
    BY <1>0, <1>1 DEF Kept
  <2>2. CASE k = depth
    BY <1>3, <1>5, <2>1, <2>2
  <2>3. CASE k # depth
    BY <1>0, <1>1, <1>3, <2>1, <2>3 DEF Kept
  <2> QED
    BY <2>1, <2>2, <2>3
<1>7. \A k \in 1..(depth - 1) : Begun(t, opens[k], new[k], opens[k + 1])
  BY <1>0, <1>3 DEF Kept
<1> QED
  BY <1>0, <1>1, <1>2, <1>6, <1>7 DEF Brackets, Kept

(* A bracket that opens, where a value begins.                             *)
LEMMA BracketsOpen ==
  ASSUME NEW s, NEW t, NEW n \in Nat, Agree(s, t, n),
         NEW depth \in Nat, NEW opens \in [Nat -> Nat], NEW cuts \in [Nat -> Nat],
         Brackets(s, n, depth, opens, cuts), t[n + 1] \in Opening,
         IF depth = 0 THEN n = 0 ELSE Begun(t, opens[depth], cuts[depth], n + 1),
         NEW newOpens, With(opens, depth + 1, n + 1, newOpens),
         NEW newCuts, With(cuts, depth + 1, n + 1, newCuts)
  PROVE  Brackets(t, n + 1, depth + 1, newOpens, newCuts)
<1>1. Kept(t, n, depth, opens, cuts) /\ Depth(t, n) = depth
  BY LongerBrackets
<1>2. Depth(t, n + 1) = depth + 1
  BY <1>1, DepthSteps
<1>3. /\ newOpens[depth + 1] = n + 1 /\ newCuts[depth + 1] = n + 1
      /\ \A k \in 1..depth : newOpens[k] = opens[k] /\ newCuts[k] = cuts[k]
  BY DEF With
<1>4. IsOpen(t, n + 1, depth + 1, n + 1)
  BY <1>2 DEF IsOpen
<1>5. IsCut(t, n + 1, n + 1, n + 1)
  <2>1. Cuts(t, n + 1, n + 1) = {n + 1}
    BY DEF Cuts, Commas
  <2> QED
    BY <2>1 DEF IsCut
<1>6. ASSUME NEW k \in 1..(depth + 1)
      PROVE  IsOpen(t, n + 1, k, newOpens[k]) /\ IsCut(t, n + 1, newOpens[k], newCuts[k])
  <2>1. CASE k = depth + 1
    BY <1>3, <1>4, <1>5, <2>1
  <2>2. CASE k # depth + 1
    <3>1. k \in 1..depth /\ Depth(t, n + 1) # k /\ Depth(t, n + 1) >= k
      BY <1>2, <2>2
    <3>2. IsOpen(t, n + 1, k, opens[k]) /\ IsCut(t, n + 1, opens[k], cuts[k])
      BY <1>1, <3>1 DEF Kept
    <3> QED
      BY <1>3, <3>1, <3>2
  <2> QED
    BY <2>1, <2>2
<1>7. ASSUME NEW k \in 1..depth PROVE Begun(t, newOpens[k], newCuts[k], newOpens[k + 1])
  <2>1. CASE k = depth
    BY <1>3, <2>1
  <2>2. CASE k # depth
    <3>1. k \in 1..(depth - 1) /\ k + 1 \in 1..depth
      BY <2>2
    <3>2. Begun(t, opens[k], cuts[k], opens[k + 1])
      BY <1>1, <3>1 DEF Kept
    <3> QED
      BY <1>3, <3>1, <3>2
  <2> QED
    BY <2>1, <2>2
<1>8. ASSUME NEW a \in 1..(n + 1), t[a] \in Opening
      PROVE  (\E k \in 1..(depth + 1) : newOpens[k] = a) \/ \E b \in 1..(n + 1) : IsContainer(t, a, b)
  <2>1. CASE a = n + 1
    BY <1>3, <2>1
  <2>2. CASE a # n + 1
    <3>1. (\E k \in 1..depth : opens[k] = a) \/ \E b \in 1..(n + 1) : IsContainer(t, a, b)
      BY <1>1, <1>8, <2>2 DEF Kept
    <3> QED
      BY <1>3, <3>1
  <2> QED
    BY <2>1, <2>2
<1>9. newOpens[1] = 1
  BY <1>1, <1>3 DEF Kept
<1>10. \A k \in 1..(depth + 1 - 1) : Begun(t, newOpens[k], newCuts[k], newOpens[k + 1])
  BY <1>7
<1> QED
  BY <1>2, <1>6, <1>8, <1>9, <1>10 DEF Brackets

(* The bracket that closes the innermost one, which becomes a container.   *)
LEMMA BracketsClose ==
  ASSUME NEW s, NEW t, NEW n \in Nat, Agree(s, t, n),
         NEW depth \in Nat \ {0}, NEW opens \in [Nat -> Nat], NEW cuts \in [Nat -> Nat],
         Brackets(s, n, depth, opens, cuts),
         \/ s[opens[depth]] = "begin_object" /\ t[n + 1] = "end_object"
         \/ s[opens[depth]] = "begin_array" /\ t[n + 1] = "end_array",
         opens[depth] = n \/ IsPart(s, opens[depth], cuts[depth], n + 1)
  PROVE  /\ Brackets(t, n + 1, depth - 1, opens, cuts)
         /\ IsValue(t, opens[depth], n + 1)
<1>1. Kept(t, n, depth, opens, cuts) /\ Depth(t, n) = depth /\ Depth(s, n) = depth
  BY LongerBrackets
<1>2. Depth(t, n + 1) = depth - 1
  BY <1>1, DepthSteps DEF Closing
<1>3. PICK a : a = opens[depth]
  OBVIOUS
<1>4. /\ a \in 1..n /\ cuts[depth] \in a..n /\ IsCut(s, n, a, cuts[depth])
      /\ Depth(s, a) = depth /\ Depth(t, a) = depth
      /\ \A j \in a..n : Depth(t, j) >= depth
  <2>1. depth \in 1..depth
    OBVIOUS
  <2>2. IsCut(s, n, a, cuts[depth]) /\ IsOpen(s, n, depth, a)
    BY <1>3, <2>1 DEF Brackets
  <2>3. a \in 1..n /\ cuts[depth] \in a..n /\ Depth(t, a) = depth
    BY <1>1, <1>3, <2>1 DEF Kept
  <2>4. \A j \in 0..n : Depth(s, j) = Depth(t, j)
    BY SameDepth
  <2> QED
    BY <2>2, <2>3, <2>4 DEF IsOpen
<1>5. Closes(t, a, n + 1)
  <2>1. t[a] = s[a]
    BY <1>4 DEF Agree
  <2>2. \A j \in a..(n + 1 - 1) : Depth(t, j) >= Depth(t, a)
    BY <1>4
  <2> QED
    BY <1>2, <1>3, <1>4, <2>1, <2>2 DEF Closes
<1>6. IsContainer(t, a, n + 1)
  <2>1. CASE a = n
    BY <1>5, <2>1 DEF IsContainer
  <2>2. ASSUME a # n,
               NEW c \in {a, n + 1} \union Commas(t, a, n),
               NEW d \in {a, n + 1} \union Commas(t, a, n),
               c < d, Commas(t, a, d - 1) \subseteq 1..c
        PROVE  IsPart(t, a, c, d)
    <3>1. \A e \in 1..(n + 1) : Commas(t, a, e - 1) = Commas(s, a, e - 1)
      BY <1>4, LongerCommas
    <3>2. Commas(t, a, n) = Commas(s, a, n)
      BY <1>4, SameCloses
    <3>3. Cuts(s, a, n) \subseteq a..n
      BY <1>4 DEF Cuts, Commas
    <3>4. c \in Cuts(s, a, n) /\ c \in a..n /\ d \in 1..(n + 1)
          /\ (d = n + 1 \/ d \in Cuts(s, a, n))
      BY <1>4, <2>2, <3>2, <3>3 DEF Cuts
    <3>5. IsPart(s, a, c, d)
      <4>1. CASE d = n + 1
        <5>1. d - 1 = n /\ Commas(s, a, n) \subseteq 1..c
          BY <2>2, <3>2, <4>1
        <5>2. c <= cuts[depth] /\ cuts[depth] \in {a} \union Commas(s, a, n)
          BY <1>4, <3>4 DEF IsCut, Cuts
        <5>3. c = cuts[depth]
          BY <1>4, <3>4, <5>1, <5>2
        <5> QED
          BY <1>3, <2>2, <4>1, <5>3
      <4>2. CASE d # n + 1
        <5>1. d \in Cuts(s, a, n) /\ Commas(s, a, d - 1) \subseteq 1..c
          BY <2>2, <3>1, <3>4, <4>2
        <5> QED
          BY <1>4, <2>2, <3>4, <5>1 DEF IsCut
      <4> QED
        BY <4>1, <4>2
    <3> QED
      BY <1>4, <3>4, <3>5, SamePart
  <2>3. ASSUME a # n PROVE IsContainer(t, a, n + 1)
    <3>1. PICK b : b = n + 1 /\ b - 1 = n
      OBVIOUS
    <3>2. \A c, d \in {a, b} \union Commas(t, a, b - 1) :
             c < d /\ Commas(t, a, d - 1) \subseteq 1..c => IsPart(t, a, c, d)
      BY <2>2, <2>3, <3>1
    <3>3. IsContainer(t, a, b)
      BY <1>5, <3>1, <3>2, Zenon DEF IsContainer
    <3> QED
      BY <3>1, <3>3
  <2> QED
    BY <2>1, <2>3
<1>7. ASSUME NEW k \in 1..(depth - 1)
      PROVE  IsOpen(t, n + 1, k, opens[k]) /\ IsCut(t, n + 1, opens[k], cuts[k])
  <2>1. k \in 1..depth /\ Depth(t, n + 1) >= k /\ t[n + 1] # "value_separator"
    BY <1>2
  <2> QED
    BY <1>1, <2>1 DEF Kept
<1>8. \A k \in 1..(depth - 1 - 1) : Begun(t, opens[k], cuts[k], opens[k + 1])
  BY <1>1 DEF Kept
<1>9. ASSUME NEW b \in 1..(n + 1), t[b] \in Opening
      PROVE  (\E k \in 1..(depth - 1) : opens[k] = b) \/ \E e \in 1..(n + 1) : IsContainer(t, b, e)
  <2>1. b \in 1..n
    BY <1>9 DEF Opening
  <2>2. CASE b = a
    BY <1>6, <2>2
  <2>3. CASE b # a
    <3>1. (\E k \in 1..depth : opens[k] = b) \/ \E e \in 1..(n + 1) : IsContainer(t, b, e)
      BY <1>1, <1>9, <2>1 DEF Kept
    <3>2. ASSUME NEW k \in 1..depth, opens[k] = b PROVE k \in 1..(depth - 1)
      BY <1>3, <2>3, <3>2
    <3> QED
      BY <3>1, <3>2
  <2> QED
    BY <2>2, <2>3
<1>10. depth - 1 > 0 => opens[1] = 1
  BY <1>1 DEF Kept
<1> QED
  BY <1>2, <1>3, <1>5, <1>7, <1>8, <1>9, <1>10 DEF Brackets, IsValue

-----------------------------------------------------------------------------

(* Each bracket around a token has a depth of its own, and each depth has  *)
(* its bracket.                                                            *)
LEMMA OneAround ==
  ASSUME NEW s, NEW i \in Nat, NEW o \in Around(s, i), NEW p \in Around(s, i),
         Depth(s, o) = Depth(s, p)
  PROVE  o = p
<1>1. ASSUME NEW x \in Around(s, i), NEW y \in Around(s, i), Depth(s, x) = Depth(s, y), x < y
      PROVE  FALSE
  <2>1. /\ x \in 1..(i - 1) /\ y \in 1..(i - 1) /\ s[y] \in Opening
        /\ \A j \in x..(i - 1) : Depth(s, j) >= Depth(s, x)
    BY DEF Around
  <2>2. y - 1 \in Nat /\ y - 1 \in x..(i - 1) /\ y - 1 + 1 = y
    BY <1>1, <2>1
  <2>3. Depth(s, y) = Depth(s, y - 1) + 1 /\ Depth(s, y - 1) \in Int
    BY <2>1, <2>2, DepthSteps
  <2>4. Depth(s, y - 1) >= Depth(s, x)
    BY <2>1, <2>2
  <2> QED
    BY <1>1, <2>3, <2>4
<1>2. o \in Int /\ p \in Int
  BY DEF Around
<1> QED
  BY <1>1, <1>2

LEMMA EachDepth ==
  ASSUME NEW s, NEW n \in Nat
  PROVE  \A k \in 1..Depth(s, n) : \E o \in Around(s, n + 1) : Depth(s, o) = k
<1> DEFINE All(i) == \A k \in 1..Depth(s, i) : \E o \in Around(s, i + 1) : Depth(s, o) = k
           S == {i \in Nat : All(i)}
<1>1. All(0)
  BY DepthSteps
<1>2. ASSUME NEW i \in Nat, All(i) PROVE All(i + 1)
  <2> SUFFICES ASSUME NEW k \in 1..Depth(s, i + 1)
               PROVE  \E o \in Around(s, i + 1 + 1) : Depth(s, o) = k
    OBVIOUS
  <2>1. Depth(s, i) \in Int /\ Depth(s, i + 1) \in Int
    BY DepthSteps
  <2>2. CASE k <= Depth(s, i)
    <3>1. PICK o \in Around(s, i + 1) : Depth(s, o) = k
      BY <1>2, <2>1, <2>2
    <3>2. o \in 1..i /\ s[o] \in Opening /\ \A j \in o..i : Depth(s, j) >= Depth(s, o)
      BY <3>1 DEF Around
    <3>3. \A j \in o..(i + 1) : j \in o..i \/ j = i + 1
      BY <3>2
    <3>4. \A j \in o..(i + 1) : Depth(s, j) >= Depth(s, o)
      BY <2>1, <3>1, <3>2, <3>3
    <3>5. o \in Around(s, i + 1 + 1)
      BY <3>2, <3>4 DEF Around
    <3> QED
      BY <3>1, <3>5
  <2>3. CASE k > Depth(s, i)
    <3>1. s[i + 1] \in Opening /\ Depth(s, i + 1) = k
      BY <2>1, <2>3, DepthSteps
    <3>2. i + 1 \in Around(s, i + 1 + 1)
      BY <2>1, <3>1 DEF Around
    <3> QED
      BY <3>1, <3>2
  <2> QED
    BY <2>1, <2>2, <2>3
<1> HIDE DEF All
<1>3. \A i \in Nat : i \in S
  <2> HIDE DEF S
  <2>1. 0 \in S
    BY <1>1 DEF S
  <2>2. \A i \in Nat : i \in S => i + 1 \in S
    BY <1>2 DEF S
  <2> QED
    BY <2>1, <2>2, Induction
<1>4. All(n)
  BY <1>3
<1> QED
  BY <1>4 DEF All

LEMMA Largest ==
  ASSUME NEW a \in Nat, NEW n \in Nat, NEW C, C \subseteq a..n, C # {}
  PROVE  Max(C) \in C /\ \A c \in C : c <= Max(C)
<1> DEFINE T == {n - c : c \in C}
<1>1. T \subseteq Nat /\ T # {}
  <2>1. \A c \in C : c \in a..n /\ n - c \in Nat
    OBVIOUS
  <2> QED
    BY <2>1
<1>2. PICK x \in T : \A y \in T : x <= y
  <2> HIDE DEF T
  <2> QED
    BY <1>1, LeastNumber
<1>3. PICK c \in C : x = n - c
  BY <1>2
<1>4. \A e \in C : c >= e
  BY <1>2, <1>3
<1>5. \E e \in C : \A y \in C : e >= y
  BY <1>4
<1>6. Max(C) \in C /\ \A y \in C : Max(C) >= y
  BY <1>5 DEF Max
<1> QED
  BY <1>6

(* The path of a token does not depend on what follows it.                 *)
LEMMA SamePath ==
  ASSUME NEW s, NEW t, NEW n \in Nat, Agree(s, t, n), NEW i \in 1..n
  PROVE  Path(s, i) = Path(t, i)
<1>1. \A j \in 0..n : Depth(s, j) = Depth(t, j)
  BY SameDepth
<1>2. Around(s, i) = Around(t, i)
  BY <1>1 DEF Around, Agree
<1>3. \A o \in Around(s, i) : o \in 1..(i - 1) /\ Depth(s, o) = Depth(t, o)
  BY <1>1 DEF Around
<1> DEFINE chosen(u, k) == CHOOSE o \in Around(u, i) : Depth(u, o) = k
<1>4. ASSUME NEW k \in 1..Depth(s, i - 1)
      PROVE  chosen(s, k) = chosen(t, k) /\ chosen(s, k) \in Around(s, i)
  <2>1. \A o : o \in Around(s, i) /\ Depth(s, o) = k <=> o \in Around(t, i) /\ Depth(t, o) = k
    BY <1>2, <1>3
  <2>2. i - 1 \in Nat /\ i - 1 + 1 = i
    OBVIOUS
  <2>3. \E o \in Around(s, i) : Depth(s, o) = k
    BY <2>2, EachDepth
  <2> QED
    BY <2>1, <2>3
<1>5. ASSUME NEW o \in Around(s, i) PROVE KeyIn(s, o, i) = KeyIn(t, o, i)
  <2>1. o \in 1..(i - 1) /\ o \in 1..n /\ i - 1 \in 0..n
    BY <1>3
  <2>2. Commas(s, o, i - 1) = Commas(t, o, i - 1) /\ s[o] = t[o]
    BY <2>1, SameCloses DEF Agree
  <2>3. PICK C : C = {o} \union Commas(s, o, i - 1)
    OBVIOUS
  <2>4. C \subseteq o..(i - 1) /\ C # {}
    BY <2>1, <2>3 DEF Commas
  <2>5. Max(C) \in C
    <3>1. PICK e : e = i - 1
      OBVIOUS
    <3>2. o \in Nat /\ e \in Nat /\ C \subseteq o..e
      BY <2>1, <2>4, <3>1
    <3> QED
      BY <2>4, <3>2, Largest
  <2>6. s[Max(C) + 1] = t[Max(C) + 1]
    <3>1. PICK m : m = Max(C)
      OBVIOUS
    <3>2. m + 1 \in 1..n
      <4>1. m \in C /\ \A e \in C : e \in o..(i - 1)
        BY <2>4, <2>5, <3>1
      <4>2. m \in o..(i - 1)
        BY <4>1
      <4> QED
        BY <2>1, <4>2
    <3>3. s[m + 1] = t[m + 1]
      BY <3>2 DEF Agree
    <3> QED
      BY <3>1, <3>3
  <2>7. /\ KeyIn(s, o, i) = IF s[o] = "begin_array" THEN Element(Cardinality(C))
                                                   ELSE Property(s[Max(C) + 1])
        /\ KeyIn(t, o, i) = IF t[o] = "begin_array" THEN Element(Cardinality(C))
                                                   ELSE Property(t[Max(C) + 1])
    BY <2>2, <2>3, Zenon DEF KeyIn
  <2> QED
    BY <2>2, <2>6, <2>7
<1>6. Depth(s, i - 1) = Depth(t, i - 1)
  BY <1>1
<1>7. /\ Path(s, i) = [k \in 1..Depth(s, i - 1) |-> KeyIn(s, chosen(s, k), i)]
      /\ Path(t, i) = [k \in 1..Depth(t, i - 1) |-> KeyIn(t, chosen(t, k), i)]
  BY DEF Path
<1> HIDE DEF chosen
<1> QED
  BY <1>4, <1>5, <1>6, <1>7

(* What is next in the bracket that was opened at a and cut last at c.     *)
KeyAt(s, n, a, c) == IF s[a] = "begin_array" THEN Element(Cardinality(Cuts(s, a, n)))
                                             ELSE Property(s[c + 1])

(* The path of the next token goes through the open brackets.              *)
LEMMA PathByKeys ==
  ASSUME NEW s, NEW t, NEW n \in Nat, Agree(s, t, n),
         NEW depth \in Nat, NEW opens, NEW cuts, Brackets(s, n, depth, opens, cuts)
  PROVE  Path(t, n + 1) = [k \in 1..depth |-> KeyAt(t, n, opens[k], cuts[k])]
<1>1. PICK i : i = n + 1 /\ i - 1 = n /\ i \in Nat
  OBVIOUS
<1>2. Depth(t, n) = depth /\ Kept(t, n, depth, opens, cuts)
  BY LongerBrackets
<1>3. \A j \in 0..n : Depth(s, j) = Depth(t, j)
  BY SameDepth
<1>4. ASSUME NEW k \in 1..depth
      PROVE  /\ opens[k] \in Around(t, i) /\ Depth(t, opens[k]) = k
             /\ KeyIn(t, opens[k], i) = KeyAt(t, n, opens[k], cuts[k])
  <2>1. PICK a : a = opens[k]
    OBVIOUS
  <2>2. IsOpen(s, n, k, a) /\ IsCut(s, n, a, cuts[k])
    BY <2>1 DEF Brackets
  <2>3. a \in 1..n /\ t[a] \in Opening /\ Depth(t, a) = k
    BY <1>2, <2>1 DEF Kept
  <2>4. \A j \in a..n : Depth(t, j) >= k
    BY <1>3, <2>2, <2>3 DEF IsOpen
  <2>5. a \in Around(t, i)
    BY <1>1, <2>3, <2>4 DEF Around
  <2>6. PICK C : C = {a} \union Commas(t, a, n)
    OBVIOUS
  <2>7. C = Cuts(s, a, n) /\ C = Cuts(t, a, n)
    BY <2>3, <2>6, SameCloses DEF Cuts
  <2>8. Max(C) = cuts[k]
    <3>1. C \subseteq a..n /\ C # {}
      BY <2>3, <2>6 DEF Commas
    <3>2. Max(C) \in C /\ \A c \in C : c <= Max(C)
      <4>1. a \in Nat
        BY <2>3
      <4> QED
        BY <3>1, <4>1, Largest
    <3>3. cuts[k] \in C /\ \A c \in C : c <= cuts[k]
      BY <2>2, <2>7 DEF IsCut
    <3>4. PICK m : m = Max(C)
      OBVIOUS
    <3>5. m \in a..n /\ cuts[k] \in a..n
      BY <3>1, <3>2, <3>3, <3>4
    <3>6. m <= cuts[k] /\ cuts[k] <= m
      BY <3>2, <3>3, <3>4
    <3> QED
      BY <2>3, <3>4, <3>5, <3>6
  <2>9. KeyIn(t, a, i) = IF t[a] = "begin_array" THEN Element(Cardinality(C))
                                                 ELSE Property(t[Max(C) + 1])
    <3>1. C = {a} \union Commas(t, a, i - 1)
      BY <1>1, <2>6
    <3> QED
      BY <3>1, Zenon DEF KeyIn
  <2> QED
    BY <2>1, <2>3, <2>5, <2>7, <2>8, <2>9 DEF KeyAt
<1> DEFINE chosen(k) == CHOOSE o \in Around(t, i) : Depth(t, o) = k
<1>5. ASSUME NEW k \in 1..depth PROVE chosen(k) = opens[k]
  <2>1. \E o \in Around(t, i) : Depth(t, o) = k
    BY <1>4
  <2>2. chosen(k) \in Around(t, i) /\ Depth(t, chosen(k)) = k
    BY <2>1
  <2> HIDE DEF chosen
  <2> QED
    BY <1>1, <1>4, <2>2, OneAround
<1>6. Path(t, i) = [k \in 1..Depth(t, i - 1) |-> KeyIn(t, chosen(k), i)]
  BY DEF Path
<1> HIDE DEF chosen
<1>7. Path(t, i) = [k \in 1..depth |-> KeyAt(t, n, opens[k], cuts[k])]
  BY <1>1, <1>2, <1>4, <1>5, <1>6
<1> QED
  BY <1>1, <1>7

(* The keys on the way to the innermost bracket stay, and so does that of  *)
(* a bracket that is not cut.                                              *)
LEMMA KeysBefore ==
  ASSUME NEW s, NEW t, NEW n \in Nat, Agree(s, t, n),
         NEW depth \in Nat, NEW opens, NEW cuts, Brackets(s, n, depth, opens, cuts),
         NEW k \in 1..(depth - 1)
  PROVE  KeyAt(t, n, opens[k], cuts[k]) = KeyAt(s, n, opens[k], cuts[k])
<1>1. Kept(t, n, depth, opens, cuts)
  BY LongerBrackets
<1>2. PICK a : a = opens[k]
  OBVIOUS
<1>3. a \in 1..n /\ t[a] = s[a] /\ t[a] \in Opening /\ cuts[k] \in a..n
  <2>1. k \in 1..depth
    OBVIOUS
  <2> QED
    BY <1>1, <1>2, <2>1 DEF Kept, Agree
<1>4. Cuts(t, a, n) = Cuts(s, a, n)
  BY <1>3, SameCloses DEF Cuts
<1>5. k \in 1..depth /\ k + 1 \in 1..depth
  OBVIOUS
<1>6. Begun(t, a, cuts[k], opens[k + 1]) /\ opens[k + 1] \in 1..n
  BY <1>1, <1>2, <1>5 DEF Kept
<1>7. t[a] # "begin_array" => cuts[k] + 1 \in 1..n
  BY <1>3, <1>6 DEF Begun
<1>8. t[a] # "begin_array" => t[cuts[k] + 1] = s[cuts[k] + 1]
  BY <1>7 DEF Agree
<1> QED
  BY <1>2, <1>3, <1>4, <1>8 DEF KeyAt

LEMMA KeysStay ==
  ASSUME NEW s, NEW t, NEW n \in Nat, Agree(s, t, n), NEW k \in Nat, NEW a \in 1..n, NEW c,
         Depth(s, a) = k, ~(t[n + 1] = "value_separator" /\ Depth(t, n + 1) = k)
  PROVE  /\ Cuts(t, a, n + 1) = Cuts(s, a, n)
         /\ KeyAt(t, n + 1, a, c) = KeyAt(t, n, a, c)
<1>1. Commas(t, a, n + 1) = Commas(s, a, n)
  BY LongerCommas
<1>2. Cuts(t, a, n + 1) = Cuts(s, a, n)
  BY <1>1 DEF Cuts
<1>3. Cuts(t, a, n) = Cuts(s, a, n)
  BY SameCloses DEF Cuts
<1> QED
  BY <1>2, <1>3 DEF KeyAt

-----------------------------------------------------------------------------

(* The values of a text that no later one replaces.                        *)
KeptOf(s, V) == {i \in V : \A j \in V : j > i => ~IsPrefix(Path(s, j), Path(s, i))}

LEMMA ValueByPath ==
  ASSUME NEW s, NEW V \in SUBSET Nat, \A i \in V : Path(s, i) \in Paths
  PROVE  /\ DOMAIN ValueAt(s, V) = {Path(s, i) : i \in KeptOf(s, V)}
         /\ \A i \in KeptOf(s, V) : ValueAt(s, V)[Path(s, i)] = Kind(s[i])
         /\ ValueAt(s, V) = [p \in DOMAIN ValueAt(s, V) |-> ValueAt(s, V)[p]]
<1> DEFINE first(p) == CHOOSE i \in KeptOf(s, V) : Path(s, i) = p
<1>1. ValueAt(s, V) = [p \in {Path(s, i) : i \in KeptOf(s, V)} |-> Kind(s[first(p)])]
  BY DEF ValueAt, KeptOf
<1>2. ASSUME NEW i \in KeptOf(s, V) PROVE first(Path(s, i)) = i
  <2>1. \E j \in KeptOf(s, V) : Path(s, j) = Path(s, i)
    OBVIOUS
  <2>2. first(Path(s, i)) \in KeptOf(s, V) /\ Path(s, first(Path(s, i))) = Path(s, i)
    BY <2>1
  <2> HIDE DEF first
  <2>3. PICK j \in KeptOf(s, V) : j = first(Path(s, i)) /\ Path(s, j) = Path(s, i)
    BY <2>2
  <2>4. i \in V /\ j \in V /\ i \in Nat /\ j \in Nat
    BY DEF KeptOf
  <2>5. IsPrefix(Path(s, i), Path(s, i))
    BY <2>4, PrefixOfItself
  <2>6. ~(j > i) /\ ~(i > j)
    BY <2>3, <2>4, <2>5 DEF KeptOf
  <2> QED
    BY <2>3, <2>4, <2>6
<1> HIDE DEF first
<1> QED
  BY <1>1, <1>2

LEMMA SameValue ==
  ASSUME NEW s, NEW t, NEW n \in Nat, Agree(s, t, n), NEW V \in SUBSET (1..n),
         \A i \in V : Path(s, i) \in Paths
  PROVE  ValueAt(s, V) = ValueAt(t, V)
<1>1. \A i \in V : Path(s, i) = Path(t, i) /\ Kind(s[i]) = Kind(t[i])
  BY SamePath DEF Agree
<1>2. KeptOf(s, V) = KeptOf(t, V) /\ KeptOf(s, V) \subseteq V
  BY <1>1 DEF KeptOf
<1>3. PICK v, w : v = ValueAt(s, V) /\ w = ValueAt(t, V)
  OBVIOUS
<1>4. V \in SUBSET Nat
  OBVIOUS
<1>5. /\ DOMAIN v = {Path(s, i) : i \in KeptOf(s, V)}
      /\ \A i \in KeptOf(s, V) : v[Path(s, i)] = Kind(s[i])
      /\ v = [p \in DOMAIN v |-> v[p]]
  BY <1>3, <1>4, ValueByPath
<1>6. /\ DOMAIN w = {Path(t, i) : i \in KeptOf(t, V)}
      /\ \A i \in KeptOf(t, V) : w[Path(t, i)] = Kind(t[i])
      /\ w = [p \in DOMAIN w |-> w[p]]
  BY <1>1, <1>3, <1>4, ValueByPath
<1>7. DOMAIN v = DOMAIN w
  BY <1>1, <1>2, <1>5, <1>6
<1>8. \A p \in DOMAIN v : v[p] = w[p]
  BY <1>1, <1>2, <1>5, <1>6
<1> QED
  BY <1>3, <1>5, <1>6, <1>7, <1>8

(* One more value is an assignment.                                        *)
LEMMA ValueGrows ==
  ASSUME NEW t, NEW n \in Nat, NEW V \in SUBSET (1..n),
         \A i \in V \union {n + 1} : Path(t, i) \in Paths
  PROVE  ValueAt(t, V \union {n + 1}) =
           Assign(ValueAt(t, V), Path(t, n + 1), Kind(t[n + 1]))
<1>1. PICK W, P, K : W = V \union {n + 1} /\ P = Path(t, n + 1) /\ K = Kind(t[n + 1])
  OBVIOUS
<1>2. V \in SUBSET Nat /\ W \in SUBSET Nat /\ P \in Paths /\ \A i \in W : Path(t, i) \in Paths
  BY <1>1
<1>3. PICK v, w, e : v = ValueAt(t, V) /\ w = ValueAt(t, W) /\ e = Assign(v, P, K)
  OBVIOUS
<1>4. /\ DOMAIN v = {Path(t, i) : i \in KeptOf(t, V)}
      /\ \A i \in KeptOf(t, V) : v[Path(t, i)] = Kind(t[i])
  <2>1. \A i \in V : Path(t, i) \in Paths
    OBVIOUS
  <2> QED
    BY <1>2, <1>3, <2>1, ValueByPath
<1>5. /\ DOMAIN w = {Path(t, i) : i \in KeptOf(t, W)}
      /\ \A i \in KeptOf(t, W) : w[Path(t, i)] = Kind(t[i])
      /\ w = [p \in DOMAIN w |-> w[p]]
  BY <1>2, <1>3, ValueByPath
<1>6. /\ n + 1 \in KeptOf(t, W)
      /\ \A i \in V : i \in KeptOf(t, W) <=> i \in KeptOf(t, V) /\ ~IsPrefix(P, Path(t, i))
      /\ KeptOf(t, W) \subseteq V \union {n + 1} /\ KeptOf(t, V) \subseteq V
  <2>1. \A i \in V : i \in Nat /\ n + 1 > i /\ ~(i > n + 1)
    OBVIOUS
  <2> QED
    BY <1>1, <2>1 DEF KeptOf
<1>7. IsPrefix(P, P)
  BY <1>2, PrefixOfItself
<1>8. /\ DOMAIN e = {q \in DOMAIN v : ~IsPrefix(P, q)} \union {P}
      /\ \A q \in DOMAIN e : e[q] = IF q = P THEN K ELSE v[q]
      /\ e = [q \in DOMAIN e |-> e[q]]
  <2>1. (DOMAIN v \ Below(v, P)) \union {P} = {q \in DOMAIN v : ~IsPrefix(P, q)} \union {P}
    BY DEF Below
  <2> QED
    BY <1>3, <2>1 DEF Assign
<1>9. DOMAIN w = DOMAIN e
  <2>1. ASSUME NEW i \in KeptOf(t, W) PROVE Path(t, i) \in DOMAIN e
    <3>1. CASE i = n + 1
      BY <1>1, <1>8, <3>1
    <3>2. CASE i # n + 1
      <4>1. i \in V /\ i \in KeptOf(t, V) /\ ~IsPrefix(P, Path(t, i))
        BY <1>6, <3>2
      <4> QED
        BY <1>4, <1>8, <4>1
    <3> QED
      BY <3>1, <3>2
  <2>2. ASSUME NEW q \in DOMAIN e PROVE q \in DOMAIN w
    <3>1. CASE q = P
      BY <1>1, <1>5, <1>6, <3>1
    <3>2. CASE q # P
      <4>1. q \in DOMAIN v /\ ~IsPrefix(P, q)
        BY <1>8, <3>2
      <4>2. PICK i \in KeptOf(t, V) : q = Path(t, i)
        BY <1>4, <4>1
      <4> QED
        BY <1>5, <1>6, <4>1, <4>2
    <3> QED
      BY <3>1, <3>2
  <2> QED
    BY <1>5, <2>1, <2>2
<1>10. ASSUME NEW q \in DOMAIN w PROVE w[q] = e[q]
  <2>1. PICK i \in KeptOf(t, W) : q = Path(t, i)
    BY <1>5
  <2>2. w[q] = Kind(t[i])
    BY <1>5, <2>1
  <2>3. CASE i = n + 1
    BY <1>1, <1>8, <1>9, <2>1, <2>2, <2>3
  <2>4. CASE i # n + 1
    <3>1. i \in V /\ i \in KeptOf(t, V) /\ ~IsPrefix(P, q)
      BY <1>6, <2>1, <2>4
    <3>2. v[q] = Kind(t[i]) /\ q # P
      BY <1>4, <1>7, <2>1, <3>1
    <3> QED
      BY <1>8, <1>9, <2>2, <3>2
  <2> QED
    BY <2>3, <2>4
<1>11. w = e
  BY <1>5, <1>8, <1>9, <1>10
<1> QED
  BY <1>1, <1>3, <1>11

-----------------------------------------------------------------------------

(* Counting what is in a bracket.                                          *)
LEMMA CutsAreFinite ==
  ASSUME NEW s, NEW n \in Nat, NEW a \in 1..n
  PROVE  /\ IsFiniteSet(Cuts(s, a, n)) /\ Cardinality(Cuts(s, a, n)) \in Nat \ {0}
         /\ Cardinality(Cuts(s, a, n) \union {n + 1}) = Cardinality(Cuts(s, a, n)) + 1
<1>1. PICK C : C = Cuts(s, a, n)
  OBVIOUS
<1>2. C \subseteq a..n /\ a \in C
  BY <1>1 DEF Cuts, Commas
<1>3. IsFiniteSet(a..n)
  BY FS_Interval
<1>4. IsFiniteSet(C)
  BY <1>2, <1>3, FS_Subset
<1>5. Cardinality(C) \in Nat /\ (Cardinality(C) = 0 <=> C = {})
  BY <1>4, FS_CardinalityType, FS_EmptySet
<1>6. n + 1 \notin C
  BY <1>2
<1>7. Cardinality(C \union {n + 1}) = Cardinality(C) + 1
  BY <1>4, <1>6, FS_AddElement
<1> QED
  BY <1>1, <1>2, <1>4, <1>5, <1>7

Elements(p, m) == {Append(p, Element(i)) : i \in 1..m}

LEMMA ElementsOf ==
  ASSUME NEW p \in Paths, NEW m \in Nat
  PROVE  /\ Cardinality(Elements(p, m)) = m
         /\ Elements(p, m + 1) = Elements(p, m) \union {Append(p, Element(m + 1))}
<1> DEFINE f == [i \in 1..m |-> Append(p, Element(i))]
<1>1. f \in Bijection(1..m, Elements(p, m))
  <2>1. f \in Surjection(1..m, Elements(p, m))
    BY DEF Surjection, Elements
  <2>2. ASSUME NEW i \in 1..m, NEW j \in 1..m, f[i] = f[j] PROVE i = j
    <3>1. p \in Seq(Keys) /\ Len(p) \in Nat
      BY DEF Paths
    <3>2. Append(p, Element(i))[Len(p) + 1] = Element(i) /\ Append(p, Element(j))[Len(p) + 1] = Element(j)
      BY <3>1
    <3>3. Element(i) = Element(j)
      BY <2>2, <3>2
    <3> QED
      BY <3>3 DEF Element
  <2>3. f \in Injection(1..m, Elements(p, m))
    BY <2>1, <2>2 DEF Injection, Surjection, IsInjective
  <2> QED
    BY <2>1, <2>3 DEF Bijection
<1> HIDE DEF f
<1>2. ExistsBijection(1..m, Elements(p, m))
  BY <1>1 DEF ExistsBijection
<1>3. Cardinality(Elements(p, m)) = m
  BY <1>2, FS_CountingElements
<1>4. Elements(p, m + 1) = Elements(p, m) \union {Append(p, Element(m + 1))}
  <2>1. 1..(m + 1) = 1..m \union {m + 1}
    OBVIOUS
  <2> QED
    BY <2>1, Zenon DEF Elements
<1> QED
  BY <1>3, <1>4

LEMMA PrefixOfLength ==
  ASSUME NEW p \in Paths, NEW q \in Paths, Len(p) = Len(q), IsPrefix(p, q)
  PROVE  p = q
<1>1. p \in Seq(Keys) /\ q \in Seq(Keys) /\ Len(p) \in Nat
  BY DEF Paths
<1>2. \A i \in 1..Len(p) : p[i] = q[i]
  BY PrefixByElements
<1> QED
  BY <1>1, <1>2, SeqEqual

(* What a store does to the children of the containers on the way to it.   *)
LEMMA ChildrenAssigned ==
  ASSUME NEW d, DOMAIN d \subseteq Paths, NEW q \in Paths, NEW kind, NEW e, e = Assign(d, q, kind)
  PROVE  /\ \A p \in Paths : Len(p) + 1 < Len(q) => Children(e, p) = Children(d, p)
         /\ \A p \in Paths : Len(p) + 1 = Len(q) /\ IsPrefix(p, q)
                               => Children(e, p) = Children(d, p) \union {q}
         /\ Children(e, q) = {}
<1>1. DOMAIN e = {r \in DOMAIN d : ~IsPrefix(q, r)} \union {q}
  BY DEF Assign, Below
<1>2. DOMAIN e \subseteq Paths /\ \A r \in Paths : Len(r) \in Nat
  BY <1>1 DEF Paths
<1>3. \A p : /\ Children(e, p) = {r \in DOMAIN e : IsPrefix(p, r) /\ Len(r) = Len(p) + 1}
             /\ Children(d, p) = {r \in DOMAIN d : IsPrefix(p, r) /\ Len(r) = Len(p) + 1}
  BY DEF Children, Below
<1>4. \A r \in Paths : Len(r) < Len(q) => ~IsPrefix(q, r)
  BY LongerIsNoPrefix
<1>5. \A r \in Paths : Len(r) = Len(q) /\ IsPrefix(q, r) => r = q
  BY PrefixOfLength
<1>6. ASSUME NEW p \in Paths, Len(p) + 1 < Len(q) PROVE Children(e, p) = Children(d, p)
  <2>1. ASSUME NEW r PROVE r \in Children(e, p) <=> r \in Children(d, p)
    BY <1>1, <1>2, <1>3, <1>4, <1>6
  <2> QED
    BY <2>1
<1>7. ASSUME NEW p \in Paths, Len(p) + 1 = Len(q), IsPrefix(p, q)
      PROVE  Children(e, p) = Children(d, p) \union {q}
  <2>1. q \in Children(e, p)
    BY <1>1, <1>3, <1>7
  <2>2. ASSUME NEW r, r # q PROVE r \in Children(e, p) <=> r \in Children(d, p)
    BY <1>1, <1>2, <1>3, <1>5, <1>7, <2>2
  <2> QED
    BY <2>1, <2>2
<1>8. Children(e, q) = {}
  BY <1>1, <1>2, <1>3
<1> QED
  BY <1>6, <1>7, <1>8

-----------------------------------------------------------------------------

(* Where the parser stands in a text that it has not refused: opens and    *)
(* cuts are the brackets of its calls.                                     *)
Bracket(kind) == IF kind = "obj" THEN "begin_object" ELSE "begin_array"

Stands(opens, cuts) ==
    LET n == Len(tokens)
        a == opens[Len(calls)]
        c == cuts[Len(calls)]
    IN  IF calls = <<>>
        THEN \/ at \in {"value", "done"} /\ n = 0
             \/ at \in {"end", "done"} /\ IsValue(tokens, 1, n)
        ELSE \/ at \in {"first_element", "first_property"} /\ a = n
             \/ /\ at = "value" /\ a < n /\ Begun(tokens, a, c, n + 1)
                /\ Last(calls) = "obj" => tokens[n - 1] = currentProperty
             \/ at = "property" /\ a < n /\ c = n
             \/ at = "colon" /\ c + 1 = n /\ tokens[n] = currentProperty
             \/ at = "more" /\ IsPart(tokens, a, c, n + 1)

Scans(opens, cuts) ==
    /\ opens \in [Nat -> Nat] /\ cuts \in [Nat -> Nat]
    /\ Brackets(tokens, Len(tokens), Len(calls), opens, cuts)
    /\ \A k \in 1..Len(calls) : tokens[opens[k]] = Bracket(calls[k])
    /\ Stands(opens, cuts)

(* The pointers are the paths of the brackets, and of an array that is     *)
(* being filled as many elements are there as have been read.              *)
Points(opens, cuts) ==
    \A k \in 1..Len(calls) :
        objectStack[k + 1] =
          [m \in 1..(k - 1) |-> KeyAt(tokens, Len(tokens), opens[m], cuts[m])]

Read(k, opens) == Cardinality(Cuts(tokens, opens[k], Len(tokens)))
                  - (IF k = Len(calls) /\ at \in {"first_element", "value"} THEN 1 ELSE 0)

Counts(opens) ==
    \A k \in 1..Len(calls) : calls[k] = "arr" =>
        Children(doc, objectStack[k + 1]) = Elements(objectStack[k + 1], Read(k, opens))

(* The values that have been stored, and what they amount to.              *)
Stored == {i \in 1..Len(tokens) :
             /\ tokens[i] \in Opening \union Leaves
             /\ IF i < Len(tokens) THEN tokens[i + 1] # "name_separator" ELSE at # "colon"}

Fills == /\ \A i \in Stored : Path(tokens, i) \in Paths
         /\ doc = IF tokens = <<>> THEN NullValue ELSE ValueAt(tokens, Stored)

Reads(opens, cuts) == Scans(opens, cuts) /\ Points(opens, cuts) /\ Counts(opens)

ParseInv ==
    /\ at # "error" /\ hops = 0 => Fills /\ \E opens, cuts : Reads(opens, cuts)
    /\ at = "error" => ~IsJson(tokens)

(* One more token.                                                         *)
LEMMA OneMore ==
  ASSUME JsonInv, NEW t \in Tokens, tokens' = Append(tokens, t)
  PROVE  /\ Len(tokens) \in Nat /\ Len(tokens') = Len(tokens) + 1
         /\ Agree(tokens, tokens', Len(tokens)) /\ tokens'[Len(tokens) + 1] = t
         /\ Len(calls) \in Nat /\ (Len(calls) = 0 <=> calls = <<>>)
         /\ (calls # <<>> => Last(calls) = calls[Len(calls)])
         /\ \A k \in 1..Len(calls) : calls[k] \in {"obj", "arr"}
  BY DEF JsonInv, JsonTypeOK, Agree, Last

LEMMA TokenKinds ==
  /\ Leaves \intersect (Opening \union Closing \union {"value_separator", "name_separator"}) = {}
  /\ Opening \union Closing \union {"value_separator", "name_separator"} \subseteq Tokens
  /\ Literals \subseteq Leaves \intersect Tokens
  /\ \A t \in Tokens : t \in Literals \/ t \in Opening \/ t \in Closing
                       \/ t = "value_separator" \/ t = "name_separator"
  /\ Kind("begin_object") = "obj" /\ Kind("begin_array") = "arr"
  /\ \A t \in Leaves : Kind(t) = t
  BY JsonConstants DEF Marks, Tokens, Opening, Closing, Kind

LEMMA InnermostBracket ==
  ASSUME JsonInv, NEW opens, NEW cuts, Scans(opens, cuts), calls # <<>>
  PROVE  LET a == opens[Len(calls)]
             c == cuts[Len(calls)]
         IN  /\ Len(calls) \in Nat \ {0}
             /\ a \in 1..Len(tokens) /\ c \in a..Len(tokens)
             /\ tokens[a] = Bracket(Last(calls)) /\ Depth(tokens, Len(tokens)) = Len(calls)
             /\ Depth(tokens, a) = Len(calls)
             /\ Last(calls) \in {"obj", "arr"} /\ Last(calls) = calls[Len(calls)]
<1>1. PICK K, n, a, c : K = Len(calls) /\ n = Len(tokens) /\ a = opens[K] /\ c = cuts[K]
  OBVIOUS
<1>2. K \in Nat \ {0} /\ n \in Nat /\ Last(calls) \in {"obj", "arr"} /\ Last(calls) = calls[K]
  BY <1>1 DEF JsonInv, JsonTypeOK, Last
<1>3. Brackets(tokens, n, K, opens, cuts) /\ K \in 1..K /\ tokens[a] = Bracket(calls[K])
  <2>1. K \in 1..Len(calls)
    BY <1>1, <1>2
  <2> QED
    BY <1>1, <2>1 DEF Scans
<1>4. IsOpen(tokens, n, K, a) /\ IsCut(tokens, n, a, c) /\ Depth(tokens, n) = K
  BY <1>1, <1>3 DEF Brackets
<1>5. a \in 1..n /\ Depth(tokens, a) = K
  BY <1>4 DEF IsOpen
<1>6. c \in a..n
  BY <1>4, <1>5 DEF IsCut, Cuts, Commas
<1> QED
  BY <1>1, <1>2, <1>3, <1>4, <1>5, <1>6

LEMMA ValueBegins ==
  ASSUME JsonInv, NEW opens, NEW cuts, Scans(opens, cuts), at \in {"value", "first_element"},
         NEW t \in Tokens, tokens' = Append(tokens, t)
  PROVE  LET a == opens[Len(calls)]
             c == cuts[Len(calls)]
         IN  IF calls = <<>> THEN Len(tokens) = 0
             ELSE /\ Begun(tokens', a, c, Len(tokens) + 1)
                  /\ Last(calls) = "obj" => /\ c + 1 = Len(tokens) - 1
                                            /\ tokens[c + 1] = currentProperty
<1>1. PICK K, n, a, c : K = Len(calls) /\ n = Len(tokens) /\ a = opens[K] /\ c = cuts[K]
  OBVIOUS
<1>2. n \in Nat /\ Agree(tokens, tokens', n) /\ n + 1 \in 1..(n + 1)
  BY <1>1, OneMore
<1>3. CASE calls = <<>>
  BY <1>1, <1>3 DEF Scans, Stands
<1>4. CASE calls # <<>>
  <2>1. /\ a \in 1..n /\ c \in a..n /\ tokens[a] = Bracket(Last(calls))
        /\ Last(calls) \in {"obj", "arr"}
    BY <1>1, <1>4, InnermostBracket
  <2>2. \/ at = "first_element" /\ a = n
        \/ /\ at = "value" /\ Begun(tokens, a, c, n + 1)
           /\ Last(calls) = "obj" => tokens[n - 1] = currentProperty
    BY <1>1, <1>4 DEF Scans, Stands
  <2>3. at = "first_element" => Last(calls) = "arr"
    BY DEF JsonInv, PlacesFit
  <2>4. Begun(tokens, a, c, n + 1)
    BY <2>1, <2>2, <2>3 DEF Begun, Bracket
  <2>5. Begun(tokens', a, c, n + 1)
    BY <1>2, <2>1, <2>4, LongerBegun
  <2>6. ASSUME Last(calls) = "obj" PROVE c + 1 = n - 1 /\ tokens[c + 1] = currentProperty
    <3>1. tokens[a] = "begin_object" /\ at = "value" /\ tokens[n - 1] = currentProperty
      BY <2>1, <2>2, <2>3, <2>6 DEF Bracket
    <3>2. n + 1 = c + 3
      BY <2>4, <3>1 DEF Begun
    <3> QED
      BY <1>2, <2>1, <3>1, <3>2
  <2> QED
    BY <1>1, <1>4, <2>5, <2>6
<1> QED
  BY <1>3, <1>4

(* The slot is where the text has the value.                               *)
LEMMA SlotIsPath ==
  ASSUME JsonInv, NEW opens, NEW cuts, Reads(opens, cuts), at \in {"value", "first_element"},
         NEW t \in Tokens, tokens' = Append(tokens, t)
  PROVE  /\ Slot = Path(tokens', Len(tokens) + 1)
         /\ Slot = [m \in 1..Len(calls) |-> KeyAt(tokens', Len(tokens), opens[m], cuts[m])]
         /\ calls # <<>> /\ Last(calls) = "arr" =>
              /\ Slot = Append(Top, Element(Read(Len(calls), opens) + 1))
              /\ Read(Len(calls), opens) \in Nat
<1>1. PICK K, n : K = Len(calls) /\ n = Len(tokens)
  OBVIOUS
<1>2. /\ n \in Nat /\ K \in Nat /\ Agree(tokens, tokens', n)
      /\ Brackets(tokens, n, K, opens, cuts)
  BY <1>1, OneMore DEF Reads, Scans
<1>3. Path(tokens', n + 1) = [k \in 1..K |-> KeyAt(tokens', n, opens[k], cuts[k])]
  BY <1>2, PathByKeys
<1>4. CASE calls = <<>>
  <2>1. K = 0 /\ 1..K = {}
    BY <1>1, <1>4
  <2>2. Slot = Root
    BY <1>4, SlotInInnermost
  <2>3. [k \in 1..K |-> KeyAt(tokens', n, opens[k], cuts[k])] = <<>>
    BY <2>1
  <2> QED
    BY <1>1, <1>3, <1>4, <2>2, <2>3 DEF Root
<1>5. CASE calls # <<>>
  <2>1. PICK a, c : a = opens[K] /\ c = cuts[K]
    OBVIOUS
  <2>2. /\ K \in Nat \ {0} /\ a \in 1..n /\ c \in a..n /\ tokens[a] = Bracket(Last(calls))
        /\ Last(calls) \in {"obj", "arr"} /\ Last(calls) = calls[K]
    BY <1>1, <1>5, <2>1, InnermostBracket DEF Reads
  <2>3. tokens'[a] = tokens[a]
    BY <1>2, <2>2 DEF Agree
  <2>4. Top = objectStack[K + 1] /\ doc[Top] = Last(calls) /\ Top \in Paths /\ Len(Top) = K - 1
    <3>1. Len(objectStack) = K + 1 /\ objectStack[K + 1] \in Paths
      BY <1>1, <1>2 DEF JsonInv, JsonTypeOK, StackFollowsBrackets
    <3>2. K \in 1..Len(calls)
      BY <1>1, <2>2
    <3> QED
      BY <1>1, <2>2, <3>1, <3>2 DEF JsonInv, StackFollowsBrackets, Top, Last
  <2>5. PICK key : key = KeyAt(tokens', n, a, c)
    OBVIOUS
  <2>6. /\ Last(calls) = "arr" => /\ key = Element(Cardinality(Children(doc, Top)) + 1)
                                  /\ Cardinality(Children(doc, Top)) = Read(K, opens)
                                  /\ Read(K, opens) \in Nat
        /\ Last(calls) = "obj" => key = Property(currentProperty)
    <3>1. ASSUME Last(calls) = "arr"
          PROVE  /\ key = Element(Cardinality(Children(doc, Top)) + 1)
                 /\ Cardinality(Children(doc, Top)) = Read(K, opens)
                 /\ Read(K, opens) \in Nat
      <4>1. tokens'[a] = "begin_array"
        BY <2>2, <2>3, <3>1 DEF Bracket
      <4>2. Cuts(tokens', a, n) = Cuts(tokens, a, n)
        BY <1>2, <2>2, SameCloses DEF Cuts
      <4>3. Cardinality(Cuts(tokens, a, n)) \in Nat \ {0}
        BY <1>2, <2>2, CutsAreFinite
      <4>4. Read(K, opens) = Cardinality(Cuts(tokens, a, n)) - 1
        BY <1>1, <2>1 DEF Read
      <4>5. Children(doc, Top) = Elements(Top, Read(K, opens))
        <5>1. K \in 1..Len(calls) /\ calls[K] = "arr"
          BY <1>1, <2>2, <3>1
        <5> QED
          BY <2>4, <5>1 DEF Reads, Counts
      <4>6. Cardinality(Children(doc, Top)) = Read(K, opens)
        BY <2>4, <4>3, <4>4, <4>5, ElementsOf
      <4>7. Cardinality(Children(doc, Top)) + 1 = Cardinality(Cuts(tokens, a, n))
        BY <4>3, <4>4, <4>6
      <4> QED
        BY <2>5, <4>1, <4>2, <4>3, <4>4, <4>6, <4>7 DEF KeyAt
    <3>2. ASSUME Last(calls) = "obj" PROVE key = Property(currentProperty)
      <4>1. tokens'[a] = "begin_object"
        BY <2>2, <2>3, <3>2 DEF Bracket
      <4>2. c + 1 = n - 1 /\ tokens[c + 1] = currentProperty
        BY <1>1, <1>5, <2>1, <3>2, ValueBegins DEF Reads
      <4>3. tokens'[c + 1] = tokens[c + 1]
        <5>1. c + 1 \in 1..n
          BY <1>2, <2>2, <4>2
        <5> QED
          BY <1>2, <5>1 DEF Agree
      <4>4. tokens'[c + 1] = currentProperty
        BY <4>2, <4>3
      <4> QED
        BY <2>5, <4>1, <4>4 DEF KeyAt
    <3> QED
      BY <3>1, <3>2
  <2>7. Slot = Append(Top, key)
    BY <2>2, <2>4, <2>6 DEF Slot
  <2>8. Top = [m \in 1..(K - 1) |-> KeyAt(tokens', n, opens[m], cuts[m])]
    <3>1. Top = [m \in 1..(K - 1) |-> KeyAt(tokens, n, opens[m], cuts[m])]
      BY <1>1, <2>2, <2>4 DEF Reads, Points
    <3>2. \A m \in 1..(K - 1) :
             KeyAt(tokens', n, opens[m], cuts[m]) = KeyAt(tokens, n, opens[m], cuts[m])
      BY <1>2, KeysBefore
    <3> QED
      BY <3>1, <3>2
  <2>9. Slot = [m \in 1..K |-> KeyAt(tokens', n, opens[m], cuts[m])]
    <3>1. Top \in Seq(Keys)
      BY <2>4 DEF Paths
    <3>2. PICK f : f = Append(Top, key)
      OBVIOUS
    <3>3. f = [m \in 1..K |-> f[m]]
      BY <2>2, <2>4, <3>1, <3>2
    <3>4. \A m \in 1..K : f[m] = IF m = K THEN key ELSE Top[m]
      BY <2>2, <2>4, <3>1, <3>2
    <3>5. ASSUME NEW m \in 1..K PROVE f[m] = KeyAt(tokens', n, opens[m], cuts[m])
      <4>1. CASE m = K
        BY <2>1, <2>5, <3>4, <4>1
      <4>2. CASE m # K
        <5>1. m \in 1..(K - 1)
          BY <2>2, <4>2
        <5>2. Top[m] = KeyAt(tokens', n, opens[m], cuts[m])
          BY <2>8, <5>1
        <5> QED
          BY <3>4, <4>2, <5>2
      <4> QED
        BY <4>1, <4>2
    <3>6. [m \in 1..K |-> f[m]] = [m \in 1..K |-> KeyAt(tokens', n, opens[m], cuts[m])]
      BY <3>5
    <3> QED
      BY <2>7, <3>2, <3>3, <3>6
  <2>10. Last(calls) = "arr" => Slot = Append(Top, Element(Read(K, opens) + 1)) /\ Read(K, opens) \in Nat
    BY <2>6, <2>7
  <2> QED
    BY <1>1, <1>3, <2>9, <2>10
<1> QED
  BY <1>4, <1>5

LEMMA StoredNext ==
  ASSUME JsonInv, NEW t \in Tokens, tokens' = Append(tokens, t),
         t = "name_separator" <=> at = "colon"
  PROVE  /\ Stored \subseteq 1..Len(tokens)
         /\ t \in Opening \union Leaves /\ at' # "colon" => Stored' = Stored \union {Len(tokens) + 1}
         /\ t \notin Opening \union Leaves \/ at' = "colon" => Stored' = Stored
<1>1. PICK n : n = Len(tokens)
  OBVIOUS
<1>2. /\ n \in Nat /\ Len(tokens') = n + 1 /\ tokens'[n + 1] = t
      /\ \A i \in 1..n : tokens[i] = tokens'[i]
  BY <1>1, OneMore DEF Agree
<1>3. ASSUME NEW i \in 1..n PROVE i \in Stored' <=> i \in Stored
  <2>1. /\ i \in Stored <=> /\ tokens[i] \in Opening \union Leaves
                            /\ IF i < n THEN tokens[i + 1] # "name_separator" ELSE at # "colon"
        /\ i \in Stored' <=> /\ tokens'[i] \in Opening \union Leaves
                             /\ tokens'[i + 1] # "name_separator"
    BY <1>1, <1>2 DEF Stored
  <2>2. CASE i < n
    <3>1. i + 1 \in 1..n
      BY <1>2, <2>2
    <3> QED
      BY <1>2, <2>1, <2>2, <3>1
  <2>3. CASE ~(i < n)
    <3>1. i = n
      BY <1>2, <2>3
    <3> QED
      BY <1>2, <2>1, <2>3, <3>1
  <2> QED
    BY <2>2, <2>3
<1>4. n + 1 \in Stored' <=> t \in Opening \union Leaves /\ at' # "colon"
  BY <1>2 DEF Stored
<1>5. Stored' \subseteq 1..(n + 1) /\ Stored \subseteq 1..n
  BY <1>1, <1>2 DEF Stored
<1>6. PICK V, W : V = Stored /\ W = Stored'
  OBVIOUS
<1>7. \A i : i \in W => i \in V \/ i = n + 1
  BY <1>2, <1>3, <1>5, <1>6
<1>8. \A i : i \in V => i \in W
  BY <1>3, <1>5, <1>6
<1>10. n + 1 \in W => W = V \union {n + 1}
  BY <1>7, <1>8
<1>11. n + 1 \notin W => W = V
  BY <1>7, <1>8
<1> QED
  BY <1>1, <1>4, <1>5, <1>6, <1>10, <1>11

LEMMA FillsStay ==
  ASSUME JsonInv, Fills, NEW t \in Tokens, tokens' = Append(tokens, t), tokens # <<>>,
         t = "name_separator" <=> at = "colon",
         t \notin Opening \union Leaves \/ at' = "colon", doc' = doc
  PROVE  Fills'
<1>1. PICK n : n = Len(tokens)
  OBVIOUS
<1>2. n \in Nat /\ Agree(tokens, tokens', n)
  BY <1>1, OneMore
<1>3. PICK V : V = Stored
  OBVIOUS
<1>4. Stored' = V /\ V \in SUBSET (1..n)
  BY <1>1, <1>3, StoredNext
<1>5. \A i \in V : Path(tokens, i) \in Paths
  BY <1>3 DEF Fills
<1>6. ValueAt(tokens', V) = ValueAt(tokens, V)
  BY <1>2, <1>4, <1>5, SameValue
<1>7. \A i \in V : Path(tokens', i) \in Paths
  BY <1>2, <1>4, <1>5, SamePath
<1>8. tokens' # <<>>
  BY DEF JsonInv, JsonTypeOK
<1> QED
  BY <1>3, <1>4, <1>6, <1>7, <1>8 DEF Fills

LEMMA FillsGrow ==
  ASSUME JsonInv, Fills, NEW t \in Tokens, tokens' = Append(tokens, t),
         at \in {"value", "first_element"}, at' # "colon", t \in Opening \union Leaves,
         Slot = Path(tokens', Len(tokens) + 1), tokens = <<>> => Slot = Root,
         Store(Kind(t))
  PROVE  Fills'
<1>1. PICK n, P : n = Len(tokens) /\ P = Path(tokens', n + 1)
  OBVIOUS
<1>2. n \in Nat /\ Agree(tokens, tokens', n) /\ tokens'[n + 1] = t
  BY <1>1, OneMore
<1>3. PICK V : V = Stored
  OBVIOUS
<1>4. Stored' = V \union {n + 1} /\ V \in SUBSET (1..n)
  <2>1. t # "name_separator"
    BY TokenKinds DEF Opening
  <2> QED
    BY <1>1, <1>3, <2>1, StoredNext
<1>5. \A i \in V : Path(tokens, i) \in Paths
  BY <1>3 DEF Fills
<1>6. \A i \in V \union {n + 1} : Path(tokens', i) \in Paths
  <2>1. P \in Paths
    BY <1>1, SlotInInnermost
  <2>2. \A i \in V : Path(tokens', i) \in Paths
    BY <1>2, <1>4, <1>5, SamePath
  <2> QED
    BY <1>1, <2>1, <2>2
<1>7. ValueAt(tokens', V \union {n + 1}) = Assign(ValueAt(tokens', V), P, Kind(t))
  BY <1>1, <1>2, <1>4, <1>6, ValueGrows
<1>8. ValueAt(tokens', V) = ValueAt(tokens, V)
  BY <1>2, <1>4, <1>5, SameValue
<1>9. doc' = Assign(doc, P, Kind(t))
  BY <1>1 DEF Store
<1>10. doc' = ValueAt(tokens', V \union {n + 1})
  <2>1. CASE tokens # <<>>
    <3>1. doc = ValueAt(tokens, V)
      BY <1>3, <2>1 DEF Fills
    <3> QED
      BY <1>7, <1>8, <1>9, <3>1
  <2>2. CASE tokens = <<>>
    <3>1. P = Root /\ doc = NullValue /\ n = 0 /\ V = {}
      BY <1>1, <1>4, <2>2 DEF Fills
    <3>2. PICK v : v = ValueAt(tokens', V)
      OBVIOUS
    <3>3. DOMAIN v = {}
      BY <3>1, <3>2 DEF ValueAt
    <3>4. Assign(v, P, Kind(t)) = [q \in {Root} |-> Kind(t)]
      BY <3>1, <3>3 DEF Assign, Below
    <3>5. Below(doc, P) = {Root} /\ DOMAIN doc = {Root}
      <4>1. Root \in Paths
        BY DEF Root, Paths
      <4>2. IsPrefix(Root, Root)
        BY <4>1, PrefixOfItself
      <4>3. DOMAIN doc = {Root}
        BY <3>1 DEF NullValue
      <4> QED
        BY <3>1, <4>2, <4>3 DEF Below
    <3>6. Assign(doc, P, Kind(t)) = [q \in {Root} |-> Kind(t)]
      BY <3>1, <3>5 DEF Assign
    <3> QED
      BY <1>7, <1>9, <3>2, <3>4, <3>6
  <2> QED
    BY <2>1, <2>2
<1>11. tokens' # <<>>
  BY DEF JsonInv, JsonTypeOK
<1> QED
  BY <1>4, <1>6, <1>10, <1>11 DEF Fills

-----------------------------------------------------------------------------

(* How the parser moves on in a text.                                      *)
LEMMA PartEnds ==
  ASSUME NEW s, NEW a, NEW c \in Nat, NEW i \in Nat, NEW b \in Nat, i <= b,
         Begun(s, a, c, i), IsValue(s, i, b)
  PROVE  IsPart(s, a, c, b + 1)
<1>1. PICK d : d = b + 1 /\ d - 1 = b
  OBVIOUS
<1>2. c + 2 < d \/ s[a] = "begin_array"
  BY <1>1 DEF Begun
<1>3. IsPart(s, a, c, d)
  BY <1>1, <1>2 DEF IsPart, Begun
<1> QED
  BY <1>1, <1>3

LEMMA ScansOpen ==
  ASSUME JsonInv, NEW opens, NEW cuts, Scans(opens, cuts),
         NEW t \in Opening, NEW kind \in {"obj", "arr"}, t = Bracket(kind),
         NEW first \in {"first_property", "first_element"}, OpenContainer(t, kind, first),
         NEW o, With(opens, Len(calls) + 1, Len(tokens) + 1, o),
         NEW c, With(cuts, Len(calls) + 1, Len(tokens) + 1, c)
  PROVE  Scans(o, c)'
<1>1. PICK K, n : K = Len(calls) /\ n = Len(tokens)
  OBVIOUS
<1>2. With(opens, K + 1, n + 1, o) /\ With(cuts, K + 1, n + 1, c)
  BY <1>1
<1>3. /\ at \in {"value", "first_element"} /\ at' = first
      /\ tokens' = Append(tokens, t) /\ calls' = Append(calls, kind)
  BY DEF OpenContainer, Consume
<1>4. /\ n \in Nat /\ K \in Nat /\ Agree(tokens, tokens', n) /\ tokens'[n + 1] = t
      /\ Len(tokens') = n + 1 /\ (K = 0 <=> calls = <<>>)
  BY <1>1, <1>3, OneMore, TokenKinds
<1>5. /\ Len(calls') = K + 1 /\ calls' # <<>> /\ calls'[K + 1] = kind
      /\ \A k \in 1..K : calls'[k] = calls[k]
  BY <1>1, <1>3 DEF JsonInv, JsonTypeOK
<1>6. opens \in [Nat -> Nat] /\ cuts \in [Nat -> Nat] /\ Brackets(tokens, n, K, opens, cuts)
  BY <1>1 DEF Scans
<1>7. o \in [Nat -> Nat] /\ c \in [Nat -> Nat] /\ o[K + 1] = n + 1
      /\ \A k \in 1..K : o[k] = opens[k]
  <2>1. /\ o \in [Nat -> Nat] /\ o[K + 1] = n + 1 /\ c \in [Nat -> Nat]
        /\ \A k \in Nat \ {K + 1} : o[k] = opens[k]
    BY <1>2 DEF With
  <2>2. \A k \in 1..K : k \in Nat \ {K + 1}
    BY <1>4
  <2> QED
    BY <2>1, <2>2
<1>8. IF K = 0 THEN n = 0 ELSE Begun(tokens', opens[K], cuts[K], n + 1)
  <2>1. t \in Tokens
    BY TokenKinds
  <2> QED
    BY <1>1, <1>3, <1>4, <2>1, ValueBegins
<1>9. Brackets(tokens', n + 1, K + 1, o, c)
  <2>1. tokens'[n + 1] \in Opening
    BY <1>4
  <2> QED
    BY <1>2, <1>4, <1>6, <1>8, <2>1, BracketsOpen
<1>10. ASSUME NEW k \in 1..(K + 1) PROVE tokens'[o[k]] = Bracket(calls'[k])
  <2>1. CASE k = K + 1
    BY <1>4, <1>5, <1>7, <2>1
  <2>2. CASE k # K + 1
    <3>1. k \in 1..K
      BY <1>4, <2>2
    <3>2. opens[k] \in 1..n
      BY <1>4, <1>6, <3>1, LongerBrackets DEF Kept
    <3>3. tokens[opens[k]] = Bracket(calls[k])
      BY <1>1, <3>1 DEF Scans
    <3> QED
      BY <1>4, <1>5, <1>7, <3>1, <3>2, <3>3 DEF Agree
  <2> QED
    BY <2>1, <2>2
<1>11. Stands(o, c)'
  BY <1>3, <1>4, <1>5, <1>7 DEF Stands
<1> QED
  BY <1>4, <1>5, <1>7, <1>9, <1>10, <1>11 DEF Scans

(* The brackets' kinds stay when no bracket is opened.                     *)
LEMMA KindsStay ==
  ASSUME JsonInv, NEW opens, NEW cuts, Scans(opens, cuts),
         NEW t \in Tokens, tokens' = Append(tokens, t)
  PROVE  \A k \in 1..Len(calls) : tokens'[opens[k]] = Bracket(calls[k])
<1> SUFFICES ASSUME NEW k \in 1..Len(calls) PROVE tokens'[opens[k]] = Bracket(calls[k])
  OBVIOUS
<1>1. PICK K, n : K = Len(calls) /\ n = Len(tokens)
  OBVIOUS
<1>2. n \in Nat /\ K \in Nat /\ Agree(tokens, tokens', n)
  BY <1>1, OneMore
<1>3. Brackets(tokens, n, K, opens, cuts) /\ tokens[opens[k]] = Bracket(calls[k])
  BY <1>1 DEF Scans
<1>4. opens[k] \in 1..n
  BY <1>1, <1>2, <1>3, LongerBrackets DEF Kept
<1> QED
  BY <1>2, <1>3, <1>4 DEF Agree

LEMMA ScansScalar ==
  ASSUME JsonInv, NEW opens, NEW cuts, Scans(opens, cuts), NEW t \in Literals, ParseScalar(t)
  PROVE  Scans(opens, cuts)'
<1>1. PICK K, n, a, c : K = Len(calls) /\ n = Len(tokens) /\ a = opens[K] /\ c = cuts[K]
  OBVIOUS
<1>2. /\ at \in {"value", "first_element"} /\ tokens' = Append(tokens, t) /\ calls' = calls
      /\ at' = IF K = 0 THEN "end" ELSE "more"
  BY <1>1 DEF ParseScalar, Consume, Caller
<1>3. t \in Tokens /\ t \in Leaves /\ t \notin Opening \union Closing \union {"value_separator"}
  BY TokenKinds
<1>4. /\ n \in Nat /\ K \in Nat /\ Agree(tokens, tokens', n) /\ tokens'[n + 1] = t
      /\ Len(tokens') = n + 1 /\ (K = 0 <=> calls = <<>>)
  BY <1>1, <1>2, <1>3, OneMore
<1>5. opens \in [Nat -> Nat] /\ cuts \in [Nat -> Nat] /\ Brackets(tokens, n, K, opens, cuts)
  BY <1>1 DEF Scans
<1>6. Brackets(tokens', n + 1, K, opens, cuts)
  BY <1>3, <1>4, <1>5, BracketsStay
<1>7. \A k \in 1..K : tokens'[opens[k]] = Bracket(calls'[k])
  BY <1>1, <1>2, <1>3, KindsStay
<1>8. IsValue(tokens', n + 1, n + 1)
  BY <1>3, <1>4 DEF IsValue
<1>9. Stands(opens, cuts)'
  <2>1. CASE calls = <<>>
    <3>1. n = 0
      BY <1>1, <1>2, <1>3, <2>1, ValueBegins
    <3> QED
      BY <1>2, <1>4, <1>8, <2>1, <3>1 DEF Stands
  <2>2. CASE calls # <<>>
    <3>1. Begun(tokens', a, c, n + 1)
      BY <1>1, <1>2, <1>3, <2>2, ValueBegins
    <3>2. c \in Nat
      BY <1>1, <1>4, <1>5
    <3>3. IsPart(tokens', a, c, n + 1 + 1)
      <4>1. PICK m : m = n + 1 /\ m \in Nat /\ m <= m
        BY <1>4
      <4>2. Begun(tokens', a, c, m) /\ IsValue(tokens', m, m)
        BY <1>8, <3>1, <4>1
      <4>3. IsPart(tokens', a, c, m + 1)
        BY <3>2, <4>1, <4>2, PartEnds
      <4> QED
        BY <4>1, <4>3
    <3>4. IsPart(tokens', opens[Len(calls')], cuts[Len(calls')], Len(tokens') + 1)
      BY <1>1, <1>2, <1>4, <3>3
    <3>5. at' = "more" /\ calls' # <<>>
      BY <1>2, <1>4, <2>2
    <3> QED
      BY <3>4, <3>5 DEF Stands
  <2> QED
    BY <2>1, <2>2
<1> QED
  BY <1>1, <1>2, <1>4, <1>5, <1>6, <1>7, <1>9 DEF Scans

LEMMA ScansName ==
  ASSUME JsonInv, NEW opens, NEW cuts, Scans(opens, cuts),
         NEW t \in Literals \intersect Names, ParseName(t)
  PROVE  Scans(opens, cuts)'
<1>1. PICK K, n, a, c : K = Len(calls) /\ n = Len(tokens) /\ a = opens[K] /\ c = cuts[K]
  OBVIOUS
<1>2. /\ at \in {"first_property", "property"} /\ tokens' = Append(tokens, t) /\ calls' = calls
      /\ at' = "colon" /\ currentProperty' = t
  BY DEF ParseName, Consume
<1>3. t \in Tokens /\ t \notin Opening \union Closing \union {"value_separator"}
  BY TokenKinds
<1>4. /\ n \in Nat /\ K \in Nat /\ Agree(tokens, tokens', n) /\ tokens'[n + 1] = t
      /\ Len(tokens') = n + 1
  BY <1>1, <1>2, <1>3, OneMore
<1>5. opens \in [Nat -> Nat] /\ cuts \in [Nat -> Nat] /\ Brackets(tokens, n, K, opens, cuts)
  BY <1>1 DEF Scans
<1>6. Brackets(tokens', n + 1, K, opens, cuts)
  BY <1>3, <1>4, <1>5, BracketsStay
<1>7. \A k \in 1..K : tokens'[opens[k]] = Bracket(calls'[k])
  BY <1>1, <1>2, <1>3, KindsStay
<1>8. calls # <<>>
  BY <1>2 DEF JsonInv, PlacesFit
<1>9. a \in 1..n /\ c \in a..n
  BY <1>1, <1>8, InnermostBracket
<1>10. a = n \/ c = n
  BY <1>1, <1>2, <1>8 DEF Scans, Stands
<1>11. c = n
  BY <1>4, <1>9, <1>10
<1>12. Stands(opens, cuts)'
  BY <1>1, <1>2, <1>4, <1>8, <1>11 DEF Stands
<1> QED
  BY <1>1, <1>2, <1>4, <1>5, <1>6, <1>7, <1>12 DEF Scans

LEMMA ScansColon ==
  ASSUME JsonInv, NEW opens, NEW cuts, Scans(opens, cuts), Colon
  PROVE  Scans(opens, cuts)'
<1>1. PICK K, n, a, c : K = Len(calls) /\ n = Len(tokens) /\ a = opens[K] /\ c = cuts[K]
  OBVIOUS
<1>2. PICK t : t = "name_separator"
  OBVIOUS
<1>3. /\ at = "colon" /\ tokens' = Append(tokens, t) /\ calls' = calls
      /\ at' = "value" /\ currentProperty' = currentProperty
  BY <1>2 DEF Colon, Consume
<1>4. t \in Tokens /\ t \notin Opening \union Closing \union {"value_separator"}
  BY <1>2, TokenKinds DEF Opening, Closing
<1>5. /\ n \in Nat /\ K \in Nat /\ Agree(tokens, tokens', n) /\ tokens'[n + 1] = t
      /\ Len(tokens') = n + 1
  BY <1>1, <1>3, <1>4, OneMore
<1>6. opens \in [Nat -> Nat] /\ cuts \in [Nat -> Nat] /\ Brackets(tokens, n, K, opens, cuts)
  BY <1>1 DEF Scans
<1>7. Brackets(tokens', n + 1, K, opens, cuts)
  BY <1>4, <1>5, <1>6, BracketsStay
<1>8. \A k \in 1..K : tokens'[opens[k]] = Bracket(calls'[k])
  BY <1>1, <1>3, <1>4, KindsStay
<1>9. calls # <<>> /\ Last(calls) = "obj" /\ currentProperty \in Names
  BY <1>3 DEF JsonInv, PlacesFit
<1>10. a \in 1..n /\ c \in a..n /\ tokens[a] = "begin_object"
  BY <1>1, <1>9, InnermostBracket DEF Bracket
<1>11. c + 1 = n /\ tokens[n] = currentProperty
  BY <1>1, <1>3, <1>9 DEF Scans, Stands
<1>12. tokens'[a] = "begin_object" /\ tokens'[n] = currentProperty /\ n \in 1..n
  <2>1. a \in 1..n /\ n \in 1..n
    BY <1>5, <1>10
  <2> QED
    BY <1>5, <1>10, <1>11, <2>1 DEF Agree
<1>13. PICK m : m = n + 1 /\ m - 1 = n /\ m + 1 = c + 3 /\ m = c + 2 /\ n = c + 1 /\ a < m
  BY <1>5, <1>10, <1>11
<1>14. Begun(tokens', a, c, m + 1)
  BY <1>2, <1>5, <1>9, <1>12, <1>13 DEF Begun
<1>15. Stands(opens, cuts)'
  <2>1. /\ Len(tokens') = m /\ opens[Len(calls')] = a /\ cuts[Len(calls')] = c /\ calls' # <<>>
        /\ tokens'[m - 1] = currentProperty'
    BY <1>1, <1>3, <1>5, <1>9, <1>12, <1>13
  <2> QED
    BY <1>3, <1>13, <1>14, <2>1 DEF Stands
<1> QED
  BY <1>1, <1>3, <1>5, <1>6, <1>7, <1>8, <1>15 DEF Scans

LEMMA ScansComma ==
  ASSUME JsonInv, NEW opens, NEW cuts, Scans(opens, cuts), Comma, calls # <<>>,
         NEW new, With(cuts, Len(calls), Len(tokens) + 1, new)
  PROVE  Scans(opens, new)'
<1>1. PICK K, n, a, c : K = Len(calls) /\ n = Len(tokens) /\ a = opens[K] /\ c = cuts[K]
  OBVIOUS
<1>2. PICK t : t = "value_separator"
  OBVIOUS
<1>3. /\ at = "more" /\ tokens' = Append(tokens, t) /\ calls' = calls
      /\ at' = IF Last(calls) = "obj" THEN "property" ELSE "value"
  BY <1>2 DEF Comma, Consume
<1>4. t \in Tokens
  BY <1>2, TokenKinds
<1>5. /\ n \in Nat /\ Agree(tokens, tokens', n) /\ tokens'[n + 1] = t /\ Len(tokens') = n + 1
  BY <1>1, <1>3, <1>4, OneMore
<1>6. opens \in [Nat -> Nat] /\ cuts \in [Nat -> Nat] /\ Brackets(tokens, n, K, opens, cuts)
  BY <1>1 DEF Scans
<1>7. /\ K \in Nat \ {0} /\ a \in 1..n /\ tokens[a] = Bracket(Last(calls))
      /\ Last(calls) \in {"obj", "arr"}
  BY <1>1, InnermostBracket
<1>8. IsPart(tokens, a, c, n + 1)
  BY <1>1, <1>3 DEF Scans, Stands
<1>9. With(cuts, K, n + 1, new)
  BY <1>1
<1>10. Brackets(tokens', n + 1, K, opens, new)
  <2>1. tokens'[n + 1] = "value_separator" /\ IsPart(tokens, opens[K], cuts[K], n + 1)
    BY <1>1, <1>2, <1>5, <1>8
  <2> QED
    BY <1>5, <1>6, <1>7, <1>9, <2>1, BracketsComma
<1>11. \A k \in 1..K : tokens'[opens[k]] = Bracket(calls'[k])
  BY <1>1, <1>3, <1>4, KindsStay
<1>12. PICK m : m = n + 1 /\ a < m
  BY <1>5, <1>7
<1>13. Stands(opens, new)'
  <2>1. Len(tokens') = m /\ opens[Len(calls')] = a /\ new[Len(calls')] = m /\ calls' # <<>>
    BY <1>1, <1>3, <1>5, <1>9, <1>12 DEF With
  <2>2. CASE Last(calls) = "obj"
    <3>1. at' = "property"
      BY <1>3, <2>2
    <3> QED
      BY <1>12, <2>1, <3>1 DEF Stands
  <2>3. CASE Last(calls) = "arr"
    <3>1. at' = "value" /\ Last(calls') # "obj"
      BY <1>3, <2>3
    <3>2. tokens'[a] = "begin_array"
      BY <1>5, <1>7, <2>3 DEF Agree, Bracket
    <3>3. Begun(tokens', a, m, m + 1)
      BY <3>2 DEF Begun
    <3> QED
      BY <1>12, <2>1, <3>1, <3>3 DEF Stands
  <2> QED
    BY <1>7, <2>2, <2>3
<1>14. new \in [Nat -> Nat]
  BY <1>9 DEF With
<1> QED
  BY <1>1, <1>3, <1>5, <1>6, <1>10, <1>11, <1>13, <1>14 DEF Scans

LEMMA ScansClose ==
  ASSUME JsonInv, NEW opens, NEW cuts, Scans(opens, cuts), NEW kind \in {"obj", "arr"},
         NEW t, t = IF kind = "obj" THEN "end_object" ELSE "end_array",
         NEW first, first = IF kind = "obj" THEN "first_property" ELSE "first_element",
         Close(t, kind, first)
  PROVE  Scans(opens, cuts)'
<1>1. PICK K, n, a, c : K = Len(calls) /\ n = Len(tokens) /\ a = opens[K] /\ c = cuts[K]
  OBVIOUS
<1>2. /\ at = first \/ (at = "more" /\ Last(calls) = kind)
      /\ tokens' = Append(tokens, t) /\ calls' = Front(calls)
      /\ at' = IF K - 1 = 0 THEN "end" ELSE "more"
  BY <1>1 DEF Close, Consume, Caller
<1>3. t \in Tokens /\ t \in Closing /\ t # "value_separator"
  BY TokenKinds DEF Closing
<1>4. /\ n \in Nat /\ Agree(tokens, tokens', n) /\ tokens'[n + 1] = t /\ Len(tokens') = n + 1
  BY <1>1, <1>2, <1>3, OneMore
<1>5. opens \in [Nat -> Nat] /\ cuts \in [Nat -> Nat] /\ Brackets(tokens, n, K, opens, cuts)
  BY <1>1 DEF Scans
<1>6. calls # <<>> /\ Last(calls) = kind
  BY <1>2 DEF JsonInv, PlacesFit
<1>7. /\ K \in Nat \ {0} /\ a \in 1..n /\ c \in a..n /\ tokens[a] = Bracket(kind)
  BY <1>1, <1>6, InnermostBracket
<1>8. /\ Len(calls') = K - 1 /\ (calls' = <<>> <=> K - 1 = 0)
      /\ \A k \in 1..(K - 1) : calls'[k] = calls[k]
  <2>1. calls \in Seq({"obj", "arr"})
    BY DEF JsonInv, JsonTypeOK
  <2> QED
    BY <1>1, <1>2, <1>6, <2>1, FrontOfSequence
<1>9. a = n \/ IsPart(tokens, a, c, n + 1)
  BY <1>1, <1>2, <1>6 DEF Scans, Stands
<1>10. Brackets(tokens', n + 1, K - 1, opens, cuts) /\ IsValue(tokens', a, n + 1)
  <2>1. \/ tokens[opens[K]] = "begin_object" /\ tokens'[n + 1] = "end_object"
        \/ tokens[opens[K]] = "begin_array" /\ tokens'[n + 1] = "end_array"
    BY <1>1, <1>4, <1>7 DEF Bracket
  <2>2. opens[K] = n \/ IsPart(tokens, opens[K], cuts[K], n + 1)
    BY <1>1, <1>9
  <2>3. Brackets(tokens', n + 1, K - 1, opens, cuts) /\ IsValue(tokens', opens[K], n + 1)
    BY <1>4, <1>5, <1>7, <2>1, <2>2, BracketsClose
  <2> QED
    BY <1>1, <2>3
<1>11. \A k \in 1..(K - 1) : tokens'[opens[k]] = Bracket(calls'[k])
  <2>1. \A k \in 1..K : tokens'[opens[k]] = Bracket(calls[k])
    BY <1>1, <1>2, <1>3, KindsStay
  <2> QED
    BY <1>7, <1>8, <2>1
<1>12. Kept(tokens', n, K, opens, cuts)
  BY <1>4, <1>5, <1>7, LongerBrackets
<1>13. Stands(opens, cuts)'
  <2>1. CASE K - 1 = 0
    <3>1. a = 1
      <4>1. K > 0 /\ K = 1
        BY <1>7, <2>1
      <4>2. opens[1] = 1
        BY <1>12, <4>1 DEF Kept
      <4> QED
        BY <1>1, <4>1, <4>2
    <3> QED
      BY <1>2, <1>4, <1>8, <1>10, <2>1, <3>1 DEF Stands
  <2>2. CASE K - 1 # 0
    <3>1. PICK J, b, d : J = K - 1 /\ b = opens[J] /\ d = cuts[J] /\ J + 1 = K
      BY <1>7
    <3>2. J \in 1..(K - 1) /\ J \in 1..K
      BY <1>7, <2>2, <3>1
    <3>3. Begun(tokens', b, d, a)
      BY <1>1, <1>12, <3>1, <3>2 DEF Kept
    <3>4. PICK m : m = n + 1 /\ m \in Nat /\ a \in Nat /\ d \in Nat /\ a <= m
      <4>1. J \in Nat
        BY <3>2
      <4>2. d \in Nat
        BY <1>5, <3>1, <4>1
      <4> QED
        BY <1>4, <1>7, <4>2
    <3>5. IsPart(tokens', b, d, m + 1)
      BY <1>10, <3>3, <3>4, PartEnds
    <3>6. /\ Len(tokens') = m /\ opens[Len(calls')] = b /\ cuts[Len(calls')] = d /\ calls' # <<>>
          /\ at' = "more"
      BY <1>2, <1>4, <1>8, <2>2, <3>1, <3>4
    <3> QED
      BY <3>5, <3>6 DEF Stands
  <2> QED
    BY <2>1, <2>2
<1> QED
  BY <1>4, <1>5, <1>8, <1>10, <1>11, <1>13 DEF Scans

-----------------------------------------------------------------------------

(* The containers around the innermost bracket are left alone.             *)
LEMMA OuterStay ==
  ASSUME JsonInv, NEW opens, NEW cuts, Scans(opens, cuts),
         NEW t \in Tokens, tokens' = Append(tokens, t),
         NEW k \in 1..Len(calls), k < Len(calls) \/ t # "value_separator"
  PROVE  /\ Cuts(tokens', opens[k], Len(tokens')) = Cuts(tokens, opens[k], Len(tokens))
         /\ KeyAt(tokens', Len(tokens'), opens[k], cuts[k]) = KeyAt(tokens', Len(tokens), opens[k], cuts[k])
         /\ k < Len(calls) => KeyAt(tokens', Len(tokens'), opens[k], cuts[k])
                                = KeyAt(tokens, Len(tokens), opens[k], cuts[k])
<1>1. PICK K, n : K = Len(calls) /\ n = Len(tokens)
  OBVIOUS
<1>2. /\ n \in Nat /\ K \in Nat /\ Agree(tokens, tokens', n) /\ tokens'[n + 1] = t
      /\ Len(tokens') = n + 1
  BY <1>1, OneMore
<1>3. Brackets(tokens, n, K, opens, cuts) /\ k \in 1..K
  BY <1>1 DEF Scans
<1>4. Depth(tokens', n) = K
  BY <1>2, <1>3, LongerBrackets
<1>5. t = "value_separator" => Depth(tokens', n + 1) >= K
  <2>1. ASSUME t = "value_separator" PROVE Depth(tokens', n + 1) = K
    <3>1. tokens'[n + 1] \notin Opening \union Closing
      BY <1>2, <2>1 DEF Opening, Closing
    <3> QED
      BY <1>2, <1>4, <3>1, DepthSteps
  <2> QED
    BY <1>2, <2>1
<1>6. opens[k] \in 1..n /\ Depth(tokens, opens[k]) = k /\ k \in Nat
  <2>1. IsOpen(tokens, n, k, opens[k])
    BY <1>3 DEF Brackets
  <2> QED
    BY <1>3, <2>1 DEF IsOpen
<1>7. ~(tokens'[n + 1] = "value_separator" /\ Depth(tokens', n + 1) = k)
  BY <1>1, <1>2, <1>3, <1>5
<1>8. /\ Cuts(tokens', opens[k], n + 1) = Cuts(tokens, opens[k], n)
      /\ KeyAt(tokens', n + 1, opens[k], cuts[k]) = KeyAt(tokens', n, opens[k], cuts[k])
  <2>1. PICK a, c : a = opens[k] /\ c = cuts[k]
    OBVIOUS
  <2>2. a \in 1..n /\ Depth(tokens, a) = k /\ k \in Nat
    BY <1>6, <2>1
  <2>3. /\ Cuts(tokens', a, n + 1) = Cuts(tokens, a, n)
        /\ KeyAt(tokens', n + 1, a, c) = KeyAt(tokens', n, a, c)
    <3>1. PICK u : u = tokens'
      OBVIOUS
    <3>2. Agree(tokens, u, n) /\ ~(u[n + 1] = "value_separator" /\ Depth(u, n + 1) = k)
      BY <1>2, <1>7, <3>1
    <3>3. Cuts(u, a, n + 1) = Cuts(tokens, a, n)
      BY <1>2, <2>2, <3>2, KeysStay
    <3>4. KeyAt(u, n + 1, a, c) = KeyAt(u, n, a, c)
      BY <1>2, <2>2, <3>2, KeysStay
    <3> QED
      BY <3>1, <3>3, <3>4
  <2> QED
    BY <2>1, <2>3
<1>9. ASSUME k < K
      PROVE  KeyAt(tokens', n, opens[k], cuts[k]) = KeyAt(tokens, n, opens[k], cuts[k])
  <2>1. k \in 1..(K - 1)
    BY <1>2, <1>3, <1>9
  <2> QED
    BY <1>2, <1>3, <2>1, KeysBefore
<1> QED
  BY <1>1, <1>2, <1>8, <1>9

LEMMA PointsStay ==
  ASSUME JsonInv, NEW opens, NEW cuts, Scans(opens, cuts), Points(opens, cuts),
         NEW t \in Tokens, tokens' = Append(tokens, t), Len(calls') \in 0..Len(calls),
         \A k \in 1..Len(calls') : objectStack'[k + 1] = objectStack[k + 1],
         NEW new, \A k \in 1..(Len(calls) - 1) : new[k] = cuts[k]
  PROVE  Points(opens, new)'
<1> SUFFICES ASSUME NEW k \in 1..Len(calls')
             PROVE  objectStack'[k + 1] =
                      [m \in 1..(k - 1) |-> KeyAt(tokens', Len(tokens'), opens[m], new[m])]
  BY DEF Points
<1>1. k \in 1..Len(calls) /\ Len(calls) \in Nat
  BY OneMore
<1>2. objectStack[k + 1] = [m \in 1..(k - 1) |-> KeyAt(tokens, Len(tokens), opens[m], cuts[m])]
  BY <1>1 DEF Points
<1>3. ASSUME NEW m \in 1..(k - 1)
      PROVE  KeyAt(tokens', Len(tokens'), opens[m], new[m]) = KeyAt(tokens, Len(tokens), opens[m], cuts[m])
  <2>1. m \in 1..Len(calls) /\ m < Len(calls) /\ m \in 1..(Len(calls) - 1)
    BY <1>1
  <2> QED
    BY <2>1, OuterStay
<1> QED
  BY <1>2, <1>3

LEMMA PointsOpen ==
  ASSUME JsonInv, NEW opens, NEW cuts, Reads(opens, cuts),
         NEW t \in Opening, NEW kind \in {"obj", "arr"}, NEW first, OpenContainer(t, kind, first),
         NEW o, With(opens, Len(calls) + 1, Len(tokens) + 1, o),
         NEW c, With(cuts, Len(calls) + 1, Len(tokens) + 1, c)
  PROVE  Points(o, c)'
<1>0. Len(calls) \in Nat
  BY DEF JsonInv, JsonTypeOK
<1>1. PICK K, n : K = Len(calls) /\ n = Len(tokens) /\ K \in Nat
  BY <1>0
<1>2. /\ at \in {"value", "first_element"} /\ tokens' = Append(tokens, t)
      /\ calls' = Append(calls, kind) /\ objectStack' = Append(objectStack, Slot)
  BY DEF OpenContainer, Consume
<1>3. t \in Tokens /\ t # "value_separator"
  BY TokenKinds DEF Opening
<1>4. /\ Len(calls') = K + 1
      /\ \A k \in 1..(K + 1) : objectStack'[k] = objectStack[k]
      /\ objectStack'[K + 2] = Slot
  BY <1>1, <1>2 DEF JsonInv, JsonTypeOK, StackFollowsBrackets
<1>5. \A m \in 1..K : o[m] = opens[m] /\ c[m] = cuts[m]
  <2>1. \A m \in 1..K : m \in Nat \ {K + 1}
    BY <1>1
  <2> QED
    BY <1>1, <2>1 DEF With
<1>6. ASSUME NEW m \in 1..K
      PROVE  /\ KeyAt(tokens', Len(tokens'), o[m], c[m]) = KeyAt(tokens', n, opens[m], cuts[m])
             /\ m < K => KeyAt(tokens', Len(tokens'), o[m], c[m]) = KeyAt(tokens, n, opens[m], cuts[m])
  BY <1>1, <1>2, <1>3, <1>5, OuterStay DEF Reads
<1>7. ASSUME NEW k \in 1..(K + 1)
      PROVE  objectStack'[k + 1] = [m \in 1..(k - 1) |-> KeyAt(tokens', Len(tokens'), o[m], c[m])]
  <2>1. CASE k = K + 1
    <3>1. objectStack'[k + 1] = [m \in 1..K |-> KeyAt(tokens', n, opens[m], cuts[m])]
      <4>1. Slot = [m \in 1..K |-> KeyAt(tokens', n, opens[m], cuts[m])]
        BY <1>1, <1>2, <1>3, SlotIsPath
      <4> QED
        BY <1>1, <1>4, <2>1, <4>1
    <3>2. k - 1 = K
      BY <1>1, <2>1
    <3> QED
      BY <1>6, <3>1, <3>2
  <2>2. CASE k # K + 1
    <3>1. k \in 1..K /\ k + 1 \in 1..(K + 1)
      BY <1>1, <2>2
    <3>2. objectStack'[k + 1] = [m \in 1..(k - 1) |-> KeyAt(tokens, n, opens[m], cuts[m])]
      BY <1>1, <1>4, <3>1 DEF Reads, Points
    <3>3. \A m \in 1..(k - 1) : m \in 1..K /\ m < K
      BY <1>1, <3>1
    <3> QED
      BY <1>6, <3>2, <3>3
  <2> QED
    BY <2>1, <2>2
<1> QED
  BY <1>4, <1>7 DEF Points

(* The elements of the arrays that are being filled.                       *)
LEMMA CountOuter ==
  ASSUME JsonInv, NEW opens, NEW cuts, Reads(opens, cuts),
         NEW t \in Tokens, tokens' = Append(tokens, t),
         NEW k \in 1..Len(calls), k < Len(calls), calls[k] = "arr",
         k < Len(calls') \/ at' \notin {"first_element", "value"},
         NEW o, o[k] = opens[k],
         objectStack'[k + 1] = objectStack[k + 1],
         Children(doc', objectStack[k + 1]) = Children(doc, objectStack[k + 1])
  PROVE  Children(doc', objectStack'[k + 1]) = Elements(objectStack'[k + 1], Read(k, o)')
<1>1. Cuts(tokens', opens[k], Len(tokens')) = Cuts(tokens, opens[k], Len(tokens))
  BY OuterStay DEF Reads
<1>2. Read(k, o)' = Cardinality(Cuts(tokens', opens[k], Len(tokens'))) - 0
  BY DEF Read
<1>3. Read(k, opens) = Cardinality(Cuts(tokens, opens[k], Len(tokens))) - 0
  BY DEF Read
<1>4. Children(doc, objectStack[k + 1]) = Elements(objectStack[k + 1], Read(k, opens))
  BY DEF Reads, Counts
<1> QED
  BY <1>1, <1>2, <1>3, <1>4

(* The tokens that store nothing.                                          *)
LEMMA CountsStay ==
  ASSUME JsonInv, NEW opens, NEW cuts, Reads(opens, cuts), calls # <<>>,
         \/ \E t \in Literals \intersect Names : ParseName(t)
         \/ Colon \/ Comma
         \/ \E first : \E t \in Tokens, kind \in {"obj", "arr"} : Close(t, kind, first)
  PROVE  Counts(opens)'
<1>1. PICK K, n, a : K = Len(calls) /\ n = Len(tokens) /\ a = opens[K]
  OBVIOUS
<1>2. K \in Nat \ {0} /\ a \in 1..n /\ Last(calls) = calls[K]
  BY <1>1, InnermostBracket DEF Reads
<1>3. PICK t \in Tokens : tokens' = Append(tokens, t)
  <2>1. Literals \subseteq Tokens /\ {"name_separator", "value_separator"} \subseteq Tokens
    BY TokenKinds
  <2> QED
    BY <2>1 DEF ParseName, Colon, Comma, Close, Consume
<1>4. n \in Nat /\ Len(tokens') = n + 1 /\ tokens'[n + 1] = t /\ Agree(tokens, tokens', n)
  BY <1>1, <1>3, OneMore
<1>5. doc' = doc
  BY DEF ParseName, Colon, Comma, Close
<1>6. CASE calls' = calls /\ objectStack' = objectStack /\ ~Comma /\ Last(calls) = "obj"
  <2> SUFFICES ASSUME NEW k \in 1..Len(calls'), calls'[k] = "arr"
               PROVE  Children(doc', objectStack'[k + 1]) = Elements(objectStack'[k + 1], Read(k, opens)')
    BY DEF Counts
  <2>1. k \in 1..K /\ calls[k] = "arr" /\ Len(calls') = Len(calls)
    BY <1>1, <1>6
  <2>2. k # K
    BY <1>2, <1>6, <2>1
  <2>3. k \in 1..Len(calls) /\ k < Len(calls) /\ k < Len(calls')
    BY <1>1, <1>2, <2>1, <2>2
  <2> QED
    BY <1>3, <1>5, <1>6, <2>1, <2>3, CountOuter
<1>7. CASE Comma
  <2> SUFFICES ASSUME NEW k \in 1..Len(calls'), calls'[k] = "arr"
               PROVE  Children(doc', objectStack'[k + 1]) = Elements(objectStack'[k + 1], Read(k, opens)')
    BY DEF Counts
  <2>1. /\ calls' = calls /\ objectStack' = objectStack /\ at = "more" /\ t = "value_separator"
        /\ at' = IF Last(calls) = "obj" THEN "property" ELSE "value"
    BY <1>1, <1>3, <1>4, <1>7 DEF Comma, Consume, JsonInv, JsonTypeOK
  <2>2. CASE k < K
    <3>1. k \in 1..Len(calls) /\ k < Len(calls) /\ k < Len(calls') /\ calls[k] = "arr"
      BY <1>1, <2>1, <2>2
    <3> QED
      BY <1>3, <1>5, <2>1, <3>1, CountOuter
  <2>3. CASE ~(k < K)
    <3>1. k = K /\ calls[K] = "arr" /\ at' = "value"
      BY <1>1, <1>2, <2>1, <2>3
    <3>2. Cuts(tokens', a, n + 1) = Cuts(tokens, a, n) \union {n + 1}
      <4>1. Depth(tokens, n) = K /\ Depth(tokens, a) = K
        BY <1>1, InnermostBracket DEF Reads
      <4>2. t \notin Opening \union Closing
        BY <2>1 DEF Opening, Closing
      <4>3. Depth(tokens', n + 1) = K
        <5>1. Depth(tokens', n) = Depth(tokens, n)
          BY <1>4, SameDepth
        <5> QED
          BY <1>4, <4>1, <4>2, <5>1, DepthSteps
      <4>4. Commas(tokens', a, n + 1) = Commas(tokens, a, n) \union {n + 1}
        <5>1. PICK u : u = tokens'
          OBVIOUS
        <5>2. Agree(tokens, u, n) /\ u[n + 1] = "value_separator" /\ Depth(u, n + 1) = Depth(tokens, a)
          BY <1>4, <2>1, <4>1, <4>3, <5>1
        <5>3. Commas(u, a, n + 1) = Commas(tokens, a, n) \union {n + 1}
          BY <1>2, <1>4, <5>2, LongerCommas
        <5> QED
          BY <5>1, <5>3
      <4> QED
        BY <4>4 DEF Cuts
    <3>3. /\ Cardinality(Cuts(tokens, a, n)) \in Nat
          /\ Cardinality(Cuts(tokens', a, n + 1)) = Cardinality(Cuts(tokens, a, n)) + 1
      BY <1>2, <1>4, <3>2, CutsAreFinite
    <3>4. Read(k, opens)' = Cardinality(Cuts(tokens', a, n + 1)) - 1
      BY <1>1, <1>4, <2>1, <3>1 DEF Read
    <3>5. Read(k, opens) = Cardinality(Cuts(tokens, a, n)) - 0
      BY <1>1, <2>1, <3>1 DEF Read
    <3>6. Read(k, opens)' = Read(k, opens)
      BY <3>3, <3>4, <3>5
    <3>7. Children(doc, objectStack[k + 1]) = Elements(objectStack[k + 1], Read(k, opens))
      BY <1>1, <2>1, <3>1 DEF Reads, Counts
    <3> QED
      BY <1>5, <2>1, <3>6, <3>7
  <2> QED
    BY <2>2, <2>3
<1>8. CASE \E first : \E u \in Tokens, kind \in {"obj", "arr"} : Close(u, kind, first)
  <2> SUFFICES ASSUME NEW k \in 1..Len(calls'), calls'[k] = "arr"
               PROVE  Children(doc', objectStack'[k + 1]) = Elements(objectStack'[k + 1], Read(k, opens)')
    BY DEF Counts
  <2>1. calls' = Front(calls) /\ objectStack' = Front(objectStack) /\ at' \in {"end", "more"}
    BY <1>8 DEF Close, Caller
  <2>2. calls \in Seq({"obj", "arr"}) /\ objectStack \in Seq(Paths) /\ Len(objectStack) = K + 1
    BY <1>1 DEF JsonInv, JsonTypeOK, StackFollowsBrackets
  <2>3. /\ Len(calls') = K - 1
        /\ \A i \in 1..(K - 1) : calls'[i] = calls[i]
    BY <1>1, <2>1, <2>2, FrontOfSequence
  <2>4. \A i \in 1..K : objectStack'[i] = objectStack[i]
    <3>1. objectStack # <<>> /\ 1..Len(objectStack) - 1 = 1..K
      BY <1>2, <2>2
    <3>2. \A i \in 1..Len(objectStack) - 1 : Front(objectStack)[i] = objectStack[i]
      BY <2>2, <3>1, FrontOfSequence
    <3> QED
      BY <2>1, <3>1, <3>2
  <2>5. k \in 1..Len(calls) /\ k < Len(calls) /\ calls[k] = "arr" /\ k + 1 \in 1..K
    BY <1>1, <1>2, <2>3
  <2>6. objectStack'[k + 1] = objectStack[k + 1]
    BY <2>4, <2>5
  <2> QED
    BY <1>3, <1>5, <2>1, <2>5, <2>6, CountOuter
<1>9. ASSUME NEW u \in Literals \intersect Names, ParseName(u)
      PROVE  calls' = calls /\ objectStack' = objectStack /\ ~Comma /\ Last(calls) = "obj"
  BY <1>9 DEF ParseName, Comma, JsonInv, PlacesFit
<1>10. ASSUME Colon
       PROVE  calls' = calls /\ objectStack' = objectStack /\ ~Comma /\ Last(calls) = "obj"
  BY <1>10 DEF Colon, Comma, JsonInv, PlacesFit
<1> QED
  BY <1>6, <1>7, <1>8, <1>9, <1>10

LEMMA CountsScalar ==
  ASSUME JsonInv, NEW opens, NEW cuts, Reads(opens, cuts), NEW t \in Literals, ParseScalar(t)
  PROVE  Counts(opens)'
<1>1. PICK K, n, a : K = Len(calls) /\ n = Len(tokens) /\ a = opens[K]
  OBVIOUS
<1>2. /\ at \in {"value", "first_element"} /\ tokens' = Append(tokens, t)
      /\ calls' = calls /\ objectStack' = objectStack /\ at' \in {"end", "more"}
      /\ doc' = Assign(doc, Slot, t)
  BY DEF ParseScalar, Consume, Caller, Store
<1>3. t \in Tokens /\ t # "value_separator"
  BY TokenKinds
<1>4. DOMAIN doc \subseteq Paths /\ Slot \in Paths /\ IsPrefix(Top, Slot)
  BY <1>2, SlotInInnermost DEF JsonInv, JsonTypeOK
<1> SUFFICES ASSUME NEW k \in 1..Len(calls'), calls'[k] = "arr"
             PROVE  Children(doc', objectStack'[k + 1]) = Elements(objectStack'[k + 1], Read(k, opens)')
  BY DEF Counts
<1>5. k \in 1..K /\ K \in Nat \ {0} /\ calls # <<>>
  BY <1>1, <1>2 DEF JsonInv, JsonTypeOK
<1>6. objectStack[k + 1] \in Paths /\ Len(objectStack[k + 1]) = k - 1 /\ Len(Slot) = K
  <2>1. k \in 1..Len(calls) /\ k + 1 \in 1..Len(objectStack)
    BY <1>1, <1>5 DEF JsonInv, StackFollowsBrackets
  <2> QED
    BY <1>1, <1>2, <1>5, <2>1, SlotInInnermost DEF JsonInv, JsonTypeOK, StackFollowsBrackets
<1>7. CASE k < K
  <2>1. Children(doc', objectStack[k + 1]) = Children(doc, objectStack[k + 1])
    <3>1. Len(objectStack[k + 1]) + 1 < Len(Slot)
      BY <1>5, <1>6, <1>7
    <3> QED
      BY <1>2, <1>4, <1>6, <3>1, ChildrenAssigned
  <2>2. k \in 1..Len(calls) /\ k < Len(calls) /\ calls[k] = "arr"
    BY <1>1, <1>2, <1>5, <1>7
  <2> QED
    BY <1>2, <1>3, <2>1, <2>2, CountOuter
<1>8. CASE ~(k < K)
  <2>1. k = K /\ calls[K] = "arr" /\ Last(calls) = "arr"
    BY <1>1, <1>2, <1>5, <1>8 DEF Last
  <2>2. PICK m : m = Read(K, opens) /\ m \in Nat /\ Slot = Append(Top, Element(m + 1))
    BY <1>1, <1>2, <1>3, <1>5, <2>1, SlotIsPath
  <2>3. Top = objectStack[K + 1]
    BY <1>1 DEF Top, Last, JsonInv, StackFollowsBrackets
  <2>4. Top \in Paths /\ Len(Top) + 1 = Len(Slot)
    BY <1>5, <1>6, <2>1, <2>3
  <2>5. Children(doc', Top) = Children(doc, Top) \union {Slot}
    BY <1>2, <1>4, <2>4, ChildrenAssigned
  <2>6. Children(doc, Top) = Elements(Top, m)
    BY <1>1, <1>5, <2>1, <2>2, <2>3 DEF Reads, Counts
  <2>7. Elements(Top, m + 1) = Elements(Top, m) \union {Slot}
    BY <2>2, <2>4, ElementsOf
  <2>8. Read(K, opens)' = m + 1
    <3>1. Cuts(tokens', a, Len(tokens')) = Cuts(tokens, a, n)
      <4>1. K \in 1..Len(calls)
        BY <1>1, <1>5
      <4> QED
        BY <1>1, <1>2, <1>3, <4>1, OuterStay DEF Reads
    <3>2. Read(K, opens)' = Cardinality(Cuts(tokens', a, Len(tokens'))) - 0
      BY <1>1, <1>2 DEF Read
    <3>3. m = Cardinality(Cuts(tokens, a, n)) - 1
      BY <1>1, <1>2, <2>2 DEF Read
    <3>4. Cardinality(Cuts(tokens, a, n)) \in Nat
      <4>1. a \in 1..n /\ n \in Nat
        BY <1>1, <1>5, InnermostBracket DEF Reads, JsonInv, JsonTypeOK
      <4> QED
        BY <4>1, CutsAreFinite
    <3> QED
      BY <3>1, <3>2, <3>3, <3>4
  <2> QED
    BY <1>2, <2>1, <2>3, <2>5, <2>6, <2>7, <2>8
<1> QED
  BY <1>7, <1>8

LEMMA CountsOpen ==
  ASSUME JsonInv, NEW opens, NEW cuts, Reads(opens, cuts),
         NEW t \in Opening, NEW kind \in {"obj", "arr"},
         NEW first, first = (IF kind = "obj" THEN "first_property" ELSE "first_element"),
         OpenContainer(t, kind, first),
         NEW o, With(opens, Len(calls) + 1, Len(tokens) + 1, o)
  PROVE  Counts(o)'
<1>1. PICK K, n, a : K = Len(calls) /\ n = Len(tokens) /\ a = opens[K]
  OBVIOUS
<1>2. /\ at \in {"value", "first_element"} /\ tokens' = Append(tokens, t) /\ at' = first
      /\ calls' = Append(calls, kind) /\ objectStack' = Append(objectStack, Slot)
      /\ doc' = Assign(doc, Slot, kind)
  BY DEF OpenContainer, Consume, Store
<1>3. t \in Tokens /\ t # "value_separator"
  BY TokenKinds DEF Opening
<1>4. DOMAIN doc \subseteq Paths /\ Slot \in Paths /\ IsPrefix(Top, Slot)
  BY <1>2, SlotInInnermost DEF JsonInv, JsonTypeOK
<1>5. /\ K \in Nat /\ n \in Nat /\ Len(calls') = K + 1 /\ calls'[K + 1] = kind
      /\ Len(tokens') = n + 1 /\ tokens'[n + 1] = t
      /\ \A k \in 1..K : calls'[k] = calls[k]
      /\ \A k \in 1..(K + 1) : objectStack'[k] = objectStack[k]
      /\ objectStack'[K + 2] = Slot
  BY <1>1, <1>2 DEF JsonInv, JsonTypeOK, StackFollowsBrackets
<1>6. o[K + 1] = n + 1 /\ \A k \in 1..K : o[k] = opens[k]
  <2>1. \A k \in 1..K : k \in Nat \ {K + 1}
    BY <1>5
  <2> QED
    BY <1>1, <2>1 DEF With
<1> SUFFICES ASSUME NEW k \in 1..Len(calls'), calls'[k] = "arr"
             PROVE  Children(doc', objectStack'[k + 1]) = Elements(objectStack'[k + 1], Read(k, o)')
  BY DEF Counts
<1>7. CASE k = K + 1
  <2>1. objectStack'[k + 1] = Slot /\ at' = "first_element" /\ k = Len(calls')
    <3>1. k + 1 = K + 2 /\ k = Len(calls')
      BY <1>5, <1>7
    <3>2. kind = "arr"
      BY <1>5, <1>7
    <3> QED
      BY <1>2, <1>5, <3>1, <3>2
  <2>2. Children(doc', Slot) = {}
    BY <1>2, <1>4, ChildrenAssigned
  <2>3. PICK m : m = n + 1 /\ m \in Nat
    BY <1>5
  <2>4. Cuts(tokens', m, m) = {m}
    BY <2>3 DEF Cuts, Commas
  <2>5. Cardinality({m}) = 1
    BY FS_Singleton
  <2>6. Read(k, o)' = Cardinality(Cuts(tokens', m, m)) - 1
    BY <1>5, <1>6, <1>7, <2>1, <2>3 DEF Read
  <2>7. Read(k, o)' = 0
    BY <2>4, <2>5, <2>6
  <2> QED
    BY <2>1, <2>2, <2>7 DEF Elements
<1>8. CASE k # K + 1
  <2>1. k \in 1..K /\ k < K + 1 /\ k + 1 \in 1..(K + 1) /\ calls[k] = "arr" /\ K # 0
    BY <1>5, <1>8
  <2>2. objectStack'[k + 1] = objectStack[k + 1] /\ o[k] = opens[k]
    BY <1>5, <1>6, <2>1
  <2>3. /\ objectStack[k + 1] \in Paths /\ Len(objectStack[k + 1]) = k - 1
        /\ Len(objectStack) = K + 1
    BY <1>1, <2>1 DEF JsonInv, JsonTypeOK, StackFollowsBrackets
  <2>4. Len(Slot) = K /\ calls # <<>>
    BY <1>1, <1>2, <2>1, SlotInInnermost
  <2>5. Read(k, o)' = Read(k, opens) + (IF k = K THEN 1 ELSE 0)
    <3>1. Cuts(tokens', opens[k], Len(tokens')) = Cuts(tokens, opens[k], n)
      BY <1>1, <1>2, <1>3, <2>1, OuterStay DEF Reads
    <3>2. Read(k, o)' = Cardinality(Cuts(tokens', opens[k], Len(tokens'))) - 0
      BY <1>5, <2>1, <2>2 DEF Read
    <3>3. Read(k, opens) = Cardinality(Cuts(tokens, opens[k], n)) - (IF k = K THEN 1 ELSE 0)
      BY <1>1, <1>2 DEF Read
    <3>4. Cardinality(Cuts(tokens, opens[k], n)) \in Nat
      <4>1. opens[k] \in 1..n
        BY <1>1, <1>5, <2>1, LongerBrackets DEF Reads, Scans, Kept, Brackets, IsOpen
      <4> QED
        BY <1>5, <4>1, CutsAreFinite
    <3> QED
      BY <3>1, <3>2, <3>3, <3>4
  <2>6. CASE k < K
    <3>1. Children(doc', objectStack[k + 1]) = Children(doc, objectStack[k + 1])
      <4>1. Len(objectStack[k + 1]) + 1 < Len(Slot)
        BY <1>5, <2>1, <2>3, <2>4, <2>6
      <4> QED
        BY <1>2, <1>4, <2>3, <4>1, ChildrenAssigned
    <3>2. k \in 1..Len(calls) /\ k < Len(calls) /\ k < Len(calls')
      BY <1>1, <1>5, <2>1, <2>6
    <3> QED
      BY <1>2, <1>3, <2>1, <2>2, <3>1, <3>2, CountOuter
  <2>7. CASE k = K
    <3>1. Last(calls) = "arr" /\ Top = objectStack[K + 1]
      BY <1>1, <2>1, <2>3, <2>7 DEF Last, Top
    <3>2. PICK m : m = Read(K, opens) /\ m \in Nat /\ Slot = Append(Top, Element(m + 1))
      BY <1>1, <1>2, <1>3, <2>4, <3>1, SlotIsPath
    <3>3. Top \in Paths /\ Len(Top) + 1 = Len(Slot)
      BY <1>5, <2>3, <2>4, <2>7, <3>1
    <3>4. Children(doc', Top) = Children(doc, Top) \union {Slot}
      <4>1. PICK p, q, d, e : p = Top /\ q = Slot /\ d = doc /\ e = doc'
        OBVIOUS
      <4>2. /\ DOMAIN d \subseteq Paths /\ q \in Paths /\ e = Assign(d, q, kind)
            /\ p \in Paths /\ Len(p) + 1 = Len(q) /\ IsPrefix(p, q)
        BY <1>2, <1>4, <3>3, <4>1
      <4>3. Children(e, p) = Children(d, p) \union {q}
        BY <4>2, ChildrenAssigned
      <4> QED
        BY <4>1, <4>3
    <3>5. Children(doc, Top) = Elements(Top, m)
      <4>1. K \in 1..Len(calls) /\ calls[K] = "arr"
        BY <1>1, <2>1, <2>7
      <4>2. Children(doc, objectStack[K + 1]) = Elements(objectStack[K + 1], Read(K, opens))
        BY <4>1 DEF Reads, Counts
      <4> QED
        BY <3>1, <3>2, <4>2
    <3>6. Elements(Top, m + 1) = Elements(Top, m) \union {Slot}
      BY <3>2, <3>3, ElementsOf
    <3> QED
      BY <2>2, <2>5, <2>7, <3>1, <3>2, <3>4, <3>5, <3>6
  <2> QED
    BY <1>5, <2>1, <2>6, <2>7
<1> QED
  BY <1>7, <1>8
-----------------------------------------------------------------------------

(* Every token that is accepted leaves a text that has been read.          *)
LEMMA InnermostCall ==
  ASSUME JsonInv, NEW opens, NEW cuts, Reads(opens, cuts), calls # <<>>
  PROVE  tokens # <<>>
<1>1. 1 <= Len(tokens)
  BY InnermostBracket DEF Reads, JsonInv, JsonTypeOK
<1> QED
  BY <1>1

LEMMA ReadOpen ==
  ASSUME JsonInv, Fills, NEW opens, NEW cuts, Reads(opens, cuts),
         NEW kind \in {"obj", "arr"}, NEW t, t = Bracket(kind),
         NEW first, first = (IF kind = "obj" THEN "first_property" ELSE "first_element"),
         OpenContainer(t, kind, first)
  PROVE  Fills' /\ \E o, c : Reads(o, c)'
<1>0. PICK K, n : K = Len(calls) /\ n = Len(tokens)
  OBVIOUS
<1>1. K = Len(calls) /\ n = Len(tokens) /\ K + 1 \in Nat /\ n + 1 \in Nat
  BY <1>0 DEF JsonInv, JsonTypeOK
<1>2. t \in Opening /\ t \in Tokens /\ Kind(t) = kind
  BY TokenKinds DEF Bracket, Opening
<1>3. opens \in [Nat -> Nat] /\ cuts \in [Nat -> Nat] /\ Scans(opens, cuts)
  BY DEF Reads, Scans
<1>4. PICK o : With(opens, K + 1, n + 1, o)
  BY <1>1, <1>3, WithOne
<1>5. PICK c : With(cuts, K + 1, n + 1, c)
  BY <1>1, <1>3, WithOne
<1>6. first \in {"first_property", "first_element"}
  OBVIOUS
<1>7. With(opens, Len(calls) + 1, Len(tokens) + 1, o) /\ With(cuts, Len(calls) + 1, Len(tokens) + 1, c)
  BY <1>1, <1>4, <1>5
<1>8. Scans(o, c)'
  BY <1>2, <1>3, <1>6, <1>7, ScansOpen
<1>9. Points(o, c)'
  BY <1>2, <1>7, PointsOpen
<1>10. Counts(o)'
  BY <1>2, <1>7, CountsOpen
<1>11. Reads(o, c)'
  BY <1>8, <1>9, <1>10 DEF Reads
<1>12. /\ at \in {"value", "first_element"} /\ at' # "colon" /\ tokens' = Append(tokens, t)
       /\ Store(Kind(t))
  BY <1>2 DEF OpenContainer, Consume
<1>13. Slot = Path(tokens', Len(tokens) + 1)
  BY <1>2, <1>12, SlotIsPath
<1>14. tokens = <<>> => Slot = Root
  BY <1>12, InnermostCall, SlotInInnermost
<1>15. Fills'
  BY <1>2, <1>12, <1>13, <1>14, FillsGrow
<1> QED
  BY <1>11, <1>15

LEMMA ReadScalar ==
  ASSUME JsonInv, Fills, NEW opens, NEW cuts, Reads(opens, cuts),
         NEW t \in Literals, ParseScalar(t)
  PROVE  Fills' /\ Reads(opens, cuts)'
<1>1. t \in Tokens /\ Kind(t) = t /\ t \in Leaves /\ t # "value_separator"
  BY TokenKinds
<1>2. /\ at \in {"value", "first_element"} /\ at' # "colon" /\ tokens' = Append(tokens, t)
      /\ calls' = calls /\ objectStack' = objectStack /\ Store(Kind(t))
  BY <1>1 DEF ParseScalar, Consume, Caller
<1>3. Slot = Path(tokens', Len(tokens) + 1)
  BY <1>1, <1>2, SlotIsPath
<1>4. tokens = <<>> => Slot = Root
  BY <1>2, InnermostCall, SlotInInnermost
<1>5. Fills'
  BY <1>1, <1>2, <1>3, <1>4, FillsGrow
<1>6. Scans(opens, cuts)'
  BY ScansScalar DEF Reads
<1>7. Counts(opens)'
  BY CountsScalar
<1>8. Points(opens, cuts)'
  <2>1. Len(calls') \in 0..Len(calls)
    BY <1>2 DEF JsonInv, JsonTypeOK
  <2> QED
    BY <1>1, <1>2, <2>1, PointsStay DEF Reads
<1> QED
  BY <1>5, <1>6, <1>7, <1>8 DEF Reads

LEMMA ReadName ==
  ASSUME JsonInv, Fills, NEW opens, NEW cuts, Reads(opens, cuts),
         NEW t \in Literals \intersect Names, ParseName(t)
  PROVE  Fills' /\ Reads(opens, cuts)'
<1>1. t \in Tokens /\ t \in Leaves /\ t # "value_separator" /\ t # "name_separator"
  BY TokenKinds
<1>2. /\ at \in {"first_property", "property"} /\ at' = "colon" /\ tokens' = Append(tokens, t)
      /\ calls' = calls /\ objectStack' = objectStack /\ doc' = doc
  BY DEF ParseName, Consume
<1>3. calls # <<>> /\ tokens # <<>>
  BY <1>2, InnermostCall DEF JsonInv, PlacesFit
<1>4. Fills'
  BY <1>1, <1>2, <1>3, FillsStay
<1>5. Scans(opens, cuts)'
  BY ScansName DEF Reads
<1>6. Counts(opens)'
  BY <1>3, CountsStay
<1>7. Points(opens, cuts)'
  <2>1. Len(calls') \in 0..Len(calls)
    BY <1>2 DEF JsonInv, JsonTypeOK
  <2> QED
    BY <1>1, <1>2, <2>1, PointsStay DEF Reads
<1> QED
  BY <1>4, <1>5, <1>6, <1>7 DEF Reads

LEMMA ReadColon ==
  ASSUME JsonInv, Fills, NEW opens, NEW cuts, Reads(opens, cuts), Colon
  PROVE  Fills' /\ Reads(opens, cuts)'
<1>1. PICK t \in Tokens : t = "name_separator" /\ t \notin Opening \union Leaves
  BY TokenKinds DEF Opening
<1>2. /\ at = "colon" /\ tokens' = Append(tokens, t)
      /\ calls' = calls /\ objectStack' = objectStack /\ doc' = doc
  BY <1>1 DEF Colon, Consume
<1>3. calls # <<>> /\ tokens # <<>>
  BY <1>2, InnermostCall DEF JsonInv, PlacesFit
<1>4. Fills'
  BY <1>1, <1>2, <1>3, FillsStay
<1>5. Scans(opens, cuts)'
  BY ScansColon DEF Reads
<1>6. Counts(opens)'
  BY <1>3, CountsStay
<1>7. Points(opens, cuts)'
  <2>1. Len(calls') \in 0..Len(calls)
    BY <1>2 DEF JsonInv, JsonTypeOK
  <2> QED
    BY <1>1, <1>2, <2>1, PointsStay DEF Reads
<1> QED
  BY <1>4, <1>5, <1>6, <1>7 DEF Reads

LEMMA ReadComma ==
  ASSUME JsonInv, Fills, NEW opens, NEW cuts, Reads(opens, cuts), Comma
  PROVE  Fills' /\ \E o, c : Reads(o, c)'
<1>1. PICK t \in Tokens : t = "value_separator" /\ t \notin Opening \union Leaves
  BY TokenKinds DEF Opening
<1>2. /\ at = "more" /\ tokens' = Append(tokens, t)
      /\ calls' = calls /\ objectStack' = objectStack /\ doc' = doc
  BY <1>1 DEF Comma, Consume
<1>3. calls # <<>> /\ tokens # <<>>
  BY <1>2, InnermostCall DEF JsonInv, PlacesFit
<1>4. Fills'
  BY <1>1, <1>2, <1>3, FillsStay
<1>0. PICK K, n : K = Len(calls) /\ n = Len(tokens)
  OBVIOUS
<1>5. K = Len(calls) /\ n = Len(tokens) /\ K \in Nat /\ n + 1 \in Nat
  BY <1>0 DEF JsonInv, JsonTypeOK
<1>6. cuts \in [Nat -> Nat]
  BY DEF Reads, Scans
<1>7. PICK new : With(cuts, K, n + 1, new)
  BY <1>5, <1>6, WithOne
<1>8. With(cuts, Len(calls), Len(tokens) + 1, new)
  BY <1>5, <1>7
<1>9. Scans(opens, new)'
  BY <1>3, <1>8, ScansComma DEF Reads
<1>10. Counts(opens)'
  BY <1>3, CountsStay
<1>11. Points(opens, new)'
  <2>1. Len(calls') \in 0..Len(calls)
    BY <1>2 DEF JsonInv, JsonTypeOK
  <2>2. \A k \in 1..(Len(calls) - 1) : new[k] = cuts[k]
    <3>1. \A k \in 1..(K - 1) : k \in Nat \ {K}
      BY <1>5
    <3> QED
      BY <1>5, <1>7, <3>1 DEF With
  <2> QED
    BY <1>1, <1>2, <2>1, <2>2, PointsStay DEF Reads
<1> QED
  BY <1>4, <1>9, <1>10, <1>11 DEF Reads

LEMMA ReadClose ==
  ASSUME JsonInv, Fills, NEW opens, NEW cuts, Reads(opens, cuts), NEW kind \in {"obj", "arr"},
         NEW t, t = (IF kind = "obj" THEN "end_object" ELSE "end_array"),
         NEW first, first = (IF kind = "obj" THEN "first_property" ELSE "first_element"),
         Close(t, kind, first)
  PROVE  Fills' /\ Reads(opens, cuts)'
<1>1. t \in Tokens /\ t \notin Opening \union Leaves /\ t # "name_separator"
  BY TokenKinds DEF Opening, Closing
<1>2. /\ at \in {"first_property", "first_element", "more"} /\ tokens' = Append(tokens, t)
      /\ at' # "colon"
      /\ calls' = Front(calls) /\ objectStack' = Front(objectStack) /\ doc' = doc
  BY DEF Close, Consume, Caller
<1>3. calls # <<>> /\ tokens # <<>>
  BY <1>2, InnermostCall DEF JsonInv, PlacesFit
<1>4. Fills'
  BY <1>1, <1>2, <1>3, FillsStay
<1>5. Scans(opens, cuts)'
  BY ScansClose DEF Reads
<1>6. Counts(opens)'
  BY <1>1, <1>3, CountsStay
<1>7. Points(opens, cuts)'
  <2>1. PICK K : K = Len(calls) /\ K \in Nat \ {0}
    BY <1>3, InnermostBracket DEF Reads
  <2>2. calls \in Seq({"obj", "arr"}) /\ objectStack \in Seq(Paths) /\ Len(objectStack) = K + 1
    BY <2>1 DEF JsonInv, JsonTypeOK, StackFollowsBrackets
  <2>3. Len(calls') = K - 1
    BY <1>2, <1>3, <2>1, <2>2, FrontOfSequence
  <2>4. \A i \in 1..K : objectStack'[i] = objectStack[i]
    <3>1. objectStack # <<>> /\ 1..Len(objectStack) - 1 = 1..K
      BY <2>1, <2>2
    <3>2. \A i \in 1..Len(objectStack) - 1 : Front(objectStack)[i] = objectStack[i]
      BY <2>2, <3>1, FrontOfSequence
    <3> QED
      BY <1>2, <3>1, <3>2
  <2>5. Len(calls') \in 0..Len(calls) /\ \A k \in 1..Len(calls') : objectStack'[k + 1] = objectStack[k + 1]
    <3>1. \A k \in 1..(K - 1) : k + 1 \in 1..K
      BY <2>1
    <3> QED
      BY <2>1, <2>3, <2>4, <3>1
  <2> QED
    BY <1>1, <1>2, <2>5, PointsStay DEF Reads
<1> QED
  BY <1>4, <1>5, <1>6, <1>7 DEF Reads
-----------------------------------------------------------------------------

(* A text with a token more can only be JSON when that token closes the    *)
(* one bracket that is open.                                               *)
LEMMA LastCloses ==
  ASSUME NEW s, NEW u, NEW n \in Nat, Agree(s, u, n), Len(u) = n + 1, IsJson(u),
         NEW depth \in Nat \ {0}, NEW opens, NEW cuts, Brackets(s, n, depth, opens, cuts)
  PROVE  LET a == opens[depth]
             c == cuts[depth]
         IN  /\ \/ s[a] = "begin_object" /\ u[n + 1] = "end_object"
                \/ s[a] = "begin_array" /\ u[n + 1] = "end_array"
             /\ a = n \/ IsPart(s, a, c, n + 1)
<1>1. PICK m : m = n + 1 /\ m - 1 = n /\ m \in Nat /\ n < m
  OBVIOUS
<1>2. PICK c : c = cuts[1]
  OBVIOUS
<1>3. opens[1] = 1 /\ IsOpen(s, n, 1, 1) /\ IsCut(s, n, 1, c) /\ Depth(s, n) = depth
  <2>1. 1 \in 1..depth /\ depth > 0
    OBVIOUS
  <2>2. opens[1] = 1 /\ Depth(s, n) = depth
    BY <2>1 DEF Brackets
  <2>3. IsOpen(s, n, 1, opens[1]) /\ IsCut(s, n, opens[1], cuts[1])
    BY <2>1 DEF Brackets
  <2> QED
    BY <1>2, <2>2, <2>3
<1>4. 1 \in 1..n /\ s[1] \in Opening /\ u[1] = s[1] /\ 1 < m
  BY <1>1, <1>3 DEF IsOpen, Agree
<1>5. \A i \in 0..n : Depth(u, i) = Depth(s, i)
  BY SameDepth
<1>6. Depth(u, 1) = 1 /\ Depth(u, n) = depth /\ \A j \in 1..n : Depth(u, j) >= 1
  <2>1. Depth(s, 1) = 1 /\ \A j \in 1..n : Depth(s, j) >= 1
    BY <1>3 DEF IsOpen
  <2>2. \A j \in 1..n : j \in 0..n
    OBVIOUS
  <2>3. n \in 0..n
    OBVIOUS
  <2> QED
    BY <1>3, <1>4, <1>5, <2>1, <2>2, <2>3
<1>7. Closes(u, 1, m)
  BY <1>1, <1>4 DEF IsJson, IsValue
<1>8. /\ \/ s[1] = "begin_object" /\ u[m] = "end_object"
         \/ s[1] = "begin_array" /\ u[m] = "end_array"
      /\ Depth(u, m) < 1
  BY <1>4, <1>6, <1>7 DEF Closes
<1>9. depth = 1
  <2>1. u[m] \in Closing
    BY <1>8 DEF Closing
  <2>2. Depth(u, m) = Depth(u, n) - 1
    BY <1>1, <2>1, DepthSteps
  <2> QED
    BY <1>6, <1>8, <2>2
<1>10. IsContainer(u, 1, m)
  <2>1. PICK b \in 1..m : IsContainer(u, 1, b)
    <3>1. 1 \in 1..Len(u) /\ u[1] \in Opening /\ Len(u) = m
      BY <1>1, <1>4
    <3> QED
      BY <3>1 DEF IsJson
  <2>2. Depth(u, b) < 1
    BY <1>6, <2>1 DEF IsContainer, Closes
  <2>3. ~(b \in 1..n)
    <3>1. ASSUME b \in 1..n PROVE FALSE
      <4>1. Depth(u, b) >= 1
        BY <1>6, <3>1
      <4>2. b \in Nat /\ Depth(u, b) \in Int
        BY <3>1, DepthSteps
      <4> QED
        BY <2>2, <4>1, <4>2
    <3> QED
      BY <3>1
  <2>4. b = m
    BY <1>1, <2>1, <2>3
  <2> QED
    BY <2>1, <2>4
<1>11. 1 = n \/ IsPart(s, 1, c, m)
  <2>1. SUFFICES ASSUME 1 # n PROVE IsPart(s, 1, c, m)
    OBVIOUS
  <2>2. Commas(u, 1, n) = Commas(s, 1, n)
    BY <1>4, SameCloses
  <2>3. Commas(u, 1, m - 1) = Commas(u, 1, n)
    BY <1>1
  <2>4. c \in {1} \union Commas(s, 1, n) /\ c \in 1..n /\ c < m
    <3>1. c \in Cuts(s, 1, n)
      BY <1>3 DEF IsCut
    <3>2. c \in {1} \union Commas(s, 1, n)
      BY <3>1 DEF Cuts
    <3> QED
      BY <1>1, <1>4, <3>2 DEF Commas
  <2>5. Commas(u, 1, m - 1) \subseteq 1..c
    <3>1. ASSUME NEW d \in Commas(s, 1, n) PROVE d \in 1..c
      <4>1. d <= c
        BY <1>3 DEF IsCut, Cuts
      <4>2. d \in 1..n
        BY DEF Commas
      <4> QED
        BY <2>4, <4>1, <4>2
    <3> QED
      BY <2>2, <2>3, <3>1
  <2>6. \A e, d \in {1, m} \union Commas(u, 1, m - 1) :
           e < d /\ Commas(u, 1, d - 1) \subseteq 1..e => IsPart(u, 1, e, d)
    <3>1. m # 1 + 1
      BY <1>1, <2>1
    <3> QED
      BY <1>10, <3>1 DEF IsContainer
  <2>7. c \in {1, m} \union Commas(u, 1, m - 1) /\ m \in {1, m} \union Commas(u, 1, m - 1)
    BY <2>2, <2>3, <2>4
  <2>8. IsPart(u, 1, c, m)
    BY <2>4, <2>5, <2>6, <2>7
  <2>9. c \in 1..n /\ m \in 1..(n + 1)
    BY <1>1, <2>4
  <2> QED
    BY <1>4, <2>8, <2>9, SamePart
<1> QED
  BY <1>1, <1>2, <1>3, <1>8, <1>9, <1>11

LEMMA NoPart ==
  ASSUME NEW s, NEW a, NEW c \in Nat, NEW n \in Nat, c < n + 1,
         \/ Begun(s, a, c, n + 1)
         \/ s[a] = "begin_object" /\ (c = n \/ c + 1 = n)
  PROVE  ~IsPart(s, a, c, n + 1)
<1>1. PICK m : m = n + 1 /\ m - 1 = n /\ m \in Nat /\ n < m
  OBVIOUS
<1>2. ~IsValue(s, m, n)
  BY <1>1 DEF IsValue, Closes
<1>3. ASSUME s[a] = "begin_object", c = n \/ c + 1 = n PROVE ~IsPart(s, a, c, m)
  BY <1>1, <1>3 DEF IsPart
<1>4. ASSUME Begun(s, a, c, m) PROVE ~IsPart(s, a, c, m)
  BY <1>1, <1>2, <1>4 DEF IsPart, Begun
<1> QED
  BY <1>1, <1>3, <1>4

(* The parser throws at no token that a JSON text has there.               *)
LEMMA ThrownIsNoJson ==
  ASSUME JsonInv, NEW opens, NEW cuts, Scans(opens, cuts), NEW t \in Tokens, Throw(t)
  PROVE  ~IsJson(tokens')
<1> SUFFICES ASSUME IsJson(tokens') PROVE FALSE
  OBVIOUS
<1>1. PICK K, n, a, c : K = Len(calls) /\ n = Len(tokens) /\ a = opens[K] /\ c = cuts[K]
  OBVIOUS
<1>2. PICK u : u = tokens'
  OBVIOUS
<1>3. at \notin {"done", "error"} /\ t \notin Fitting /\ u = Append(tokens, t) /\ IsJson(u)
  BY <1>2 DEF Throw, Consume
<1>4. /\ n \in Nat /\ K \in Nat /\ Agree(tokens, u, n) /\ u[n + 1] = t
      /\ Len(u) = n + 1 /\ (K = 0 <=> calls = <<>>)
  BY <1>1, <1>2, <1>3, OneMore
<1>5. Brackets(tokens, n, K, opens, cuts)
  BY <1>1 DEF Scans
<1>6. CASE calls = <<>>
  <2>1. Closes(u, 1, n + 1) \/ (n = 0 /\ t \in Leaves)
    BY <1>3, <1>4 DEF IsJson, IsValue
  <2>2. CASE n = 0
    <3>1. at = "value"
      BY <1>1, <1>3, <1>6, <2>2 DEF Scans, Stands, IsValue, Closes
    <3>2. t \notin Literals
      BY <1>3, <3>1 DEF Fitting
    <3>3. ~Closes(u, 1, n + 1)
      BY <2>2 DEF Closes
    <3> QED
      BY <2>1, <3>2, <3>3, JsonConstants DEF Tokens
  <2>3. CASE n # 0
    <3>1. Closes(u, 1, n + 1) /\ 1 \in 1..n /\ n \in 1..n /\ n \in 0..n
      BY <1>4, <2>1, <2>3
    <3>2. u[1] \in Opening /\ Depth(u, n) >= Depth(u, 1)
      BY <3>1 DEF Closes, Opening
    <3>3. Depth(u, 1) = 1
      <4>1. 0 \in Nat /\ 0 + 1 = 1
        OBVIOUS
      <4> QED
        BY <3>2, <4>1, DepthSteps
    <3>4. Depth(u, n) = 0
      BY <1>4, <1>5, <1>6, <3>1, SameDepth DEF Brackets
    <3> QED
      BY <3>2, <3>3, <3>4
  <2> QED
    BY <2>2, <2>3
<1>7. CASE calls # <<>>
  <2>1. /\ K \in Nat \ {0} /\ a \in 1..n /\ c \in a..n /\ tokens[a] = Bracket(Last(calls))
        /\ Last(calls) \in {"obj", "arr"}
    BY <1>1, <1>7, InnermostBracket
  <2>2. /\ \/ tokens[a] = "begin_object" /\ t = "end_object"
           \/ tokens[a] = "begin_array" /\ t = "end_array"
        /\ a = n \/ IsPart(tokens, a, c, n + 1)
    <3>1. Len(u) = n + 1 /\ IsJson(u) /\ Brackets(tokens, n, K, opens, cuts)
      BY <1>3, <1>4, <1>5
    <3>2. /\ \/ tokens[opens[K]] = "begin_object" /\ u[n + 1] = "end_object"
             \/ tokens[opens[K]] = "begin_array" /\ u[n + 1] = "end_array"
          /\ opens[K] = n \/ IsPart(tokens, opens[K], cuts[K], n + 1)
      BY <1>4, <2>1, <3>1, LastCloses
    <3> QED
      BY <1>1, <1>4, <3>2
  <2>3. t = IF Last(calls) = "obj" THEN "end_object" ELSE "end_array"
    BY <2>1, <2>2 DEF Bracket
  <2>4. /\ at = "first_element" => Last(calls) = "arr"
        /\ at \in {"first_property", "property", "colon"} => Last(calls) = "obj"
    BY <1>7 DEF JsonInv, PlacesFit
  <2>5. at \notin {"first_element", "first_property", "more"}
    BY <1>3, <2>3, <2>4 DEF Fitting
  <2>6. /\ a < n
        /\ \/ Begun(tokens, a, c, n + 1)
           \/ at \in {"property", "colon"} /\ (c = n \/ c + 1 = n)
    <3>1. \/ at = "value" /\ a < n /\ Begun(tokens, a, c, n + 1)
          \/ at = "property" /\ a < n /\ c = n
          \/ at = "colon" /\ c + 1 = n
      BY <1>1, <1>3, <1>7, <2>5 DEF Scans, Stands
    <3> QED
      BY <1>4, <2>1, <3>1
  <2>7. Begun(tokens, a, c, n + 1) \/ (tokens[a] = "begin_object" /\ (c = n \/ c + 1 = n))
    BY <2>1, <2>4, <2>6 DEF Bracket
  <2>8. ~IsPart(tokens, a, c, n + 1)
    <3>1. c \in Nat /\ c < n + 1
      BY <1>4, <2>1
    <3> QED
      BY <1>4, <2>7, <3>1, NoPart
  <2> QED
    BY <1>4, <2>1, <2>2, <2>6, <2>8
<1> QED
  BY <1>6, <1>7

(* Nor is a text JSON that ends in the middle.                             *)
LEMMA EndedIsNoJson ==
  ASSUME JsonInv, NEW opens, NEW cuts, Scans(opens, cuts), at \notin {"end", "done", "error"}
  PROVE  ~IsJson(tokens)
<1> SUFFICES ASSUME IsValue(tokens, 1, Len(tokens)) PROVE FALSE
  BY DEF IsJson
<1>1. PICK K, n : K = Len(calls) /\ n = Len(tokens)
  OBVIOUS
<1>2. n \in Nat /\ K \in Nat /\ IsValue(tokens, 1, n)
  BY <1>1 DEF JsonInv, JsonTypeOK
<1>3. CASE calls = <<>>
  <2>1. n = 0
    BY <1>1, <1>3 DEF Scans, Stands
  <2> QED
    BY <1>2, <2>1 DEF IsValue, Closes
<1>4. CASE calls # <<>>
  <2>1. K \in Nat \ {0} /\ Depth(tokens, n) = K
    BY <1>1, <1>4, InnermostBracket
  <2>2. IsOpen(tokens, n, 1, 1)
    <3>1. 1 \in 1..K /\ K > 0
      BY <2>1
    <3>2. Brackets(tokens, n, K, opens, cuts)
      BY <1>1 DEF Scans
    <3>3. IsOpen(tokens, n, 1, opens[1]) /\ opens[1] = 1
      BY <3>1, <3>2 DEF Brackets
    <3> QED
      BY <3>3
  <2>3. tokens[1] \in Opening /\ Depth(tokens, 1) = 1
    BY <2>2 DEF IsOpen
  <2>4. ~Closes(tokens, 1, n)
    BY <2>1, <2>3 DEF Closes
  <2> QED
    BY <1>2, <2>3, <2>4, TokenKinds DEF IsValue
<1> QED
  BY <1>3, <1>4
-----------------------------------------------------------------------------

(* Before the first token, and behind the last.                            *)
Started == tokens = <<>> /\ calls = <<>> /\ at = "value" /\ doc = NullValue

LEMMA ReadNothing == Started => ParseInv
<1> SUFFICES ASSUME Started PROVE Fills /\ \E opens, cuts : Reads(opens, cuts)
  BY DEF ParseInv, Started
<1>1. tokens = <<>> /\ calls = <<>> /\ at = "value" /\ doc = NullValue
  BY DEF Started
<1>2. Len(tokens) = 0 /\ Len(calls) = 0 /\ 1..0 = {}
  BY <1>1
<1>3. Fills
  BY <1>1, <1>2 DEF Fills, Stored
<1>4. PICK f : f = [i \in Nat |-> i]
  OBVIOUS
<1>5. f \in [Nat -> Nat]
  BY <1>4
<1>6. Brackets(tokens, 0, 0, f, f)
  <2>1. Depth(tokens, 0) = 0
    <3>1. 0 \in Nat
      OBVIOUS
    <3> QED
      BY <3>1, DepthSteps
  <2>2. 1..(0 - 1) = {}
    OBVIOUS
  <2> QED
    BY <1>2, <2>1, <2>2 DEF Brackets
<1>7. Scans(f, f)
  BY <1>1, <1>2, <1>5, <1>6 DEF Scans, Stands
<1>8. Points(f, f) /\ Counts(f)
  BY <1>2 DEF Points, Counts
<1> QED
  BY <1>3, <1>7, <1>8 DEF Reads

LEMMA ReadEnd ==
  ASSUME JsonInv, Fills, NEW opens, NEW cuts, Reads(opens, cuts),
         EmptySource \/ (EndOfStream /\ at = "end")
  PROVE  Fills' /\ Reads(opens, cuts)'
<1>1. /\ at \in {"value", "end"} /\ at' = "done"
      /\ at = "value" => tokens = <<>>
      /\ tokens' = tokens /\ calls' = calls /\ objectStack' = objectStack
      /\ currentProperty' = currentProperty /\ doc' = doc
  BY DEF EmptySource, EndOfStream
<1>2. calls = <<>>
  <2>1. at = "value" => calls = <<>>
    BY <1>1, InnermostCall
  <2>2. at = "end" => calls = <<>>
    BY DEF Reads, Scans, Stands
  <2> QED
    BY <1>1, <2>1, <2>2
<1>3. Fills'
  <2>1. Stored' = Stored
    BY <1>1 DEF Stored
  <2> QED
    BY <1>1, <2>1 DEF Fills
<1>4. Stands(opens, cuts)'
  <2>1. at = "value" => Len(tokens) = 0
    BY <1>1
  <2>2. at = "end" => IsValue(tokens, 1, Len(tokens))
    BY <1>2 DEF Reads, Scans, Stands
  <2> QED
    BY <1>1, <1>2, <2>1, <2>2 DEF Stands
<1>5. Scans(opens, cuts)'
  BY <1>1, <1>4 DEF Reads, Scans
<1>6. Points(opens, cuts)'
  BY <1>1 DEF Reads, Points
<1>7. Counts(opens)'
  <2>1. 1..Len(calls') = {}
    BY <1>1, <1>2
  <2> QED
    BY <2>1 DEF Counts
<1> QED
  BY <1>3, <1>5, <1>6, <1>7 DEF Reads

LEMMA StepParses ==
  ASSUME JsonInv, Step, at # "error" => Fills /\ \E opens, cuts : Reads(opens, cuts)
  PROVE  /\ at' # "error" => Fills' /\ \E opens, cuts : Reads(opens, cuts)'
         /\ at' = "error" => ~IsJson(tokens')
<1>1. at \notin {"done", "error"}
  <2>1. /\ OpenObject => at # "done" /\ at # "error"
        /\ OpenArray => at # "done" /\ at # "error"
    BY DEF OpenObject, OpenArray, OpenContainer
  <2>2. \A t : ParseScalar(t) \/ ParseName(t) \/ Throw(t) => at # "done" /\ at # "error"
    BY DEF ParseScalar, ParseName, Throw
  <2>3. Colon \/ Comma \/ EndOfStream \/ EmptySource => at # "done" /\ at # "error"
    BY DEF Colon, Comma, EndOfStream, EmptySource
  <2>4. CloseObject \/ CloseArray => at # "done" /\ at # "error"
    BY DEF CloseObject, CloseArray, Close
  <2> QED
    BY <2>1, <2>2, <2>3, <2>4 DEF Step
<1>2. PICK opens, cuts : Reads(opens, cuts)
  BY <1>1
<1>3. Fills /\ Scans(opens, cuts)
  BY <1>1, <1>2 DEF Reads
<1>4. CASE OpenObject
  <2>1. PICK t, kind, first : t = "begin_object" /\ kind = "obj" /\ first = "first_property"
    OBVIOUS
  <2>2. /\ kind \in {"obj", "arr"} /\ t = Bracket(kind) /\ OpenContainer(t, kind, first)
        /\ first = IF kind = "obj" THEN "first_property" ELSE "first_element"
    BY <1>4, <2>1 DEF OpenObject, Bracket
  <2>3. at' # "error"
    BY <2>1, <2>2 DEF OpenContainer
  <2> QED
    BY <1>2, <1>3, <2>2, <2>3, ReadOpen
<1>5. CASE OpenArray
  <2>1. PICK t, kind, first : t = "begin_array" /\ kind = "arr" /\ first = "first_element"
    OBVIOUS
  <2>2. /\ kind \in {"obj", "arr"} /\ t = Bracket(kind) /\ OpenContainer(t, kind, first)
        /\ first = IF kind = "obj" THEN "first_property" ELSE "first_element"
    BY <1>5, <2>1 DEF OpenArray, Bracket
  <2>3. at' # "error"
    BY <2>1, <2>2 DEF OpenContainer
  <2> QED
    BY <1>2, <1>3, <2>2, <2>3, ReadOpen
<1>6. ASSUME NEW t \in Literals, ParseScalar(t)
      PROVE  at' # "error" /\ Fills' /\ Reads(opens, cuts)'
  <2>1. at' # "error"
    BY <1>6 DEF ParseScalar, Caller
  <2> QED
    BY <1>2, <1>3, <1>6, <2>1, ReadScalar
<1>7. ASSUME NEW t \in Literals \intersect Names, ParseName(t)
      PROVE  at' # "error" /\ Fills' /\ Reads(opens, cuts)'
  <2>1. at' # "error"
    BY <1>7 DEF ParseName
  <2> QED
    BY <1>2, <1>3, <1>7, <2>1, ReadName
<1>8. CASE Colon
  <2>1. at' # "error"
    BY <1>8 DEF Colon
  <2> QED
    BY <1>2, <1>3, <1>8, <2>1, ReadColon
<1>9. CASE Comma
  <2>1. at' # "error"
    BY <1>9 DEF Comma
  <2> QED
    BY <1>2, <1>3, <1>9, <2>1, ReadComma
<1>10. CASE CloseObject
  <2>1. PICK t, kind, first : t = "end_object" /\ kind = "obj" /\ first = "first_property"
    OBVIOUS
  <2>2. /\ kind \in {"obj", "arr"} /\ Close(t, kind, first)
        /\ t = IF kind = "obj" THEN "end_object" ELSE "end_array"
        /\ first = IF kind = "obj" THEN "first_property" ELSE "first_element"
    BY <1>10, <2>1 DEF CloseObject
  <2>3. at' # "error"
    BY <2>2 DEF Close, Caller
  <2> QED
    BY <1>2, <1>3, <2>2, <2>3, ReadClose
<1>11. CASE CloseArray
  <2>1. PICK t, kind, first : t = "end_array" /\ kind = "arr" /\ first = "first_element"
    OBVIOUS
  <2>2. /\ kind \in {"obj", "arr"} /\ Close(t, kind, first)
        /\ t = IF kind = "obj" THEN "end_object" ELSE "end_array"
        /\ first = IF kind = "obj" THEN "first_property" ELSE "first_element"
    BY <1>11, <2>1 DEF CloseArray
  <2>3. at' # "error"
    BY <2>2 DEF Close, Caller
  <2> QED
    BY <1>2, <1>3, <2>2, <2>3, ReadClose
<1>12. ASSUME NEW t \in Tokens, Throw(t) PROVE at' = "error" /\ ~IsJson(tokens')
  <2>1. at' = "error"
    BY <1>12 DEF Throw
  <2> QED
    BY <1>3, <1>12, <2>1, ThrownIsNoJson
<1>13. CASE EndOfStream /\ at # "end"
  <2>1. at' = "error" /\ tokens' = tokens
    BY <1>13 DEF EndOfStream
  <2> QED
    BY <1>1, <1>3, <1>13, <2>1, EndedIsNoJson
<1>14. CASE EmptySource \/ (EndOfStream /\ at = "end")
  <2>1. at' # "error"
    BY <1>14 DEF EmptySource, EndOfStream
  <2> QED
    BY <1>2, <1>3, <1>14, <2>1, ReadEnd
<1> QED
  BY <1>4, <1>5, <1>6, <1>7, <1>8, <1>9, <1>10, <1>11, <1>12, <1>13, <1>14 DEF Step

LEMMA ParseInvNext == PathInv /\ ParseInv /\ [PathNext]_pathVars => ParseInv'
<1> SUFFICES ASSUME PathInv, ParseInv, [PathNext]_pathVars PROVE ParseInv'
  OBVIOUS
<1>1. CASE ParseBody
  <2>1. Step /\ hops' = hops /\ JsonInv
    BY <1>1 DEF ParseBody, PathInv
  <2>2. CASE hops = 0
    <3>1. at # "error" => Fills /\ \E opens, cuts : Reads(opens, cuts)
      BY <2>2 DEF ParseInv
    <3>2. /\ at' # "error" => Fills' /\ \E opens, cuts : Reads(opens, cuts)'
          /\ at' = "error" => ~IsJson(tokens')
      BY <2>1, <3>1, StepParses
    <3> QED
      BY <3>2 DEF ParseInv
  <2>3. CASE hops # 0
    <3>1. at = "done"
      BY <2>3 DEF PathInv
    <3> QED
      BY <2>1, <3>1 DEF Step, OpenObject, OpenArray, OpenContainer, ParseScalar, ParseName, Colon,
                        Comma, CloseObject, CloseArray, Close, Throw, EndOfStream, EmptySource
  <2> QED
    BY <2>2, <2>3
<1>2. CASE ParseNext
  <2>1. Started'
    BY <1>2 DEF ParseNext, Parse, Fresh, Started
  <2>2. Started' => ParseInv'
    BY ReadNothing, PTL
  <2> QED
    BY <2>1, <2>2
<1>3. CASE Run
  <2>1. hops \in Nat /\ hops' = hops + 1 /\ at' # "error"
    BY <1>3 DEF Run, PathInv
  <2>2. hops' # 0
    BY <2>1
  <2> QED
    BY <2>1, <2>2 DEF ParseInv
<1>4. CASE UNCHANGED pathVars
  <2>1. /\ tokens' = tokens /\ at' = at /\ calls' = calls /\ objectStack' = objectStack
        /\ currentProperty' = currentProperty /\ doc' = doc /\ hops' = hops
    BY <1>4 DEF pathVars, parserVars
  <2>2. Fills' <=> Fills
    BY <2>1 DEF Fills, Stored
  <2>3. ASSUME NEW opens, NEW cuts, Reads(opens, cuts) PROVE Reads(opens, cuts)'
    <3>1. Stands(opens, cuts)'
      BY <2>1, <2>3 DEF Reads, Scans, Stands
    <3>2. Scans(opens, cuts)'
      BY <2>1, <2>3, <3>1 DEF Reads, Scans
    <3>3. Points(opens, cuts)'
      BY <2>1, <2>3 DEF Reads, Points
    <3>4. Counts(opens)'
      <4>1. \A k : Read(k, opens)' = Read(k, opens)
        BY <2>1 DEF Read
      <4> QED
        BY <2>1, <2>3, <4>1 DEF Reads, Counts
    <3> QED
      BY <3>2, <3>3, <3>4 DEF Reads
  <2>4. (\E opens, cuts : Reads(opens, cuts)) => \E opens, cuts : Reads(opens, cuts)'
    BY <2>3
  <2> QED
    BY <2>1, <2>2, <2>4 DEF ParseInv
<1> QED
  BY <1>1, <1>2, <1>3, <1>4 DEF PathNext

(* What has been read when the parser is done.                             *)
LEMMA DoneIsJson ==
  ASSUME PathInv, ParseInv
  PROVE  ParsesJson
<1>1. ASSUME hops = 0, at = "done", tokens = <<>> PROVE doc = NullValue
  BY <1>1 DEF ParseInv, Fills
<1>2. ASSUME hops = 0, at = "done", tokens # <<>> PROVE IsJson(tokens) /\ doc = ValueOf(tokens)
  <2>1. PICK n : n = Len(tokens)
    OBVIOUS
  <2>2. calls = <<>> /\ Len(calls) = 0 /\ Fills /\ n # 0
    BY <1>2, <2>1 DEF PathInv, ParseInv, JsonInv, JsonTypeOK
  <2>3. PICK opens, cuts : Reads(opens, cuts)
    BY <1>2 DEF ParseInv
  <2>4. IsValue(tokens, 1, n)
    BY <1>2, <2>1, <2>2, <2>3 DEF Reads, Scans, Stands
  <2>5. Brackets(tokens, n, 0, opens, cuts)
    BY <2>1, <2>2, <2>3 DEF Reads, Scans
  <2>6. ASSUME NEW a \in 1..n, tokens[a] \in Opening
        PROVE  \E b \in 1..n : IsContainer(tokens, a, b)
    BY <2>5, <2>6 DEF Brackets
  <2>7. IsJson(tokens)
    BY <2>1, <2>4, <2>6 DEF IsJson
  <2>8. Stored = {i \in 1..n : /\ tokens[i] \in Opening \union Leaves
                               /\ i < n => tokens[i + 1] # "name_separator"}
    BY <1>2, <2>1 DEF Stored
  <2>9. doc = ValueAt(tokens, Stored)
    BY <1>2, <2>2 DEF Fills
  <2> QED
    BY <2>1, <2>7, <2>8, <2>9 DEF ValueOf
<1>3. ASSUME at = "error" PROVE ~IsJson(tokens)
  BY <1>3 DEF ParseInv
<1> QED
  BY <1>1, <1>2, <1>3 DEF ParsesJson

(* The parser accepts the JSON texts and no other, and fills the value     *)
(* that a text denotes (json/Parser.hpp).                                  *)
THEOREM TextsAreParsed == PathSpec => []ParsesJson
<1>1. PathInit => ParseInv
  <2>1. PathInit => Started
    BY DEF PathInit, Init, Started
  <2> QED
    BY <2>1, ReadNothing
<1>2. PathInv /\ ParseInv => ParsesJson
  BY DoneIsJson
<1> QED
  BY PathInvInit, PathInvNext, ParseInvNext, <1>1, <1>2, PTL DEF PathSpec

-----------------------------------------------------------------------------

(* The elements of an array are numbered, what is in an object has names.  *)
EntriesFit(d) ==
    \A p \in DOMAIN d :
        /\ d[p] = "arr" => Children(d, p) = Elements(p, Cardinality(Children(d, p)))
        /\ d[p] = "obj" => \A q \in Children(d, p) :
                              \E name \in Names : q = Append(p, Property(name))

LEMMA ChildrenElsewhere ==
  ASSUME NEW d, DOMAIN d \subseteq Paths, NEW q \in Paths, NEW kind, NEW e, e = Assign(d, q, kind),
         NEW p \in DOMAIN d, ~IsPrefix(q, p), ~(Len(p) + 1 = Len(q) /\ IsPrefix(p, q))
  PROVE  Children(e, p) = Children(d, p)
<1>1. DOMAIN e = {r \in DOMAIN d : ~IsPrefix(q, r)} \union {q}
  BY DEF Assign, Below
<1>2. DOMAIN e \subseteq Paths /\ \A r \in Paths : Len(r) \in Nat
  BY <1>1 DEF Paths
<1>3. ASSUME NEW r \in DOMAIN d, IsPrefix(p, r), Len(r) = Len(p) + 1 PROVE ~IsPrefix(q, r)
  <2> SUFFICES ASSUME IsPrefix(q, r) PROVE FALSE
    OBVIOUS
  <2>1. p \in Paths /\ r \in Paths /\ Len(p) \in Nat /\ Len(q) \in Nat /\ Len(r) \in Nat
    BY <1>2
  <2>2. Len(q) <= Len(r) /\ \A i \in 1..Len(q) : q[i] = r[i]
    BY <2>1, PrefixByElements
  <2>3. \A i \in 1..Len(p) : p[i] = r[i]
    BY <1>3, <2>1, PrefixByElements
  <2>4. CASE Len(q) <= Len(p)
    <3>1. \A i \in 1..Len(q) : i \in 1..Len(p) /\ q[i] = p[i]
      BY <2>1, <2>2, <2>3, <2>4
    <3> QED
      BY <2>1, <2>4, <3>1, PrefixByElements
  <2>5. CASE ~(Len(q) <= Len(p))
    <3>1. Len(p) + 1 = Len(q)
      BY <1>3, <2>1, <2>2, <2>5
    <3>2. \A i \in 1..Len(p) : i \in 1..Len(q) /\ p[i] = q[i]
      BY <2>1, <2>2, <2>3, <3>1
    <3>3. IsPrefix(p, q)
      BY <2>1, <3>1, <3>2, PrefixByElements
    <3> QED
      BY <3>1, <3>3
  <2> QED
    BY <2>4, <2>5
<1>4. \A r : r \in Children(e, p) <=> r \in DOMAIN e /\ IsPrefix(p, r) /\ Len(r) = Len(p) + 1
  BY DEF Children, Below
<1>5. \A r : r \in Children(d, p) <=> r \in DOMAIN d /\ IsPrefix(p, r) /\ Len(r) = Len(p) + 1
  BY DEF Children, Below
<1> QED
  BY <1>1, <1>3, <1>4, <1>5

LEMMA StoreFits ==
  ASSUME JsonInv, EntriesFit(doc), at \in {"value", "first_element"},
         NEW kind \in Kinds, Store(kind)
  PROVE  EntriesFit(doc')
<1>1. PICK d, e, s : d = doc /\ e = doc' /\ s = Slot
  OBVIOUS
<1>2. /\ DOMAIN d \subseteq Paths /\ s \in Paths /\ e = Assign(d, s, kind)
      /\ Top \in Paths /\ Top \in DOMAIN d /\ IsPrefix(Top, s)
  <2>1. Len(objectStack) = Len(calls) + 1 /\ Len(calls) \in Nat /\ objectStack \in Seq(Paths)
    BY DEF JsonInv, JsonTypeOK, StackFollowsBrackets
  <2>2. Top = objectStack[Len(calls) + 1] /\ Len(calls) + 1 \in 1..Len(objectStack)
    BY <2>1 DEF Top, Last
  <2> QED
    BY <1>1, <2>1, <2>2, SlotInInnermost DEF JsonInv, JsonTypeOK, StackFollowsBrackets, Store
<1>3. \A p \in DOMAIN e : p = s \/ (p \in DOMAIN d /\ ~IsPrefix(s, p) /\ e[p] = d[p])
  BY <1>2 DEF Assign, Below
<1>4. e[s] = kind /\ Children(e, s) = {}
  <2>1. e[s] = kind
    BY <1>2 DEF Assign
  <2>2. Children(e, s) = {}
    BY <1>2, ChildrenAssigned
  <2> QED
    BY <2>1, <2>2
<1> SUFFICES ASSUME NEW p \in DOMAIN e
             PROVE  /\ e[p] = "arr" => Children(e, p) = Elements(p, Cardinality(Children(e, p)))
                    /\ e[p] = "obj" => \A q \in Children(e, p) :
                                          \E name \in Names : q = Append(p, Property(name))
  BY <1>1 DEF EntriesFit
<1>5. CASE p = s
  <2>1. Children(e, p) = {} /\ Cardinality({}) = 0
    BY <1>4, <1>5, FS_EmptySet
  <2>2. Elements(p, 0) = {}
    BY DEF Elements
  <2> QED
    BY <2>1, <2>2
<1>6. CASE p # s /\ ~(Len(p) + 1 = Len(s) /\ IsPrefix(p, s))
  <2>1. p \in DOMAIN d /\ ~IsPrefix(s, p) /\ e[p] = d[p]
    BY <1>3, <1>6
  <2>2. Children(e, p) = Children(d, p)
    BY <1>2, <1>6, <2>1, ChildrenElsewhere
  <2> QED
    BY <1>1, <2>1, <2>2 DEF EntriesFit
<1>7. CASE p # s /\ Len(p) + 1 = Len(s) /\ IsPrefix(p, s)
  <2>1. p \in DOMAIN d /\ p \in Paths /\ e[p] = d[p]
    BY <1>2, <1>3, <1>7
  <2>2. Children(e, p) = Children(d, p) \union {s}
    BY <1>2, <1>7, <2>1, ChildrenAssigned
  <2>3. calls # <<>> /\ Len(s) = Len(calls) /\ Len(calls) \in Nat /\ Len(p) \in Nat
    <3>1. Len(p) \in Nat
      BY <2>1 DEF Paths
    <3>2. s # Root
      BY <1>7, <3>1 DEF Root
    <3> QED
      BY <1>1, <3>1, <3>2, SlotInInnermost DEF JsonInv, JsonTypeOK
  <2>4. Top = objectStack[Len(calls) + 1] /\ Len(Top) = Len(calls) - 1 /\ d[Top] = Last(calls)
    <3>1. Len(calls) \in 1..Len(calls)
      BY <2>3
    <3> QED
      BY <1>1, <2>3, <3>1 DEF JsonInv, StackFollowsBrackets, Top, Last
  <2>5. p = Top
    <3>1. Len(p) = Len(Top) /\ Len(p) <= Len(s)
      BY <1>7, <2>3, <2>4
    <3>2. \A i \in 1..Len(p) : p[i] = s[i] /\ Top[i] = s[i]
      <4>1. \A i \in 1..Len(p) : p[i] = s[i]
        BY <1>2, <1>7, <2>1, PrefixByElements
      <4>2. \A i \in 1..Len(Top) : Top[i] = s[i]
        BY <1>2, PrefixByElements
      <4> QED
        BY <3>1, <4>1, <4>2
    <3>3. IsPrefix(p, Top)
      BY <1>2, <2>1, <2>3, <3>1, <3>2, PrefixByElements
    <3> QED
      BY <1>2, <2>1, <3>1, <3>3, PrefixOfLength
  <2>6. ASSUME d[p] = "arr" PROVE Children(e, p) = Elements(p, Cardinality(Children(e, p)))
    <3>1. PICK m : m = Cardinality(Children(d, p))
      OBVIOUS
    <3>2. m \in Nat
      <4>1. Children(d, p) \subseteq DOMAIN d /\ IsFiniteSet(DOMAIN d)
        BY <1>1 DEF Children, Below, JsonInv
      <4> QED
        BY <3>1, <4>1, FS_Subset, FS_CardinalityType
    <3>3. s = Append(p, Element(m + 1))
      BY <1>1, <2>5, <2>6, <3>1 DEF Slot
    <3>4. Children(d, p) = Elements(p, m)
      BY <1>1, <2>1, <2>6, <3>1 DEF EntriesFit
    <3>5. Children(e, p) = Elements(p, m + 1)
      BY <2>1, <2>2, <3>2, <3>3, <3>4, ElementsOf
    <3>6. Cardinality(Elements(p, m + 1)) = m + 1
      <4>1. m + 1 \in Nat
        BY <3>2
      <4> QED
        BY <2>1, <4>1, ElementsOf
    <3> QED
      BY <3>5, <3>6
  <2>7. ASSUME d[p] = "obj", NEW q \in Children(e, p)
        PROVE  \E name \in Names : q = Append(p, Property(name))
    <3>1. CASE q # s
      BY <1>1, <2>1, <2>2, <2>7, <3>1 DEF EntriesFit
    <3>2. CASE q = s
      <4>1. s = Append(p, Property(currentProperty))
        BY <1>1, <2>5, <2>7 DEF Slot
      <4>2. Last(calls) = "obj"
        BY <2>4, <2>5, <2>7
      <4>3. currentProperty \in Names
        BY <2>3, <4>2 DEF JsonInv, PlacesFit
      <4> QED
        BY <3>2, <4>1, <4>3
    <3> QED
      BY <3>1, <3>2
  <2> QED
    BY <2>1, <2>6, <2>7
<1> QED
  BY <1>5, <1>6, <1>7

LEMMA ReplyFits ==
  ASSUME NEW d, Value(d), IsReply(d)
  PROVE  EntriesFit(d)
<1> SUFFICES ASSUME NEW p \in DOMAIN d, d[p] = "obj", NEW q \in Children(d, p)
             PROVE  \E name \in Names : q = Append(p, Property(name))
  BY DEF EntriesFit, IsReply
<1>1. /\ DOMAIN d \subseteq Paths /\ q \in DOMAIN d /\ Short(q) /\ q \in Paths
  BY DEF Value, Tree, Short, Children, Below
<1>2. q # Root /\ Front(q) = p
  BY <1>1, ChildByFront
<1>3. Len(q) \in Nat \ {0} /\ Last(q) = q[Len(q)] /\ Last(q) \in Keys /\ q \in Seq(Keys)
  BY <1>1, <1>2, FrontIsPrefix DEF Paths
<1>4. TextPath(q) = q
  BY <1>1 DEF IsReply
<1>5. Len(q) \in 1..Len(q) /\ q[Len(q)][2] <= MaxTokens
  BY <1>1, <1>3 DEF Short, Paths
<1>6. q[Len(q)] = Property(KeyText(q[Len(q)]))
  BY <1>1, <1>4, <1>5, TextOfPath
<1>7. KeyText(q[Len(q)]) \in Names
  BY <1>3, <1>5, TextOfKey
<1>8. q = Append(Front(q), q[Len(q)])
  BY <1>3 DEF Front
<1> QED
  BY <1>2, <1>6, <1>7, <1>8

LEMMA EntriesFitNext == PathInv /\ EntriesFit(doc) /\ [PathNext]_pathVars => EntriesFit(doc')
<1> SUFFICES ASSUME PathInv, EntriesFit(doc), [PathNext]_pathVars PROVE EntriesFit(doc')
  OBVIOUS
<1>1. CASE ParseBody
  <2>1. JsonInv /\ Step
    BY <1>1 DEF ParseBody, PathInv
  <2>2. doc' = doc \/ (at \in {"value", "first_element"} /\ \E kind \in Kinds : Store(kind))
    BY <2>1, JsonConstants
       DEF Step, OpenObject, OpenArray, OpenContainer, ParseScalar, ParseName, Colon, Comma,
           CloseObject, CloseArray, Close, Throw, EndOfStream, EmptySource, Kinds
  <2> QED
    BY <2>1, <2>2, StoreFits
<1>2. CASE ParseNext
  <2>1. doc' = NullValue
    BY <1>2 DEF ParseNext, Parse, Fresh
  <2> QED
    BY <2>1 DEF EntriesFit, NullValue
<1>3. CASE Run
  <2>1. Value(doc) /\ IsFiniteSet(DOMAIN doc) /\ doc' \in Replies(doc)
    BY <1>3, PathValue DEF Run
  <2>2. Value(doc') /\ IsReply(doc')
    BY <2>1, ReplyIsValue
  <2> QED
    BY <2>2, ReplyFits
<1>4. CASE UNCHANGED pathVars
  BY <1>4 DEF pathVars, parserVars
<1> QED
  BY <1>1, <1>2, <1>3, <1>4 DEF PathNext

-----------------------------------------------------------------------------

LEMMA Concat ==
  ASSUME NEW T, NEW s \in Seq(T), NEW t \in Seq(T)
  PROVE  /\ s \o t \in Seq(T) /\ Len(s \o t) = Len(s) + Len(t)
         /\ \A j \in 1..Len(s) : (s \o t)[j] = s[j]
         /\ \A j \in 1..Len(t) : (s \o t)[Len(s) + j] = t[j]
  OBVIOUS

LEMMA Prepended ==
  ASSUME NEW T, NEW x \in T, NEW s \in Seq(T), NEW z, z = <<x>> \o s
  PROVE  /\ z \in Seq(T) /\ Len(z) = 1 + Len(s) /\ z[1] = x
         /\ \A j \in 1..Len(s) : z[1 + j] = s[j]
<1>1. PICK y : y = <<x>>
  OBVIOUS
<1>2. y \in Seq(T) /\ Len(y) = 1 /\ y[1] = x
  BY <1>1
<1>3. /\ y \o s \in Seq(T) /\ Len(y \o s) = Len(y) + Len(s)
      /\ \A j \in 1..Len(y) : (y \o s)[j] = y[j]
      /\ \A j \in 1..Len(s) : (y \o s)[Len(y) + j] = s[j]
  <2>1. y \in Seq(T)
    BY <1>2
  <2> QED
    BY <2>1, Concat
<1>4. z = y \o s
  BY <1>1
<1> QED
  BY <1>2, <1>3, <1>4

LEMMA Followed ==
  ASSUME NEW T, NEW x \in T, NEW s \in Seq(T), NEW z, z = s \o <<x>>
  PROVE  /\ z \in Seq(T) /\ Len(z) = Len(s) + 1 /\ z[Len(s) + 1] = x
         /\ \A j \in 1..Len(s) : z[j] = s[j]
<1>1. PICK y : y = <<x>>
  OBVIOUS
<1>2. y \in Seq(T) /\ Len(y) = 1 /\ y[1] = x
  BY <1>1
<1>3. /\ s \o y \in Seq(T) /\ Len(s \o y) = Len(s) + Len(y)
      /\ \A j \in 1..Len(s) : (s \o y)[j] = s[j]
      /\ \A j \in 1..Len(y) : (s \o y)[Len(s) + j] = y[j]
  BY <1>2, Concat
<1>4. z = s \o y
  BY <1>1
<1>5. z[Len(s) + 1] = x
  <2>1. 1 \in 1..Len(y)
    BY <1>2
  <2>2. (s \o y)[Len(s) + 1] = y[1]
    BY <1>3, <2>1
  <2> QED
    BY <1>2, <1>4, <2>2
<1> QED
  BY <1>2, <1>3, <1>4, <1>5

(* A sequence that is put together, one part at a time.                    *)
Joins(parts, e) ==
    /\ e[1] = parts[1]
    /\ \A i \in 1..Len(parts) : i # 1 => e[i] = e[i - 1] \o parts[i]

LEMMA Joined ==
  ASSUME NEW parts, Len(parts) \in Nat \ {0}
  PROVE  \E e : Joins(parts, e) /\ FlattenSeq(parts) = e[Len(parts)]
<1> DEFINE n == Len(parts)
           Longer(f, i) == IF i = 1 THEN parts[i] ELSE f[i - 1] \o parts[i]
           Go(f) == [i \in 1..n |-> Longer(f, i)]
           c == CHOOSE f : f = Go(f)
           UpTo(k) == \E f : \A i \in 1..n : i <= k => f[i] = Longer(f, i)
           S == {k \in Nat : UpTo(k)}
<1>1. FlattenSeq(parts) = c[n]
  BY DEF FlattenSeq
<1>2. 0 \in S
  OBVIOUS
<1>3. ASSUME NEW k \in Nat, k \in S PROVE k + 1 \in S
  <2>1. PICK f : \A i \in 1..n : i <= k => f[i] = Longer(f, i)
    BY <1>3
  <2>2. PICK g : g = Go(f)
    OBVIOUS
  <2>3. ASSUME NEW i \in 1..n, i <= k + 1 PROVE g[i] = Longer(g, i)
    <3>1. g[i] = Longer(f, i)
      BY <2>2
    <3>2. CASE i = 1
      BY <3>1, <3>2
    <3>3. CASE i # 1
      <4>1. i - 1 \in 1..n /\ i - 1 <= k
        BY <2>3, <3>3
      <4>2. g[i - 1] = Longer(f, i - 1) /\ f[i - 1] = Longer(f, i - 1)
        BY <2>1, <2>2, <4>1
      <4>3. g[i - 1] = f[i - 1]
        BY <4>2
      <4> QED
        BY <3>1, <3>3, <4>3
    <3> QED
      BY <3>2, <3>3
  <2>4. UpTo(k + 1)
    BY <2>3
  <2> QED
    BY <2>4
<1>4. n \in S
  <2> HIDE DEF S
  <2> QED
    BY <1>2, <1>3, Induction
<1>5. PICK f : \A i \in 1..n : f[i] = Longer(f, i)
  BY <1>4
<1>6. \E g : g = Go(g)
  <2>1. PICK g : g = [i \in 1..n |-> f[i]]
    OBVIOUS
  <2>2. ASSUME NEW i \in 1..n PROVE g[i] = Longer(g, i)
    <3>1. CASE i = 1
      BY <1>5, <2>1, <3>1
    <3>2. CASE i # 1
      <4>1. i - 1 \in 1..n
        BY <3>2
      <4> QED
        BY <1>5, <2>1, <3>2, <4>1
    <3> QED
      BY <3>1, <3>2
  <2>3. g = Go(g)
    BY <2>1, <2>2
  <2> QED
    BY <2>3
<1>7. c = Go(c)
  BY <1>6
<1>8. PICK e : e = c
  OBVIOUS
<1>9. \A i \in 1..n : e[i] = Longer(e, i)
  <2> HIDE DEF c
  <2> QED
    BY <1>7, <1>8
<1>10. Joins(parts, e)
  <2> HIDE DEF c
  <2>1. 1 \in 1..n
    OBVIOUS
  <2> QED
    BY <1>9, <2>1 DEF Joins
<1> QED
  BY <1>1, <1>8, <1>10

(* Where the parts are: behind the first i - 1 of them begins part i.      *)
Laid(parts, w, L) ==
    /\ L \in [0..Len(parts) -> Nat] /\ L[0] = 0 /\ L[Len(parts)] = Len(w)
    /\ \A i \in 1..Len(parts) :
         /\ L[i] = L[i - 1] + Len(parts[i]) /\ L[i] <= Len(w)
         /\ \A j \in 1..Len(parts[i]) : w[L[i - 1] + j] = parts[i][j]

LEMMA JoinedParts ==
  ASSUME NEW T, NEW parts \in Seq(Seq(T)), parts # << >>, NEW e, Joins(parts, e)
  PROVE  e[Len(parts)] \in Seq(T) /\ \E L : Laid(parts, e[Len(parts)], L)
<1>1. PICK n : n = Len(parts)
  OBVIOUS
<1>2. n \in Nat \ {0} /\ \A i \in 1..n : parts[i] \in Seq(T) /\ Len(parts[i]) \in Nat
  BY <1>1
<1>3. e[1] = parts[1] /\ \A i \in 1..n : i # 1 => e[i] = e[i - 1] \o parts[i]
  BY <1>1 DEF Joins
<1>4. \A i \in 1..n : e[i] \in Seq(T)
  <2> DEFINE S == {k \in Nat : \A i \in 1..n : i <= k => e[i] \in Seq(T)}
  <2>1. 0 \in S
    OBVIOUS
  <2>2. ASSUME NEW k \in Nat, k \in S PROVE k + 1 \in S
    <3>1. ASSUME NEW i \in 1..n, i <= k + 1 PROVE e[i] \in Seq(T)
      <4>1. CASE i = 1
        BY <1>2, <1>3, <4>1
      <4>2. CASE i # 1
        <5>1. i - 1 \in 1..n /\ i - 1 <= k
          BY <1>2, <3>1, <4>2
        <5>2. e[i - 1] \in Seq(T)
          BY <2>2, <5>1
        <5>3. e[i] = e[i - 1] \o parts[i] /\ parts[i] \in Seq(T)
          BY <1>2, <1>3, <4>2
        <5>4. e[i - 1] \o parts[i] \in Seq(T)
          BY <5>2, <5>3, Concat
        <5> QED
          BY <5>3, <5>4
      <4> QED
        BY <4>1, <4>2
    <3> QED
      BY <3>1
  <2> HIDE DEF S
  <2>3. n \in S
    BY <1>2, <2>1, <2>2, Induction
  <2> QED
    BY <2>3 DEF S
<1>5. PICK L : L = [i \in 0..n |-> IF i = 0 THEN 0 ELSE Len(e[i])]
  OBVIOUS
<1>6. L \in [0..n -> Nat] /\ L[0] = 0 /\ \A i \in 1..n : L[i] = Len(e[i])
  <2>1. \A i \in 0..n : i # 0 => i \in 1..n
    BY <1>2
  <2>2. \A i \in 1..n : Len(e[i]) \in Nat
    BY <1>4
  <2> QED
    BY <1>2, <1>5, <2>1, <2>2
<1>7. \A i \in 1..n : L[i] = L[i - 1] + Len(parts[i]) /\ L[i - 1] \in Nat /\ L[i] \in Nat
  <2> SUFFICES ASSUME NEW i \in 1..n
               PROVE  L[i] = L[i - 1] + Len(parts[i]) /\ L[i - 1] \in Nat /\ L[i] \in Nat
    OBVIOUS
  <2>0. i \in 0..n /\ i - 1 \in 0..n
    BY <1>2
  <2>1. CASE i = 1
    <3>1. Len(parts[1]) \in Nat /\ L[1] = Len(parts[1]) /\ i - 1 = 0
      BY <1>2, <1>3, <1>6, <2>1
    <3> QED
      BY <1>6, <2>1, <3>1
  <2>2. CASE i # 1
    <3>1. i - 1 \in 1..n
      BY <1>2, <2>2
    <3>2. e[i - 1] \in Seq(T) /\ parts[i] \in Seq(T) /\ e[i] = e[i - 1] \o parts[i]
      BY <1>2, <1>3, <1>4, <2>2, <3>1
    <3>3. Len(e[i]) = Len(e[i - 1]) + Len(parts[i])
      BY <3>2, Concat
    <3> QED
      BY <1>6, <2>0, <3>1, <3>3
  <2> QED
    BY <2>1, <2>2
<1>8. \A m \in Nat : m \in 1..n => \A i \in 1..m :
        L[i] <= L[m] /\ \A j \in 1..Len(parts[i]) : e[m][L[i - 1] + j] = parts[i][j]
  <2> DEFINE Holds(m) == \A i \in 1..m : L[i] <= L[m] /\ \A j \in 1..Len(parts[i]) :
                                                           e[m][L[i - 1] + j] = parts[i][j]
             S == {m \in Nat : m \in 1..n => Holds(m)}
  <2>1. 0 \in S
    OBVIOUS
  <2>2. ASSUME NEW m \in Nat, m \in S PROVE m + 1 \in S
    <3> SUFFICES ASSUME m + 1 \in 1..n, NEW i \in 1..(m + 1)
                 PROVE  L[i] <= L[m + 1] /\ \A j \in 1..Len(parts[i]) :
                                              e[m + 1][L[i - 1] + j] = parts[i][j]
      OBVIOUS
    <3>0. i \in 1..n /\ L[m + 1] = L[m] + Len(parts[m + 1]) /\ L[m] \in Nat /\ m + 1 - 1 = m
          /\ Len(parts[m + 1]) \in Nat /\ parts[m + 1] \in Seq(T)
          /\ L[i - 1] \in Nat /\ L[i] \in Nat /\ L[i] = L[i - 1] + Len(parts[i])
          /\ Len(parts[i]) \in Nat
      BY <1>2, <1>7
    <3>1. CASE m = 0
      <4>1. i = 1 /\ m + 1 = 1 /\ L[i - 1] = 0
        BY <1>6, <3>1
      <4> QED
        BY <1>3, <3>0, <4>1
    <3>2. CASE m # 0
      <4>1. m \in 1..n /\ Holds(m) /\ m + 1 # 1
        BY <1>2, <2>2, <3>2
      <4>2. e[m] \in Seq(T) /\ Len(e[m]) = L[m]
        BY <1>4, <1>6, <4>1
      <4>6. e[m + 1] = e[m] \o parts[m + 1]
        <5>1. PICK k : k = m + 1
          OBVIOUS
        <5>2. k \in 1..n /\ k # 1 /\ k - 1 = m
          BY <1>2, <4>1, <5>1
        <5>3. e[k] = e[k - 1] \o parts[k]
          BY <1>3, <5>2
        <5> QED
          BY <5>1, <5>2, <5>3
      <4>3. /\ \A j \in 1..L[m] : e[m + 1][j] = e[m][j]
            /\ \A j \in 1..Len(parts[m + 1]) : e[m + 1][L[m] + j] = parts[m + 1][j]
        <5>1. PICK x, y, z : x = e[m] /\ y = parts[m + 1] /\ z = e[m + 1]
          OBVIOUS
        <5>2. x \in Seq(T) /\ y \in Seq(T) /\ z = x \o y /\ Len(x) = L[m]
          BY <3>0, <4>2, <4>6, <5>1
        <5>3. /\ \A j \in 1..Len(x) : z[j] = x[j]
              /\ \A j \in 1..Len(y) : z[Len(x) + j] = y[j]
          <6>1. /\ \A j \in 1..Len(x) : (x \o y)[j] = x[j]
                /\ \A j \in 1..Len(y) : (x \o y)[Len(x) + j] = y[j]
            <7>1. x \in Seq(T) /\ y \in Seq(T)
              BY <5>2
            <7> QED
              BY <7>1, Concat
          <6> QED
            BY <5>2, <6>1
        <5> QED
          BY <5>1, <5>2, <5>3
      <4>4. CASE i = m + 1
        <5>1. L[i] = L[m + 1] /\ L[i - 1] = L[m] /\ parts[i] = parts[m + 1]
          BY <3>0, <4>4
        <5> QED
          BY <3>0, <4>3, <5>1
      <4>5. CASE i # m + 1
        <5>1. i \in 1..m
          BY <4>5
        <5>2. L[i] <= L[m] /\ \A j \in 1..Len(parts[i]) : e[m][L[i - 1] + j] = parts[i][j]
          BY <4>1, <5>1
        <5>3. ASSUME NEW j \in 1..Len(parts[i]) PROVE e[m + 1][L[i - 1] + j] = parts[i][j]
          <6>1. PICK x : x = L[i - 1] + j
            OBVIOUS
          <6>2. x \in 1..L[m]
            <7>1. PICK l, k, r : l = L[i - 1] /\ k = Len(parts[i]) /\ r = L[m]
              OBVIOUS
            <7>2. l \in Nat /\ k \in Nat /\ r \in Nat /\ l + k <= r
              BY <3>0, <5>2, <7>1
            <7>3. j \in 1..k /\ x = l + j
              BY <6>1, <7>1
            <7>4. x \in 1..r
              BY <7>2, <7>3
            <7> QED
              BY <7>1, <7>4
          <6>3. e[m][x] = parts[i][j]
            BY <5>2, <6>1
          <6>4. e[m + 1][x] = e[m][x]
            BY <4>3, <6>2
          <6> QED
            BY <6>1, <6>3, <6>4
        <5> QED
          BY <3>0, <5>2, <5>3
      <4> QED
        BY <4>4, <4>5
    <3> QED
      BY <3>1, <3>2
  <2> HIDE DEF S
  <2>3. \A m \in Nat : m \in S
    BY <2>1, <2>2, Induction
  <2> QED
    BY <2>3 DEF S
<1>9. e[n] \in Seq(T) /\ L[n] = Len(e[n])
  BY <1>2, <1>4, <1>6
<1>10. \A i \in 1..n : L[i] <= Len(e[n])
                      /\ \A j \in 1..Len(parts[i]) : e[n][L[i - 1] + j] = parts[i][j]
  BY <1>2, <1>8, <1>9
<1>11. Laid(parts, e[n], L)
  BY <1>1, <1>6, <1>7, <1>9, <1>10 DEF Laid
<1> QED
  BY <1>1, <1>9, <1>11

LEMMA Flattened ==
  ASSUME NEW T, NEW parts \in Seq(Seq(T))
  PROVE  FlattenSeq(parts) \in Seq(T) /\ \E L : Laid(parts, FlattenSeq(parts), L)
<1>1. CASE parts = << >>
  <2>1. FlattenSeq(parts) = << >>
    BY <1>1 DEF FlattenSeq
  <2>2. PICK L : L = [i \in 0..0 |-> 0]
    OBVIOUS
  <2>3. Laid(parts, FlattenSeq(parts), L)
    BY <1>1, <2>1, <2>2 DEF Laid
  <2> QED
    BY <2>1, <2>3
<1>2. CASE parts # << >>
  <2>1. Len(parts) \in Nat \ {0}
    BY <1>2
  <2>2. PICK e : Joins(parts, e) /\ FlattenSeq(parts) = e[Len(parts)]
    BY <2>1, Joined
  <2> QED
    BY <1>2, <2>2, JoinedParts
<1> QED
  BY <1>1, <1>2

-----------------------------------------------------------------------------

Texts == Marks \union Leaves

(* The text of a container: behind the first i parts are L[i] tokens.      *)
Framed(parts, w, open, close, L) ==
    /\ L \in [0..Len(parts) -> Nat] /\ L[0] = 1 /\ Len(w) = L[Len(parts)] + 1
    /\ w[1] = open /\ w[Len(w)] = close /\ \A i \in 1..Len(parts) : L[i] < Len(w)
    /\ 1 \in 1..Len(parts) =>
         L[1] = 1 + Len(parts[1]) /\ \A j \in 1..Len(parts[1]) : w[1 + j] = parts[1][j]
    /\ \A i \in 2..Len(parts) :
         /\ L[i] = L[i - 1] + 1 + Len(parts[i])
         /\ w[L[i - 1] + 1] = "value_separator"
         /\ \A j \in 1..Len(parts[i]) : w[L[i - 1] + 1 + j] = parts[i][j]

(* Where the parts of a container and the commas between them are.         *)
LEMMA Framing ==
  ASSUME NEW parts \in Seq(Seq(Texts)), NEW open \in Texts, NEW close \in Texts,
         NEW w, w = <<open>> \o Separated(parts) \o <<close>>
  PROVE  w \in Seq(Texts) /\ \E L : Framed(parts, w, open, close, L)
<1>1. PICK n : n = Len(parts)
  OBVIOUS
<1>2. n \in Nat /\ DOMAIN parts = 1..n /\ \A i \in 1..n : parts[i] \in Seq(Texts)
  BY <1>1
<1>3. PICK cut : cut = [i \in DOMAIN parts |->
                          (IF i = 1 THEN <<>> ELSE <<"value_separator">>) \o parts[i]]
  OBVIOUS
<1>4. ASSUME NEW i \in 1..n
      PROVE  /\ cut[i] \in Seq(Texts)
             /\ i = 1 => cut[i] = parts[i]
             /\ i # 1 => /\ Len(cut[i]) = 1 + Len(parts[i]) /\ cut[i][1] = "value_separator"
                         /\ \A j \in 1..Len(parts[i]) : cut[i][1 + j] = parts[i][j]
  <2>1. parts[i] \in Seq(Texts)
    BY <1>2
  <2>2. CASE i = 1
    <3>1. cut[i] = <<>> \o parts[i]
      BY <1>2, <1>3, <2>2
    <3>2. <<>> \o parts[i] = parts[i]
      BY <2>1
    <3> QED
      BY <2>1, <2>2, <3>1, <3>2
  <2>3. CASE i # 1
    <3>1. cut[i] = <<"value_separator">> \o parts[i]
      BY <1>2, <1>3, <2>3
    <3>2. PICK y : y = cut[i]
      OBVIOUS
    <3>3. "value_separator" \in Texts
      BY DEF Texts, Marks
    <3>4. /\ y \in Seq(Texts) /\ Len(y) = 1 + Len(parts[i]) /\ y[1] = "value_separator"
          /\ \A j \in 1..Len(parts[i]) : y[1 + j] = parts[i][j]
      BY <2>1, <3>1, <3>2, <3>3, Prepended
    <3> QED
      BY <2>3, <3>2, <3>4
  <2> QED
    BY <2>2, <2>3
<1>5. cut \in Seq(Seq(Texts)) /\ Len(cut) = n
  <2>1. cut \in [1..n -> Seq(Texts)]
    BY <1>2, <1>3, <1>4
  <2> QED
    BY <1>2, <2>1
<1>6. PICK f : f = Separated(parts)
  OBVIOUS
<1>7. f = FlattenSeq(cut)
  BY <1>3, <1>6 DEF Separated
<1>8. f \in Seq(Texts) /\ \E M : Laid(cut, f, M)
  BY <1>5, <1>7, Flattened
<1>9. PICK M : Laid(cut, f, M)
  BY <1>8
<1>10. /\ M \in [0..n -> Nat] /\ M[0] = 0 /\ M[n] = Len(f)
       /\ \A i \in 1..n : M[i] = M[i - 1] + Len(cut[i]) /\ M[i] <= Len(f)
                          /\ \A j \in 1..Len(cut[i]) : f[M[i - 1] + j] = cut[i][j]
  BY <1>5, <1>9 DEF Laid
<1>11. /\ w \in Seq(Texts) /\ Len(w) = Len(f) + 2 /\ w[1] = open /\ w[Len(w)] = close
       /\ \A j \in 1..Len(f) : w[1 + j] = f[j]
  <2>1. PICK z : z = <<open>> \o f
    OBVIOUS
  <2>2. /\ z \in Seq(Texts) /\ Len(z) = 1 + Len(f) /\ z[1] = open /\ Len(f) \in Nat
        /\ \A j \in 1..Len(f) : z[1 + j] = f[j]
    BY <1>8, <2>1, Prepended
  <2>3. w = z \o <<close>>
    BY <1>6, <2>1
  <2>4. /\ w \in Seq(Texts) /\ Len(w) = Len(z) + 1 /\ w[Len(z) + 1] = close
        /\ \A j \in 1..Len(z) : w[j] = z[j]
    <3>1. z \in Seq(Texts)
      BY <2>2
    <3>2. PICK v : v = z \o <<close>>
      OBVIOUS
    <3>3. v \in Seq(Texts) /\ Len(v) = Len(z) + 1
      BY <3>1, <3>2, Followed
    <3>4. v[Len(z) + 1] = close /\ \A j \in 1..Len(z) : v[j] = z[j]
      BY <3>1, <3>2, Followed
    <3>5. w = v
      BY <2>3, <3>2, Zenon
    <3> QED
      BY <3>3, <3>4, <3>5
  <2>5. 1 \in 1..Len(z) /\ \A j \in 1..Len(f) : 1 + j \in 1..Len(z)
    <3>1. PICK l, k : l = Len(z) /\ k = Len(f)
      OBVIOUS
    <3>2. k \in Nat /\ l = 1 + k
      BY <2>2, <3>1
    <3>3. 1 \in 1..l /\ \A j \in 1..k : 1 + j \in 1..l
      BY <3>2
    <3> QED
      BY <3>1, <3>3
  <2>6. \A j \in 1..Len(f) : w[1 + j] = f[j]
    BY <2>2, <2>4, <2>5
  <2>7. w[1] = open /\ Len(w) = Len(f) + 2
    BY <2>2, <2>4, <2>5
  <2>8. w[Len(w)] = close
    BY <2>4
  <2> QED
    BY <2>4, <2>6, <2>7, <2>8
<1>12. PICK L : L = [i \in 0..n |-> 1 + M[i]]
  OBVIOUS
<1>13. L \in [0..n -> Nat] /\ L[0] = 1 /\ Len(w) = L[n] + 1 /\ \A i \in 0..n : L[i] = 1 + M[i]
  <2>1. \A i \in 0..n : L[i] = 1 + M[i] /\ M[i] \in Nat
    BY <1>10, <1>12
  <2>2. 0 \in 0..n /\ n \in 0..n
    BY <1>2
  <2>3. L \in [0..n -> Nat]
    BY <1>12, <2>1
  <2> QED
    BY <1>10, <1>11, <2>1, <2>2, <2>3
<1>14. ASSUME NEW i \in 1..n
       PROVE  /\ L[i] = L[i - 1] + Len(cut[i]) /\ L[i] < Len(w)
              /\ \A j \in 1..Len(cut[i]) : w[L[i - 1] + j] = cut[i][j]
  <2>1. PICK a, b, k : a = M[i - 1] /\ b = M[i] /\ k = Len(cut[i])
    OBVIOUS
  <2>2. i \in 0..n /\ i - 1 \in 0..n
    BY <1>2
  <2>3. a \in Nat /\ b \in Nat /\ k \in Nat /\ b = a + k /\ L[i] = 1 + b /\ L[i - 1] = 1 + a
    <3>1. a \in Nat /\ b \in Nat /\ L[i] = 1 + b /\ L[i - 1] = 1 + a
      BY <1>10, <1>13, <2>1, <2>2
    <3>2. k \in Nat /\ b = a + k
      BY <1>4, <1>10, <2>1
    <3> QED
      BY <3>1, <3>2
  <2>4. b <= Len(f) /\ Len(f) \in Nat
    BY <1>8, <1>10, <2>1
  <2>5. ASSUME NEW j \in 1..k PROVE w[L[i - 1] + j] = cut[i][j]
    <3>1. a + j \in 1..Len(f) /\ L[i - 1] + j = 1 + (a + j)
      BY <2>3, <2>4
    <3>2. f[a + j] = cut[i][j]
      BY <1>10, <2>1
    <3> QED
      BY <1>11, <3>1, <3>2
  <2>6. L[i] = L[i - 1] + k /\ L[i] < Len(w)
    BY <1>11, <2>3, <2>4
  <2> QED
    BY <2>1, <2>5, <2>6
<1>15. ASSUME 1 \in 1..n
       PROVE  L[1] = 1 + Len(parts[1]) /\ \A j \in 1..Len(parts[1]) : w[1 + j] = parts[1][j]
  <2>1. PICK i : i = 1
    OBVIOUS
  <2>2. i \in 1..n /\ i - 1 = 0 /\ cut[i] = parts[i] /\ L[i - 1] = 1
    BY <1>4, <1>13, <1>15, <2>1
  <2>3. L[i] = 1 + Len(parts[i]) /\ \A j \in 1..Len(parts[i]) : w[1 + j] = parts[i][j]
    BY <1>14, <2>2
  <2> QED
    BY <2>1, <2>3
<1>16. ASSUME NEW i \in 2..n
       PROVE  /\ L[i] = L[i - 1] + 1 + Len(parts[i])
              /\ w[L[i - 1] + 1] = "value_separator"
              /\ \A j \in 1..Len(parts[i]) : w[L[i - 1] + 1 + j] = parts[i][j]
  <2>1. PICK a, k : a = L[i - 1] /\ k = Len(parts[i])
    OBVIOUS
  <2>2. i \in 1..n /\ i # 1 /\ i - 1 \in 0..n
    BY <1>2
  <2>3. a \in Nat /\ k \in Nat /\ Len(cut[i]) = 1 + k
    BY <1>2, <1>4, <1>13, <2>1, <2>2
  <2>4. L[i] = a + (1 + k) /\ \A j \in 1..(1 + k) : w[a + j] = cut[i][j]
    BY <1>14, <2>1, <2>2, <2>3
  <2>5. w[a + 1] = "value_separator"
    <3>1. 1 \in 1..(1 + k)
      BY <2>3
    <3> QED
      BY <1>4, <2>2, <2>4, <3>1
  <2>6. ASSUME NEW j \in 1..k PROVE w[a + 1 + j] = parts[i][j]
    <3>1. 1 + j \in 1..(1 + k) /\ a + (1 + j) = a + 1 + j
      BY <2>3
    <3>2. w[a + (1 + j)] = cut[i][1 + j] /\ cut[i][1 + j] = parts[i][j]
      BY <1>4, <2>1, <2>2, <2>4, <3>1
    <3> QED
      BY <3>1, <3>2
  <2>7. L[i] = a + 1 + k
    BY <2>3, <2>4
  <2> QED
    BY <2>1, <2>5, <2>6, <2>7
<1>17. Framed(parts, w, open, close, L)
  BY <1>1, <1>11, <1>13, <1>14, <1>15, <1>16 DEF Framed
<1> QED
  BY <1>11, <1>17

-----------------------------------------------------------------------------

(* The values among the first n tokens of a text, and which they are.      *)
Vals(u, n) == {i \in 1..n : /\ u[i] \in Opening \union Leaves
                            /\ i < Len(u) => u[i + 1] # "name_separator"}

Wrote(d, u, n, W) ==
    /\ W \subseteq DOMAIN d /\ \A i \in Vals(u, n) : Path(u, i) \in Paths
    /\ ValueAt(u, Vals(u, n)) = [q \in W |-> Shown(d[q])]

LEMMA WroteValue ==
  ASSUME NEW d, NEW u, NEW n \in Nat, NEW W, Wrote(d, u, n, W),
         NEW p \in DOMAIN d, DOMAIN d \subseteq Paths, Path(u, n + 1) = p,
         u[n + 1] \in Opening \union Leaves, Kind(u[n + 1]) = Shown(d[p]),
         n + 1 < Len(u) => u[n + 2] # "name_separator",
         Below(d, p) \intersect W = {}
  PROVE  Wrote(d, u, n + 1, W \union {p})
<1>1. PICK V, X : V = Vals(u, n) /\ X = W \union {p}
  OBVIOUS
<1>2. n + 1 + 1 = n + 2
  OBVIOUS
<1>3. Vals(u, n + 1) = V \union {n + 1} /\ V \in SUBSET (1..n)
  BY <1>1, <1>2 DEF Vals
<1>4. W \subseteq DOMAIN d /\ (\A i \in V : Path(u, i) \in Paths)
      /\ ValueAt(u, V) = [q \in W |-> Shown(d[q])]
  BY <1>1 DEF Wrote
<1>5. \A i \in V \union {n + 1} : Path(u, i) \in Paths
  BY <1>4
<1>6. ValueAt(u, V \union {n + 1}) = Assign(ValueAt(u, V), p, Shown(d[p]))
  BY <1>3, <1>5, ValueGrows
<1>7. PICK v : v = ValueAt(u, V)
  OBVIOUS
<1>8. DOMAIN v = W /\ \A q \in W : v[q] = Shown(d[q])
  BY <1>4, <1>7
<1>9. Below(v, p) = {}
  BY <1>4, <1>8 DEF Below
<1>10. Assign(v, p, Shown(d[p])) = [q \in X |-> Shown(d[q])]
  <2>1. Assign(v, p, Shown(d[p])) = [q \in X |-> IF q = p THEN Shown(d[p]) ELSE v[q]]
    BY <1>1, <1>8, <1>9 DEF Assign
  <2>2. \A q \in X : (IF q = p THEN Shown(d[p]) ELSE v[q]) = Shown(d[q])
    BY <1>1, <1>8
  <2> QED
    BY <2>1, <2>2
<1>11. ValueAt(u, Vals(u, n + 1)) = [q \in X |-> Shown(d[q])]
  BY <1>3, <1>6, <1>7, <1>10
<1>12. X \subseteq DOMAIN d
  BY <1>1, <1>4
<1>13. Wrote(d, u, n + 1, X)
  BY <1>3, <1>5, <1>11, <1>12 DEF Wrote
<1> QED
  BY <1>1, <1>13

LEMMA WroteNone ==
  ASSUME NEW d, NEW u, NEW n \in Nat, NEW W, Wrote(d, u, n, W),
         \/ u[n + 1] \notin Opening \union Leaves
         \/ n + 1 < Len(u) /\ u[n + 2] = "name_separator"
  PROVE  Wrote(d, u, n + 1, W)
<1>1. n + 1 + 1 = n + 2
  OBVIOUS
<1>2. Vals(u, n + 1) = Vals(u, n)
  BY <1>1 DEF Vals
<1> QED
  BY <1>2 DEF Wrote

-----------------------------------------------------------------------------

(* What is printed inside a bracket does not cut the ones around it.       *)
LEMMA CutsStay ==
  ASSUME NEW u, NEW n \in Nat, NEW m \in Nat, n <= m, NEW a \in 1..n, NEW c,
         IsCut(u, n, a, c), IsCut(u, m, a, c)
  PROVE  Cuts(u, a, m) = Cuts(u, a, n)
<1>1. c \in Cuts(u, a, n) /\ \A x \in Cuts(u, a, m) : x <= c
  BY DEF IsCut
<1>2. Cuts(u, a, n) \subseteq a..n /\ Cuts(u, a, m) \subseteq a..m
  BY DEF Cuts, Commas
<1>3. c \in a..n
  BY <1>1, <1>2
<1>4. \A x \in Cuts(u, a, m) : x \in a..n
  BY <1>1, <1>2, <1>3
<1>5. \A x \in a..n : x \in Cuts(u, a, m) <=> x \in Cuts(u, a, n)
  BY DEF Cuts, Commas
<1> QED
  BY <1>2, <1>4, <1>5

LEMMA KeysKept ==
  ASSUME NEW u, NEW n \in Nat, NEW m \in Nat, n <= m, NEW K \in Nat, NEW opens, NEW cuts,
         Brackets(u, n, K, opens, cuts), Brackets(u, m, K, opens, cuts), NEW k \in 1..K
  PROVE  KeyAt(u, m, opens[k], cuts[k]) = KeyAt(u, n, opens[k], cuts[k])
<1>1. opens[k] \in 1..n /\ IsCut(u, n, opens[k], cuts[k]) /\ IsCut(u, m, opens[k], cuts[k])
  BY DEF Brackets, IsOpen
<1>2. Cuts(u, opens[k], m) = Cuts(u, opens[k], n)
  BY <1>1, CutsStay
<1> QED
  BY <1>2 DEF KeyAt

(* Through the brackets that are open, but for the innermost one, to p.    *)
Along(p, u, n, K, opens, cuts) ==
    /\ p \in Paths /\ Len(p) = K - 1
    /\ \A k \in 1..(K - 1) : p[k] = KeyAt(u, n, opens[k], cuts[k])

LEMMA AlongStill ==
  ASSUME NEW u, NEW n \in Nat, NEW m \in Nat, n <= m, NEW K \in Nat \ {0}, NEW opens, NEW cuts,
         Brackets(u, n, K, opens, cuts), Brackets(u, m, K, opens, cuts),
         NEW p, Along(p, u, n, K, opens, cuts)
  PROVE  Along(p, u, m, K, opens, cuts)
<1>1. ASSUME NEW k \in 1..(K - 1) PROVE p[k] = KeyAt(u, m, opens[k], cuts[k])
  <2>1. k \in 1..K /\ K \in Nat
    OBVIOUS
  <2>2. KeyAt(u, m, opens[k], cuts[k]) = KeyAt(u, n, opens[k], cuts[k])
    BY <2>1, KeysKept
  <2> QED
    BY <2>2 DEF Along
<1> QED
  BY <1>1 DEF Along

Comes(q, p, u, n, K, opens, cuts) ==
    /\ Along(p, u, n, K, opens, cuts)
    /\ KeyAt(u, n, opens[K], cuts[K]) \in Keys
    /\ q = Append(p, KeyAt(u, n, opens[K], cuts[K]))

LEMMA NextPath ==
  ASSUME NEW u, NEW n \in Nat, NEW K \in Nat \ {0}, NEW opens, NEW cuts,
         Brackets(u, n, K, opens, cuts), NEW q, NEW p, Comes(q, p, u, n, K, opens, cuts)
  PROVE  Path(u, n + 1) = q
<1>1. Agree(u, u, n)
  BY DEF Agree
<1>2. Path(u, n + 1) = [k \in 1..K |-> KeyAt(u, n, opens[k], cuts[k])]
  BY <1>1, PathByKeys
<1>3. PICK key : key = KeyAt(u, n, opens[K], cuts[K])
  OBVIOUS
<1>7. p \in Seq(Keys) /\ Len(p) = K - 1 /\ key \in Keys /\ q = Append(p, key)
  BY <1>3 DEF Comes, Along, Paths
<1>4. q \in Seq(Keys) /\ Len(q) = K /\ q[K] = key /\ \A k \in 1..(K - 1) : q[k] = p[k]
  BY <1>7
<1>5. q = [k \in 1..K |-> q[k]]
  BY <1>4
<1>6. \A k \in 1..K : q[k] = KeyAt(u, n, opens[k], cuts[k])
  <2>1. \A k \in 1..K : k = K \/ k \in 1..(K - 1)
    OBVIOUS
  <2> QED
    BY <1>3, <1>4, <2>1 DEF Comes, Along
<1> QED
  BY <1>2, <1>5, <1>6

-----------------------------------------------------------------------------

(* A value is its node and what is below its children.                     *)
LEMMA BelowNode ==
  ASSUME NEW d, Value(d), NEW p \in DOMAIN d
  PROVE  /\ Below(d, p) = {p} \union UNION {Below(d, q) : q \in Children(d, p)}
         /\ \A q \in Children(d, p) : p \notin Below(d, q)
         /\ \A q, r \in Children(d, p) : q # r => Below(d, q) \intersect Below(d, r) = {}
         /\ d[p] \in Leaves => Children(d, p) = {}
<1>1. DOMAIN d \subseteq Paths /\ Tree(d) /\ p \in Paths
  BY DEF Value, Tree, Short
<1>2. \A q \in DOMAIN d : q \in Paths /\ q \in Seq(Keys) /\ Len(q) \in Nat
  BY <1>1 DEF Paths
<1>3. \A q, r : r \in Below(d, q) <=> r \in DOMAIN d /\ IsPrefix(q, r)
  BY DEF Below
<1>4. \A q : q \in Children(d, p) <=> q \in DOMAIN d /\ IsPrefix(p, q) /\ Len(q) = Len(p) + 1
  BY DEF Children, Below
<1>5. \A q, r \in DOMAIN d : IsPrefix(q, r) <=> Len(q) <= Len(r) /\ \A i \in 1..Len(q) : q[i] = r[i]
  BY <1>1, PrefixByElements
<1>6. \A q \in DOMAIN d : IsPrefix(q, q)
  BY <1>1, PrefixOfItself
<1>7. ASSUME NEW q \in Children(d, p), NEW r \in Below(d, q) PROVE r \in Below(d, p)
  <2>1. q \in DOMAIN d /\ r \in DOMAIN d /\ IsPrefix(p, q) /\ IsPrefix(q, r) /\ Len(q) = Len(p) + 1
    BY <1>3, <1>4, <1>7
  <2>2. /\ Len(p) <= Len(q) /\ \A i \in 1..Len(p) : p[i] = q[i]
        /\ Len(q) <= Len(r) /\ \A i \in 1..Len(q) : q[i] = r[i]
    BY <1>5, <2>1
  <2>3. Len(p) \in Nat /\ Len(q) \in Nat /\ Len(r) \in Nat
    BY <1>2, <2>1
  <2>4. Len(p) <= Len(r) /\ \A i \in 1..Len(p) : p[i] = r[i]
    BY <2>2, <2>3
  <2>5. IsPrefix(p, r)
    BY <1>5, <2>1, <2>4
  <2> QED
    BY <1>3, <2>1, <2>5
<1>8. ASSUME NEW r \in Below(d, p), r # p PROVE \E q \in Children(d, p) : r \in Below(d, q)
  <2>1. r \in DOMAIN d /\ IsPrefix(p, r) /\ r \in Seq(Keys) /\ Len(r) \in Nat /\ Len(p) \in Nat
    BY <1>2, <1>3, <1>8
  <2>2. Len(p) <= Len(r) /\ (\A i \in 1..Len(p) : p[i] = r[i]) /\ Len(p) # Len(r)
    BY <1>1, <1>2, <1>5, <1>8, <2>1, PrefixOfLength
  <2>3. PICK l, q : l = Len(p) + 1 /\ q = SubSeq(r, 1, l)
    OBVIOUS
  <2>4. l \in 0..Len(r)
    BY <2>1, <2>2, <2>3
  <2>5. q \in DOMAIN d
    BY <1>1, <2>1, <2>3, <2>4, PrefixesInTree
  <2>6. Len(q) = l /\ \A i \in 1..l : q[i] = r[i]
    BY <2>1, <2>3, <2>4
  <2>7. IsPrefix(q, r)
    BY <1>5, <2>1, <2>4, <2>5, <2>6
  <2>8. \A i \in 1..Len(p) : i \in 1..l /\ p[i] = q[i]
    BY <2>1, <2>2, <2>3, <2>6
  <2>9. IsPrefix(p, q)
    <3>1. Len(p) <= Len(q)
      BY <2>1, <2>3, <2>6
    <3> QED
      BY <1>5, <2>5, <2>8, <3>1
  <2>10. r \in Below(d, q)
    BY <1>3, <2>1, <2>7
  <2>11. q \in Children(d, p)
    BY <1>4, <2>3, <2>5, <2>6, <2>9
  <2> QED
    BY <2>10, <2>11
<1>9. ASSUME NEW q \in Children(d, p), p \in Below(d, q) PROVE FALSE
  <2>1. q \in DOMAIN d /\ Len(q) = Len(p) + 1 /\ IsPrefix(q, p)
    BY <1>3, <1>4, <1>9
  <2>2. Len(q) <= Len(p) /\ Len(p) \in Nat
    BY <1>2, <1>5, <2>1
  <2> QED
    BY <2>1, <2>2
<1>10. ASSUME NEW q \in Children(d, p), NEW r \in Children(d, p), q # r,
              NEW t, t \in Below(d, q), t \in Below(d, r)
       PROVE  FALSE
  <2>1. /\ q \in DOMAIN d /\ r \in DOMAIN d /\ t \in DOMAIN d
        /\ IsPrefix(q, t) /\ IsPrefix(r, t) /\ Len(q) = Len(r)
    BY <1>3, <1>4, <1>10
  <2>2. /\ \A i \in 1..Len(q) : q[i] = t[i]
        /\ \A i \in 1..Len(r) : r[i] = t[i]
    BY <1>5, <2>1
  <2>3. q \in Seq(Keys) /\ r \in Seq(Keys)
    BY <1>2, <2>1
  <2>4. q = r
    BY <2>1, <2>2, <2>3, SeqEqual
  <2> QED
    BY <1>10, <2>4
<1>11. ASSUME d[p] \in Leaves, NEW q \in Children(d, p) PROVE FALSE
  <2>1. q \in DOMAIN d /\ q # Root /\ Front(q) = p
    BY <1>1, <1>4, <1>11, ChildByFront
  <2>2. d[p] \in {"obj", "arr"}
    BY <2>1 DEF Value
  <2> QED
    BY <1>11, <2>2, KindsDiffer
<1>12. p \in Below(d, p)
  BY <1>3, <1>6
<1>13. Below(d, p) = {p} \union UNION {Below(d, q) : q \in Children(d, p)}
  BY <1>7, <1>8, <1>12
<1>14. \A q, r \in Children(d, p) : q # r => Below(d, q) \intersect Below(d, r) = {}
  BY <1>10
<1> QED
  BY <1>9, <1>11, <1>13, <1>14

-----------------------------------------------------------------------------

(* The text w of the value at p, wherever it is printed: behind n tokens   *)
(* of a text u, where p is the path of the next value.                     *)
Lies(u, n, w) == n + Len(w) <= Len(u) /\ \A j \in 1..Len(w) : u[n + j] = w[j]
Ends(u, n)    == n < Len(u) => u[n + 1] # "name_separator"

Ready(u, n, K, opens, cuts, p) ==
    /\ Brackets(u, n, K, opens, cuts)
    /\ IF K = 0 THEN n = 0 ELSE Begun(u, opens[K], cuts[K], n + 1)
    /\ Path(u, n + 1) = p

Saying(d, p, w, u, n, K, opens, cuts, W) ==
    /\ Lies(u, n, w) /\ Ends(u, n + Len(w)) /\ Ready(u, n, K, opens, cuts, p)
    /\ Wrote(d, u, n, W) /\ Below(d, p) \intersect W = {}

Said(d, p, w, u, n, K, opens, cuts, W) ==
    /\ Brackets(u, n + Len(w), K, opens, cuts)
    /\ IsValue(u, n + 1, n + Len(w))
    /\ Wrote(d, u, n + Len(w), W \union Below(d, p))

Says(d, p, w) ==
    /\ w \in Seq(Texts) /\ w # <<>> /\ w[1] \in Opening \union Leaves
    /\ \A u \in Seq(Texts) : \A n, K \in Nat : \A opens, cuts \in [Nat -> Nat] :
         \A W \in SUBSET DOMAIN d :
            Saying(d, p, w, u, n, K, opens, cuts, W) => Said(d, p, w, u, n, K, opens, cuts, W)

LEMMA LeafSays ==
  ASSUME NEW d, Value(d), NEW p \in DOMAIN d, d[p] \in Leaves
  PROVE  Says(d, p, <<Shown(d[p])>>)
<1>1. PICK leaf, w : leaf = Shown(d[p]) /\ w = <<leaf>>
  OBVIOUS
<1>2. leaf \in Leaves
  BY <1>1, ShownKinds, KindsDiffer
<1>3. /\ Kind(leaf) = leaf
      /\ leaf \notin Opening \union Closing \union {"value_separator"}
  BY <1>2, TokenKinds
<1>4. w \in Seq(Texts) /\ Len(w) = 1 /\ w # <<>> /\ w[1] = leaf
  BY <1>1, <1>2 DEF Texts
<1>5. DOMAIN d \subseteq Paths
  BY DEF Value, Tree, Short
<1>6. Below(d, p) = {p}
  BY BelowNode
<1>7. ASSUME NEW u \in Seq(Texts), NEW n \in Nat, NEW K \in Nat,
             NEW opens \in [Nat -> Nat], NEW cuts \in [Nat -> Nat], NEW W \in SUBSET DOMAIN d,
             Saying(d, p, w, u, n, K, opens, cuts, W)
      PROVE  Said(d, p, w, u, n, K, opens, cuts, W)
  <2>1. u[n + 1] = leaf /\ (n + 1 < Len(u) => u[n + 2] # "name_separator")
    BY <1>4, <1>7 DEF Saying, Lies, Ends
  <2>2. /\ Brackets(u, n, K, opens, cuts) /\ Path(u, n + 1) = p /\ Wrote(d, u, n, W)
        /\ Below(d, p) \intersect W = {}
    BY <1>7 DEF Saying, Ready
  <2>3. Agree(u, u, n)
    BY DEF Agree
  <2>4. Brackets(u, n + 1, K, opens, cuts)
    BY <1>3, <2>1, <2>2, <2>3, BracketsStay
  <2>5. IsValue(u, n + 1, n + 1)
    BY <1>2, <2>1 DEF IsValue
  <2>6. Wrote(d, u, n + 1, W \union {p})
    BY <1>1, <1>2, <1>3, <1>5, <2>1, <2>2, WroteValue
  <2> QED
    BY <1>4, <1>6, <2>4, <2>5, <2>6 DEF Said
<1>8. w[1] \in Opening \union Leaves
  BY <1>2, <1>4
<1>9. Says(d, p, w)
  BY <1>4, <1>7, <1>8 DEF Says
<1> QED
  BY <1>1, <1>9

-----------------------------------------------------------------------------

(* Behind an opening bracket or a comma, in the container at p, where the  *)
(* next part is at q.                                                      *)
Inside(d, p, q, u, n, K, opens, cuts) ==
    /\ Brackets(u, n, K, opens, cuts) /\ cuts[K] = n
    /\ u[opens[K]] = Bracket(d[p])
    /\ Along(p, u, n, K, opens, cuts)
    /\ d[p] = "arr" => q = Append(p, Element(Cardinality(Cuts(u, opens[K], n))))
    /\ d[p] = "obj" => \E name \in Names : q = Append(p, Property(name))

LEMMA ElementSays ==
  ASSUME NEW d, Value(d), NEW p \in DOMAIN d, d[p] = "arr", NEW q \in DOMAIN d, NEW text,
         Says(d, q, text),
         NEW u \in Seq(Texts), NEW n \in Nat, NEW K \in Nat \ {0},
         NEW opens \in [Nat -> Nat], NEW cuts \in [Nat -> Nat],
         Inside(d, p, q, u, n, K, opens, cuts),
         Lies(u, n, text), Ends(u, n + Len(text)),
         NEW W \in SUBSET DOMAIN d, Wrote(d, u, n, W), Below(d, q) \intersect W = {}
  PROVE  /\ Brackets(u, n + Len(text), K, opens, cuts)
         /\ IsPart(u, opens[K], n, n + Len(text) + 1)
         /\ Wrote(d, u, n + Len(text), W \union Below(d, q))
<1>1. PICK m, a, C : m = n + Len(text) /\ a = opens[K] /\ C = Cardinality(Cuts(u, opens[K], n))
  OBVIOUS
<1>2. text \in Seq(Texts) /\ text # <<>> /\ Len(text) \in Nat \ {0} /\ m \in Nat /\ n + 1 <= m
  <2>1. text \in Seq(Texts) /\ text # <<>>
    BY DEF Says
  <2>2. Len(text) \in Nat \ {0}
    BY <2>1
  <2>3. m \in Nat /\ n + 1 <= m
    <3>1. PICK l : l = Len(text)
      OBVIOUS
    <3>2. m = n + l /\ l \in Nat \ {0}
      BY <1>1, <2>2, <3>1
    <3> QED
      BY <3>2
  <2> QED
    BY <2>1, <2>2, <2>3
<1>3. /\ Brackets(u, n, K, opens, cuts) /\ cuts[K] = n /\ u[a] = "begin_array"
      /\ q = Append(p, Element(C))
  BY <1>1 DEF Inside, Bracket
<1>4. a \in 1..n /\ IsCut(u, n, a, n)
  BY <1>1, <1>3 DEF Brackets, IsOpen
<1>5. Begun(u, a, n, n + 1)
  BY <1>3 DEF Begun
<1>6. C \in Nat \ {0} /\ Element(C) \in Keys
  <2>1. C \in Nat \ {0}
    BY <1>1, <1>4, CutsAreFinite
  <2> QED
    BY <2>1 DEF Element, Keys
<1>7. KeyAt(u, n, opens[K], cuts[K]) = Element(C)
  BY <1>1, <1>3 DEF KeyAt
<1>8. Path(u, n + 1) = q
  <2>1. Along(p, u, n, K, opens, cuts)
    BY DEF Inside
  <2>2. Comes(q, p, u, n, K, opens, cuts)
    BY <1>3, <1>6, <1>7, <2>1 DEF Comes
  <2>3. Brackets(u, n, K, opens, cuts)
    BY <1>3
  <2> QED
    BY <2>2, <2>3, NextPath
<1>9. Ready(u, n, K, opens, cuts, q)
  BY <1>1, <1>3, <1>5, <1>8 DEF Ready
<1>10. Said(d, q, text, u, n, K, opens, cuts, W)
  <2>1. Saying(d, q, text, u, n, K, opens, cuts, W)
    BY <1>9 DEF Saying
  <2> QED
    BY <2>1 DEF Says
<1>11. /\ Brackets(u, m, K, opens, cuts) /\ IsValue(u, n + 1, m)
       /\ Wrote(d, u, m, W \union Below(d, q))
  BY <1>1, <1>10 DEF Said
<1>12. IsPart(u, a, n, m + 1)
  BY <1>2, <1>5, <1>11, PartEnds
<1> QED
  BY <1>1, <1>11, <1>12

LEMMA MemberSays ==
  ASSUME NEW d, Value(d), NEW p \in DOMAIN d, d[p] = "obj", NEW q \in DOMAIN d, NEW text,
         Says(d, q, text), NEW w, w = <<Last(q)[1], "name_separator">> \o text,
         NEW u \in Seq(Texts), NEW n \in Nat, NEW K \in Nat \ {0},
         NEW opens \in [Nat -> Nat], NEW cuts \in [Nat -> Nat],
         Inside(d, p, q, u, n, K, opens, cuts),
         Lies(u, n, w), Ends(u, n + Len(w)),
         NEW W \in SUBSET DOMAIN d, Wrote(d, u, n, W), Below(d, q) \intersect W = {}
  PROVE  /\ w \in Seq(Texts) /\ Len(w) = Len(text) + 2
         /\ Brackets(u, n + Len(w), K, opens, cuts)
         /\ IsPart(u, opens[K], n, n + Len(w) + 1)
         /\ Wrote(d, u, n + Len(w), W \union Below(d, q))
<1>1. /\ Brackets(u, n, K, opens, cuts) /\ cuts[K] = n /\ u[opens[K]] = "begin_object"
      /\ \E name \in Names : q = Append(p, Property(name))
      /\ Along(p, u, n, K, opens, cuts)
  BY DEF Inside, Bracket
<1>2. PICK name \in Names : q = Append(p, Property(name))
  BY <1>1
<1>3. p \in Paths /\ q \in Paths /\ DOMAIN d \subseteq Paths
  BY DEF Value, Tree, Short
<1>4. Property(name) \in Keys /\ Last(q) = Property(name) /\ Last(q)[1] = name
  <2>1. Property(name) \in Keys
    BY DEF Property, Keys
  <2>2. Last(q) = Property(name)
    BY <1>2, <1>3, <2>1 DEF Last, Paths
  <2> QED
    BY <2>1, <2>2 DEF Property
<1>5. /\ text \in Seq(Texts) /\ text # <<>> /\ text[1] \in Opening \union Leaves
      /\ Len(text) \in Nat \ {0}
  BY DEF Says
<1>6. /\ w \in Seq(Texts) /\ Len(w) = Len(text) + 2 /\ w[1] = name /\ w[2] = "name_separator"
      /\ \A j \in 1..Len(text) : w[2 + j] = text[j]
  <2>1. PICK x : x = <<name, "name_separator">>
    OBVIOUS
  <2>2. x \in Seq(Texts) /\ Len(x) = 2 /\ x[1] = name /\ x[2] = "name_separator"
    <3>1. name \in Texts /\ "name_separator" \in Texts
      BY DEF Texts, Marks, Leaves
    <3> QED
      BY <2>1, <3>1
  <2>3. w = x \o text
    BY <1>4, <2>1
  <2>4. /\ x \o text \in Seq(Texts) /\ Len(x \o text) = 2 + Len(text)
        /\ \A j \in 1..2 : (x \o text)[j] = x[j]
        /\ \A j \in 1..Len(text) : (x \o text)[2 + j] = text[j]
    <3>1. x \in Seq(Texts) /\ text \in Seq(Texts)
      BY <1>5, <2>2
    <3>2. /\ x \o text \in Seq(Texts) /\ Len(x \o text) = Len(x) + Len(text)
          /\ \A j \in 1..Len(x) : (x \o text)[j] = x[j]
          /\ \A j \in 1..Len(text) : (x \o text)[Len(x) + j] = text[j]
      BY <3>1, Concat
    <3> QED
      BY <2>2, <3>2
  <2>8. PICK v : v = x \o text
    OBVIOUS
  <2>9. w = v
    BY <2>3, <2>8, Zenon
  <2>5. v[1] = name /\ v[2] = "name_separator"
    <3>1. 1 \in 1..2 /\ 2 \in 1..2
      OBVIOUS
    <3>2. (x \o text)[1] = x[1] /\ (x \o text)[2] = x[2]
      BY <2>4, <3>1
    <3> QED
      BY <2>2, <2>8, <3>2
  <2>6. \A j \in 1..Len(text) : v[2 + j] = text[j]
    BY <2>4, <2>8
  <2>7. v \in Seq(Texts) /\ Len(v) = Len(text) + 2
    BY <1>5, <2>4, <2>8
  <2> QED
    BY <2>5, <2>6, <2>7, <2>9
<1>7. PICK m : m = n + 2
  OBVIOUS
<1>8. PICK b : b = n + Len(w)
  OBVIOUS
<1>9. /\ m \in Nat /\ b \in Nat /\ b = m + Len(text) /\ n + 1 < Len(u) /\ n + 1 + 1 = m
      /\ u[n + 1] = name /\ u[m] = "name_separator" /\ m < Len(u)
      /\ b <= Len(u) /\ \A j \in 1..Len(text) : u[m + j] = text[j]
  <2>1. n + Len(w) <= Len(u) /\ \A j \in 1..Len(w) : u[n + j] = w[j]
    BY DEF Lies
  <2>2. 1 \in 1..Len(w) /\ 2 \in 1..Len(w) /\ \A j \in 1..Len(text) : 2 + j \in 1..Len(w)
    BY <1>5, <1>6
  <2>3. u[n + 1] = w[1] /\ u[n + 2] = w[2] /\ \A j \in 1..Len(text) : u[n + (2 + j)] = w[2 + j]
    BY <2>1, <2>2
  <2>4. \A j \in 1..Len(text) : n + (2 + j) = m + j
    BY <1>7
  <2>5. m \in Nat /\ b \in Nat /\ b = m + Len(text) /\ n + 1 < Len(u) /\ n + 1 + 1 = m
        /\ m < Len(u) /\ b <= Len(u)
    <3>1. PICK l, k : l = Len(text) /\ k = Len(u)
      OBVIOUS
    <3>2. l \in Nat \ {0} /\ k \in Nat /\ Len(w) = l + 2 /\ b = n + (l + 2) /\ n + (l + 2) <= k
      BY <1>5, <1>6, <1>8, <2>1, <3>1
    <3>3. /\ m \in Nat /\ b \in Nat /\ b = m + l /\ n + 1 < k /\ n + 1 + 1 = m
          /\ m < k /\ b <= k
      BY <1>7, <3>2
    <3> QED
      BY <3>1, <3>3
  <2>6. ASSUME NEW j \in 1..Len(text) PROVE u[m + j] = text[j]
    <3>1. u[n + (2 + j)] = w[2 + j]
      BY <2>3
    <3>2. w[2 + j] = text[j]
      BY <1>6
    <3>3. n + (2 + j) = m + j
      BY <2>4
    <3> QED
      BY <3>1, <3>2, <3>3, Zenon
  <2> QED
    BY <1>6, <1>7, <2>3, <2>5, <2>6
<1>10. /\ name \notin Opening \union Closing \union {"value_separator"}
       /\ "name_separator" \notin Opening \union Closing \union Leaves \union {"value_separator"}
  BY TokenKinds DEF Opening, Closing, Leaves
<1>11. Agree(u, u, n) /\ Agree(u, u, n + 1)
  BY DEF Agree
<1>12. Brackets(u, n + 1, K, opens, cuts)
  BY <1>1, <1>9, <1>10, <1>11, BracketsStay
<1>13. Brackets(u, m, K, opens, cuts)
  <2>1. PICK e : e = n + 1
    OBVIOUS
  <2>2. e \in Nat /\ e + 1 = m /\ Brackets(u, e, K, opens, cuts) /\ Agree(u, u, e)
        /\ u[e + 1] \notin Opening \union Closing \union {"value_separator"}
    <3>1. e + 1 = m /\ e \in Nat
      BY <1>9, <2>1
    <3>2. Brackets(u, e, K, opens, cuts) /\ Agree(u, u, e)
      BY <1>11, <1>12, <2>1
    <3>3. u[m] \notin Opening \union Closing \union {"value_separator"}
      BY <1>9, <1>10
    <3> QED
      BY <3>1, <3>2, <3>3
  <2>3. Brackets(u, e + 1, K, opens, cuts)
    BY <2>2, BracketsStay
  <2> QED
    BY <2>2, <2>3
<1>14. Wrote(d, u, m, W)
  <2>1. Wrote(d, u, n + 1, W)
    BY <1>7, <1>9, WroteNone
  <2>2. PICK e : e = n + 1
    OBVIOUS
  <2>3. e \in Nat /\ e + 1 = m /\ Wrote(d, u, e, W) /\ u[e + 1] \notin Opening \union Leaves
    <3>1. e + 1 = m /\ e \in Nat /\ Wrote(d, u, e, W)
      BY <1>9, <2>1, <2>2
    <3>2. u[m] \notin Opening \union Leaves
      BY <1>9, <1>10
    <3> QED
      BY <3>1, <3>2
  <2>4. Wrote(d, u, e + 1, W)
    BY <2>3, WroteNone
  <2> QED
    BY <2>3, <2>4
<1>15. Begun(u, opens[K], cuts[K], m + 1)
  BY <1>1, <1>7, <1>9 DEF Begun
<1>16. Path(u, m + 1) = q
  <2>1. KeyAt(u, m, opens[K], cuts[K]) = Property(name)
    BY <1>1, <1>9 DEF KeyAt
  <2>2. Along(p, u, m, K, opens, cuts)
    <3>1. m \in Nat /\ n <= m
      BY <1>7
    <3> QED
      BY <1>1, <1>13, <3>1, AlongStill
  <2>3. Comes(q, p, u, m, K, opens, cuts)
    BY <1>2, <1>4, <2>1, <2>2 DEF Comes
  <2>4. Brackets(u, m, K, opens, cuts) /\ m \in Nat
    BY <1>9, <1>13
  <2> QED
    BY <2>3, <2>4, NextPath
<1>17. Said(d, q, text, u, m, K, opens, cuts, W)
  <2>1. Lies(u, m, text) /\ Ends(u, m + Len(text))
    BY <1>8, <1>9 DEF Lies
  <2>2. Ready(u, m, K, opens, cuts, q)
    BY <1>13, <1>15, <1>16 DEF Ready
  <2>3. Saying(d, q, text, u, m, K, opens, cuts, W)
    BY <1>14, <2>1, <2>2 DEF Saying
  <2> QED
    BY <1>9, <2>3 DEF Says
<1>18. /\ Brackets(u, b, K, opens, cuts) /\ IsValue(u, m + 1, b)
       /\ Wrote(d, u, b, W \union Below(d, q))
  BY <1>9, <1>17 DEF Said
<1>19. IsPart(u, opens[K], n, b + 1)
  <2>1. PICK i : i = m + 1
    OBVIOUS
  <2>2. i \in Nat /\ b \in Nat /\ i <= b
    BY <1>5, <1>9, <2>1
  <2>3. Begun(u, opens[K], n, i) /\ IsValue(u, i, b)
    BY <1>1, <1>15, <1>18, <2>1
  <2> QED
    BY <2>2, <2>3, PartEnds
<1> QED
  BY <1>6, <1>8, <1>18, <1>19

-----------------------------------------------------------------------------

(* In the container at p, of which bracket K is: before part i, and behind *)
(* it.  X has been printed.                                                *)
Printing(d, p, u, n, K, opens, cuts, i, X) ==
    /\ Brackets(u, n, K, opens, cuts) /\ u[opens[K]] = Bracket(d[p])
    /\ Along(p, u, n, K, opens, cuts)
    /\ Cardinality(Cuts(u, opens[K], n)) = i
    /\ Wrote(d, u, n, X)

Before(d, p, u, n, K, opens, cuts, i, X) ==
    Printing(d, p, u, n, K, opens, cuts, i, X) /\ cuts[K] = n

Behind(d, p, u, n, K, opens, cuts, i, X) ==
    Printing(d, p, u, n, K, opens, cuts, i, X) /\ IsPart(u, opens[K], cuts[K], n + 1)

Entry(d, p, q, i) ==
    /\ d[p] = "arr" => q = Append(p, Element(i))
    /\ d[p] = "obj" => \E name \in Names : q = Append(p, Property(name))

(* A part is printed, and ends where a comma or the bracket must follow.   *)
LEMMA PartSays ==
  ASSUME NEW d, Value(d), NEW p \in DOMAIN d, d[p] \in {"obj", "arr"}, NEW q \in DOMAIN d,
         NEW i \in Nat, Entry(d, p, q, i), NEW text, Says(d, q, text),
         NEW w, w = Part(d, p, q, text),
         NEW u \in Seq(Texts), NEW n \in Nat, NEW K \in Nat \ {0},
         NEW opens \in [Nat -> Nat], NEW cuts \in [Nat -> Nat],
         NEW X \in SUBSET DOMAIN d, Before(d, p, u, n, K, opens, cuts, i, X),
         Lies(u, n, w), Ends(u, n + Len(w)), Below(d, q) \intersect X = {}
  PROVE  Behind(d, p, u, n + Len(w), K, opens, cuts, i, X \union Below(d, q))
<1>1. /\ Brackets(u, n, K, opens, cuts) /\ u[opens[K]] = Bracket(d[p])
      /\ Along(p, u, n, K, opens, cuts) /\ Cardinality(Cuts(u, opens[K], n)) = i
      /\ Wrote(d, u, n, X) /\ cuts[K] = n
  BY DEF Before, Printing
<1>2. Inside(d, p, q, u, n, K, opens, cuts)
  BY <1>1 DEF Inside, Entry
<1>3. PICK m : m = n + Len(w)
  OBVIOUS
<1>4. /\ w \in Seq(Texts)
      /\ Brackets(u, m, K, opens, cuts) /\ IsPart(u, opens[K], n, m + 1)
      /\ Wrote(d, u, m, X \union Below(d, q))
  <2>1. CASE d[p] = "arr"
    <3>1. w = text
      BY <2>1 DEF Part
    <3>2. w \in Seq(Texts)
      BY <3>1 DEF Says
    <3>3. /\ Brackets(u, n + Len(text), K, opens, cuts)
          /\ IsPart(u, opens[K], n, n + Len(text) + 1)
          /\ Wrote(d, u, n + Len(text), X \union Below(d, q))
      BY <1>1, <1>2, <2>1, <3>1, ElementSays
    <3> QED
      BY <1>3, <3>1, <3>2, <3>3
  <2>2. CASE d[p] = "obj"
    <3>1. w = <<Last(q)[1], "name_separator">> \o text
      BY <2>2 DEF Part
    <3>2. /\ w \in Seq(Texts)
          /\ Brackets(u, n + Len(w), K, opens, cuts)
          /\ IsPart(u, opens[K], n, n + Len(w) + 1)
          /\ Wrote(d, u, n + Len(w), X \union Below(d, q))
      BY <1>1, <1>2, <2>2, <3>1, MemberSays
    <3> QED
      BY <1>3, <3>2
  <2> QED
    BY <2>1, <2>2
<1>5. m \in Nat /\ n <= m
  <2>1. PICK l : l = Len(w)
    OBVIOUS
  <2>2. l \in Nat
    BY <1>4, <2>1
  <2>3. m = n + l
    BY <1>3, <2>1
  <2> QED
    BY <2>2, <2>3
<1>6. Along(p, u, m, K, opens, cuts)
  BY <1>1, <1>4, <1>5, AlongStill
<1>7. Cuts(u, opens[K], m) = Cuts(u, opens[K], n)
  <2>1. opens[K] \in 1..n /\ IsCut(u, n, opens[K], cuts[K]) /\ IsCut(u, m, opens[K], cuts[K])
    BY <1>1, <1>4 DEF Brackets, IsOpen
  <2> QED
    BY <1>5, <2>1, CutsStay
<1>8. Behind(d, p, u, m, K, opens, cuts, i, X \union Below(d, q))
  BY <1>1, <1>4, <1>6, <1>7 DEF Behind, Printing
<1> QED
  BY <1>3, <1>8

LEMMA CommaSays ==
  ASSUME NEW d, NEW p, NEW i \in Nat,
         NEW u, NEW n \in Nat, NEW K \in Nat \ {0},
         NEW opens \in [Nat -> Nat], NEW cuts \in [Nat -> Nat],
         NEW X, Behind(d, p, u, n, K, opens, cuts, i, X), u[n + 1] = "value_separator",
         NEW new, With(cuts, K, n + 1, new)
  PROVE  Before(d, p, u, n + 1, K, opens, new, i + 1, X)
<1>1. /\ Brackets(u, n, K, opens, cuts) /\ u[opens[K]] = Bracket(d[p])
      /\ Along(p, u, n, K, opens, cuts) /\ Cardinality(Cuts(u, opens[K], n)) = i
      /\ Wrote(d, u, n, X) /\ IsPart(u, opens[K], cuts[K], n + 1)
  BY DEF Behind, Printing
<1>2. Agree(u, u, n)
  BY DEF Agree
<1>3. Brackets(u, n + 1, K, opens, new)
  BY <1>1, <1>2, BracketsComma
<1>4. new[K] = n + 1 /\ \A k \in 1..(K - 1) : new[k] = cuts[k]
  <2>1. \A k \in 1..(K - 1) : k \in Nat \ {K}
    OBVIOUS
  <2> QED
    BY <2>1 DEF With
<1>5. /\ \A k \in 1..K : opens[k] \in 1..n /\ Depth(u, opens[k]) = k
      /\ Depth(u, n + 1) = K
  BY <1>1, <1>3 DEF Brackets, IsOpen
<1>6. ASSUME NEW k \in 1..(K - 1) PROVE p[k] = KeyAt(u, n + 1, opens[k], new[k])
  <2>1. opens[k] \in 1..n /\ Depth(u, opens[k]) = k /\ Depth(u, n + 1) # k /\ k \in Nat
    BY <1>5
  <2>2. KeyAt(u, n + 1, opens[k], cuts[k]) = KeyAt(u, n, opens[k], cuts[k])
    BY <1>2, <2>1, KeysStay
  <2> QED
    BY <1>1, <1>4, <2>2 DEF Along
<1>7. Along(p, u, n + 1, K, opens, new)
  BY <1>1, <1>6 DEF Along
<1>8. Cardinality(Cuts(u, opens[K], n + 1)) = i + 1
  <2>1. PICK a : a = opens[K]
    OBVIOUS
  <2>2. a \in 1..n /\ Depth(u, n + 1) = Depth(u, a)
    BY <1>5, <2>1
  <2>3. Commas(u, a, n + 1) = Commas(u, a, n) \union {n + 1}
    BY <1>2, <2>2, LongerCommas
  <2>4. Cuts(u, a, n + 1) = Cuts(u, a, n) \union {n + 1}
    BY <2>3 DEF Cuts
  <2>5. Cardinality(Cuts(u, a, n) \union {n + 1}) = Cardinality(Cuts(u, a, n)) + 1
    BY <2>2, CutsAreFinite
  <2> QED
    BY <1>1, <2>1, <2>4, <2>5
<1>9. Wrote(d, u, n + 1, X)
  <2>1. u[n + 1] \notin Opening \union Leaves
    BY TokenKinds DEF Opening
  <2> QED
    BY <1>1, <2>1, WroteNone
<1> QED
  BY <1>1, <1>3, <1>4, <1>7, <1>8, <1>9 DEF Before, Printing

LEMMA KeysOfNext ==
  ASSUME NEW u, NEW n \in Nat, NEW K \in Nat, NEW opens, NEW cuts, Brackets(u, n, K, opens, cuts),
         NEW p \in Paths, Path(u, n + 1) = p
  PROVE  Len(p) = K /\ \A k \in 1..K : p[k] = KeyAt(u, n, opens[k], cuts[k])
<1>1. Agree(u, u, n)
  BY DEF Agree
<1>2. Path(u, n + 1) = [k \in 1..K |-> KeyAt(u, n, opens[k], cuts[k])]
  BY <1>1, PathByKeys
<1>3. p \in Seq(Keys) /\ p = [k \in 1..K |-> KeyAt(u, n, opens[k], cuts[k])]
  BY <1>2 DEF Paths
<1> QED
  BY <1>3

Same(f, g, K) == \A k \in 1..K : f[k] = g[k]

LEMMA OpenAlong ==
  ASSUME NEW u, NEW n \in Nat, NEW K \in Nat, NEW opens, NEW cuts, Brackets(u, n, K, opens, cuts),
         NEW p \in Paths, Path(u, n + 1) = p, u[n + 1] # "value_separator",
         NEW newOpens, NEW newCuts, Same(newOpens, opens, K), Same(newCuts, cuts, K)
  PROVE  Along(p, u, n + 1, K + 1, newOpens, newCuts)
<1>1. Len(p) = K /\ \A k \in 1..K : p[k] = KeyAt(u, n, opens[k], cuts[k])
  BY KeysOfNext
<1>2. Agree(u, u, n)
  BY DEF Agree
<1>3. ASSUME NEW k \in 1..K PROVE p[k] = KeyAt(u, n + 1, newOpens[k], newCuts[k])
  <2>1. opens[k] \in 1..n /\ Depth(u, opens[k]) = k /\ k \in Nat
    BY DEF Brackets, IsOpen
  <2>2. KeyAt(u, n + 1, opens[k], cuts[k]) = KeyAt(u, n, opens[k], cuts[k])
    BY <1>2, <2>1, KeysStay
  <2>3. newOpens[k] = opens[k] /\ newCuts[k] = cuts[k]
    BY DEF Same
  <2> QED
    BY <1>1, <2>2, <2>3
<1>4. PICK e : e = K + 1
  OBVIOUS
<1>5. e - 1 = K
  BY <1>4
<1>6. Along(p, u, n + 1, e, newOpens, newCuts)
  BY <1>1, <1>3, <1>5 DEF Along
<1> QED
  BY <1>4, <1>6

(* The bracket of a container is printed.                                  *)
LEMMA OpenSays ==
  ASSUME NEW d, Value(d), NEW p \in DOMAIN d, d[p] \in {"obj", "arr"},
         NEW u, NEW n \in Nat, NEW K \in Nat,
         NEW opens \in [Nat -> Nat], NEW cuts \in [Nat -> Nat], Ready(u, n, K, opens, cuts, p),
         u[n + 1] = Bracket(d[p]), Ends(u, n + 1),
         NEW W, Wrote(d, u, n, W), Below(d, p) \intersect W = {},
         NEW newOpens, With(opens, K + 1, n + 1, newOpens),
         NEW newCuts, With(cuts, K + 1, n + 1, newCuts)
  PROVE  Before(d, p, u, n + 1, K + 1, newOpens, newCuts, 1, W \union {p})
<1>1. /\ Brackets(u, n, K, opens, cuts) /\ Path(u, n + 1) = p
      /\ IF K = 0 THEN n = 0 ELSE Begun(u, opens[K], cuts[K], n + 1)
  BY DEF Ready
<1>2. Agree(u, u, n) /\ DOMAIN d \subseteq Paths
  BY DEF Agree, Value, Tree, Short
<1>3. /\ u[n + 1] \in Opening /\ u[n + 1] # "value_separator" /\ Kind(u[n + 1]) = Shown(d[p])
  <2>1. Shown("obj") = "obj" /\ Shown("arr") = "arr"
    BY KindsDiffer, PrinterConstants DEF Shown, Leaves
  <2>2. Kind("begin_object") = "obj" /\ Kind("begin_array") = "arr"
    BY TokenKinds
  <2>3. CASE d[p] = "obj"
    BY <2>1, <2>2, <2>3 DEF Bracket, Opening
  <2>4. CASE d[p] = "arr"
    BY <2>1, <2>2, <2>4 DEF Bracket, Opening
  <2> QED
    BY <2>3, <2>4
<1>4. Brackets(u, n + 1, K + 1, newOpens, newCuts)
  BY <1>1, <1>2, <1>3, BracketsOpen
<1>5. /\ newOpens[K + 1] = n + 1 /\ newCuts[K + 1] = n + 1
      /\ \A k \in 1..K : newOpens[k] = opens[k] /\ newCuts[k] = cuts[k]
  BY DEF With
<1>6. p \in Paths
  BY <1>2
<1>7. Same(newOpens, opens, K) /\ Same(newCuts, cuts, K)
  BY <1>5 DEF Same
<1>8. Brackets(u, n, K, opens, cuts) /\ Path(u, n + 1) = p /\ u[n + 1] # "value_separator"
  BY <1>1, <1>3
<1>9. Along(p, u, n + 1, K + 1, newOpens, newCuts)
  BY <1>6, <1>7, <1>8, OpenAlong
<1>10. Cardinality(Cuts(u, n + 1, n + 1)) = 1
  <2>1. Cuts(u, n + 1, n + 1) = {n + 1}
    BY DEF Cuts, Commas
  <2> QED
    BY <2>1, FS_Singleton
<1>11. Wrote(d, u, n + 1, W \union {p})
  <2>1. n + 1 < Len(u) => u[n + 2] # "name_separator"
    <3>1. n + 1 + 1 = n + 2
      OBVIOUS
    <3> QED
      BY <3>1 DEF Ends
  <2>2. u[n + 1] \in Opening \union Leaves
    BY <1>3
  <2> QED
    BY <1>1, <1>2, <1>3, <2>1, <2>2, WroteValue
<1> QED
  BY <1>4, <1>5, <1>9, <1>10, <1>11 DEF Before, Printing

LEMMA SameBrackets ==
  ASSUME NEW u, NEW n, NEW K \in Nat, NEW opens, NEW cuts, NEW newOpens, NEW newCuts,
         Brackets(u, n, K, newOpens, newCuts),
         Same(newOpens, opens, K), Same(newCuts, cuts, K)
  PROVE  Brackets(u, n, K, opens, cuts)
<1>3. \A k \in 1..K : newOpens[k] = opens[k] /\ newCuts[k] = cuts[k]
  BY DEF Same
<1>1. ASSUME NEW k \in 1..(K - 1) PROVE Begun(u, opens[k], cuts[k], opens[k + 1])
  <2>1. k \in 1..K /\ k + 1 \in 1..K
    OBVIOUS
  <2> QED
    BY <1>3, <2>1 DEF Brackets
<1>2. K > 0 => opens[1] = 1
  <2>1. K > 0 => 1 \in 1..K
    OBVIOUS
  <2> QED
    BY <1>3, <2>1 DEF Brackets
<1> QED
  BY <1>1, <1>2, <1>3 DEF Brackets

Ending(d, p) == IF d[p] = "obj" THEN "end_object" ELSE "end_array"

(* In the container that began behind n tokens, where it may end.          *)
Ended(d, p, u, n, m, K, opens, cuts, i, X) ==
    /\ Printing(d, p, u, m, K, opens, cuts, i, X) /\ opens[K] = n + 1
    /\ m = n + 1 \/ Behind(d, p, u, m, K, opens, cuts, i, X)

Maps(f) == f \in [Nat -> Nat]

(* A container ends: for what is around it, it is one value.               *)
LEMMA CloseSays ==
  ASSUME NEW d, NEW p, d[p] \in {"obj", "arr"}, NEW i,
         NEW u, NEW n \in Nat, NEW m \in Nat, NEW K \in Nat, NEW k, k = K + 1,
         NEW opens, NEW cuts,
         NEW newOpens, Maps(newOpens), NEW newCuts, Maps(newCuts),
         Same(newOpens, opens, K), Same(newCuts, cuts, K),
         NEW X, Ended(d, p, u, n, m, k, newOpens, newCuts, i, X),
         u[m + 1] = Ending(d, p)
  PROVE  Brackets(u, m + 1, K, opens, cuts) /\ IsValue(u, n + 1, m + 1) /\ Wrote(d, u, m + 1, X)
<1>1. /\ Brackets(u, m, k, newOpens, newCuts) /\ u[n + 1] = Bracket(d[p]) /\ Wrote(d, u, m, X)
  BY DEF Ended, Printing
<1>2. Agree(u, u, m)
  BY DEF Agree
<1>3. \/ u[newOpens[k]] = "begin_object" /\ u[m + 1] = "end_object"
      \/ u[newOpens[k]] = "begin_array" /\ u[m + 1] = "end_array"
  BY <1>1 DEF Bracket, Ending, Ended
<1>4. newOpens[k] = m \/ IsPart(u, newOpens[k], newCuts[K + 1], m + 1)
  BY DEF Ended, Behind
<1>5. k - 1 = K
  OBVIOUS
<1>6. /\ Brackets(u, m + 1, k - 1, newOpens, newCuts)
      /\ IsValue(u, newOpens[k], m + 1)
  <2>1. k \in Nat \ {0}
    OBVIOUS
  <2>2. \/ u[newOpens[k]] = "begin_object" /\ u[m + 1] = "end_object"
        \/ u[newOpens[k]] = "begin_array" /\ u[m + 1] = "end_array"
    BY <1>3
  <2>3. newOpens[k] = m \/ IsPart(u, newOpens[k], newCuts[k], m + 1)
    BY <1>4
  <2>4. Brackets(u, m, k, newOpens, newCuts)
    BY <1>1
  <2>5. newOpens \in [Nat -> Nat] /\ newCuts \in [Nat -> Nat]
    BY DEF Maps
  <2> QED
    BY <1>2, <2>1, <2>2, <2>3, <2>4, <2>5, BracketsClose
<1>7. Brackets(u, m + 1, K, newOpens, newCuts) /\ IsValue(u, n + 1, m + 1)
  BY <1>5, <1>6 DEF Ended
<1>8. Brackets(u, m + 1, K, opens, cuts)
  BY <1>7, SameBrackets
<1>9. Wrote(d, u, m + 1, X)
  <2>1. u[m + 1] \notin Opening \union Leaves
    BY TokenKinds DEF Opening, Closing, Ending
  <2> QED
    BY <1>1, <2>1, WroteNone
<1> QED
  BY <1>7, <1>8, <1>9

-----------------------------------------------------------------------------

LEMMA ElementsDiffer ==
  ASSUME NEW p \in Paths, NEW i \in Nat \ {0}, NEW j \in Nat \ {0},
         Append(p, Element(i)) = Append(p, Element(j))
  PROVE  i = j
<1>1. p \in Seq(Keys) /\ Element(i) \in Keys /\ Element(j) \in Keys
  BY DEF Paths, Keys, Element
<1>2. Element(i) = Element(j)
  <2>1. \A e \in Keys : Append(p, e)[Len(p) + 1] = e
    BY <1>1
  <2> QED
    BY <1>1, <2>1
<1> QED
  BY <1>2 DEF Element

(* What is listed is each once.                                            *)
Lists(f, n, S) ==
    /\ f \in [1..n -> S] /\ \A x \in S : \E i \in 1..n : f[i] = x
    /\ \A i, j \in 1..n : f[i] = f[j] => i = j

LEMMA Sequenced ==
  ASSUME NEW S, IsFiniteSet(S)
  PROVE  Lists(SetToSeq(S), Cardinality(S), S)
<1>1. PICK n : n = Cardinality(S)
  OBVIOUS
<1>2. n \in Nat
  BY <1>1, FS_CardinalityType
<1>3. \E f \in [1..n -> S] : IsInjective(f)
  <2>1. PICK m \in Nat : ExistsBijection(1..m, S)
    BY FS_NatBijection
  <2>2. m = n
    BY <1>1, <2>1, FS_CountingElements
  <2> QED
    BY <2>1, <2>2 DEF ExistsBijection, Bijection, Injection
<1>4. SetToSeq(S) = CHOOSE f \in [1..n -> S] : IsInjective(f)
  BY <1>1 DEF SetToSeq
<1>5. PICK f : f = SetToSeq(S)
  OBVIOUS
<1>6. f \in [1..n -> S] /\ IsInjective(f)
  BY <1>3, <1>4, <1>5
<1>7. f \in Injection(1..n, S)
  BY <1>6 DEF Injection
<1>8. Cardinality(1..n) = n
  BY <1>2, FS_Interval
<1>9. f \in Surjection(1..n, S)
  BY <1>1, <1>7, <1>8, FS_Injection
<1>10. \A i, j \in 1..n : f[i] = f[j] => i = j
  BY <1>6 DEF IsInjective
<1>11. \A x \in S : \E i \in 1..n : f[i] = x
  BY <1>9 DEF Surjection
<1> QED
  BY <1>1, <1>5, <1>6, <1>10, <1>11 DEF Lists

(* Each child of a container is printed once.                              *)
LEMMA EntriesOf ==
  ASSUME NEW d, Value(d), EntriesFit(d), IsFiniteSet(DOMAIN d),
         NEW p \in DOMAIN d, d[p] \in {"obj", "arr"}
  PROVE  /\ Cardinality(Children(d, p)) \in Nat
         /\ Lists(Entries(d, p), Cardinality(Children(d, p)), Children(d, p))
         /\ \A i \in 1..Cardinality(Children(d, p)) : Entry(d, p, Entries(d, p)[i], i)
<1>1. PICK C, n, f : C = Children(d, p) /\ n = Cardinality(Children(d, p)) /\ f = Entries(d, p)
  OBVIOUS
<1>2. C \subseteq DOMAIN d /\ IsFiniteSet(C) /\ n \in Nat
  <2>1. C \subseteq DOMAIN d
    BY <1>1 DEF Children, Below
  <2> QED
    BY <1>1, <2>1, FS_Subset, FS_CardinalityType
<1>3. CASE d[p] = "arr"
  <2>1. f = [i \in 1..n |-> Append(p, Element(i))]
    BY <1>1, <1>3 DEF Entries
  <2>2. C = Elements(p, n)
    BY <1>1, <1>3 DEF EntriesFit
  <2>3. p \in Paths
    BY DEF Value, Tree, Short
  <2>4. \A i \in 1..n : f[i] = Append(p, Element(i))
    BY <2>1
  <2>5. f \in [1..n -> C] /\ \A x \in C : \E i \in 1..n : f[i] = x
    BY <2>1, <2>2 DEF Elements
  <2>6. ASSUME NEW i \in 1..n, NEW j \in 1..n, f[i] = f[j] PROVE i = j
    BY <1>2, <2>3, <2>4, <2>6, ElementsDiffer
  <2>7. Lists(f, n, C)
    BY <2>5, <2>6 DEF Lists
  <2>8. \A i \in 1..n : Entry(d, p, f[i], i)
    BY <1>3, <2>4 DEF Entry
  <2> QED
    BY <1>1, <1>2, <2>7, <2>8
<1>4. CASE d[p] = "obj"
  <2>1. f = SetToSeq(C)
    BY <1>1, <1>4 DEF Entries
  <2>2. Lists(f, n, C)
    BY <1>1, <1>2, <2>1, Sequenced
  <2>3. \A q \in C : \E name \in Names : q = Append(p, Property(name))
    BY <1>1, <1>4 DEF EntriesFit
  <2>4. \A i \in 1..n : f[i] \in C
    BY <2>2 DEF Lists
  <2>5. \A i \in 1..n : Entry(d, p, f[i], i)
    BY <1>4, <2>3, <2>4 DEF Entry
  <2> QED
    BY <1>1, <1>2, <2>2, <2>5
<1> QED
  BY <1>3, <1>4

-----------------------------------------------------------------------------

LEMMA Placed ==
  ASSUME NEW parts \in Seq(Seq(Texts)), NEW w \in Seq(Texts), NEW open, NEW close, NEW L,
         Framed(parts, w, open, close, L), close # "name_separator",
         NEW u \in Seq(Texts), NEW n \in Nat, Lies(u, n, w), NEW i \in 1..Len(parts)
  PROVE  /\ L[i] \in Nat /\ Ends(u, n + L[i])
         /\ i = 1 => L[i] = 1 + Len(parts[i]) /\ Lies(u, n + 1, parts[i])
         /\ i > 1 => /\ L[i - 1] \in Nat /\ L[i] = L[i - 1] + 1 + Len(parts[i])
                     /\ u[n + L[i - 1] + 1] = "value_separator"
                     /\ Lies(u, n + L[i - 1] + 1, parts[i])
<1>1. PICK N, v, m : N = Len(parts) /\ v = Len(w) /\ m = Len(u)
  OBVIOUS
<1>2. N \in Nat /\ v \in Nat /\ m \in Nat /\ i \in 1..N
  BY <1>1
<1>3. /\ \A j \in 0..N : L[j] \in Nat
      /\ v = L[N] + 1 /\ w[v] = close /\ \A j \in 1..N : L[j] < v
  <2>1. L \in [0..N -> Nat]
    BY <1>1 DEF Framed
  <2> QED
    BY <1>1, <2>1 DEF Framed
<1>4. n + v <= m /\ \A j \in 1..v : u[n + j] = w[j]
  BY <1>1 DEF Lies
<1>5. i \in 0..N /\ i - 1 \in 0..N
  BY <1>2
<1>6. L[i] \in Nat /\ L[i] < v
  BY <1>2, <1>3, <1>5
<1>7. w[L[i] + 1] # "name_separator"
  <2>1. CASE i = N
    BY <1>3, <2>1
  <2>2. CASE i # N
    <3>1. PICK k : k = i + 1
      OBVIOUS
    <3>2. k \in 2..N /\ k - 1 = i
      BY <1>2, <2>2, <3>1
    <3>3. w[L[k - 1] + 1] = "value_separator"
      BY <1>1, <3>2 DEF Framed
    <3> QED
      BY <3>2, <3>3
  <2> QED
    BY <2>1, <2>2
<1>8. PICK l : l = L[i]
  OBVIOUS
<1>9. u[n + l + 1] = w[l + 1]
  <2>1. l + 1 \in 1..v /\ n + (l + 1) = n + l + 1
    BY <1>2, <1>6, <1>8
  <2> QED
    BY <1>4, <2>1
<1>10. Ends(u, n + L[i])
  BY <1>7, <1>8, <1>9 DEF Ends
<1>11. PICK part : part = parts[i]
  OBVIOUS
<1>12. part \in Seq(Texts) /\ Len(part) \in Nat
  BY <1>2, <1>1, <1>11
<1>13. ASSUME i = 1 PROVE L[i] = 1 + Len(parts[i]) /\ Lies(u, n + 1, parts[i])
  <2>1. l = 1 + Len(part) /\ \A j \in 1..Len(part) : w[1 + j] = part[j]
    BY <1>1, <1>2, <1>8, <1>11, <1>13 DEF Framed
  <2>2. PICK k : k = Len(part)
    OBVIOUS
  <2>3. k \in Nat /\ l = 1 + k /\ l < v
    BY <1>6, <1>8, <1>12, <2>1, <2>2
  <2>4. ASSUME NEW j \in 1..k PROVE u[n + 1 + j] = part[j]
    <3>1. 1 + j \in 1..v /\ n + (1 + j) = n + 1 + j
      BY <1>2, <2>3
    <3>2. u[n + (1 + j)] = w[1 + j]
      BY <1>4, <3>1
    <3> QED
      BY <2>1, <2>2, <3>1, <3>2
  <2>5. n + 1 + k <= m
    BY <1>2, <1>4, <2>3
  <2> QED
    BY <1>1, <1>8, <1>11, <2>1, <2>2, <2>4, <2>5 DEF Lies
<1>14. ASSUME i > 1
       PROVE  /\ L[i - 1] \in Nat /\ L[i] = L[i - 1] + 1 + Len(parts[i])
              /\ u[n + L[i - 1] + 1] = "value_separator"
              /\ Lies(u, n + L[i - 1] + 1, parts[i])
  <2>1. i \in 2..N
    BY <1>2, <1>14
  <2>2. PICK b, k : b = L[i - 1] /\ k = Len(part)
    OBVIOUS
  <2>3. /\ l = b + 1 + Len(part) /\ w[b + 1] = "value_separator"
        /\ \A j \in 1..Len(part) : w[b + 1 + j] = part[j]
    BY <1>1, <1>8, <1>11, <2>1, <2>2 DEF Framed
  <2>4. k \in Nat /\ b \in Nat /\ l = b + 1 + k /\ l < v
    BY <1>3, <1>5, <1>6, <1>8, <1>12, <2>2, <2>3
  <2>5. u[n + b + 1] = "value_separator"
    <3>1. b + 1 \in 1..v /\ n + (b + 1) = n + b + 1
      BY <1>2, <2>4
    <3> QED
      BY <1>4, <2>3, <3>1
  <2>6. ASSUME NEW j \in 1..k PROVE u[n + b + 1 + j] = part[j]
    <3>1. b + 1 + j \in 1..v /\ n + (b + 1 + j) = n + b + 1 + j
      BY <1>2, <2>4
    <3>2. u[n + (b + 1 + j)] = w[b + 1 + j]
      BY <1>4, <3>1
    <3> QED
      BY <2>2, <2>3, <3>1, <3>2
  <2>7. n + b + 1 + k <= m
    BY <1>2, <1>4, <2>4
  <2>8. Lies(u, n + b + 1, part)
    BY <1>1, <2>2, <2>6, <2>7 DEF Lies
  <2> QED
    BY <1>8, <1>11, <2>2, <2>3, <2>4, <2>5, <2>8
<1> QED
  BY <1>6, <1>10, <1>13, <1>14

-----------------------------------------------------------------------------

(* What has been printed behind the first i parts.                         *)
Done(d, f, X, i) == X \union UNION {Below(d, f[j]) : j \in 1..i}

(* Nothing of what is in the container at p is in X.                       *)
Apart(d, p, X) == \A q \in Children(d, p) : Below(d, q) \intersect X = {}

LEMMA DoneMore ==
  ASSUME NEW d, Value(d), NEW p \in DOMAIN d, NEW N \in Nat, NEW f, Lists(f, N, Children(d, p)),
         NEW X \in SUBSET DOMAIN d, Apart(d, p, X),
         NEW i \in Nat, NEW k, k = i + 1, k <= N
  PROVE  /\ f[k] \in DOMAIN d
         /\ Done(d, f, X, k) = Done(d, f, X, i) \union Below(d, f[k])
         /\ Below(d, f[k]) \intersect Done(d, f, X, i) = {}
         /\ Done(d, f, X, i) \in SUBSET DOMAIN d
<1>1. /\ \A j \in 1..N : f[j] \in Children(d, p)
      /\ \A j, l \in 1..N : f[j] = f[l] => j = l
  BY DEF Lists
<1>2. k \in 1..N /\ 1..k = (1..i) \union {k} /\ 1..i \subseteq 1..N /\ k \notin 1..i
  OBVIOUS
<1>3. \A q, r \in Children(d, p) : q # r => Below(d, q) \intersect Below(d, r) = {}
  BY BelowNode
<1>4. \A q : Below(d, q) \subseteq DOMAIN d
  BY DEF Below
<1>5. ASSUME NEW j \in 1..i PROVE Below(d, f[k]) \intersect Below(d, f[j]) = {}
  <2>1. f[j] # f[k] /\ f[j] \in Children(d, p) /\ f[k] \in Children(d, p)
    BY <1>1, <1>2
  <2> QED
    BY <1>3, <2>1
<1>6. Done(d, f, X, k) = Done(d, f, X, i) \union Below(d, f[k])
  BY <1>2 DEF Done
<1>7. f[k] \in Children(d, p) /\ Below(d, f[k]) \intersect X = {}
  BY <1>1, <1>2 DEF Apart
<1>8. Below(d, f[k]) \intersect Done(d, f, X, i) = {}
  BY <1>5, <1>7 DEF Done
<1>9. Done(d, f, X, i) \in SUBSET DOMAIN d
  BY <1>4 DEF Done
<1>10. f[k] \in DOMAIN d
  BY <1>7 DEF Children, Below
<1> QED
  BY <1>6, <1>7, <1>8, <1>9, <1>10

(* Behind part i, with whatever last cut.                                  *)
Reached(d, p, u, n, K, opens, cuts, i, X) ==
    \E new \in [Nat -> Nat] : Same(new, cuts, K - 1) /\ Behind(d, p, u, n, K, opens, new, i, X)

LEMMA FirstPart ==
  ASSUME NEW d, Value(d), NEW p \in DOMAIN d, d[p] \in {"obj", "arr"}, NEW q \in DOMAIN d,
         Entry(d, p, q, 1), NEW text, Says(d, q, text), NEW w, w = Part(d, p, q, text),
         NEW u \in Seq(Texts), NEW n \in Nat, NEW K \in Nat \ {0},
         NEW opens, Maps(opens), NEW cuts, Maps(cuts),
         NEW X \in SUBSET DOMAIN d, Before(d, p, u, n, K, opens, cuts, 1, X),
         Lies(u, n, w), Ends(u, n + Len(w)), Below(d, q) \intersect X = {}
  PROVE  Reached(d, p, u, n + Len(w), K, opens, cuts, 1, X \union Below(d, q))
<1>1. 1 \in Nat /\ opens \in [Nat -> Nat] /\ cuts \in [Nat -> Nat]
  BY DEF Maps
<1>2. Behind(d, p, u, n + Len(w), K, opens, cuts, 1, X \union Below(d, q))
  BY <1>1, PartSays
<1> QED
  BY <1>1, <1>2 DEF Reached, Same

LEMMA NextPart ==
  ASSUME NEW d, Value(d), NEW p \in DOMAIN d, d[p] \in {"obj", "arr"}, NEW q \in DOMAIN d,
         NEW i \in Nat, Entry(d, p, q, i + 1),
         NEW text, Says(d, q, text), NEW w, w = Part(d, p, q, text),
         NEW u \in Seq(Texts), NEW n \in Nat, NEW K \in Nat \ {0},
         NEW opens, Maps(opens), NEW cuts, Maps(cuts),
         NEW X \in SUBSET DOMAIN d, Reached(d, p, u, n, K, opens, cuts, i, X),
         u[n + 1] = "value_separator",
         Lies(u, n + 1, w), Ends(u, n + 1 + Len(w)), Below(d, q) \intersect X = {}
  PROVE  Reached(d, p, u, n + 1 + Len(w), K, opens, cuts, i + 1, X \union Below(d, q))
<1>1. PICK old \in [Nat -> Nat] : Same(old, cuts, K - 1) /\ Behind(d, p, u, n, K, opens, old, i, X)
  BY DEF Reached
<1>2. PICK new : With(old, K, n + 1, new)
  <2>1. K \in Nat /\ n + 1 \in Nat
    OBVIOUS
  <2> QED
    BY <2>1, WithOne
<1>3. Before(d, p, u, n + 1, K, opens, new, i + 1, X)
  <2>1. opens \in [Nat -> Nat]
    BY DEF Maps
  <2> QED
    BY <1>1, <1>2, <2>1, CommaSays
<1>4. new \in [Nat -> Nat] /\ Same(new, cuts, K - 1)
  <2>1. ASSUME NEW k \in 1..(K - 1) PROVE new[k] = cuts[k]
    <3>1. k \in Nat \ {K}
      OBVIOUS
    <3>2. new[k] = old[k]
      BY <1>2, <3>1 DEF With
    <3>3. old[k] = cuts[k]
      BY <1>1 DEF Same
    <3> QED
      BY <3>2, <3>3
  <2> QED
    BY <1>2, <2>1 DEF With, Same
<1>5. PICK m, e : m = n + 1 /\ e = i + 1
  OBVIOUS
<1>6. /\ m \in Nat /\ e \in Nat /\ Entry(d, p, q, e) /\ Before(d, p, u, m, K, opens, new, e, X)
      /\ Lies(u, m, w) /\ Ends(u, m + Len(w))
  BY <1>3, <1>5
<1>7. Behind(d, p, u, m + Len(w), K, opens, new, e, X \union Below(d, q))
  <2>1. opens \in [Nat -> Nat]
    BY DEF Maps
  <2> QED
    BY <1>4, <1>6, <2>1, PartSays
<1> QED
  BY <1>4, <1>5, <1>7 DEF Reached

(* The parts of the container at p, and that each says what it should.     *)
Enough(N, d, p, f, texts, parts) ==
    /\ Lists(f, N, Children(d, p))
    /\ parts \in Seq(Seq(Texts)) /\ Len(parts) = N
    /\ \A i \in 1..N : /\ Entry(d, p, f[i], i) /\ Says(d, f[i], texts[i])
                       /\ parts[i] = Part(d, p, f[i], texts[i])

(* After each part, everything up to it has been printed.                  *)
LEMMA PartsSay ==
  ASSUME NEW d, Value(d), NEW p \in DOMAIN d, d[p] \in {"obj", "arr"},
         NEW N \in Nat, NEW f, NEW texts, NEW parts, Enough(N, d, p, f, texts, parts),
         NEW w \in Seq(Texts), NEW open, NEW close, close # "name_separator",
         NEW L, Framed(parts, w, open, close, L),
         NEW u \in Seq(Texts), NEW n \in Nat, Lies(u, n, w), NEW K \in Nat \ {0},
         NEW opens, Maps(opens), NEW cuts, Maps(cuts),
         NEW X \in SUBSET DOMAIN d, Apart(d, p, X),
         Before(d, p, u, n + 1, K, opens, cuts, 1, X)
  PROVE  \A i \in 1..N : Reached(d, p, u, n + L[i], K, opens, cuts, i, Done(d, f, X, i))
<1> DEFINE S == {i \in Nat : i \in 1..N =>
                    Reached(d, p, u, n + L[i], K, opens, cuts, i, Done(d, f, X, i))}
<1>1. 0 \in S
  OBVIOUS
<1>2. ASSUME NEW i \in Nat, i \in S PROVE i + 1 \in S
  <2> SUFFICES ASSUME i + 1 \in 1..N
               PROVE  Reached(d, p, u, n + L[i + 1], K, opens, cuts, i + 1, Done(d, f, X, i + 1))
    OBVIOUS
  <2>1. PICK k : k = i + 1
    OBVIOUS
  <2>2. PICK q, part, l : q = f[k] /\ part = parts[k] /\ l = L[k]
    OBVIOUS
  <2>3. k \in 1..N /\ k <= N /\ k \in Nat /\ Len(parts) = N /\ parts \in Seq(Seq(Texts))
    BY <2>1 DEF Enough
  <2>4. /\ Entry(d, p, q, k) /\ Says(d, q, texts[k]) /\ part = Part(d, p, q, texts[k])
        /\ Lists(f, N, Children(d, p))
    BY <2>2, <2>3 DEF Enough
  <2>5. /\ q \in DOMAIN d /\ Done(d, f, X, k) = Done(d, f, X, i) \union Below(d, q)
        /\ Below(d, q) \intersect Done(d, f, X, i) = {} /\ Done(d, f, X, i) \in SUBSET DOMAIN d
    <3>1. k = i + 1 /\ k <= N /\ Lists(f, N, Children(d, p))
      BY <2>1, <2>3, <2>4
    <3>2. /\ f[k] \in DOMAIN d /\ Done(d, f, X, k) = Done(d, f, X, i) \union Below(d, f[k])
          /\ Below(d, f[k]) \intersect Done(d, f, X, i) = {}
          /\ Done(d, f, X, i) \in SUBSET DOMAIN d
      BY <3>1, DoneMore
    <3> QED
      BY <2>2, <3>2
  <2>6. k \in 1..Len(parts)
    BY <2>3
  <2>7. /\ l \in Nat /\ Ends(u, n + l)
        /\ k = 1 => l = 1 + Len(part) /\ Lies(u, n + 1, part)
        /\ k > 1 => /\ L[k - 1] \in Nat /\ l = L[k - 1] + 1 + Len(part)
                    /\ u[n + L[k - 1] + 1] = "value_separator"
                    /\ Lies(u, n + L[k - 1] + 1, part)
    <3>1. parts \in Seq(Seq(Texts)) /\ k \in 1..Len(parts)
      BY <2>3, <2>6
    <3>2. /\ L[k] \in Nat /\ Ends(u, n + L[k])
          /\ k = 1 => L[k] = 1 + Len(parts[k]) /\ Lies(u, n + 1, parts[k])
          /\ k > 1 => /\ L[k - 1] \in Nat /\ L[k] = L[k - 1] + 1 + Len(parts[k])
                      /\ u[n + L[k - 1] + 1] = "value_separator"
                      /\ Lies(u, n + L[k - 1] + 1, parts[k])
      BY <3>1, Placed
    <3> QED
      BY <2>2, <3>2
  <2>8. part \in Seq(Texts) /\ Len(part) \in Nat
    <3>1. parts[k] \in Seq(Texts)
      BY <2>3, <2>6
    <3> QED
      BY <2>2, <3>1
  <2>9. PICK size : size = Len(part)
    OBVIOUS
  <2>10. CASE i = 0
    <3>1. k = 1 /\ n + 1 \in Nat /\ n + l = n + 1 + size
      BY <2>1, <2>7, <2>8, <2>9, <2>10
    <3>2. Done(d, f, X, i) = X
      BY <2>10 DEF Done
    <3>3. PICK m : m = n + 1
      OBVIOUS
    <3>4. /\ m \in Nat /\ Lies(u, m, part) /\ Ends(u, m + Len(part)) /\ Entry(d, p, q, 1)
          /\ Before(d, p, u, m, K, opens, cuts, 1, X) /\ Below(d, q) \intersect X = {}
      BY <2>4, <2>5, <2>7, <2>9, <3>1, <3>2, <3>3
    <3>5. Reached(d, p, u, m + Len(part), K, opens, cuts, 1, X \union Below(d, q))
      BY <2>4, <2>5, <3>4, FirstPart
    <3> QED
      BY <2>1, <2>2, <2>5, <2>9, <3>1, <3>2, <3>3, <3>5
  <2>11. CASE i # 0
    <3>1. PICK b, m : b = L[i] /\ m = n + b
      OBVIOUS
    <3>2. k > 1 /\ k - 1 = i /\ i \in 1..N
      BY <2>1, <2>3, <2>11
    <3>3. Reached(d, p, u, m, K, opens, cuts, i, Done(d, f, X, i))
      BY <1>2, <3>1, <3>2
    <3>4. /\ b \in Nat /\ l = b + 1 + size /\ u[n + b + 1] = "value_separator"
          /\ Lies(u, n + b + 1, part)
      BY <2>7, <2>9, <3>1, <3>2
    <3>5. m \in Nat /\ n + l = m + 1 + size /\ n + b + 1 = m + 1
      <4>1. size \in Nat
        BY <2>8, <2>9
      <4>2. m = n + b /\ b \in Nat /\ l = b + 1 + size
        BY <3>1, <3>4
      <4> QED
        BY <4>1, <4>2
    <3>6. u[m + 1] = "value_separator" /\ Lies(u, m + 1, part) /\ Ends(u, m + 1 + Len(part))
      <4>1. PICK e : e = n + b + 1
        OBVIOUS
      <4>2. e = m + 1 /\ u[e] = "value_separator" /\ Lies(u, e, part)
        BY <3>4, <3>5, <4>1
      <4>3. m + 1 + Len(part) = n + l
        BY <2>9, <3>5
      <4> QED
        BY <2>7, <4>2, <4>3
    <3>7. PICK Y : Y = Done(d, f, X, i)
      OBVIOUS
    <3>8. /\ Y \in SUBSET DOMAIN d /\ Below(d, q) \intersect Y = {} /\ Entry(d, p, q, i + 1)
          /\ Reached(d, p, u, m, K, opens, cuts, i, Y)
      BY <2>1, <2>4, <2>5, <3>3, <3>7
    <3>9. Reached(d, p, u, m + 1 + Len(part), K, opens, cuts, i + 1, Y \union Below(d, q))
      BY <2>4, <2>5, <3>5, <3>6, <3>8, NextPart
    <3> QED
      BY <2>1, <2>2, <2>5, <2>9, <3>5, <3>7, <3>9
  <2> QED
    BY <2>10, <2>11
<1> HIDE DEF S
<1>3. \A i \in Nat : i \in S
  BY <1>1, <1>2, Induction
<1> QED
  BY <1>3 DEF S

-----------------------------------------------------------------------------

LEMMA PartText ==
  ASSUME NEW d, Value(d), NEW p \in DOMAIN d, d[p] \in {"obj", "arr"}, NEW q \in DOMAIN d,
         NEW i, Entry(d, p, q, i), NEW text, Says(d, q, text), NEW w, w = Part(d, p, q, text)
  PROVE  w \in Seq(Texts) /\ w # <<>> /\ w[1] \in Opening \union Leaves
<1>1. text \in Seq(Texts) /\ text # <<>> /\ text[1] \in Opening \union Leaves
  BY DEF Says
<1>2. CASE d[p] = "arr"
  BY <1>1, <1>2 DEF Part
<1>3. CASE d[p] = "obj"
  <2>1. PICK name \in Names : q = Append(p, Property(name))
    BY <1>3 DEF Entry
  <2>2. p \in Seq(Keys) /\ Property(name) \in Keys
    BY DEF Value, Tree, Short, Paths, Keys, Property
  <2>3. Last(q) = Property(name)
    BY <2>1, <2>2 DEF Last
  <2>4. Last(q)[1] = name
    BY <2>3 DEF Property
  <2>5. w = <<name, "name_separator">> \o text
    BY <1>3, <2>4, KindsDiffer DEF Part
  <2>6. name \in Leaves /\ <<name, "name_separator">> \in Seq(Texts)
    BY DEF Leaves, Texts, Marks
  <2>7. /\ <<name, "name_separator">> \o text \in Seq(Texts)
        /\ (<<name, "name_separator">> \o text)[1] = name
        /\ <<name, "name_separator">> \o text # <<>>
    BY <1>1, <2>6
  <2> QED
    BY <2>5, <2>6, <2>7
<1> QED
  BY <1>2, <1>3

(* Where a container is printed, its brackets are.                         *)
Bracketed(u, n, N, w, L, open, close) ==
    /\ u[n + 1] = open /\ Ends(u, n + 1)
    /\ n + Len(w) = n + L[N] + 1 /\ u[n + L[N] + 1] = close /\ L[N] \in Nat
    /\ N = 0 => L[N] = 1

LEMMA OpensEnd ==
  ASSUME NEW d, Value(d), NEW p \in DOMAIN d, d[p] \in {"obj", "arr"},
         NEW N \in Nat, NEW f, NEW texts, NEW parts, Enough(N, d, p, f, texts, parts),
         NEW w \in Seq(Texts), NEW open, NEW close, close # "name_separator",
         NEW L, Framed(parts, w, open, close, L),
         NEW u \in Seq(Texts), NEW n \in Nat, Lies(u, n, w)
  PROVE  Bracketed(u, n, N, w, L, open, close)
<1>1. PICK l, v : l = L[N] /\ v = Len(w)
  OBVIOUS
<1>2. parts \in Seq(Seq(Texts)) /\ Len(parts) = N
  BY DEF Enough
<1>3. /\ l \in Nat /\ v = l + 1 /\ w[1] = open /\ w[v] = close /\ (N = 0 => l = 1)
      /\ 1 \in 1..N => /\ L[1] < v /\ L[1] = 1 + Len(parts[1])
                        /\ \A j \in 1..Len(parts[1]) : w[1 + j] = parts[1][j]
  <2>1. N \in 0..N /\ L \in [0..N -> Nat]
    BY <1>2 DEF Framed
  <2>2. l \in Nat
    BY <1>1, <2>1
  <2> QED
    BY <1>1, <1>2, <2>2 DEF Framed
<1>4. n + v <= Len(u) /\ \A j \in 1..v : u[n + j] = w[j]
  BY <1>1 DEF Lies
<1>5. u[n + 1] = open
  <2>1. 1 \in 1..v
    BY <1>3
  <2> QED
    BY <1>3, <1>4, <2>1
<1>6. n + v = n + l + 1 /\ u[n + l + 1] = close
  <2>1. v \in 1..v /\ n + v = n + l + 1
    BY <1>3
  <2> QED
    BY <1>3, <1>4, <2>1
<1>7. 2 \in 1..v /\ w[2] # "name_separator"
  <2>1. CASE N = 0
    BY <1>3, <2>1
  <2>2. CASE N # 0
    <3>1. 1 \in 1..N
      BY <2>2
    <3>2. PICK q, part : q = f[1] /\ part = parts[1]
      OBVIOUS
    <3>3. Entry(d, p, q, 1) /\ Says(d, q, texts[1]) /\ part = Part(d, p, q, texts[1])
      BY <3>1, <3>2 DEF Enough
    <3>4. q \in DOMAIN d
      BY <3>1, <3>2 DEF Enough, Lists, Children, Below
    <3>5. part \in Seq(Texts) /\ part # <<>> /\ part[1] \in Opening \union Leaves
      BY <3>3, <3>4, PartText
    <3>6. Len(part) \in Nat \ {0}
      BY <3>5
    <3>7. L[1] < v /\ L[1] = 1 + Len(part) /\ \A j \in 1..Len(part) : w[1 + j] = part[j]
      BY <1>3, <3>1, <3>2
    <3>8. 2 \in 1..v /\ w[1 + 1] = part[1]
      BY <1>3, <3>6, <3>7
    <3>9. part[1] # "name_separator"
      BY <3>5, TokenKinds DEF Opening
    <3> QED
      BY <3>8, <3>9
  <2> QED
    BY <2>1, <2>2
<1>8. Ends(u, n + 1)
  <2>1. n + 1 + 1 = n + 2
    OBVIOUS
  <2>2. u[n + 2] = w[2]
    BY <1>4, <1>7
  <2> QED
    BY <1>7, <2>1, <2>2 DEF Ends
<1> QED
  BY <1>1, <1>3, <1>5, <1>6, <1>8 DEF Bracketed

(* Behind the last part, all of the container has been printed.            *)
AllOf(d, p, f, N, W, X) == Done(d, f, X, N) = W \union Below(d, p)

(* The node p is the first one of its value that is printed.               *)
Adds(d, p, W, X) == Below(d, p) \intersect W = {} /\ X = W \union {p}

LEMMA AllDone ==
  ASSUME NEW d, Value(d), NEW p \in DOMAIN d, NEW N \in Nat, NEW f, Lists(f, N, Children(d, p)),
         NEW W \in SUBSET DOMAIN d, NEW X, Adds(d, p, W, X)
  PROVE  /\ Apart(d, p, X) /\ X \in SUBSET DOMAIN d
         /\ AllOf(d, p, f, N, W, X)
<1>1. /\ Below(d, p) = {p} \union UNION {Below(d, q) : q \in Children(d, p)}
      /\ \A q \in Children(d, p) : p \notin Below(d, q)
  BY BelowNode
<1>2. Apart(d, p, X)
  BY <1>1 DEF Apart, Adds
<1>3. UNION {Below(d, f[j]) : j \in 1..N} = UNION {Below(d, q) : q \in Children(d, p)}
  <2>1. \A j \in 1..N : f[j] \in Children(d, p)
    BY DEF Lists
  <2>2. \A q \in Children(d, p) : \E j \in 1..N : f[j] = q
    BY DEF Lists
  <2> QED
    BY <2>1, <2>2
<1> QED
  BY <1>1, <1>2, <1>3 DEF Done, Adds, AllOf

-----------------------------------------------------------------------------

LEMMA ContainerSaid ==
  ASSUME NEW d, Value(d), NEW p \in DOMAIN d, d[p] \in {"obj", "arr"},
         NEW N \in Nat, NEW f, NEW texts, NEW parts, Enough(N, d, p, f, texts, parts),
         NEW w \in Seq(Texts), NEW L, Framed(parts, w, Bracket(d[p]), Ending(d, p), L),
         NEW u \in Seq(Texts), NEW n \in Nat, NEW K \in Nat,
         NEW opens, Maps(opens), NEW cuts, Maps(cuts),
         NEW W \in SUBSET DOMAIN d, Saying(d, p, w, u, n, K, opens, cuts, W)
  PROVE  Said(d, p, w, u, n, K, opens, cuts, W)
<1>1. PICK l, open, close : l = L[N] /\ open = Bracket(d[p]) /\ close = Ending(d, p)
  OBVIOUS
<1>2. PICK m, k : m = n + l /\ k = K + 1
  OBVIOUS
<1>3. /\ Lies(u, n, w) /\ Ready(u, n, K, opens, cuts, p) /\ Wrote(d, u, n, W)
      /\ Below(d, p) \intersect W = {}
  BY DEF Saying
<1>4. close # "name_separator" /\ Framed(parts, w, open, close, L)
  BY <1>1 DEF Ending
<1>5. /\ u[n + 1] = open /\ Ends(u, n + 1)
      /\ n + Len(w) = n + L[N] + 1 /\ u[n + L[N] + 1] = close /\ L[N] \in Nat
      /\ N = 0 => L[N] = 1
  <2>1. Bracketed(u, n, N, w, L, open, close)
    BY <1>3, <1>4, OpensEnd
  <2> QED
    BY <2>1 DEF Bracketed
<1>6. l \in Nat /\ m \in Nat /\ n + Len(w) = m + 1 /\ u[m + 1] = close /\ (N = 0 => m = n + 1)
  BY <1>1, <1>2, <1>5
<1>7. k \in Nat \ {0} /\ k - 1 = K /\ n + 1 \in Nat
  BY <1>2
<1>8. PICK newOpens, newCuts : With(opens, k, n + 1, newOpens) /\ With(cuts, k, n + 1, newCuts)
  <2>1. opens \in [Nat -> Nat] /\ cuts \in [Nat -> Nat] /\ k \in Nat
    BY <1>7 DEF Maps
  <2> QED
    BY <1>7, <2>1, WithOne
<1>9. /\ Maps(newOpens) /\ Maps(newCuts) /\ newOpens[k] = n + 1
      /\ Same(newOpens, opens, K) /\ Same(newCuts, cuts, K)
  <2>1. \A i \in 1..K : i \in Nat \ {k}
    BY <1>7
  <2> QED
    BY <1>8, <2>1 DEF With, Maps, Same
<1>10. PICK X : X = W \union {p}
  OBVIOUS
<1>11. Lists(f, N, Children(d, p))
  BY DEF Enough
<1>12. Apart(d, p, X) /\ X \in SUBSET DOMAIN d /\ Done(d, f, X, N) = W \union Below(d, p)
  <2>1. Adds(d, p, W, X)
    BY <1>3, <1>10 DEF Adds
  <2> QED
    <3>1. AllOf(d, p, f, N, W, X) /\ Apart(d, p, X) /\ X \in SUBSET DOMAIN d
      BY <1>11, <2>1, AllDone
    <3> QED
      BY <3>1 DEF AllOf
<1>13. Before(d, p, u, n + 1, k, newOpens, newCuts, 1, X)
  <2>1. opens \in [Nat -> Nat] /\ cuts \in [Nat -> Nat]
    BY DEF Maps
  <2>2. With(opens, K + 1, n + 1, newOpens) /\ With(cuts, K + 1, n + 1, newCuts)
    BY <1>2, <1>8
  <2>3. Before(d, p, u, n + 1, K + 1, newOpens, newCuts, 1, W \union {p})
    BY <1>1, <1>3, <1>5, <2>1, <2>2, OpenSays
  <2> QED
    BY <1>2, <1>10, <2>3
<1>14. \A i \in 1..N : Reached(d, p, u, n + L[i], k, newOpens, newCuts, i, Done(d, f, X, i))
  BY <1>3, <1>4, <1>7, <1>9, <1>12, <1>13, PartsSay
<1>15. PICK Y : Y = Done(d, f, X, N)
  OBVIOUS
<1>16. \E last, i : /\ Maps(last) /\ Same(last, cuts, K)
                    /\ Printing(d, p, u, m, k, newOpens, last, i, Y)
                    /\ m = n + 1 \/ Behind(d, p, u, m, k, newOpens, last, i, Y)
  <2>1. CASE N = 0
    <3>1. Y = X
      BY <1>15, <2>1 DEF Done
    <3>2. Printing(d, p, u, m, k, newOpens, newCuts, 1, Y) /\ m = n + 1
      BY <1>6, <1>13, <2>1, <3>1 DEF Before
    <3> QED
      BY <1>9, <3>2
  <2>2. CASE N # 0
    <3>1. Reached(d, p, u, m, k, newOpens, newCuts, N, Y)
      <4>1. N \in 1..N
        BY <2>2
      <4> QED
        BY <1>1, <1>2, <1>14, <1>15, <4>1
    <3>2. PICK last : /\ last \in [Nat -> Nat] /\ Same(last, newCuts, K)
                      /\ Behind(d, p, u, m, k, newOpens, last, N, Y)
      BY <1>7, <3>1 DEF Reached
    <3>3. Maps(last) /\ Same(last, cuts, K)
      BY <1>9, <3>2 DEF Maps, Same
    <3>4. Printing(d, p, u, m, k, newOpens, last, N, Y)
      BY <3>2 DEF Behind
    <3> QED
      BY <3>2, <3>3, <3>4
  <2> QED
    BY <2>1, <2>2
<1>17. PICK last, i : /\ Maps(last) /\ Same(last, cuts, K)
                      /\ Printing(d, p, u, m, k, newOpens, last, i, Y)
                      /\ m = n + 1 \/ Behind(d, p, u, m, k, newOpens, last, i, Y)
  BY <1>16
<1>18. Brackets(u, m + 1, K, opens, cuts) /\ IsValue(u, n + 1, m + 1) /\ Wrote(d, u, m + 1, Y)
  <2>1. Ended(d, p, u, n, m, k, newOpens, last, i, Y) /\ k = K + 1
    BY <1>2, <1>9, <1>17 DEF Ended
  <2>2. Maps(newOpens) /\ Maps(last)
    BY <1>9, <1>17
  <2>3. u[m + 1] = Ending(d, p)
    BY <1>1, <1>6
  <2>4. Same(newOpens, opens, K) /\ Same(last, cuts, K)
    BY <1>9, <1>17
  <2> QED
    BY <1>6, <2>1, <2>2, <2>3, <2>4, CloseSays
<1> QED
  <2>1. PICK b : b = n + Len(w)
    OBVIOUS
  <2>2. /\ Brackets(u, b, K, opens, cuts) /\ IsValue(u, n + 1, b)
        /\ Wrote(d, u, b, W \union Below(d, p))
    BY <1>6, <1>12, <1>15, <1>18, <2>1
  <2> QED
    BY <2>1, <2>2 DEF Said

(* What is printed for a container says what it is, if that is so for      *)
(* what is in it.                                                          *)
LEMMA ContainerSays ==
  ASSUME NEW d, Value(d), EntriesFit(d), IsFiniteSet(DOMAIN d),
         NEW p \in DOMAIN d, d[p] \in {"obj", "arr"},
         NEW print, \A q \in Children(d, p) : Says(d, q, print[q])
  PROVE  Says(d, p, Dispatch(d, print, p))
<1>1. PICK N, f, parts : /\ N = Cardinality(Children(d, p)) /\ f = Entries(d, p)
                         /\ parts = [i \in DOMAIN f |-> Part(d, p, f[i], print[f[i]])]
  OBVIOUS
<1>2. PICK open, close, w : /\ open = Bracket(d[p]) /\ close = Ending(d, p)
                            /\ w = <<open>> \o Separated(parts) \o <<close>>
  OBVIOUS
<1>3. N \in Nat /\ Lists(f, N, Children(d, p)) /\ \A i \in 1..N : Entry(d, p, f[i], i)
  BY <1>1, EntriesOf
<1>4. DOMAIN f = 1..N /\ \A i \in 1..N : f[i] \in Children(d, p) /\ f[i] \in DOMAIN d
  BY <1>3 DEF Lists, Children, Below
<1>5. PICK texts : texts = [i \in 1..N |-> print[f[i]]]
  OBVIOUS
<1>6. ASSUME NEW i \in 1..N
      PROVE  /\ parts[i] = Part(d, p, f[i], texts[i]) /\ Says(d, f[i], texts[i])
             /\ parts[i] \in Seq(Texts)
  <2>1. PICK q, text : q = f[i] /\ text = print[q]
    OBVIOUS
  <2>2. texts[i] = text /\ parts[i] = Part(d, p, q, text)
    BY <1>1, <1>4, <1>5, <2>1
  <2>3. q \in DOMAIN d /\ Entry(d, p, q, i) /\ Says(d, q, text)
    BY <1>3, <1>4, <2>1
  <2>4. parts[i] \in Seq(Texts)
    BY <2>2, <2>3, PartText
  <2> QED
    BY <2>1, <2>2, <2>3, <2>4
<1>7. parts = [i \in 1..N |-> parts[i]] /\ parts \in [1..N -> Seq(Texts)]
  BY <1>1, <1>4, <1>6
<1>8. parts \in Seq(Seq(Texts)) /\ Len(parts) = N
  BY <1>3, <1>7
<1>9. Enough(N, d, p, f, texts, parts)
  BY <1>3, <1>6, <1>8 DEF Enough
<1>10. open \in Texts /\ close \in Texts /\ open \in Opening
  BY <1>2 DEF Bracket, Ending, Texts, Marks, Opening
<1>11. w \in Seq(Texts) /\ \E L : Framed(parts, w, open, close, L)
  BY <1>2, <1>8, <1>10, Framing
<1>12. PICK L : Framed(parts, w, open, close, L)
  BY <1>11
<1>13. Framed(parts, w, Bracket(d[p]), Ending(d, p), L)
  BY <1>2, <1>12
<1>14. w # <<>> /\ w[1] \in Opening \union Leaves
  <2>1. w[1] = open
    BY <1>12 DEF Framed
  <2>2. N \in 0..N /\ L \in [0..N -> Nat] /\ Len(w) = L[N] + 1
    BY <1>3, <1>8, <1>12 DEF Framed
  <2>3. Len(w) # 0
    BY <2>2
  <2> QED
    BY <1>10, <2>1, <2>3
<1>15. ASSUME NEW u \in Seq(Texts), NEW n \in Nat, NEW K \in Nat,
              NEW opens \in [Nat -> Nat], NEW cuts \in [Nat -> Nat], NEW W \in SUBSET DOMAIN d,
              Saying(d, p, w, u, n, K, opens, cuts, W)
       PROVE  Said(d, p, w, u, n, K, opens, cuts, W)
  <2>1. Maps(opens) /\ Maps(cuts)
    BY DEF Maps
  <2> QED
    BY <1>3, <1>9, <1>11, <1>13, <1>15, <2>1, ContainerSaid
<1>16. Says(d, p, w)
  BY <1>11, <1>14, <1>15 DEF Says
<1>17. w = Dispatch(d, print, p)
  <2>1. CASE d[p] = "arr"
    BY <1>1, <1>2, <2>1, KindsDiffer DEF Dispatch, Bracket, Ending
  <2>2. CASE d[p] = "obj"
    BY <1>1, <1>2, <2>2, KindsDiffer DEF Dispatch, Bracket, Ending
  <2> QED
    BY <2>1, <2>2
<1> QED
  BY <1>16, <1>17

-----------------------------------------------------------------------------

(* A finite value has a height.                                            *)
LEMMA Bounded ==
  ASSUME NEW S, S \subseteq Paths, IsFiniteSet(S)
  PROVE  \E M \in Nat : \A p \in S : Len(p) <= M
<1>1. PICK n \in Nat : ExistsBijection(1..n, S)
  BY FS_NatBijection
<1>2. PICK f : f \in [1..n -> S] /\ \A p \in S : \E i \in 1..n : f[i] = p
  BY <1>1 DEF ExistsBijection, Bijection, Surjection
<1>3. \A p \in S : Len(p) \in Nat
  BY DEF Paths
<1> DEFINE B == {i \in Nat : i <= n => \E M \in Nat : \A j \in 1..i : Len(f[j]) <= M}
<1>4. 0 \in B
  OBVIOUS
<1>5. ASSUME NEW i \in Nat, i \in B PROVE i + 1 \in B
  <2> SUFFICES ASSUME i + 1 <= n PROVE \E M \in Nat : \A j \in 1..(i + 1) : Len(f[j]) <= M
    OBVIOUS
  <2>1. PICK M \in Nat : \A j \in 1..i : Len(f[j]) <= M
    BY <1>5
  <2>2. PICK l : l = Len(f[i + 1])
    OBVIOUS
  <2>3. l \in Nat /\ \A j \in 1..(i + 1) : Len(f[j]) \in Nat /\ (j = i + 1 \/ j \in 1..i)
    <3>1. ASSUME NEW j \in 1..(i + 1) PROVE Len(f[j]) \in Nat /\ (j = i + 1 \/ j \in 1..i)
      <4>1. j \in 1..n
        OBVIOUS
      <4>2. f[j] \in S
        BY <1>2, <4>1
      <4> QED
        BY <1>3, <4>2
    <3>2. i + 1 \in 1..(i + 1)
      OBVIOUS
    <3> QED
      BY <2>2, <3>1, <3>2
  <2>4. \A j \in 1..(i + 1) : Len(f[j]) <= M + l
    <3> SUFFICES ASSUME NEW j \in 1..(i + 1) PROVE Len(f[j]) <= M + l
      OBVIOUS
    <3>1. PICK k : k = Len(f[j])
      OBVIOUS
    <3>2. k \in Nat /\ (k = l \/ k <= M)
      BY <2>1, <2>2, <2>3, <3>1
    <3>3. k <= M + l
      BY <2>3, <3>2
    <3> QED
      BY <3>1, <3>3
  <2>5. M + l \in Nat
    BY <2>3
  <2> QED
    BY <2>4, <2>5
<1> HIDE DEF B
<1>6. n \in B
  BY <1>4, <1>5, Induction
<1>7. PICK M \in Nat : \A j \in 1..n : Len(f[j]) <= M
  BY <1>6 DEF B
<1>8. ASSUME NEW p \in S PROVE Len(p) <= M
  <2>1. PICK i \in 1..n : f[i] = p
    BY <1>2
  <2> QED
    BY <1>7, <2>1
<1> QED
  BY <1>8

LEMMA SameDispatch ==
  ASSUME NEW d, Value(d), EntriesFit(d), IsFiniteSet(DOMAIN d), NEW p \in DOMAIN d,
         NEW g, NEW print, \A q \in Children(d, p) : g[q] = print[q]
  PROVE  Dispatch(d, g, p) = Dispatch(d, print, p)
<1>1. CASE d[p] \notin {"obj", "arr"}
  BY <1>1 DEF Dispatch
<1>2. CASE d[p] \in {"obj", "arr"}
  <2>1. PICK n, f : n = Cardinality(Children(d, p)) /\ f = Entries(d, p)
    OBVIOUS
  <2>2. Lists(f, n, Children(d, p))
    BY <1>2, <2>1, EntriesOf
  <2>3. \A i \in DOMAIN f : g[f[i]] = print[f[i]]
    BY <2>2 DEF Lists
  <2>4. [i \in DOMAIN f |-> Part(d, p, f[i], g[f[i]])]
          = [i \in DOMAIN f |-> Part(d, p, f[i], print[f[i]])]
    BY <2>3
  <2> QED
    BY <2>1, <2>4 DEF Dispatch
<1> QED
  BY <1>1, <1>2

LEMMA ChildIsLonger ==
  ASSUME NEW d, Value(d), NEW p \in DOMAIN d, NEW q \in Children(d, p)
  PROVE  q \in DOMAIN d /\ Len(p) \in Nat /\ Len(q) = Len(p) + 1
  BY DEF Children, Below, Value, Tree, Short, Paths

(* What the printer makes of each node of d.                               *)
Prints(d, print) == print = [p \in DOMAIN d |-> Dispatch(d, print, p)]

(* The printer is defined by recursion on values, which are finite.        *)
LEMMA PrintExists ==
  ASSUME NEW d, Value(d), EntriesFit(d), IsFiniteSet(DOMAIN d)
  PROVE  \E print : Prints(d, print)
<1>1. \A p \in DOMAIN d : p \in Paths /\ Len(p) \in Nat
  BY DEF Value, Tree, Short, Paths
<1>2. PICK M \in Nat : \A p \in DOMAIN d : Len(p) <= M
  BY <1>1, Bounded
<1> DEFINE H == {h \in Nat :
                   \E g : /\ g = [p \in DOMAIN d |-> g[p]]
                          /\ \A p \in DOMAIN d :
                                Len(p) + h > M => g[p] = Dispatch(d, g, p)}
<1>3. 0 \in H
  <2>1. PICK g : g = [p \in DOMAIN d |-> <<>>]
    OBVIOUS
  <2>2. g = [p \in DOMAIN d |-> g[p]]
    BY <2>1
  <2>3. \A p \in DOMAIN d : ~(Len(p) + 0 > M)
    BY <1>1, <1>2
  <2> QED
    BY <2>2, <2>3
<1>4. ASSUME NEW h \in Nat, h \in H PROVE h + 1 \in H
  <2>1. PICK g : \A p \in DOMAIN d : Len(p) + h > M => g[p] = Dispatch(d, g, p)
    BY <1>4
  <2>2. PICK k : k = [p \in DOMAIN d |-> Dispatch(d, g, p)]
    OBVIOUS
  <2>3. k = [p \in DOMAIN d |-> k[p]] /\ \A p \in DOMAIN d : k[p] = Dispatch(d, g, p)
    BY <2>2
  <2>4. ASSUME NEW p \in DOMAIN d, Len(p) + (h + 1) > M PROVE k[p] = Dispatch(d, k, p)
    <3>1. ASSUME NEW q \in Children(d, p) PROVE g[q] = k[q]
      <4>1. q \in DOMAIN d /\ Len(p) \in Nat /\ Len(q) = Len(p) + 1
        BY ChildIsLonger
      <4>2. Len(q) + h > M
        BY <2>4, <4>1
      <4> QED
        BY <2>1, <2>3, <4>1, <4>2
    <3>2. Dispatch(d, g, p) = Dispatch(d, k, p)
      BY <3>1, SameDispatch
    <3> QED
      BY <2>3, <3>2
  <2> QED
    BY <2>3, <2>4
<1> HIDE DEF H
<1>5. M + 1 \in H
  <2>1. \A h \in Nat : h \in H
    BY <1>3, <1>4, Induction
  <2> QED
    BY <2>1
<1>6. PICK g : /\ g = [p \in DOMAIN d |-> g[p]]
               /\ \A p \in DOMAIN d : Len(p) + (M + 1) > M => g[p] = Dispatch(d, g, p)
  BY <1>5 DEF H
<1>7. \A p \in DOMAIN d : g[p] = Dispatch(d, g, p)
  <2>1. \A p \in DOMAIN d : Len(p) + (M + 1) > M
    BY <1>1
  <2> QED
    BY <1>6, <2>1
<1>8. Prints(d, g)
  BY <1>6, <1>7 DEF Prints
<1> QED
  BY <1>8

(* By induction on the height of what is printed.                          *)
LEMMA AllSay ==
  ASSUME NEW d, Value(d), EntriesFit(d), IsFiniteSet(DOMAIN d), NEW print, Prints(d, print),
         NEW p \in DOMAIN d
  PROVE  Says(d, p, print[p])
<1>1. \A q \in DOMAIN d : q \in Paths /\ Len(q) \in Nat
  BY DEF Value, Tree, Short, Paths
<1>2. PICK M \in Nat : \A q \in DOMAIN d : Len(q) <= M
  BY <1>1, Bounded
<1>3. \A q \in DOMAIN d : print[q] = Dispatch(d, print, q)
  BY DEF Prints
<1> DEFINE H == {h \in Nat : \A q \in DOMAIN d : Len(q) + h > M => Says(d, q, print[q])}
<1>4. 0 \in H
  <2>1. \A q \in DOMAIN d : ~(Len(q) + 0 > M)
    BY <1>1, <1>2
  <2> QED
    BY <2>1
<1>5. ASSUME NEW h \in Nat, h \in H PROVE h + 1 \in H
  <2> SUFFICES ASSUME NEW q \in DOMAIN d, Len(q) + (h + 1) > M PROVE Says(d, q, print[q])
    OBVIOUS
  <2>1. CASE d[q] \in {"obj", "arr"}
    <3>1. ASSUME NEW r \in Children(d, q) PROVE Says(d, r, print[r])
      <4>1. r \in DOMAIN d /\ Len(q) \in Nat /\ Len(r) = Len(q) + 1
        BY ChildIsLonger
      <4>2. Len(r) + h > M
        BY <4>1
      <4> QED
        BY <1>5, <4>1, <4>2
    <3>2. Says(d, q, Dispatch(d, print, q))
      BY <2>1, <3>1, ContainerSays
    <3> QED
      BY <1>3, <3>2
  <2>2. CASE d[q] \notin {"obj", "arr"}
    <3>1. d[q] \in Leaves
      BY <2>2 DEF Value, Kinds
    <3>2. Dispatch(d, print, q) = <<Shown(d[q])>>
      BY <2>2 DEF Dispatch
    <3> QED
      BY <1>3, <3>1, <3>2, LeafSays
  <2> QED
    BY <2>1, <2>2
<1> HIDE DEF H
<1>6. \A h \in Nat : h \in H
  BY <1>4, <1>5, Induction
<1>7. M + 1 \in H /\ Len(p) + (M + 1) > M
  BY <1>1, <1>6
<1> QED
  BY <1>7 DEF H

-----------------------------------------------------------------------------

LEMMA NothingPrinted ==
  ASSUME NEW d, NEW u, NEW opens, NEW cuts
  PROVE  /\ Ready(u, 0, 0, opens, cuts, Root) /\ Wrote(d, u, 0, {})
<1>1. 1..0 = {}
  OBVIOUS
<1>2. Depth(u, 0) = 0
  BY <1>1, FS_EmptySet DEF Depth
<1>3. Brackets(u, 0, 0, opens, cuts)
  BY <1>1, <1>2 DEF Brackets
<1>4. Path(u, 0 + 1) = Root
  <2>1. 0 + 1 - 1 = 0 /\ 0 + 1 = 1 /\ 1 - 1 = 0
    OBVIOUS
  <2>2. Path(u, 1) = [k \in 1..0 |-> KeyIn(u, CHOOSE o \in Around(u, 1) : Depth(u, o) = k, 1)]
    BY <1>2, <2>1 DEF Path
  <2> QED
    BY <1>1, <2>1, <2>2 DEF Root
<1>5. Vals(u, 0) = {}
  BY DEF Vals
<1>6. Wrote(d, u, 0, {})
  BY <1>5 DEF Wrote, ValueAt
<1> QED
  BY <1>3, <1>4, <1>6 DEF Ready

LEMMA ValueIsPrinted ==
  ASSUME NEW d, Value(d), EntriesFit(d), IsFiniteSet(DOMAIN d)
  PROVE  IsJson(Printed(d)) /\ ValueOf(Printed(d)) = [p \in DOMAIN d |-> Shown(d[p])]
<1>1. PICK print : /\ Prints(d, print)
                   /\ print = CHOOSE g : g = [p \in DOMAIN d |-> Dispatch(d, g, p)]
  <2>1. \E g : g = [p \in DOMAIN d |-> Dispatch(d, g, p)]
    BY PrintExists DEF Prints
  <2> QED
    BY <2>1 DEF Prints
<1>2. Printed(d) = print[Root]
  BY <1>1 DEF Printed
<1>3. PICK u : u = print[Root]
  OBVIOUS
<1>4. Root \in DOMAIN d /\ DOMAIN d \subseteq Paths
  BY DEF Value, Tree, Short
<1>5. Says(d, Root, u)
  BY <1>1, <1>3, <1>4, AllSay
<1>6. PICK n : n = Len(u)
  OBVIOUS
<1>7. u \in Seq(Texts) /\ n \in Nat
  BY <1>5, <1>6 DEF Says
<1>8. PICK opens : opens = [k \in Nat |-> 0]
  OBVIOUS
<1>9. Saying(d, Root, u, u, 0, 0, opens, opens, {})
  <2>1. Lies(u, 0, u) /\ Ends(u, 0 + Len(u))
    <3>1. 0 + n = n /\ \A j \in 1..n : 0 + j = j
      BY <1>7
    <3> QED
      BY <1>6, <1>7, <3>1 DEF Lies, Ends
  <2> QED
    BY <2>1, NothingPrinted DEF Saying
<1>10. Said(d, Root, u, u, 0, 0, opens, opens, {})
  <2>1. opens \in [Nat -> Nat] /\ 0 \in Nat /\ {} \in SUBSET DOMAIN d
    BY <1>8
  <2> QED
    BY <1>5, <1>7, <1>9, <2>1 DEF Says
<1>11. Below(d, Root) = DOMAIN d
  <2>1. \A q \in Paths : IsPrefix(Root, q)
    BY DEF Paths, IsPrefix, Root
  <2> QED
    BY <1>4, <2>1 DEF Below
<1>12. Brackets(u, n, 0, opens, opens) /\ IsValue(u, 1, n) /\ Wrote(d, u, n, DOMAIN d)
  <2>1. 0 + n = n /\ 0 + 1 = 1 /\ {} \union DOMAIN d = DOMAIN d
    BY <1>7
  <2> QED
    BY <1>6, <1>10, <1>11, <2>1 DEF Said
<1>13. IsJson(u)
  <2>1. ASSUME NEW a \in 1..n, u[a] \in Opening PROVE \E b \in 1..n : IsContainer(u, a, b)
    BY <1>12, <2>1 DEF Brackets
  <2> QED
    BY <1>6, <1>12, <2>1 DEF IsJson
<1>14. ValueOf(u) = [p \in DOMAIN d |-> Shown(d[p])]
  <2>1. Vals(u, n) = {i \in 1..n : /\ u[i] \in Opening \union Leaves
                                   /\ i < n => u[i + 1] # "name_separator"}
    BY <1>6 DEF Vals
  <2>2. ValueAt(u, Vals(u, n)) = [p \in DOMAIN d |-> Shown(d[p])]
    BY <1>12 DEF Wrote
  <2> QED
    BY <1>6, <2>1, <2>2 DEF ValueOf
<1> QED
  BY <1>2, <1>3, <1>13, <1>14

(* Invariant of the payload, which the printer relies on.                  *)
EntriesOK == EntriesFit(doc)

LEMMA EntriesFitInit == PathInit => EntriesFit(doc)
<1> SUFFICES ASSUME PathInit PROVE EntriesFit(doc)
  OBVIOUS
<1>1. doc = [p \in {Root} |-> "null"]
  BY DEF PathInit, Init, NullValue
<1>2. \A p \in DOMAIN doc : doc[p] \notin {"obj", "arr"}
  BY <1>1
<1> QED
  BY <1>2 DEF EntriesFit

(* What is printed is JSON, and reads as the value that was printed, but   *)
(* for the digits of numbers (json/Printer.hpp).                           *)
THEOREM ValuesArePrinted == PathSpec => []PrintsJson
<1>1. PathInit => EntriesOK
  BY EntriesFitInit DEF EntriesOK
<1>2. PathInv /\ EntriesOK /\ [PathNext]_pathVars => EntriesOK'
  BY EntriesFitNext DEF EntriesOK
<1>3. PathInv /\ EntriesOK => PrintsJson
  BY PathValue, ValueIsPrinted DEF PrintsJson, EntriesOK
<1> QED
  BY PathInvInit, PathInvNext, <1>1, <1>2, <1>3, PTL DEF PathSpec

=============================================================================
