-------------------------- MODULE ConnectionProofs --------------------------
(***************************************************************************)
(* Proofs about Connection, for any kinds of requests, any number of them  *)
(* and any limit of the head: ConnInv is inductive, so handlers see their  *)
(* own request, replies come whole and in order, and a connection that is  *)
(* half closed is closed when the replies are out.                         *)
(***************************************************************************)
EXTENDS Connection, SequenceTheorems, TLAPS

(* What the types say about requests and the stream.                       *)
LEMMA SizeTypes ==
  ASSUME ConnTypeOK, NEW i \in 1..Len(sent)
  PROVE  /\ sent[i] \in Kind
         /\ sent[i].head \in Nat \ {0} /\ sent[i].body \in Nat
         /\ Size(i) \in Nat \ {0} /\ sent[i].head <= Size(i)
<1>1. sent[i] \in Kind
  BY ConnectionConstants DEF ConnTypeOK
<1> QED
  BY <1>1 DEF Kind, Size

(* What the library says about s \o t, for pieces.                          *)
LEMMA PieceConcat ==
  ASSUME NEW s \in Seq(Piece), NEW t \in Seq(Piece)
  PROVE  /\ s \o t \in Seq(Piece) /\ Len(s \o t) = Len(s) + Len(t)
         /\ \A p \in 1..(Len(s) + Len(t)) :
              (s \o t)[p] = IF p <= Len(s) THEN s[p] ELSE t[p - Len(s)]
BY ConcatProperties

LEMMA StreamType ==
  ASSUME ConnTypeOK
  PROVE  /\ Stream \in Seq(Piece)
         /\ Len(Stream) = Len(recv) + Len(wire)
         /\ \A p \in 1..Len(Stream) :
              Stream[p] = IF p <= Len(recv) THEN recv[p] ELSE wire[p - Len(recv)]
<1>1. recv \in Seq(Piece) /\ wire \in Seq(Piece)
  BY DEF ConnTypeOK
<1> QED
  BY <1>1, ConcatProperties DEF Stream

(* A stream from which pieces are taken, at its start or at its end, has   *)
(* no gap.                                                                 *)
LEMMA StreamShrinks ==
  ASSUME ConnTypeOK, Consecutive(Stream), sent' = sent,
         NEW a \in Nat, Stream' \in Seq(Piece), Len(Stream') <= Len(Stream) - a,
         \A p \in 1..Len(Stream') : Stream'[p] = Stream[p + a]
  PROVE  Consecutive(Stream)'
<1>1. Len(Stream) \in Nat /\ Len(Stream') \in Nat
  BY StreamType
<1>2. \A i : Size(i)' = Size(i)
  BY DEF Size
<1>3. ASSUME NEW p \in 1..Len(Stream')
      PROVE  Continues(Stream', p, Stream'[p][1], Stream'[p][2])
  <2> DEFINE i == Stream'[p][1]
             k == Stream'[p][2]
  <2>1. p + a \in 1..Len(Stream) /\ Stream'[p] = Stream[p + a]
    BY <1>1
  <2>2. Continues(Stream, p + a, i, k)
    BY <2>1 DEF Consecutive
  <2> HIDE DEF i, k
  <2>3. i \in 1..Len(sent) /\ k \in 1..Size(i) /\ Size(i) \in Nat
    BY <2>2, SizeTypes DEF Continues
  <2>4. ASSUME NEW q \in p..Len(Stream'), q - p <= Size(i) - k
        PROVE  Stream'[q] = <<i, k + q - p>>
    <3>1. q + a \in (p + a)..Len(Stream) /\ q \in 1..Len(Stream')
      BY <1>1
    <3>2. (q + a) - (p + a) = q - p /\ k + (q + a) - (p + a) = k + q - p
      BY <2>3
    <3>3. Stream[q + a] = <<i, k + (q + a) - (p + a)>>
      BY <2>2, <2>4, <3>1, <3>2 DEF Continues
    <3> QED
      BY <3>1, <3>2, <3>3
  <2>5. ASSUME p + Size(i) - k + 1 <= Len(Stream')
        PROVE  Stream'[p + Size(i) - k + 1] = <<i + 1, 1>>
    <3> DEFINE n == p + Size(i) - k + 1
    <3>1. n \in 1..Len(Stream')
      BY <1>1, <2>3, <2>5
    <3>2. n + a = (p + a) + Size(i) - k + 1 /\ n + a <= Len(Stream)
      BY <1>1, <2>3, <2>5
    <3>3. Stream[n + a] = <<i + 1, 1>>
      BY <2>2, <3>2 DEF Continues
    <3> HIDE DEF n
    <3>4. Stream'[n] = <<i + 1, 1>>
      BY <3>1, <3>3
    <3> QED
      BY <3>4 DEF n
  <2> QED
    BY <2>3, <2>4, <2>5 DEF Continues, i, k
<1> QED
  BY <1>2, <1>3 DEF Consecutive, Continues

LEMMA InitInv == Init => ConnInv
<1> SUFFICES ASSUME Init PROVE ConnInv
  OBVIOUS
<1> USE DEF Init
<1>1. /\ \A S : << >> \in Seq(S)
      /\ Len(<< >>) = 0
  BY EmptySeq
<1>2. ConnTypeOK
  <2>1. MaxRequests \in Nat
    BY ConnectionConstants
  <2>2. sent \in Seq(Kinds) /\ Len(sent) <= MaxRequests
    BY <1>1, <2>1
  <2>3. {wire, recv} \subseteq Seq(Piece) /\ {got, send} \subseteq Seq(ReplyPiece)
    BY <1>1
  <2>4. handled \in Seq(Called) /\ Len(handled) <= Len(sent) /\ written \in Seq(1..Len(sent))
    BY <1>1
  <2>5. {piped, open, writable, undefined} \subseteq BOOLEAN
    OBVIOUS
  <2>6. rcvd \in 0..Len(recv)
    BY <1>1
  <2>7. late \subseteq ReplyPiece /\ flags \subseteq {"CLOSE_IMMEDIATELY", "SEND_AND_CLOSE"}
    OBVIOUS
  <2>8. side \in Sides /\ phase \in {"poll", "write", "close"}
    BY DEF Sides
  <2> QED
    BY <2>2, <2>3, <2>4, <2>5, <2>6, <2>7, <2>8 DEF ConnTypeOK
<1>3. Stream = << >>
  BY DEF Stream
<1>4. StreamInv
  BY <1>3 DEF StreamInv, Consecutive, Unbroken
<1>5. HandlersSeeTheirRequest
  BY DEF HandlersSeeTheirRequest
<1>6. ToSet(got) = {} /\ ToSet(send) = {} /\ ToSet(written) = {}
  BY DEF ToSet
<1>7. LateInv /\ NoReplyLost
  BY <1>6 DEF LateInv, OnlyHandled, NoReplyLost
<1>8. Pending = << >> /\ Answers(written) = << >>
  BY DEF Pending, Answers
<1>9. WaitingInv
  BY <1>8 DEF WaitingInv
<1> QED
  BY <1>2, <1>4, <1>5, <1>7, <1>9 DEF ConnInv

(* A step that calls no handler and moves no piece of a reply.             *)
LEMMA RepliesKept ==
  ASSUME ConnInv, open' => open,
         UNCHANGED <<sent, piped, got, send, handled, late, written, undefined>>
  PROVE  HandlersSeeTheirRequest' /\ LateInv' /\ NoReplyLost' /\ WaitingInv'
<1> USE DEF ConnInv
<1>1. HandlersSeeTheirRequest'
  <2>1. ASSUME NEW k PROVE Body(k)' = Body(k)
    BY DEF Body
  <2> QED
    BY <2>1 DEF HandlersSeeTheirRequest
<1>2. LateInv' /\ NoReplyLost'
  BY DEF LateInv, NoReplyLost, OnlyHandled
<1>3. WaitingInv'
  BY DEF WaitingInv, Pending, Answers
<1> QED
  BY <1>1, <1>2, <1>3

(* The steps that only go on in the poll, or mark the connection.          *)
LEMMA IdleKeepsInv ==
  ASSUME ConnInv,
         UNCHANGED <<client, wire, got, recv, rcvd, send, open, handled, late,
                     written, undefined>>,
         phase' \in {"poll", "write", "close"}, writable' \in BOOLEAN,
         flags' \subseteq {"CLOSE_IMMEDIATELY", "SEND_AND_CLOSE"}
  PROVE  ConnInv'
<1> USE DEF ConnInv, client
<1>1. ConnTypeOK'
  BY DEF ConnTypeOK
<1>2. StreamInv'
  BY DEF StreamInv, Consecutive, Continues, Unbroken, Stream, Size
<1> QED
  BY <1>1, <1>2, RepliesKept

(* What is on the way is lost, in whole or in part, when the client shuts  *)
(* down its side.                                                          *)
LEMMA CutKeepsInv ==
  ASSUME ConnInv, open, side' \in {"finished", "reset"},
         NEW n \in 0..Len(wire), wire' = SubSeq(wire, 1, n),
         UNCHANGED <<sent, piped, server, got, phase, writable, send, late,
                     written, undefined>>
  PROVE  ConnInv'
<1> USE DEF ConnInv, server
<1>1. wire \in Seq(Piece) /\ recv \in Seq(Piece)
  BY DEF ConnTypeOK
<1>2. wire' \in Seq(Piece) /\ Len(wire') = n /\ \A p \in 1..n : wire'[p] = wire[p]
  BY <1>1
<1>3. ConnTypeOK'
  BY <1>2 DEF ConnTypeOK, Sides
<1>4. StreamInv'
  <2>1. Stream' = recv \o wire'
    BY DEF Stream
  <2>2. /\ Stream' \in Seq(Piece) /\ Len(Stream') = Len(recv) + n
        /\ \A p \in 1..Len(Stream') : Stream'[p] = Stream[p]
    <3>1. /\ Stream' \in Seq(Piece) /\ Len(Stream') = Len(recv) + n
          /\ \A p \in 1..Len(Stream') :
               Stream'[p] = IF p <= Len(recv) THEN recv[p] ELSE wire'[p - Len(recv)]
      BY <1>1, <1>2, <2>1, ConcatProperties
    <3>2. Len(recv) \in Nat /\ Len(wire) \in Nat
      BY <1>1
    <3>3. ASSUME NEW p \in 1..Len(Stream') PROVE Stream'[p] = Stream[p]
      <4>1. p \in 1..Len(Stream)
        BY <3>1, <3>2, StreamType
      <4>2. p > Len(recv) => wire'[p - Len(recv)] = wire[p - Len(recv)]
        BY <1>2, <3>1, <3>2
      <4> QED
        BY <3>1, <4>1, <4>2, StreamType
    <3> QED
      BY <3>1, <3>3
  <2>3. Len(Stream') <= Len(Stream) - 0
    BY <1>1, <2>2, StreamType
  <2>4. Consecutive(Stream)'
    <3>1. \A p \in 1..Len(Stream') : Stream'[p] = Stream[p + 0]
      BY <2>2
    <3>2. Consecutive(Stream)
      BY DEF StreamInv
    <3> QED
      BY <2>2, <2>3, <3>1, <3>2, StreamShrinks
  <2>5. Stream' # << >> => Stream # << >> /\ Stream'[1] = Stream[1]
    BY <1>1, <2>2, <2>3, StreamType
  <2> QED
    BY <2>4, <2>5 DEF StreamInv
<1> QED
  BY <1>3, <1>4, RepliesKept

(* A request that is sent comes after all that is in the stream.           *)
LEMMA SendKeepsInv ==
  ASSUME ConnInv, NEW kind \in Kinds, SendRequest(kind)
  PROVE  ConnInv'
<1>0. PICK m : m = Len(sent) + 1
  OBVIOUS
<1> DEFINE size == kind.head + kind.body
           new == [j \in 1..size |-> <<m, j>>]
           len == Len(Stream)
<1>1. ConnTypeOK /\ UNCHANGED <<server, got, send, late, written, undefined>>
  BY DEF ConnInv, SendRequest
<1>2. /\ recv \in Seq(Piece) /\ wire \in Seq(Piece) /\ sent \in Seq(Kinds)
      /\ Len(sent) \in Nat /\ Len(handled) \in Nat /\ Len(handled) <= Len(sent)
  BY <1>1 DEF ConnTypeOK
<1>3. size \in Nat \ {0} /\ kind \in Kind
  BY ConnectionConstants DEF Kind
<1>4. /\ sent' = Append(sent, kind) /\ sent' \in Seq(Kinds) /\ Len(sent') = m
      /\ m \in 1..MaxRequests /\ MaxRequests \in Nat
      /\ sent'[m] = kind /\ \A i \in 1..Len(sent) : sent'[i] = sent[i]
  BY <1>0, <1>2, ConnectionConstants DEF SendRequest
<1>5. Size(m)' = size /\ \A i \in 1..Len(sent) : Size(i)' = Size(i)
  <2>1. ASSUME NEW i PROVE Size(i)' = sent'[i].head + sent'[i].body
    BY DEF Size
  <2>2. Size(m)' = size
    BY <1>4, <2>1
  <2> QED
    BY <1>4, <2>1, <2>2 DEF Size
<1>6. /\ new \in Seq(Piece) /\ Len(new) = size /\ \A j \in 1..size : new[j] = <<m, j>>
  <2> HIDE DEF size
  <2>1. \A j \in 1..size : <<m, j>> \in Piece
    BY <1>3, <1>4 DEF Piece
  <2> QED
    BY <1>3, <2>1
<1>7. wire' = wire \o new
  BY <1>0 DEF SendRequest
<1> HIDE DEF new, size
<1>8. /\ wire' \in Seq(Piece) /\ Len(wire') = Len(wire) + size
      /\ \A p \in 1..Len(wire') :
           wire'[p] = IF p <= Len(wire) THEN wire[p] ELSE new[p - Len(wire)]
  <2>1. /\ wire \o new \in Seq(Piece) /\ Len(wire \o new) = Len(wire) + Len(new)
        /\ \A p \in 1..(Len(wire) + Len(new)) :
             (wire \o new)[p] = IF p <= Len(wire) THEN wire[p] ELSE new[p - Len(wire)]
    BY <1>2, <1>6, ConcatProperties
  <2> QED
    BY <1>6, <1>7, <2>1
<1>9. Stream' = recv \o wire'
  BY <1>1 DEF Stream, server
<1>10. /\ Stream' \in Seq(Piece) /\ Len(Stream') = Len(recv) + Len(wire')
       /\ \A p \in 1..Len(Stream') :
            Stream'[p] = IF p <= Len(recv) THEN recv[p] ELSE wire'[p - Len(recv)]
  BY <1>2, <1>8, <1>9, ConcatProperties
<1>11. /\ len \in Nat /\ len = Len(recv) + Len(wire)
       /\ Len(recv) \in Nat /\ Len(wire) \in Nat
  BY <1>1, <1>2, StreamType
<1>12. Len(Stream') = len + size
  BY <1>3, <1>8, <1>10, <1>11
<1>13. ASSUME NEW p \in 1..len PROVE Stream'[p] = Stream[p]
  <2>1. p \in 1..Len(Stream')
    BY <1>3, <1>11, <1>12
  <2>2. p > Len(recv) => wire'[p - Len(recv)] = wire[p - Len(recv)]
    BY <1>3, <1>8, <1>11
  <2>3. Stream'[p] = IF p <= Len(recv) THEN recv[p] ELSE wire[p - Len(recv)]
    BY <1>10, <1>11, <2>1, <2>2
  <2> QED
    BY <1>1, <2>3, StreamType
<1>14. ASSUME NEW p \in (len + 1)..(len + size) PROVE Stream'[p] = <<m, p - len>>
  <2>1. p \in 1..Len(Stream') /\ ~(p <= Len(recv)) /\ p - Len(recv) \in 1..Len(wire')
    BY <1>3, <1>8, <1>11, <1>12
  <2>2. ~(p - Len(recv) <= Len(wire)) /\ (p - Len(recv)) - Len(wire) = p - len
    BY <1>3, <1>11
  <2>3. p - len \in 1..size
    BY <1>3, <1>11
  <2> QED
    BY <1>6, <1>8, <1>10, <2>1, <2>2, <2>3
<1>15. open /\ side = "open" /\ Consecutive(Stream) /\ Unbroken(Stream)
  BY DEF SendRequest, ConnInv, StreamInv
<1> HIDE DEF len
<1>16. StreamInv'
  <2>1. ASSUME NEW p \in 1..len
        PROVE  /\ (Continues(Stream, p, Stream[p][1], Stream[p][2]))'
               /\ (p + Size(Stream[p][1]) - Stream[p][2])' \in Int
               /\ (p + Size(Stream[p][1]) - Stream[p][2])' <= len
               /\ Stream'[p][1] # m
    <3>0. PICK i, k : i = Stream[p][1] /\ k = Stream[p][2]
      OBVIOUS
    <3> DEFINE last == p + Size(i) - k
    <3>1. Continues(Stream, p, i, k)
      BY <1>15, <3>0 DEF Consecutive, len
    <3>2. last <= len /\ (last = len <=> i = Len(sent))
      BY <1>15, <3>0 DEF Unbroken, len
    <3>3. Stream'[p][1] = i /\ Stream'[p][2] = k
      BY <1>13, <3>0
    <3>4. /\ i \in 1..Len(sent) /\ k \in 1..Size(i) /\ Size(i) \in Nat
          /\ Size(i)' = Size(i) /\ last \in Nat
      <4>1. i \in 1..Len(sent) /\ k \in 1..Size(i)
        BY <3>1 DEF Continues
      <4>2. Size(i) \in Nat /\ Size(i)' = Size(i)
        BY <1>1, <1>5, <4>1, SizeTypes
      <4> QED
        BY <1>11, <4>1, <4>2
    <3>5. ASSUME NEW q \in p..Len(Stream'), q - p <= Size(i) - k
          PROVE  Stream'[q] = <<i, k + q - p>>
      <4>1. q \in p..len /\ q \in 1..len
        BY <1>11, <1>12, <1>3, <3>2, <3>4, <3>5
      <4> QED
        BY <1>13, <3>1, <3>5, <4>1 DEF Continues, len
    <3>6. ASSUME last + 1 <= Len(Stream')
          PROVE  Stream'[last + 1] = <<i + 1, 1>>
      <4>1. CASE last < len
        <5>1. last + 1 \in 1..len
          BY <1>11, <3>4, <4>1
        <5>2. Stream[last + 1] = <<i + 1, 1>>
          BY <3>1, <5>1 DEF Continues, len
        <5> QED
          BY <1>13, <5>1, <5>2
      <4>2. CASE last = len
        <5>1. last + 1 \in (len + 1)..(len + size) /\ (last + 1) - len = 1
          BY <1>3, <1>11, <4>2, SMTT(60)
        <5>2. i + 1 = m
          BY <1>0, <3>2, <4>2
        <5> QED
          BY <1>14, <5>1, <5>2
      <4> QED
        BY <1>11, <3>2, <3>4, <4>1, <4>2, SMTT(60)
    <3>7. i \in 1..Len(sent') /\ i # m
      BY <1>0, <1>2, <1>4, <3>4
    <3>8. (p + Size(Stream[p][1]) - Stream[p][2])' = last
      BY <3>3, <3>4
    <3>9. Continues(Stream, p, i, k)'
      BY <3>4, <3>5, <3>6, <3>7 DEF Continues
    <3>10. Continues(Stream, p, Stream[p][1], Stream[p][2])'
      BY <3>3, <3>9 DEF Continues
    <3> QED
      BY <3>2, <3>3, <3>4, <3>7, <3>8, <3>10
  <2>2. ASSUME NEW p \in (len + 1)..(len + size)
        PROVE  /\ (Continues(Stream, p, Stream[p][1], Stream[p][2]))'
               /\ (p + Size(Stream[p][1]) - Stream[p][2])' = len + size
               /\ Stream'[p][1] = m
    <3>1. Stream'[p] = <<m, p - len>> /\ Stream'[p][1] = m /\ Stream'[p][2] = p - len
      BY <1>14
    <3>2. m \in 1..Len(sent') /\ p - len \in 1..size /\ p + size - (p - len) = len + size
      BY <1>0, <1>2, <1>3, <1>4, <1>11
    <3>3. ASSUME NEW q \in p..Len(Stream'), q - p <= size - (p - len)
          PROVE  Stream'[q] = <<m, (p - len) + q - p>>
      <4>1. q \in (len + 1)..(len + size) /\ (p - len) + q - p = q - len
        BY <1>3, <1>11, <1>12
      <4> QED
        BY <1>14, <4>1
    <3>4. ~(p + size - (p - len) + 1 <= Len(Stream'))
      BY <1>3, <1>11, <1>12
    <3> QED
      BY <1>5, <3>1, <3>2, <3>3, <3>4 DEF Continues
  <2>3. \A p \in 1..Len(Stream') : p \in 1..len \/ p \in (len + 1)..(len + size)
    BY <1>3, <1>11, <1>12
  <2>4. Consecutive(Stream)'
    BY <2>1, <2>2, <2>3 DEF Consecutive
  <2>5. Stream'[1] = <<Len(handled') + 1, 1>>
    <3>1. CASE len = 0
      <4>1. Stream = << >> /\ Len(handled) = Len(sent)
        BY <1>1, <1>15, <3>1, StreamType, EmptySeq DEF Unbroken, len
      <4>2. Stream'[1] = <<m, 1>>
        BY <1>3, <1>14, <3>1
      <4> QED
        BY <1>0, <1>1, <4>1, <4>2 DEF server
    <3>2. CASE len # 0
      <4>1. 1 \in 1..len /\ Stream # << >>
        BY <1>11, <3>2, EmptySeq DEF len
      <4>2. Stream[1] = <<Len(handled) + 1, 1>>
        BY <1>15, <4>1 DEF ConnInv, StreamInv
      <4> QED
        BY <1>1, <1>13, <4>1, <4>2 DEF server
    <3> QED
      BY <3>1, <3>2
  <2>6. Unbroken(Stream)'
    <3>1. Stream' # << >>
      BY <1>3, <1>11, <1>12, EmptySeq
    <3>2. ASSUME NEW p \in 1..Len(Stream')
          PROVE  (LET last == p + Size(Stream[p][1]) - Stream[p][2]
                  IN  last <= Len(Stream) /\ (last = Len(Stream) <=> Stream[p][1] = Len(sent)))'
      <4>0. PICK last : last = (p + Size(Stream[p][1]) - Stream[p][2])'
        OBVIOUS
      <4>1. \/ last <= len /\ last \in Int /\ Stream'[p][1] # m
            \/ last = len + size /\ Stream'[p][1] = m
        BY <2>1, <2>2, <2>3, <4>0
      <4>2. last <= Len(Stream') /\ (last = Len(Stream') <=> Stream'[p][1] = Len(sent'))
        BY <1>3, <1>4, <1>11, <1>12, <4>1
      <4> QED
        BY <4>0, <4>2
    <3> QED
      BY <3>1, <3>2 DEF Unbroken
  <2> QED
    BY <2>4, <2>5, <2>6 DEF StreamInv
<1>17. ConnTypeOK'
  <2>1. written' \in Seq(1..Len(sent'))
    <3>1. written \in Seq(1..Len(sent)) /\ 1..Len(sent) \subseteq 1..Len(sent')
      BY <1>0, <1>1, <1>2, <1>4 DEF ConnTypeOK
    <3> QED
      BY <1>1, <3>1, SeqMonotonic
  <2>2. Len(handled) <= Len(sent')
    BY <1>0, <1>2, <1>4
  <2>3. piped' \in BOOLEAN /\ UNCHANGED <<side, phase, writable>>
    BY <1>1 DEF SendRequest, ConnTypeOK
  <2>4. sent' \in Seq(Kinds) /\ Len(sent') <= MaxRequests
    BY <1>2, <1>4
  <2> QED
    BY <1>1, <1>8, <2>1, <2>2, <2>3, <2>4 DEF ConnTypeOK, server
<1>18. HandlersSeeTheirRequest'
  <2>1. piped => piped'
    BY <1>1 DEF SendRequest, ConnTypeOK
  <2>2. ASSUME NEW i \in 1..Len(handled) PROVE Body(i)' = Body(i)
    <3>1. sent'[i] = sent[i]
      BY <1>2, <1>4
    <3> QED
      BY <3>1 DEF Body
  <2> QED
    BY <1>1, <2>1, <2>2 DEF HandlersSeeTheirRequest, ConnInv, server
<1>19. LateInv'
  <2>1. LateInv
    BY DEF ConnInv
  <2>2. \A i \in 1..Len(sent') : i \in 1..Len(sent) \/ i = m
    BY <1>0, <1>2, <1>4
  <2>3. <<m, "head">> \notin late
    BY <1>0, <1>2, <2>1 DEF LateInv, OnlyHandled
  <2> QED
    BY <1>1, <2>1, <2>2, <2>3 DEF LateInv, OnlyHandled, server
<1>20. NoReplyLost'
  BY <1>1 DEF NoReplyLost, ConnInv, server
<1>21. WaitingInv'
  <2> SUFFICES ASSUME ~piped' PROVE WaitingInv'
    BY DEF WaitingInv
  <2>1. ~piped /\ \A i \in 1..Len(sent) : <<i, "body">> \in ToSet(got)
    BY <1>1 DEF SendRequest, ConnTypeOK, Answered
  <2>2. ASSUME NEW i \in 1..Len(sent) PROVE i \in 1..Len(handled)
    BY <2>1 DEF ConnInv, LateInv, OnlyHandled
  <2>3. Len(handled) = Len(sent)
    BY <1>2, <2>2
  <2>4. late = {}
    BY <2>1, <2>3 DEF ConnInv, LateInv, OnlyHandled
  <2>5. Pending = << >> /\ Pending' = << >>
    BY <1>1, <2>4 DEF Pending
  <2>6. Answers(written)' = Answers(written) /\ (got \o send)' = got \o send
    BY <1>1 DEF Answers
  <2> QED
    BY <1>0, <1>1, <1>2, <1>4, <2>1, <2>3, <2>4, <2>5, <2>6
    DEF WaitingInv, ConnInv, server
<1> QED
  BY <1>16, <1>17, <1>18, <1>19, <1>20, <1>21 DEF ConnInv

-----------------------------------------------------------------------------
(* A part of a sequence.                                                   *)
LEMMA Part ==
  ASSUME NEW S, NEW s \in Seq(S), NEW m \in Nat \ {0}, NEW n \in 0..Len(s)
  PROVE  /\ SubSeq(s, m, n) \in Seq(S)
         /\ Len(SubSeq(s, m, n)) = IF m <= n THEN n - m + 1 ELSE 0
         /\ \A j \in 1..(n - m + 1) : SubSeq(s, m, n)[j] = s[m + j - 1]
<1>1. n \in Int /\ m \in Int
  OBVIOUS
<1>2. \A j \in m..n : s[j] \in S
  OBVIOUS
<1> QED
  BY <1>1, <1>2, SubSeqProperties

(* What is in a sequence that grows.                                       *)
LEMMA ToSetConcat ==
  ASSUME NEW S, NEW s \in Seq(S), NEW t \in Seq(S)
  PROVE  ToSet(s \o t) = ToSet(s) \cup ToSet(t)
<1>1. /\ s \o t \in Seq(S) /\ Len(s \o t) = Len(s) + Len(t)
      /\ \A i \in 1..(Len(s) + Len(t)) :
           (s \o t)[i] = IF i <= Len(s) THEN s[i] ELSE t[i - Len(s)]
  BY ConcatProperties
<1>2. /\ DOMAIN s = 1..Len(s) /\ DOMAIN t = 1..Len(t)
      /\ DOMAIN (s \o t) = 1..(Len(s) + Len(t))
      /\ Len(s) \in Nat /\ Len(t) \in Nat
  BY <1>1, LenProperties
<1>3. ASSUME NEW i \in 1..(Len(s) + Len(t))
      PROVE  (s \o t)[i] \in ToSet(s) \cup ToSet(t)
  <2>1. CASE i <= Len(s)
    BY <1>1, <1>2, <2>1 DEF ToSet
  <2>2. CASE ~(i <= Len(s))
    <3>1. i - Len(s) \in 1..Len(t) /\ (s \o t)[i] = t[i - Len(s)]
      BY <1>1, <1>2, <2>2
    <3> QED
      BY <1>2, <3>1 DEF ToSet
  <2> QED
    BY <2>1, <2>2
<1>4. ASSUME NEW i \in 1..Len(s) PROVE s[i] \in ToSet(s \o t)
  <2>1. i \in 1..(Len(s) + Len(t)) /\ (s \o t)[i] = s[i]
    BY <1>1, <1>2
  <2> QED
    BY <1>2, <2>1 DEF ToSet
<1>5. ASSUME NEW i \in 1..Len(t) PROVE t[i] \in ToSet(s \o t)
  <2>1. /\ Len(s) + i \in 1..(Len(s) + Len(t)) /\ ~(Len(s) + i <= Len(s))
        /\ (Len(s) + i) - Len(s) = i
    BY <1>2
  <2>2. (s \o t)[Len(s) + i] = t[i]
    BY <1>1, <2>1
  <2> QED
    BY <1>2, <2>1, <2>2 DEF ToSet
<1>6. ToSet(s \o t) \subseteq ToSet(s) \cup ToSet(t)
  BY <1>2, <1>3 DEF ToSet
<1>7. ToSet(s) \subseteq ToSet(s \o t) /\ ToSet(t) \subseteq ToSet(s \o t)
  BY <1>2, <1>4, <1>5 DEF ToSet
<1> QED
  BY <1>6, <1>7

LEMMA Pair ==
  ASSUME NEW S, NEW x \in S, NEW y \in S
  PROVE  /\ << x >> \in Seq(S) /\ << y >> \in Seq(S) /\ << x, y >> \in Seq(S)
         /\ << x, y >> = << x >> \o << y >> /\ ToSet(<< x, y >>) = {x, y}
<1>1. << x >> \in Seq(S) /\ << y >> \in Seq(S) /\ << x, y >> \in Seq(S)
  OBVIOUS
<1>2. << x, y >> = << x >> \o << y >>
  <2>1. Append(<< x >>, y) = << x >> \o << y >>
    BY <1>1, AppendIsConcat
  <2>2. Append(<< x >>, y) \in Seq(S) /\ Len(Append(<< x >>, y)) = 2 /\ Len(<< x, y >>) = 2
    BY <1>1
  <2>3. Append(<< x >>, y)[1] = x /\ Append(<< x >>, y)[2] = y
    BY <1>1
  <2>4. \A i \in 1..2 : Append(<< x >>, y)[i] = << x, y >>[i]
    BY <2>3
  <2>5. Append(<< x >>, y) = << x, y >>
    BY <1>1, <2>2, <2>4, SeqEqual
  <2> QED
    BY <2>1, <2>5
<1>3. ToSet(<< x, y >>) = {x, y}
  BY DEF ToSet
<1> QED
  BY <1>1, <1>2, <1>3

LEMMA ToSetAppend ==
  ASSUME NEW S, NEW s \in Seq(S), NEW x \in S
  PROVE  ToSet(s \o << x >>) = ToSet(s) \cup {x}
<1>1. << x >> \in Seq(S)
  OBVIOUS
<1>2. ToSet(<< x >>) = {x}
  BY DEF ToSet
<1>3. ToSet(s \o << x >>) = ToSet(s) \cup ToSet(<< x >>)
  BY <1>1, ToSetConcat
<1> QED
  BY <1>1, <1>2, <1>3

(* One more request adds the two pieces of its reply.                      *)
LEMMA AnswersAppend ==
  ASSUME NEW w \in Seq(Nat), NEW i \in Nat
  PROVE  Answers(Append(w, i)) = (Answers(w) \o << <<i, "head">> >>) \o << <<i, "body">> >>
<1> DEFINE n == Len(w)
           S == Nat \X {"head", "body"}
           a == Answers(w)
           b == Answers(Append(w, i))
<1>1. /\ n \in Nat /\ Len(Append(w, i)) = n + 1 /\ Append(w, i)[n + 1] = i
      /\ \A j \in 1..n : Append(w, i)[j] = w[j] /\ w[j] \in Nat
  OBVIOUS
<1>2. \A k \in 1..(2 * n) : (k + 1) \div 2 \in 1..n
  BY <1>1
<1>3. ((2 * n + 1) + 1) \div 2 = n + 1 /\ ((2 * n + 2) + 1) \div 2 = n + 1
  BY <1>1
<1>4. (2 * n + 1) % 2 = 1 /\ (2 * n + 2) % 2 # 1
  BY <1>1
<1>5. /\ a = [k \in 1..(2 * n) |-> <<w[(k + 1) \div 2], IF k % 2 = 1 THEN "head" ELSE "body">>]
      /\ b = [k \in 1..(2 * (n + 1)) |->
               <<Append(w, i)[(k + 1) \div 2], IF k % 2 = 1 THEN "head" ELSE "body">>]
  BY <1>1 DEF Answers
<1>6. \A k \in 1..(2 * n) : b[k] = a[k] /\ a[k] \in S
  <2> SUFFICES ASSUME NEW k \in 1..(2 * n) PROVE b[k] = a[k] /\ a[k] \in S
    OBVIOUS
  <2>1. k \in 1..(2 * (n + 1))
    BY <1>1
  <2>2. Append(w, i)[(k + 1) \div 2] = w[(k + 1) \div 2] /\ w[(k + 1) \div 2] \in Nat
    BY <1>1, <1>2
  <2> QED
    BY <1>5, <2>1, <2>2
<1>7. b[2 * n + 1] = <<i, "head">> /\ b[2 * n + 2] = <<i, "body">>
  <2>1. 2 * n + 1 \in 1..(2 * (n + 1)) /\ 2 * n + 2 \in 1..(2 * (n + 1))
    BY <1>1
  <2>2. b[2 * n + 1] = <<Append(w, i)[n + 1], "head">>
    BY <1>3, <1>4, <1>5, <2>1
  <2>3. b[2 * n + 2] = <<Append(w, i)[n + 1], "body">>
    BY <1>3, <1>4, <1>5, <2>1
  <2> QED
    BY <1>1, <2>2, <2>3
<1>8. a \in Seq(S) /\ Len(a) = 2 * n
  BY <1>1, <1>5, <1>6
<1>9. b \in Seq(S) /\ Len(b) = 2 * n + 2
  <2>1. 2 * (n + 1) \in Nat /\ 2 * (n + 1) = 2 * n + 2
    BY <1>1
  <2>2. \A k \in 1..(2 * n + 2) : k \in 1..(2 * n) \/ k = 2 * n + 1 \/ k = 2 * n + 2
    BY <1>1
  <2>3. <<i, "head">> \in S /\ <<i, "body">> \in S
    OBVIOUS
  <2>4. \A k \in 1..(2 * n + 2) : b[k] \in S
    BY <1>6, <1>7, <2>2, <2>3
  <2> HIDE DEF S, n
  <2>5. DOMAIN b = 1..(2 * n + 2) /\ b = [k \in DOMAIN b |-> b[k]]
    BY <1>5, <2>1
  <2> QED
    BY <2>1, <2>4, <2>5
<1> HIDE DEF a, b
<1> DEFINE h == << <<i, "head">> >>
           d == << <<i, "body">> >>
<1>10. h \in Seq(S) /\ d \in Seq(S) /\ Len(h) = 1 /\ Len(d) = 1
  OBVIOUS
<1>11. /\ (a \o h) \o d \in Seq(S) /\ Len((a \o h) \o d) = 2 * n + 2
       /\ \A k \in 1..(2 * n) : ((a \o h) \o d)[k] = a[k]
       /\ ((a \o h) \o d)[2 * n + 1] = <<i, "head">>
       /\ ((a \o h) \o d)[2 * n + 2] = <<i, "body">>
  BY <1>1, <1>8, <1>10
<1>12. b = (a \o h) \o d
  <2>1. \A k \in 1..(2 * n + 2) : k \in 1..(2 * n) \/ k = 2 * n + 1 \/ k = 2 * n + 2
    BY <1>1
  <2>2. \A k \in 1..(2 * n + 2) : b[k] = ((a \o h) \o d)[k]
    BY <1>6, <1>7, <1>11, <2>1
  <2> QED
    BY <1>9, <1>11, <2>2, SeqEqual
<1> QED
  BY <1>12 DEF a, b

(* A list that rises still does with a larger number at its end.           *)
LEMMA AppendRises ==
  ASSUME NEW w \in Seq(Nat), NEW i \in Nat,
         \A j, k \in 1..Len(w) : j < k => w[j] < w[k],
         \A j \in 1..Len(w) : w[j] < i
  PROVE  \A j, k \in 1..Len(Append(w, i)) : j < k => Append(w, i)[j] < Append(w, i)[k]
<1>1. PICK n, v : n = Len(w) /\ v = Append(w, i)
  OBVIOUS
<1>2. /\ n \in Nat /\ Len(v) = n + 1 /\ v[n + 1] = i
      /\ \A j \in 1..n : v[j] = w[j]
  BY <1>1, AppendProperties, LenProperties
<1>3. ASSUME NEW j \in 1..(n + 1), NEW k \in 1..(n + 1), j < k
      PROVE  v[j] < v[k]
  <2>1. j \in 1..n /\ (k \in 1..n \/ k = n + 1)
    BY <1>2, <1>3
  <2>2. CASE k \in 1..n
    BY <1>1, <1>2, <1>3, <2>1, <2>2
  <2>3. CASE k = n + 1
    BY <1>1, <1>2, <2>1, <2>3
  <2> QED
    BY <2>1, <2>2, <2>3
<1> QED
  BY <1>1, <1>2, <1>3

-----------------------------------------------------------------------------
(* A call of the handler: io is what is in the buffer, the start of the    *)
(* stream, and holds all of the request unless the connection is closing.  *)
LEMMA CallKeepsInv ==
  ASSUME ConnInv, open, NEW closing \in BOOLEAN,
         NEW io \in Seq(Piece), io # << >>, Len(io) <= Len(Stream),
         \A p \in 1..Len(io) : io[p] = Stream[p],
         closing \/ Length(io) <= Len(io),
         Call(io, closing), UNCHANGED <<client, got, undefined>>
  PROVE  /\ handled' \in Seq(Called) /\ Len(handled') = Len(handled) + 1
         /\ Len(handled') <= Len(sent) /\ First(io) = sent[Len(handled')]
         /\ send' \in Seq(ReplyPiece) /\ late' \subseteq ReplyPiece
         /\ written' \in Seq(1..Len(sent))
         /\ HandlersSeeTheirRequest' /\ LateInv' /\ WaitingInv'
         /\ NoReplyLost'
<1>0. PICK i : i = Len(handled) + 1
  OBVIOUS
<1>1. /\ ConnTypeOK /\ LateInv /\ HandlersSeeTheirRequest
      /\ NoReplyLost /\ WaitingInv /\ Consecutive(Stream)
  BY DEF ConnInv, StreamInv
<1>2. /\ Len(io) \in Nat \ {0} /\ Len(Stream) \in Nat /\ 1 \in 1..Len(io)
      /\ Stream # << >> /\ 1 \in 1..Len(Stream)
  BY <1>1, StreamType, EmptySeq
<1>3. io[1] = <<i, 1>> /\ Stream[1] = <<i, 1>>
  BY <1>0, <1>2 DEF ConnInv, StreamInv
<1>4. Continues(Stream, 1, i, 1)
  BY <1>1, <1>2, <1>3 DEF Consecutive
<1>5. /\ i \in 1..Len(sent) /\ Len(handled) \in Nat /\ Len(sent) \in Nat
      /\ Len(sent) <= MaxRequests /\ MaxRequests \in Nat /\ i \notin 1..Len(handled)
  BY <1>0, <1>1, <1>4, ConnectionConstants DEF Continues, ConnTypeOK
<1>6. /\ First(io) = sent[i] /\ sent[i].head \in Nat \ {0} /\ sent[i].body \in Nat
      /\ Size(i) \in Nat /\ Size(i) = sent[i].head + sent[i].body /\ Length(io) = Size(i)
  BY <1>1, <1>3, <1>5, SizeTypes DEF First, Length, Size
<1> DEFINE body == SubSeq(io, sent[i].head + 1, Len(io))
           call == [request |-> i, closing |-> closing, body |-> body]
<1>7. /\ body \in Seq(Piece)
      /\ Len(body) = IF sent[i].head + 1 <= Len(io) THEN Len(io) - sent[i].head ELSE 0
      /\ \A j \in 1..(Len(io) - sent[i].head) : body[j] = io[sent[i].head + j]
  <2>1. sent[i].head + 1 \in Nat \ {0} /\ Len(io) \in 0..Len(io)
    BY <1>2, <1>6
  <2>2. /\ body \in Seq(Piece)
        /\ Len(body) = IF sent[i].head + 1 <= Len(io)
                       THEN Len(io) - (sent[i].head + 1) + 1 ELSE 0
        /\ \A j \in 1..(Len(io) - (sent[i].head + 1) + 1) :
             body[j] = io[(sent[i].head + 1) + j - 1]
    BY <2>1, Part, SMTT(60)
  <2>3. Len(io) - (sent[i].head + 1) + 1 = Len(io) - sent[i].head
    BY <1>2, <1>6
  <2>4. \A j \in 1..(Len(io) - sent[i].head) : (sent[i].head + 1) + j - 1 = sent[i].head + j
    BY <1>2, <1>6
  <2> HIDE DEF body
  <2> QED
    BY <2>2, <2>3, <2>4
<1>8. handled' = Append(handled, call)
  BY <1>3, <1>6 DEF Call
<1>9. /\ handled' \in Seq(Called) /\ Len(handled') = i
      /\ handled'[i] = call /\ \A k \in 1..Len(handled) : handled'[k] = handled[k]
  <2>1. call \in Called /\ handled \in Seq(Called)
    BY <1>1, <1>5, <1>7 DEF Called, ConnTypeOK
  <2> HIDE DEF call
  <2> QED
    BY <1>0, <1>8, <2>1, AppendProperties
<1>10. UNCHANGED <<sent, piped, side, got, undefined>>
  BY DEF client
<1> HIDE DEF body
<1>11. HandlersSeeTheirRequest'
  <2>1. ASSUME NEW k \in 1..Len(sent) PROVE Body(k)' = Body(k)
    BY <1>10 DEF Body
  <2>2. /\ Len(Body(i)) = sent[i].body
        /\ \A j \in 1..sent[i].body : Body(i)[j] = <<i, sent[i].head + j>>
        /\ Body(i) \in Seq(Piece)
    <3>1. \A j \in 1..sent[i].body : <<i, sent[i].head + j>> \in Piece
      <4>1. i \in 1..MaxRequests
        BY <1>5
      <4> QED
        BY <1>6, <4>1, SMTT(60) DEF Piece
    <3>2. Body(i) = [j \in 1..sent[i].body |-> <<i, sent[i].head + j>>]
      BY DEF Body
    <3> QED
      BY <1>6, <3>1, <3>2
  <2>3. ASSUME ~closing, NEW j \in 1..sent[i].body PROVE body[j] = Body(i)[j]
    <3>1. Len(io) >= Size(i)
      BY <1>2, <1>6, <2>3
    <3>2. sent[i].head + j \in 1..Len(io) /\ j \in 1..(Len(io) - sent[i].head)
      BY <1>2, <1>6, <3>1, SMTT(60)
    <3>3. /\ sent[i].head + j \in 1..Len(Stream)
          /\ (sent[i].head + j) - 1 <= Size(i) - 1
          /\ 1 + (sent[i].head + j) - 1 = sent[i].head + j
      BY <1>2, <1>6, <3>2, SMTT(60)
    <3>4. Stream[sent[i].head + j] = <<i, sent[i].head + j>>
      BY <1>4, <3>3 DEF Continues
    <3>5. io[sent[i].head + j] = Stream[sent[i].head + j]
      BY <3>2
    <3> QED
      BY <1>7, <2>2, <3>2, <3>4, <3>5
  <2>4. ASSUME ~closing PROVE Len(body) = Len(io) - sent[i].head /\ Len(body) >= sent[i].body
    <3>1. Len(io) >= Size(i)
      BY <1>2, <1>6, <2>4
    <3> QED
      BY <1>2, <1>6, <1>7, <3>1, SMTT(60)
  <2>5. ASSUME ~closing PROVE IsPrefix(Body(i), body)
    <3> DEFINE n == sent[i].body
    <3>1. Len(body) >= n /\ n \in Nat /\ Len(body) \in Nat
      BY <1>6, <1>7, <2>4, <2>5
    <3>2. /\ SubSeq(Body(i), 1, n) \in Seq(Piece) /\ SubSeq(body, 1, n) \in Seq(Piece)
          /\ Len(SubSeq(Body(i), 1, n)) = n /\ Len(SubSeq(body, 1, n)) = n
          /\ \A j \in 1..n : /\ SubSeq(Body(i), 1, n)[j] = Body(i)[j]
                             /\ SubSeq(body, 1, n)[j] = body[j]
      <4>1. 1 \in Nat \ {0} /\ n \in 0..Len(Body(i)) /\ n \in 0..Len(body)
        BY <2>2, <3>1
      <4>2. /\ SubSeq(Body(i), 1, n) \in Seq(Piece)
            /\ Len(SubSeq(Body(i), 1, n)) = IF 1 <= n THEN n - 1 + 1 ELSE 0
            /\ \A j \in 1..(n - 1 + 1) : SubSeq(Body(i), 1, n)[j] = Body(i)[1 + j - 1]
        BY <2>2, <4>1, Part
      <4>3. /\ SubSeq(body, 1, n) \in Seq(Piece)
            /\ Len(SubSeq(body, 1, n)) = IF 1 <= n THEN n - 1 + 1 ELSE 0
            /\ \A j \in 1..(n - 1 + 1) : SubSeq(body, 1, n)[j] = body[1 + j - 1]
        BY <1>7, <4>1, Part
      <4>4. n - 1 + 1 = n /\ (~(1 <= n) => n = 0) /\ \A j \in 1..n : 1 + j - 1 = j
        BY <3>1
      <4> QED
        BY <4>2, <4>3, <4>4
    <3>3. SubSeq(Body(i), 1, n) = SubSeq(body, 1, n)
      BY <2>3, <2>5, <3>2, SeqEqual
    <3> QED
      BY <2>2, <3>1, <3>3 DEF IsPrefix
  <2>6. ASSUME ~closing, ~piped PROVE body = Body(i)
    <3>1. i = Len(sent)
      BY <1>0, <1>1, <1>5, <2>6 DEF WaitingInv
    <3>2. Len(Stream) <= Size(i)
      <4> SUFFICES ASSUME Len(Stream) > Size(i) PROVE FALSE
        BY <1>2, <1>6
      <4>1. 1 + Size(i) - 1 + 1 = Size(i) + 1 /\ Size(i) + 1 \in 1..Len(Stream)
        BY <1>2, <1>6
      <4>2. Stream[Size(i) + 1] = <<i + 1, 1>>
        BY <1>4, <4>1 DEF Continues
      <4>3. Continues(Stream, Size(i) + 1, i + 1, 1)
        BY <1>1, <4>1, <4>2 DEF Consecutive
      <4> QED
        BY <1>5, <3>1, <4>3 DEF Continues
    <3>3. Len(body) = sent[i].body
      BY <1>2, <1>6, <2>4, <2>6, <3>2
    <3> QED
      BY <1>7, <2>2, <2>3, <2>6, <3>3, SeqEqual
  <2>7. ASSUME NEW k \in 1..Len(handled')
        PROVE  (LET h == handled[k]
                IN  /\ h.request = k
                    /\ ~h.closing => IsPrefix(Body(k), h.body)
                    /\ ~h.closing /\ ~piped => h.body = Body(k))'
    <3>1. CASE k \in 1..Len(handled)
      <4>1. handled'[k] = handled[k] /\ k \in 1..Len(sent) /\ piped' = piped
        BY <1>5, <1>9, <1>10, <3>1
      <4>2. /\ handled[k].request = k
            /\ ~handled[k].closing => IsPrefix(Body(k), handled[k].body)
            /\ ~handled[k].closing /\ ~piped => handled[k].body = Body(k)
        BY <1>1, <3>1 DEF HandlersSeeTheirRequest
      <4>3. Body(k)' = Body(k)
        BY <2>1, <4>1
      <4> QED
        BY <4>1, <4>2, <4>3
    <3>2. CASE k = i
      <4>1. /\ handled'[k].request = i /\ handled'[k].closing = closing
            /\ handled'[k].body = body /\ piped' = piped
        BY <1>9, <1>10, <3>2
      <4>2. Body(k)' = Body(i)
        BY <1>5, <2>1, <3>2
      <4> QED
        BY <2>5, <2>6, <3>2, <4>1, <4>2
    <3> QED
      BY <1>0, <1>5, <1>9, <3>1, <3>2
  <2> QED
    BY <2>7 DEF HandlersSeeTheirRequest
<1>12. /\ got \in Seq(ReplyPiece) /\ send \in Seq(ReplyPiece) /\ late \subseteq ReplyPiece
       /\ written \in Seq(1..Len(sent)) /\ written \in Seq(Nat)
       /\ <<i, "head">> \in ReplyPiece /\ <<i, "body">> \in ReplyPiece
  <2>1. i \in 1..MaxRequests
    BY <1>5
  <2>2. <<i, "head">> \in ReplyPiece /\ <<i, "body">> \in ReplyPiece
    BY <2>1 DEF ReplyPiece
  <2>3. written \in Seq(1..Len(sent)) /\ 1..Len(sent) \subseteq Nat
    BY <1>1 DEF ConnTypeOK
  <2>4. written \in Seq(Nat)
    BY <2>3, SeqMonotonic
  <2> QED
    BY <1>1, <2>2, <2>3, <2>4 DEF ConnTypeOK
<1>13. \A r \in late : r[1] # i
  BY <1>1, <1>5 DEF LateInv, OnlyHandled
<1>14. ASSUME sent[i].blocking
       PROVE  /\ send' \in Seq(ReplyPiece) /\ late' \subseteq ReplyPiece
              /\ written' \in Seq(1..Len(sent))
              /\ LateInv' /\ WaitingInv' /\ NoReplyLost'
  <2>1. late' = late \cup {<<i, "head">>} /\ UNCHANGED <<send, written>>
    BY <1>3, <1>6, <1>14 DEF Call
  <2>2. LateInv'
    <3>1. /\ \A j \in 1..Len(handled) : j \in 1..Len(handled') /\ j # i
          /\ i \in 1..Len(handled')
      BY <1>0, <1>5, <1>9
    <3>2. <<i, "body">> \notin ToSet(got) \cup ToSet(send) /\ i \notin ToSet(written)
      BY <1>1, <1>5 DEF LateInv, OnlyHandled
    <3> QED
      BY <1>1, <1>10, <1>13, <2>1, <3>1, <3>2 DEF LateInv, OnlyHandled
  <2>3. NoReplyLost'
    <3> SUFFICES ASSUME ~undefined', NEW j \in 1..Len(handled')
                 PROVE  \/ <<j, "body">> \in ToSet(got') \cup ToSet(send')
                        \/ \E p \in {"head", "body"} : <<j, p>> \in late'
      BY DEF NoReplyLost
    <3>1. j \in 1..Len(handled) \/ j = i
      BY <1>0, <1>5, <1>9
    <3> QED
      BY <1>1, <1>10, <2>1, <3>1 DEF NoReplyLost
  <2>4. WaitingInv'
    <3> SUFFICES ASSUME ~piped PROVE WaitingInv'
      BY <1>10 DEF WaitingInv
    <3>1. i = Len(sent)
      BY <1>0, <1>1, <1>5 DEF WaitingInv
    <3>2. Pending' = << >> /\ Pending = << >>
      BY <1>10, <1>13, <2>1, <3>1 DEF Pending
    <3>3. Answers(written)' = Answers(written)
      BY <2>1 DEF Answers
    <3> QED
      BY <1>1, <1>5, <1>9, <1>10, <2>1, <3>1, <3>2, <3>3 DEF WaitingInv
  <2> QED
    <3>1. late' \subseteq ReplyPiece
      BY <1>12, <2>1
    <3> QED
      BY <1>12, <2>1, <2>2, <2>3, <2>4, <3>1
<1>15. ASSUME ~sent[i].blocking
       PROVE  /\ send' \in Seq(ReplyPiece) /\ late' \subseteq ReplyPiece
              /\ written' \in Seq(1..Len(sent))
              /\ LateInv' /\ WaitingInv' /\ NoReplyLost'
  <2>0. PICK h, b : h = <<i, "head">> /\ b = <<i, "body">>
    OBVIOUS
  <2>1. send' = send \o << h, b >> /\ written' = Append(written, i) /\ late' = late
    <3>1. io[1][1] = i
      BY <1>3
    <3>2. ~First(io).blocking
      BY <1>6, <1>15
    <3>3. /\ send' = send \o Answer(io[1][1]) /\ written' = Append(written, io[1][1])
          /\ late' = late
      BY <3>2 DEF Call
    <3>4. Answer(i) = << h, b >>
      BY <2>0 DEF Answer
    <3> QED
      BY <3>1, <3>3, <3>4
  <2>2. /\ << h >> \in Seq(ReplyPiece) /\ << b >> \in Seq(ReplyPiece)
        /\ << h, b >> \in Seq(ReplyPiece) /\ << h, b >> = << h >> \o << b >>
        /\ ToSet(<< h, b >>) = {h, b}
    <3>1. h \in ReplyPiece /\ b \in ReplyPiece
      BY <1>12, <2>0
    <3> QED
      BY <3>1, Pair, SMTT(60)
  <2>3. send' \in Seq(ReplyPiece) /\ ToSet(send') = ToSet(send) \cup {h, b}
    <3>1. send \o << h, b >> \in Seq(ReplyPiece)
      BY <1>12, <2>2, ConcatProperties
    <3>2. ToSet(send \o << h, b >>) = ToSet(send) \cup ToSet(<< h, b >>)
      <4>1. send \in Seq(ReplyPiece) /\ << h, b >> \in Seq(ReplyPiece)
        BY <1>12, <2>2
      <4> QED
        BY <4>1, ToSetConcat, ZenonT(60)
    <3> QED
      BY <2>1, <2>2, <3>1, <3>2
  <2>4. written' \in Seq(1..Len(sent)) /\ ToSet(written') = ToSet(written) \cup {i}
    <3>1. Append(written, i) \in Seq(1..Len(sent))
      BY <1>5, <1>12, AppendProperties
    <3>2. ToSet(Append(written, i)) = ToSet(written) \cup {i}
      <4>1. written \in Seq(Nat) /\ i \in Nat
        BY <1>5, <1>12
      <4>2. ToSet(written \o << i >>) = ToSet(written) \cup {i}
        BY <4>1, ToSetAppend
      <4> QED
        BY <4>1, <4>2, AppendIsConcat
    <3> QED
      BY <2>1, <3>1, <3>2
  <2>5. LateInv'
    <3>1. /\ \A j \in 1..Len(handled) : j \in 1..Len(handled') /\ j # i
          /\ i \in 1..Len(handled')
      BY <1>0, <1>5, <1>9
    <3>2. OnlyHandled(ToSet(send))' /\ OnlyHandled(ToSet(got))' /\ OnlyHandled(late)'
      <4>1. \A r \in ToSet(send) \cup ToSet(got) \cup late : r[1] \in 1..Len(handled')
        BY <1>1, <3>1 DEF LateInv, OnlyHandled
      <4>2. h[1] = i /\ b[1] = i
        BY <2>0
      <4>3. \A r \in ToSet(send') \cup ToSet(got') \cup late' : r[1] \in 1..Len(handled')
        BY <1>10, <2>1, <2>3, <3>1, <4>1, <4>2
      <4> QED
        BY <4>3 DEF OnlyHandled
    <3>3. \A r \in late : <<r[1], "body">> # b /\ <<r[1], "body">> # h
      BY <1>13, <2>0
    <3>4. \A j \in 1..Len(sent) : <<j, "head">> \in late =>
             <<j, "body">> \notin late /\ j \notin ToSet(written')
      BY <1>1, <1>13, <2>4 DEF LateInv
    <3> QED
      BY <1>1, <1>10, <2>1, <2>3, <2>4, <3>1, <3>2, <3>3, <3>4 DEF LateInv
  <2>6. NoReplyLost'
    <3> SUFFICES ASSUME ~undefined', NEW j \in 1..Len(handled')
                 PROVE  \/ <<j, "body">> \in ToSet(got') \cup ToSet(send')
                        \/ \E p \in {"head", "body"} : <<j, p>> \in late'
      BY DEF NoReplyLost
    <3>1. j \in 1..Len(handled) \/ j = i
      BY <1>0, <1>5, <1>9
    <3>2. ~undefined => \A k \in 1..Len(handled) :
            \/ <<k, "body">> \in ToSet(got) \cup ToSet(send)
            \/ \E p \in {"head", "body"} : <<k, p>> \in late
      BY <1>1 DEF NoReplyLost
    <3>3. CASE j = i
      BY <2>0, <2>3, <3>3
    <3>4. CASE j \in 1..Len(handled)
      <4>1. ~undefined
        BY <1>10
      <4>2. \/ <<j, "body">> \in ToSet(got) \cup ToSet(send)
            \/ \E p \in {"head", "body"} : <<j, p>> \in late
        BY <3>2, <3>4, <4>1
      <4> QED
        BY <1>10, <2>1, <2>3, <4>2
    <3> QED
      BY <3>1, <3>3, <3>4
  <2>7. WaitingInv'
    <3> SUFFICES ASSUME ~piped PROVE WaitingInv'
      BY <1>10 DEF WaitingInv
    <3>1. i = Len(sent)
      BY <1>0, <1>1, <1>5 DEF WaitingInv
    <3>2. Pending' = << >> /\ Pending = << >>
      BY <1>10, <1>13, <2>1, <3>1 DEF Pending
    <3>3. Answers(written)' = (Answers(written) \o << h >>) \o << b >>
      <4>1. Answers(Append(written, i)) = (Answers(written) \o << h >>) \o << b >>
        BY <1>5, <1>12, <2>0, AnswersAppend
      <4> QED
        BY <2>1, <4>1 DEF Answers
    <3>4. ~undefined => (got \o send') \o << >> = Answers(written)'
      <4> SUFFICES ASSUME ~undefined PROVE (got \o send') \o << >> = Answers(written)'
        OBVIOUS
      <4>2. got \o send \in Seq(ReplyPiece) /\ got \o send' \in Seq(ReplyPiece)
        BY <1>12, <2>3, ConcatProperties
      <4>3. got \o send = Answers(written)
        BY <1>1, <3>2, <4>2, ConcatEmptySeq DEF WaitingInv
      <4>4. got \o send' = ((got \o send) \o << h >>) \o << b >>
        <5>1. got \o (send \o << h, b >>) = (got \o send) \o << h, b >>
          BY <1>12, <2>2, ConcatAssociative, SMTT(60)
        <5>2. (got \o send) \o (<< h >> \o << b >>) = ((got \o send) \o << h >>) \o << b >>
          BY <2>2, <4>2, ConcatAssociative
        <5> QED
          BY <2>1, <2>2, <5>1, <5>2
      <4> QED
        BY <3>3, <4>2, <4>3, <4>4, ConcatEmptySeq
    <3>5. \A j, k \in 1..Len(written') : j < k => written'[j] < written'[k]
      <4>1. \A j, k \in 1..Len(written) : j < k => written[j] < written[k]
        BY <1>1 DEF WaitingInv
      <4>2. \A j \in 1..Len(written) : written[j] \in 1..Len(handled)
        BY <1>1, <1>12 DEF LateInv, ToSet
      <4>3. \A j \in 1..Len(written) : written[j] < i
        BY <1>0, <1>5, <4>2
      <4> QED
        <5>1. written \in Seq(Nat) /\ i \in Nat
          BY <1>5, <1>12
        <5>2. \A j, k \in 1..Len(Append(written, i)) :
                 j < k => Append(written, i)[j] < Append(written, i)[k]
          BY <4>1, <4>3, <5>1, AppendRises
        <5> QED
          BY <2>1, <5>2
    <3>6. Len(sent') <= Len(handled') + 1 /\ \A r \in late' : r[1] = Len(sent')
      BY <1>1, <1>5, <1>9, <1>10, <2>1, <3>1 DEF WaitingInv
    <3>7. ~undefined' => ((got \o send) \o Pending = Answers(written))'
      BY <1>10, <3>2, <3>4
    <3> QED
      BY <3>5, <3>6, <3>7 DEF WaitingInv
  <2> QED
    BY <1>12, <2>1, <2>3, <2>4, <2>5, <2>6, <2>7
<1>16. Len(handled') = Len(handled) + 1 /\ Len(handled') <= Len(sent) /\ i = Len(handled')
  BY <1>0, <1>5, <1>9
<1> QED
  BY <1>6, <1>9, <1>11, <1>14, <1>15, <1>16

LEMMA CloseKeepsInv ==
  ASSUME ConnInv, CloseConn
  PROVE  ConnInv'
<1>1. /\ ConnTypeOK /\ open /\ ~open' /\ open' \in BOOLEAN
      /\ phase' = "poll" /\ rcvd' = 0
      /\ UNCHANGED <<sent, piped, side, wire, got, writable, recv, flags, undefined>>
  BY DEF ConnInv, CloseConn, client
<1>2. StreamInv' /\ NoReplyLost'
  BY <1>1 DEF StreamInv, NoReplyLost
<1>3. rcvd' \in 0..Len(recv')
  BY <1>1 DEF ConnTypeOK
<1>4. CASE Parsed(recv)
  <2>1. /\ recv \in Seq(Piece) /\ recv # << >> /\ Len(recv) <= Len(Stream)
        /\ \A p \in 1..Len(recv) : recv[p] = Stream[p]
    <3>1. recv \in Seq(Piece) /\ wire \in Seq(Piece) /\ recv # << >>
      BY <1>1, <1>4 DEF ConnTypeOK, Parsed, HeadComplete
    <3>2. Len(recv) \in Nat /\ Len(wire) \in Nat
      BY <3>1
    <3> QED
      BY <1>1, <3>1, <3>2, StreamType
  <2>2. /\ handled' \in Seq(Called) /\ Len(handled') <= Len(sent)
        /\ send' \in Seq(ReplyPiece) /\ late' \subseteq ReplyPiece
        /\ written' \in Seq(1..Len(sent))
        /\ HandlersSeeTheirRequest' /\ LateInv' /\ WaitingInv'
    <3>1. Call(recv, TRUE) /\ UNCHANGED <<client, got, undefined>>
      BY <1>4 DEF CloseConn
    <3> QED
      BY <1>1, <2>1, <3>1, CallKeepsInv
  <2>3. ConnTypeOK'
    BY <1>1, <1>3, <2>2 DEF ConnTypeOK
  <2> QED
    BY <1>2, <2>2, <2>3 DEF ConnInv
<1>5. CASE ~Parsed(recv)
  <2>1. UNCHANGED <<handled, late, send, written>>
    BY <1>5 DEF CloseConn
  <2>2. ConnTypeOK'
    BY <1>1, <1>3, <2>1 DEF ConnTypeOK
  <2>3. HandlersSeeTheirRequest' /\ LateInv' /\ WaitingInv'
    BY <1>1, <2>1, RepliesKept
  <2> QED
    BY <1>2, <2>2, <2>3 DEF ConnInv
<1> QED
  BY <1>4, <1>5

(* What select and the socket give, and what mg_http_handler takes of it.  *)
LEMMA ReceiveKeepsInv ==
  ASSUME ConnInv, NEW n \in 1..Len(wire), Receive(n)
  PROVE  ConnInv'
<1>1. /\ ConnTypeOK /\ StreamInv /\ open
      /\ phase' = "write" /\ writable' \in BOOLEAN
      /\ wire' = SubSeq(wire, n + 1, Len(wire))
      /\ UNCHANGED <<sent, piped, side, got, open, undefined>>
  BY DEF ConnInv, Receive, Select, client
<1>2. PICK io : io = recv \o SubSeq(wire, 1, n)
  OBVIOUS
<1>3. TakeRequest(io, n)
  BY <1>2 DEF Receive, Select
<1>4. /\ wire \in Seq(Piece) /\ recv \in Seq(Piece) /\ Len(wire) \in Nat
      /\ Len(recv) \in Nat /\ n \in 1..Len(wire) /\ rcvd \in 0..Len(recv)
  BY <1>1 DEF ConnTypeOK
<1>5. /\ SubSeq(wire, 1, n) \in Seq(Piece) /\ Len(SubSeq(wire, 1, n)) = n
      /\ \A p \in 1..n : SubSeq(wire, 1, n)[p] = wire[p]
  BY <1>4
<1>6. /\ wire' \in Seq(Piece) /\ Len(wire') = Len(wire) - n
      /\ \A p \in 1..(Len(wire) - n) : wire'[p] = wire[n + p]
  BY <1>1, <1>4
<1>7. /\ io \in Seq(Piece) /\ Len(io) = Len(recv) + n /\ io # << >>
      /\ \A p \in 1..Len(io) : io[p] = Stream[p]
  <2>1. /\ io \in Seq(Piece) /\ Len(io) = Len(recv) + n
        /\ \A p \in 1..(Len(recv) + n) :
             io[p] = IF p <= Len(recv) THEN recv[p] ELSE SubSeq(wire, 1, n)[p - Len(recv)]
    BY <1>2, <1>4, <1>5, ConcatProperties
  <2>2. ASSUME NEW p \in 1..Len(io) PROVE io[p] = Stream[p]
    <3>1. p \in 1..(Len(recv) + n) /\ p \in 1..Len(Stream)
      BY <1>1, <1>4, <2>1, StreamType
    <3>2. ~(p <= Len(recv)) => p - Len(recv) \in 1..n
      BY <1>4, <3>1
    <3>3. io[p] = IF p <= Len(recv) THEN recv[p] ELSE wire[p - Len(recv)]
      BY <1>5, <2>1, <3>1, <3>2
    <3> QED
      BY <1>1, <3>1, <3>3, StreamType
  <2> QED
    BY <1>4, <2>1, <2>2, EmptySeq
<1>8. /\ Len(Stream) = Len(io) + Len(wire') /\ Len(io) \in Nat /\ Len(wire') \in Nat
      /\ \A p \in 1..Len(wire') : wire'[p] = Stream[Len(io) + p]
  <2>1. Len(Stream) = Len(recv) + Len(wire)
    BY <1>1, StreamType
  <2>2. ASSUME NEW p \in 1..Len(wire') PROVE wire'[p] = Stream[Len(io) + p]
    <3>1. /\ Len(io) + p \in 1..Len(Stream) /\ ~(Len(io) + p <= Len(recv))
          /\ (Len(io) + p) - Len(recv) = n + p /\ p \in 1..(Len(wire) - n)
      BY <1>4, <1>6, <1>7, <2>1
    <3> QED
      BY <1>1, <1>6, <3>1, StreamType
  <2> QED
    BY <1>4, <1>6, <1>7, <2>1, <2>2
<1>9. CASE Parsed(io) /\ First(io).declared /\ Length(io) <= rcvd + n
  <2>1. PICK i, size : i = io[1][1] /\ size = Length(io)
    OBVIOUS
  <2>2. /\ i \in 1..Len(sent) /\ i = Len(handled) + 1 /\ Len(handled) \in Nat
        /\ size = Size(i) /\ size \in Nat \ {0}
        /\ Stream # << >> /\ Stream[1] = <<i, 1>>
    <3>1. Stream # << >> /\ 1 \in 1..Len(Stream) /\ 1 \in 1..Len(io)
      <4>1. Len(io) \in Nat \ {0} /\ Len(wire') \in Nat /\ Len(Stream) = Len(io) + Len(wire')
        BY <1>4, <1>7, <1>8
      <4>2. Len(Stream) # 0
        BY <4>1
      <4> QED
        BY <4>1, <4>2, EmptySeq
    <3>2. Stream[1] = <<Len(handled) + 1, 1>> /\ io[1] = Stream[1]
      BY <1>1, <1>7, <3>1 DEF StreamInv
    <3>3. i = Len(handled) + 1
      BY <2>1, <3>2
    <3>4. Continues(Stream, 1, i, 1)
      BY <1>1, <3>1, <3>2, <3>3 DEF StreamInv, Consecutive
    <3>5. i \in 1..Len(sent) /\ Len(handled) \in Nat
      BY <1>1, <3>4 DEF Continues, ConnTypeOK
    <3>6. size = Size(i)
      BY <2>1 DEF Length, First, Size
    <3> QED
      BY <1>1, <3>1, <3>2, <3>3, <3>5, <3>6, SizeTypes
  <2>3. /\ Call(io, FALSE) /\ recv' = Rest(io) /\ rcvd' = 0 /\ flags' = flags
        /\ size <= Len(io) /\ Length(io) <= Len(io)
    <3>1. Call(io, FALSE) /\ recv' = Rest(io) /\ rcvd' = 0 /\ flags' = flags
      BY <1>3, <1>9 DEF TakeRequest, Taken
    <3>2. size <= Len(io)
      BY <1>4, <1>7, <1>9, <2>1, <2>2
    <3> QED
      BY <2>1, <3>1, <3>2
  <2>4. /\ Len(io) \in Nat /\ size \in Nat \ {0} /\ size <= Len(io)
         /\ Len(wire') \in Nat /\ Len(Stream) = Len(io) + Len(wire')
    BY <1>8, <2>2, <2>3
  <2>5. /\ handled' \in Seq(Called) /\ Len(handled') = i /\ Len(handled') <= Len(sent)
        /\ send' \in Seq(ReplyPiece) /\ late' \subseteq ReplyPiece
        /\ written' \in Seq(1..Len(sent))
        /\ HandlersSeeTheirRequest' /\ LateInv' /\ WaitingInv' /\ NoReplyLost'
    <3>1. UNCHANGED <<client, got, undefined>> /\ Len(io) <= Len(Stream)
      BY <1>1, <1>8 DEF client
    <3> QED
      BY <1>1, <1>7, <2>2, <2>3, <3>1, CallKeepsInv
  <2>6. /\ recv' = SubSeq(io, size + 1, Len(io)) /\ recv' \in Seq(Piece)
        /\ Len(recv') = Len(io) - size
        /\ \A p \in 1..(Len(io) - size) : recv'[p] = Stream[p + size]
    <3>1. recv' = SubSeq(io, size + 1, Len(io)) /\ size <= Len(io)
      BY <2>1, <2>3 DEF Rest
    <3>2. size + 1 \in Nat \ {0} /\ Len(io) \in 0..Len(io)
      BY <1>8, <2>2
    <3>3. /\ SubSeq(io, size + 1, Len(io)) \in Seq(Piece)
          /\ Len(SubSeq(io, size + 1, Len(io)))
               = IF size + 1 <= Len(io) THEN Len(io) - (size + 1) + 1 ELSE 0
          /\ \A j \in 1..(Len(io) - (size + 1) + 1) :
               SubSeq(io, size + 1, Len(io))[j] = io[(size + 1) + j - 1]
      BY <1>7, <3>2, Part
    <3>4. ASSUME NEW p \in 1..(Len(io) - size) PROVE recv'[p] = Stream[p + size]
      <4>1. /\ p \in 1..(Len(io) - (size + 1) + 1) /\ (size + 1) + p - 1 = p + size
            /\ p + size \in 1..Len(io)
        BY <2>4
      <4> QED
        BY <1>7, <3>1, <3>3, <4>1
    <3>5. Len(recv') = Len(io) - size
      BY <1>8, <2>2, <3>1, <3>3, SMTT(60)
    <3> QED
      BY <3>1, <3>3, <3>4, <3>5
  <2>7. ConnTypeOK'
    <3>1. rcvd' \in 0..Len(recv')
      BY <2>3, <2>6
    <3> QED
      BY <1>1, <1>6, <2>3, <2>5, <2>6, <3>1 DEF ConnTypeOK
  <2>8. /\ Stream' \in Seq(Piece) /\ Len(Stream') = Len(Stream) - size
        /\ Len(Stream') \in Nat
        /\ \A p \in 1..Len(Stream') : Stream'[p] = Stream[p + size]
    <3>1. Stream' = recv' \o wire'
      BY DEF Stream
    <3>2. /\ Stream' \in Seq(Piece) /\ Len(Stream') = Len(recv') + Len(wire')
          /\ \A p \in 1..(Len(recv') + Len(wire')) :
               Stream'[p] = IF p <= Len(recv') THEN recv'[p] ELSE wire'[p - Len(recv')]
      <4>1. recv' \in Seq(Piece) /\ wire' \in Seq(Piece)
        BY <1>6, <2>6
      <4> QED
        BY <3>1, <4>1, PieceConcat
    <3>3. Len(Stream') = Len(Stream) - size /\ Len(Stream') \in Nat
      <4>1. Len(recv') = Len(io) - size
        BY <2>6
      <4>2. Len(Stream') = Len(recv') + Len(wire')
        BY <3>2
      <4> QED
        BY <2>4, <4>1, <4>2
    <3>4. ASSUME NEW p \in 1..Len(Stream') PROVE Stream'[p] = Stream[p + size]
      <4>1. CASE p <= Len(recv')
        <5>1. Len(recv') = Len(io) - size /\ Len(recv') \in Nat
          BY <2>4, <2>6
        <5>2. p \in 1..(Len(io) - size) /\ p \in 1..(Len(recv') + Len(wire'))
          BY <2>4, <4>1, <5>1
        <5>3. Stream'[p] = recv'[p]
          BY <3>2, <4>1, <5>2
        <5> QED
          BY <2>6, <5>2, <5>3
      <4>2. CASE ~(p <= Len(recv'))
        <5>1. /\ p - Len(recv') \in 1..Len(wire')
              /\ Len(io) + (p - Len(recv')) = p + size
          <6>1. Len(recv') = Len(io) - size /\ Len(Stream') = Len(recv') + Len(wire')
            BY <2>6, <3>2
          <6> QED
            BY <2>4, <4>2, <6>1
        <5>2. Stream'[p] = wire'[p - Len(recv')]
          BY <3>2, <4>2
        <5> QED
          BY <1>8, <5>1, <5>2
      <4> QED
        BY <4>1, <4>2
    <3> QED
      BY <3>2, <3>3, <3>4
  <2>9. Consecutive(Stream)'
    <3>1. size \in Nat /\ Len(Stream') <= Len(Stream) - size
      BY <2>2, <2>8
    <3> QED
      BY <1>1, <2>8, <3>1, StreamShrinks DEF StreamInv
  <2>10. Continues(Stream, 1, i, 1)
    <3>1. 1 \in 1..Len(Stream) /\ Consecutive(Stream)
      BY <1>1, <2>4 DEF StreamInv
    <3>2. Stream[1][1] = i /\ Stream[1][2] = 1
      BY <2>2
    <3> QED
      BY <3>1, <3>2 DEF Consecutive
  <2>11. Stream' # << >> => Stream'[1] = <<Len(handled') + 1, 1>>
    <3> SUFFICES ASSUME Stream' # << >> PROVE Stream'[1] = <<i + 1, 1>>
      BY <2>5
    <3>1. /\ 1 \in 1..Len(Stream') /\ 1 + size = size + 1 /\ 1 + size - 1 + 1 = size + 1
          /\ size + 1 <= Len(Stream)
      BY <1>8, <2>2, <2>8, EmptySeq, SMTT(60)
    <3>2. Stream[size + 1] = <<i + 1, 1>>
      BY <2>2, <2>10, <3>1 DEF Continues
    <3> QED
      BY <2>8, <3>1, <3>2
  <2>12. side' = "open" => Unbroken(Stream)'
    <3> SUFFICES ASSUME side' = "open" PROVE Unbroken(Stream)'
      OBVIOUS
    <3>1. Unbroken(Stream)
      BY <1>1 DEF StreamInv
    <3>2. Stream' = << >> => Len(handled') = Len(sent')
      <4> SUFFICES ASSUME Stream' = << >> PROVE i = Len(sent)
        BY <1>1, <2>5
      <4>1. Len(Stream) = size
        BY <2>8, <2>4, EmptySeq
      <4>2. 1 \in 1..Len(Stream) /\ Stream[1][1] = i /\ Stream[1][2] = 1
        BY <2>2, <2>4
      <4>3. 1 + size - 1 = Len(Stream) <=> i = Len(sent)
        BY <2>2, <3>1, <4>2 DEF Unbroken
      <4> QED
        BY <2>4, <4>1, <4>3
    <3>3. ASSUME NEW p \in 1..Len(Stream')
          PROVE  (LET last == p + Size(Stream[p][1]) - Stream[p][2]
                  IN  last <= Len(Stream) /\ (last = Len(Stream) <=> Stream[p][1] = Len(sent)))'
      <4>1. PICK j, k : Stream'[p][1] = j /\ Stream'[p][2] = k
        OBVIOUS
      <4>2. p + size \in 1..Len(Stream) /\ Stream[p + size][1] = j /\ Stream[p + size][2] = k
        BY <2>8, <2>4, <4>1
      <4>3. /\ (p + size) + Size(j) - k <= Len(Stream)
            /\ ((p + size) + Size(j) - k = Len(Stream) <=> j = Len(sent))
        BY <3>1, <4>2 DEF Unbroken
      <4>4. Continues(Stream, p + size, j, k)
        BY <1>1, <4>2 DEF StreamInv, Consecutive
      <4>5. j \in 1..Len(sent) /\ k \in 1..Size(j)
        BY <4>4 DEF Continues
      <4>6. Size(j) \in Nat
        BY <1>1, <4>5, SizeTypes
      <4>7. /\ p + Size(j) - k <= Len(Stream')
            /\ (p + Size(j) - k = Len(Stream') <=> j = Len(sent))
        <5>1. Len(Stream') = Len(Stream) - size /\ Len(Stream) \in Nat /\ size \in Nat
          BY <2>4, <2>8
        <5>2. Size(j) \in Nat /\ k \in Nat /\ p \in Nat
          BY <2>8, <4>5, <4>6
        <5> QED
          BY <4>3, <5>1, <5>2, SMTT(60)
      <4>8. Size(j)' = Size(j)
        BY <1>1 DEF Size
      <4> QED
        BY <1>1, <4>1, <4>7, <4>8
    <3> QED
      BY <3>2, <3>3 DEF Unbroken
  <2> QED
    BY <2>5, <2>7, <2>9, <2>11, <2>12 DEF ConnInv, StreamInv
<1>10. CASE ~(Parsed(io) /\ First(io).declared /\ Length(io) <= rcvd + n)
  <2>1. /\ recv' = io /\ rcvd' = rcvd + n
        /\ flags' \subseteq {"CLOSE_IMMEDIATELY", "SEND_AND_CLOSE"}
        /\ UNCHANGED <<handled, late, send, written>>
    BY <1>1, <1>3, <1>10 DEF TakeRequest, Taken, ConnTypeOK
  <2>2. ConnTypeOK'
    <3>1. rcvd' \in 0..Len(recv')
      BY <1>4, <1>7, <2>1
    <3> QED
      BY <1>1, <1>6, <1>7, <2>1, <3>1 DEF ConnTypeOK
  <2>3. Stream' = Stream
    <3>1. Stream' = io \o wire'
      BY <2>1 DEF Stream
    <3>2. /\ Stream' \in Seq(Piece) /\ Len(Stream') = Len(io) + Len(wire')
          /\ \A p \in 1..(Len(io) + Len(wire')) :
               Stream'[p] = IF p <= Len(io) THEN io[p] ELSE wire'[p - Len(io)]
      BY <1>6, <1>7, <3>1, ConcatProperties
    <3>3. ASSUME NEW p \in 1..Len(Stream') PROVE Stream'[p] = Stream[p]
      <4>1. CASE p <= Len(io)
        BY <1>7, <1>8, <3>2, <4>1
      <4>2. CASE ~(p <= Len(io))
        <5>1. p - Len(io) \in 1..Len(wire') /\ Len(io) + (p - Len(io)) = p
          BY <1>8, <3>2, <4>2
        <5> QED
          BY <1>8, <3>2, <4>2, <5>1
      <4> QED
        BY <4>1, <4>2
    <3> QED
      BY <1>1, <1>8, <3>2, <3>3, StreamType, SeqEqual
  <2>4. StreamInv'
    BY <1>1, <2>1, <2>3 DEF StreamInv, Consecutive, Continues, Unbroken, Size
  <2>5. HandlersSeeTheirRequest' /\ LateInv' /\ NoReplyLost' /\ WaitingInv'
    BY <1>1, <2>1, RepliesKept
  <2> QED
    BY <2>2, <2>4, <2>5 DEF ConnInv
<1> QED
  BY <1>9, <1>10

(* mg_write_to_socket moves pieces from the buffer to the client.          *)
LEMMA WriteKeepsInv ==
  ASSUME ConnInv, NEW n \in 1..Len(send), Write(n)
  PROVE  ConnInv'
<1>1. ConnTypeOK
  BY DEF ConnInv
<1>2. CASE side = "reset"
  <2>1. /\ UNCHANGED <<got, send, client, wire, writable, recv, rcvd, open, handled, late,
                       written, undefined>>
        /\ phase' = "close" /\ flags' = flags \cup {"CLOSE_IMMEDIATELY"}
    BY <1>2 DEF Write
  <2>2. writable' \in BOOLEAN /\ flags' \subseteq {"CLOSE_IMMEDIATELY", "SEND_AND_CLOSE"}
    BY <1>1, <2>1 DEF ConnTypeOK
  <2> QED
    BY <2>1, <2>2, IdleKeepsInv
<1>3. CASE side # "reset"
  <2>1. PICK a, b : a = SubSeq(send, 1, n) /\ b = SubSeq(send, n + 1, Len(send))
    OBVIOUS
  <2>2. /\ got' = got \o a /\ send' = b /\ phase' = "close"
        /\ UNCHANGED <<sent, piped, side, wire, writable, recv, rcvd, flags, open, handled,
                       late, written, undefined>>
    BY <1>3, <2>1 DEF Write, client
  <2>3. /\ got \in Seq(ReplyPiece) /\ send \in Seq(ReplyPiece)
        /\ a \in Seq(ReplyPiece) /\ b \in Seq(ReplyPiece)
    <3>1. got \in Seq(ReplyPiece) /\ send \in Seq(ReplyPiece)
      BY <1>1 DEF ConnTypeOK
    <3> QED
      BY <2>1, <3>1
  <2>4. a \o b = send
    <3>1. 1 \in 1..(Len(send) + 1) /\ n \in (1 - 1)..Len(send) /\ Len(send) \in n..Len(send)
      BY <2>3
    <3>2. SubSeq(send, 1, n) \o SubSeq(send, n + 1, Len(send)) = SubSeq(send, 1, Len(send))
      BY <2>3, <3>1, ConcatAdjacentSubSeq
    <3> QED
      BY <2>1, <2>3, <3>2, SubSeqFull
  <2>5. ToSet(got') = ToSet(got) \cup ToSet(a) /\ ToSet(send) = ToSet(a) \cup ToSet(send')
    <3>1. ToSet(got \o a) = ToSet(got) \cup ToSet(a)
      BY <2>3, ToSetConcat, Zenon
    <3>2. ToSet(a \o b) = ToSet(a) \cup ToSet(b)
      BY <2>3, ToSetConcat, Zenon
    <3> QED
      BY <2>2, <2>4, <3>1, <3>2
  <2>6. got' \o send' = got \o send
    <3>1. \A s, u, v \in Seq(ReplyPiece) : (s \o u) \o v = s \o (u \o v)
      BY ConcatAssociative
    <3>2. (got \o a) \o b = got \o (a \o b)
      BY <2>3, <3>1
    <3> QED
      BY <2>2, <2>4, <3>2
  <2>7. got' \in Seq(ReplyPiece) /\ send' \in Seq(ReplyPiece)
    BY <2>2, <2>3, ConcatProperties
  <2>8. ConnTypeOK'
    BY <1>1, <2>2, <2>7 DEF ConnTypeOK
  <2>9. StreamInv'
    BY <2>2 DEF ConnInv, StreamInv, Consecutive, Continues, Unbroken, Stream, Size
  <2>10. HandlersSeeTheirRequest'
    <3>1. ASSUME NEW k PROVE Body(k)' = Body(k)
      BY <2>2 DEF Body
    <3> QED
      BY <2>2, <3>1 DEF ConnInv, HandlersSeeTheirRequest
  <2>11. LateInv' /\ NoReplyLost'
    BY <2>2, <2>5 DEF ConnInv, LateInv, NoReplyLost, OnlyHandled
  <2>12. WaitingInv'
    <3>1. Pending' = Pending /\ Answers(written)' = Answers(written)
      BY <2>2 DEF Pending, Answers
    <3> QED
      BY <2>2, <2>6, <3>1 DEF ConnInv, WaitingInv
  <2> QED
    BY <2>8, <2>9, <2>10, <2>11, <2>12 DEF ConnInv
<1> QED
  BY <1>2, <1>3

(* What both parts of a late reply leave alone.                            *)
LEMMA LateKeepsStream ==
  ASSUME ConnInv, UNCHANGED <<sent, piped, side, wire, recv, open, handled>>
  PROVE  StreamInv' /\ HandlersSeeTheirRequest'
<1>1. StreamInv'
  BY DEF ConnInv, StreamInv, Consecutive, Continues, Unbroken, Stream, Size
<1>2. ASSUME NEW k PROVE Body(k)' = Body(k)
  BY DEF Body
<1>3. HandlersSeeTheirRequest'
  BY <1>2 DEF ConnInv, HandlersSeeTheirRequest
<1> QED
  BY <1>1, <1>3

LEMMA LateHeadKeepsInv ==
  ASSUME ConnInv, NEW i \in 1..Len(sent), LateHead(i)
  PROVE  ConnInv'
<1>1. /\ ConnTypeOK /\ LateInv /\ NoReplyLost /\ WaitingInv
      /\ UNCHANGED <<sent, piped, side, wire, got, phase, writable, recv, rcvd, flags,
                     open, handled>>
  BY DEF ConnInv, LateHead, Late, client, server
<1>2. PICK h, b : h = <<i, "head">> /\ b = <<i, "body">>
  OBVIOUS
<1>3. h \in late /\ late' = (late \ {h}) \cup {b}
  BY <1>2 DEF LateHead, Late
<1>4. /\ late \subseteq ReplyPiece /\ h \in ReplyPiece /\ b \in ReplyPiece /\ h # b
      /\ got \in Seq(ReplyPiece) /\ send \in Seq(ReplyPiece)
      /\ written \in Seq(1..Len(sent)) /\ written \in Seq(Nat) /\ i \in Nat
      /\ h[1] = i /\ b[1] = i
  <2>1. late \subseteq ReplyPiece /\ got \in Seq(ReplyPiece) /\ send \in Seq(ReplyPiece)
    BY <1>1 DEF ConnTypeOK
  <2>2. h \in ReplyPiece /\ b \in ReplyPiece
    BY <1>2, <1>3, <2>1 DEF ReplyPiece
  <2>3. written \in Seq(1..Len(sent)) /\ 1..Len(sent) \subseteq Nat /\ i \in Nat
    BY <1>1 DEF ConnTypeOK
  <2>4. written \in Seq(Nat)
    BY <2>3, SeqMonotonic
  <2> QED
    BY <1>2, <2>1, <2>2, <2>3, <2>4
<1>5. /\ i \in 1..Len(handled) /\ b \notin ToSet(got) \cup ToSet(send)
      /\ b \notin late /\ i \notin ToSet(written)
  BY <1>1, <1>2, <1>3, <1>4 DEF LateInv, OnlyHandled
<1>6. StreamInv' /\ HandlersSeeTheirRequest'
  BY <1>1, LateKeepsStream
<1>7. \/ /\ open /\ undefined' = undefined
         /\ send' = Append(send, h) /\ written' = Append(written, i)
      \/ undefined' = TRUE /\ UNCHANGED <<send, written>>
  BY <1>2 DEF LateHead, Late
<1>8. /\ send' \in Seq(ReplyPiece) /\ written' \in Seq(1..Len(sent))
      /\ ToSet(send) \subseteq ToSet(send') /\ ToSet(send') \subseteq ToSet(send) \cup {h}
      /\ ToSet(written') \subseteq ToSet(written) \cup {i}
  <2>1. Append(send, h) = send \o << h >> /\ Append(send, h) \in Seq(ReplyPiece)
    BY <1>4, AppendIsConcat, AppendProperties
  <2>2. ToSet(send \o << h >>) = ToSet(send) \cup {h}
    BY <1>4, ToSetAppend
  <2>3. Append(written, i) = written \o << i >> /\ Append(written, i) \in Seq(1..Len(sent))
    BY <1>4, AppendIsConcat, AppendProperties
  <2>4. ToSet(written \o << i >>) = ToSet(written) \cup {i}
    <3>1. written \in Seq(Nat) /\ i \in Nat
      BY <1>4
    <3> QED
      BY <3>1, ToSetAppend
  <2> QED
    BY <1>4, <1>7, <2>1, <2>2, <2>3, <2>4
<1>9. ConnTypeOK'
  <2>1. late' \subseteq ReplyPiece /\ undefined' \in BOOLEAN
    BY <1>1, <1>3, <1>4, <1>7 DEF ConnTypeOK
  <2> QED
    BY <1>1, <1>8, <2>1 DEF ConnTypeOK
<1>10. LateInv'
  <2>1. OnlyHandled(ToSet(got))' /\ OnlyHandled(ToSet(send))' /\ OnlyHandled(late)'
    BY <1>1, <1>3, <1>4, <1>5, <1>8 DEF LateInv, OnlyHandled
  <2>2. ToSet(written') \subseteq 1..Len(handled)
    BY <1>1, <1>5, <1>8 DEF LateInv
  <2>3. ASSUME NEW r \in late'
        PROVE  <<r[1], "body">> \notin ToSet(got) \cup ToSet(send')
    <3>1. <<r[1], "body">> # h
      BY <1>2
    <3>2. <<r[1], "body">> \notin ToSet(got) \cup ToSet(send)
      BY <1>1, <1>2, <1>3, <1>4, <1>5 DEF LateInv
    <3> QED
      BY <1>8, <3>1, <3>2
  <2>4. ASSUME NEW j \in 1..Len(sent), <<j, "head">> \in late'
        PROVE  <<j, "body">> \notin late' /\ j \notin ToSet(written')
    <3>1. j # i /\ <<j, "head">> \in late /\ <<j, "body">> # b
      BY <1>2, <1>3, <2>4
    <3>2. <<j, "body">> \notin late /\ j \notin ToSet(written)
      BY <1>1, <3>1 DEF LateInv
    <3> QED
      BY <1>3, <1>8, <3>1, <3>2
  <2> QED
    BY <1>1, <2>1, <2>2, <2>3, <2>4 DEF LateInv
<1>11. NoReplyLost'
  <2> SUFFICES ASSUME open', ~undefined', NEW j \in 1..Len(handled')
               PROVE  \/ <<j, "body">> \in ToSet(got') \cup ToSet(send')
                      \/ \E p \in {"head", "body"} : <<j, p>> \in late'
    BY DEF NoReplyLost
  <2>1. open /\ ~undefined /\ j \in 1..Len(handled)
    BY <1>1, <1>7 DEF ConnTypeOK
  <2>2. \/ <<j, "body">> \in ToSet(got) \cup ToSet(send)
        \/ \E p \in {"head", "body"} : <<j, p>> \in late
    BY <1>1, <2>1 DEF NoReplyLost
  <2>3. CASE j = i
    BY <1>2, <1>3, <2>3
  <2>4. CASE j # i
    <3>1. \A p : <<j, p>> # h
      BY <1>2, <2>4
    <3> QED
      BY <1>1, <1>3, <1>8, <2>2, <3>1
  <2> QED
    BY <2>3, <2>4
<1>12. WaitingInv'
  <2> SUFFICES ASSUME ~piped PROVE WaitingInv'
    BY <1>1 DEF WaitingInv
  <2>1. i = Len(sent)
    BY <1>1, <1>3, <1>4 DEF WaitingInv
  <2>2. \A j, k \in 1..Len(written') : j < k => written'[j] < written'[k]
    <3>1. \A j, k \in 1..Len(written) : j < k => written[j] < written[k]
      BY <1>1 DEF WaitingInv
    <3>2. \A j \in 1..Len(written) : written[j] \in 1..Len(sent) /\ written[j] # i
      BY <1>4, <1>5, LenProperties DEF ToSet
    <3>3. written \in Seq(Nat) /\ i \in Nat
      BY <1>4
    <3>4. \A j \in 1..Len(written) : written[j] < i
      BY <2>1, <3>2
    <3> QED
      BY <1>7, <3>1, <3>3, <3>4, AppendRises
  <2>3. Len(sent') <= Len(handled') + 1 /\ \A r \in late' : r[1] = Len(sent')
    BY <1>1, <1>3, <1>4, <2>1 DEF WaitingInv
  <2>4. ASSUME ~undefined' PROVE (got' \o send') \o Pending' = Answers(written)'
    <3>1. send' = send \o << h >> /\ written' = Append(written, i) /\ ~undefined
      <4>1. Append(send, h) = send \o << h >>
        BY <1>4, AppendIsConcat
      <4> QED
        BY <1>7, <2>4, <4>1
    <3>2. Pending = << >> /\ Pending' = << b >>
      BY <1>1, <1>2, <1>3, <1>5, <2>1 DEF Pending
    <3>3. << h >> \in Seq(ReplyPiece) /\ got \o send \in Seq(ReplyPiece)
      BY <1>4, ConcatProperties
    <3>4. got \o send = Answers(written)
      BY <1>1, <3>1, <3>2, <3>3, ConcatEmptySeq DEF WaitingInv
    <3>5. got \o (send \o << h >>) = (got \o send) \o << h >>
      <4>1. \A s, u, v \in Seq(ReplyPiece) : (s \o u) \o v = s \o (u \o v)
        BY ConcatAssociative
      <4>2. got \in Seq(ReplyPiece) /\ send \in Seq(ReplyPiece) /\ << h >> \in Seq(ReplyPiece)
        BY <1>4, <3>3
      <4> QED
        BY <4>1, <4>2
    <3>6. Answers(Append(written, i)) = (Answers(written) \o << h >>) \o << b >>
      BY <1>2, <1>4, AnswersAppend
    <3>7. Answers(written)' = Answers(Append(written, i))
      BY <3>1 DEF Answers
    <3> QED
      BY <1>1, <3>1, <3>2, <3>4, <3>5, <3>6, <3>7
  <2> QED
    BY <2>2, <2>3, <2>4 DEF WaitingInv
<1> QED
  BY <1>6, <1>9, <1>10, <1>11, <1>12 DEF ConnInv

LEMMA LateBodyKeepsInv ==
  ASSUME ConnInv, NEW i \in 1..Len(sent), LateBody(i)
  PROVE  ConnInv'
<1>1. /\ ConnTypeOK /\ LateInv /\ NoReplyLost /\ WaitingInv
      /\ UNCHANGED <<sent, piped, side, wire, got, phase, writable, recv, rcvd, flags,
                     open, handled>>
  BY DEF ConnInv, LateBody, Late, client, server
<1>2. PICK h, b : h = <<i, "head">> /\ b = <<i, "body">>
  OBVIOUS
<1>3. b \in late /\ late' = late \ {b}
  BY <1>2 DEF LateBody, Late
<1>4. /\ late \subseteq ReplyPiece /\ b \in ReplyPiece /\ << b >> \in Seq(ReplyPiece)
      /\ got \in Seq(ReplyPiece) /\ send \in Seq(ReplyPiece) /\ h # b
  <2>1. late \subseteq ReplyPiece /\ got \in Seq(ReplyPiece) /\ send \in Seq(ReplyPiece)
    BY <1>1 DEF ConnTypeOK
  <2>2. b \in ReplyPiece
    BY <1>3, <2>1
  <2> QED
    BY <1>2, <2>1, <2>2
<1>5. /\ i \in 1..Len(handled) /\ b[1] = i /\ h \notin late
      /\ \A r \in late' : r[1] # i
  <2>1. b[1] = i /\ h \notin late
    BY <1>1, <1>2, <1>3 DEF LateInv
  <2>2. ASSUME NEW r \in late, r[1] = i PROVE r = h \/ r = b
    BY <1>2, <1>4, <2>2 DEF ReplyPiece
  <2> QED
    BY <1>1, <1>3, <2>1, <2>2 DEF LateInv, OnlyHandled
<1>6. StreamInv' /\ HandlersSeeTheirRequest'
  BY <1>1, LateKeepsStream
<1>7. /\ UNCHANGED written
      /\ \/ open /\ undefined' = undefined /\ send' = Append(send, b)
         \/ undefined' = TRUE /\ send' = send
  BY <1>2 DEF LateBody, Late
<1>8. /\ send' \in Seq(ReplyPiece) /\ ToSet(send) \subseteq ToSet(send')
      /\ ToSet(send') \subseteq ToSet(send) \cup {b}
      /\ send' = Append(send, b) => b \in ToSet(send') /\ send' = send \o << b >>
  <2>1. Append(send, b) = send \o << b >> /\ Append(send, b) \in Seq(ReplyPiece)
    BY <1>4, AppendIsConcat, AppendProperties
  <2>2. ToSet(send \o << b >>) = ToSet(send) \cup {b}
    BY <1>4, ToSetAppend
  <2> QED
    BY <1>4, <1>7, <2>1, <2>2
<1>9. ConnTypeOK'
  <2>1. late' \subseteq ReplyPiece /\ undefined' \in BOOLEAN
    BY <1>1, <1>3, <1>4, <1>7 DEF ConnTypeOK
  <2> QED
    BY <1>1, <1>7, <1>8, <2>1 DEF ConnTypeOK
<1>10. LateInv'
  <2>1. OnlyHandled(ToSet(got))' /\ OnlyHandled(ToSet(send))' /\ OnlyHandled(late)'
    BY <1>1, <1>3, <1>5, <1>8 DEF LateInv, OnlyHandled
  <2>2. ASSUME NEW r \in late'
        PROVE  <<r[1], "body">> \notin ToSet(got) \cup ToSet(send')
    <3>1. <<r[1], "body">> # b
      BY <1>2, <1>5
    <3>2. <<r[1], "body">> \notin ToSet(got) \cup ToSet(send)
      BY <1>1, <1>3 DEF LateInv
    <3> QED
      BY <1>8, <3>1, <3>2
  <2> QED
    BY <1>1, <1>3, <1>7, <2>1, <2>2 DEF LateInv
<1>11. NoReplyLost'
  <2> SUFFICES ASSUME open', ~undefined', NEW j \in 1..Len(handled')
               PROVE  \/ <<j, "body">> \in ToSet(got') \cup ToSet(send')
                      \/ \E p \in {"head", "body"} : <<j, p>> \in late'
    BY DEF NoReplyLost
  <2>1. open /\ ~undefined /\ j \in 1..Len(handled) /\ b \in ToSet(send')
    BY <1>1, <1>7, <1>8 DEF ConnTypeOK
  <2>2. \/ <<j, "body">> \in ToSet(got) \cup ToSet(send)
        \/ \E p \in {"head", "body"} : <<j, p>> \in late
    BY <1>1, <2>1 DEF NoReplyLost
  <2>3. CASE j = i
    BY <1>2, <2>1, <2>3
  <2>4. CASE j # i
    <3>1. \A p : <<j, p>> # b
      BY <1>2, <2>4
    <3> QED
      BY <1>1, <1>3, <1>8, <2>2, <3>1
  <2> QED
    BY <2>3, <2>4
<1>12. WaitingInv'
  <2> SUFFICES ASSUME ~piped PROVE WaitingInv'
    BY <1>1 DEF WaitingInv
  <2>1. i = Len(sent)
    BY <1>1, <1>3, <1>5 DEF WaitingInv
  <2>2. ASSUME ~undefined' PROVE (got' \o send') \o Pending' = Answers(written)'
    <3>1. send' = send \o << b >> /\ ~undefined
      BY <1>7, <1>8, <2>2
    <3>2. Pending = << b >> /\ Pending' = << >>
      BY <1>1, <1>2, <1>3, <2>1 DEF Pending
    <3>3. got \o (send \o << b >>) = (got \o send) \o << b >>
      <4>1. \A S : \A s1, s2, s3 \in Seq(S) : (s1 \o s2) \o s3 = s1 \o (s2 \o s3)
        BY ConcatAssociative
      <4>2. got \in Seq(ReplyPiece) /\ send \in Seq(ReplyPiece) /\ << b >> \in Seq(ReplyPiece)
        BY <1>4
      <4> QED
        BY <4>1, <4>2
    <3>4. got \o send' \in Seq(ReplyPiece)
      BY <1>4, <1>8, ConcatProperties
    <3>5. (got \o send') \o << >> = got \o send'
      BY <3>4, ConcatEmptySeq
    <3>6. Answers(written)' = Answers(written)
      BY <1>7 DEF Answers
    <3>7. (got \o send) \o Pending = Answers(written)
      BY <1>1, <3>1 DEF WaitingInv
    <3> QED
      BY <1>1, <3>1, <3>2, <3>3, <3>5, <3>6, <3>7
  <2>3. /\ Len(sent') <= Len(handled') + 1 /\ \A r \in late' : r[1] = Len(sent')
        /\ \A j, k \in 1..Len(written') : j < k => written'[j] < written'[k]
    BY <1>1, <1>3, <1>7 DEF WaitingInv
  <2> QED
    BY <2>2, <2>3 DEF WaitingInv
<1> QED
  BY <1>6, <1>9, <1>10, <1>11, <1>12 DEF ConnInv

LEMMA TurnKeepsInv == ConnInv /\ Turn => ConnInv'
<1> SUFFICES ASSUME ConnInv, Turn PROVE ConnInv'
  OBVIOUS
<1>1. ConnTypeOK
  BY DEF ConnInv
<1>2. ASSUME NEW n \in 1..Len(wire), Receive(n) PROVE ConnInv'
  BY <1>2, ReceiveKeepsInv
<1>3. CASE ReceiveEnd
  <2>1. /\ UNCHANGED <<client, wire, got, recv, rcvd, send, open, handled, late, written,
                       undefined>>
        /\ phase' = "write" /\ writable' \in BOOLEAN
        /\ flags' \subseteq {"CLOSE_IMMEDIATELY", "SEND_AND_CLOSE"}
    BY <1>1, <1>3 DEF ReceiveEnd, Select, ConnTypeOK
  <2> QED
    BY <2>1, IdleKeepsInv
<1>4. CASE ReceiveNothing
  <2>1. /\ UNCHANGED <<client, wire, got, recv, rcvd, send, open, handled, late, written,
                       undefined>>
        /\ phase' = "write" /\ writable' \in BOOLEAN
        /\ flags' \subseteq {"CLOSE_IMMEDIATELY", "SEND_AND_CLOSE"}
    BY <1>1, <1>4 DEF ReceiveNothing, Select, ConnTypeOK
  <2> QED
    BY <2>1, IdleKeepsInv
<1>5. ASSUME NEW n \in 1..Len(send), Write(n) PROVE ConnInv'
  BY <1>5, WriteKeepsInv
<1>6. CASE WriteNothing \/ KeepOpen
  <2>1. /\ UNCHANGED <<client, wire, got, recv, rcvd, send, open, handled, late, written,
                       undefined>>
        /\ phase' \in {"poll", "close"} /\ writable' \in BOOLEAN
        /\ flags' \subseteq {"CLOSE_IMMEDIATELY", "SEND_AND_CLOSE"}
    BY <1>1, <1>6 DEF WriteNothing, KeepOpen, server, ConnTypeOK
  <2> QED
    BY <2>1, IdleKeepsInv
<1>7. CASE CloseConn
  BY <1>7, CloseKeepsInv
<1> QED
  BY <1>2, <1>3, <1>4, <1>5, <1>6, <1>7 DEF Turn, Poll, Flush

LEMMA NextKeepsInv == ConnInv /\ [Next]_vars => ConnInv'
<1> SUFFICES ASSUME ConnInv, [Next]_vars PROVE ConnInv'
  OBVIOUS
<1>1. ConnTypeOK
  BY DEF ConnInv
<1>2. ASSUME NEW k \in Kinds, SendRequest(k) PROVE ConnInv'
  BY <1>2, SendKeepsInv
<1>3. CASE HalfClose
  <2>1. PICK n \in 0..Len(wire) : wire' = SubSeq(wire, 1, n)
    BY <1>3 DEF HalfClose
  <2>2. /\ open /\ side' = "finished"
        /\ UNCHANGED <<sent, piped, server, got, phase, writable, send, late, written, undefined>>
    BY <1>3 DEF HalfClose
  <2> QED
    BY <2>1, <2>2, CutKeepsInv
<1>4. CASE Reset
  <2>1. 0 \in 0..Len(wire) /\ wire' = SubSeq(wire, 1, 0)
    BY <1>1, <1>4 DEF Reset, ConnTypeOK
  <2>2. /\ open /\ side' = "reset"
        /\ UNCHANGED <<sent, piped, server, got, phase, writable, send, late, written, undefined>>
    BY <1>4 DEF Reset
  <2> QED
    BY <2>1, <2>2, CutKeepsInv
<1>5. CASE Turn
  BY <1>5, TurnKeepsInv
<1>6. CASE Reply
  BY <1>6, LateHeadKeepsInv, LateBodyKeepsInv DEF Reply
<1>7. CASE UNCHANGED vars
  <2>1. /\ UNCHANGED <<client, wire, got, recv, rcvd, send, open, handled, late, written,
                       undefined>>
        /\ UNCHANGED <<phase, writable, flags>>
    BY <1>7 DEF vars, server
  <2>2. /\ phase' \in {"poll", "write", "close"} /\ writable' \in BOOLEAN
        /\ flags' \subseteq {"CLOSE_IMMEDIATELY", "SEND_AND_CLOSE"}
    BY <1>1, <2>1 DEF ConnTypeOK
  <2> QED
    BY <2>1, <2>2, IdleKeepsInv
<1> QED
  BY <1>2, <1>3, <1>4, <1>5, <1>6, <1>7 DEF Next

-----------------------------------------------------------------------------
(* The invariant: what is before the server is what it has not yet handed  *)
(* to a handler, and what it has answered is in one place, in order.       *)
THEOREM ConnInvariant == Spec => []ConnInv
<1> QED
  BY InitInv, NextKeepsInv, PTL DEF Spec

(* Every variable has its type; each request is handled once at most.      *)
THEOREM ConnTypes == Spec => []ConnTypeOK
<1>1. ConnInv => ConnTypeOK
  BY DEF ConnInv
<1> QED
  BY <1>1, ConnInvariant, PTL

(* mg_http_handler and deliver_chunk: handlers are called once for each    *)
(* request, in order, with the body of their own, however the bytes come.  *)
THEOREM HandlersServeInOrder == Spec => []HandlersSeeTheirRequest
<1>1. ConnInv => HandlersSeeTheirRequest
  BY DEF ConnInv
<1> QED
  BY <1>1, ConnInvariant, PTL

LEMMA InvRepliesInOrder == ConnInv => RepliesInOrder
<1> SUFFICES ASSUME ConnInv, ~piped, ~undefined
             PROVE  /\ IsPrefix(got, Answers(written))
                    /\ \A k \in 1..Len(written) : written[k] <= Len(sent)
                    /\ \A j, k \in 1..Len(written) : j < k => written[j] < written[k]
  BY DEF RepliesInOrder
<1>1. /\ got \in Seq(ReplyPiece) /\ send \in Seq(ReplyPiece) /\ late \subseteq ReplyPiece
      /\ written \in Seq(1..Len(sent)) /\ Len(sent) \in Nat
  BY DEF ConnInv, ConnTypeOK
<1>2. PICK rest : rest = send \o Pending
  OBVIOUS
<1>3. Pending \in Seq(ReplyPiece)
  <2>1. ASSUME NEW r \in ReplyPiece PROVE << r >> \in Seq(ReplyPiece)
    BY Pair
  <2> QED
    BY <1>1, <2>1, EmptySeq DEF Pending
<1>4. rest \in Seq(ReplyPiece) /\ got \o rest = Answers(written)
  <2>1. \A s, u, v \in Seq(ReplyPiece) : (s \o u) \o v = s \o (u \o v)
    BY ConcatAssociative
  <2>2. (got \o send) \o Pending = got \o (send \o Pending)
    BY <1>1, <1>3, <2>1
  <2> QED
    BY <1>1, <1>2, <1>3, <2>2, ConcatProperties DEF ConnInv, WaitingInv
<1>5. IsPrefix(got, got \o rest)
  <2>1. Len(got) \in Nat /\ Len(got \o rest) = Len(got) + Len(rest) /\ Len(rest) \in Nat
    BY <1>1, <1>4, ConcatProperties
  <2>2. SubSeq(got \o rest, 1, Len(got)) = SubSeq(got, 1, Len(got))
    BY <1>1, <1>4, <2>1
  <2> QED
    BY <2>1, <2>2 DEF IsPrefix
<1>6. \A k \in 1..Len(written) : written[k] <= Len(sent)
  BY <1>1
<1>7. \A j, k \in 1..Len(written) : j < k => written[j] < written[k]
  BY DEF ConnInv, WaitingInv
<1> QED
  BY <1>4, <1>5, <1>6, <1>7

(* mg_send and the thread of the event loop: a client that waits for each  *)
(* reply gets the replies to its requests, whole and in order.             *)
THEOREM RepliesComeInOrder == Spec => []RepliesInOrder
<1> QED
  BY ConnInvariant, InvRepliesInOrder, PTL

(* mg_mgr_handle_conn, SEND_AND_CLOSE: what was written has gone out when  *)
(* a connection is closed for which the client has shut down its side.     *)
THEOREM ClosesGracefully == Spec => GracefulClose
<1> DEFINE A == (open /\ ~open' /\ side # "reset" /\ ~undefined
                   /\ "CLOSE_IMMEDIATELY" \notin flags)
                  => \A k \in 1..Len(handled) :
                       Answered(k) \/ \E p \in {"head", "body"} : <<k, p>> \in late
<1>1. ConnInv /\ [Next]_vars => [A]_vars
  <2> SUFFICES ASSUME ConnInv, [Next]_vars, open, ~open', side # "reset", ~undefined,
                      "CLOSE_IMMEDIATELY" \notin flags, NEW k \in 1..Len(handled)
               PROVE  Answered(k) \/ \E p \in {"head", "body"} : <<k, p>> \in late
    OBVIOUS
  <2>1. CloseConn
    BY DEF Next, SendRequest, HalfClose, Reset, Turn, Poll, Flush, Receive, ReceiveEnd,
      ReceiveNothing, Select, Write, WriteNothing, KeepOpen, Reply, LateHead, LateBody, Late,
      vars, server
  <2>2. send = << >>
    BY <2>1 DEF CloseConn, Doomed
  <2>3. ToSet(send) = {}
    BY <2>2 DEF ToSet
  <2> QED
    BY <2>3 DEF ConnInv, NoReplyLost, Answered
<1> QED
  BY <1>1, ConnInvariant, PTL DEF Spec, GracefulClose

=============================================================================
