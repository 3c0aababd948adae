----------------------------- MODULE Connection -----------------------------
(***************************************************************************)
(* One keep-alive connection as mongoose serves it for the server          *)
(* (src/web/mongoose.c): a turn of mg_mgr_poll reads what has come into    *)
(* recv_mbuf, lets mg_http_handler take one request from it, writes from   *)
(* send_mbuf and closes what is to be closed.  The reply to a blocking run *)
(* is put into send_mbuf by another thread, in two pieces, at any time.    *)
(*                                                                         *)
(* The unit of transport is a piece of a request or of a reply.  What is   *)
(* not modelled: chunked bodies, websockets, allocation failures.          *)
(***************************************************************************)
EXTENDS Integers, Sequences, SequencesExt, FiniteSets

CONSTANTS Kinds,        \* the requests a client may send
          MaxRequests,  \* bound: how many it sends on this connection
          MaxHead       \* MG_MAX_HTTP_REQUEST_SIZE, in pieces

(* head and body are numbers of pieces; declared: the length of the body   *)
(* is known, by Content-Length or as there is none; bad: the request line  *)
(* has no three words; blocking: answered when the run has ended.          *)
Kind == [head : Nat \ {0}, body : Nat, declared : BOOLEAN,
         bad : BOOLEAN, blocking : BOOLEAN]

ASSUME ConnectionConstants ==
  /\ Kinds \subseteq Kind
  /\ {MaxRequests, MaxHead} \subseteq Nat

VARIABLES sent,       \* the kinds of the requests the client has sent
          piped,      \* it has sent one while another was not answered
          side,       \* the client's side: "open", "finished" or "reset"
          wire,       \* pieces on their way to the server
          got,        \* pieces of replies the client has
          phase,      \* of the poll: "poll", "write" or "close"
          writable,   \* select: there is something to write, and room
          recv,       \* nc->recv_mbuf
          rcvd,       \* pd->rcvd
          send,       \* nc->send_mbuf
          flags,      \* nc->flags, the two that close the connection
          open,       \* nc is allocated
          handled,    \* the calls of the request handler
          late,       \* replies that another thread has to write
          written,    \* the requests whose replies were put into send_mbuf
          undefined   \* two threads used nc or its buffer at a time

client == <<sent, piped, side>>
server == <<recv, rcvd, flags, open, handled>>
vars == <<client, server, wire, got, phase, writable, send, late, written,
          undefined>>

Request(i) == [k \in 1..(sent[i].head + sent[i].body) |-> <<i, k>>]
Body(i) == [k \in 1..sent[i].body |-> <<i, sent[i].head + k>>]
Answer(i) == << <<i, "head">>, <<i, "body">> >>
Answers(s) ==
  [k \in 1..(2 * Len(s)) |->
     <<s[(k + 1) \div 2], IF k % 2 = 1 THEN "head" ELSE "body">>]
Answered(i) == <<i, "body">> \in ToSet(got)

Init ==
  /\ sent = << >> /\ piped = FALSE /\ side = "open" /\ wire = << >> /\ got = << >>
  /\ phase = "poll" /\ writable = FALSE
  /\ recv = << >> /\ rcvd = 0 /\ send = << >> /\ flags = {} /\ open = TRUE
  /\ handled = << >> /\ late = {} /\ written = << >> /\ undefined = FALSE

-----------------------------------------------------------------------------
(* The client.  It may wait for each reply, or not; it may shut down its   *)
(* side of the connection, in the middle of a request even, or vanish.     *)
SendRequest(k) ==
  /\ side = "open" /\ open /\ Len(sent) < MaxRequests
  /\ sent' = Append(sent, k)
  /\ piped' = (piped \/ \E i \in 1..Len(sent) : ~Answered(i))
  /\ wire' = wire \o [j \in 1..(k.head + k.body) |-> <<Len(sent) + 1, j>>]
  /\ UNCHANGED <<side, server, got, phase, writable, send, late, written, undefined>>

HalfClose ==
  /\ side = "open" /\ open
  /\ side' = "finished"
  /\ \E n \in 0..Len(wire) : wire' = SubSeq(wire, 1, n)
  /\ UNCHANGED <<sent, piped, server, got, phase, writable, send, late, written,
                 undefined>>

Reset ==
  /\ side # "reset" /\ open
  /\ side' = "reset" /\ wire' = << >>
  /\ UNCHANGED <<sent, piped, server, got, phase, writable, send, late, written,
                 undefined>>

-----------------------------------------------------------------------------
(* mg_parse_http: the request at the front of a buffer, its head complete  *)
First(io) == sent[io[1][1]]
HeadComplete(io) == io # << >> /\ Len(io) >= First(io).head
Parsed(io) == HeadComplete(io) /\ ~First(io).bad
Refused(io) ==
  IF HeadComplete(io) THEN First(io).bad ELSE Len(io) >= MaxHead
Length(io) == First(io).head + First(io).body

(* The request handler is called for the request at the front; its body    *)
(* is, by deliver_chunk, whatever the buffer holds behind the head.  The   *)
(* reply to a blocking run is left to another thread.                      *)
Call(io, closing) ==
  LET i == io[1][1]
  IN  /\ handled' = Append(handled,
           [request |-> i, closing |-> closing,
            body |-> SubSeq(io, First(io).head + 1, Len(io))])
      /\ IF First(io).blocking
         THEN late' = late \cup {<<i, "head">>} /\ UNCHANGED <<send, written>>
         ELSE /\ send' = send \o Answer(i)
              /\ written' = Append(written, i)
              /\ UNCHANGED late

(* MG_EV_RECV after n pieces were appended: one request is taken, if it is *)
(* complete, and rest and count is what becomes of the buffer and of rcvd. *)
Taken(io, n, complete, rest, count) ==
  IF Parsed(io) /\ First(io).declared /\ complete
  THEN Call(io, FALSE) /\ recv' = rest /\ rcvd' = count /\ UNCHANGED flags
  ELSE /\ recv' = io /\ rcvd' = rcvd + n
       /\ flags' = flags \cup (IF Refused(io) THEN {"CLOSE_IMMEDIATELY"} ELSE {})
       /\ UNCHANGED <<handled, late, send, written>>

(* mbuf_remove of the message *)
Rest(io) == IF Length(io) <= Len(io) THEN SubSeq(io, Length(io) + 1, Len(io)) ELSE io

\* Mutants: the head is enough; one piece more is waited for.
TakeRequest_HeadOnly(io, n) == Taken(io, n, TRUE, Rest(io), 0)
TakeRequest_WaitsForMore(io, n) == Taken(io, n, Length(io) < rcvd + n, Rest(io), 0)

(* A request is complete when as many pieces were counted since the last   *)
(* one was taken, whatever was in the buffer before.                       *)
TakeRequest(io, n) == Taken(io, n, Length(io) <= rcvd + n, Rest(io), 0)

(* mg_socket_if_poll: select, then mg_handle_tcp_read *)
Select(read) ==
  /\ open /\ phase = "poll"
  /\ phase' = "write"
  /\ writable' \in {FALSE, send # << >>}
  /\ read
  /\ UNCHANGED <<client, got, open, undefined>>

Receive(n) ==
  Select(/\ n \in 1..Len(wire)
         /\ wire' = SubSeq(wire, n + 1, Len(wire))
         /\ TakeRequest(recv \o SubSeq(wire, 1, n), n))

ReceiveEnd ==
  Select(/\ wire = << >> /\ side # "open"
         /\ flags' = flags \cup {IF side = "reset" THEN "CLOSE_IMMEDIATELY"
                                                   ELSE "SEND_AND_CLOSE"}
         /\ UNCHANGED <<wire, recv, rcvd, handled, late, send, written>>)

ReceiveNothing ==
  Select(/\ wire = << >> /\ side = "open"
         /\ UNCHANGED <<wire, flags, recv, rcvd, handled, late, send, written>>)

\* Mutant: off by one, the last piece written stays in the buffer.
Write_KeepsLast(n) ==
  /\ open /\ phase = "write" /\ writable /\ "CLOSE_IMMEDIATELY" \notin flags
  /\ phase' = "close" /\ n \in 1..Len(send)
  /\ got' = got \o SubSeq(send, 1, n)
  /\ send' = SubSeq(send, n, Len(send))
  /\ UNCHANGED <<client, server, wire, writable, late, written, undefined>>

(* mg_mgr_handle_conn, mg_write_to_socket, mg_if_sent_cb *)
Write(n) ==
  /\ open /\ phase = "write" /\ writable /\ "CLOSE_IMMEDIATELY" \notin flags
  /\ phase' = "close"
  /\ IF side = "reset"
     THEN flags' = flags \cup {"CLOSE_IMMEDIATELY"} /\ UNCHANGED <<got, send>>
     ELSE /\ n \in 1..Len(send)
          /\ got' = got \o SubSeq(send, 1, n)
          /\ send' = SubSeq(send, n + 1, Len(send))
          /\ UNCHANGED flags
  /\ UNCHANGED <<client, wire, writable, recv, rcvd, open, handled, late, written,
                 undefined>>

WriteNothing ==
  /\ open /\ phase = "write" /\ (writable => "CLOSE_IMMEDIATELY" \in flags)
  /\ phase' = "close"
  /\ UNCHANGED <<client, server, wire, got, writable, send, late, written, undefined>>

\* Mutant: the last replies are not flushed.
Doomed_Hasty == flags # {}

Doomed ==
  "CLOSE_IMMEDIATELY" \in flags \/ ("SEND_AND_CLOSE" \in flags /\ send = << >>)

KeepOpen ==
  /\ open /\ phase = "close" /\ ~Doomed
  /\ phase' = "poll"
  /\ UNCHANGED <<client, server, wire, got, writable, send, late, written, undefined>>

(* mg_close_conn: MG_EV_CLOSE has the handler called for the request at    *)
(* the front, with what there is of it; then both buffers are freed.       *)
CloseConn ==
  /\ open /\ phase = "close" /\ Doomed
  /\ open' = FALSE /\ phase' = "poll" /\ rcvd' = 0
  /\ IF Parsed(recv) THEN Call(recv, TRUE) ELSE UNCHANGED <<handled, late, send, written>>
  /\ UNCHANGED <<client, wire, got, writable, recv, flags, undefined>>

-----------------------------------------------------------------------------
(* The callback of a blocking run, in the thread of the event loop:        *)
(* mg_send_head, then mg_printf.  If the server's thread uses the buffer   *)
(* at that time, or the connection is gone, anything may be lost.          *)
Late(i, piece, rest) ==
  /\ <<i, piece>> \in late
  /\ late' = (late \ {<<i, piece>>}) \cup rest
  /\ \/ /\ open
        /\ send' = Append(send, <<i, piece>>)
        /\ written' = (IF piece = "head" THEN Append(written, i) ELSE written)
        /\ UNCHANGED undefined
     \/ undefined' = TRUE /\ UNCHANGED <<send, written>>
  /\ UNCHANGED <<client, server, wire, got, phase, writable>>

LateHead(i) == Late(i, "head", {<<i, "body">>})
LateBody(i) == Late(i, "body", {})

Poll == (\E n \in 1..Len(wire) : Receive(n)) \/ ReceiveEnd \/ ReceiveNothing
Flush == \E n \in 1..Len(send) : Write(n)
Turn == Poll \/ Flush \/ WriteNothing \/ KeepOpen \/ CloseConn
Reply == \E i \in 1..Len(sent) : LateHead(i) \/ LateBody(i)

Next ==
  \/ \E k \in Kinds : SendRequest(k)
  \/ HalfClose
  \/ Reset
  \/ Turn
  \/ Reply

(* The server's thread goes round for ever, the code of runs returns, and  *)
(* a client that stays reads what it is sent.                              *)
Fairness == WF_vars(Turn) /\ WF_vars(Reply) /\ SF_vars(Poll /\ writable')
Spec == Init /\ [][Next]_vars /\ Fairness

-----------------------------------------------------------------------------
Piece == (1..MaxRequests) \X Nat
ReplyPiece == (1..MaxRequests) \X {"head", "body"}
Called == [request : Nat, closing : BOOLEAN, body : Seq(Piece)]
Sides == {"open", "finished", "reset"}

(* Every variable has its type; a handler is called once for a request at  *)
(* most, and only requests that were sent are answered.                    *)
ConnTypeOK ==
  /\ sent \in Seq(Kinds) /\ Len(sent) <= MaxRequests
  /\ {piped, open, writable, undefined} \subseteq BOOLEAN
  /\ side \in Sides /\ phase \in {"poll", "write", "close"}
  /\ {wire, recv} \subseteq Seq(Piece) /\ {got, send} \subseteq Seq(ReplyPiece)
  /\ rcvd \in 0..Len(recv) /\ flags \subseteq {"CLOSE_IMMEDIATELY", "SEND_AND_CLOSE"}
  /\ late \subseteq ReplyPiece
  /\ handled \in Seq(Called) /\ Len(handled) <= Len(sent)
  /\ written \in Seq(1..Len(sent))

(* Requests are handled once and in order.  As long as the connection is   *)
(* not being closed a handler has all of its body; and if the client waits *)
(* for its replies, nothing else: the next request is never taken for a    *)
(* part of the body.                                                       *)
HandlersSeeTheirRequest ==
  \A k \in 1..Len(handled) :
    LET h == handled[k]
    IN  /\ h.request = k
        /\ ~h.closing => IsPrefix(Body(k), h.body)
        /\ ~h.closing /\ ~piped => h.body = Body(k)

(* The bytes a client gets are those of the replies, in the order they     *)
(* were written, whole and without anything between them, if it waits for  *)
(* each reply before it sends the next request; and they are then the      *)
(* replies to its requests in the order of these.                          *)
RepliesInOrder ==
  ~piped /\ ~undefined =>
    /\ IsPrefix(got, Answers(written))
    /\ \A k \in 1..Len(written) : written[k] <= Len(sent)
    /\ \A j, k \in 1..Len(written) : j < k => written[j] < written[k]

(* A connection that closes because the client has shut down its side is   *)
(* closed after all replies that were written have gone out; only those to *)
(* blocking runs that have not ended are given up.                         *)
GracefulClose ==
  [][(open /\ ~open' /\ side # "reset" /\ ~undefined /\ "CLOSE_IMMEDIATELY" \notin flags)
       => \A k \in 1..Len(handled) :
            Answered(k) \/ \E p \in {"head", "body"} : <<k, p>> \in late]_vars

(* What the proofs need.  The server has before it, received or on its     *)
(* way, what was sent after the last request that a handler was called     *)
(* for, without a gap; nothing after it is missing while the client's side *)
(* is open.                                                                *)
Stream == recv \o wire
Size(i) == sent[i].head + sent[i].body

(* From p on, s has the pieces of request i from k on, and then those of   *)
(* the next request.                                                       *)
Continues(s, p, i, k) ==
  /\ i \in 1..Len(sent) /\ k \in 1..Size(i)
  /\ \A q \in p..Len(s) : q - p <= Size(i) - k => s[q] = <<i, k + q - p>>
  /\ p + Size(i) - k + 1 <= Len(s) => s[p + Size(i) - k + 1] = <<i + 1, 1>>

Consecutive(s) == \A p \in 1..Len(s) : Continues(s, p, s[p][1], s[p][2])

Unbroken(s) ==
  /\ s = << >> => Len(handled) = Len(sent)
  /\ \A p \in 1..Len(s) :
       LET last == p + Size(s[p][1]) - s[p][2]
       IN  last <= Len(s) /\ (last = Len(s) <=> s[p][1] = Len(sent))

StreamInv ==
  open => /\ Consecutive(Stream)
          /\ Stream # << >> => Stream[1] = <<Len(handled) + 1, 1>>
          /\ side = "open" => Unbroken(Stream)

(* Where the pieces of a reply are: each is in one place, or was lost.     *)
OnlyHandled(pieces) == \A r \in pieces : r[1] \in 1..Len(handled)
LateInv ==
  /\ OnlyHandled(ToSet(got)) /\ OnlyHandled(ToSet(send)) /\ OnlyHandled(late)
  /\ ToSet(written) \subseteq 1..Len(handled)
  /\ \A r \in late : <<r[1], "body">> \notin ToSet(got) \cup ToSet(send)
  /\ \A i \in 1..Len(sent) : <<i, "head">> \in late =>
       <<i, "body">> \notin late /\ i \notin ToSet(written)

NoReplyLost ==
  open /\ ~undefined =>
    \A i \in 1..Len(handled) :
      \/ <<i, "body">> \in ToSet(got) \cup ToSet(send)
      \/ \E p \in {"head", "body"} : <<i, p>> \in late

(* A client that waits has one request in the works at most, and the only  *)
(* part of a reply that can be missing is the body of the last one.        *)
Pending ==
  IF <<Len(sent), "body">> \in late THEN << <<Len(sent), "body">> >> ELSE << >>
WaitingInv ==
  ~piped =>
    /\ Len(sent) <= Len(handled) + 1
    /\ \A r \in late : r[1] = Len(sent)
    /\ \A j, k \in 1..Len(written) : j < k => written[j] < written[k]
    /\ ~undefined => (got \o send) \o Pending = Answers(written)

ConnInv ==
  /\ ConnTypeOK /\ StreamInv /\ HandlersSeeTheirRequest
  /\ LateInv /\ NoReplyLost /\ WaitingInv

(* The clients that StayingClientIsAnswered is about.                      *)
Behaves ==
  /\ side = "open" /\ ~piped /\ ~undefined
  /\ \A i \in 1..Len(sent) :
       sent[i].declared /\ ~sent[i].bad /\ sent[i].head <= MaxHead
(* A client that stays, waits for its replies and sends requests that      *)
(* parse and have a length is answered, unless two threads used its        *)
(* connection at a time.                                                   *)
StayingClientIsAnswered ==
  \A i \in 1..MaxRequests : i <= Len(sent) ~> (Len(sent) >= i /\ (Answered(i) \/ ~Behaves))
=============================================================================
