------------------------------ MODULE SlServer ------------------------------
(***************************************************************************)
(* slserver: from an HTTP request to its reply.  Three kinds of threads:   *)
(*                                                                         *)
(*   server thread   mg_mgr_poll and HttpServer::requestHandler: one       *)
(*                   request at a time, and closing of connections         *)
(*   loop thread     uv_run: idleCallback takes jobs from queuedActions to *)
(*                   the uv pool, actionCleanup gives results away         *)
(*   pool threads    actionRun: fetch the action, run it in a Sandbox      *)
(*                                                                         *)
(* A client is one connection that makes one request; it is also the       *)
(* closure (`[c]`) that the request leaves behind, which captures the      *)
(* address of its mg_connection and nothing else.                          *)
(*                                                                         *)
(* A Sandbox is reduced to the outcome of its code; the store is the       *)
(* locked one (MongoAdapter) with a database that does not fail.           *)
(* Startup has how these threads come to be: here mg_bind has succeeded,   *)
(* and connections know the ring.                                          *)
(***************************************************************************)
EXTENDS InvocationRing, Integers, Sequences, FiniteSets

CONSTANTS
  Addrs,        (* where mongoose may allocate an mg_connection            *)
  Names,        (* names of actions                                        *)
  Codes,        (* their code                                              *)
  Outcome,      (* what running a code comes to:                           *)
                (*   "returns"  runAction returns Success                  *)
                (*   "fails"    it returns another RunCode                 *)
                (*   "loops"    it never returns (no limits set)           *)
                (*   "dies"     it takes the process down                  *)
  InitialStore, (* the actions that the database holds at the start        *)
  Workers,      (* threads of the uv pool                                  *)
  MaxId,        (* bound: the last invocation id, so MaxId - 1 jobs        *)
  Disconnects   (* may a client go away before its reply?                  *)

Clients == Callbacks

(* ActionBaton.  `code` is set by actionRun and has no value before it.    *)
Baton == [name : Names, client : Clients, block : BOOLEAN,
          code : {None, "returns", "fails"}, freed : BOOLEAN]

Job == [id : Ids, code : Codes]

ASSUME ServerConstants ==
  /\ MaxId \in Nat \ {0} /\ Ids = 2 .. MaxId
  /\ None \notin Addrs \cup Codes \cup {"returns", "fails"}
  /\ None \notin Baton /\ None \notin Job
  /\ Outcome \in [Codes -> {"returns", "fails", "loops", "dies"}]
  /\ InitialStore \in [Names -> Codes \cup {None}]
  /\ Disconnects \in BOOLEAN

VARIABLES
  up,           (* the process is there                                    *)
  store,        (* Persistence: the code stored under each name            *)
  lastId,       (* ActionBaton::invocations                                *)
  baton,        (* the ActionBaton of each id, None before it is made      *)
  pushing,      (* the id that enqueue is pushing, or None                 *)
  queue,        (* AsyncQueue::queuedActions                               *)
  pool,         (* uv: work submitted and not started                      *)
  work,         (* uv: what each pool thread runs                          *)
  finished,     (* uv: work done, after-work callback not yet called       *)
  addr,         (* the address of each client's mg_connection              *)
  conn,         (* the client connected at each address                    *)
  inbox         (* the replies each client has received                    *)

netVars  == <<addr, conn, inbox>>
jobVars  == <<lastId, baton, pushing, queue, pool, work, finished>>
vars     == <<ringVars, up, store, jobVars, netVars>>

Reply == [of : {"ok", "refused", "id", "returns", "fails", "garbled"},
          id : Ids \cup {None}]

Init ==
  /\ RingInit
  /\ up = TRUE
  /\ store = InitialStore
  /\ lastId = 1
  /\ baton = [id \in Ids |-> None]
  /\ pushing = None
  /\ queue = <<>> /\ pool = <<>> /\ finished = <<>>
  /\ work = [w \in Workers |-> None]
  /\ addr = [cl \in Clients |-> None]
  /\ conn = [a \in Addrs |-> None]
  /\ inbox = [cl \in Clients |-> <<>>]

-----------------------------------------------------------------------------
(* The server thread                                                       *)

(* mongoose accepts cl at address a and has read its request.  It handles  *)
(* one request at a time, so not while a push is under way.                *)
Arrive(cl, a) ==
  /\ up /\ pushing = None
  /\ addr[cl] = None /\ conn[a] = None
  /\ addr' = [addr EXCEPT ![cl] = a]
  /\ conn' = [conn EXCEPT ![a] = cl]

(* mg_send_head and mg_printf on the connection of the request in hand.    *)
Send(cl, of, id) ==
  inbox' = [inbox EXCEPT ![cl] = Append(@, [of |-> of, id |-> id])]

(* GET /ping and GET /actions.                                             *)
Query(cl, a) ==
  /\ Arrive(cl, a)
  /\ Send(cl, "ok", None)
  /\ UNCHANGED <<ringVars, up, store, jobVars>>

(* The early returns: an unknown route, a POST without body, a body that   *)
(* is no JSON or has an empty name, an id that is no number, code that     *)
(* does not compile.                                                       *)
Malformed(cl, a) ==
  /\ Arrive(cl, a)
  /\ Send(cl, "refused", None)
  /\ UNCHANGED <<ringVars, up, store, jobVars>>

(* POST /actions with fields that as<std::string>() or as<int>() cannot    *)
(* convert, such as a missing timeout: nobody catches what they throw.     *)
Unconvertible(cl, a) ==
  /\ Arrive(cl, a)
  /\ up' = FALSE
  /\ UNCHANGED <<ringVars, store, jobVars, inbox>>

(* POST /actions                                                           *)
Create(cl, a, n, code) ==
  /\ Arrive(cl, a)
  /\ \/ /\ store[n] = None
        /\ store' = [store EXCEPT ![n] = code]
        /\ Send(cl, "ok", None)
     \/ /\ store[n] # None
        /\ store' = store
        /\ Send(cl, "refused", None)
  /\ UNCHANGED <<ringVars, up, jobVars>>

(* Mutant: an action takes the results that its runs left in the ring      *)
(* with it.                                                                *)
Delete_DropsResults(cl, a, n) ==
  /\ Arrive(cl, a)
  /\ store[n] # None
  /\ store' = [store EXCEPT ![n] = None]
  /\ Send(cl, "ok", None)
  /\ ring' = [id \in Ids |->
       IF Stored(id) /\ baton[id] # None /\ baton[id].name = n THEN None ELSE ring[id]]
  /\ UNCHANGED <<posted, asked, calls, up, jobVars>>

(* DELETE /actions/:id                                                     *)
Delete(cl, a, n) ==
  /\ Arrive(cl, a)
  /\ \/ /\ store[n] # None
        /\ store' = [store EXCEPT ![n] = None]
        /\ Send(cl, "ok", None)
     \/ /\ store[n] = None
        /\ store' = store
        /\ Send(cl, "refused", None)
  /\ UNCHANGED <<ringVars, up, jobVars>>

(* POST /actions/:id and /actions/:id/block, up to the call of enqueue:    *)
(* the action is looked up, the baton made and numbered.                   *)
Run(cl, a, n, block) ==
  /\ Arrive(cl, a)
  /\ \/ /\ store[n] = None
        /\ Send(cl, "refused", None)
        /\ UNCHANGED jobVars
     \/ /\ store[n] # None
        /\ lastId < MaxId
        /\ lastId' = lastId + 1
        /\ baton' = [baton EXCEPT ![lastId'] =
             [name |-> n, client |-> cl, block |-> block, code |-> None, freed |-> FALSE]]
        /\ pushing' = lastId'
        /\ UNCHANGED <<queue, pool, work, finished, inbox>>
  /\ UNCHANGED <<ringVars, up, store>>

(* Mutant: the answer with the id is sent for a blocking run, too.         *)
Enqueue_AnswersAll ==
  /\ up /\ pushing # None
  /\ queue' = Append(queue, pushing)
  /\ pushing' = None
  /\ Send(baton[pushing].client, "id", pushing)
  /\ UNCHANGED <<ringVars, up, store, lastId, baton, pool, work, finished, addr, conn>>

(* queuedActions.push returns.  A non-blocking run is answered with its    *)
(* id, a blocking one by actionCleanup.                                    *)
Enqueue ==
  /\ up /\ pushing # None
  /\ queue' = Append(queue, pushing)
  /\ pushing' = None
  /\ IF baton[pushing].block
     THEN UNCHANGED inbox
     ELSE Send(baton[pushing].client, "id", pushing)
  /\ UNCHANGED <<ringVars, up, store, lastId, baton, pool, work, finished, addr, conn>>

(* GET /invocation/:id.  A result that is there is sent at once, on this   *)
(* thread; an undefined pointer in its place is dereferenced.              *)
Resolve(cl, a, id) ==
  /\ Arrive(cl, a)
  /\ PutCallback(id, cl)
  /\ up' = ~Crashed'
  /\ IF <<cl, id>> \in calls'
     THEN Send(cl, baton[id].code, id)
     ELSE UNCHANGED inbox
  /\ UNCHANGED <<store, jobVars>>

(* Mutant: connections that wait for a reply are closed like idle ones.    *)
Close_AnyTime(cl) ==
  /\ up /\ pushing = None
  /\ addr[cl] # None /\ conn[addr[cl]] = cl
  /\ conn' = [conn EXCEPT ![addr[cl]] = None]
  /\ UNCHANGED <<ringVars, up, store, jobVars, addr, inbox>>

(* mongoose notices that the client has closed the connection, and frees   *)
(* the mg_connection: when it has its reply, or before.                    *)
Close(cl) ==
  /\ up /\ pushing = None
  /\ addr[cl] # None /\ conn[addr[cl]] = cl
  /\ inbox[cl] # <<>> \/ Disconnects
  /\ conn' = [conn EXCEPT ![addr[cl]] = None]
  /\ UNCHANGED <<ringVars, up, store, jobVars, addr, inbox>>

-----------------------------------------------------------------------------
(* The loop thread                                                         *)

(* Mutant: the newest job goes first.                                      *)
Idle_TakesLast ==
  /\ up /\ queue # <<>>
  /\ queue' = SubSeq(queue, 1, Len(queue) - 1)
  /\ pool' = Append(pool, queue[Len(queue)])
  /\ UNCHANGED <<ringVars, up, store, lastId, baton, pushing, work, finished, netVars>>

(* Mutant: a job that is taken while another one waits for a pool thread   *)
(* is not submitted.                                                       *)
Idle_DropsJob ==
  /\ up /\ queue # <<>>
  /\ queue' = Tail(queue)
  /\ pool' = IF pool = <<>> THEN Append(pool, Head(queue)) ELSE pool
  /\ UNCHANGED <<ringVars, up, store, lastId, baton, pushing, work, finished, netVars>>

(* idleCallback: the next job goes to the pool.                            *)
Idle ==
  /\ up /\ queue # <<>>
  /\ queue' = Tail(queue)
  /\ pool' = Append(pool, Head(queue))
  /\ UNCHANGED <<ringVars, up, store, lastId, baton, pushing, work, finished, netVars>>

(* dequeue takes no lock (asyncqueue.cpp:155,161 are comments), so it may  *)
(* look at the deque while push changes it.  Between two blocks of the     *)
(* deque it then reads half-written iterators, and what is taken through   *)
(* them brings the process down.                                           *)
TornDequeue ==
  /\ up /\ pushing # None
  /\ up' = FALSE
  /\ UNCHANGED <<ringVars, store, jobVars, netVars>>

(* A reply that the loop thread sends to the address that the closure of   *)
(* cl captured, while mg_mgr_poll works on the same connections: whoever   *)
(* is connected there gets it, whole or garbled, or the two threads ruin   *)
(* the send buffer.  Nobody there: the freed mg_connection is zeroed and   *)
(* its interface pointer is dereferenced.                                  *)
CrossThreadSend(cl, id) ==
  LET receiver == conn[addr[cl]] IN
  \/ /\ receiver # None
     /\ up' = up
     /\ \/ Send(receiver, baton[id].code, id)
        \/ Send(receiver, "garbled", None)
  \/ /\ up' = FALSE
     /\ UNCHANGED inbox

(* Mutant: the baton of a blocking run is deleted, its callback not        *)
(* called.                                                                 *)
CleanupBlocking_OnlyDeletes(id) ==
  /\ baton[id].block
  /\ up' = up
  /\ baton' = [baton EXCEPT ![id].freed = TRUE]
  /\ UNCHANGED <<ringVars, inbox>>

(* actionCleanup of a blocking run: its callback replies, then the baton   *)
(* is deleted.                                                             *)
CleanupBlocking(id) ==
  /\ baton[id].block
  /\ CrossThreadSend(baton[id].client, id)
  /\ baton' = [baton EXCEPT ![id].freed = TRUE]
  /\ UNCHANGED ringVars

(* Mutant: the baton is deleted in every case.                             *)
CleanupNonblocking_Deletes(id) ==
  /\ ~baton[id].block
  /\ PutAction(id)
  /\ LET called == {cl \in Clients : <<cl, id>> \in calls' \ calls} IN
     IF called = {}
     THEN up' = up /\ UNCHANGED inbox
     ELSE \E cl \in called : CrossThreadSend(cl, id)
  /\ baton' = [baton EXCEPT ![id].freed = TRUE]

(* actionCleanup of a non-blocking run: the ring calls the request that    *)
(* waits for it, under its lock, or keeps the baton for later.             *)
CleanupNonblocking(id) ==
  /\ ~baton[id].block
  /\ PutAction(id)
  /\ LET called == {cl \in Clients : <<cl, id>> \in calls' \ calls} IN
     IF called = {}
     THEN up' = up /\ UNCHANGED inbox
     ELSE \E cl \in called : CrossThreadSend(cl, id)
  /\ UNCHANGED baton

Cleanup ==
  /\ up /\ finished # <<>>
  /\ finished' = Tail(finished)
  /\ CleanupBlocking(Head(finished)) \/ CleanupNonblocking(Head(finished))
  /\ UNCHANGED <<store, lastId, pushing, queue, pool, work, addr, conn>>

-----------------------------------------------------------------------------
(* The pool threads                                                        *)

(* actionRun begins: getAction.  The action may have been deleted since    *)
(* the request looked it up: then the definition is empty, there is no     *)
(* main, and the text of an error that is not there is read.               *)
Start(w) ==
  /\ up /\ work[w] = None /\ pool # <<>>
  /\ LET id   == Head(pool)
         code == store[baton[id].name]
     IN  \/ /\ code # None
            /\ pool' = Tail(pool)
            /\ work' = [work EXCEPT ![w] = [id |-> id, code |-> code]]
            /\ up' = up
         \/ /\ code = None
            /\ up' = FALSE
            /\ UNCHANGED <<pool, work>>
  /\ UNCHANGED <<ringVars, store, lastId, baton, pushing, queue, finished, netVars>>

(* actionRun ends, or never does.                                          *)
Finish(w) ==
  /\ up /\ work[w] # None
  /\ LET id  == work[w].id
         end == Outcome[work[w].code]
     IN  \/ /\ end \in {"returns", "fails"}
            /\ baton' = [baton EXCEPT ![id].code = end]
            /\ finished' = Append(finished, id)
            /\ work' = [work EXCEPT ![w] = None]
            /\ up' = up
         \/ /\ end = "dies"
            /\ up' = FALSE
            /\ UNCHANGED <<baton, finished, work>>
  /\ UNCHANGED <<ringVars, store, lastId, pushing, queue, pool, netVars>>

-----------------------------------------------------------------------------

Request ==
  \E cl \in Clients, a \in Addrs :
    \/ Query(cl, a) \/ Malformed(cl, a) \/ Unconvertible(cl, a)
    \/ \E n \in Names :
         \/ \E code \in Codes : Create(cl, a, n, code)
         \/ Delete(cl, a, n)
         \/ \E block \in BOOLEAN : Run(cl, a, n, block)
    \/ \E id \in Ids : Resolve(cl, a, id)

Next ==
  \/ Request
  \/ Enqueue
  \/ \E cl \in Clients : Close(cl)
  \/ Idle \/ TornDequeue
  \/ Cleanup
  \/ \E w \in Workers : Start(w) \/ Finish(w)

(* Every thread that has something to do does it some time: the loop       *)
(* thread runs both of its callbacks in every round of uv_run, and running *)
(* code that returns, returns.  Clients need not do anything.              *)
Fairness ==
  /\ WF_vars(Enqueue) /\ WF_vars(Idle) /\ WF_vars(Cleanup)
  /\ \A w \in Workers : WF_vars(Start(w)) /\ WF_vars(Finish(w))

Spec == Init /\ [][Next]_vars /\ Fairness

-----------------------------------------------------------------------------
(* Properties                                                              *)

(* Types.  In particular no reply is made from an ActionBaton whose code   *)
(* was never set, and the process is up only as long as no callback was    *)
(* called with an undefined pointer.                                       *)
TypeOK ==
  /\ RingTypeOK
  /\ up \in BOOLEAN
  /\ up => ~Crashed
  /\ store \in [Names -> Codes \cup {None}]
  /\ lastId \in 1 .. MaxId
  /\ baton \in [Ids -> Baton \cup {None}]
  /\ pushing \in Ids \cup {None}
  /\ queue \in Seq(Ids) /\ pool \in Seq(Ids) /\ finished \in Seq(Ids)
  /\ work \in [Workers -> Job \cup {None}]
  /\ addr \in [Clients -> Addrs \cup {None}]
  /\ conn \in [Addrs -> Clients \cup {None}]
  /\ inbox \in [Clients -> Seq(Reply)]

Elements(s) == {s[i] : i \in 1 .. Len(s)}

Running == {work[w].id : w \in {v \in Workers : work[v] # None}}

Kept == {id \in Ids : ring[id] # None /\ ring[id].action = id}

Pushed == IF pushing = None THEN lastId ELSE lastId - 1

LastStarted == Pushed - Len(queue) - Len(pool)

(* The jobs that wait are those accepted last, in the order of their       *)
(* numbers: nothing overtakes, nothing is dropped or taken twice on the    *)
(* way from the server thread through the deque and the uv pool.           *)
WaitingInOrder ==
  /\ pushing # None => pushing = lastId
  /\ \A i \in 1 .. Len(queue) : queue[i] = LastStarted + Len(pool) + i
  /\ \A i \in 1 .. Len(pool) : pool[i] = LastStarted + i

(* From its start to its hand-over a job is in one place: on one pool      *)
(* thread, once in the list of finished work, or in the ring.              *)
OnePlace ==
  /\ \A v, w \in Workers :
       work[v] # None /\ work[w] # None /\ work[v].id = work[w].id => v = w
  /\ \A i, j \in 1 .. Len(finished) : finished[i] = finished[j] => i = j
  /\ Running \cap Elements(finished) = {}
  /\ Kept \cap (Running \cup Elements(finished)) = {}
  /\ \A id \in Running \cup Elements(finished) \cup Kept : id <= LastStarted

(* Nobody holds on to a baton that actionCleanup has deleted, and whoever  *)
(* reads a result reads it from a baton whose run has ended.               *)
BatonsLive ==
  /\ \A id \in (LastStarted + 1 .. lastId) \cup Running \cup Elements(finished) \cup Kept :
       baton[id] # None /\ ~baton[id].freed
  /\ \A id \in Elements(finished) \cup Kept : baton[id].code # None

(* A client hears once: the early returns of requestHandler, the callback  *)
(* of a blocking run and the callback in the ring exclude each other.      *)
OneReply == \A cl \in Clients : Len(inbox[cl]) <= 1

(* README.md:104 has a client "wait until the result is received", and     *)
(* README.md:105,113 has it get an invocation id and retrieve the result   *)
(* with it: what a client takes for its answer (the first reply on its     *)
(* connection) is the id or the result of its own run, or the result of    *)
(* the run it resolves.                                                    *)
RepliesToAskers ==
  \A cl \in Clients : inbox[cl] # <<>> =>
    LET reply == inbox[cl][1] IN
    /\ reply.of = "id" =>
         baton[reply.id].client = cl /\ ~baton[reply.id].block
    /\ reply.of \in {"returns", "fails"} =>
         IF baton[reply.id].block
         THEN baton[reply.id].client = cl
         ELSE asked[cl] = reply.id

(* The result of a run is sent to one connection only, even when its       *)
(* client has gone and the address of its connection is used again.        *)
ResultSentOnce ==
  \A cl, other \in Clients :
    \A i \in 1 .. Len(inbox[cl]), j \in 1 .. Len(inbox[other]) :
      LET one == inbox[cl][i]
          two == inbox[other][j]
      IN  /\ one.of \in {"returns", "fails"}
          /\ two.of \in {"returns", "fails"}
          /\ one.id = two.id
          => cl = other /\ i = j

(* The inductive invariant: the properties above about jobs, that of the   *)
(* ring, and what ties batons, connections and the ring together.          *)
ServerInv ==
  /\ TypeOK
  /\ RingInv
  /\ WaitingInOrder
  /\ OnePlace
  /\ BatonsLive
  /\ \A id \in Ids : baton[id] # None <=> id <= lastId
  /\ \A id \in Ids : baton[id] # None => addr[baton[id].client] # None
  /\ \A id \in Ids : baton[id] # None /\ baton[id].freed => baton[id].block
  /\ \A cl \in Clients : asked[cl] # None => addr[cl] # None
  /\ \A id \in posted :
       /\ id <= LastStarted
       /\ id \notin Running \cup Elements(finished)
       /\ ~baton[id].block
       /\ baton[id].code # None

(* Why OneReply and RepliesToAskers hold when clients stay until they have *)
(* their reply: a client has one baton, or waits in the ring for one id,   *)
(* or neither; until its reply is sent it has none, and its connection is  *)
(* where the closure of its request believes it to be.                     *)
ReplyInv ==
  /\ OneReply /\ RepliesToAskers
  /\ \A cl \in Clients :
       /\ inbox[cl] # <<>> => addr[cl] # None
       /\ addr[cl] # None /\ inbox[cl] = <<>> => conn[addr[cl]] = cl
       /\ asked[cl] # None /\ ~Served(cl) => inbox[cl] = <<>>
       /\ inbox[cl] # <<>> /\ inbox[cl][1].of \in {"id", "returns", "fails"} =>
            inbox[cl][1].id \in Ids /\ baton[inbox[cl][1].id] # None
  /\ pushing # None => inbox[baton[pushing].client] = <<>>
  /\ \A id \in Ids : baton[id] # None =>
       /\ asked[baton[id].client] = None
       /\ baton[id].block /\ ~baton[id].freed => inbox[baton[id].client] = <<>>
       /\ \A other \in Ids :
            baton[other] # None /\ baton[other].client = baton[id].client => other = id

(* Why ResultSentOnce holds even when they do not stay: once the result of *)
(* a run is sent its baton is deleted, or its id was given to a callback.  *)
Given ==
  {id \in Ids : baton[id] # None /\ IF baton[id].block THEN baton[id].freed ELSE HandedOut(id)}

ResultInv ==
  /\ ResultSentOnce
  /\ \A cl \in Clients : \A i \in 1 .. Len(inbox[cl]) :
       inbox[cl][i].of \in {"returns", "fails"} => inbox[cl][i].id \in Given

(* How far a job has come.                                                 *)
Status(id) ==
  IF baton[id] = None THEN "none"
  ELSE IF id \in {pushing} \cup Elements(queue) \cup Elements(pool) THEN "accepted"
  ELSE IF id \in Running THEN "running"
  ELSE IF id \in Elements(finished) \cup Kept THEN "done"
  ELSE "handed"

(* The server keeps the promise of JobLifecycle.                           *)
Lifecycle == INSTANCE JobLifecycle WITH status <- [id \in Ids |-> Status(id)]
LifecycleSpec == Lifecycle!Spec

(* The server uses the ring the way RingSpec says: one callback for each   *)
(* request, and one action for each id.                                    *)
RingUsedAsSpecified == RingSpec

Looping(w) == work[w] # None /\ Outcome[work[w].code] = "loops"

(* What can keep a job from ending: the process is gone, its own code does *)
(* not return, or no pool thread ever gets free.                           *)
Hopeless(id) ==
  \/ ~up
  \/ \E w \in Workers : Looping(w) /\ work[w].id = id
  \/ \A w \in Workers : Looping(w)

(* A client that makes a blocking run and stays connected gets its reply,  *)
(* unless the job is hopeless.                                             *)
BlockingRunAnswered ==
  \A id \in Ids :
    baton[id] # None /\ baton[id].block
      ~> \/ Hopeless(id)
         \/ \E cl \in Clients :
              baton[id] # None /\ baton[id].client = cl /\ inbox[cl] # <<>>

(* The request that waits in the ring for a non-blocking run gets a reply, *)
(* unless the job is hopeless.                                             *)
WaitingResolveAnswered ==
  \A id \in Ids, cl \in Clients :
    /\ baton[id] # None /\ ~baton[id].block
    /\ id \notin posted
    /\ ring[id] # None /\ ring[id].callback = cl
    ~> Hopeless(id) \/ inbox[cl] # <<>>

=============================================================================
