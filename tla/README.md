# slserver in TLA+

A specification of *slserver*, the "serverless" server of this repository: a
client stores Lua actions under a name over HTTP, runs them, and gets the
result at once (`/block`) or later, under an invocation id. The modules here
describe it from the command line client to the connections of the web server,
check it with TLC on small instances and prove the central statements with TLAPS
for any number of clients, threads, actions, jobs, names and tokens.

## The system

Three kinds of threads share one process (`main.cpp:49-79`):

| thread | runs | touches |
|---|---|---|
| server thread | `HttpServer::serverLoop` -> `mg_mgr_poll` -> `requestHandler` | connections, persistence, `queuedActions` (push), the ring (`putCallback`) |
| loop thread (main) | `uv_run` -> `idleCallback`, `actionCleanup` | `queuedActions` (front, pop), the uv pool, the ring (`putAction`), connections (through callbacks) |
| pool threads (libuv) | `actionRun` -> `Sandbox::runAction` | persistence, one baton each, plugins |

A run of an action is an `ActionBaton`, numbered by an atomic counter. It goes
from `requestHandler` through `queuedActions`, the pool's queue, a pool thread
and libuv's list of finished work to `actionCleanup`. There a blocking run
replies through the callback it carries and is deleted; a non-blocking run goes
to the *invocation ring*, a map in which a result waits for the request
`GET /invocation/:id` or such a request waits for the result.

### Inventory

| component (source) | state | operations | interacts with | hard | correct when |
|---|---|---|---|---|---|
| Invocation ring (`invocationring.*`) | map id -> {action, callback} | `putCallback`, `putAction` | called by server and loop thread, calls back | either order of the calls, several requests for one id, an uninitialized member | a result is kept until it is handed out, once, to a request that asked for it; a request that is alone is served |
| Action queue (`asyncqueue.*`) | `queuedActions`, id counter, batons, the work libuv holds | `enqueue`, `dequeue`, `submit`, `idleCallback`, `actionRun`, `actionCleanup`, `compileAction` | server thread, libuv, store, sandbox, ring | a deque without lock, the life of a baton, a pool that can be exhausted | jobs run once, start in order, nobody uses a deleted baton, every job is answered |
| HTTP server (`httpserver.*`) | static routes, parser and printer, connections | one handler with seven routes | everything | replies from another thread to an address kept in a closure | a client hears once, and hears about its own request |
| Persistence (`persistence.h`, `nulldb.*`, `mongoadapter.*`) | name -> code and limits | add, get, has, list, delete | server thread and pool threads | looked up at the request, fetched by the run; Nulldb has no lock; database errors are logged only | what was created can be run until it is deleted |
| Sandbox (`sandbox.*`) | a Lua state, a jump buffer, a static plugin lock | `runAction`, `hook`, `callPlugin` | registry, Lua | limits reached in any stage, jumps over frames that hold a lock | limits end the code, the lock is given back, every outcome has a code and a message |
| Plugin registry, plugins (`pluginregistry.*`, `plugin.h`, `libs/`) | name -> plugin | load, get, `call` | config, sandbox | two names for one plugin (config key, `plugin->name()`) | a configured plugin gets its own configuration |
| Config (`config.*`) | logging, persistence, plugin settings | functions that `config.lua` calls | Lua | a script that calls them in any order | the last setting wins, each plugin keeps its data |
| Lua and JSON values (`luatools.*`, `json/`) | none, or a parser's state | read, write, parse, print | sandbox, HTTP server | nesting, numbers, arrays and tables | what is printed is what was parsed |
| Base64 (`base64.h`) | none | encode, decode | HTTP server | padding, empty input | decode inverts encode |
| Logger (`logger.h`) | level | print | all | - | not modelled: output only |
| slcli (`cli/src`) | the URL in `~/.slcli` | one command for each route | HTTP server | a time limit of 5 s on `resolve` | reports what the server did |
| mongoose (`web/`) | connections | accept, poll, send, close | HTTP server | memory of a closed connection is used again | vendored; modelled only as far as `src/` relies on it |

The hazards, each at its line and with the properties that cover it, are listed
in `PROJECT.json`.

## The modules

```
ResultExchange      what the ring promises           JobLifecycle   what the server promises about a job
      ^ implemented by                                    ^ implemented by
InvocationRing  <------------- EXTENDS -------------  SlServer
      ^                                                   ^
MCInvocationRing                                      MCSlServer, SlServerProofs

Sandbox   one run of an action: what SlServer's Outcome stands for
   ^
MCSandbox, SandboxProofs

ActionMap   what SlServer takes the store for
   ^ implemented by, until the database fails or a run is hit
ActionStore, Nulldb
   ^
MCActionStore, ActionStoreProofs, MCNulldb, NulldbProofs

JsonValue <-- JsonParser, JsonPrinter, LuaTools,       the code
              JsonReference                            what a text means
                 <-- DataPath <-- MCDataPath, DataPathProofs

Router, Base64, JsonText <-- SlCli <-- MCSlCli, SlCliProofs   commands, routes, uploads, ids
Startup <-- MCStartup, StartupProofs                   from config.lua to serving
Connection <-- MCConnection, ConnectionProofs          one keep-alive connection
```

**InvocationRing** is `invocationring.cpp`. Both functions hold `_lock` from
their first to their last line, so each call is one step: `PutCallback` is
`RegisterCallback`, `DropCallback` or `CollectAction` (the three paths of
`putCallback`), `PutAction` is `CallBack` or `StoreAction`. The state is the
map; `posted`, `asked` and `calls` are histories of what the callers did and
which callbacks ran. `Invocation::action` has no initializer, and an entry made
by `putCallback` carries whatever it holds: only null or not null matters, so it
is `None` or `Wild`. A callback that is called with `Wild` dereferences it and
the process is gone (`Crashed`). `RingSpec` puts the ring in the environment that
the server is: one `putAction` per id, one `putCallback` per request.

**ResultExchange** says the same without the map: a posted result is handed to
one callback that asked for it, at once or to the next that asks. A second
request for an id while the first one waits is outside of the promise.

**SlServer** composes the ring with the rest. `Clients` are connections that
make one request each (slcli does); a client doubles as the closure `[c]` that
its request leaves behind. Server thread: `Arrive` (a connection is accepted and
its request read), one action per route (`Query`, `Malformed`, `Create`,
`Delete`, `Run`, `Resolve`), `Enqueue` (the push returns and the handler goes on)
and `Close`. Loop thread: `Idle`, `Cleanup`, and `TornDequeue`. Pool threads:
`Start` (fetch the action) and `Finish`. Requests are handled one at a time and a
handler is one step, except for a run: `Run` ends where `queuedActions.push`
begins and `Enqueue` is the rest, so that the loop thread can look at the deque in
between.

A create with a parameter that cannot be converted ends the process
(`Unconvertible`): `as<int>()` throws, for a missing `timeout` too, and nothing on
the server thread catches it.

What is abstracted:

* Code is its outcome: it returns, fails, loops or takes the process down.
  What leads to them is the business of `Sandbox`. There a plugin call that fails
  makes later calls of *other* actions wait for ever; here such an action simply
  loops.
* The store is a map, a handler's check and change of it are one step, and the
  database does not fail. `ActionStore` shows why the first two are right.
* A dequeue that sees the deque between two writes of a push reads garbage
  pointers; the outcome is the end of the process (`TornDequeue`). A dequeue that
  sees the deque before or after is `Idle` before or after `Enqueue`.
* A reply from the loop thread reaches whoever is connected at the address that
  the closure kept, whole or garbled by the other thread, or brings the process
  down (`CrossThreadSend`).
* Replies are reduced to what tells them apart: accepted, refused, an id, or the
  result of a run.
* An undefined pointer in the ring may also read as a live baton; it is modelled
  as the crash only.

**JobLifecycle**: a job is accepted, started, done and handed over, accepted and
started in the order of the numbers. `SlServer` implements it under the mapping
`Status`.

**Sandbox** is `sandbox.cpp` on several pool threads. A run is `Begin` (a Sandbox on
the stack of `actionRun`), `Load`, the priming run of the chunk, `Primed` (main is
looked up and `setjmp` called), the run of main, and `Close` (`lua_close`); it ends by
`Return`, `Raise` or the `Hook`. While a script runs it may call a plugin: `CallPlugin`
(the call has reached the `lock_guard`), `Acquire`, and `PluginReturns`, `PluginFails` (a
Lua error is raised while the mutex is held) or `PluginDies`. Four things make it hard:

* `env` is the `jmp_buf` of the sandbox: never set, holding what an earlier run on the
  thread left on the stack, or set by this run. A limit may strike before `setjmp`.
* Lua collects garbage whenever something is allocated - by the script, by `callPlugin`
  that converts payload and result, by `lua_close` - and runs the script's finalizers then
  (`Collect`, until `FinalizerReturns` or `FinalizerFails`). No hook is called in them, so a
  limit does not end them; they may call plugins themselves (`call` has an entry for the
  script and one for its finalizer), and wait for the mutex that their own thread holds. A
  run whose bytecode could not be loaded has run no script, and closes without them.
* Lua is compiled as C. An error that leaves `callPlugin` is a `longjmp` over the
  `lock_guard`; its destructor does not run, `lock` stays, and the script may go on.
* `cause` is how the process went down, if it did; each cause is a place in the code.

Scripts are arbitrary in what they return, raise and call. They are assumed to leave
alone the two globals in which the code keeps its pointers (`definitions.h`), not
to stay inside one C function of the Lua library for ever, because no hook is called
there, and not to start coroutines in finalizers, where hooks are on again. Which library functions a script has is not modelled.

**ActionStore** is `mongoadapter.cpp` with its users. Each function of the adapter
locks a mutex, so a call is one step, and `HasAction`, `GetAction`, `AddAction` and
`DeleteAction` say what a call may return or leave behind once the database has begun
to fail (`Break`). The handlers make two calls (`CheckCreate` and then `Insert` or `Reject`,
`CheckDelete` and then `Remove`), pool threads fetch in between, a run is accepted
(`Accept`) long before it fetches (`Fetch`), and the process may end and be started
again at any point (`Restart`); the documents stay. A command that was sent to the
database is carried out before the next process starts, or not at all; a second
slserver on the same database is not modelled. `docs` keeps a sequence of documents
for each name, because nothing in the database forbids two. `told` is a history: the
definition that a client was told is created under each name, until somebody asks to
delete it; what is told once the database has failed is not counted, since an insert that
fails is answered like one that does not.

**ActionMap** is what a client may rely on: a name is given once until it is deleted,
and a run gets what is there when it starts. Until the database fails `ActionStore`
implements it, with `map[n]` being the last document of `n`.

**Nulldb** is `nulldb.cpp` with the same users, and the same map, until a run is *hit*.
It has no lock, so `getAction` on a pool thread is taken apart into `Search`, `Find`
(what `operator[]` comes to, a new null pointer if there is nothing) and `Copy`. A run
is hit when its action is deleted between its acceptance and its copy, or when the
tree is changed while it searches; whatever is read then is undefined (`Copy` of any
definition, `Die`). `List` follows null pointers that hit runs have left.

**JsonValue**, **JsonParser**, **JsonPrinter**, **LuaTools** are `json/` and
`luatools.cpp`. A value is a function from paths to kinds, so that a pointer into it is
a path. A source is a sequence of tokens, chosen while it is read: a literal or a string
is one token; **JsonText** is what `parseString` and `parseProperty` do with its bytes.
The parser keeps `calls`, its recursion, and next to it the two things the code keeps in the object: `objectStack` and the one `currentProperty` of all objects.
Where the characters of a token depart from JSON there is this: numbers are read
leniently, `\u` escapes of surrogates are refused, property names are read without
escapes, strings are printed without (all in `JsonText` but the first), `\u0000` ends a
string that goes through Lua, and a reply goes through `mg_printf` as its format. The errors that
`readObject` raises for keys and values that have no JSON form are errors of a run, see
`Sandbox`.

**DataPath** composes them: a body is parsed (the same parser is used again after an
error), becomes the argument of main, is returned, and printed. **JsonReference** is the
grammar without a stack and without recursion: a text is JSON if it is one scalar, or an
opening bracket and the token that closes it, and if every bracket in it is a container,
which the commas of its own depth cut into parts, each a value or a name, a colon and a
value. The place of a value is read off the brackets around it and the cuts before it
(`Path`), and of two members with one name the later one is kept. `NumberText` is how
`JSON::toString` prints a number that is the key of a table (six digits, so that large
keys collide, like `1` and `"01"` do), and `SixDigits` is the same for values.

**Router** is class `Matcher` and the table of patterns, **Base64** is `base64.h` on
numbers, **SlCli** the commands of `cli/src/index.ts`: the request each makes, what the
routes do with it, and what the user is told. Texts are sequences of tokens, so that
characters that mean something in a URL can be told from the rest: `Uri` cuts the query,
the fragment and blanks at the end off, and applies `UrlEscapes`, what Node.js' `url.parse`
makes of quotes, brackets, blanks and the like on the way from axios to the socket;
`Sendable` says which addresses Node.js refuses to send. The payload of a run is JSON,
something that the server's parser refuses, nothing at all (axios leaves out null, zero,
false and the empty string) or what axios does not send (`Bodies`); a run may be refused,
fail in the blocking way, or, without a name, become a create, and end the server by a
missing `name` (`StartAgain`). Numbers of runs are printed
with `Digits` digits (`Told`), the server may be started again (`Restart`), and a resolve
that gives up after five seconds leaves its callback in the ring.

**Startup** is everything before the two threads run: a script that calls `Nulldb`,
`Mongodb`, `Plugin` and the function that `Plugin` returns (`Pcdata`) in any order,
`getPersistenceLayer`, `loadPlugins` in the order of the map, and every way to end:
a `ConfigError` or `PersistenceError` that nobody catches, `exit`, a null pointer, a
signal. `Serve` may fail too: `mg_bind` returns null if the port is taken, and that is
written to; and connections copy `HttpServer::invocations` before `main` sets it
(`httpserver.cpp:257`, `main.cpp:68-69`), so that `userData` is the ring or whatever stood
there (`ResolveWild`). `SlServer` begins where both have gone well. The settings of the logger are left out.

**Connection** is one keep-alive connection of mongoose with the handler of slserver. A
turn of `mg_mgr_poll` is `Receive`, `ReceiveEnd` or `ReceiveNothing` (read, parse, at
most one request handled), `Write` or `WriteNothing`, and `KeepOpen` or `CloseConn`.
Requests and replies consist of pieces that may arrive one by one; the client may send a
request before the last one is answered (`piped`), shut down its side in the middle of
one, or vanish. The reply to a blocking run is put into the send buffer by the loop
thread in two pieces (`LateHead`, `LateBody`); if it meets the server thread there, or the
connection is gone, the outcome is `undefined`, and the properties that follow bytes say
nothing any more. What a buffer holds behind the head is what the handler gets as the
body (`deliver_chunk`), and whether it is complete is decided by `rcvd`.

## What TLC checks

| run | instance | shows |
|---|---|---|
| `ring` | 2 ids, 3 requests, 490 states | results are handed out once, kept until then, sole askers are served; the ring implements `ResultExchange` |
| `server` | 3 clients that stay, 2 addresses, 2 jobs, 2 pool threads, 4 kinds of code, 143,587 states | jobs wait in order; one reply each and to the right client; implements `JobLifecycle`; uses the ring as `RingSpec` says; blocking runs and waiting requests are answered |
| `server_disconnects` | same with clients that may leave, one kind of code, 464,000 states | no deleted baton is used, a result is sent once |
| `server_misdelivery` | same | *violated*: a client is answered with the result of its own request (`README.md:104`) |
| `sandbox` | 2 pool threads, each running any number of actions, 257,253 states | one plugin call at a time; in main a limit ends its own run; codes of limits are true; a mutex left locked is never unlocked; a run with a time limit that does not end waits for that mutex, or finalizers run in it for ever or again and again |
| `sandbox_timelimit` | same, with a fair mutex and scripts without finalizers | *violated*: the timeout is the maximum time (`README.md:130`) |
| `store` | 2 names, 2 definitions, 2 runs, a database that may begin to fail, 78,498 states | a name has one document at most, what a client was told is created stays as it is until somebody asks to delete it; until the database fails, `ActionMap` is implemented |
| `nulldb` | 2 names, 2 definitions, 2 runs, 154,243 states | the process ends only if a run was hit, and until then `ActionMap` is implemented |
| `data` | sources of up to 9 tokens out of 11, 2 runs, 523,313 states | the parser accepts JSON and nothing else and fills the value the text denotes; the printer writes it; through Lua and back nothing else is lost |
| `client` | 4 names, 2 files, 4 kinds of payload, 381 strings, ids up to 4 of which 2 need no rounding, 2 lives of the server, 2 ids remembered, 270,745 states | plainly named actions are what commands act on; uploads and strings arrive intact; an id leads to the result of its own run |
| `startup` | 2 names, 4 libraries, 8 tables, 478,634 states | settings are filed under their names, the registry follows the configuration, the store is the one asked for if any was; main serves or ends |
| `connection` | 2 requests of 6 kinds, heads of up to 2 pieces, 49,210 states | handlers see their request, replies go out whole and in order, a half-closed connection is flushed, a client that stays is answered |

Bounds. `MaxId` bounds the counter: the ids are 2 and 3, so two jobs. Two jobs are
what it takes to overtake, to be in two places, to starve behind each other (two
threads, both looping) and to be confused in the ring. Three clients are a run
and two requests for its result, or two runs and a request; with two addresses
the third client gets the memory of a connection that was closed. In the ring
three requests for one id give every order of asking before and after the result,
twice. In `Sandbox` nothing is counted, so its state space is finite as it is; two
threads are enough to wait for each other, and one thread can wait for itself. In
`ActionStore` two definitions tell whether one is replaced by another, and two runs
can hold a name while it is deleted and created again; in `Nulldb` one run changes the
tree, by its `operator[]`, in which the other searches. Nine tokens (`MaxTokens`) are an
object in an object with a property behind it, or an array of arrays, after a source that
failed; two runs (`MaxHops`) are a payload and a reply that is sent on. In `SlCli` the
printer has one ternary digit, so that ids from 3 on are rounded, and there are two lives
of the server; the strings are those of up to two characters from 19, which are the
borders of the encodings and of what needs an escape. Of the two plugin names one is
declared by two libraries. In `Connection`
two requests are one that meets what the other has left in buffers, counts and flags.
The proofs remove these bounds for safety.

Deadlock is not checked (`CHECK_DEADLOCK FALSE`) where the system stops: in `SlServer`
every client makes one request, so every instance comes to rest, and so does the real
server when no client calls; in `Sandbox`, `Nulldb` and `Startup` the process may be
gone, and in `Connection` the connection. `ActionStore`, `DataPath` and `SlCli` never
rest, and deadlock is checked.

Fairness. `WF(Enqueue)`: the handler returns from a push. `WF(Idle)`,
`WF(Cleanup)`: `uv_run` calls the idle callback and the after-work callbacks in
each round and neither waits for anything. `WF(Start(w))`, `WF(Finish(w))`: a pool
thread takes work when there is some, and code that returns, returns. No fairness
is assumed for clients, for `Close` or for the torn read. The liveness properties
except a job only when the process is gone, when its own code never returns or
when every pool thread runs code that never returns (`Hopeless`): the second is
the case of an action without limits, and the third is what it does to others.

In `Sandbox`, `WF(Load(w))`: `luaL_loadbuffer` ends. Weak fairness of `Acquire`: a mutex
that stays free is taken by a thread that waits for it; `std::mutex` promises no more, so
`TameSpec`, with strong fairness of `Acquire` and without finalizers, is used only to show
that even a fair mutex and tame scripts do not keep the time limit. Weak fairness of the
three ends of a plugin call: a plugin answers. `SF(Hook(w, "time")) \/ []<>fin[w]`: the
count hook comes every 100,000 instructions and compares a clock that goes on, so a script
that runs Lua code again and again, if only between plugin calls, meets it once the limit
has passed; strong fairness, because each plugin call disables it for a while. In a
finalizer Lua calls no hook, and its instructions count for the next one, so nothing is
promised where finalizers run for ever or come in again and again. Nothing is assumed of
the script.

In `Startup` main goes on (`WF` of `GetPersistenceLayer`, `LoadPlugin` and `Serve`); a
script may take for ever. In `Connection`, `WF(Turn)`: `serverLoop` calls `mg_mgr_poll`
for ever; `WF(Reply)`: code returns and its callback is called; `SF(Poll /\ writable')`:
a client that stays reads, so that its socket is again and again found writable.

## What TLAPS proves

Eight modules hold theorems; each statement holds for any values of the constants that
satisfy the assumptions named in the module it is about (`RingConstants`,
`ServerConstants`, `SandboxConstants`, `StoreConstants`, `NullConstants`,
`CliConstants`, ...: null is not an id, an undefined pointer is not a baton, the ids are
2..MaxId, texts are sequences of code points, and the like).

**SlServerProofs.** First the ring on its own. `RingInvariant`: `RingSpec => []RingInv`. The properties of the
ring are not inductive: that a sole asker is served needs that its callback is still the
one in the map while the run lasts, and that needs to know what an entry means
(`EntryMeans`): an entry with a callback is a request that waits, an entry without one is
a result that nobody had. `CallMade` says what one more call changes in the histories;
`PutActionKeepsInv` and `PutCallbackKeepsInv` are the two steps. `RingTypes`,
`ResultsHandedOutOnce`, `ResultsKept`, `SoleAskersServed` follow.
`RingImplementsExchange`: every step of the ring is a step of `ResultExchange`.

Then the server. `ServerInvariant`: `Spec => []ServerInv`. Jobs are numbered without
gaps, so "the jobs that wait are the last ones, in order" (`WaitingInOrder`) fixes the
deque and the pool's queue element by element, and everything that has started is at or
below `LastStarted`. That separates waiting jobs from running, finished and posted ones,
which gives `OnePlace` when a job starts and `BatonsLive` when another job's baton is
deleted. The ring's invariant is carried along by `PutActionKeepsInv` and
`PutCallbackKeepsInv`, whose hypothesis (the id is not posted yet) is part of
`ServerInv`. `JobsWaitInOrder`, `JobsInOnePlace`, `BatonsUsedWhileLive`, `ServerTypes`
follow. `ServerKeepsLifecycle`: `Spec => LifecycleSpec`. How far a job has come is spread
over five variables (`Status`); under the invariant its number says it (`Stage`: not
accepted above `lastId`, waiting above `LastStarted`), which turns each action into one
`Accept`, `Start`, `Finish` or `HandOver`, or into none. A result is handed over by the
end of a blocking run, by the end of a run that somebody waits for, or by the request
that collects it. `RingUsedRight`: `Spec => RingSpec`, so what was proved about the ring on its own
holds of the ring in the server; `ServerImplementsExchange` is the composition.
`ClientsAnsweredOnce` (`OneReply`) and `RepliesReachAskers` (`RepliesToAskers`), both assuming
`~Disconnects`: `ReplyInv`
ties a client that waits to the one place that will answer it - the baton of its
blocking run or its entry in the ring - and says that its connection is still at the
address that the closure kept, because only `Close` of an answered client frees one.
`ResultsSentOnce` needs no such assumption: `ResultInv` says that a result that was sent
was called back in the ring, which `HandedOutOnce` allows once.

**SandboxProofs.** `SandboxInvariant`: `Spec => []SandboxInv`, for any number of pool
threads. `PluginCallsExclude` needs that whoever is inside a plugin is who locked the
mutex; since a failed call leaves it locked, the converse does not hold. `MainJumpsHome`
holds because main is entered by `Primed` only, and needs the invariant for the stages of
other threads. A finalizer that calls a plugin in the middle of a plugin call of its own
thread waits for ever (`CallsInPlace`), which is why it does not break the exclusion.
`MutexLostForGood` is an action property: once the mutex is locked by a
call that has failed, no step gives it back, because the only step that unlocks belongs
to a thread inside a plugin, and that thread would hold it.

**ActionStoreProofs.** `StoreInvariant`, `ToldIsKept`, `StoreImplementsMap`. That a name
has one document is not inductive: it needs that what a handler is about to insert is
still absent, which holds because only the server thread writes, and because an error of
`hasAction` counts as "exists". `KeptAsTold` needs in addition that a delete which is under
way was asked for: from then on nobody is promised its name. `DocsChange` is the one lemma
about changes, for answers and for restarts. For the refinement each change of the documents is a
`Put` or a `Drop` of the map (`AddPuts`, `DeleteDrops`), which needs that what is about to
be deleted is there; that is so as long as the database has not failed, which is all that
`ImplementsMap` claims.

**NulldbProofs.** `NullInvariant`: a null pointer is in the map only where a run that was
hit has searched. `CrashNeedsHit` and `NulldbIsMap` follow: without a delete or a create
that overlaps with a run the process goes on, and the map is `ActionMap`'s.

**DataPathProofs.** `PointersFollowBrackets`: at any depth of nesting, `objectStack` is
one longer than the recursion, each pointer is a child of the one below and is a container
of the kind whose bracket was opened, and what is stored is stored below the top.
`PathInvariant`: `PathSpec => []PathInv`, for any names, numbers, sources and number of
runs. A value stays a tree (above every node there is a container), and a reply is one
that Lua has nothing left to change of (`IsReply`): its keys are their own texts, its
numbers are as they are printed, none of its objects is empty. For the second the proof
needs `LuaConstants` and `PrinterConstants`: what was printed is printed the same when it
is read again. `PayloadsSurvive` (`NothingElseLost`): `OneSurvives` says that of the keys of
one table that are printed alike `lua_next` leaves one; by induction on the length of paths
no two survivors have one text (`SurvivorsDiffer`), and a node that shares its text with
nobody, no more than the nodes above it, survives (`NamedSurvive`). `RepliesAreStable`
(`StableWithoutNull`): in a reply without nulls nobody shares a text, so everything survives.

`TextsAreParsed` (`ParsesJson`): for sources of any length the parser accepts exactly the
JSON texts, and fills what they denote. The invariant `ParseInv` says what the parser has
made of the tokens so far. There are numbers `opens` and `cuts`, the tokens at which the
brackets of its calls were opened and last cut, such that (`Brackets`) what lies between
the cuts of each open bracket is a part of it, each of them begins where the one around it
has begun a part, and all other brackets are containers; (`Stands`) the place in the parse
functions is what the innermost bracket has got to; (`Points`) each pointer is the path of
its bracket; (`Counts`) an array that is being filled has as many elements as have been
read; and (`Fills`) the value is what the stored tokens amount to. `BracketsOpen`,
`BracketsClose`, `BracketsComma` and `BracketsStay` say what one more token does to the
brackets of any text, `SlotIsPath` that `store()` writes where the text has the value,
`ValueGrows` that assigning there is what the reference means by keeping the last of equal
names, and `LastCloses` why a text at whose last token the parser throws cannot be JSON.

`ValuesArePrinted` (`PrintsJson`): for values of any size and depth the printer writes JSON,
and it denotes the value, but for the digits of numbers. The argument runs along the text,
with the same brackets, cuts and stored tokens as for the parser. `Says(d, p, w)`: wherever
a text has `w` in it where the value at `p` must come, that is one value for the brackets
around it, and what it stores is the node `p` and everything below it. A scalar says so
(`LeafSays`), and a container does if its children do (`ContainerSays`): `OpenSays` prints
the bracket, `PartSays` and `CommaSays` a part and the comma before the next, by induction
on the parts (`PartsSay`), `CloseSays` the end; `Framing` says where in the text each of them
is. Each child is a part once, in some order (`EntriesOf`). The printer is a function defined
by recursion on values: that there is one (`PrintExists`) and that it says what it should
(`AllSay`) are inductions on the height of a value, which is finite (`Bounded`). The invariant
is `EntriesFit`, which TLC has checked in the run `data`: the elements of an array
are numbered without a gap and the children of an object have names; the printer writes an
array in the order of its numbers, so without this it would print what is not there, or not
print what is.

**ConnectionProofs.** `ConnInvariant`: `Spec => []ConnInv`, for any number of requests of any
kinds. That handlers see their own request (`HandlersServeInOrder`) needs to know what is on
its way: `StreamInv` says that the received bytes and the wire together are the requests after
the last one that was handled, piece by piece and without a gap, so that cutting a body off
the front leaves the head of the next request there. That replies come in order
(`RepliesComeInOrder`) is not inductive because the loop thread writes a head and later a
body: `WaitingInv` says that what the client got, what is in the send buffer and the body
that is still to be written (`Pending`) are together the replies written so far.
`ClosesGracefully` is the action property, from `NoReplyLost`: as long as the connection is
open a reply is on its way to the client or still to be written. TLC has checked `ConnInv`
with two requests (49,210 states) and with three (2,168,451 states).

**StartupProofs.** `StartInvariant`, for any script; `PlainScriptsAreFiled`: scripts that
write each table right after its `Plugin` call file it under its name;
`RegistryAsConfigured`: what the registry has comes from the configuration under the
plugin's own name; `StoreAsConfigured`: who serves does so with the store that was asked
for, if any was.

**SlCliProofs.** `RoutesExclude`: no request matches two routes, for any method and path,
so the order in which they are tried does not matter. `PlainCommands`
(`CommandsDoAsTheySay`): the command for a plainly named action makes a request whose path
`Cut` takes apart at the slashes into the parts it was made of (`SplitsAction`, by induction
on the characters that are read: `CutGoesOn`, `Between`), and that matches the route of the
command and binds the name. A plain name has no character that means something in a URL or
is changed on its way (`Special`), so the address is sent as it is (`PlainUri`). Of a run
that is refused because of its payload the property says only that nothing changes. `RunsKeepTheirNumbers`: the number
of a run is its place in the ring for one life of the server, which gives `OwnResult` for
any printer. `UploadsAreIntact`: base64 decoding inverts encoding, group by group, for
files of any length. `EscapesDecode`: what is written for a `\u` escape is the shortest
UTF-8 encoding of its character.

`StringsAreRead` (`Spec => []StringsArrive`): any text, however it is spelled, is read as
its UTF-8 encoding unless a surrogate is in it; a property's name is read so just if it
needs no escape and has none; the printer's output is read back just if it has neither quote
nor backslash. `Loop` reads a source by a function that is recursive from each place to the
end (`Turns`); the proof first shows that such a function exists for each source, then that
whatever follows a spelled character is read the same way (`escapeChar` and
`readUTF8Escape` look no further than the escape), and goes back from the closing quote to
the first character. `Spellings` and `InUtf8` grow by one character at a time, which gives
the induction on the text; that names with an escape are never right follows from a spelling
being the encoding itself or having a backslash and more bytes.

Induction. The library's induction theorems take an operator as a parameter, which no
backend can instantiate. `LeastNumber` gets around this: that every set of numbers has a
least one follows from the library's theorem that finite sets are well-founded under
inclusion, which has no such parameter. `Induction` states induction for a *set* of
numbers, and `Recursion` the existence of functions that are defined step by step.

Every safety property of a passing run is stated by a theorem. Only model-checked are the
liveness properties (`BlockingRunAnswered`, `WaitingResolveAnswered`,
`OnlyMutexOrFinalizersDelay`, `ServesOrEnds`, `StayingClientIsAnswered`): they rest on
fairness and `ENABLED`, which the provers do not reach.

## What the checks found

Two runs show a disagreement of the code with its documentation:

* `server_misdelivery`: with a client that leaves before its reply, the reply goes to the
  connection that mongoose allocates at the same address (`httpserver.cpp:154`, `193`).
* `sandbox_timelimit`: a plugin call that ends by error keeps the plugin mutex, and every
  later plugin call of any action waits for ever, its time limit notwithstanding
  (`sandbox.cpp:72`).

More can be read off the models, where it is an outcome that the properties make room for:

* A result can be retrieved once, not "anytime": `putCallback` erases the entry when it
  hands the result out, so a second `resolve` waits for ever; one that comes while another
  waits is dropped (`invocationring.cpp:18-25`; `InvocationRing`).
* A finalizer is not ended by a limit, in the middle of a run neither, and one that calls a
  plugin while its own thread is inside of one locks a mutex that it holds already
  (`sandbox.cpp:72`; `Sandbox`).
* A limit that is reached before main is called jumps to a buffer that this run has not
  set (`sandbox.cpp:28`, `133`). Code without main, and errors that are no strings, assign
  a null pointer to a string (`sandbox.cpp:122`, `129`, `159`). A plugin payload that is
  no table is walked like one (`sandbox.cpp:81`), although `README.md:172` says "Payload
  can be any value" (`Sandbox`).
* A create is answered OK when its insert has failed (`mongoadapter.cpp:54`), and
  `hasAction` answers true when the database has failed (`mongoadapter.cpp:124`), although
  `persistence.h:65` says "true if an action with the given name exists"; `KeptAsTold`
  depends on that answer. `persistence.h:9-12` says that a `PersistenceError` is thrown
  "when problems occur during setup or usage": in use they are only logged (`ActionStore`).
* A script that calls neither `Nulldb` nor `Mongodb` ends the process with a
  `PersistenceError` (`main.cpp:29`), although `nulldb.h:14`, `config.h:63` and
  `config.lua:9-10` call Nulldb the default, the last "Needs no configuration". It needs to
  be called; `ServesWhatWasAsked` says nothing of scripts that call for no store (`Startup`).
* If port 8080 is taken, `mg_bind` returns null and the process crashes; connections may get
  an uninitialised pointer for the ring (`httpserver.cpp:256-257`; `Startup`).
* With Nulldb a run whose action was deleted in between dereferences a null pointer
  (`nulldb.cpp:19-22`; `Nulldb`).
* Names with `/`, `\`, `?`, `#`, blanks and some other characters address another action or
  none: `run a/block` and `run a\block` run `a` in the blocking way, `delete a?x` deletes
  `a`, and `run ""` is a create, which without a payload ends the server: the conversion of
  the missing `name` throws (`httpserver.cpp:70`). A run whose payload is `null`, `0`,
  `false` or `""` is refused, since axios sends no body for it (`SlCli`).
  Ids from a million on are printed rounded, and after a restart ids begin again, so that
  `resolve` may get the result of another run.
* Through Lua, `{}` becomes null, arrays come back as objects, and of the names "01" and
  "1" one is lost. The printer does not escape strings, and `mg_printf` takes a `%` in a
  reply for a conversion (`DataPath`, `JsonText`). A `\u` escape of a surrogate is refused,
  a pair too, and an escape in the name of a property is not undone (`JsonText`).
* A pipelined second request may wait in the buffer until more bytes come or the
  connection is closed, or become part of the first one's body; a POST without
  Content-Length is handled only when the client closes its side; a client that closes its
  side early loses the reply to a blocking run (`Connection`).
* A `Plugin` call inside of another one's table files the outer table under the inner name;
  a plugin whose own name differs from that in the script is set up with the settings of
  its own name, or null (`Startup`).
* `DecodedLength` of an empty text reads the byte before the string (`Base64`).

## Not modelled

* **mongoose** (`web/`, 22,354 of the repository's 25,883 lines) is vendored. slserver
  uses one listening socket, plain HTTP/1.1 and `mg_printf`; that path through the library - accept, poll,
  receive, `mg_parse_http`, `mg_http_handler`, send, close - is `Connection`. MQTT, CoAP, DNS,
  websockets, TLS, CGI, SSI, WebDAV, file serving, chunked and multipart bodies, the
  timers, the resolver, the UDP and the embedded-platform interfaces are compiled in but
  no path from `src/` reaches them, so there is no behaviour of slserver to state about
  them. Together they are most of the code in the repository, which is why the share
  of its lines that a model of slserver can stand for is small.
* **Logger** (`logger.h`, `cli/src/logger.ts`) and the settings for it in `config.cpp`: output only.
* **PrettyPrinter** (`json/PrettyPrinter.hpp`) is not used.
* The character level of JSON numbers and whitespace, and the line numbers that the parser counts.
* What plugins do inside `call` (`libs/`): they are kept apart by the mutex, return, fail
  or end the process (`Sandbox`); how they are loaded and set up is `Startup`.
* Lua, libuv, the MongoDB driver: external; modelled by what `src/` relies on.

## Plan

| module | of | states, checks and theorems |
|---|---|---|
| `InvocationRing`, `ResultExchange` | ring | done |
| `SlServer`, `JobLifecycle` | queue, server, pool | done |
| `Sandbox` | `runAction`, `hook`, `callPlugin` | done |
| `ActionStore`, `Nulldb`, `ActionMap` | both stores | done |
| `Router`, `SlCli`, `Base64` | routes, commands, uploads, ids across restarts | done |
| `Startup` | `config.*`, `pluginregistry.*`, `main.cpp` | done; left: nothing but logging |
| `JsonParser`, `JsonText`, `JsonPrinter`, `LuaTools`, `DataPath` | payloads | done; left: numbers, character by character |
| `Connection` | one connection of mongoose | done |
