-------------------------------- MODULE SlCli --------------------------------
(***************************************************************************)
(* cli/src/index.ts against the server's routes: what a command of slcli   *)
(* sends, which route that takes, and what the user is told.  A command    *)
(* and its request are one step here; SlServer has what happens between.   *)
(* The server may be started again, which begins the numbers of runs anew. *)
(***************************************************************************)
EXTENDS Router, Base64, JsonText

CONSTANTS Names,   \* what a user may call an action: texts, which do not begin with "-"
          Files,   \* the contents of source files: sequences of bytes
          Texts,   \* strings that a request may carry: sequences of code points
          Radix, Digits,   \* how many digits of a number the printer writes: 10 and 6
          MaxId, MaxLives, \* bounds on the runs and the starts of a server,
          MaxTold          \* and on the ids that a user remembers

ASSUME CliConstants ==
    /\ Radix \in Nat \ {0, 1} /\ Digits \in Nat \ {0}
    /\ \A name \in Names : name \in Seq(Range(name))
    /\ Files \subseteq Seq(Byte) /\ Texts \subseteq Seq(CodePoints)
    /\ MaxId \in Nat /\ MaxLives \in Nat \ {0} /\ MaxTold \in Nat

VARIABLES
    saved,     \* is there a ~/.slcli?
    stored,    \* the names of the actions of the server
    life,      \* how often the server was started
    counter,   \* ActionBaton::invocations
    runs,      \* how many runs the server has accepted since then
    started,   \* the runs that slcli was told an id of: <<life, id, number of the run>>
    pending,   \* runs that were told an id and have no result yet, and
    results,   \* what is in the ring: <<id, number of the run that has the result>>
    asked,     \* ids that somebody has asked for in vain: callbacks in the ring
    reply      \* the last command, and what became of it

vars == <<saved, stored, life, counter, runs, started, pending, results, asked, reply>>

Reply(command, subject, out) ==
    [command |-> command, subject |-> subject, out |-> out, got |-> <<>>]

Init ==
    /\ saved = FALSE
    /\ stored = {}
    /\ life = 1 /\ counter = 1 /\ runs = 0
    /\ started = {} /\ pending = {} /\ results = {} /\ asked = {}
    /\ reply = Reply("start", <<>>, "OK")

-----------------------------------------------------------------------------
(* Numbers and addresses *)

Exact(n) == n < Radix ^ Digits

(* printNumber: `ostream << double' keeps so many digits, and rounds half  *)
(* to even; slcli reads the number that was printed.                       *)
Told(n) ==
    IF Exact(n) THEN n
    ELSE LET k == CHOOSE i \in 1..n : Radix ^ (i - 1) <= n \div Radix ^ Digits
                                       /\ n \div Radix ^ Digits < Radix ^ i
             unit == Radix ^ k
             q == n \div unit
             up == 2 * (n % unit) > unit \/ (2 * (n % unit) = unit /\ q % 2 = 1)
         IN  (IF up THEN q + 1 ELSE q) * unit

(* What url.parse makes of a character in the path of a request: escapes, *)
(* p20 for "%20", that the server does not undo, and "/" of a backslash.   *)
(* One from 161 to 255, here latin1, goes out as one byte, which no name   *)
(* has that a server knows.  A blank may be a tab or an end of line, too.  *)
UrlEscapes ==
    [blank |-> "p20", quote |-> "p22", apostrophe |-> "p27", less |-> "p3C", greater |-> "p3E",
     caret |-> "p5E", backquote |-> "p60", brace |-> "p7B", bar |-> "p7C", closing |-> "p7D",
     backslash |-> "/", latin1 |-> "byte"]

OnWire(c) == IF c \in DOMAIN UrlEscapes THEN UrlEscapes[c] ELSE c

(* What is on the wire of a URL: no blanks at its end, no query, no        *)
(* fragment.                                                               *)
Uri(text) ==
    LET trimmed == SubSeq(text, 1, SelectLastInSeq(text, LAMBDA c : c # "blank"))
        end == SelectInSeq(trimmed, LAMBDA c : c \in {"?", "#"})
        path == IF end = 0 THEN trimmed ELSE SubSeq(trimmed, 1, end - 1)
    IN  [i \in DOMAIN path |-> OnWire(path[i])]

(* Node refuses to send a character above 255, or a control character,     *)
(* here "wide"; a fragment is not sent.                                    *)
Sendable(text) ==
    LET end == SelectInSeq(text, LAMBDA c : c = "#")
    IN  \A i \in DOMAIN text : text[i] = "wide" => end # 0 /\ end < i

Parts(text) == Split(Uri(text))
ActionUrl(name) == <<"/", "actions", "/">> \o name

(* Where a request about an action goes.                                   *)
Target(method, text) ==
    LET parts == Parts(text)
        route == IF Sendable(text) THEN Taken(method, parts) ELSE "none"
    IN  [route |-> route,
         name  |-> IF route \in {"delete", "block", "noblock"} THEN parts[3] ELSE <<>>]

RunTarget == [name \in Names |-> [block \in BOOLEAN |->
                 Target("POST", ActionUrl(name) \o (IF block THEN <<"/", "block">> ELSE <<>>))]]
DeleteTarget == [name \in Names |-> Target("DELETE", ActionUrl(name))]

-----------------------------------------------------------------------------
(* What the handlers do with a request, as far as slcli can tell.          *)

Stays == UNCHANGED <<saved, life, counter, runs, started, pending, results, asked>>

(* POST /actions with a name in the body.  The code must compile.          *)
CreateNamed(name, compiles, answer) ==
    LET refused == name = <<>> \/ name \in stored \/ ~compiles
    IN  /\ stored' = IF refused THEN stored ELSE stored \union {name}
        /\ reply' = [answer EXCEPT !.out = IF refused THEN "refused" ELSE "OK"]
        /\ Stays

Ids(pairs) == {pair[1] : pair \in pairs}

(* A run of an action is accepted under an id, and the counter moves on.   *)
(* Code that fails in a blocking run makes the reply an error.             *)
Accept(name, action, block, id, next) ==
    /\ id <= MaxId
    /\ counter' = next /\ runs' = runs + 1
    /\ \/ /\ block
          /\ \E out \in {"result", "failed"} :
                reply' = [Reply("run", name, out) EXCEPT !.got = action]
          /\ UNCHANGED <<started, pending>>
       \/ /\ ~block
          /\ Cardinality(started) < MaxTold
          /\ reply' = [Reply("run", name, "id") EXCEPT !.got = action]
          /\ started' = started \union {<<life, id, runs + 1>>}
          /\ pending' = pending \union {<<id, runs + 1>>}
    /\ UNCHANGED <<saved, stored, life, results, asked>>

(* Mutant: only blocking runs advance the counter.                         *)
StartRun_Shared(name, action, block) ==
    Accept(name, action, block, counter, IF block THEN counter + 1 ELSE counter)

StartRun(name, action, block) == Accept(name, action, block, counter, counter + 1)

(* The process ends and is started again.  The ring and the counter begin  *)
(* anew; the actions stay if the store is a database, and are gone if it   *)
(* is Nulldb.                                                              *)
StartAgain(answer) ==
    /\ life < MaxLives
    /\ life' = life + 1 /\ counter' = 1 /\ runs' = 0
    /\ pending' = {} /\ results' = {} /\ asked' = {}
    /\ stored' \in {stored, {}}
    /\ reply' = answer
    /\ UNCHANGED <<saved, started>>

(* A run ends.  A request that waits for its id in the ring gets the       *)
(* result, and is gone long ago.                                           *)
Finish(run) ==
    /\ pending' = pending \ {run}
    /\ results' = IF run[1] \in asked THEN results ELSE results \union {run}
    /\ asked' = asked \ {run[1]}
    /\ reply' = Reply("", <<>>, "")
    /\ UNCHANGED <<saved, stored, life, counter, runs, started>>

-----------------------------------------------------------------------------
(* The commands *)

(* The other commands look at ~/.slcli first; run does not, and the URL of *)
(* null ends it.  Either way no request is made.                           *)
Ping(command) ==
    /\ command = "connect" \/ saved
    /\ Taken("GET", Parts(<<"/", "ping">>)) = "ping"
    /\ saved' = TRUE
    /\ reply' = Reply(command, <<>>, "OK")
    /\ UNCHANGED <<stored, life, counter, runs, started, pending, results, asked>>

Unconnected(command) ==
    /\ ~saved
    /\ reply' = Reply(command, <<>>, "no server")
    /\ UNCHANGED <<saved, stored, life, counter, runs, started, pending, results, asked>>

(* What the user got says here what the server has made of the file.       *)
Uploads ==
    [file \in Files |-> LET text == Encode(file)
                        IN  <<file, Written(text), DecodedLength(text)>>]

Create(name, file) ==
    /\ saved
    /\ Taken("POST", Parts(<<"/", "actions">>)) = "create"
    /\ \E compiles \in BOOLEAN :
          CreateNamed(name, compiles, [Reply("create", name, "") EXCEPT !.got = Uploads[file]])

(* The payload: JSON; a string that is none, sent as it is, or JSON that   *)
(* the server's parser refuses; null, zero, false or an empty string,      *)
(* which axios leaves out; true or another number, which it does not send. *)
Bodies == {"json", "no json", "empty", "unsendable"}

Untouched(name, out) ==
    reply' = Reply("run", name, out) /\ UNCHANGED stored /\ Stays

Run(name, block, body) ==
    LET to == RunTarget[name][block]
        sent == to.route # "none" /\ body # "unsendable"
        found == to.route \in {"block", "noblock"} /\ to.name \in stored
    IN  /\ saved
        /\ \/ ~sent /\ Untouched(name, "no request")
           \/ sent /\ body = "empty" /\ Untouched(name, "refused")
           \/ /\ sent /\ body = "no json"
              /\ Untouched(name, IF found \/ to.route = "create" THEN "refused" ELSE "not found")
           \/ /\ sent /\ body = "json"
              /\ \/ found /\ StartRun(name, to.name, to.route = "block")
                 \/ /\ ~found /\ to.route # "create"
                    /\ Untouched(name, "not found")
                 \/ /\ to.route = "create"   \* no name, or one of another type, throws
                    /\ \/ \E other \in Names, compiles \in BOOLEAN :
                             CreateNamed(other, compiles, Reply("run", name, ""))
                       \/ StartAgain(Reply("run", name, "no answer"))

Delete(name) ==
    LET to == DeleteTarget[name]
    IN  /\ saved
        /\ IF to.route = "delete" /\ to.name \in stored
           THEN stored' = stored \ {to.name} /\ reply' = Reply("delete", name, "OK")
           ELSE stored' = stored /\ reply' = Reply("delete", name, "refused")
        /\ Stays

List ==
    /\ saved
    /\ Taken("GET", Parts(<<"/", "actions">>)) = "list"
    /\ reply' = [Reply("list", <<>>, "OK") EXCEPT !.got = stored]
    /\ UNCHANGED stored /\ Stays

(* The user asks with the number that was told for a run.  slcli waits for *)
(* five seconds, in which a run may end; its callback stays in the ring.   *)
Resolve(run) ==
    LET number == Told(run[2])
        there  == {result \in results : result[1] = number}
        ending == {result \in pending : result[1] = number /\ number \notin asked}
    IN  /\ saved
        /\ \/ \E result \in there \union ending :
                  /\ reply' = [Reply("resolve", run, "result") EXCEPT !.got = result[2]]
                  /\ results' = results \ {result} /\ pending' = pending \ {result}
                  /\ UNCHANGED asked
           \/ /\ there = {}
              /\ reply' = Reply("resolve", run, "timeout")
              /\ asked' = asked \union {number}
              /\ UNCHANGED <<results, pending>>
        /\ UNCHANGED <<saved, stored, life, counter, runs, started>>

Restart == StartAgain(Reply("start", <<>>, "OK"))

Next ==
    \/ \E command \in {"connect", "ping"} : Ping(command)
    \/ \E command \in {"ping", "run", "create", "delete", "list", "resolve"} :
          Unconnected(command)
    \/ List
    \/ Restart
    \/ \E name \in Names :
          \/ \E file \in Files : Create(name, file)
          \/ \E block \in BOOLEAN, body \in Bodies : Run(name, block, body)
          \/ Delete(name)
    \/ \E run \in started : Resolve(run)
    \/ \E run \in pending : Finish(run)

Spec == Init /\ [][Next]_vars

-----------------------------------------------------------------------------

(* Every variable has its type, and no id has both a result and a request. *)
CliTypeOK ==
    /\ saved \in BOOLEAN /\ stored \subseteq Names
    /\ life \in 1..MaxLives /\ counter \in 1..(MaxId + 1)
    /\ runs \in 0..MaxId
    /\ started \subseteq (1..MaxLives) \X (1..MaxId) \X (1..MaxId)
    /\ pending \subseteq (1..MaxId) \X (1..MaxId)
    /\ results \subseteq (1..MaxId) \X (1..MaxId) /\ asked \subseteq {Told(n) : n \in 1..MaxId}
    /\ Ids(results) \intersect asked = {}

(* What means something in a URL, or does not reach the server as it is.   *)
Special == DOMAIN UrlEscapes \union {"/", "?", "#", "wide"}

Plain(name) == name # <<>> /\ Special \intersect Range(name) = {}

(* A user who names actions plainly is told the truth: each command acts   *)
(* on the action it names and on nothing else, a run that was started is   *)
(* one of this action, and one that is not found is not there; what other  *)
(* users call theirs does not matter.                                      *)
CommandsDoAsTheySay ==
    [][LET name == reply'.subject
           out  == reply'.out
       IN  /\ reply'.command = "delete" /\ Plain(name) =>
                /\ stored' = stored \ {name}
                /\ out \in {"OK", "refused"} /\ (out = "OK" <=> name \in stored)
           /\ reply'.command = "run" /\ Plain(name) =>
                /\ stored' = stored
                /\ out \in {"id", "result", "failed"} => name \in stored /\ reply'.got = name
                /\ out = "not found" => name \notin stored
                /\ out \in {"id", "result", "failed", "not found", "refused", "no request"}
      ]_vars

(* A source file comes out of the server's decoder as it was, in the space *)
(* that the decoder has made for it.                                       *)
UploadIntact ==
    reply.command = "create" /\ reply.out # "no server" =>
        reply.got[1] = reply.got[2] /\ Len(reply.got[2]) = reply.got[3]

Misread == {text \in Texts : ~(Faithful(text) /\ NamedFaithfully(text)
                                  /\ PrintedFaithfully(text))}

(* However JSON lets a client spell a string, the server reads the same    *)
(* text, except that it refuses escaped surrogates.  The name of a         *)
(* property arrives if it is spelled without escapes, and what the server  *)
(* prints can be read if it holds no quote and no reverse solidus.         *)
StringsArrive == reply.command \in {"create", "run"} /\ reply.out # "no server" => Misread = {}

(* Whoever resolves a run of this life of the server, below the limit of   *)
(* the printer, with the number it was told gets the result of that run or *)
(* none; a number from an earlier life may be that of another run.         *)
OwnResult ==
    reply.command = "resolve" /\ reply.out = "result"
        /\ reply.subject[1] = life /\ Exact(reply.subject[2])
        => reply.got = reply.subject[3]

(* The inductive invariant of OwnResult: the server's number of a run, and *)
(* so its place in the ring, is how many runs there were before, plus one. *)
CliInv ==
    /\ CliTypeOK /\ OwnResult
    /\ counter = runs + 1
    /\ \A run \in started : run[2] = run[3]
    /\ \A run \in pending \union results : run[1] = run[2]

=============================================================================
