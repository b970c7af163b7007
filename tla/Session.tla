-------------------------------- MODULE Session --------------------------------
(***************************************************************************)
(* One tool call between the MCP server and the plugin, in time: the       *)
(* server resolves the instance (connect, handshake, ping), sends one      *)
(* request with its deadline and reads one answer; the plugin serves one   *)
(* connection at a time on its accept thread (session.rs, pipe_client.rs,  *)
(* mcp/server.rs), each stage within its share of the budget (budget.rs).  *)
(*                                                                         *)
(* Time passes in Tick, for every deadline that runs.  A wait whose        *)
(* deadline has come may still end well if its event is there too.         *)
(* Which descriptor is read and what an edit does inside its section are   *)
(* InstanceRegistry and EditRequest.                                       *)
(***************************************************************************)
EXTENDS Integers, Sequences, FiniteSets

CONSTANTS
  Call,            \* the tool calls
  Nobody,          \* no call holds the pipe
  Kinds,           \* the kinds of request the calls make
  ConnectCap, HandshakeLimit, WriteLimit, Headroom, IdleLimit,
  ExecLimit,       \* [Kinds -> Nat]: the plugin's limit on an execution
  Ingest,          \* what the server keeps back from a render's phase
  ResolveBudget,
  PhaseBudget,     \* [Kinds -> Nat]: the server's budget of the request phase
  MaxMishaps       \* bound on I/O errors and adjustments of the wall clock

\* An edit with unreadable params, and one the plugin does not know.
Hopeless == {"malformed", "unsupported"}
Edits == {"edit"} \cup Hopeless
AllKinds == {"read", "render"} \cup Edits

Reserve(k) == IF k = "render" THEN Ingest ELSE 0
\* What the request may take until its answer is read. Mutant: the plugin's
\* write is taken for a stage of the server's.
BudgetLessWrite(k) == PhaseBudget[k] - Reserve(k) - WriteLimit
IpcBudget(k) == PhaseBudget[k] - Reserve(k)
ConnectReserve == HandshakeLimit + WriteLimit
Least(a, b) == IF a < b THEN a ELSE b

ASSUME CallAssumption == Nobody \notin Call /\ Kinds \subseteq AllKinds
ASSUME LimitAssumption ==
  /\ {ConnectCap, HandshakeLimit, WriteLimit, Headroom, IdleLimit, Ingest,
      ResolveBudget, MaxMishaps} \subseteq Nat
  /\ ExecLimit \in [Kinds -> Nat]
  /\ PhaseBudget \in [Kinds -> Nat]
\* The inequalities without which a set of budgets is not adopted.
ASSUME BudgetAssumption ==
  /\ ConnectCap + HandshakeLimit + WriteLimit + Headroom <= ResolveBudget
  /\ \A k \in Kinds :
       ExecLimit[k] + WriteLimit + Reserve(k) + Headroom <= PhaseBudget[k]
  /\ 2 * Headroom < IdleLimit
\* Whole seconds, and the scale of the budgets is at least a tenth.
ASSUME PositiveAssumption ==
  0 \notin {HandshakeLimit, WriteLimit} \cup {ExecLimit[k] : k \in Kinds}

VARIABLES
  call,       \* the server's side of each call
  conn,       \* the one pipe instance and the frames in it
  plugin,     \* the accept thread
  carried,    \* what the wall clock leaves of the deadline of the request in hand
  lifecycle,  \* the instance's state
  running,    \* the calls whose edit section has not returned
  applied,    \* the calls whose edit changed the project
  after,      \* the calls that were over when a call began
  spent,      \* ticks of the exchange under way, by what they went into
  mishaps     \* I/O errors and clock adjustments so far

vars == <<call, conn, plugin, carried, lifecycle, running, applied, after, spent, mishaps>>

MostBudget == ResolveBudget + IdleLimit + HandshakeLimit + WriteLimit
Waiting == {"authenticating", "pinging", "asking"}
\* Answers of the plugin, and those the server makes up itself.
FromPlugin == {"done", "failed", "late", "expired", "busy", "invalid", "unsupported"}
FromServer == {"unresolved", "unknown", "lost"}
ToPlugin == {"hello", "client_auth", "ping", "request"}
ToCaller == {"server_auth", "pong", "pong_draining"} \cup FromPlugin

NewCall == [at |-> "new", kind |-> "none", left |-> 0, answer |-> "none"]
NoConnection == [who |-> Nobody, open |-> FALSE, in |-> <<>>, out |-> <<>>]
Listening == [at |-> "listening", left |-> 0, run |-> 0, reply |-> "none"]
NothingSpent == [work |-> 0, write |-> 0, wait |-> 0]
\* Some stage of the exchange has taken more than its share.
Overrun == [NothingSpent EXCEPT !.wait = Headroom + 1]

Init ==
  /\ call = [c \in Call |-> NewCall]
  /\ conn = NoConnection
  /\ plugin = Listening
  /\ carried = 0
  /\ lifecycle \in {"starting", "ready"}
  /\ running = {} /\ applied = {}
  /\ after = [c \in Call |-> {}]
  /\ spent = NothingSpent
  /\ mishaps = 0

-----------------------------------------------------------------------------
(* The server.                                                             *)

\* One snapshot of the budgets, then the descriptor and the process check.
Begin(c, k) ==
  /\ call[c].at = "new"
  /\ call' = [call EXCEPT ![c] = [at |-> "connecting", kind |-> k,
                                  left |-> ResolveBudget, answer |-> "none"]]
  /\ after' = [after EXCEPT ![c] = {d \in Call : call[d].at = "over"}]
  /\ UNCHANGED <<conn, plugin, carried, lifecycle, running, applied, spent, mishaps>>

\* The pipe has an instance to offer only while nobody is being served.  The
\* hello is written at once, and the plugin's handshake limit starts.
Connect(c) ==
  /\ call[c].at = "connecting"
  /\ call[c].left >= ConnectReserve
  /\ plugin.at = "listening"
  /\ call' = [call EXCEPT ![c].at = "authenticating"]
  /\ conn' = [who |-> c, open |-> TRUE, in |-> <<"hello">>, out |-> <<>>]
  /\ plugin' = [Listening EXCEPT !.at = "hello", !.left = HandshakeLimit]
  /\ spent' = IF ResolveBudget - call[c].left <= ConnectCap THEN NothingSpent ELSE Overrun
  /\ UNCHANGED <<carried, lifecycle, running, applied, after, mishaps>>

\* What a call without an answer of the plugin reports.  Mutant: an edit that
\* was not answered was not made.
OwnReportUntouched(c) ==
  IF call[c].at # "asking" THEN "unresolved"
  ELSE IF call[c].kind = "edit" THEN "expired" ELSE "lost"
OwnReport(c) ==
  IF call[c].at # "asking" THEN "unresolved"
  ELSE IF call[c].kind \in Edits THEN "unknown" ELSE "lost"

\* Every end of a call drops its connection.
Over(c, answer) ==
  /\ call' = [call EXCEPT ![c] = [@ EXCEPT !.at = "over", !.left = 0, !.answer = answer]]
  /\ conn' = IF conn.who = c THEN [conn EXCEPT !.open = FALSE, !.out = <<>>] ELSE conn
  /\ spent' = IF conn.who = c THEN NothingSpent ELSE spent

\* connect_pipe stops at the latest when only the share of handshake and ping
\* is left, and at once when no instance of the pipe exists at that moment.
GiveUpConnecting(c) ==
  /\ call[c].at = "connecting"
  /\ Over(c, "unresolved")
  /\ UNCHANGED <<plugin, carried, lifecycle, running, applied, after, mishaps>>

Arrived(c, m) == conn.who = c /\ conn.out # <<>> /\ Head(conn.out) = m

\* The server's half of the handshake, and the ping right behind it.
Authenticate(c) ==
  /\ call[c].at = "authenticating"
  /\ Arrived(c, "server_auth")
  /\ call' = [call EXCEPT ![c].at = "pinging"]
  /\ conn' = [conn EXCEPT !.in = @ \o <<"client_auth", "ping">>, !.out = Tail(@)]
  /\ carried' = call[c].left
  /\ UNCHANGED <<plugin, lifecycle, running, applied, after, spent, mishaps>>

\* The request goes over the connection the ping came back on.
Ask(c) ==
  /\ call[c].at = "pinging"
  /\ Arrived(c, "pong")
  /\ LET budget == IpcBudget(call[c].kind)
     IN  /\ call' = [call EXCEPT ![c].at = "asking", ![c].left = budget]
         /\ carried' = budget
  /\ conn' = [conn EXCEPT !.in = Append(@, "request"), !.out = Tail(@)]
  /\ spent' = IF spent = Overrun THEN Overrun ELSE NothingSpent
  /\ UNCHANGED <<plugin, lifecycle, running, applied, after, mishaps>>

\* A pong of a draining instance, or a refused ping.
PingFails(c) ==
  /\ call[c].at = "pinging"
  /\ Arrived(c, "pong_draining") \/ Arrived(c, "expired")
  /\ Over(c, "unresolved")
  /\ UNCHANGED <<plugin, carried, lifecycle, running, applied, after, mishaps>>

\* The plugin's answer is passed on as it is.
TakeAnswer(c, m) ==
  /\ call[c].at = "asking"
  /\ m \in FromPlugin /\ Arrived(c, m)
  /\ Over(c, m)
  /\ UNCHANGED <<plugin, carried, lifecycle, running, applied, after, mishaps>>

\* The deadline, the plugin's end of the pipe closing, or an I/O error.
NoAnswer(c) ==
  /\ call[c].at \in Waiting
  /\ \/ call[c].left = 0 /\ UNCHANGED mishaps
     \/ conn.who # c /\ UNCHANGED mishaps
     \/ mishaps < MaxMishaps /\ mishaps' = mishaps + 1
  /\ Over(c, OwnReport(c))
  /\ UNCHANGED <<plugin, carried, lifecycle, running, applied, after>>

-----------------------------------------------------------------------------
(* The plugin's accept thread.                                             *)

NextFrame(m) == conn.in # <<>> /\ Head(conn.in) = m
Received == [conn EXCEPT !.in = Tail(@)]

\* The handler returns: the handle is closed and a new instance listens.
Drop ==
  /\ conn' = NoConnection
  /\ plugin' = Listening
  /\ carried' = 0

\* The top of the request loop, with the frames the pipe then holds.
Loop(pipe) ==
  IF lifecycle = "draining" THEN Drop
  ELSE /\ conn' = pipe
       /\ plugin' = [Listening EXCEPT !.at = "idle", !.left = IdleLimit]
       /\ UNCHANGED carried

PluginHello ==
  /\ plugin.at = "hello" /\ NextFrame("hello")
  /\ IF conn.open
     THEN /\ conn' = [Received EXCEPT !.out = Append(@, "server_auth")]
          /\ plugin' = [plugin EXCEPT !.at = "auth"]
          /\ UNCHANGED carried
     ELSE Drop
  /\ UNCHANGED <<call, lifecycle, running, applied, after, spent, mishaps>>

PluginAuth ==
  /\ plugin.at = "auth" /\ NextFrame("client_auth")
  /\ Loop(Received)
  /\ UNCHANGED <<call, lifecycle, running, applied, after, spent, mishaps>>

\* A reply to be written within the given time.
Reply(m, time) == [Listening EXCEPT !.at = "sending", !.left = time, !.reply = m]
Refusal(m) == Reply(m, WriteLimit)

PluginPing ==
  /\ plugin.at = "idle" /\ NextFrame("ping")
  /\ conn' = Received
  /\ plugin' =
       IF carried = 0 THEN Refusal("expired")
       ELSE Reply(IF lifecycle = "draining" THEN "pong_draining" ELSE "pong",
                  Least(WriteLimit, carried))
  /\ carried' = 0
  /\ UNCHANGED <<call, lifecycle, running, applied, after, spent, mishaps>>

\* What is wrong with a request whatever the moment, then what is wrong now.
\* Mutant: the deadline is not looked at.
RefusedNeverLate(k) ==
  IF k = "unsupported" THEN "unsupported"
  ELSE IF k = "malformed" THEN "invalid"
  ELSE IF lifecycle \in {"starting", "draining"} THEN "busy" ELSE "none"
Refused(k) ==
  IF k = "unsupported" THEN "unsupported"
  ELSE IF k = "malformed" THEN "invalid"
  ELSE IF lifecycle \in {"starting", "draining"} THEN "busy"
  ELSE IF carried = 0 THEN "expired" ELSE "none"

\* A read's refusal too is sent in what is left of its deadline.
RefusalOf(k, m) ==
  IF k = "read" /\ carried > 0 THEN Reply(m, Least(WriteLimit, carried)) ELSE Refusal(m)

PluginRequest ==
  /\ plugin.at = "idle" /\ NextFrame("request")
  /\ conn' = Received
  /\ LET k == call[conn.who].kind
         no == Refused(k)
     IN  IF no # "none"
         THEN plugin' = RefusalOf(k, no) /\ carried' = 0 /\ UNCHANGED running
         ELSE /\ plugin' = [Listening EXCEPT !.at = "executing",
                                             !.run = Least(ExecLimit[k], carried)]
              /\ carried' = IF k = "read" THEN carried ELSE 0
              /\ running' = IF k = "edit" THEN running \cup {conn.who} ELSE running
  /\ UNCHANGED <<call, lifecycle, applied, after, spent, mishaps>>

\* Inside the edit section, however long the host takes to run it.
EditTakesEffect(c) ==
  /\ c \in running \ applied
  /\ applied' = applied \cup {c}
  /\ UNCHANGED <<call, conn, plugin, carried, lifecycle, running, after, spent, mishaps>>

\* A read's result is dropped when its deadline has passed and else sent in
\* what is left of it; an edit's or a render's is always sent.
ReadReply(outcome) ==
  IF plugin.run = 0 \/ carried = 0
  THEN Refusal(IF outcome = "done" THEN "late" ELSE outcome)
  ELSE Reply(outcome, Least(WriteLimit, carried))
\* Mutant: past the limit of the execution the result is dropped, as a read's.
RetainedReplyInTime(outcome) ==
  IF plugin.run = 0 THEN Refusal("late") ELSE Reply(outcome, WriteLimit)
RetainedReply(outcome) == Reply(outcome, WriteLimit)

Finish(outcome) ==
  /\ plugin.at = "executing"
  /\ LET k == call[conn.who].kind
     IN  /\ k = "edit" => outcome = IF conn.who \in applied THEN "done" ELSE "failed"
         /\ plugin' = IF k = "read" THEN ReadReply(outcome) ELSE RetainedReply(outcome)
  /\ running' = running \ {conn.who}
  /\ carried' = 0
  /\ UNCHANGED <<call, conn, lifecycle, applied, after, spent, mishaps>>

SendReply ==
  /\ plugin.at = "sending" /\ conn.open
  /\ Loop([conn EXCEPT !.out = Append(@, plugin.reply)])
  /\ UNCHANGED <<call, lifecycle, running, applied, after, spent, mishaps>>

\* A frame that cannot be written, the caller's end closed with nothing left to
\* read, or the limit of the wait.  Mutant: also an execution beyond its limit.
DropsTheOverdue ==
  /\ \/ plugin.at = "sending" /\ (~conn.open \/ plugin.left = 0)
     \/ plugin.at \in {"hello", "auth", "idle"} /\ plugin.left = 0
     \/ plugin.at \in {"hello", "auth", "idle"} /\ ~conn.open /\ conn.in = <<>>
     \/ plugin.at = "executing" /\ plugin.run = 0
  /\ Drop
  /\ UNCHANGED <<call, lifecycle, running, applied, after, spent, mishaps>>
PluginDrops ==
  /\ \/ plugin.at = "sending" /\ (~conn.open \/ plugin.left = 0)
     \/ plugin.at \in {"hello", "auth", "idle"} /\ plugin.left = 0
     \/ plugin.at \in {"hello", "auth", "idle"} /\ ~conn.open /\ conn.in = <<>>
  /\ Drop
  /\ UNCHANGED <<call, lifecycle, running, applied, after, spent, mishaps>>

-----------------------------------------------------------------------------
(* Around them.                                                            *)

LifecycleMoves ==
  /\ lifecycle' = IF lifecycle = "starting" THEN "ready" ELSE "draining"
  /\ lifecycle # "draining"
  /\ UNCHANGED <<call, conn, plugin, carried, running, applied, after, spent, mishaps>>

\* The wall clock is put far ahead or far back between the two readings.
ClockJumps ==
  /\ mishaps < MaxMishaps
  /\ carried > 0
  /\ mishaps' = mishaps + 1
  /\ carried' \in {0, MostBudget}
  /\ UNCHANGED <<call, conn, plugin, lifecycle, running, applied, after, spent>>

\* An execution of less than its limit, a write of less than its, and the rest.
WithinShares(s, c) ==
  /\ s.work < (IF call[c].at = "asking" THEN ExecLimit[call[c].kind] ELSE HandshakeLimit)
  /\ s.write < WriteLimit
  /\ s.wait <= Headroom

\* Saturating, as every remaining time is.
Less(n) == IF n > 0 THEN n - 1 ELSE 0
Charged ==
  CASE plugin.at \in {"hello", "auth", "executing"} -> [spent EXCEPT !.work = @ + 1]
    [] plugin.at = "sending" -> [spent EXCEPT !.write = @ + 1]
    [] OTHER -> [spent EXCEPT !.wait = @ + 1]

\* Time is charged to the exchange until a share of it is used up.
Tick ==
  /\ call' = [c \in Call |-> [call[c] EXCEPT !.left = Less(@)]]
  /\ plugin' = [plugin EXCEPT !.left = Less(@), !.run = Less(@)]
  /\ carried' = Less(carried)
  /\ spent' = IF ~conn.open THEN spent
              ELSE IF WithinShares(Charged, conn.who) THEN Charged ELSE Overrun
  /\ UNCHANGED <<conn, lifecycle, running, applied, after, mishaps>>

Next ==
  \/ \E c \in Call : \/ \E k \in Kinds : Begin(c, k)
                     \/ Connect(c)
                     \/ GiveUpConnecting(c)
                     \/ Authenticate(c)
                     \/ Ask(c)
                     \/ PingFails(c)
                     \/ \E m \in FromPlugin : TakeAnswer(c, m)
                     \/ NoAnswer(c)
                     \/ EditTakesEffect(c)
  \/ PluginHello
  \/ PluginAuth
  \/ PluginPing
  \/ PluginRequest
  \/ \E outcome \in {"done", "failed"} : Finish(outcome)
  \/ SendReply
  \/ PluginDrops
  \/ LifecycleMoves
  \/ ClockJumps
  \/ Tick

Spec == Init /\ [][Next]_vars

-----------------------------------------------------------------------------
(* What a call may rely on.                                                *)

TypeOK ==
  /\ call \in [Call -> [at : {"new", "connecting", "over"} \cup Waiting,
                        kind : Kinds \cup {"none"}, left : Nat,
                        answer : FromPlugin \cup FromServer \cup {"none"}]]
  /\ conn \in [who : Call \cup {Nobody}, open : BOOLEAN,
               in : Seq(ToPlugin), out : Seq(ToCaller)]
  /\ plugin \in [at : {"listening", "hello", "auth", "idle", "executing", "sending"},
                 left : Nat, run : Nat, reply : ToCaller \cup {"none"}]
  /\ carried \in Nat
  /\ lifecycle \in {"starting", "ready", "draining"}
  /\ running \subseteq Call /\ applied \subseteq Call
  /\ after \in [Call -> SUBSET Call]
  /\ spent \in [work : Nat, write : Nat, wait : Nat]
  /\ mishaps \in 0 .. MaxMishaps

\* What an edit's answer says of the project is so, now and at any later time:
\* a success made the change, and every answer that claims the project
\* untouched (also a call that reached no instance) never lets it be made
\* later.  Only a call that was sent and got no answer leaves it open.
AnswersAreTrue ==
  \A c \in Call : call[c].kind = "edit" =>
    /\ call[c].answer = "done" => c \in applied
    /\ call[c].answer \in {"unresolved", "busy", "expired", "failed"} =>
         c \notin applied \cup running

\* The way out of "unknown" is to fetch again: once a read that began after the
\* call's end has been answered, the edit no longer changes anything, however
\* long its section was held up (mcp/failure.rs asks for a refetch).
RefetchIsConclusive ==
  [][\A c, d \in Call :
       c \in after[d] /\ call[d].kind = "read" /\ call[d].answer = "done" =>
         (c \in applied' => c \in applied)]_vars

\* Without I/O errors and clock adjustments an edit is entered only while its
\* caller still waits for the answer.
EditStartsWhileAwaited ==
  [][\A c \in Call : c \in running' \ running /\ mishaps = 0 =>
       call[c].at = "asking"]_vars

\* A request that cannot succeed at any time is never answered with what
\* invites sending it again, whatever the lifecycle and the deadline.
HopelessIsSaidSo ==
  \A c \in Call : call[c].kind \in Hopeless =>
    call[c].answer \notin {"busy", "expired", "late", "failed", "done"}

\* The result of an edit that was made is never thrown away: while the caller
\* still waits and the plugin's own limit has not come, it keeps the connection
\* until it has that result, however far the execution is past its deadline.
EditResultIsKept ==
  [][\A c \in applied \ running :
       /\ conn.who = c /\ conn.open /\ call[c].at = "asking"
       /\ call[c].left > 0 /\ plugin.left > 0
       /\ mishaps' = mishaps /\ lifecycle # "draining"
       => IF call'[c].at = "over" THEN call'[c].answer = "done" ELSE conn'.open]_vars

\* An edit has its caller from its start to its answer.
EditMeetsItsCaller == EditStartsWhileAwaited /\ EditResultIsKept

\* If every stage keeps within its share, an instance that is neither starting
\* its shutdown nor disturbed answers in time.
PromptIsAnswered ==
  [][\A c \in Call : conn.who = c /\ conn.open /\ spent # Overrun
                    /\ mishaps' = 0 /\ lifecycle' # "draining" =>
       IF call'[c].at = "over"
       THEN call'[c].answer \notin FromServer \cup {"late", "expired"}
       ELSE conn'.open]_vars
===============================================================================
