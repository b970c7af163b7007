---------------------------- MODULE ConnectionProofs ----------------------------
(***************************************************************************)
(* Theorems about Connection for any set of calls, any budgets that fit,   *)
(* any frames, chunks and room in the pipe.                                *)
(*                                                                         *)
(* Messages.  The one pipe carries at most one exchange, and that exchange *)
(* goes through six situations in order: Situation lists them, each with   *)
(* what the accept thread does, the frames under way and how far the       *)
(* caller is.  What the project has seen of an edit is then tied to the    *)
(* situation (Honest), to who may still be served (Settled) and to the     *)
(* deadline of the request under way (SameDeadline).  In an exchange that  *)
(* nothing disturbs, the time a stage has left and the time charged to it  *)
(* make up its limit (Prompt), so that no deadline comes too early.        *)
(*                                                                         *)
(* Bytes.  What a reader holds and what is on its way to it are the units  *)
(* of one frame without a gap (InTurn), and each unit is where it is       *)
(* because it is somebody's turn: the request is on its way, the plugin    *)
(* has it, its answer is out, or nothing is under way (Turn).  An end, its *)
(* OverlappedOp and the kernel's operation fit each other (EndFits).       *)
(***************************************************************************)
EXTENDS Connection, SequenceTheorems, TLAPS

\* The caller's request has not been written, or may have been.
Unasked(c) ==
  \/ call[c].at \in {"authenticating", "pinging"}
  \/ call[c].at = "over" /\ call[c].answer = "unresolved"
Asked(c) ==
  \/ call[c].at = "asking"
  \/ call[c].at = "over" /\ call[c].answer \in {"unknown", "lost"}
Answered(c) == call[c].at = "over" /\ call[c].answer \in FromPlugin

PongFrames == {"pong", "pong_draining", "expired"}

Greeting(c) ==
  /\ Unasked(c)
  /\ \/ plugin.at = "hello" /\ conn.in = <<"hello">> /\ conn.out = <<>>
     \/ plugin.at = "auth" /\ conn.in = <<>> /\ conn.out \in {<<>>, <<"server_auth">>}
     \/ plugin.at = "auth" /\ conn.in = <<"client_auth", "ping">> /\ conn.out = <<>>
Pinging(c) ==
  /\ Unasked(c)
  /\ \/ plugin.at = "idle" /\ conn.in = <<"ping">> /\ conn.out = <<>>
     \/ /\ plugin.at = "sending" /\ conn.in = <<>> /\ conn.out = <<>>
        /\ plugin.reply \in PongFrames
     \/ /\ plugin.at = "idle" /\ conn.in = <<>>
        /\ conn.out \in {<<>>, <<"pong">>, <<"pong_draining">>, <<"expired">>}
Requested(c) ==
  Asked(c) /\ plugin.at = "idle" /\ conn.in = <<"request">> /\ conn.out = <<>>
Executing(c) ==
  Asked(c) /\ plugin.at = "executing" /\ conn.in = <<>> /\ conn.out = <<>>
Sending(c) ==
  /\ Asked(c) /\ plugin.at = "sending" /\ conn.in = <<>> /\ conn.out = <<>>
  /\ plugin.reply \in FromPlugin
Sent(c) ==
  /\ plugin.at = "idle" /\ conn.in = <<>>
  /\ \/ Asked(c) /\ \E m \in FromPlugin : conn.out = <<m>>
     \/ (Asked(c) \/ Answered(c)) /\ conn.out = <<>>
Situation ==
  IF conn.who = Nobody THEN conn = NoConnection /\ plugin = Listening
  ELSE LET c == conn.who
       IN  \/ Greeting(c)
           \/ Pinging(c)
           \/ Requested(c)
           \/ Executing(c)
           \/ Sending(c)
           \/ Sent(c)

\* A reply says what has become of the request.
Says(c, m) ==
  /\ call[c].kind = "edit" =>
       /\ m = "done" => c \in applied
       /\ m \in {"busy", "expired", "failed"} => c \notin applied
       /\ m \notin {"late", "invalid", "unsupported"}
  /\ call[c].kind \in Hopeless => m \notin {"busy", "expired", "late", "failed", "done"}

OnlyTheServedRuns ==
  \A c \in running : plugin.at = "executing" /\ conn.who = c /\ call[c].kind = "edit"
NoAnswerYet == \A c \in Call : call[c].at # "over" => call[c].answer = "none"
UnaskedUnapplied ==
  \A c \in Call : call[c].at \in {"new", "connecting"} \/ Unasked(c) => c \notin applied
RequestedUnapplied ==
  conn.who \in Call /\ Requested(conn.who) => conn.who \notin applied
ExecutingHasHope ==
  conn.who \in Call /\ plugin.at = "executing" => call[conn.who].kind \notin Hopeless
SendingSays == conn.who \in Call /\ Sending(conn.who) => Says(conn.who, plugin.reply)
SentSays ==
  conn.who \in Call /\ Sent(conn.who) =>
    \A m \in FromPlugin : conn.out = <<m>> => Says(conn.who, m)
AnsweredSays == \A c \in Call : Answered(c) => Says(c, call[c].answer)
Honest ==
  /\ OnlyTheServedRuns
  /\ NoAnswerYet
  /\ UnaskedUnapplied
  /\ RequestedUnapplied
  /\ ExecutingHasHope
  /\ SendingSays
  /\ SentSays
  /\ AnsweredSays

\* A call that was over when another began is not the one being served any more
\* once that other has been connected.
Settled ==
  \A c, d \in Call : c \in after[d] =>
    /\ call[c].at = "over"
    /\ \/ call[d].at \in Waiting
       \/ call[d].at = "over" /\ call[d].answer # "unresolved"
       => conn.who # c
\* While nothing goes wrong the deadline in the request is the caller's own.
SameDeadline ==
  mishaps = 0 /\ conn.who \in Call /\ Requested(conn.who) =>
    carried = IF call[conn.who].at = "asking" THEN call[conn.who].left ELSE 0

\* The frames there can be in either direction.
InFrames == {<<>>, <<"hello">>, <<"client_auth", "ping">>, <<"ping">>, <<"request">>}
OutFrames == {<<>>} \cup {<<m>> : m \in ToCaller}
CallType ==
  call \in [Call -> [at : {"new", "connecting", "over"} \cup Waiting,
                     kind : Kinds \cup {"none"}, left : Nat,
                     answer : FromPlugin \cup FromServer \cup {"none"}]]
ConnType ==
  conn \in [who : Call \cup {Nobody}, open : BOOLEAN, in : InFrames, out : OutFrames]
PluginType ==
  plugin \in [at : {"listening", "hello", "auth", "idle", "executing", "sending"},
              left : Nat, run : Nat, reply : ToCaller \cup {"none"}]
RestType ==
  /\ carried \in Nat
  /\ lifecycle \in {"starting", "ready", "draining"}
  /\ running \subseteq Call /\ applied \subseteq Call
  /\ after \in [Call -> SUBSET Call]
  /\ spent \in [work : Nat, write : Nat, wait : Nat]
  /\ mishaps \in 0 .. MaxMishaps
\* A call that has begun has a kind.
KindKnown == \A c \in Call : call[c].at # "new" => call[c].kind \in Kinds
Types == CallType /\ ConnType /\ PluginType /\ RestType /\ KindKnown

Inv == Types /\ Situation /\ Honest /\ Settled /\ SameDeadline

LEMMA BudgetsAreNat ==
  /\ ResolveBudget \in Nat /\ HandshakeLimit \in Nat /\ WriteLimit \in Nat
  /\ IdleLimit \in Nat /\ MostBudget \in Nat /\ Headroom \in Nat
  /\ \A k \in Kinds : IpcBudget(k) \in Nat /\ ExecLimit[k] \in Nat
<1>1. /\ ResolveBudget \in Nat /\ HandshakeLimit \in Nat /\ WriteLimit \in Nat
      /\ IdleLimit \in Nat /\ Headroom \in Nat /\ Ingest \in Nat
  BY LimitAssumption
<1>2. MostBudget \in Nat  BY <1>1 DEF MostBudget
<1>3. ASSUME NEW k \in Kinds PROVE IpcBudget(k) \in Nat /\ ExecLimit[k] \in Nat
  <2>1. ExecLimit[k] \in Nat /\ PhaseBudget[k] \in Nat  BY LimitAssumption
  <2>2. ExecLimit[k] + WriteLimit + Reserve(k) + Headroom <= PhaseBudget[k]
    BY BudgetAssumption
  <2>3. Reserve(k) \in Nat  BY <1>1 DEF Reserve
  <2> QED  BY <1>1, <2>1, <2>2, <2>3 DEF IpcBudget
<1> QED  BY <1>1, <1>2, <1>3

LEMMA TypesGiveTypeOK ==
  ASSUME Types
  PROVE  TypeOK
<1>1. InFrames \subseteq Seq(ToPlugin)
  <2>1. /\ "hello" \in ToPlugin /\ "client_auth" \in ToPlugin /\ "ping" \in ToPlugin
        /\ "request" \in ToPlugin
    BY DEF ToPlugin
  <2>2. /\ <<>> \in Seq(ToPlugin) /\ <<"hello">> \in Seq(ToPlugin)
        /\ <<"client_auth", "ping">> \in Seq(ToPlugin) /\ <<"ping">> \in Seq(ToPlugin)
        /\ <<"request">> \in Seq(ToPlugin)
    BY <2>1
  <2> QED  BY <2>2 DEF InFrames
<1>2. OutFrames \subseteq Seq(ToCaller)
  <2>1. <<>> \in Seq(ToCaller)  OBVIOUS
  <2>2. ASSUME NEW m \in ToCaller PROVE <<m>> \in Seq(ToCaller)  OBVIOUS
  <2> QED  BY <2>1, <2>2 DEF OutFrames
<1>3. conn \in [who : Call \cup {Nobody}, open : BOOLEAN,
                in : Seq(ToPlugin), out : Seq(ToCaller)]
  BY <1>1, <1>2 DEF Types, ConnType
<1> QED
  BY <1>3 DEF Types, TypeOK, CallType, PluginType, RestType

-----------------------------------------------------------------------------
(* Where the accept thread is when it takes a step.                        *)

LEMMA HelloPlace ==
  ASSUME Inv, plugin.at = "hello"
  PROVE  /\ conn.who \in Call /\ Unasked(conn.who)
         /\ conn.in = <<"hello">> /\ conn.out = <<>>
<1>1. conn.who # Nobody  BY DEF Inv, Situation, Listening
<1> QED
  BY <1>1 DEF Inv, Situation, Greeting, Pinging, Requested, Executing, Sending, Sent,
              Types, ConnType

LEMMA AuthPlace ==
  ASSUME Inv, plugin.at = "auth", NextFrame("client_auth")
  PROVE  /\ conn.who \in Call /\ Unasked(conn.who)
         /\ conn.in = <<"client_auth", "ping">> /\ conn.out = <<>>
<1>1. conn.who # Nobody  BY DEF Inv, Situation, Listening
<1>2. conn.in # <<>>  BY DEF NextFrame
<1> QED
  BY <1>1, <1>2 DEF Inv, Situation, Greeting, Pinging, Requested, Executing, Sending, Sent,
                    Types, ConnType

LEMMA PingPlace ==
  ASSUME Inv, plugin.at = "idle", NextFrame("ping")
  PROVE  /\ conn.who \in Call /\ Unasked(conn.who)
         /\ conn.in = <<"ping">> /\ conn.out = <<>>
<1>1. conn.who # Nobody  BY DEF Inv, Situation, Listening
<1>2. conn.in # <<>> /\ Head(conn.in) = "ping"  BY DEF NextFrame
<1> QED
  BY <1>1, <1>2 DEF Inv, Situation, Greeting, Pinging, Requested, Executing, Sending, Sent,
                    Types, ConnType

LEMMA RequestPlace ==
  ASSUME Inv, plugin.at = "idle", NextFrame("request")
  PROVE  /\ conn.who \in Call /\ Requested(conn.who) /\ Asked(conn.who)
         /\ conn.in = <<"request">> /\ conn.out = <<>>
<1>1. conn.who # Nobody  BY DEF Inv, Situation, Listening
<1>2. conn.in # <<>> /\ Head(conn.in) = "request"  BY DEF NextFrame
<1> QED
  BY <1>1, <1>2 DEF Inv, Situation, Greeting, Pinging, Requested, Executing, Sending, Sent,
                    Types, ConnType

LEMMA ExecutingPlace ==
  ASSUME Inv, plugin.at = "executing"
  PROVE  /\ conn.who \in Call /\ Asked(conn.who)
         /\ conn.in = <<>> /\ conn.out = <<>>
<1>1. conn.who # Nobody  BY DEF Inv, Situation, Listening
<1> QED
  BY <1>1 DEF Inv, Situation, Greeting, Pinging, Requested, Executing, Sending, Sent,
              Types, ConnType

LEMMA SendingPlace ==
  ASSUME Inv, plugin.at = "sending"
  PROVE  /\ conn.who \in Call /\ conn.in = <<>> /\ conn.out = <<>>
         /\ \/ Unasked(conn.who) /\ plugin.reply \in PongFrames
            \/ Sending(conn.who)
<1>1. conn.who # Nobody  BY DEF Inv, Situation, Listening
<1> QED
  BY <1>1 DEF Inv, Situation, Greeting, Pinging, Requested, Executing, Sending, Sent,
              Types, ConnType

\* Nothing else has a caller behind it, and the caller is past connecting.
LEMMA CallerPlace ==
  ASSUME Inv, conn.who # Nobody
  PROVE  /\ conn.who \in Call
         /\ Unasked(conn.who) \/ Asked(conn.who) \/ Answered(conn.who)
         /\ call[conn.who].at \notin {"new", "connecting"}
<1>1. conn.who \in Call  BY DEF Inv, Types, ConnType
<1>2. Unasked(conn.who) \/ Asked(conn.who) \/ Answered(conn.who)
  BY DEF Inv, Situation, Greeting, Pinging, Requested, Executing, Sending, Sent
<1> QED  BY <1>1, <1>2 DEF Unasked, Asked, Answered

LEMMA ListeningPlace ==
  ASSUME Inv, plugin.at = "listening"
  PROVE  conn.who = Nobody
BY DEF Inv, Situation, Greeting, Pinging, Requested, Executing, Sending, Sent

LEMMA AuthenticatePlace ==
  ASSUME Inv, NEW c \in Call, Authenticate(c)
  PROVE  /\ conn.who = c /\ plugin.at = "auth"
         /\ conn.in = <<>> /\ conn.out = <<"server_auth">>
<1>1. conn.who = c /\ c # Nobody /\ conn.out # <<>> /\ Head(conn.out) = "server_auth"
  BY CallAssumption DEF Authenticate, Arrived
<1>2. Unasked(c) /\ ~Asked(c) /\ ~Answered(c)
  BY DEF Authenticate, Unasked, Asked, Answered
<1>3. "server_auth" \notin FromPlugin  BY DEF FromPlugin
<1> QED
  BY <1>1, <1>2, <1>3 DEF Inv, Situation, Greeting, Pinging, Requested, Executing, Sending, Sent

LEMMA PongPlace ==
  ASSUME Inv, NEW c \in Call, call[c].at = "pinging", NEW m, Arrived(c, m),
         m # "server_auth"
  PROVE  /\ conn.who = c /\ plugin.at = "idle"
         /\ conn.in = <<>> /\ conn.out = <<m>>
<1>1. conn.who = c /\ c # Nobody /\ conn.out # <<>> /\ Head(conn.out) = m
  BY CallAssumption DEF Arrived
<1>2. Unasked(c) /\ ~Asked(c) /\ ~Answered(c)
  BY DEF Unasked, Asked, Answered
<1> QED
  BY <1>1, <1>2 DEF Inv, Situation, Greeting, Pinging, Requested, Executing, Sending, Sent

LEMMA AnswerPlace ==
  ASSUME Inv, NEW c \in Call, call[c].at = "asking", NEW m \in FromPlugin, Arrived(c, m)
  PROVE  /\ conn.who = c /\ plugin.at = "idle"
         /\ conn.in = <<>> /\ conn.out = <<m>> /\ Sent(c)
<1>1. conn.who = c /\ c # Nobody /\ conn.out # <<>> /\ Head(conn.out) = m
  BY CallAssumption DEF Arrived
<1>2. ~Unasked(c) /\ Asked(c)
  BY DEF Unasked, Asked
<1> QED
  BY <1>1, <1>2 DEF Inv, Situation, Greeting, Pinging, Requested, Executing, Sending, Sent

-----------------------------------------------------------------------------
(* The types.                                                              *)

CallStates == {"new", "connecting", "over"} \cup Waiting
Answers == FromPlugin \cup FromServer \cup {"none"}
CallRecords == [at : CallStates, kind : Kinds \cup {"none"}, left : Nat, answer : Answers]

LEMMA LessIsNat ==
  ASSUME NEW n \in Nat
  PROVE  Less(n) \in Nat
BY DEF Less

\* An end of a call leaves a call that is over with that answer.
LEMMA OverCall ==
  ASSUME Types, NEW c \in Call, NEW answer \in Answers, Over(c, answer)
  PROVE  /\ call' \in [Call -> CallRecords]
         /\ call'[c].at = "over" /\ call'[c].kind = call[c].kind
         /\ call'[c].left = 0 /\ call'[c].answer = answer
         /\ \A d \in Call : d # c => call'[d] = call[d]
         /\ IF conn.who = c
            THEN /\ conn'.who = c /\ ~conn'.open /\ conn'.in = conn.in /\ conn'.out = <<>>
                 /\ conn' \in [who : Call \cup {Nobody}, open : BOOLEAN,
                               in : InFrames, out : OutFrames]
            ELSE conn' = conn
<1>1. call \in [Call -> CallRecords]
  BY DEF Types, CallType, CallRecords, CallStates, Answers
<1>2. call' = [call EXCEPT ![c] = [call[c] EXCEPT !.at = "over", !.left = 0, !.answer = answer]]
  BY DEF Over
<1>3. call[c] \in CallRecords  BY <1>1
<1>4. [call[c] EXCEPT !.at = "over", !.left = 0, !.answer = answer] \in CallRecords
  BY <1>3 DEF CallRecords, CallStates
<1>5. call' \in [Call -> CallRecords]  BY <1>1, <1>2, <1>4
<1>6. /\ call'[c].at = "over" /\ call'[c].kind = call[c].kind
      /\ call'[c].left = 0 /\ call'[c].answer = answer
  BY <1>1, <1>2, <1>3 DEF CallRecords
<1>7. \A d \in Call : d # c => call'[d] = call[d]  BY <1>1, <1>2
<1>8. CASE conn.who = c
  <2>1. conn' = [conn EXCEPT !.open = FALSE, !.out = <<>>]  BY <1>8 DEF Over
  <2>2. <<>> \in OutFrames  BY DEF OutFrames
  <2>3. conn' \in [who : Call \cup {Nobody}, open : BOOLEAN, in : InFrames, out : OutFrames]
    BY <2>1, <2>2 DEF Types, ConnType
  <2>4. conn'.who = c /\ ~conn'.open /\ conn'.in = conn.in /\ conn'.out = <<>>
    BY <1>8, <2>1 DEF Types, ConnType
  <2> QED  BY <1>5, <1>6, <1>7, <1>8, <2>3, <2>4
<1>9. CASE conn.who # c
  <2>1. conn' = conn  BY <1>9 DEF Over
  <2> QED  BY <1>5, <1>6, <1>7, <1>9, <2>1
<1> QED  BY <1>8, <1>9

LEMMA OwnReportIsAnswer ==
  ASSUME NEW c
  PROVE  OwnReport(c) \in Answers /\ OwnReport(c) \in FromServer
BY DEF OwnReport, Answers, FromServer

LEMMA CallTypeStep ==
  ASSUME Inv, Next
  PROVE  CallType' /\ KindKnown'
<1>0. call \in [Call -> CallRecords] /\ KindKnown
  BY DEF Inv, Types, CallType, CallRecords, CallStates, Answers
<1> SUFFICES call' \in [Call -> CallRecords] /\ KindKnown'
  BY DEF CallType, CallRecords, CallStates, Answers
<1>over. ASSUME NEW c \in Call, NEW a \in Answers, Over(c, a), call[c].at # "new"
         PROVE  call' \in [Call -> CallRecords] /\ KindKnown'
  <2>1. /\ call' \in [Call -> CallRecords]
        /\ call'[c].kind = call[c].kind
        /\ \A d \in Call : d # c => call'[d] = call[d]
    BY <1>over, OverCall DEF Inv
  <2>2. KindKnown'  BY <2>1, <1>0, <1>over DEF KindKnown
  <2> QED  BY <2>1, <2>2
<1>same. ASSUME call' = call
         PROVE  call' \in [Call -> CallRecords] /\ KindKnown'
  BY <1>0, <1>same DEF KindKnown
<1>set. ASSUME NEW c \in Call, NEW r \in CallRecords, call' = [call EXCEPT ![c] = r],
               r.kind \in Kinds
        PROVE  call' \in [Call -> CallRecords] /\ KindKnown'
  <2>1. call' \in [Call -> CallRecords]  BY <1>0, <1>set
  <2>2. \A d \in Call : call'[d] = IF d = c THEN r ELSE call[d]  BY <1>0, <1>set
  <2>3. KindKnown'  BY <1>0, <1>set, <2>2 DEF KindKnown
  <2> QED  BY <2>1, <2>3
<1>1. ASSUME NEW c \in Call, NEW k \in Kinds, Begin(c, k)
      PROVE  call' \in [Call -> CallRecords] /\ KindKnown'
  <2> DEFINE r == [at |-> "connecting", kind |-> k, left |-> ResolveBudget, answer |-> "none"]
  <2>1. r \in CallRecords /\ r.kind \in Kinds
    BY BudgetsAreNat DEF CallRecords, CallStates, Answers
  <2>2. call' = [call EXCEPT ![c] = r]  BY <1>1 DEF Begin
  <2> HIDE DEF r
  <2> QED  BY <2>1, <2>2, <1>set
<1>2. ASSUME NEW c \in Call, Connect(c)
      PROVE  call' \in [Call -> CallRecords] /\ KindKnown'
  <2> DEFINE r == [call[c] EXCEPT !.at = "authenticating"]
  <2>0. call[c].at = "connecting"  BY <1>2 DEF Connect
  <2>1. r \in CallRecords  BY <1>0 DEF CallRecords, CallStates, Waiting
  <2>2. r.kind \in Kinds  BY <1>0, <2>0 DEF CallRecords, KindKnown
  <2>3. call' = [call EXCEPT ![c] = r]  BY <1>2 DEF Connect
  <2> HIDE DEF r
  <2> QED  BY <2>1, <2>2, <2>3, <1>set
<1>3. ASSUME NEW c \in Call, GiveUpConnecting(c)
      PROVE  call' \in [Call -> CallRecords] /\ KindKnown'
  <2>1. Over(c, "unresolved") /\ call[c].at # "new"  BY <1>3 DEF GiveUpConnecting
  <2>2. "unresolved" \in Answers  BY DEF Answers, FromServer
  <2> QED  BY <2>1, <2>2, <1>over
<1>4. ASSUME NEW c \in Call, Authenticate(c)
      PROVE  call' \in [Call -> CallRecords] /\ KindKnown'
  <2> DEFINE r == [call[c] EXCEPT !.at = "pinging"]
  <2>0. call[c].at = "authenticating"  BY <1>4 DEF Authenticate
  <2>1. r \in CallRecords  BY <1>0 DEF CallRecords, CallStates, Waiting
  <2>2. r.kind \in Kinds  BY <1>0, <2>0 DEF CallRecords, KindKnown
  <2>3. call' = [call EXCEPT ![c] = r]  BY <1>4 DEF Authenticate
  <2> HIDE DEF r
  <2> QED  BY <2>1, <2>2, <2>3, <1>set
<1>5. ASSUME NEW c \in Call, Ask(c)
      PROVE  call' \in [Call -> CallRecords] /\ KindKnown'
  <2> DEFINE b == IpcBudget(call[c].kind)
  <2> DEFINE r == [call[c] EXCEPT !.at = "asking", !.left = b]
  <2>0. call[c].at = "pinging"  BY <1>5 DEF Ask
  <2>1. call[c].kind \in Kinds  BY <1>0, <2>0 DEF KindKnown
  <2>2. b \in Nat  BY <2>1, BudgetsAreNat
  <2>3. call' = [call EXCEPT ![c] = r]  BY <1>0, <1>5 DEF Ask
  <2> HIDE DEF b
  <2>4. r \in CallRecords  BY <1>0, <2>2 DEF CallRecords, CallStates, Waiting
  <2>5. r.kind \in Kinds  BY <1>0, <2>1 DEF CallRecords
  <2> HIDE DEF r
  <2> QED  BY <2>3, <2>4, <2>5, <1>set
<1>6. ASSUME NEW c \in Call, PingFails(c)
      PROVE  call' \in [Call -> CallRecords] /\ KindKnown'
  <2>1. Over(c, "unresolved") /\ call[c].at # "new"  BY <1>6 DEF PingFails
  <2>2. "unresolved" \in Answers  BY DEF Answers, FromServer
  <2> QED  BY <2>1, <2>2, <1>over
<1>7. ASSUME NEW c \in Call, NEW m \in FromPlugin, TakeAnswer(c, m)
      PROVE  call' \in [Call -> CallRecords] /\ KindKnown'
  <2>1. Over(c, m) /\ call[c].at # "new"  BY <1>7 DEF TakeAnswer
  <2>2. m \in Answers  BY DEF Answers
  <2> QED  BY <2>1, <2>2, <1>over
<1>8. ASSUME NEW c \in Call, NoAnswer(c)
      PROVE  call' \in [Call -> CallRecords] /\ KindKnown'
  <2>1. Over(c, OwnReport(c)) /\ call[c].at # "new"  BY <1>8 DEF NoAnswer, Waiting
  <2> QED  BY <2>1, OwnReportIsAnswer, <1>over
<1>9. CASE Tick
  <2>1. call' = [c \in Call |-> [call[c] EXCEPT !.left = Less(@)]]  BY <1>9 DEF Tick
  <2>2. ASSUME NEW c \in Call
        PROVE  call'[c] \in CallRecords /\ call'[c].at = call[c].at /\ call'[c].kind = call[c].kind
    <3>1. call'[c] = [call[c] EXCEPT !.left = Less(call[c].left)]  BY <2>1
    <3>2. call[c] \in CallRecords  BY <1>0
    <3>3. Less(call[c].left) \in Nat  BY <3>2, LessIsNat DEF CallRecords
    <3> QED  BY <3>1, <3>2, <3>3 DEF CallRecords
  <2>3. call' \in [Call -> CallRecords]  BY <2>1, <2>2
  <2>4. KindKnown'  BY <2>2, <1>0 DEF KindKnown
  <2> QED  BY <2>3, <2>4
<1>10. CASE \/ \E c \in Call : EditTakesEffect(c)
            \/ PluginHello \/ PluginAuth \/ PluginPing \/ PluginRequest
            \/ \E outcome \in {"done", "failed"} : Finish(outcome)
            \/ SendReply \/ PluginDrops \/ LifecycleMoves \/ ClockJumps
  BY <1>10, <1>same DEF EditTakesEffect, PluginHello, PluginAuth, PluginPing, PluginRequest,
     Finish, SendReply, PluginDrops, LifecycleMoves, ClockJumps
<1> QED
  BY <1>1, <1>2, <1>3, <1>4, <1>5, <1>6, <1>7, <1>8, <1>9, <1>10 DEF Next

PluginPlaces == {"listening", "hello", "auth", "idle", "executing", "sending"}
ConnRecords == [who : Call \cup {Nobody}, open : BOOLEAN, in : InFrames, out : OutFrames]
PluginRecords == [at : PluginPlaces, left : Nat, run : Nat, reply : ToCaller \cup {"none"}]

LEMMA LeastIsNat ==
  ASSUME NEW a \in Nat, NEW b \in Nat
  PROVE  Least(a, b) \in Nat
BY DEF Least

LEMMA FrameSequences ==
  /\ \A m, n : <<>> \o <<m, n>> = <<m, n>>
  /\ \A m : Append(<<>>, m) = <<m>> /\ Tail(<<m>>) = <<>> /\ Head(<<m>>) = m
  /\ \A m, n : Tail(<<m, n>>) = <<n>> /\ Head(<<m, n>>) = m
OBVIOUS

\* What the handler's end and the top of the loop leave.
LEMMA DropRecords ==
  ASSUME Drop
  PROVE  /\ conn' = NoConnection /\ plugin' = Listening /\ carried' = 0
         /\ conn' \in ConnRecords /\ plugin' \in PluginRecords
<1>1. NoConnection \in ConnRecords
  BY DEF NoConnection, ConnRecords, InFrames, OutFrames
<1>2. Listening \in PluginRecords
  BY DEF Listening, PluginRecords, PluginPlaces
<1> QED  BY <1>1, <1>2 DEF Drop

LEMMA LoopRecords ==
  ASSUME NEW pipe \in ConnRecords, Loop(pipe)
  PROVE  /\ conn' \in ConnRecords /\ plugin' \in PluginRecords
         /\ \/ /\ conn' = pipe
               /\ plugin'.at = "idle" /\ plugin'.reply = "none"
               /\ carried' = carried
            \/ conn' = NoConnection /\ plugin' = Listening /\ carried' = 0
<1>1. CASE lifecycle = "draining"
  BY <1>1, DropRecords DEF Loop
<1>2. CASE lifecycle # "draining"
  <2>1. /\ conn' = pipe /\ carried' = carried
        /\ plugin' = [at |-> "idle", left |-> IdleLimit, run |-> 0, reply |-> "none"]
    BY <1>2 DEF Loop, Listening
  <2>2. plugin' \in PluginRecords
    BY <2>1, BudgetsAreNat DEF PluginRecords, PluginPlaces
  <2> QED  BY <2>1, <2>2
<1> QED  BY <1>1, <1>2

LEMMA ReplyRecord ==
  ASSUME NEW m \in ToCaller, NEW time \in Nat
  PROVE  /\ Reply(m, time) \in PluginRecords
         /\ Reply(m, time).at = "sending" /\ Reply(m, time).reply = m
<1> DEFINE l == Listening
<1>1. l \in PluginRecords
  BY DEF Listening, PluginRecords, PluginPlaces
<1>2. Reply(m, time) = [l EXCEPT !.at = "sending", !.left = time, !.reply = m]
  BY DEF Reply
<1> HIDE DEF l
<1>3. [l EXCEPT !.at = "sending", !.left = time, !.reply = m] \in PluginRecords
  BY <1>1 DEF PluginRecords, PluginPlaces
<1>4. /\ [l EXCEPT !.at = "sending", !.left = time, !.reply = m].at = "sending"
      /\ [l EXCEPT !.at = "sending", !.left = time, !.reply = m].reply = m
  BY <1>1 DEF PluginRecords
<1> QED  BY <1>2, <1>3, <1>4

\* Each handler of the plugin, as what it leaves of the pipe and of the thread.
LEMMA HelloStep ==
  ASSUME Inv, PluginHello
  PROVE  /\ conn' \in ConnRecords /\ plugin' \in PluginRecords
         /\ \/ /\ conn'.who = conn.who /\ conn'.in = <<>> /\ conn'.out = <<"server_auth">>
               /\ plugin'.at = "auth" /\ carried' = carried
            \/ conn' = NoConnection /\ plugin' = Listening /\ carried' = 0
<1>1. conn \in ConnRecords /\ plugin \in PluginRecords
  BY DEF Inv, Types, ConnType, PluginType, ConnRecords, PluginRecords, PluginPlaces
<1>2. conn.in = <<"hello">> /\ conn.out = <<>>
  BY HelloPlace DEF PluginHello
<1>3. CASE conn.open
  <2>1. /\ conn' = [conn EXCEPT !.in = Tail(@), !.out = Append(@, "server_auth")]
        /\ plugin' = [plugin EXCEPT !.at = "auth"] /\ carried' = carried
    BY <1>3 DEF PluginHello, Received
  <2>2. Tail(conn.in) = <<>> /\ Append(conn.out, "server_auth") = <<"server_auth">>
    BY <1>2, FrameSequences
  <2>3. conn' = [conn EXCEPT !.in = <<>>, !.out = <<"server_auth">>]
    BY <2>1, <2>2
  <2>4. <<>> \in InFrames /\ <<"server_auth">> \in OutFrames
    BY DEF InFrames, OutFrames, ToCaller
  <2>5. /\ conn' \in ConnRecords /\ conn'.who = conn.who
        /\ conn'.in = <<>> /\ conn'.out = <<"server_auth">>
    BY <1>1, <2>3, <2>4 DEF ConnRecords
  <2>6. plugin' \in PluginRecords /\ plugin'.at = "auth"
    BY <1>1, <2>1 DEF PluginRecords, PluginPlaces
  <2> QED  BY <2>1, <2>5, <2>6
<1>4. CASE ~conn.open
  BY <1>4, DropRecords DEF PluginHello
<1> QED  BY <1>3, <1>4

LEMMA ReceivedRecord ==
  ASSUME Inv, conn.in \in {<<"client_auth", "ping">>, <<"ping">>, <<"request">>}
  PROVE  /\ Received \in ConnRecords
         /\ Received.who = conn.who /\ Received.out = conn.out
         /\ Received.in = IF conn.in = <<"client_auth", "ping">> THEN <<"ping">> ELSE <<>>
<1>1. conn \in ConnRecords
  BY DEF Inv, Types, ConnType, ConnRecords
<1>2. Tail(conn.in) = IF conn.in = <<"client_auth", "ping">> THEN <<"ping">> ELSE <<>>
  <2>1. CASE conn.in = <<"client_auth", "ping">>  BY <2>1, FrameSequences
  <2>2. CASE conn.in = <<"ping">>  BY <2>2, FrameSequences
  <2>3. CASE conn.in = <<"request">>  BY <2>3, FrameSequences
  <2> QED  BY <2>1, <2>2, <2>3
<1>3. Tail(conn.in) \in InFrames  BY <1>2 DEF InFrames
<1>4. Received = [conn EXCEPT !.in = Tail(conn.in)]  BY <1>1 DEF Received, ConnRecords
<1>5. /\ Received \in ConnRecords /\ Received.who = conn.who
      /\ Received.out = conn.out /\ Received.in = Tail(conn.in)
  BY <1>1, <1>3, <1>4 DEF ConnRecords
<1> QED  BY <1>2, <1>5

LEMMA AuthStep ==
  ASSUME Inv, PluginAuth
  PROVE  /\ conn' \in ConnRecords /\ plugin' \in PluginRecords
         /\ \/ /\ conn'.who = conn.who /\ conn'.in = <<"ping">> /\ conn'.out = <<>>
               /\ plugin'.at = "idle" /\ carried' = carried
            \/ conn' = NoConnection /\ plugin' = Listening /\ carried' = 0
<1>1. conn.in = <<"client_auth", "ping">> /\ conn.out = <<>>
  BY AuthPlace DEF PluginAuth
<1>2. /\ Received \in ConnRecords /\ Received.who = conn.who
      /\ Received.out = <<>> /\ Received.in = <<"ping">>
  BY <1>1, ReceivedRecord
<1>3. Loop(Received)  BY DEF PluginAuth
<1> QED  BY <1>2, <1>3, LoopRecords

LEMMA PingStep ==
  ASSUME Inv, PluginPing
  PROVE  /\ conn' \in ConnRecords /\ plugin' \in PluginRecords
         /\ conn'.who = conn.who /\ conn'.in = <<>> /\ conn'.out = <<>>
         /\ plugin'.at = "sending" /\ plugin'.reply \in PongFrames
         /\ carried' = 0
<1>1. conn.in = <<"ping">> /\ conn.out = <<>>
  BY PingPlace DEF PluginPing
<1>2. /\ Received \in ConnRecords /\ Received.who = conn.who
      /\ Received.out = <<>> /\ Received.in = <<>>
  BY <1>1, ReceivedRecord
<1>3. conn' = Received /\ carried' = 0  BY DEF PluginPing
<1>4. carried \in Nat /\ WriteLimit \in Nat /\ Least(WriteLimit, carried) \in Nat
  BY BudgetsAreNat, LeastIsNat DEF Inv, Types, RestType
<1>5. PongFrames \subseteq ToCaller  BY DEF PongFrames, ToCaller, FromPlugin
<1>6. \E m \in PongFrames, time \in Nat : plugin' = Reply(m, time)
  <2>1. CASE carried = 0
    <3>1. plugin' = Reply("expired", WriteLimit)  BY <2>1 DEF PluginPing, Refusal
    <3> QED  BY <3>1, <1>4 DEF PongFrames
  <2>2. CASE carried # 0 /\ lifecycle = "draining"
    <3>1. plugin' = Reply("pong_draining", Least(WriteLimit, carried))  BY <2>2 DEF PluginPing
    <3> QED  BY <3>1, <1>4 DEF PongFrames
  <2>3. CASE carried # 0 /\ lifecycle # "draining"
    <3>1. plugin' = Reply("pong", Least(WriteLimit, carried))  BY <2>3 DEF PluginPing
    <3> QED  BY <3>1, <1>4 DEF PongFrames
  <2> QED  BY <2>1, <2>2, <2>3
<1>7. /\ plugin' \in PluginRecords
      /\ plugin'.at = "sending" /\ plugin'.reply \in PongFrames
  BY <1>5, <1>6, ReplyRecord
<1> QED  BY <1>2, <1>3, <1>7

\* A refusal is a reply with the write limit, or what the deadline leaves of it.
LEMMA RefusalIsReply ==
  ASSUME NEW k, NEW m, carried \in Nat, WriteLimit \in Nat
  PROVE  \E time \in Nat :
           /\ RefusalOf(k, m) = Reply(m, time)
           /\ time >= WriteLimit \/ (carried > 0 /\ time >= carried)
<1>1. /\ Least(WriteLimit, carried) \in Nat
      /\ Least(WriteLimit, carried) >= WriteLimit \/ Least(WriteLimit, carried) >= carried
  BY DEF Least
<1>2. CASE k = "read" /\ carried > 0
  <2>1. RefusalOf(k, m) = Reply(m, Least(WriteLimit, carried))  BY <1>2 DEF RefusalOf
  <2> QED  BY <1>1, <1>2, <2>1
<1>3. CASE ~(k = "read" /\ carried > 0)
  <2>1. RefusalOf(k, m) = Reply(m, WriteLimit)  BY <1>3 DEF RefusalOf, Refusal
  <2> QED  BY <2>1
<1> QED  BY <1>2, <1>3

LEMMA RequestStep ==
  ASSUME Inv, PluginRequest
  PROVE  /\ conn' \in ConnRecords /\ plugin' \in PluginRecords /\ carried' \in Nat
         /\ conn.who \in Call /\ call[conn.who].kind \in Kinds
         /\ conn'.who = conn.who /\ conn'.in = <<>> /\ conn'.out = <<>>
         /\ \/ /\ plugin'.at = "sending" /\ running' = running
               /\ plugin'.reply \in {"busy", "expired", "invalid", "unsupported"}
               /\ call[conn.who].kind \in Hopeless =>
                    plugin'.reply \in {"invalid", "unsupported"}
               /\ call[conn.who].kind = "edit" => plugin'.reply \in {"busy", "expired"}
            \/ /\ plugin'.at = "executing" /\ carried > 0
               /\ call[conn.who].kind \notin Hopeless
               /\ running' = IF call[conn.who].kind = "edit"
                             THEN running \cup {conn.who} ELSE running
<1> DEFINE k == call[conn.who].kind
<1>1. /\ conn.who \in Call /\ Asked(conn.who)
      /\ conn.in = <<"request">> /\ conn.out = <<>>
  BY RequestPlace DEF PluginRequest
<1>2. k \in Kinds
  BY <1>1 DEF Asked, Inv, Types, KindKnown
<1>3. /\ Received \in ConnRecords /\ Received.who = conn.who
      /\ Received.out = <<>> /\ Received.in = <<>>
  BY <1>1, ReceivedRecord
<1>4. conn' = Received  BY DEF PluginRequest
<1>5. carried \in Nat /\ WriteLimit \in Nat /\ ExecLimit[k] \in Nat
  BY <1>2, BudgetsAreNat DEF Inv, Types, RestType
<1>6. Least(ExecLimit[k], carried) \in Nat  BY <1>5, LeastIsNat
<1>7. Refused(k) \in {"busy", "expired", "invalid", "unsupported", "none"}
  BY DEF Refused
<1>8. k \in Hopeless => Refused(k) \in {"invalid", "unsupported"}
  BY DEF Refused, Hopeless
<1>9. Refused(k) = "none" => carried > 0
  BY <1>5 DEF Refused
<1>10. CASE Refused(k) # "none"
  <2>1. plugin' = RefusalOf(k, Refused(k)) /\ carried' = 0 /\ running' = running
    BY <1>10 DEF PluginRequest
  <2>2. Refused(k) \in ToCaller  BY <1>7, <1>10 DEF ToCaller, FromPlugin
  <2>3. PICK time \in Nat : plugin' = Reply(Refused(k), time)
    BY <2>1, <1>5, RefusalIsReply
  <2>4. /\ plugin' \in PluginRecords
        /\ plugin'.at = "sending" /\ plugin'.reply = Refused(k)
    BY <2>2, <2>3, ReplyRecord
  <2>5. k = "edit" => Refused(k) \in {"busy", "expired"}
    BY <1>10 DEF Refused
  <2> HIDE DEF k
  <2> QED  BY <1>1, <1>2, <1>3, <1>4, <1>7, <1>8, <1>10, <2>1, <2>4, <2>5 DEF k
<1>11. CASE Refused(k) = "none"
  <2>1. /\ plugin' = [Listening EXCEPT !.at = "executing", !.run = Least(ExecLimit[k], carried)]
        /\ carried' = IF k = "read" THEN carried ELSE 0
        /\ running' = IF k = "edit" THEN running \cup {conn.who} ELSE running
    BY <1>11 DEF PluginRequest
  <2>2. Listening \in PluginRecords  BY DEF Listening, PluginRecords, PluginPlaces
  <2>3. plugin' \in PluginRecords /\ plugin'.at = "executing"
    BY <2>1, <2>2, <1>6 DEF PluginRecords, PluginPlaces
  <2>4. carried' \in Nat  BY <2>1, <1>5
  <2>5. k \notin Hopeless  BY <1>8, <1>11
  <2> HIDE DEF k
  <2> QED  BY <1>1, <1>2, <1>3, <1>4, <1>9, <1>11, <2>1, <2>3, <2>4, <2>5 DEF k
<1> QED  BY <1>10, <1>11

LEMMA FinishStep ==
  ASSUME Inv, NEW outcome \in {"done", "failed"}, Finish(outcome)
  PROVE  /\ plugin' \in PluginRecords /\ conn.who \in Call
         /\ conn' = conn /\ conn.in = <<>> /\ conn.out = <<>>
         /\ plugin'.at = "sending" /\ plugin'.reply \in {"done", "failed", "late"}
         /\ call[conn.who].kind = "edit" =>
              plugin'.reply = IF conn.who \in applied THEN "done" ELSE "failed"
         /\ running' = running \ {conn.who} /\ carried' = 0
<1> DEFINE k == call[conn.who].kind
<1>1. conn.who \in Call /\ conn.in = <<>> /\ conn.out = <<>>
  BY ExecutingPlace DEF Finish
<1>2. carried \in Nat /\ WriteLimit \in Nat
  BY BudgetsAreNat DEF Inv, Types, RestType
<1>3. Least(WriteLimit, carried) \in Nat  BY <1>2, LeastIsNat
<1>4. {"done", "failed", "late"} \subseteq ToCaller  BY DEF ToCaller, FromPlugin
<1>5. \E m \in {"done", "failed", "late"}, time \in Nat :
        plugin' = Reply(m, time) /\ (k # "read" => m = outcome)
  <2>1. CASE k # "read"
    <3>1. plugin' = Reply(outcome, WriteLimit)
      BY <2>1 DEF Finish, RetainedReply
    <3> HIDE DEF k
    <3> QED  BY <3>1, <1>2
  <2>2. CASE k = "read" /\ (plugin.run = 0 \/ carried = 0)
    <3>1. plugin' = Reply(IF outcome = "done" THEN "late" ELSE outcome, WriteLimit)
      BY <2>2 DEF Finish, ReadReply, Refusal
    <3> HIDE DEF k
    <3> QED  BY <2>2, <3>1, <1>2
  <2>3. CASE k = "read" /\ ~(plugin.run = 0 \/ carried = 0)
    <3>1. plugin' = Reply(outcome, Least(WriteLimit, carried))
      BY <2>3 DEF Finish, ReadReply
    <3> HIDE DEF k
    <3> QED  BY <2>3, <3>1, <1>3
  <2> QED  BY <2>1, <2>2, <2>3
<1>6. /\ plugin' \in PluginRecords
      /\ plugin'.at = "sending" /\ plugin'.reply \in {"done", "failed", "late"}
      /\ k # "read" => plugin'.reply = outcome
  BY <1>4, <1>5, ReplyRecord
<1>7. k = "edit" => outcome = IF conn.who \in applied THEN "done" ELSE "failed"
  BY DEF Finish
<1>8. conn' = conn /\ running' = running \ {conn.who} /\ carried' = 0
  BY DEF Finish
<1> HIDE DEF k
<1>9. k = "edit" => plugin'.reply = IF conn.who \in applied THEN "done" ELSE "failed"
  BY <1>6, <1>7
<1> QED  BY <1>1, <1>6, <1>8, <1>9 DEF k

LEMMA SendStep ==
  ASSUME Inv, SendReply
  PROVE  /\ conn' \in ConnRecords /\ plugin' \in PluginRecords
         /\ \/ /\ conn'.who = conn.who /\ conn'.in = <<>> /\ conn'.out = <<plugin.reply>>
               /\ plugin'.at = "idle" /\ carried' = carried
            \/ conn' = NoConnection /\ plugin' = Listening /\ carried' = 0
<1> DEFINE pipe == [conn EXCEPT !.out = Append(@, plugin.reply)]
<1>1. conn \in ConnRecords
  BY DEF Inv, Types, ConnType, ConnRecords
<1>2. /\ conn.in = <<>> /\ conn.out = <<>>
      /\ plugin.reply \in PongFrames \/ plugin.reply \in FromPlugin
  BY SendingPlace DEF SendReply, Sending
<1>3. plugin.reply \in ToCaller  BY <1>2 DEF PongFrames, ToCaller, FromPlugin
<1>4. Append(conn.out, plugin.reply) = <<plugin.reply>>  BY <1>2, FrameSequences
<1>5. <<plugin.reply>> \in OutFrames  BY <1>3 DEF OutFrames
<1>6. pipe = [conn EXCEPT !.out = <<plugin.reply>>]  BY <1>4
<1>7. /\ pipe \in ConnRecords /\ pipe.who = conn.who
      /\ pipe.in = <<>> /\ pipe.out = <<plugin.reply>>
  BY <1>1, <1>2, <1>5, <1>6 DEF ConnRecords
<1>8. Loop(pipe)  BY DEF SendReply
<1> HIDE DEF pipe
<1> QED  BY <1>7, <1>8, LoopRecords

LEMMA AuthenticateStep ==
  ASSUME Inv, NEW c \in Call, Authenticate(c)
  PROVE  /\ conn' \in ConnRecords /\ conn'.who = c
         /\ conn'.in = <<"client_auth", "ping">> /\ conn'.out = <<>>
<1>1. conn \in ConnRecords
  BY DEF Inv, Types, ConnType, ConnRecords
<1>2. conn.who = c /\ conn.in = <<>> /\ conn.out = <<"server_auth">>
  BY AuthenticatePlace
<1>3. conn' = [conn EXCEPT !.in = @ \o <<"client_auth", "ping">>, !.out = Tail(@)]
  BY DEF Authenticate
<1>4. conn.in \o <<"client_auth", "ping">> = <<"client_auth", "ping">> /\ Tail(conn.out) = <<>>
  BY <1>2, FrameSequences
<1>5. conn' = [conn EXCEPT !.in = <<"client_auth", "ping">>, !.out = <<>>]
  BY <1>1, <1>3, <1>4 DEF ConnRecords
<1>6. <<"client_auth", "ping">> \in InFrames /\ <<>> \in OutFrames
  BY DEF InFrames, OutFrames
<1> QED  BY <1>1, <1>2, <1>5, <1>6 DEF ConnRecords

LEMMA AskStep ==
  ASSUME Inv, NEW c \in Call, Ask(c)
  PROVE  /\ conn' \in ConnRecords /\ conn'.who = c
         /\ conn'.in = <<"request">> /\ conn'.out = <<>>
         /\ carried' = IpcBudget(call[c].kind) /\ carried' \in Nat
<1>1. conn \in ConnRecords
  BY DEF Inv, Types, ConnType, ConnRecords
<1>2. conn.who = c /\ conn.in = <<>> /\ conn.out = <<"pong">>
  BY PongPlace DEF Ask
<1>3. conn' = [conn EXCEPT !.in = Append(@, "request"), !.out = Tail(@)]
  BY DEF Ask
<1>4. Append(conn.in, "request") = <<"request">> /\ Tail(conn.out) = <<>>
  BY <1>2, FrameSequences
<1>5. conn' = [conn EXCEPT !.in = <<"request">>, !.out = <<>>]
  BY <1>1, <1>3, <1>4 DEF ConnRecords
<1>6. <<"request">> \in InFrames /\ <<>> \in OutFrames
  BY DEF InFrames, OutFrames
<1>7. call[c].kind \in Kinds  BY DEF Ask, Inv, Types, KindKnown
<1>8. carried' = IpcBudget(call[c].kind)  BY DEF Ask
<1>9. carried' \in Nat  BY <1>7, <1>8, BudgetsAreNat
<1> QED  BY <1>1, <1>2, <1>5, <1>6, <1>8, <1>9 DEF ConnRecords

LEMMA ConnectStep ==
  ASSUME Inv, NEW c \in Call, Connect(c)
  PROVE  /\ conn' \in ConnRecords /\ plugin' \in PluginRecords /\ conn.who = Nobody
         /\ conn'.who = c /\ conn'.in = <<"hello">> /\ conn'.out = <<>>
         /\ plugin'.at = "hello"
<1>1. conn.who = Nobody  BY ListeningPlace DEF Connect
<1>2. conn' = [who |-> c, open |-> TRUE, in |-> <<"hello">>, out |-> <<>>]  BY DEF Connect
<1>3. <<"hello">> \in InFrames /\ <<>> \in OutFrames  BY DEF InFrames, OutFrames
<1>4. conn' \in ConnRecords /\ conn'.who = c /\ conn'.in = <<"hello">> /\ conn'.out = <<>>
  BY <1>2, <1>3 DEF ConnRecords
<1>5. plugin' = [Listening EXCEPT !.at = "hello", !.left = HandshakeLimit]  BY DEF Connect
<1>6. plugin' \in PluginRecords /\ plugin'.at = "hello"
  BY <1>5, BudgetsAreNat DEF Listening, PluginRecords, PluginPlaces
<1> QED  BY <1>1, <1>4, <1>6

LEMMA PipeTypeStep ==
  ASSUME Inv, Next
  PROVE  conn' \in ConnRecords /\ plugin' \in PluginRecords
<1>0. conn \in ConnRecords /\ plugin \in PluginRecords
  BY DEF Inv, Types, ConnType, PluginType, ConnRecords, PluginRecords, PluginPlaces
<1>over. ASSUME NEW c \in Call, NEW a \in Answers, Over(c, a), plugin' = plugin
         PROVE  conn' \in ConnRecords /\ plugin' \in PluginRecords
  BY <1>0, <1>over, OverCall DEF Inv, ConnRecords
<1>1. ASSUME NEW c \in Call, Connect(c)
      PROVE  conn' \in ConnRecords /\ plugin' \in PluginRecords
  BY <1>1, ConnectStep
<1>2. ASSUME NEW c \in Call, GiveUpConnecting(c) \/ PingFails(c)
      PROVE  conn' \in ConnRecords /\ plugin' \in PluginRecords
  <2>1. Over(c, "unresolved") /\ plugin' = plugin
    BY <1>2 DEF GiveUpConnecting, PingFails
  <2>2. "unresolved" \in Answers  BY DEF Answers, FromServer
  <2> QED  BY <2>1, <2>2, <1>over
<1>3. ASSUME NEW c \in Call, Authenticate(c)
      PROVE  conn' \in ConnRecords /\ plugin' \in PluginRecords
  <2>1. plugin' = plugin  BY <1>3 DEF Authenticate
  <2> QED  BY <1>0, <1>3, <2>1, AuthenticateStep
<1>4. ASSUME NEW c \in Call, Ask(c)
      PROVE  conn' \in ConnRecords /\ plugin' \in PluginRecords
  <2>1. plugin' = plugin  BY <1>4 DEF Ask
  <2> QED  BY <1>0, <1>4, <2>1, AskStep
<1>5. ASSUME NEW c \in Call, NEW m \in FromPlugin, TakeAnswer(c, m)
      PROVE  conn' \in ConnRecords /\ plugin' \in PluginRecords
  <2>1. Over(c, m) /\ plugin' = plugin  BY <1>5 DEF TakeAnswer
  <2>2. m \in Answers  BY DEF Answers
  <2> QED  BY <2>1, <2>2, <1>over
<1>6. ASSUME NEW c \in Call, NoAnswer(c)
      PROVE  conn' \in ConnRecords /\ plugin' \in PluginRecords
  <2>1. Over(c, OwnReport(c)) /\ plugin' = plugin  BY <1>6 DEF NoAnswer
  <2> QED  BY <2>1, OwnReportIsAnswer, <1>over
<1>7. CASE PluginHello  BY <1>7, HelloStep
<1>8. CASE PluginAuth  BY <1>8, AuthStep
<1>9. CASE PluginPing  BY <1>9, PingStep
<1>10. CASE PluginRequest  BY <1>10, RequestStep
<1>11. ASSUME NEW outcome \in {"done", "failed"}, Finish(outcome)
       PROVE  conn' \in ConnRecords /\ plugin' \in PluginRecords
  BY <1>0, <1>11, FinishStep
<1>12. CASE SendReply  BY <1>12, SendStep
<1>13. CASE PluginDrops  BY <1>13, DropRecords DEF PluginDrops
<1>14. CASE Tick
  <2>1. plugin' = [plugin EXCEPT !.left = Less(@), !.run = Less(@)] /\ conn' = conn
    BY <1>14 DEF Tick
  <2>2. Less(plugin.left) \in Nat /\ Less(plugin.run) \in Nat
    BY <1>0, LessIsNat DEF PluginRecords
  <2>3. plugin' \in PluginRecords
    BY <1>0, <2>1, <2>2 DEF PluginRecords
  <2> QED  BY <1>0, <2>1, <2>3
<1>15. CASE \/ \E c \in Call : EditTakesEffect(c) \/ \E k \in Kinds : Begin(c, k)
            \/ LifecycleMoves \/ ClockJumps
  BY <1>0, <1>15 DEF EditTakesEffect, Begin, LifecycleMoves, ClockJumps
<1> QED
  BY <1>1, <1>2, <1>3, <1>4, <1>5, <1>6, <1>7, <1>8, <1>9, <1>10, <1>11, <1>12, <1>13,
     <1>14, <1>15 DEF Next

LEMMA SpentStep ==
  ASSUME Inv, Next
  PROVE  spent' \in [work : Nat, write : Nat, wait : Nat]
<1> DEFINE Spends == [work : Nat, write : Nat, wait : Nat]
<1>0. spent \in Spends /\ NothingSpent \in Spends /\ Overrun \in Spends
  BY BudgetsAreNat DEF Inv, Types, RestType, NothingSpent, Overrun
<1>1. Charged \in Spends
  <2>1. /\ [spent EXCEPT !.work = @ + 1] \in Spends
        /\ [spent EXCEPT !.write = @ + 1] \in Spends
        /\ [spent EXCEPT !.wait = @ + 1] \in Spends
    BY <1>0
  <2> HIDE DEF Spends
  <2> QED  BY <2>1 DEF Charged
<1>2. ASSUME NEW c \in Call, NEW k \in Kinds, Begin(c, k) PROVE spent' = spent
  BY <1>2 DEF Begin
<1>3. ASSUME NEW c \in Call, Connect(c) \/ Ask(c)
      PROVE  spent' = spent \/ spent' = NothingSpent \/ spent' = Overrun
  BY <1>3 DEF Connect, Ask
<1>4. ASSUME NEW c \in Call, Authenticate(c) \/ EditTakesEffect(c) PROVE spent' = spent
  BY <1>4 DEF Authenticate, EditTakesEffect
<1>5. ASSUME NEW c \in Call, NEW a, Over(c, a) PROVE spent' = spent \/ spent' = NothingSpent
  BY <1>5 DEF Over
<1>6. ASSUME NEW c \in Call, GiveUpConnecting(c) \/ PingFails(c) \/ NoAnswer(c)
      PROVE  spent' = spent \/ spent' = NothingSpent
  BY <1>5, <1>6 DEF GiveUpConnecting, PingFails, NoAnswer
<1>7. ASSUME NEW c \in Call, NEW m \in FromPlugin, TakeAnswer(c, m)
      PROVE  spent' = spent \/ spent' = NothingSpent
  BY <1>5, <1>7 DEF TakeAnswer
<1>8. ASSUME \/ PluginHello
             \/ PluginAuth
             \/ PluginPing
             \/ PluginRequest
             \/ SendReply
             \/ PluginDrops
             \/ LifecycleMoves
             \/ ClockJumps
      PROVE  spent' = spent
  BY <1>8 DEF PluginHello, PluginAuth, PluginPing, PluginRequest, SendReply,
     PluginDrops, LifecycleMoves, ClockJumps
<1>9. ASSUME NEW outcome \in {"done", "failed"}, Finish(outcome) PROVE spent' = spent
  BY <1>9 DEF Finish
<1>10. ASSUME Tick PROVE spent' = spent \/ spent' = Charged \/ spent' = Overrun
  BY <1>10 DEF Tick
<1>11. spent' \in {spent, NothingSpent, Overrun, Charged}
  BY <1>2, <1>3, <1>4, <1>6, <1>7, <1>8, <1>9, <1>10 DEF Next
<1> HIDE DEF Spends
<1>12. spent' \in Spends
  BY <1>0, <1>1, <1>11
<1> QED  BY <1>12 DEF Spends

LEMMA RestTypeStep ==
  ASSUME Inv, Next
  PROVE  RestType'
<1>0. RestType  BY DEF Inv, Types
<1>1. carried' \in Nat
  <2>1. ASSUME NEW c \in Call, Authenticate(c) PROVE carried' \in Nat
    BY <2>1 DEF Authenticate, Inv, Types, CallType
  <2>2. ASSUME NEW c \in Call, Ask(c) PROVE carried' \in Nat
    BY <2>2, AskStep
  <2>3. CASE PluginHello  BY <2>3, <1>0, HelloStep DEF RestType
  <2>4. CASE PluginAuth  BY <2>4, <1>0, AuthStep DEF RestType
  <2>5. CASE PluginPing  BY <2>5, PingStep
  <2>6. CASE PluginRequest  BY <2>6, RequestStep
  <2>7. CASE \E outcome \in {"done", "failed"} : Finish(outcome)
    BY <2>7 DEF Finish
  <2>8. CASE SendReply  BY <2>8, <1>0, SendStep DEF RestType
  <2>9. CASE PluginDrops  BY <2>9, DropRecords DEF PluginDrops
  <2>10. CASE ClockJumps  BY <2>10, BudgetsAreNat DEF ClockJumps
  <2>11. CASE Tick  BY <2>11, <1>0, LessIsNat DEF Tick, RestType
  <2>12. CASE LifecycleMoves  BY <2>12, <1>0 DEF LifecycleMoves, RestType
  <2>13. ASSUME NEW c \in Call,
                \/ \E k \in Kinds : Begin(c, k)
                \/ Connect(c) \/ GiveUpConnecting(c) \/ PingFails(c) \/ NoAnswer(c)
                \/ EditTakesEffect(c) \/ \E m \in FromPlugin : TakeAnswer(c, m)
         PROVE  carried' = carried
    BY <2>13 DEF Begin, Connect, GiveUpConnecting, PingFails, NoAnswer, EditTakesEffect, TakeAnswer
  <2>14. carried \in Nat  BY <1>0 DEF RestType
  <2> QED
    BY <2>1, <2>2, <2>3, <2>4, <2>5, <2>6, <2>7, <2>8, <2>9, <2>10, <2>11, <2>12, <2>13,
       <2>14 DEF Next
<1>2. lifecycle' \in {"starting", "ready", "draining"}
  BY <1>0 DEF RestType, Next, Begin, Connect, GiveUpConnecting, Authenticate, Ask, PingFails,
     TakeAnswer, NoAnswer, EditTakesEffect, PluginHello, PluginAuth, PluginPing, PluginRequest,
     Finish, SendReply, PluginDrops, LifecycleMoves, ClockJumps, Tick
<1>3. applied' \subseteq Call
  BY <1>0 DEF RestType, Next, Begin, Connect, GiveUpConnecting, Authenticate, Ask, PingFails,
     TakeAnswer, NoAnswer, EditTakesEffect, PluginHello, PluginAuth, PluginPing, PluginRequest,
     Finish, SendReply, PluginDrops, LifecycleMoves, ClockJumps, Tick
<1>4. running' \subseteq Call
  <2>1. CASE PluginRequest  BY <2>1, <1>0, RequestStep DEF RestType
  <2>2. CASE \E outcome \in {"done", "failed"} : Finish(outcome)
    BY <2>2, <1>0 DEF RestType, Finish
  <2>3. CASE ~PluginRequest /\ ~\E outcome \in {"done", "failed"} : Finish(outcome)
    BY <2>3, <1>0 DEF RestType, Next, Begin, Connect, GiveUpConnecting, Authenticate, Ask,
       PingFails, TakeAnswer, NoAnswer, EditTakesEffect, PluginHello, PluginAuth, PluginPing,
       SendReply, PluginDrops, LifecycleMoves, ClockJumps, Tick
  <2> QED  BY <2>1, <2>2, <2>3
<1>5. after' \in [Call -> SUBSET Call]
  <2>1. ASSUME NEW c \in Call, NEW k \in Kinds, Begin(c, k)
        PROVE  after' \in [Call -> SUBSET Call]
    <3>1. after' = [after EXCEPT ![c] = {d \in Call : call[d].at = "over"}]
      BY <2>1 DEF Begin
    <3> QED  BY <3>1, <1>0 DEF RestType
  <2>2. CASE ~\E c \in Call, k \in Kinds : Begin(c, k)
    <3>1. after' = after
      BY <2>2 DEF Next, Connect, GiveUpConnecting, Authenticate, Ask, PingFails, TakeAnswer,
         NoAnswer, EditTakesEffect, PluginHello, PluginAuth, PluginPing, PluginRequest, Finish,
         SendReply, PluginDrops, LifecycleMoves, ClockJumps, Tick
    <3> QED  BY <3>1, <1>0 DEF RestType
  <2> QED  BY <2>1, <2>2
<1>6. mishaps' \in 0 .. MaxMishaps
  <2>0. mishaps \in 0 .. MaxMishaps /\ MaxMishaps \in Nat
    BY <1>0, LimitAssumption DEF RestType
  <2>1. mishaps' = mishaps \/ (mishaps < MaxMishaps /\ mishaps' = mishaps + 1)
    BY DEF Next, Begin, Connect, GiveUpConnecting, Authenticate, Ask, PingFails,
       TakeAnswer, NoAnswer, EditTakesEffect, PluginHello, PluginAuth, PluginPing, PluginRequest,
       Finish, SendReply, PluginDrops, LifecycleMoves, ClockJumps, Tick
  <2> QED  BY <2>0, <2>1
<1>7. spent' \in [work : Nat, write : Nat, wait : Nat]  BY SpentStep
<1> QED  BY <1>1, <1>2, <1>3, <1>4, <1>5, <1>6, <1>7 DEF RestType

LEMMA TypesStep ==
  ASSUME Inv, Next
  PROVE  Types'
BY CallTypeStep, PipeTypeStep, RestTypeStep
   DEF Types, ConnType, PluginType, ConnRecords, PluginRecords, PluginPlaces

-----------------------------------------------------------------------------
(* The situations.                                                         *)

\* No step of the others changes the situation, but for the frames to a caller
\* that has ended.
LEMMA SituationKept ==
  ASSUME Inv,
         conn'.who = conn.who, conn'.in = conn.in,
         conn'.out = conn.out \/ conn'.out = <<>>,
         plugin'.at = plugin.at, plugin'.reply = plugin.reply,
         conn.who = Nobody => conn' = conn /\ plugin' = plugin,
         conn.who \in Call =>
           /\ Unasked(conn.who) => Unasked(conn.who)'
           /\ Asked(conn.who) => Asked(conn.who)'
           /\ Answered(conn.who) => Answered(conn.who)'
  PROVE  Situation'
<1>1. CASE conn.who = Nobody
  <2>1. conn = NoConnection /\ plugin = Listening  BY <1>1 DEF Inv, Situation
  <2> QED  BY <1>1, <2>1 DEF Situation
<1>2. CASE conn.who # Nobody
  <2>0. conn.who \in Call  BY <1>2, CallerPlace
  <2>1. /\ Unasked(conn.who) => Unasked(conn.who)'
        /\ Asked(conn.who) => Asked(conn.who)'
        /\ Answered(conn.who) => Answered(conn.who)'
    BY <2>0
  <2>2. CASE Greeting(conn.who)
    <3>1. Greeting(conn.who)'  BY <2>1, <2>2 DEF Greeting
    <3> QED  BY <1>2, <3>1 DEF Situation
  <2>3. CASE Pinging(conn.who)
    <3>1. Pinging(conn.who)'  BY <2>1, <2>3 DEF Pinging
    <3> QED  BY <1>2, <3>1 DEF Situation
  <2>4. CASE Requested(conn.who)
    <3>1. Requested(conn.who)'  BY <2>1, <2>4 DEF Requested
    <3> QED  BY <1>2, <3>1 DEF Situation
  <2>5. CASE Executing(conn.who)
    <3>1. Executing(conn.who)'  BY <2>1, <2>5 DEF Executing
    <3> QED  BY <1>2, <3>1 DEF Situation
  <2>6. CASE Sending(conn.who)
    <3>1. Sending(conn.who)'  BY <2>1, <2>6 DEF Sending
    <3> QED  BY <1>2, <3>1 DEF Situation
  <2>7. CASE Sent(conn.who)
    <3>1. Sent(conn.who)'  BY <2>1, <2>7 DEF Sent
    <3> QED  BY <1>2, <3>1 DEF Situation
  <2> QED  BY <1>2, <2>2, <2>3, <2>4, <2>5, <2>6, <2>7 DEF Inv, Situation
<1> QED  BY <1>1, <1>2

LEMMA DroppedSituation ==
  ASSUME conn' = NoConnection, plugin' = Listening
  PROVE  Situation'
BY DEF Situation, NoConnection

\* A call's end without the plugin's answer leaves it where it was.
LEMMA EndedSituation ==
  ASSUME Inv, NEW c \in Call, NEW a \in FromServer, Over(c, a), plugin' = plugin,
         call[c].at = "asking" => a \in {"unknown", "lost"},
         call[c].at # "asking" => a = "unresolved",
         call[c].at # "over"
  PROVE  Situation'
<1>1. a \in Answers  BY DEF Answers
<1>2. /\ call'[c].at = "over" /\ call'[c].answer = a
      /\ \A d \in Call : d # c => call'[d] = call[d]
  BY <1>1, OverCall DEF Inv
<1>3. CASE conn.who = c
  <2>1. conn'.who = c /\ conn'.in = conn.in /\ conn'.out = <<>>
    BY <1>1, <1>3, OverCall DEF Inv
  <2>2. /\ Unasked(c) => Unasked(c)'
        /\ Asked(c) => Asked(c)'
        /\ ~Answered(c)
    BY <1>2 DEF Unasked, Asked, Answered
  <2>3. c # Nobody  BY CallAssumption
  <2> QED  BY <1>3, <2>1, <2>2, <2>3, SituationKept
<1>4. CASE conn.who # c
  <2>1. conn' = conn  BY <1>1, <1>4, OverCall DEF Inv
  <2>2. conn.who \in Call => call'[conn.who] = call[conn.who]  BY <1>2, <1>4
  <2>3. conn.who \in Call =>
           /\ Unasked(conn.who) => Unasked(conn.who)'
           /\ Asked(conn.who) => Asked(conn.who)'
           /\ Answered(conn.who) => Answered(conn.who)'
    BY <2>1, <2>2 DEF Unasked, Asked, Answered
  <2> QED  BY <2>1, <2>3, SituationKept
<1> QED  BY <1>3, <1>4

\* The served call's place is its own while the plugin moves.
LEMMA SameCaller ==
  ASSUME call' = call, conn'.who = conn.who
  PROVE  /\ Unasked(conn.who) => Unasked(conn.who)'
         /\ Asked(conn.who) => Asked(conn.who)'
         /\ Answered(conn.who) => Answered(conn.who)'
BY DEF Unasked, Asked, Answered

LEMMA SituationPluginStep ==
  ASSUME Inv,
         \/ PluginHello
         \/ PluginAuth
         \/ PluginPing
         \/ PluginRequest
         \/ \E outcome \in {"done", "failed"} : Finish(outcome)
         \/ SendReply
         \/ PluginDrops
  PROVE  Situation'
<1>0. call' = call
  BY DEF PluginHello, PluginAuth, PluginPing, PluginRequest, Finish, SendReply, PluginDrops
<1>1. CASE PluginHello
  <2>1. conn.who \in Call /\ Unasked(conn.who)  BY <1>1, HelloPlace DEF PluginHello
  <2>2. CASE conn' = NoConnection /\ plugin' = Listening  BY <2>2, DroppedSituation
  <2>3. CASE /\ conn'.who = conn.who /\ conn'.in = <<>> /\ conn'.out = <<"server_auth">>
             /\ plugin'.at = "auth"
    <3>1. Unasked(conn.who)'  BY <1>0, <2>1, <2>3, SameCaller
    <3>2. Greeting(conn.who)'  BY <3>1, <2>3 DEF Greeting
    <3> QED  BY <3>2, <2>1, <2>3, CallAssumption DEF Situation
  <2> QED  BY <1>1, <2>2, <2>3, HelloStep
<1>2. CASE PluginAuth
  <2>1. conn.who \in Call /\ Unasked(conn.who)  BY <1>2, AuthPlace DEF PluginAuth
  <2>2. CASE conn' = NoConnection /\ plugin' = Listening  BY <2>2, DroppedSituation
  <2>3. CASE /\ conn'.who = conn.who /\ conn'.in = <<"ping">> /\ conn'.out = <<>>
             /\ plugin'.at = "idle"
    <3>1. Unasked(conn.who)'  BY <1>0, <2>1, <2>3, SameCaller
    <3>2. Pinging(conn.who)'  BY <3>1, <2>3 DEF Pinging
    <3> QED  BY <3>2, <2>1, <2>3, CallAssumption DEF Situation
  <2> QED  BY <1>2, <2>2, <2>3, AuthStep
<1>3. CASE PluginPing
  <2>1. conn.who \in Call /\ Unasked(conn.who)  BY <1>3, PingPlace DEF PluginPing
  <2>2. /\ conn'.who = conn.who /\ conn'.in = <<>> /\ conn'.out = <<>>
        /\ plugin'.at = "sending" /\ plugin'.reply \in PongFrames
    BY <1>3, PingStep
  <2>3. Unasked(conn.who)'  BY <1>0, <2>1, <2>2, SameCaller
  <2>4. Pinging(conn.who)'  BY <2>2, <2>3 DEF Pinging
  <2> QED  BY <2>1, <2>2, <2>4, CallAssumption DEF Situation
<1>4. CASE PluginRequest
  <2>1. conn.who \in Call /\ Asked(conn.who)  BY <1>4, RequestPlace DEF PluginRequest
  <2>2. conn'.who = conn.who /\ conn'.in = <<>> /\ conn'.out = <<>>
    BY <1>4, RequestStep
  <2>3. Asked(conn.who)'  BY <1>0, <2>1, <2>2, SameCaller
  <2>4. CASE /\ plugin'.at = "sending"
             /\ plugin'.reply \in {"busy", "expired", "invalid", "unsupported"}
    <3>1. Sending(conn.who)'  BY <2>2, <2>3, <2>4 DEF Sending, FromPlugin
    <3> QED  BY <2>1, <2>2, <3>1, CallAssumption DEF Situation
  <2>5. CASE plugin'.at = "executing"
    <3>1. Executing(conn.who)'  BY <2>2, <2>3, <2>5 DEF Executing
    <3> QED  BY <2>1, <2>2, <3>1, CallAssumption DEF Situation
  <2> QED  BY <1>4, <2>4, <2>5, RequestStep
<1>5. ASSUME NEW outcome \in {"done", "failed"}, Finish(outcome) PROVE Situation'
  <2>1. conn.who \in Call /\ Asked(conn.who)  BY <1>5, ExecutingPlace DEF Finish
  <2>2. /\ conn' = conn /\ conn.in = <<>> /\ conn.out = <<>>
        /\ plugin'.at = "sending" /\ plugin'.reply \in {"done", "failed", "late"}
    BY <1>5, FinishStep
  <2>3. Asked(conn.who)'  BY <1>0, <2>1, <2>2, SameCaller
  <2>4. Sending(conn.who)'  BY <2>2, <2>3 DEF Sending, FromPlugin
  <2> QED  BY <2>1, <2>2, <2>4, CallAssumption DEF Situation
<1>6. CASE SendReply
  <2>1. /\ conn.who \in Call
        /\ \/ Unasked(conn.who) /\ plugin.reply \in PongFrames
           \/ Sending(conn.who)
    BY <1>6, SendingPlace DEF SendReply
  <2>2. CASE conn' = NoConnection /\ plugin' = Listening  BY <2>2, DroppedSituation
  <2>3. CASE /\ conn'.who = conn.who /\ conn'.in = <<>> /\ conn'.out = <<plugin.reply>>
             /\ plugin'.at = "idle"
    <3>1. CASE Unasked(conn.who) /\ plugin.reply \in PongFrames
      <4>1. Unasked(conn.who)'  BY <1>0, <3>1, <2>3, SameCaller
      <4>2. Pinging(conn.who)'  BY <4>1, <3>1, <2>3 DEF Pinging, PongFrames
      <4> QED  BY <4>2, <2>1, <2>3, CallAssumption DEF Situation
    <3>2. CASE Sending(conn.who)
      <4>1. Asked(conn.who)'  BY <1>0, <3>2, <2>3, SameCaller DEF Sending
      <4>2. plugin.reply \in FromPlugin  BY <3>2 DEF Sending
      <4>3. Sent(conn.who)'  BY <4>1, <4>2, <2>3 DEF Sent
      <4> QED  BY <4>3, <2>1, <2>3, CallAssumption DEF Situation
    <3> QED  BY <2>1, <3>1, <3>2
  <2> QED  BY <1>6, <2>2, <2>3, SendStep
<1>7. CASE PluginDrops
  BY <1>7, DropRecords, DroppedSituation DEF PluginDrops
<1> QED  BY <1>1, <1>2, <1>3, <1>4, <1>5, <1>6, <1>7

LEMMA SituationCallerStep ==
  ASSUME Inv, NEW c \in Call,
         \/ \E k \in Kinds : Begin(c, k)
         \/ Connect(c)
         \/ GiveUpConnecting(c)
         \/ Authenticate(c)
         \/ Ask(c)
         \/ PingFails(c)
         \/ \E m \in FromPlugin : TakeAnswer(c, m)
         \/ NoAnswer(c)
  PROVE  Situation'
<1>0. call \in [Call -> CallRecords] /\ c # Nobody
  BY CallAssumption DEF Inv, Types, CallType, CallRecords, CallStates, Answers
<1>1. ASSUME NEW k \in Kinds, Begin(c, k) PROVE Situation'
  <2>1. /\ call[c].at = "new" /\ conn' = conn /\ plugin' = plugin
        /\ \A d \in Call : d # c => call'[d] = call[d]
    BY <1>0, <1>1 DEF Begin
  <2>2. conn.who # c  BY <1>0, <2>1, CallerPlace
  <2>3. conn.who \in Call => call'[conn.who] = call[conn.who]  BY <2>1, <2>2
  <2>4. conn.who \in Call =>
           /\ Unasked(conn.who) => Unasked(conn.who)'
           /\ Asked(conn.who) => Asked(conn.who)'
           /\ Answered(conn.who) => Answered(conn.who)'
    BY <2>1, <2>3 DEF Unasked, Asked, Answered
  <2> QED  BY <2>1, <2>4, SituationKept
<1>2. CASE Connect(c)
  <2>1. /\ conn'.who = c /\ conn'.in = <<"hello">> /\ conn'.out = <<>>
        /\ plugin'.at = "hello"
    BY <1>2, ConnectStep
  <2>2. call'[c].at = "authenticating"  BY <1>0, <1>2 DEF Connect, CallRecords
  <2>3. Greeting(c)'  BY <2>1, <2>2 DEF Greeting, Unasked
  <2> QED  BY <1>0, <2>1, <2>3 DEF Situation
<1>3. CASE GiveUpConnecting(c) \/ PingFails(c)
  <2>1. /\ Over(c, "unresolved") /\ plugin' = plugin
        /\ call[c].at # "asking" /\ call[c].at # "over"
    BY <1>3 DEF GiveUpConnecting, PingFails
  <2>2. "unresolved" \in FromServer  BY DEF FromServer
  <2> QED  BY <2>1, <2>2, EndedSituation
<1>4. CASE Authenticate(c)
  <2>1. /\ conn'.who = c /\ conn'.in = <<"client_auth", "ping">> /\ conn'.out = <<>>
        /\ plugin'.at = "auth"
    BY <1>4, AuthenticateStep, AuthenticatePlace DEF Authenticate
  <2>2. call'[c].at = "pinging"  BY <1>0, <1>4 DEF Authenticate, CallRecords
  <2>3. Greeting(c)'  BY <2>1, <2>2 DEF Greeting, Unasked
  <2> QED  BY <1>0, <2>1, <2>3 DEF Situation
<1>5. CASE Ask(c)
  <2>1. conn'.who = c /\ conn'.in = <<"request">> /\ conn'.out = <<>>
    BY <1>5, AskStep
  <2>2. plugin'.at = "idle"
    <3>1. call[c].at = "pinging" /\ Arrived(c, "pong") /\ plugin' = plugin  BY <1>5 DEF Ask
    <3> QED  BY <3>1, PongPlace
  <2>3. call'[c].at = "asking"  BY <1>0, <1>5 DEF Ask, CallRecords
  <2>4. Requested(c)'  BY <2>1, <2>2, <2>3 DEF Requested, Asked
  <2> QED  BY <1>0, <2>1, <2>4 DEF Situation
<1>6. ASSUME NEW m \in FromPlugin, TakeAnswer(c, m) PROVE Situation'
  <2>1. /\ call[c].at = "asking" /\ Arrived(c, m) /\ Over(c, m) /\ plugin' = plugin
    BY <1>6 DEF TakeAnswer
  <2>2. conn.who = c /\ plugin.at = "idle" /\ conn.in = <<>>  BY <2>1, AnswerPlace
  <2>3. m \in Answers  BY DEF Answers
  <2>4. /\ conn'.who = c /\ conn'.in = <<>> /\ conn'.out = <<>>
        /\ call'[c].at = "over" /\ call'[c].answer = m
    BY <2>1, <2>2, <2>3, OverCall DEF Inv
  <2>5. Sent(c)'  BY <2>1, <2>2, <2>4 DEF Sent, Answered
  <2> QED  BY <1>0, <2>4, <2>5 DEF Situation
<1>7. CASE NoAnswer(c)
  <2>1. /\ Over(c, OwnReport(c)) /\ plugin' = plugin /\ call[c].at # "over"
    BY <1>7 DEF NoAnswer, Waiting
  <2>2. /\ call[c].at = "asking" => OwnReport(c) \in {"unknown", "lost"}
        /\ call[c].at # "asking" => OwnReport(c) = "unresolved"
    BY DEF OwnReport
  <2> QED  BY <2>1, <2>2, OwnReportIsAnswer, EndedSituation
<1> QED  BY <1>1, <1>2, <1>3, <1>4, <1>5, <1>6, <1>7

LEMMA TickRecords ==
  ASSUME Inv, Tick
  PROVE  /\ conn' = conn /\ plugin'.at = plugin.at /\ plugin'.reply = plugin.reply
         /\ plugin = Listening => plugin' = plugin
         /\ \A c \in Call :
              /\ call'[c].at = call[c].at /\ call'[c].kind = call[c].kind
              /\ call'[c].answer = call[c].answer /\ call'[c].left = Less(call[c].left)
<1>1. call \in [Call -> CallRecords] /\ plugin \in PluginRecords
  BY DEF Inv, Types, CallType, CallRecords, CallStates, Answers, PluginType, PluginRecords,
         PluginPlaces
<1>2. /\ plugin' = [plugin EXCEPT !.left = Less(@), !.run = Less(@)] /\ conn' = conn
      /\ call' = [c \in Call |-> [call[c] EXCEPT !.left = Less(@)]]
  BY DEF Tick
<1>3. plugin'.at = plugin.at /\ plugin'.reply = plugin.reply
  BY <1>1, <1>2 DEF PluginRecords
<1>4. plugin = Listening => plugin' = plugin
  <2>1. Less(0) = 0  BY DEF Less
  <2>2. plugin = Listening => plugin.left = 0 /\ plugin.run = 0  BY DEF Listening
  <2>3. ASSUME plugin = Listening PROVE plugin' = [plugin EXCEPT !.left = 0, !.run = 0]
    BY <1>2, <2>1, <2>2, <2>3
  <2>4. ASSUME plugin.left = 0, plugin.run = 0
        PROVE  [plugin EXCEPT !.left = 0, !.run = 0] = plugin
    BY <1>1, <2>4 DEF PluginRecords
  <2> QED  BY <2>2, <2>3, <2>4
<1>5. ASSUME NEW c \in Call
      PROVE  /\ call'[c].at = call[c].at /\ call'[c].kind = call[c].kind
             /\ call'[c].answer = call[c].answer /\ call'[c].left = Less(call[c].left)
  <2>1. call'[c] = [call[c] EXCEPT !.left = Less(@)]  BY <1>2
  <2>2. call[c] \in CallRecords  BY <1>1
  <2> QED  BY <2>1, <2>2 DEF CallRecords
<1> QED  BY <1>2, <1>3, <1>4, <1>5

LEMMA SituationStep ==
  ASSUME Inv, Next
  PROVE  Situation'
<1>1. CASE Tick
  <2>1. conn.who \in Call =>
           /\ Unasked(conn.who) => Unasked(conn.who)'
           /\ Asked(conn.who) => Asked(conn.who)'
           /\ Answered(conn.who) => Answered(conn.who)'
    BY <1>1, TickRecords DEF Unasked, Asked, Answered
  <2>2. conn.who = Nobody => plugin = Listening  BY DEF Inv, Situation
  <2> QED  BY <1>1, <2>1, <2>2, TickRecords, SituationKept
<1>2. ASSUME \/ \E c \in Call : EditTakesEffect(c)
             \/ LifecycleMoves
             \/ ClockJumps
      PROVE  Situation'
  <2>1. call' = call /\ conn' = conn /\ plugin' = plugin
    BY <1>2 DEF EditTakesEffect, LifecycleMoves, ClockJumps
  <2>2. conn.who \in Call =>
           /\ Unasked(conn.who) => Unasked(conn.who)'
           /\ Asked(conn.who) => Asked(conn.who)'
           /\ Answered(conn.who) => Answered(conn.who)'
    BY <2>1, SameCaller
  <2> QED  BY <2>1, <2>2, SituationKept
<1> QED
  BY <1>1, <1>2, SituationPluginStep, SituationCallerStep DEF Next

-----------------------------------------------------------------------------
(* What the answers say.                                                   *)

CallerStep(c) ==
  \/ \E k \in Kinds : Begin(c, k)
  \/ Connect(c)
  \/ GiveUpConnecting(c)
  \/ Authenticate(c)
  \/ Ask(c)
  \/ PingFails(c)
  \/ \E m \in FromPlugin : TakeAnswer(c, m)
  \/ NoAnswer(c)
PluginStep ==
  \/ PluginHello
  \/ PluginAuth
  \/ PluginPing
  \/ PluginRequest
  \/ \E outcome \in {"done", "failed"} : Finish(outcome)
  \/ SendReply
  \/ PluginDrops
OtherStep == LifecycleMoves \/ ClockJumps

LEMMA NextSteps ==
  ASSUME Next
  PROVE  \/ \E c \in Call : CallerStep(c) \/ EditTakesEffect(c)
         \/ PluginStep \/ OtherStep \/ Tick
BY DEF Next, CallerStep, PluginStep, OtherStep

\* A caller's step touches its own record and nothing of the edits.
LEMMA CallerFrame ==
  ASSUME Inv, NEW c \in Call, CallerStep(c)
  PROVE  /\ running' = running /\ applied' = applied
         /\ \A d \in Call : d # c => call'[d] = call[d]
         /\ call[c].at # "new" => call'[c].kind = call[c].kind
         /\ conn.who = c => call[c].at # "new"
         /\ (plugin' = plugin /\ conn'.who = conn.who) \/ Connect(c)
<1>0. call \in [Call -> CallRecords] /\ Types
  BY DEF Inv, Types, CallType, CallRecords, CallStates, Answers
<1>a. conn.who = c => call[c].at # "new"  BY CallerPlace, CallAssumption
<1>over. ASSUME NEW a \in Answers, Over(c, a), plugin' = plugin
         PROVE  /\ \A d \in Call : d # c => call'[d] = call[d]
                /\ call'[c].kind = call[c].kind
                /\ plugin' = plugin /\ conn'.who = conn.who
  BY <1>0, <1>over, OverCall
<1>1. ASSUME NEW k \in Kinds, Begin(c, k)
      PROVE  /\ running' = running /\ applied' = applied
             /\ \A d \in Call : d # c => call'[d] = call[d]
             /\ call[c].at = "new"
             /\ plugin' = plugin /\ conn'.who = conn.who
  BY <1>0, <1>1 DEF Begin
<1>2. ASSUME Connect(c)
      PROVE  /\ running' = running /\ applied' = applied
             /\ \A d \in Call : d # c => call'[d] = call[d]
             /\ call'[c].kind = call[c].kind
  BY <1>0, <1>2 DEF Connect, CallRecords
<1>3. ASSUME GiveUpConnecting(c) \/ PingFails(c)
      PROVE  /\ running' = running /\ applied' = applied
             /\ \A d \in Call : d # c => call'[d] = call[d]
             /\ call'[c].kind = call[c].kind
             /\ plugin' = plugin /\ conn'.who = conn.who
  <2>1. /\ Over(c, "unresolved") /\ plugin' = plugin
        /\ running' = running /\ applied' = applied
    BY <1>3 DEF GiveUpConnecting, PingFails
  <2>2. "unresolved" \in Answers  BY DEF Answers, FromServer
  <2> QED  BY <2>1, <2>2, <1>over
<1>4. ASSUME Authenticate(c)
      PROVE  /\ running' = running /\ applied' = applied
             /\ \A d \in Call : d # c => call'[d] = call[d]
             /\ call'[c].kind = call[c].kind
             /\ plugin' = plugin /\ conn'.who = conn.who
  <2>1. /\ running' = running /\ applied' = applied /\ plugin' = plugin
        /\ \A d \in Call : d # c => call'[d] = call[d]
        /\ call'[c].kind = call[c].kind
    BY <1>0, <1>4 DEF Authenticate, CallRecords
  <2>2. conn'.who = conn.who  BY <1>4, AuthenticateStep, AuthenticatePlace
  <2> QED  BY <2>1, <2>2
<1>5. ASSUME Ask(c)
      PROVE  /\ running' = running /\ applied' = applied
             /\ \A d \in Call : d # c => call'[d] = call[d]
             /\ call'[c].kind = call[c].kind
             /\ plugin' = plugin /\ conn'.who = conn.who
  <2>1. /\ running' = running /\ applied' = applied /\ plugin' = plugin
        /\ \A d \in Call : d # c => call'[d] = call[d]
        /\ call'[c].kind = call[c].kind
    BY <1>0, <1>5 DEF Ask, CallRecords
  <2>2. Arrived(c, "pong")  BY <1>5 DEF Ask
  <2>3. conn'.who = conn.who  BY <1>5, <2>2, AskStep DEF Arrived
  <2> QED  BY <2>1, <2>3
<1>6. ASSUME NEW m \in FromPlugin, TakeAnswer(c, m)
      PROVE  /\ running' = running /\ applied' = applied
             /\ \A d \in Call : d # c => call'[d] = call[d]
             /\ call'[c].kind = call[c].kind
             /\ plugin' = plugin /\ conn'.who = conn.who
  <2>1. Over(c, m) /\ plugin' = plugin /\ running' = running /\ applied' = applied
    BY <1>6 DEF TakeAnswer
  <2>2. m \in Answers  BY DEF Answers
  <2> QED  BY <2>1, <2>2, <1>over
<1>7. ASSUME NoAnswer(c)
      PROVE  /\ running' = running /\ applied' = applied
             /\ \A d \in Call : d # c => call'[d] = call[d]
             /\ call'[c].kind = call[c].kind
             /\ plugin' = plugin /\ conn'.who = conn.who
  <2>1. Over(c, OwnReport(c)) /\ plugin' = plugin /\ running' = running /\ applied' = applied
    BY <1>7 DEF NoAnswer
  <2> QED  BY <2>1, OwnReportIsAnswer, <1>over
<1>8. CASE \E k \in Kinds : Begin(c, k)  BY <1>8, <1>1, <1>a
<1>9. CASE Connect(c)  BY <1>9, <1>2, <1>a
<1>10. CASE GiveUpConnecting(c) \/ PingFails(c)  BY <1>10, <1>3, <1>a
<1>11. CASE Authenticate(c)  BY <1>11, <1>4, <1>a
<1>12. CASE Ask(c)  BY <1>12, <1>5, <1>a
<1>13. CASE \E m \in FromPlugin : TakeAnswer(c, m)  BY <1>13, <1>6, <1>a
<1>14. CASE NoAnswer(c)  BY <1>14, <1>7, <1>a
<1> QED  BY <1>8, <1>9, <1>10, <1>11, <1>12, <1>13, <1>14 DEF CallerStep

\* What a caller's step makes of its own record.
LEMMA CallerMoves ==
  ASSUME Inv, NEW c \in Call, CallerStep(c)
  PROVE  /\ call'[c].at # "over" => call'[c].answer = "none"
         /\ call'[c].at \in {"new", "connecting"} \/ Unasked(c)' =>
              call[c].at \in {"new", "connecting"} \/ Unasked(c)
         /\ Asked(c)' => Asked(c) \/ Ask(c)
         /\ Answered(c)' =>
              \E m \in FromPlugin : TakeAnswer(c, m) /\ call'[c].answer = m
         /\ call[c].at # "over"
<1>0. call \in [Call -> CallRecords] /\ Types /\ NoAnswerYet
  BY DEF Inv, Types, CallType, CallRecords, CallStates, Answers, Honest
<1>1. ASSUME NEW k \in Kinds, Begin(c, k)
      PROVE  call[c].at = "new" /\ call'[c].at = "connecting" /\ call'[c].answer = "none"
  BY <1>0, <1>1 DEF Begin
<1>2. ASSUME Connect(c)
      PROVE  /\ call[c].at = "connecting" /\ call'[c].at = "authenticating"
             /\ call'[c].answer = "none"
  BY <1>0, <1>2 DEF Connect, CallRecords, NoAnswerYet
<1>3. ASSUME GiveUpConnecting(c) \/ PingFails(c)
      PROVE  /\ call[c].at \in {"connecting", "pinging"}
             /\ call'[c].at = "over" /\ call'[c].answer = "unresolved"
  <2>1. Over(c, "unresolved") /\ call[c].at \in {"connecting", "pinging"}
    BY <1>3 DEF GiveUpConnecting, PingFails
  <2>2. "unresolved" \in Answers  BY DEF Answers, FromServer
  <2> QED  BY <1>0, <2>1, <2>2, OverCall
<1>4. ASSUME Authenticate(c)
      PROVE  /\ call[c].at = "authenticating" /\ call'[c].at = "pinging"
             /\ call'[c].answer = "none"
  BY <1>0, <1>4 DEF Authenticate, CallRecords, NoAnswerYet
<1>5. ASSUME Ask(c)
      PROVE  /\ call[c].at = "pinging" /\ call'[c].at = "asking"
             /\ call'[c].answer = "none"
  BY <1>0, <1>5 DEF Ask, CallRecords, NoAnswerYet
<1>6. ASSUME NEW m \in FromPlugin, TakeAnswer(c, m)
      PROVE  call[c].at = "asking" /\ call'[c].at = "over" /\ call'[c].answer = m
  <2>1. Over(c, m) /\ call[c].at = "asking"  BY <1>6 DEF TakeAnswer
  <2>2. m \in Answers  BY DEF Answers
  <2> QED  BY <1>0, <2>1, <2>2, OverCall
<1>7. ASSUME NoAnswer(c)
      PROVE  /\ call[c].at \in Waiting /\ call'[c].at = "over"
             /\ call[c].at = "asking" => call'[c].answer \in {"unknown", "lost"}
             /\ call[c].at # "asking" => call'[c].answer = "unresolved"
  <2>1. Over(c, OwnReport(c)) /\ call[c].at \in Waiting  BY <1>7 DEF NoAnswer
  <2>2. call'[c].at = "over" /\ call'[c].answer = OwnReport(c)
    BY <1>0, <2>1, OwnReportIsAnswer, OverCall
  <2> QED  BY <2>1, <2>2 DEF OwnReport
<1>8. "unresolved" \notin FromPlugin /\ "unknown" \notin FromPlugin /\ "lost" \notin FromPlugin
  BY DEF FromPlugin
<1>9. CASE \E k \in Kinds : Begin(c, k)
  BY <1>1, <1>9 DEF Unasked, Asked, Answered
<1>10. CASE Connect(c)
  BY <1>2, <1>10 DEF Unasked, Asked, Answered
<1>11. CASE GiveUpConnecting(c) \/ PingFails(c)
  BY <1>3, <1>8, <1>11 DEF Unasked, Asked, Answered
<1>12. CASE Authenticate(c)
  BY <1>4, <1>12 DEF Unasked, Asked, Answered
<1>13. CASE Ask(c)
  BY <1>5, <1>13 DEF Unasked, Asked, Answered
<1>14. CASE \E m \in FromPlugin : TakeAnswer(c, m)
  BY <1>6, <1>8, <1>14 DEF Unasked, Asked, Answered
<1>15. CASE NoAnswer(c)
  BY <1>7, <1>8, <1>15 DEF Unasked, Asked, Answered, Waiting
<1> QED  BY <1>9, <1>10, <1>11, <1>12, <1>13, <1>14, <1>15 DEF CallerStep

LEMMA PluginFrame ==
  ASSUME PluginStep
  PROVE  call' = call /\ applied' = applied
BY DEF PluginStep, PluginHello, PluginAuth, PluginPing, PluginRequest, Finish, SendReply,
   PluginDrops

LEMMA OtherFrame ==
  ASSUME OtherStep
  PROVE  /\ call' = call /\ applied' = applied /\ running' = running
         /\ conn' = conn /\ plugin' = plugin
BY DEF OtherStep, LifecycleMoves, ClockJumps

LEMMA EffectFrame ==
  ASSUME Inv, NEW c \in Call, EditTakesEffect(c)
  PROVE  /\ call' = call /\ applied' = applied \cup {c} /\ running' = running
         /\ conn' = conn /\ plugin' = plugin
         /\ conn.who = c /\ plugin.at = "executing" /\ Asked(c)
<1>1. /\ call' = call /\ applied' = applied \cup {c} /\ running' = running
      /\ conn' = conn /\ plugin' = plugin /\ c \in running
  BY DEF EditTakesEffect
<1>2. conn.who = c /\ plugin.at = "executing"
  BY <1>1 DEF Inv, Honest, OnlyTheServedRuns
<1>3. Asked(c)  BY <1>2, ExecutingPlace
<1> QED  BY <1>1, <1>2, <1>3

LEMMA TickFrame ==
  ASSUME Inv, Tick
  PROVE  /\ running' = running /\ applied' = applied /\ conn' = conn
         /\ plugin'.at = plugin.at /\ plugin'.reply = plugin.reply
         /\ \A c \in Call :
              /\ call'[c].at = call[c].at /\ call'[c].kind = call[c].kind
              /\ call'[c].answer = call[c].answer
              /\ Unasked(c)' <=> Unasked(c)
              /\ Asked(c)' <=> Asked(c)
              /\ Answered(c)' <=> Answered(c)
<1>1. running' = running /\ applied' = applied  BY DEF Tick
<1> QED  BY <1>1, TickRecords DEF Unasked, Asked, Answered

LEMMA RunningStep ==
  ASSUME Inv, Next
  PROVE  OnlyTheServedRuns'
<1>0. OnlyTheServedRuns /\ running \subseteq Call
  BY DEF Inv, Honest, Types, RestType
<1>1. ASSUME NEW c \in Call, CallerStep(c) PROVE OnlyTheServedRuns'
  <2>1. CASE Connect(c)
    <3>1. running = {}  BY <1>0, <2>1 DEF OnlyTheServedRuns, Connect
    <3> QED  BY <3>1, <1>1, CallerFrame DEF OnlyTheServedRuns
  <2>2. CASE ~Connect(c)
    <3>1. /\ running' = running /\ plugin' = plugin /\ conn'.who = conn.who
      BY <1>1, <2>2, CallerFrame
    <3>2. \A d \in running : call'[d].kind = call[d].kind
      <4>1. ASSUME NEW d \in running PROVE call'[d].kind = call[d].kind
        <5>1. conn.who = d  BY <1>0 DEF OnlyTheServedRuns
        <5> QED  BY <1>0, <1>1, <5>1, CallerFrame
      <4> QED  BY <4>1
    <3> QED  BY <1>0, <3>1, <3>2 DEF OnlyTheServedRuns
  <2> QED  BY <2>1, <2>2
<1>2. ASSUME NEW c \in Call, EditTakesEffect(c) PROVE OnlyTheServedRuns'
  BY <1>0, <1>2, EffectFrame DEF OnlyTheServedRuns
<1>3. CASE OtherStep
  BY <1>0, <1>3, OtherFrame DEF OnlyTheServedRuns
<1>4. CASE Tick
  BY <1>0, <1>4, TickFrame DEF OnlyTheServedRuns
<1>5. CASE PluginRequest
  <2>1. running = {}  BY <1>0, <1>5 DEF OnlyTheServedRuns, PluginRequest
  <2>2. call' = call  BY <1>5 DEF PluginRequest
  <2>3. conn'.who = conn.who  BY <1>5, RequestStep
  <2>4. \/ running' = {}
        \/ /\ plugin'.at = "executing" /\ running' = {conn.who}
           /\ call[conn.who].kind = "edit"
    BY <2>1, <1>5, RequestStep
  <2> QED  BY <2>2, <2>3, <2>4 DEF OnlyTheServedRuns
<1>6. ASSUME NEW outcome \in {"done", "failed"}, Finish(outcome) PROVE OnlyTheServedRuns'
  <2>1. running' = {}  BY <1>0, <1>6, FinishStep DEF OnlyTheServedRuns
  <2> QED  BY <2>1 DEF OnlyTheServedRuns
<1>7. CASE PluginHello \/ PluginAuth \/ PluginPing \/ SendReply \/ PluginDrops
  <2>1. running' = running /\ plugin.at # "executing"
    BY <1>7 DEF PluginHello, PluginAuth, PluginPing, SendReply, PluginDrops
  <2>2. running = {}  BY <1>0, <2>1 DEF OnlyTheServedRuns
  <2> QED  BY <2>1, <2>2 DEF OnlyTheServedRuns
<1> QED
  BY <1>1, <1>2, <1>3, <1>4, <1>5, <1>6, <1>7, NextSteps DEF PluginStep

LEMMA NoAnswerStep ==
  ASSUME Inv, Next
  PROVE  NoAnswerYet'
<1>0. NoAnswerYet  BY DEF Inv, Honest
<1>1. ASSUME NEW c \in Call, CallerStep(c) PROVE NoAnswerYet'
  <2>1. /\ \A d \in Call : d # c => call'[d] = call[d]
        /\ call'[c].at # "over" => call'[c].answer = "none"
    BY <1>1, CallerFrame, CallerMoves
  <2> QED  BY <1>0, <2>1 DEF NoAnswerYet
<1>2. ASSUME NEW c \in Call, EditTakesEffect(c) PROVE NoAnswerYet'
  BY <1>0, <1>2 DEF EditTakesEffect, NoAnswerYet
<1>3. CASE PluginStep  BY <1>0, <1>3, PluginFrame DEF NoAnswerYet
<1>4. CASE OtherStep  BY <1>0, <1>4, OtherFrame DEF NoAnswerYet
<1>5. CASE Tick  BY <1>0, <1>5, TickFrame DEF NoAnswerYet
<1> QED  BY <1>1, <1>2, <1>3, <1>4, <1>5, NextSteps

LEMMA UnaskedStep ==
  ASSUME Inv, Next
  PROVE  UnaskedUnapplied'
<1>0. UnaskedUnapplied  BY DEF Inv, Honest
<1>1. ASSUME NEW c \in Call, CallerStep(c) PROVE UnaskedUnapplied'
  <2>1. /\ \A d \in Call : d # c => call'[d] = call[d]
        /\ applied' = applied
    BY <1>1, CallerFrame
  <2>2. call'[c].at \in {"new", "connecting"} \/ Unasked(c)' =>
          call[c].at \in {"new", "connecting"} \/ Unasked(c)
    BY <1>1, CallerMoves
  <2>3. ASSUME NEW d \in Call, call'[d].at \in {"new", "connecting"} \/ Unasked(d)'
        PROVE  call[d].at \in {"new", "connecting"} \/ Unasked(d)
    <3>1. CASE d = c  BY <2>2, <2>3, <3>1
    <3>2. CASE d # c  BY <2>1, <2>3, <3>2 DEF Unasked
    <3> QED  BY <3>1, <3>2
  <2> QED  BY <1>0, <2>1, <2>3 DEF UnaskedUnapplied
<1>2. ASSUME NEW c \in Call, EditTakesEffect(c) PROVE UnaskedUnapplied'
  <2>1. call' = call /\ applied' = applied \cup {c} /\ Asked(c)
    BY <1>2, EffectFrame
  <2>2. ~(call[c].at \in {"new", "connecting"} \/ Unasked(c))
    BY <2>1 DEF Asked, Unasked
  <2>3. \A d \in Call : Unasked(d)' <=> Unasked(d)  BY <2>1 DEF Unasked
  <2> QED  BY <1>0, <2>1, <2>2, <2>3 DEF UnaskedUnapplied
<1>3. CASE PluginStep \/ OtherStep
  <2>1. call' = call /\ applied' = applied  BY <1>3, PluginFrame, OtherFrame
  <2>2. \A d \in Call : Unasked(d)' <=> Unasked(d)  BY <2>1 DEF Unasked
  <2> QED  BY <1>0, <2>1, <2>2 DEF UnaskedUnapplied
<1>4. CASE Tick  BY <1>0, <1>4, TickFrame DEF UnaskedUnapplied
<1> QED  BY <1>1, <1>2, <1>3, <1>4, NextSteps

\* The request is the one written by Ask until the plugin takes it.
LEMMA RequestedBefore ==
  ASSUME Inv, Next, conn'.who \in Call, Requested(conn.who)',
         \A c \in Call : ~Ask(c)
  PROVE  /\ conn'.who = conn.who /\ Requested(conn.who) /\ ~PluginStep
<1>0. plugin'.at = "idle" /\ conn'.in = <<"request">> /\ Asked(conn.who)'
  BY DEF Requested
<1>f. <<"request">> # <<>> /\ <<"request">> # <<"ping">>  OBVIOUS
<1>l. plugin' # Listening  BY <1>0 DEF Listening
<1>1. ASSUME NEW c \in Call, CallerStep(c)
      PROVE  conn'.who = conn.who /\ conn.in = <<"request">> /\ plugin.at = "idle"
  <2>1. CASE Connect(c)
    <3>1. conn'.in = <<"hello">>  BY <2>1, ConnectStep
    <3> QED  BY <1>0, <3>1
  <2>2. CASE Authenticate(c)
    <3>1. plugin' = plugin /\ plugin.at = "auth"
      BY <2>2, AuthenticatePlace DEF Authenticate
    <3> QED  BY <1>0, <3>1
  <2>3. CASE ~Connect(c) /\ ~Authenticate(c)
    <3>1. plugin' = plugin /\ conn'.who = conn.who
      BY <1>1, <2>3, CallerFrame
    <3>2. ASSUME NEW a \in Answers, Over(c, a) PROVE conn.in = <<"request">>
      <4>1. conn'.in = conn.in  BY <3>2, OverCall DEF Inv
      <4> QED  BY <4>1, <1>0
    <3>3. CASE \E k \in Kinds : Begin(c, k)  BY <1>0, <3>1, <3>3 DEF Begin
    <3>4. CASE GiveUpConnecting(c) \/ PingFails(c)
      <4>1. Over(c, "unresolved") /\ "unresolved" \in Answers
        BY <3>4 DEF GiveUpConnecting, PingFails, Answers, FromServer
      <4> QED  BY <4>1, <3>1, <3>2, <1>0
    <3>5. ASSUME NEW m \in FromPlugin, TakeAnswer(c, m) PROVE conn.in = <<"request">>
      <4>1. Over(c, m) /\ m \in Answers  BY <3>5 DEF TakeAnswer, Answers
      <4> QED  BY <4>1, <3>2
    <3>6. CASE NoAnswer(c)
      <4>1. Over(c, OwnReport(c))  BY <3>6 DEF NoAnswer
      <4> QED  BY <4>1, <3>1, <3>2, <1>0, OwnReportIsAnswer
    <3> QED  BY <1>0, <1>1, <2>3, <3>1, <3>3, <3>4, <3>5, <3>6 DEF CallerStep
  <2> QED  BY <2>1, <2>2, <2>3
<1>2. ASSUME NEW c \in Call, EditTakesEffect(c)
      PROVE  conn'.who = conn.who /\ conn.in = <<"request">> /\ plugin.at = "idle"
  BY <1>0, <1>2, EffectFrame
<1>3. ~PluginStep
  <2>1. CASE PluginHello  BY <2>1, <1>0, <1>l, HelloStep
  <2>2. CASE PluginAuth  BY <2>2, <1>0, <1>f, <1>l, AuthStep
  <2>3. CASE PluginPing  BY <2>3, <1>0, PingStep
  <2>4. CASE PluginRequest  BY <2>4, <1>0, <1>f, RequestStep
  <2>5. ASSUME NEW outcome \in {"done", "failed"}, Finish(outcome) PROVE FALSE
    BY <2>5, <1>0, FinishStep
  <2>6. CASE SendReply  BY <2>6, <1>0, <1>f, <1>l, SendStep
  <2>7. CASE PluginDrops
    <3>1. Drop  BY <2>7 DEF PluginDrops
    <3> QED  BY <3>1, <1>l, DropRecords
  <2> QED  BY <2>1, <2>2, <2>3, <2>4, <2>5, <2>6, <2>7 DEF PluginStep
<1>4. ASSUME OtherStep \/ Tick
      PROVE  conn'.who = conn.who /\ conn.in = <<"request">> /\ plugin.at = "idle"
  BY <1>0, <1>4, OtherFrame, TickFrame
<1>5. conn'.who = conn.who /\ conn.in = <<"request">> /\ plugin.at = "idle"
  BY <1>1, <1>2, <1>3, <1>4, <1>0, OtherFrame, TickFrame, NextSteps
<1>6. conn.who # Nobody  BY <1>5, CallAssumption
<1>7. Requested(conn.who)
  BY <1>5, <1>6, <1>f DEF Inv, Situation, Greeting, Pinging, Executing, Sending, Sent
<1> QED  BY <1>3, <1>5, <1>7

LEMMA RequestedStep ==
  ASSUME Inv, Next, conn'.who \in Call, Requested(conn.who)'
  PROVE  conn'.who \notin applied'
<1>0. RequestedUnapplied /\ UnaskedUnapplied  BY DEF Inv, Honest
<1>1. ASSUME NEW c \in Call, Ask(c) PROVE conn'.who \notin applied'
  <2>1. CallerStep(c)  BY <1>1 DEF CallerStep
  <2>2. conn'.who = c /\ applied' = applied  BY <1>1, <2>1, AskStep, CallerFrame
  <2>3. Unasked(c)  BY <1>1 DEF Ask, Unasked
  <2> QED  BY <1>0, <2>2, <2>3 DEF UnaskedUnapplied
<1>2. CASE \A c \in Call : ~Ask(c)
  <2>1. conn'.who = conn.who /\ Requested(conn.who) /\ ~PluginStep
    BY <1>2, RequestedBefore
  <2>2. applied' = applied
    <3>1. ASSUME NEW c \in Call, EditTakesEffect(c) PROVE FALSE
      BY <2>1, <3>1, EffectFrame DEF Requested
    <3> QED  BY <2>1, <3>1, NextSteps, CallerFrame, OtherFrame, TickFrame
  <2> QED  BY <1>0, <2>1, <2>2 DEF RequestedUnapplied
<1> QED  BY <1>1, <1>2

LEMMA HopeStep ==
  ASSUME Inv, Next
  PROVE  ExecutingHasHope'
<1>0. ExecutingHasHope  BY DEF Inv, Honest
<1>1. ASSUME NEW c \in Call, CallerStep(c) PROVE ExecutingHasHope'
  <2>1. CASE Connect(c)  BY <2>1, ConnectStep DEF ExecutingHasHope
  <2>2. CASE ~Connect(c)
    <3>1. plugin' = plugin /\ conn'.who = conn.who  BY <1>1, <2>2, CallerFrame
    <3>2. conn.who \in Call => call'[conn.who].kind = call[conn.who].kind
      BY <1>1, CallerFrame
    <3> QED  BY <1>0, <3>1, <3>2 DEF ExecutingHasHope
  <2> QED  BY <2>1, <2>2
<1>2. ASSUME NEW c \in Call, EditTakesEffect(c) PROVE ExecutingHasHope'
  BY <1>0, <1>2, EffectFrame DEF ExecutingHasHope
<1>3. CASE PluginRequest
  <2>1. call' = call  BY <1>3 DEF PluginRequest
  <2> QED  BY <1>3, <2>1, RequestStep DEF ExecutingHasHope
<1>4. CASE PluginHello
  BY <1>4, HelloStep DEF ExecutingHasHope, Listening
<1>5. CASE PluginAuth  BY <1>5, AuthStep DEF ExecutingHasHope, Listening
<1>6. CASE PluginPing  BY <1>6, PingStep DEF ExecutingHasHope
<1>7. ASSUME NEW outcome \in {"done", "failed"}, Finish(outcome) PROVE ExecutingHasHope'
  BY <1>7, FinishStep DEF ExecutingHasHope
<1>8. CASE SendReply  BY <1>8, SendStep DEF ExecutingHasHope, Listening
<1>9. CASE PluginDrops
  BY <1>9, DropRecords DEF PluginDrops, ExecutingHasHope, Listening
<1>10. CASE OtherStep  BY <1>0, <1>10, OtherFrame DEF ExecutingHasHope
<1>11. CASE Tick  BY <1>0, <1>11, TickFrame DEF ExecutingHasHope
<1> QED
  BY <1>1, <1>2, <1>3, <1>4, <1>5, <1>6, <1>7, <1>8, <1>9, <1>10, <1>11, NextSteps
     DEF PluginStep

LEMMA SendingStep ==
  ASSUME Inv, Next, conn'.who \in Call, Sending(conn.who)'
  PROVE  Says(conn.who, plugin.reply)'
<1>0. /\ plugin'.at = "sending" /\ conn'.in = <<>> /\ conn'.out = <<>>
      /\ Asked(conn.who)' /\ plugin'.reply \in FromPlugin
      /\ SendingSays /\ RequestedUnapplied /\ ExecutingHasHope
  BY DEF Sending, Inv, Honest
<1>kept. ASSUME plugin.at = "sending", plugin'.reply = plugin.reply, conn'.who = conn.who,
                Asked(conn.who), applied' = applied,
                call'[conn.who].kind = call[conn.who].kind
         PROVE  Says(conn.who, plugin.reply)'
  <2>1. /\ conn.who \in Call /\ conn.in = <<>> /\ conn.out = <<>>
    BY <1>kept, SendingPlace
  <2>2. Sending(conn.who)  BY <1>0, <1>kept, <2>1 DEF Sending
  <2>3. Says(conn.who, plugin.reply)  BY <1>0, <2>1, <2>2 DEF SendingSays
  <2> QED  BY <1>kept, <2>3 DEF Says
<1>1. ASSUME NEW c \in Call, CallerStep(c) PROVE Says(conn.who, plugin.reply)'
  <2>1. CASE Connect(c)  BY <2>1, <1>0, ConnectStep
  <2>2. CASE Ask(c)
    <3>1. plugin' = plugin /\ plugin.at = "idle"
      <4>1. call[c].at = "pinging" /\ Arrived(c, "pong") /\ plugin' = plugin
        BY <2>2 DEF Ask
      <4> QED  BY <4>1, PongPlace
    <3> QED  BY <1>0, <3>1
  <2>3. CASE ~Connect(c) /\ ~Ask(c)
    <3>1. /\ plugin' = plugin /\ conn'.who = conn.who /\ applied' = applied
          /\ \A d \in Call : d # c => call'[d] = call[d]
          /\ conn.who = c => call'[c].kind = call[c].kind
      BY <1>1, <2>3, CallerFrame
    <3>2. Asked(c)' => Asked(c)  BY <1>1, <2>3, CallerMoves
    <3>3. Asked(conn.who)
      <4>1. CASE conn.who = c  BY <1>0, <3>1, <3>2, <4>1 DEF Asked
      <4>2. CASE conn.who # c  BY <1>0, <3>1, <4>2 DEF Asked
      <4> QED  BY <4>1, <4>2
    <3>4. call'[conn.who].kind = call[conn.who].kind
      BY <1>0, <3>1
    <3>5. plugin.at = "sending"  BY <1>0, <3>1
    <3> QED  BY <3>1, <3>3, <3>4, <3>5, <1>kept
  <2> QED  BY <2>1, <2>2, <2>3
<1>2. ASSUME NEW c \in Call, EditTakesEffect(c) PROVE Says(conn.who, plugin.reply)'
  BY <1>0, <1>2, EffectFrame
<1>3. CASE PluginHello  BY <1>3, <1>0, HelloStep DEF Listening
<1>4. CASE PluginAuth  BY <1>4, <1>0, AuthStep DEF Listening
<1>5. CASE PluginPing
  <2>1. /\ conn.who \in Call /\ Unasked(conn.who) /\ call' = call
        /\ conn'.who = conn.who
    BY <1>5, PingPlace, PingStep DEF PluginPing
  <2>2. ~Asked(conn.who)'  BY <2>1 DEF Asked, Unasked
  <2> QED  BY <1>0, <2>2
<1>6. CASE PluginRequest
  <2>1. /\ conn'.who = conn.who /\ call' = call /\ applied' = applied
        /\ plugin'.reply \in {"busy", "expired", "invalid", "unsupported"}
        /\ call[conn.who].kind \in Hopeless => plugin'.reply \in {"invalid", "unsupported"}
        /\ call[conn.who].kind = "edit" => plugin'.reply \in {"busy", "expired"}
    BY <1>6, <1>0, RequestStep DEF PluginRequest
  <2>2. conn.who \in Call /\ Requested(conn.who)  BY <1>6, RequestPlace DEF PluginRequest
  <2>3. conn.who \notin applied  BY <1>0, <2>2 DEF RequestedUnapplied
  <2> QED  BY <2>1, <2>3 DEF Says
<1>7. ASSUME NEW outcome \in {"done", "failed"}, Finish(outcome)
      PROVE  Says(conn.who, plugin.reply)'
  <2>1. /\ conn' = conn /\ call' = call /\ applied' = applied /\ conn.who \in Call
        /\ plugin'.reply \in {"done", "failed", "late"} /\ plugin.at = "executing"
        /\ call[conn.who].kind = "edit" =>
              plugin'.reply = IF conn.who \in applied THEN "done" ELSE "failed"
    BY <1>7, FinishStep DEF Finish
  <2>2. call[conn.who].kind \notin Hopeless  BY <1>0, <2>1 DEF ExecutingHasHope
  <2> QED  BY <2>1, <2>2 DEF Says
<1>8. CASE SendReply  BY <1>8, <1>0, SendStep DEF Listening
<1>9. CASE PluginDrops  BY <1>9, <1>0, DropRecords DEF PluginDrops, Listening
<1>10. CASE OtherStep
  <2>1. Asked(conn.who)  BY <1>0, <1>10, OtherFrame DEF Asked
  <2> QED  BY <1>0, <1>10, <2>1, <1>kept, OtherFrame
<1>11. CASE Tick
  <2>1. Asked(conn.who)  BY <1>0, <1>11, TickFrame
  <2> QED  BY <1>0, <1>11, <2>1, <1>kept, TickFrame
<1> QED
  BY <1>1, <1>2, <1>3, <1>4, <1>5, <1>6, <1>7, <1>8, <1>9, <1>10, <1>11, NextSteps
     DEF PluginStep

LEMMA SentStep ==
  ASSUME Inv, Next, conn'.who \in Call, Sent(conn.who)', NEW m \in FromPlugin,
         conn'.out = <<m>>
  PROVE  Says(conn.who, m)'
<1>0. /\ plugin'.at = "idle" /\ conn'.in = <<>> /\ Asked(conn.who)'
      /\ SendingSays /\ SentSays
  <2>1. conn'.out # <<>>  OBVIOUS
  <2> QED  BY <2>1 DEF Sent, Inv, Honest
<1>f. /\ <<>> # <<m>> /\ "server_auth" # m
  BY DEF FromPlugin
<1>kept. ASSUME plugin.at = "idle", conn' = conn, Asked(conn.who), applied' = applied,
                call'[conn.who].kind = call[conn.who].kind
         PROVE  Says(conn.who, m)'
  <2>1. Sent(conn.who)  BY <1>0, <1>kept DEF Sent
  <2>2. Says(conn.who, m)  BY <1>kept, <2>1, <1>0 DEF SentSays
  <2> QED  BY <1>kept, <2>2 DEF Says
<1>1. ASSUME NEW c \in Call, CallerStep(c) PROVE Says(conn.who, m)'
  <2>1. CASE Connect(c)  BY <2>1, <1>0, ConnectStep
  <2>2. CASE Ask(c)  BY <2>2, <1>f, AskStep
  <2>3. CASE Authenticate(c)  BY <2>3, <1>f, AuthenticateStep
  <2>4. CASE ~Connect(c) /\ ~Ask(c) /\ ~Authenticate(c)
    <3>1. /\ plugin' = plugin /\ conn'.who = conn.who /\ applied' = applied
          /\ \A d \in Call : d # c => call'[d] = call[d]
          /\ conn.who = c => call'[c].kind = call[c].kind
      BY <1>1, <2>4, CallerFrame
    <3>2. Asked(c)' => Asked(c)  BY <1>1, <2>4, CallerMoves
    <3>3. Asked(conn.who)
      <4>1. CASE conn.who = c  BY <1>0, <3>1, <3>2, <4>1 DEF Asked
      <4>2. CASE conn.who # c  BY <1>0, <3>1, <4>2 DEF Asked
      <4> QED  BY <4>1, <4>2
    <3>4. call'[conn.who].kind = call[conn.who].kind  BY <3>1
    <3>5. ASSUME NEW a \in Answers, Over(c, a) PROVE conn' = conn
      <4>1. conn'.out = <<>> \/ conn' = conn  BY <3>5, OverCall DEF Inv
      <4> QED  BY <4>1, <1>f
    <3>6. conn' = conn
      <4>1. CASE \E k \in Kinds : Begin(c, k)  BY <4>1 DEF Begin
      <4>2. CASE GiveUpConnecting(c) \/ PingFails(c)
        <5>1. Over(c, "unresolved") /\ "unresolved" \in Answers
          BY <4>2 DEF GiveUpConnecting, PingFails, Answers, FromServer
        <5> QED  BY <5>1, <3>5
      <4>3. ASSUME NEW n \in FromPlugin, TakeAnswer(c, n) PROVE conn' = conn
        <5>1. Over(c, n) /\ n \in Answers  BY <4>3 DEF TakeAnswer, Answers
        <5> QED  BY <5>1, <3>5
      <4>4. CASE NoAnswer(c)
        <5>1. Over(c, OwnReport(c))  BY <4>4 DEF NoAnswer
        <5> QED  BY <5>1, <3>5, OwnReportIsAnswer
      <4> QED  BY <1>1, <2>4, <4>1, <4>2, <4>3, <4>4 DEF CallerStep
    <3> QED  BY <1>0, <3>1, <3>3, <3>4, <3>6, <1>kept
  <2> QED  BY <2>1, <2>2, <2>3, <2>4
<1>2. ASSUME NEW c \in Call, EditTakesEffect(c) PROVE Says(conn.who, m)'
  BY <1>0, <1>2, EffectFrame
<1>l. plugin' # Listening  BY <1>0 DEF Listening
<1>3. CASE PluginHello  BY <1>3, <1>0, <1>l, HelloStep
<1>4. CASE PluginAuth  BY <1>4, <1>0, <1>f, <1>l, AuthStep
<1>5. CASE PluginPing  BY <1>5, <1>0, PingStep
<1>6. CASE PluginRequest  BY <1>6, <1>0, RequestStep
<1>7. ASSUME NEW outcome \in {"done", "failed"}, Finish(outcome) PROVE Says(conn.who, m)'
  BY <1>7, <1>0, FinishStep
<1>8. CASE SendReply
  <2>1. /\ call' = call /\ applied' = applied  BY <1>8 DEF SendReply
  <2>2. conn'.who = conn.who /\ conn'.out = <<plugin.reply>>  BY <1>8, <1>l, SendStep
  <2>3. m = plugin.reply  BY <2>2
  <2>4. Asked(conn.who)  BY <1>0, <2>1, <2>2 DEF Asked
  <2>5. ~Unasked(conn.who)  BY <2>4 DEF Asked, Unasked
  <2>6. conn.who \in Call /\ Sending(conn.who)  BY <1>8, <2>5, SendingPlace DEF SendReply
  <2>7. Says(conn.who, plugin.reply)  BY <1>0, <2>6 DEF SendingSays
  <2> QED  BY <2>1, <2>2, <2>3, <2>7 DEF Says
<1>9. CASE PluginDrops
  <2>1. Drop  BY <1>9 DEF PluginDrops
  <2> QED  BY <2>1, <1>l, DropRecords
<1>10. CASE OtherStep
  <2>1. Asked(conn.who)  BY <1>0, <1>10, OtherFrame DEF Asked
  <2> QED  BY <1>0, <1>10, <2>1, <1>kept, OtherFrame
<1>11. CASE Tick
  <2>1. Asked(conn.who)  BY <1>0, <1>11, TickFrame
  <2> QED  BY <1>0, <1>11, <2>1, <1>kept, TickFrame
<1> QED
  BY <1>1, <1>2, <1>3, <1>4, <1>5, <1>6, <1>7, <1>8, <1>9, <1>10, <1>11, NextSteps
     DEF PluginStep

LEMMA AnsweredStep ==
  ASSUME Inv, Next
  PROVE  AnsweredSays'
<1>0. AnsweredSays /\ SentSays  BY DEF Inv, Honest
<1>1. ASSUME NEW c \in Call, CallerStep(c) PROVE AnsweredSays'
  <2>1. /\ applied' = applied
        /\ \A d \in Call : d # c => call'[d] = call[d]
    BY <1>1, CallerFrame
  <2>2. ASSUME Answered(c)' PROVE Says(c, call[c].answer)'
    <3>1. PICK m \in FromPlugin : TakeAnswer(c, m) /\ call'[c].answer = m
      BY <1>1, <2>2, CallerMoves
    <3>2. call[c].at = "asking" /\ Arrived(c, m)  BY <3>1 DEF TakeAnswer
    <3>3. conn.who = c /\ conn.out = <<m>> /\ Sent(c)  BY <3>2, AnswerPlace
    <3>4. Says(c, m)  BY <1>0, <3>3 DEF SentSays
    <3>5. call'[c].kind = call[c].kind  BY <1>1, <3>2, CallerFrame
    <3> QED  BY <2>1, <3>1, <3>4, <3>5 DEF Says
  <2>3. ASSUME NEW d \in Call, d # c, Answered(d)' PROVE Says(d, call[d].answer)'
    <3>1. Answered(d) /\ call'[d] = call[d]  BY <2>1, <2>3 DEF Answered
    <3>2. Says(d, call[d].answer)  BY <1>0, <3>1 DEF AnsweredSays
    <3> QED  BY <2>1, <3>1, <3>2 DEF Says
  <2> QED  BY <2>2, <2>3 DEF AnsweredSays
<1>2. ASSUME NEW c \in Call, EditTakesEffect(c) PROVE AnsweredSays'
  <2>1. call' = call /\ applied' = applied \cup {c} /\ Asked(c)  BY <1>2, EffectFrame
  <2>2. ~Answered(c)
    BY <2>1 DEF Asked, Answered, FromPlugin
  <2>3. ASSUME NEW d \in Call, Answered(d)' PROVE Says(d, call[d].answer)'
    <3>1. Answered(d)  BY <2>1, <2>3 DEF Answered
    <3>2. d # c  BY <2>2, <3>1
    <3>3. Says(d, call[d].answer)  BY <1>0, <3>1 DEF AnsweredSays
    <3> QED  BY <2>1, <3>2, <3>3 DEF Says
  <2> QED  BY <2>3 DEF AnsweredSays
<1>3. CASE PluginStep \/ OtherStep
  <2>1. call' = call /\ applied' = applied  BY <1>3, PluginFrame, OtherFrame
  <2> QED  BY <1>0, <2>1 DEF AnsweredSays, Answered, Says
<1>4. CASE Tick
  BY <1>0, <1>4, TickFrame DEF AnsweredSays, Says
<1> QED  BY <1>1, <1>2, <1>3, <1>4, NextSteps

LEMMA HonestStep ==
  ASSUME Inv, Next
  PROVE  Honest'
<1>1. RequestedUnapplied'  BY RequestedStep DEF RequestedUnapplied
<1>2. SendingSays'  BY SendingStep DEF SendingSays
<1>3. SentSays'  BY SentStep DEF SentSays
<1> QED
  BY <1>1, <1>2, <1>3, RunningStep, NoAnswerStep, UnaskedStep, HopeStep, AnsweredStep DEF Honest

-----------------------------------------------------------------------------
(* Who is served, and how long the request may wait.                       *)

LEMMA SettledStep ==
  ASSUME Inv, Next
  PROVE  Settled'
<1>0. Settled /\ after \in [Call -> SUBSET Call]
  BY DEF Inv, Types, RestType
<1>1. ASSUME NEW e \in Call, NEW k \in Kinds, Begin(e, k) PROVE Settled'
  <2>1. /\ call[e].at = "new" /\ conn' = conn
        /\ after' = [after EXCEPT ![e] = {d \in Call : call[d].at = "over"}]
        /\ call' = [call EXCEPT ![e] = [at |-> "connecting", kind |-> k,
                                        left |-> ResolveBudget, answer |-> "none"]]
    BY <1>1 DEF Begin
  <2>2. /\ call'[e].at = "connecting"
        /\ \A d \in Call : d # e => call'[d] = call[d] /\ after'[d] = after[d]
        /\ \A c \in after'[e] : call[c].at = "over"
    BY <1>0, <2>1 DEF Inv, Types, CallType
  <2>3. ASSUME NEW c \in Call, NEW d \in Call, c \in after'[d]
        PROVE  /\ call'[c].at = "over"
               /\ \/ call'[d].at \in Waiting
                  \/ call'[d].at = "over" /\ call'[d].answer # "unresolved"
                  => conn'.who # c
    <3>1. CASE d = e
      BY <2>1, <2>2, <2>3, <3>1 DEF Waiting
    <3>2. CASE d # e
      BY <1>0, <2>1, <2>2, <2>3, <3>2 DEF Settled
    <3> QED  BY <3>1, <3>2
  <2> QED  BY <2>3 DEF Settled
<1>2. ASSUME NEW e \in Call, CallerStep(e), \A k \in Kinds : ~Begin(e, k) PROVE Settled'
  <2>1. after' = after
    BY <1>2 DEF CallerStep, Connect, GiveUpConnecting, Authenticate, Ask, PingFails,
       TakeAnswer, NoAnswer
  <2>2. /\ call[e].at # "over"
        /\ \A d \in Call : d # e => call'[d] = call[d]
    BY <1>2, CallerFrame, CallerMoves
  <2>3. ASSUME NEW c \in Call, NEW d \in Call, c \in after[d],
               \/ call'[d].at \in Waiting
               \/ call'[d].at = "over" /\ call'[d].answer # "unresolved"
        PROVE  conn'.who # c
    <3>1. call[c].at = "over" /\ c # e  BY <1>0, <2>2, <2>3 DEF Settled
    <3>2. CASE Connect(e)  BY <3>1, <3>2, ConnectStep
    <3>3. CASE ~Connect(e)
      <4>1. conn'.who = conn.who  BY <1>2, <3>3, CallerFrame
      <4>2. CASE d # e
        BY <1>0, <2>2, <2>3, <4>1, <4>2 DEF Settled
      <4>3. CASE d = e
        <5>1. CASE GiveUpConnecting(e)
          <6>1. Over(e, "unresolved") /\ "unresolved" \in Answers
            BY <5>1 DEF GiveUpConnecting, Answers, FromServer
          <6>2. call'[e].at = "over" /\ call'[e].answer = "unresolved"
            BY <6>1, OverCall DEF Inv
          <6> QED  BY <2>3, <4>3, <6>2 DEF Waiting
        <5>2. CASE ~GiveUpConnecting(e)
          <6>1. call[e].at \in Waiting
            BY <1>2, <3>3, <5>2
               DEF CallerStep, Authenticate, Ask, PingFails, TakeAnswer, NoAnswer, Waiting
          <6> QED  BY <1>0, <2>3, <4>1, <4>3, <6>1 DEF Settled
        <5> QED  BY <5>1, <5>2
      <4> QED  BY <4>2, <4>3
    <3> QED  BY <3>2, <3>3
  <2>4. ASSUME NEW c \in Call, NEW d \in Call, c \in after[d] PROVE call'[c].at = "over"
    <3>1. call[c].at = "over" /\ c # e  BY <1>0, <2>2, <2>4 DEF Settled
    <3> QED  BY <2>2, <3>1
  <2> QED  BY <2>1, <2>3, <2>4 DEF Settled
<1>3. CASE PluginStep
  <2>1. call' = call /\ after' = after
    BY <1>3 DEF PluginStep, PluginHello, PluginAuth, PluginPing, PluginRequest, Finish,
       SendReply, PluginDrops
  <2>2. conn'.who = conn.who \/ conn'.who = Nobody
    <3>1. NoConnection.who = Nobody  BY DEF NoConnection
    <3>2. CASE PluginHello  BY <3>1, <3>2, HelloStep
    <3>3. CASE PluginAuth  BY <3>1, <3>3, AuthStep
    <3>4. CASE PluginPing  BY <3>4, PingStep
    <3>5. CASE PluginRequest  BY <3>5, RequestStep
    <3>6. CASE \E outcome \in {"done", "failed"} : Finish(outcome)  BY <3>6 DEF Finish
    <3>7. CASE SendReply  BY <3>1, <3>7, SendStep
    <3>8. CASE PluginDrops  BY <3>1, <3>8, DropRecords DEF PluginDrops
    <3> QED  BY <1>3, <3>2, <3>3, <3>4, <3>5, <3>6, <3>7, <3>8 DEF PluginStep
  <2> QED  BY <1>0, <2>1, <2>2, CallAssumption DEF Settled
<1>4. ASSUME (\E c \in Call : EditTakesEffect(c)) \/ OtherStep PROVE Settled'
  <2>1. call' = call /\ after' = after /\ conn' = conn
    BY <1>4 DEF EditTakesEffect, OtherStep, LifecycleMoves, ClockJumps
  <2> QED  BY <1>0, <2>1 DEF Settled
<1>5. CASE Tick
  <2>1. after' = after  BY <1>5 DEF Tick
  <2> QED  BY <1>0, <1>5, <2>1, TickFrame DEF Settled
<1> QED  BY <1>1, <1>2, <1>3, <1>4, <1>5, NextSteps

LEMMA DeadlineStep ==
  ASSUME Inv, Next, mishaps' = 0, conn'.who \in Call, Requested(conn.who)'
  PROVE  carried' = IF call'[conn'.who].at = "asking" THEN call'[conn'.who].left ELSE 0
<1>0. SameDeadline /\ call \in [Call -> CallRecords] /\ carried \in Nat
  BY DEF Inv, Types, CallType, CallRecords, CallStates, Answers, RestType
<1>m. mishaps = 0
  <2>1. mishaps \in Nat  BY LimitAssumption DEF Inv, Types, RestType
  <2>2. mishaps' = mishaps \/ mishaps' = mishaps + 1
    BY DEF Next, Begin, Connect, GiveUpConnecting, Authenticate, Ask, PingFails,
       TakeAnswer, NoAnswer, EditTakesEffect, PluginHello, PluginAuth, PluginPing, PluginRequest,
       Finish, SendReply, PluginDrops, LifecycleMoves, ClockJumps, Tick
  <2> QED  BY <2>1, <2>2
<1>1. ASSUME NEW c \in Call, Ask(c)
      PROVE  carried' = IF call'[conn'.who].at = "asking" THEN call'[conn'.who].left ELSE 0
  <2>1. conn'.who = c /\ carried' = IpcBudget(call[c].kind)  BY <1>1, AskStep
  <2>2. call' = [call EXCEPT ![c].at = "asking", ![c].left = IpcBudget(call[c].kind)]
    BY <1>1 DEF Ask
  <2>3. call'[c].at = "asking" /\ call'[c].left = IpcBudget(call[c].kind)
    BY <1>0, <2>2 DEF CallRecords
  <2> QED  BY <2>1, <2>3
<1>2. CASE \A c \in Call : ~Ask(c)
  <2>1. /\ conn'.who = conn.who /\ Requested(conn.who) /\ ~PluginStep
        /\ conn.who \in Call
    BY <1>2, RequestedBefore
  <2>2. carried = IF call[conn.who].at = "asking" THEN call[conn.who].left ELSE 0
    BY <1>0, <1>m, <2>1 DEF SameDeadline
  <2>3. ASSUME NEW c \in Call, CallerStep(c), c # conn.who, carried' = carried
        PROVE  carried' = IF call'[conn'.who].at = "asking" THEN call'[conn'.who].left ELSE 0
    <3>1. call'[conn.who] = call[conn.who]  BY <2>1, <2>3, CallerFrame
    <3> QED  BY <2>1, <2>2, <2>3, <3>1
  <2>4. ASSUME NEW c \in Call, CallerStep(c), c # conn.who
        PROVE  carried' = carried
    <3>1. ~Authenticate(c)  BY <2>4, AuthenticatePlace
    <3> QED
      BY <1>2, <2>4, <3>1 DEF CallerStep, Begin, Connect, GiveUpConnecting, PingFails,
         TakeAnswer, NoAnswer
  <2>5. ASSUME NEW c \in Call, CallerStep(c), c = conn.who
        PROVE  carried' = IF call'[conn'.who].at = "asking" THEN call'[conn'.who].left ELSE 0
    <3>1. conn.in = <<"request">> /\ conn.out = <<>> /\ plugin.at = "idle" /\ Asked(c)
      BY <2>1, <2>5 DEF Requested
    <3>2. NoAnswer(c)
      <4>1. call[c].at \in {"asking", "over"}  BY <3>1 DEF Asked
      <4>2. \A m : ~Arrived(c, m)  BY <3>1 DEF Arrived
      <4> QED
        BY <2>5, <4>1, <4>2 DEF CallerStep, Begin, Connect, GiveUpConnecting, Authenticate,
           Ask, PingFails, TakeAnswer
    <3>3. call[c].at = "asking" /\ call[c].left = 0
      <4>1. call[c].at = "asking"  BY <3>1, <3>2 DEF Asked, NoAnswer, Waiting
      <4>2. mishaps' # mishaps + 1  BY <1>m
      <4> QED  BY <2>5, <3>2, <4>1, <4>2 DEF NoAnswer
    <3>4. carried' = carried /\ Over(c, OwnReport(c))  BY <3>2 DEF NoAnswer
    <3>5. call'[c].at = "over"  BY <3>4, OwnReportIsAnswer, OverCall DEF Inv
    <3> QED  BY <2>1, <2>2, <2>5, <3>3, <3>4, <3>5
  <2>6. ASSUME NEW c \in Call, EditTakesEffect(c) PROVE FALSE
    BY <2>1, <2>6, EffectFrame DEF Requested
  <2>7. ASSUME OtherStep
        PROVE  carried' = IF call'[conn'.who].at = "asking" THEN call'[conn'.who].left ELSE 0
    <3>1. ~ClockJumps  BY <1>m DEF ClockJumps
    <3>2. carried' = carried /\ call' = call  BY <2>7, <3>1 DEF OtherStep, LifecycleMoves
    <3> QED  BY <2>1, <2>2, <3>2
  <2>8. ASSUME Tick
        PROVE  carried' = IF call'[conn'.who].at = "asking" THEN call'[conn'.who].left ELSE 0
    <3>1. carried' = Less(carried)  BY <2>8 DEF Tick
    <3>2. /\ call'[conn.who].at = call[conn.who].at
          /\ call'[conn.who].left = Less(call[conn.who].left)
      BY <2>1, <2>8, TickRecords
    <3>3. Less(0) = 0  BY DEF Less
    <3> QED  BY <2>1, <2>2, <3>1, <3>2, <3>3
  <2> QED  BY <2>1, <2>3, <2>4, <2>5, <2>6, <2>7, <2>8, NextSteps
<1> QED  BY <1>1, <1>2

-----------------------------------------------------------------------------

LEMMA InvInit ==
  ASSUME Init
  PROVE  Inv
<1>1. /\ call = [c \in Call |-> NewCall] /\ conn = NoConnection /\ plugin = Listening
      /\ carried = 0 /\ lifecycle \in {"starting", "ready"}
      /\ running = {} /\ applied = {} /\ after = [c \in Call |-> {}]
      /\ spent = NothingSpent /\ mishaps = 0
  BY DEF Init
<1>2. \A c \in Call : call[c].at = "new" /\ call[c].answer = "none"
  BY <1>1 DEF NewCall
<1>3. CallType  BY <1>1 DEF CallType, NewCall
<1>4. ConnType /\ conn.who = Nobody
  BY <1>1 DEF ConnType, NoConnection, InFrames, OutFrames
<1>5. PluginType /\ plugin.at = "listening"  BY <1>1 DEF PluginType, Listening
<1>6. RestType
  BY <1>1, LimitAssumption DEF RestType, NothingSpent
<1>7. KindKnown  BY <1>2 DEF KindKnown
<1>8. Situation  BY <1>1, <1>4 DEF Situation
<1>9. Honest
  BY <1>1, <1>2, <1>4, <1>5, CallAssumption
     DEF Honest, OnlyTheServedRuns, NoAnswerYet, UnaskedUnapplied, RequestedUnapplied,
         ExecutingHasHope, SendingSays, SentSays, AnsweredSays, Answered
<1>10. Settled /\ SameDeadline
  BY <1>1, <1>4, CallAssumption DEF Settled, SameDeadline
<1> QED  BY <1>3, <1>4, <1>5, <1>6, <1>7, <1>8, <1>9, <1>10 DEF Inv, Types

LEMMA InvNext ==
  ASSUME Inv, [Next]_vars
  PROVE  Inv'
<1>1. CASE Next
  <2>1. SameDeadline'  BY <1>1, DeadlineStep DEF SameDeadline
  <2> QED
    BY <1>1, <2>1, TypesStep, SituationStep, HonestStep, SettledStep DEF Inv
<1>2. CASE UNCHANGED vars
  <2>1. /\ Types' <=> Types
        /\ Situation' <=> Situation
        /\ Settled' <=> Settled
        /\ SameDeadline' <=> SameDeadline
    BY <1>2 DEF vars, Types, CallType, ConnType, PluginType, RestType, KindKnown, Situation,
       Greeting, Pinging, Requested, Executing, Sending, Sent, Unasked, Asked, Answered,
       Settled, SameDeadline
  <2>2. Honest' <=> Honest
    BY <1>2 DEF vars, Honest, OnlyTheServedRuns, NoAnswerYet, UnaskedUnapplied,
       RequestedUnapplied, ExecutingHasHope, SendingSays, SentSays, AnsweredSays, Says,
       Requested, Sending, Sent, Unasked, Asked, Answered
  <2> QED  BY <2>1, <2>2 DEF Inv
<1> QED  BY <1>1, <1>2

LEMMA Invariance == Spec => []Inv
<1>1. Init => Inv  BY InvInit
<1>2. Inv /\ [Next]_vars => Inv'  BY InvNext
<1> QED  BY <1>1, <1>2, PTL DEF Spec

\* Every variable keeps its type: no remaining time goes below zero, and every
\* answer and frame is one of the protocol's.
THEOREM SessionTypes == Spec => []TypeOK
<1>1. Inv => TypeOK  BY TypesGiveTypeOK DEF Inv
<1> QED  BY <1>1, Invariance, PTL

LEMMA AnswersFromInv ==
  ASSUME Inv
  PROVE  AnswersAreTrue
<1>0. /\ OnlyTheServedRuns /\ NoAnswerYet /\ UnaskedUnapplied /\ AnsweredSays
      /\ call \in [Call -> CallRecords]
  BY DEF Inv, Honest, Types, CallType, CallRecords, CallStates, Answers
<1>1. ASSUME NEW c \in Call, call[c].answer \in FromPlugin PROVE Answered(c) /\ c \notin running
  <2>1. Answered(c)  BY <1>0, <1>1 DEF NoAnswerYet, Answered, FromPlugin
  <2>2. ~Asked(c)  BY <2>1 DEF Answered, Asked, FromPlugin
  <2>3. c \notin running  BY <1>0, <2>2, ExecutingPlace DEF OnlyTheServedRuns
  <2> QED  BY <2>1, <2>3
<1>2. ASSUME NEW c \in Call, call[c].answer = "unresolved"
      PROVE  c \notin applied /\ c \notin running
  <2>1. Unasked(c)  BY <1>0, <1>2 DEF NoAnswerYet, Unasked
  <2>2. ~Asked(c)  BY <2>1 DEF Unasked, Asked
  <2>3. c \notin running  BY <1>0, <2>2, ExecutingPlace DEF OnlyTheServedRuns
  <2> QED  BY <1>0, <2>1, <2>3 DEF UnaskedUnapplied
<1>3. ASSUME NEW c \in Call, call[c].kind = "edit", call[c].answer \in FromPlugin
      PROVE  /\ call[c].answer = "done" => c \in applied
             /\ call[c].answer \in {"busy", "expired", "failed"} => c \notin applied \cup running
  <2>1. Answered(c) /\ c \notin running  BY <1>1, <1>3
  <2>2. Says(c, call[c].answer)  BY <1>0, <2>1 DEF AnsweredSays
  <2> QED  BY <1>3, <2>1, <2>2 DEF Says
<1>4. {"done", "busy", "expired", "failed"} \subseteq FromPlugin  BY DEF FromPlugin
<1> QED  BY <1>2, <1>3, <1>4 DEF AnswersAreTrue

\* What an edit's answer says of the project is so, now and later, whatever is
\* lost, late, interrupted or shut down on the way.
THEOREM SessionAnswers == Spec => []AnswersAreTrue
<1>1. Inv => AnswersAreTrue  BY AnswersFromInv
<1> QED  BY <1>1, Invariance, PTL

\* A request that can never succeed is not answered with an invitation to retry.
THEOREM SessionHopeless == Spec => []HopelessIsSaidSo
<1>1. ASSUME Inv PROVE HopelessIsSaidSo
  <2>0. NoAnswerYet /\ AnsweredSays  BY <1>1 DEF Inv, Honest
  <2>1. ASSUME NEW c \in Call, call[c].kind \in Hopeless,
               call[c].answer \in {"busy", "expired", "late", "failed", "done"}
        PROVE  FALSE
    <3>1. Answered(c)  BY <2>0, <2>1 DEF NoAnswerYet, Answered, FromPlugin
    <3> QED  BY <2>0, <2>1, <3>1 DEF AnsweredSays, Says
  <2> QED  BY <2>1 DEF HopelessIsSaidSo
<1> QED  BY <1>1, Invariance, PTL

\* After an answered read that began when the call was over, the edit of that
\* call can change nothing any more.
THEOREM SessionRefetch == Spec => RefetchIsConclusive
<1> DEFINE Conclusive ==
      \A c, d \in Call :
        c \in after[d] /\ call[d].kind = "read" /\ call[d].answer = "done" =>
          (c \in applied' => c \in applied)
<1>1. ASSUME Inv, Next PROVE Conclusive
  <2>1. ASSUME NEW c \in Call, NEW d \in Call, c \in after[d], call[d].answer = "done",
               c \in applied', c \notin applied
        PROVE  FALSE
    <3>1. EditTakesEffect(c)
      BY <1>1, <2>1, NextSteps, CallerFrame, PluginFrame, OtherFrame, TickFrame
         DEF EditTakesEffect
    <3>2. conn.who = c  BY <1>1, <3>1, EffectFrame
    <3>3. call[d].at = "over" /\ "done" # "unresolved"
      BY <1>1, <2>1 DEF Inv, Honest, NoAnswerYet
    <3> QED  BY <1>1, <2>1, <3>2, <3>3 DEF Inv, Settled
  <2> QED  BY <2>1
<1>2. ASSUME UNCHANGED vars PROVE Conclusive  BY <1>2 DEF vars
<1>3. Inv /\ [Next]_vars => [Conclusive]_vars  BY <1>1, <1>2
<1> QED  BY <1>3, Invariance, PTL DEF Spec, RefetchIsConclusive

\* Undisturbed, an edit starts only while somebody waits for its answer.
THEOREM SessionAwaited == Spec => EditStartsWhileAwaited
<1> DEFINE Awaited ==
      \A c \in Call : c \in running' \ running /\ mishaps = 0 => call[c].at = "asking"
<1>1. ASSUME Inv, Next PROVE Awaited
  <2>1. ASSUME NEW c \in Call, c \in running', c \notin running, mishaps = 0
        PROVE  call[c].at = "asking"
    <3>1. PluginRequest
      <4>1. CASE PluginStep
        BY <2>1, <4>1 DEF PluginStep, PluginHello, PluginAuth, PluginPing, Finish, SendReply,
           PluginDrops
      <4>2. CASE ~PluginStep
        <5>1. ASSUME NEW e \in Call, EditTakesEffect(e) PROVE running' = running
          BY <5>1 DEF EditTakesEffect
        <5> QED
          BY <1>1, <2>1, <4>2, <5>1, NextSteps, CallerFrame, OtherFrame, TickFrame
      <4> QED  BY <4>1, <4>2
    <3>2. conn.who \in Call /\ Requested(conn.who)
      BY <1>1, <3>1, RequestPlace DEF PluginRequest
    <3>3. c = conn.who /\ carried > 0
      BY <1>1, <2>1, <3>1, RequestStep
    <3>4. carried = IF call[conn.who].at = "asking" THEN call[conn.who].left ELSE 0
      BY <1>1, <2>1, <3>2 DEF Inv, SameDeadline
    <3> QED  BY <3>3, <3>4
  <2> QED  BY <2>1
<1>2. ASSUME UNCHANGED vars PROVE Awaited  BY <1>2 DEF vars
<1>3. Inv /\ [Next]_vars => [Awaited]_vars  BY <1>1, <1>2
<1> QED  BY <1>3, Invariance, PTL DEF Spec, EditStartsWhileAwaited

-----------------------------------------------------------------------------
(* Answers in time.                                                        *)

\* What a prompt exchange is never given.
Belated == {"late", "expired", "pong_draining"}

\* Whoever has the pipe open waits for something.
OpenWaits == \A c \in Call : conn.open /\ conn.who = c => call[c].at \in Waiting

WorkShare(c) == IF call[c].at = "asking" THEN ExecLimit[call[c].kind] ELSE HandshakeLimit
\* Every remaining time and what was charged to its stage make up its limit;
\* where the caller's own deadline may be the shorter one, it is not undercut.
CallerHasTime(c) ==
  call[c].left + spent.work + spent.write + spent.wait >= WorkShare(c) + WriteLimit + Headroom
HandshakeHasTime ==
  plugin.at \in {"hello", "auth"} => plugin.left + spent.work >= HandshakeLimit
IdleHasTime(c) ==
  plugin.at = "idle" =>
    plugin.left + spent.wait + (IF call[c].at = "asking" THEN Headroom ELSE 0) >= IdleLimit
ReplyHasTime(c) ==
  plugin.at = "sending" =>
    plugin.left + spent.write >= WriteLimit \/ plugin.left >= call[c].left
RunHasTime(c) ==
  plugin.at = "executing" =>
    /\ plugin.run + spent.work >= WorkShare(c) \/ plugin.run >= call[c].left
    /\ call[c].kind = "read" => carried >= call[c].left
FrameHasTime(c) ==
  conn.in \in {<<"client_auth", "ping">>, <<"ping">>, <<"request">>} =>
    carried >= call[c].left
NothingBelated ==
  /\ plugin.at = "sending" => plugin.reply \notin Belated
  /\ \A m \in Belated : conn.out # <<m>>
Prompt(c) ==
  /\ WithinShares(spent, c)
  /\ CallerHasTime(c)
  /\ HandshakeHasTime
  /\ IdleHasTime(c)
  /\ ReplyHasTime(c)
  /\ RunHasTime(c)
  /\ FrameHasTime(c)
  /\ NothingBelated
Undisturbed == mishaps = 0 /\ lifecycle # "draining" /\ spent # Overrun
InTime == \A c \in Call : conn.open /\ conn.who = c /\ Undisturbed => Prompt(c)
PromptInv == Inv /\ OpenWaits /\ InTime

LEMMA LimitsArePositive ==
  /\ HandshakeLimit \in Nat /\ HandshakeLimit > 0 /\ WriteLimit \in Nat /\ WriteLimit > 0
  /\ IdleLimit \in Nat /\ Headroom \in Nat /\ 2 * Headroom < IdleLimit
  /\ \A k \in Kinds : ExecLimit[k] \in Nat /\ ExecLimit[k] > 0
<1>1. HandshakeLimit # 0 /\ WriteLimit # 0 /\ \A k \in Kinds : ExecLimit[k] # 0
  BY PositiveAssumption
<1> QED  BY <1>1, BudgetsAreNat, BudgetAssumption

\* The types of everything the clock moves.
Clocks(c) ==
  /\ call[c].left \in Nat /\ plugin.left \in Nat /\ plugin.run \in Nat /\ carried \in Nat
  /\ spent.work \in Nat /\ spent.write \in Nat /\ spent.wait \in Nat
  /\ WorkShare(c) \in Nat /\ WorkShare(c) > 0

LEMMA ClocksRun ==
  ASSUME Inv, NEW c \in Call, call[c].at # "new"
  PROVE  Clocks(c)
<1>1. call[c] \in CallRecords /\ call[c].kind \in Kinds
  BY DEF Inv, Types, CallType, KindKnown, CallRecords, CallStates, Answers
<1>2. plugin \in PluginRecords /\ carried \in Nat /\ spent \in [work : Nat, write : Nat, wait : Nat]
  BY DEF Inv, Types, PluginType, RestType, PluginRecords, PluginPlaces
<1>3. WorkShare(c) \in Nat /\ WorkShare(c) > 0  BY <1>1, LimitsArePositive DEF WorkShare
<1> QED  BY <1>1, <1>2, <1>3 DEF Clocks, CallRecords, PluginRecords

LEMMA OpenCaller ==
  ASSUME Inv, OpenWaits, NEW c \in Call, conn.open, conn.who = c
  PROVE  /\ c # Nobody /\ call[c].at \in Waiting /\ Clocks(c)
         /\ plugin.at \in {"hello", "auth"} => call[c].at # "asking"
         /\ plugin.at = "executing" => call[c].at = "asking"
         /\ plugin.at # "listening"
<1>1. call[c].at \in Waiting /\ c # Nobody  BY CallAssumption DEF OpenWaits
<1>2. Clocks(c)  BY <1>1, ClocksRun DEF Waiting
<1>3. plugin.at \in {"hello", "auth"} => Unasked(c)
  BY <1>1 DEF Inv, Situation, Greeting, Pinging, Requested, Executing, Sending, Sent
<1>4. plugin.at = "executing" => Asked(c)  BY ExecutingPlace
<1>5. plugin.at # "listening"  BY <1>1, ListeningPlace
<1> QED  BY <1>1, <1>2, <1>3, <1>4, <1>5 DEF Unasked, Asked, Waiting

\* While no share is used up, no deadline has come.
LEMMA TimeIsLeft ==
  ASSUME Inv, OpenWaits, NEW c \in Call, conn.open, conn.who = c, Prompt(c)
  PROVE  /\ call[c].left > 0
         /\ plugin.at \in {"hello", "auth", "idle", "sending"} => plugin.left > 0
         /\ plugin.at = "executing" => plugin.run > 0
<1>0. /\ Clocks(c)
      /\ plugin.at \in {"hello", "auth"} => call[c].at # "asking"
      /\ plugin.at = "executing" => call[c].at = "asking"
  BY OpenCaller
<1>1. /\ spent.work < WorkShare(c) /\ spent.write < WriteLimit /\ spent.wait <= Headroom
  BY DEF Prompt, WithinShares, WorkShare
<1>2. /\ CallerHasTime(c) /\ HandshakeHasTime /\ IdleHasTime(c) /\ ReplyHasTime(c)
      /\ RunHasTime(c)
  BY DEF Prompt
<1>3. call[c].left > 0
  BY <1>0, <1>1, <1>2, LimitsArePositive DEF Clocks, CallerHasTime
<1>4. ASSUME plugin.at \in {"hello", "auth"} PROVE plugin.left > 0
  <2>1. WorkShare(c) = HandshakeLimit  BY <1>0, <1>4 DEF WorkShare
  <2> QED  BY <1>0, <1>1, <1>2, <1>4, <2>1, LimitsArePositive DEF Clocks, HandshakeHasTime
<1>5. ASSUME plugin.at = "idle" PROVE plugin.left > 0
  BY <1>0, <1>1, <1>2, <1>5, LimitsArePositive DEF Clocks, IdleHasTime
<1>6. ASSUME plugin.at = "sending" PROVE plugin.left > 0
  BY <1>0, <1>1, <1>2, <1>3, <1>6, LimitsArePositive DEF Clocks, ReplyHasTime
<1>7. ASSUME plugin.at = "executing" PROVE plugin.run > 0
  BY <1>0, <1>1, <1>2, <1>3, <1>7 DEF Clocks, RunHasTime
<1> QED  BY <1>3, <1>4, <1>5, <1>6, <1>7

\* So the plugin does not hang up.
LEMMA StaysConnected ==
  ASSUME Inv, OpenWaits, NEW c \in Call, conn.open, conn.who = c, Prompt(c)
  PROVE  ~PluginDrops
BY TimeIsLeft DEF PluginDrops

\* What a step that concerns neither the exchange nor its clocks keeps.
LEMMA PromptKept ==
  ASSUME NEW c \in Call, Prompt(c), call'[c] = call[c], conn' = conn, plugin' = plugin,
         carried' = carried, spent' = spent
  PROVE  Prompt(c)'
BY DEF Prompt, WithinShares, CallerHasTime, HandshakeHasTime, IdleHasTime, ReplyHasTime,
   RunHasTime, FrameHasTime, NothingBelated, WorkShare

\* The caller connects: both limits start, and the connecting has left enough.
LEMMA ConnectInTime ==
  ASSUME Inv, NEW c \in Call, Connect(c), spent' # Overrun
  PROVE  Prompt(c)'
<1>1. /\ call' = [call EXCEPT ![c].at = "authenticating"] /\ call[c].at = "connecting"
      /\ plugin' = [Listening EXCEPT !.at = "hello", !.left = HandshakeLimit]
      /\ conn' = [who |-> c, open |-> TRUE, in |-> <<"hello">>, out |-> <<>>]
      /\ spent' = NothingSpent /\ ResolveBudget - call[c].left <= ConnectCap
  BY DEF Connect
<1>2. call[c] \in CallRecords /\ call \in [Call -> CallRecords]
  BY DEF Inv, Types, CallType, CallRecords, CallStates, Answers
<1>3. call'[c].at = "authenticating" /\ call'[c].left = call[c].left
  BY <1>1, <1>2 DEF CallRecords
<1>4. call[c].left \in Nat  BY <1>2 DEF CallRecords
<1>5. plugin'.at = "hello" /\ plugin'.left = HandshakeLimit  BY <1>1 DEF Listening
<1>6. spent'.work = 0 /\ spent'.write = 0 /\ spent'.wait = 0  BY <1>1 DEF NothingSpent
<1>7. WorkShare(c)' = HandshakeLimit  BY <1>3 DEF WorkShare
<1>8. WithinShares(spent, c)'
  BY <1>3, <1>6, LimitsArePositive DEF WithinShares
<1>9. CallerHasTime(c)'
  <2>1. /\ ConnectCap \in Nat /\ ResolveBudget \in Nat
        /\ ConnectCap + HandshakeLimit + WriteLimit + Headroom <= ResolveBudget
    BY LimitAssumption, BudgetAssumption
  <2>2. call[c].left >= HandshakeLimit + WriteLimit + Headroom
    BY <1>1, <1>4, <2>1, LimitsArePositive
  <2> QED  BY <1>3, <1>4, <1>6, <1>7, <2>2, LimitsArePositive DEF CallerHasTime
<1>10. HandshakeHasTime'  BY <1>5, <1>6, LimitsArePositive DEF HandshakeHasTime
<1>11. IdleHasTime(c)' /\ ReplyHasTime(c)' /\ RunHasTime(c)'
  BY <1>5 DEF IdleHasTime, ReplyHasTime, RunHasTime
<1>12. FrameHasTime(c)' /\ NothingBelated'
  BY <1>1, <1>5 DEF FrameHasTime, NothingBelated
<1> QED  BY <1>8, <1>9, <1>10, <1>11, <1>12 DEF Prompt

\* The ping carries the caller's own deadline.
LEMMA AuthenticateInTime ==
  ASSUME Inv, NEW c \in Call, Authenticate(c), Prompt(c)
  PROVE  Prompt(c)'
<1>1. /\ call' = [call EXCEPT ![c].at = "pinging"] /\ call[c].at = "authenticating"
      /\ plugin' = plugin /\ spent' = spent /\ carried' = call[c].left
  BY DEF Authenticate
<1>2. call[c] \in CallRecords /\ call \in [Call -> CallRecords]
  BY DEF Inv, Types, CallType, CallRecords, CallStates, Answers
<1>3. call'[c].at = "pinging" /\ call'[c].left = call[c].left /\ call[c].left \in Nat
  BY <1>1, <1>2 DEF CallRecords
<1>4. plugin.at = "auth" /\ conn'.out = <<>>  BY AuthenticatePlace, AuthenticateStep
<1>5. WithinShares(spent, c)' /\ CallerHasTime(c)'
  BY <1>1, <1>3 DEF Prompt, WithinShares, CallerHasTime, WorkShare
<1>6. HandshakeHasTime' /\ IdleHasTime(c)' /\ ReplyHasTime(c)' /\ RunHasTime(c)'
  BY <1>1, <1>4 DEF Prompt, HandshakeHasTime, IdleHasTime, ReplyHasTime, RunHasTime
<1>7. FrameHasTime(c)' /\ NothingBelated'
  BY <1>1, <1>3, <1>4 DEF FrameHasTime, NothingBelated
<1> QED  BY <1>5, <1>6, <1>7 DEF Prompt

\* The request has a budget of its own, and the wait for the ping is not counted
\* against it.
LEMMA AskInTime ==
  ASSUME Inv, OpenWaits, NEW c \in Call, conn.open, Ask(c), Prompt(c), spent # Overrun
  PROVE  Prompt(c)'
<1>1. /\ call' = [call EXCEPT ![c].at = "asking", ![c].left = IpcBudget(call[c].kind)]
      /\ call[c].at = "pinging" /\ Arrived(c, "pong")
      /\ plugin' = plugin /\ spent' = NothingSpent /\ carried' = IpcBudget(call[c].kind)
  BY DEF Ask
<1>2. call[c] \in CallRecords /\ call \in [Call -> CallRecords] /\ call[c].kind \in Kinds
  BY <1>1 DEF Inv, Types, CallType, CallRecords, CallStates, Answers, KindKnown
<1>3. /\ call'[c].at = "asking" /\ call'[c].left = IpcBudget(call[c].kind)
      /\ call'[c].kind = call[c].kind
  BY <1>1, <1>2 DEF CallRecords
<1>4. plugin.at = "idle" /\ conn.who = c /\ conn'.out = <<>>  BY <1>1, PongPlace, AskStep
<1>5. spent'.work = 0 /\ spent'.write = 0 /\ spent'.wait = 0  BY <1>1 DEF NothingSpent
<1>6. /\ IpcBudget(call[c].kind) \in Nat
      /\ IpcBudget(call[c].kind) >= ExecLimit[call[c].kind] + WriteLimit + Headroom
  <2> DEFINE k == call[c].kind
  <2>1. ExecLimit[k] + WriteLimit + Reserve(k) + Headroom <= PhaseBudget[k]
    BY <1>2, BudgetAssumption
  <2>2. PhaseBudget[k] \in Nat /\ Reserve(k) \in Nat /\ ExecLimit[k] \in Nat
    BY <1>2, LimitAssumption DEF Reserve
  <2> HIDE DEF k
  <2>3. IpcBudget(k) >= ExecLimit[k] + WriteLimit + Headroom /\ IpcBudget(k) \in Nat
    BY <2>1, <2>2, LimitsArePositive DEF IpcBudget
  <2> QED  BY <2>3 DEF k
<1>7. WithinShares(spent, c)'
  BY <1>2, <1>3, <1>5, LimitsArePositive DEF WithinShares
<1>8. CallerHasTime(c)'
  BY <1>2, <1>3, <1>5, <1>6, LimitsArePositive DEF CallerHasTime, WorkShare
<1>9. IdleHasTime(c)'
  <2>1. Clocks(c)  BY <1>4, OpenCaller
  <2>2. plugin.left + spent.wait >= IdleLimit /\ spent.wait <= Headroom
    BY <1>1, <1>4, <2>1, LimitsArePositive DEF Prompt, IdleHasTime, WithinShares, Clocks
  <2> QED  BY <1>1, <1>3, <1>5, <2>1, <2>2, LimitsArePositive DEF IdleHasTime, Clocks
<1>10. HandshakeHasTime' /\ ReplyHasTime(c)' /\ RunHasTime(c)' /\ NothingBelated'
  BY <1>1, <1>4 DEF HandshakeHasTime, ReplyHasTime, RunHasTime, NothingBelated
<1>11. FrameHasTime(c)'  BY <1>1, <1>3, <1>6 DEF FrameHasTime
<1> QED  BY <1>7, <1>8, <1>9, <1>10, <1>11 DEF Prompt

-----------------------------------------------------------------------------
(* The plugin's steps in time.                                             *)

\* The caller's side stays what it is while the plugin moves.
SameCall(c) == call' = call /\ spent' = spent
LEMMA CallerKeepsTime ==
  ASSUME NEW c \in Call, Prompt(c), SameCall(c)
  PROVE  /\ WithinShares(spent, c)' /\ CallerHasTime(c)'
         /\ WorkShare(c)' = WorkShare(c)
BY DEF Prompt, WithinShares, CallerHasTime, WorkShare, SameCall

\* Back at the top of the loop the wait starts anew.
LEMMA LoopInTime ==
  ASSUME Inv, OpenWaits, NEW c \in Call, conn.open, conn.who = c, Prompt(c), SameCall(c),
         NEW pipe \in ConnRecords, Loop(pipe), lifecycle # "draining",
         pipe.in \in {<<>>, <<"ping">>}, pipe.in # <<>> => carried >= call[c].left,
         \A m \in Belated : pipe.out # <<m>>
  PROVE  Prompt(c)' /\ conn' = pipe
<1>1. /\ conn' = pipe /\ carried' = carried
      /\ plugin' = [Listening EXCEPT !.at = "idle", !.left = IdleLimit]
  BY DEF Loop
<1>2. plugin'.at = "idle" /\ plugin'.left = IdleLimit  BY <1>1 DEF Listening
<1>3. Clocks(c)  BY OpenCaller
<1>4. IdleHasTime(c)'
  BY <1>2, <1>3, LimitsArePositive DEF IdleHasTime, SameCall, Clocks
<1>5. HandshakeHasTime' /\ ReplyHasTime(c)' /\ RunHasTime(c)' /\ NothingBelated'
  BY <1>1, <1>2 DEF HandshakeHasTime, ReplyHasTime, RunHasTime, NothingBelated
<1>6. FrameHasTime(c)'  BY <1>1 DEF FrameHasTime, SameCall
<1> QED  BY <1>1, <1>4, <1>5, <1>6, CallerKeepsTime DEF Prompt

\* A reply gets its limit, or what is left of the request's deadline.
LEMMA ReplyInTime ==
  ASSUME Inv, OpenWaits, NEW c \in Call, conn.open, conn.who = c, Prompt(c), SameCall(c),
         NEW m \in ToCaller \ Belated, NEW time \in Nat, plugin' = Reply(m, time),
         time >= WriteLimit \/ time >= call[c].left,
         conn'.in = <<>>, conn'.out = <<>>
  PROVE  Prompt(c)'
<1>1. plugin'.at = "sending" /\ plugin'.reply = m /\ plugin'.left = time
  BY DEF Reply, Listening
<1>2. Clocks(c)  BY OpenCaller
<1>3. ReplyHasTime(c)'
  BY <1>1, <1>2, LimitsArePositive DEF ReplyHasTime, SameCall, Clocks
<1>4. HandshakeHasTime' /\ IdleHasTime(c)' /\ RunHasTime(c)' /\ NothingBelated'
  BY <1>1 DEF HandshakeHasTime, IdleHasTime, RunHasTime, NothingBelated
<1>5. FrameHasTime(c)'  BY DEF FrameHasTime
<1> QED  BY <1>3, <1>4, <1>5, CallerKeepsTime DEF Prompt

\* The plugin answers the hello of an open connection.
LEMMA HelloInTime ==
  ASSUME Inv, OpenWaits, NEW c \in Call, conn.open, conn.who = c, Prompt(c), PluginHello
  PROVE  Prompt(c)' /\ conn'.open
<1>1. /\ plugin.at = "hello" /\ SameCall(c) /\ carried' = carried
      /\ conn' = [Received EXCEPT !.out = Append(@, "server_auth")]
      /\ plugin' = [plugin EXCEPT !.at = "auth"]
  BY DEF PluginHello, SameCall
<1>2. conn.in = <<"hello">> /\ conn.out = <<>> /\ conn \in ConnRecords /\ plugin \in PluginRecords
  BY <1>1, HelloPlace
     DEF Inv, Types, ConnType, PluginType, ConnRecords, PluginRecords, PluginPlaces
<1>3. plugin'.at = "auth" /\ plugin'.left = plugin.left
  BY <1>1, <1>2 DEF PluginRecords
<1>4. conn'.in = <<>> /\ conn'.out = <<"server_auth">> /\ conn'.open
  BY <1>1, <1>2, FrameSequences DEF Received, ConnRecords
<1>5. HandshakeHasTime'  BY <1>1, <1>3 DEF Prompt, HandshakeHasTime, SameCall
<1>6. IdleHasTime(c)' /\ ReplyHasTime(c)' /\ RunHasTime(c)' /\ NothingBelated'
  BY <1>3, <1>4 DEF IdleHasTime, ReplyHasTime, RunHasTime, NothingBelated, Belated
<1>7. FrameHasTime(c)'  BY <1>4 DEF FrameHasTime
<1> QED  BY <1>1, <1>4, <1>5, <1>6, <1>7, CallerKeepsTime DEF Prompt

LEMMA AuthInTime ==
  ASSUME Inv, OpenWaits, NEW c \in Call, conn.open, conn.who = c, Prompt(c), PluginAuth,
         lifecycle # "draining"
  PROVE  Prompt(c)' /\ conn'.open
<1>1. plugin.at = "auth" /\ NextFrame("client_auth") /\ SameCall(c) /\ Loop(Received)
  BY DEF PluginAuth, SameCall
<1>2. conn.in = <<"client_auth", "ping">> /\ conn.out = <<>> /\ conn \in ConnRecords
  BY <1>1, AuthPlace DEF Inv, Types, ConnType, ConnRecords
<1>3. /\ Received.in = <<"ping">> /\ Received.out = <<>> /\ Received.open
      /\ Received \in ConnRecords
  BY <1>2, FrameSequences DEF Received, ConnRecords, InFrames
<1>4. carried >= call[c].left  BY <1>2 DEF Prompt, FrameHasTime
<1>5. \A m \in Belated : Received.out # <<m>>  BY <1>3
<1> QED  BY <1>1, <1>3, <1>4, <1>5, LoopInTime

\* The ping's deadline has not come, so that it is answered, with a pong.
LEMMA PingInTime ==
  ASSUME Inv, OpenWaits, NEW c \in Call, conn.open, conn.who = c, Prompt(c), PluginPing,
         lifecycle # "draining"
  PROVE  Prompt(c)' /\ conn'.open
<1>1. plugin.at = "idle" /\ NextFrame("ping") /\ SameCall(c) /\ conn' = Received
  BY DEF PluginPing, SameCall
<1>2. conn.in = <<"ping">> /\ conn.out = <<>> /\ conn \in ConnRecords
  BY <1>1, PingPlace DEF Inv, Types, ConnType, ConnRecords
<1>3. conn'.in = <<>> /\ conn'.out = <<>> /\ conn'.open
  BY <1>1, <1>2, FrameSequences DEF Received, ConnRecords
<1>4. Clocks(c) /\ call[c].left > 0 /\ carried >= call[c].left
  BY <1>2, OpenCaller, TimeIsLeft DEF Prompt, FrameHasTime
<1>5. carried # 0 /\ Least(WriteLimit, carried) \in Nat
  BY <1>4, LimitsArePositive DEF Clocks, Least
<1>6. plugin' = Reply("pong", Least(WriteLimit, carried))  BY <1>5 DEF PluginPing
<1>7. Least(WriteLimit, carried) >= WriteLimit \/ Least(WriteLimit, carried) >= call[c].left
  BY <1>4, LimitsArePositive DEF Least, Clocks
<1>8. "pong" \in ToCaller \ Belated  BY DEF ToCaller, Belated
<1> QED  BY <1>1, <1>3, <1>5, <1>6, <1>7, <1>8, ReplyInTime

\* A request that is not refused for another reason is in time, and gets its
\* share or what its caller has left.
LEMMA RequestInTime ==
  ASSUME Inv, OpenWaits, NEW c \in Call, conn.open, conn.who = c, Prompt(c), PluginRequest
  PROVE  Prompt(c)' /\ conn'.open
<1> DEFINE k == call[c].kind
<1>1. plugin.at = "idle" /\ NextFrame("request") /\ SameCall(c) /\ conn' = Received
  BY DEF PluginRequest, SameCall
<1>2. /\ conn.in = <<"request">> /\ conn.out = <<>> /\ conn \in ConnRecords
      /\ Asked(c) /\ k \in Kinds
  BY <1>1, RequestPlace, RequestStep DEF Inv, Types, ConnType, ConnRecords
<1>3. conn'.in = <<>> /\ conn'.out = <<>> /\ conn'.open
  BY <1>1, <1>2, FrameSequences DEF Received, ConnRecords
<1>4. Clocks(c) /\ call[c].left > 0 /\ carried >= call[c].left /\ call[c].at = "asking"
  BY <1>2, OpenCaller, TimeIsLeft DEF Prompt, FrameHasTime, Asked, Waiting
<1>5. carried # 0 /\ ExecLimit[k] = WorkShare(c)
  BY <1>4 DEF Clocks, WorkShare
<1>6. Refused(k) \in {"unsupported", "invalid", "busy", "none"}
  BY <1>5 DEF Refused
<1>7. CASE Refused(k) # "none"
  <2>1. plugin' = RefusalOf(k, Refused(k))  BY <1>7 DEF PluginRequest
  <2>2. Refused(k) \in ToCaller \ Belated
    BY <1>6, <1>7 DEF ToCaller, FromPlugin, Belated
  <2>3. carried \in Nat /\ WriteLimit \in Nat  BY <1>4, LimitsArePositive DEF Clocks
  <2>4. PICK time \in Nat :
          /\ plugin' = Reply(Refused(k), time)
          /\ time >= WriteLimit \/ time >= carried
    BY <2>1, <2>3, RefusalIsReply
  <2>5. time >= WriteLimit \/ time >= call[c].left  BY <1>4, <2>3, <2>4 DEF Clocks
  <2> HIDE DEF k
  <2> QED  BY <1>1, <1>3, <2>2, <2>4, <2>5, ReplyInTime
<1>8. CASE Refused(k) = "none"
  <2>1. /\ plugin' = [Listening EXCEPT !.at = "executing", !.run = Least(ExecLimit[k], carried)]
        /\ carried' = IF k = "read" THEN carried ELSE 0
    BY <1>8 DEF PluginRequest
  <2>2. plugin'.at = "executing" /\ plugin'.run = Least(ExecLimit[k], carried)
    BY <2>1 DEF Listening
  <2>3. WorkShare(c)' = WorkShare(c) /\ WithinShares(spent, c)' /\ CallerHasTime(c)'
    BY <1>1, CallerKeepsTime
  <2>4. plugin'.run >= WorkShare(c) \/ plugin'.run >= call[c].left
    BY <1>4, <1>5, <2>2 DEF Least, Clocks
  <2>5. plugin'.run \in Nat  BY <1>4, <1>5, <2>2 DEF Least, Clocks
  <2>6. plugin'.run + spent'.work >= WorkShare(c)' \/ plugin'.run >= call'[c].left
    BY <1>1, <1>4, <2>3, <2>4, <2>5 DEF SameCall, Clocks
  <2>7. call'[c].kind = "read" => carried' >= call'[c].left
    BY <1>1, <1>4, <2>1 DEF SameCall
  <2>8. RunHasTime(c)'  BY <2>6, <2>7 DEF RunHasTime
  <2>9. HandshakeHasTime' /\ IdleHasTime(c)' /\ ReplyHasTime(c)' /\ NothingBelated'
    BY <1>3, <2>2 DEF HandshakeHasTime, IdleHasTime, ReplyHasTime, NothingBelated
  <2>10. FrameHasTime(c)'  BY <1>3 DEF FrameHasTime
  <2> QED  BY <1>3, <2>3, <2>8, <2>9, <2>10 DEF Prompt
<1> QED  BY <1>7, <1>8

\* A read ends before its deadline, so that its result is sent.
LEMMA FinishInTime ==
  ASSUME Inv, OpenWaits, NEW c \in Call, conn.open, conn.who = c, Prompt(c),
         NEW outcome \in {"done", "failed"}, Finish(outcome)
  PROVE  Prompt(c)' /\ conn'.open
<1>1. plugin.at = "executing" /\ SameCall(c)  BY DEF Finish, SameCall
<1>2. conn' = conn /\ conn.in = <<>> /\ conn.out = <<>>  BY FinishStep
<1>3. Clocks(c) /\ call[c].left > 0 /\ plugin.run > 0
  BY <1>1, OpenCaller, TimeIsLeft
<1>4. outcome \in ToCaller \ Belated  BY DEF ToCaller, FromPlugin, Belated
<1>5. CASE call[c].kind = "read"
  <2>1. carried >= call[c].left  BY <1>1, <1>5 DEF Prompt, RunHasTime
  <2>2. plugin.run # 0 /\ carried # 0 /\ Least(WriteLimit, carried) \in Nat
    BY <1>3, <2>1, LimitsArePositive DEF Clocks, Least
  <2>3. plugin' = Reply(outcome, Least(WriteLimit, carried))
    BY <1>5, <2>2 DEF Finish, ReadReply
  <2>4. Least(WriteLimit, carried) >= WriteLimit \/ Least(WriteLimit, carried) >= call[c].left
    BY <1>3, <2>1, LimitsArePositive DEF Least, Clocks
  <2> QED  BY <1>1, <1>2, <1>4, <2>2, <2>3, <2>4, ReplyInTime
<1>6. CASE call[c].kind # "read"
  <2>1. plugin' = Reply(outcome, WriteLimit)  BY <1>6 DEF Finish, RetainedReply
  <2>2. WriteLimit \in Nat /\ WriteLimit >= WriteLimit  BY LimitsArePositive
  <2> QED  BY <1>1, <1>2, <1>4, <2>1, <2>2, ReplyInTime
<1> QED  BY <1>5, <1>6

LEMMA SendInTime ==
  ASSUME Inv, OpenWaits, NEW c \in Call, conn.open, conn.who = c, Prompt(c), SendReply,
         lifecycle # "draining"
  PROVE  Prompt(c)' /\ conn'.open
<1> DEFINE pipe == [conn EXCEPT !.out = Append(@, plugin.reply)]
<1>1. plugin.at = "sending" /\ SameCall(c) /\ Loop(pipe)  BY DEF SendReply, SameCall
<1>2. /\ conn.in = <<>> /\ conn.out = <<>> /\ conn \in ConnRecords
      /\ plugin.reply \in ToCaller /\ plugin.reply \notin Belated
  <2>1. plugin.reply \in PongFrames \cup FromPlugin
    BY <1>1, SendingPlace DEF Sending
  <2>2. PongFrames \cup FromPlugin \subseteq ToCaller  BY DEF PongFrames, FromPlugin, ToCaller
  <2>3. plugin.reply \notin Belated  BY <1>1 DEF Prompt, NothingBelated
  <2> QED  BY <1>1, <2>1, <2>2, <2>3, SendingPlace DEF Inv, Types, ConnType, ConnRecords
<1>3. pipe.in = <<>> /\ pipe.out = <<plugin.reply>> /\ pipe.open /\ pipe \in ConnRecords
  <2>1. pipe = [conn EXCEPT !.out = <<plugin.reply>>]  BY <1>2, FrameSequences
  <2>2. <<plugin.reply>> \in OutFrames  BY <1>2 DEF OutFrames
  <2> QED  BY <1>2, <2>1, <2>2 DEF ConnRecords
<1>4. \A m \in Belated : pipe.out # <<m>>
  <2>1. \A m, n : <<m>> = <<n>> => m = n  OBVIOUS
  <2> QED  BY <1>2, <1>3, <2>1
<1> HIDE DEF pipe
<1> QED  BY <1>1, <1>3, <1>4, LoopInTime

\* A tick is charged to the stage whose limit it takes from.
LEMMA TickInTime ==
  ASSUME Inv, OpenWaits, NEW c \in Call, conn.open, conn.who = c, Prompt(c), Tick,
         spent' # Overrun
  PROVE  Prompt(c)' /\ conn'.open
<1>1. /\ conn' = conn /\ plugin'.at = plugin.at /\ plugin'.reply = plugin.reply
      /\ call'[c].at = call[c].at /\ call'[c].kind = call[c].kind
      /\ call'[c].left = Less(call[c].left) /\ carried' = Less(carried)
  BY TickRecords DEF Tick
<1>2. plugin'.left = Less(plugin.left) /\ plugin'.run = Less(plugin.run)
  <2>1. plugin \in PluginRecords
    BY DEF Inv, Types, PluginType, PluginRecords, PluginPlaces
  <2> QED  BY <2>1 DEF Tick, PluginRecords
<1>3. spent' = Charged /\ WithinShares(Charged, c)  BY DEF Tick
<1>4. /\ Clocks(c) /\ call[c].left > 0
      /\ plugin.at \in {"hello", "auth", "idle", "sending"} => plugin.left > 0
      /\ plugin.at = "executing" => plugin.run > 0
  BY OpenCaller, TimeIsLeft
<1>5. call'[c].left = call[c].left - 1  BY <1>1, <1>4 DEF Less, Clocks
<1>6. WorkShare(c)' = WorkShare(c)  BY <1>1 DEF WorkShare
<1>7. WithinShares(spent, c)'  BY <1>1, <1>3 DEF WithinShares
<1>8. spent \in [work : Nat, write : Nat, wait : Nat]  BY DEF Inv, Types, RestType
<1>9. /\ plugin.at \in {"hello", "auth", "executing"} =>
           spent'.work = spent.work + 1 /\ spent'.write = spent.write /\ spent'.wait = spent.wait
      /\ plugin.at = "sending" =>
           spent'.work = spent.work /\ spent'.write = spent.write + 1 /\ spent'.wait = spent.wait
      /\ plugin.at \notin {"hello", "auth", "executing", "sending"} =>
           spent'.work = spent.work /\ spent'.write = spent.write /\ spent'.wait = spent.wait + 1
  BY <1>3, <1>8 DEF Charged
<1>10. CallerHasTime(c)'
  <2>1. spent'.work + spent'.write + spent'.wait = spent.work + spent.write + spent.wait + 1
    BY <1>4, <1>9 DEF Clocks
  <2>2. /\ spent'.work \in Nat /\ spent'.write \in Nat /\ spent'.wait \in Nat
    BY <1>4, <1>9 DEF Clocks
  <2>3. CallerHasTime(c)  BY DEF Prompt
  <2>4. call'[c].left + spent'.work + spent'.write + spent'.wait =
          call[c].left + spent.work + spent.write + spent.wait
    BY <1>4, <1>5, <2>1, <2>2 DEF Clocks
  <2> QED  BY <1>6, <2>3, <2>4 DEF CallerHasTime
<1>11. HandshakeHasTime'
  BY <1>1, <1>2, <1>4, <1>9 DEF Prompt, HandshakeHasTime, Less, Clocks
<1>12. IdleHasTime(c)'
  <2>1. ASSUME plugin.at = "idle"
        PROVE  plugin'.left + spent'.wait = plugin.left + spent.wait
    BY <1>2, <1>4, <1>9, <2>1 DEF Less, Clocks
  <2> QED  BY <1>1, <2>1 DEF Prompt, IdleHasTime
<1>13. ReplyHasTime(c)'
  <2>1. ASSUME plugin.at = "sending"
        PROVE  /\ plugin'.left + spent'.write = plugin.left + spent.write
               /\ plugin'.left = plugin.left - 1
    BY <1>2, <1>4, <1>9, <2>1 DEF Less, Clocks
  <2>2. ASSUME plugin.at = "sending"
        PROVE  \/ plugin'.left + spent'.write >= WriteLimit
               \/ plugin'.left >= call'[c].left
    <3>1. plugin.left + spent.write >= WriteLimit \/ plugin.left >= call[c].left
      BY <2>2 DEF Prompt, ReplyHasTime
    <3> QED  BY <1>4, <1>5, <2>1, <2>2, <3>1 DEF Clocks
  <2> QED  BY <1>1, <2>2 DEF ReplyHasTime
<1>14. RunHasTime(c)'
  <2>1. ASSUME plugin.at = "executing"
        PROVE  /\ plugin'.run + spent'.work = plugin.run + spent.work
               /\ plugin'.run = plugin.run - 1
    BY <1>2, <1>4, <1>9, <2>1 DEF Less, Clocks
  <2>2. ASSUME plugin.at = "executing"
        PROVE  \/ plugin'.run + spent'.work >= WorkShare(c)
               \/ plugin'.run >= call'[c].left
    <3>1. plugin.run + spent.work >= WorkShare(c) \/ plugin.run >= call[c].left
      BY <2>2 DEF Prompt, RunHasTime
    <3> QED  BY <1>4, <1>5, <2>1, <2>2, <3>1 DEF Clocks
  <2>3. ASSUME plugin.at = "executing", call[c].kind = "read"
        PROVE  carried' >= call'[c].left
    <3>1. carried >= call[c].left  BY <2>3 DEF Prompt, RunHasTime
    <3> QED  BY <1>1, <1>4, <1>5, <3>1 DEF Less, Clocks
  <2> QED  BY <1>1, <1>6, <2>2, <2>3 DEF RunHasTime
<1>15. FrameHasTime(c)'
  <2>1. ASSUME carried >= call[c].left PROVE carried' >= call'[c].left
    BY <1>1, <1>4, <1>5, <2>1 DEF Less, Clocks
  <2> QED  BY <1>1, <2>1 DEF Prompt, FrameHasTime
<1>16. NothingBelated'  BY <1>1 DEF Prompt, NothingBelated
<1> QED  BY <1>1, <1>7, <1>10, <1>11, <1>12, <1>13, <1>14, <1>15, <1>16 DEF Prompt

-----------------------------------------------------------------------------

\* The plugin's steps: a connection that is in time stays open, and in time.
LEMMA PluginInTime ==
  ASSUME Inv, OpenWaits, NEW c \in Call, conn.open, conn.who = c, Prompt(c), PluginStep,
         lifecycle # "draining"
  PROVE  Prompt(c)' /\ conn'.open
<1>1. CASE PluginHello  BY <1>1, HelloInTime
<1>2. CASE PluginAuth  BY <1>2, AuthInTime
<1>3. CASE PluginPing  BY <1>3, PingInTime
<1>4. CASE PluginRequest  BY <1>4, RequestInTime
<1>5. CASE \E outcome \in {"done", "failed"} : Finish(outcome)  BY <1>5, FinishInTime
<1>6. CASE SendReply  BY <1>6, SendInTime
<1>7. ~PluginDrops  BY StaysConnected
<1> QED  BY <1>1, <1>2, <1>3, <1>4, <1>5, <1>6, <1>7 DEF PluginStep

\* The steps of another caller leave the exchange alone.
LEMMA OthersInTime ==
  ASSUME Inv, OpenWaits, NEW c \in Call, conn.open, conn.who = c,
         NEW d \in Call, d # c, CallerStep(d)
  PROVE  /\ call'[c] = call[c] /\ conn' = conn /\ plugin' = plugin /\ carried' = carried
         /\ spent' = spent
<1>1. call'[c] = call[c]  BY CallerFrame
<1>2. plugin.at # "listening" /\ \A m : ~Arrived(d, m)
  BY OpenCaller DEF Arrived
<1>3. ASSUME NEW a, Over(d, a) PROVE conn' = conn /\ spent' = spent
  BY <1>3 DEF Over
<1>4. CASE \E k \in Kinds : Begin(d, k)  BY <1>1, <1>4 DEF Begin
<1>5. CASE GiveUpConnecting(d)  BY <1>1, <1>3, <1>5 DEF GiveUpConnecting
<1>6. CASE NoAnswer(d)  BY <1>1, <1>3, <1>6 DEF NoAnswer
<1>7. /\ ~Connect(d) /\ ~Authenticate(d) /\ ~Ask(d) /\ ~PingFails(d)
      /\ \A m \in FromPlugin : ~TakeAnswer(d, m)
  BY <1>2 DEF Connect, Authenticate, Ask, PingFails, TakeAnswer
<1> QED  BY <1>4, <1>5, <1>6, <1>7 DEF CallerStep

\* The caller's own: it goes on in time, or it has been answered.
LEMMA CallerInTime ==
  ASSUME Inv, OpenWaits, NEW c \in Call, conn.open, conn.who = c, Prompt(c),
         CallerStep(c), mishaps' = 0, mishaps = 0, spent # Overrun
  PROVE  \/ Prompt(c)' /\ conn'.open /\ call'[c].at \in Waiting
         \/ \E m \in FromPlugin \ Belated :
              TakeAnswer(c, m) /\ call'[c].at = "over" /\ call'[c].answer = m /\ ~conn'.open
<1>1. call[c].at \in Waiting /\ call[c].left > 0  BY OpenCaller, TimeIsLeft
<1>2. ~GiveUpConnecting(c) /\ ~Connect(c) /\ \A k \in Kinds : ~Begin(c, k)
  BY <1>1 DEF GiveUpConnecting, Connect, Begin, Waiting
<1>3. ~NoAnswer(c)
  <2>1. mishaps' # mishaps + 1  OBVIOUS
  <2> QED  BY <1>1, <2>1 DEF NoAnswer
<1>4. ~PingFails(c)
  <2>1. ASSUME PingFails(c) PROVE FALSE
    <3>1. /\ call[c].at = "pinging"
          /\ \E m \in {"pong_draining", "expired"} : Arrived(c, m)
      BY <2>1 DEF PingFails
    <3>2. \E m \in Belated : conn.out = <<m>>  BY <3>1, PongPlace DEF Belated
    <3> QED  BY <3>2 DEF Prompt, NothingBelated
  <2> QED  BY <2>1
<1>5. CASE Authenticate(c)
  <2>1. Prompt(c)'  BY <1>5, AuthenticateInTime
  <2>2. conn'.open
    <3>1. conn \in ConnRecords  BY DEF Inv, Types, ConnType, ConnRecords
    <3> QED  BY <1>5, <3>1 DEF Authenticate, ConnRecords
  <2>3. call'[c].at \in Waiting
    BY <1>5 DEF Authenticate, Waiting, Inv, Types, CallType
  <2> QED  BY <2>1, <2>2, <2>3
<1>6. CASE Ask(c)
  <2>1. Prompt(c)'  BY <1>6, AskInTime
  <2>2. conn'.open
    <3>1. conn \in ConnRecords  BY DEF Inv, Types, ConnType, ConnRecords
    <3> QED  BY <1>6, <3>1 DEF Ask, ConnRecords
  <2>3. call'[c].at \in Waiting
    BY <1>6 DEF Ask, Waiting, Inv, Types, CallType
  <2> QED  BY <2>1, <2>2, <2>3
<1>7. ASSUME NEW m \in FromPlugin, TakeAnswer(c, m)
      PROVE  \E n \in FromPlugin \ Belated :
               TakeAnswer(c, n) /\ call'[c].at = "over" /\ call'[c].answer = n /\ ~conn'.open
  <2>1. call[c].at = "asking" /\ Arrived(c, m) /\ Over(c, m)  BY <1>7 DEF TakeAnswer
  <2>2. conn.out = <<m>>  BY <2>1, AnswerPlace
  <2>3. m \notin Belated  BY <2>2 DEF Prompt, NothingBelated
  <2>4. m \in Answers  BY DEF Answers
  <2>5. call'[c].at = "over" /\ call'[c].answer = m /\ ~conn'.open
    BY <2>1, <2>4, OverCall DEF Inv
  <2> QED  BY <1>7, <2>3, <2>5
<1> QED  BY <1>2, <1>3, <1>4, <1>5, <1>6, <1>7 DEF CallerStep

\* A connection is opened by its caller's Connect alone, and an overrun is not
\* taken back while it is open.
LEMMA StaysOpen ==
  ASSUME Inv, OpenWaits, Next, NEW c \in Call, conn'.open, conn'.who = c
  PROVE  /\ call'[c].at \in Waiting
         /\ \/ Connect(c)
            \/ conn.open /\ conn.who = c /\ (spent = Overrun => spent' = Overrun)
<1>0. conn \in ConnRecords /\ call \in [Call -> CallRecords] /\ ~NoConnection.open
  BY DEF Inv, Types, ConnType, ConnRecords, CallType, CallRecords, CallStates, Answers,
         NoConnection
<1>w. conn.open /\ conn.who = c => call[c].at \in Waiting  BY DEF OpenWaits
<1>over. ASSUME NEW d \in Call, NEW a \in Answers, Over(d, a)
         PROVE  d # c /\ conn' = conn /\ call'[c] = call[c] /\ spent' = spent
  <2>1. conn.who # d  BY <1>over, OverCall DEF Inv
  <2>2. conn' = conn /\ spent' = spent  BY <1>over, <2>1 DEF Over
  <2>3. d # c  BY <2>1, <2>2
  <2> QED  BY <1>over, <2>2, <2>3, OverCall DEF Inv
<1>1. ASSUME NEW d \in Call, NEW k \in Kinds, Begin(d, k)
      PROVE  call'[c].at \in Waiting /\ conn' = conn /\ spent' = spent
  <2>1. conn' = conn /\ spent' = spent /\ call[d].at = "new"  BY <1>1 DEF Begin
  <2>2. d # c  BY <1>w, <2>1 DEF Waiting
  <2> QED  BY <1>0, <1>1, <1>w, <2>1, <2>2 DEF Begin
<1>2. ASSUME NEW d \in Call, Connect(d)
      PROVE  call'[c].at \in Waiting /\ Connect(c)
  <2>1. d = c  BY <1>2, ConnectStep
  <2> QED  BY <1>0, <1>2, <2>1 DEF Connect, CallRecords, Waiting
<1>3. ASSUME NEW d \in Call, GiveUpConnecting(d) \/ PingFails(d)
      PROVE  call'[c].at \in Waiting /\ conn' = conn /\ spent' = spent
  <2>1. Over(d, "unresolved") /\ "unresolved" \in Answers
    BY <1>3 DEF GiveUpConnecting, PingFails, Answers, FromServer
  <2> QED  BY <1>over, <1>w, <2>1
<1>4. ASSUME NEW d \in Call, Authenticate(d) \/ Ask(d)
      PROVE  /\ call'[c].at \in Waiting /\ conn.open /\ conn.who = c
             /\ spent = Overrun => spent' = Overrun
  <2>1. conn.who = d /\ conn'.who = d
    BY <1>4, AuthenticateStep, AskStep DEF Authenticate, Ask, Arrived
  <2>2. conn.open /\ d = c  BY <1>0, <1>4, <2>1 DEF Authenticate, Ask, ConnRecords
  <2>3. call'[c].at \in Waiting  BY <1>0, <1>4, <2>2 DEF Authenticate, Ask, CallRecords, Waiting
  <2>4. spent = Overrun => spent' = Overrun  BY <1>4 DEF Authenticate, Ask
  <2> QED  BY <2>1, <2>2, <2>3, <2>4
<1>5. ASSUME NEW d \in Call, NEW m \in FromPlugin, TakeAnswer(d, m)
      PROVE  call'[c].at \in Waiting /\ conn' = conn /\ spent' = spent
  <2>1. Over(d, m) /\ m \in Answers  BY <1>5 DEF TakeAnswer, Answers
  <2> QED  BY <1>over, <1>w, <2>1
<1>6. ASSUME NEW d \in Call, NoAnswer(d)
      PROVE  call'[c].at \in Waiting /\ conn' = conn /\ spent' = spent
  <2>1. Over(d, OwnReport(d))  BY <1>6 DEF NoAnswer
  <2> QED  BY <1>over, <1>w, <2>1, OwnReportIsAnswer
<1>7. CASE PluginStep
  <2>0. call' = call /\ spent' = spent
    BY <1>7 DEF PluginStep, PluginHello, PluginAuth, PluginPing, PluginRequest, Finish,
       SendReply, PluginDrops
  <2>1. ~Drop  BY <1>0 DEF Drop
  <2>2. conn.open
    <3>1. /\ Received.open = conn.open
          /\ [conn EXCEPT !.out = Append(@, plugin.reply)].open = conn.open
          /\ [Received EXCEPT !.out = Append(@, "server_auth")].open = conn.open
      BY <1>0 DEF Received, ConnRecords
    <3> QED
      BY <1>7, <2>1, <3>1 DEF PluginStep, PluginHello, PluginAuth, PluginPing, PluginRequest,
         Finish, SendReply, PluginDrops, Loop
  <2>3. conn'.who = conn.who
    <3>0. conn' # NoConnection  BY <1>0
    <3>1. CASE PluginHello  BY <3>0, <3>1, HelloStep
    <3>2. CASE PluginAuth  BY <3>0, <3>2, AuthStep
    <3>3. CASE PluginPing  BY <3>3, PingStep
    <3>4. CASE PluginRequest  BY <3>4, RequestStep
    <3>5. CASE \E outcome \in {"done", "failed"} : Finish(outcome)  BY <3>5, FinishStep
    <3>6. CASE SendReply  BY <3>0, <3>6, SendStep
    <3>7. ~PluginDrops  BY <2>1 DEF PluginDrops
    <3> QED  BY <1>7, <3>1, <3>2, <3>3, <3>4, <3>5, <3>6, <3>7 DEF PluginStep
  <2> QED  BY <1>w, <2>0, <2>2, <2>3
<1>8. ASSUME OtherStep \/ \E d \in Call : EditTakesEffect(d)
      PROVE  call' = call /\ conn' = conn /\ spent' = spent
  BY <1>8 DEF OtherStep, LifecycleMoves, ClockJumps, EditTakesEffect
<1>9. ASSUME Tick
      PROVE  /\ call'[c].at = call[c].at /\ conn' = conn
             /\ spent = Overrun => spent' = Overrun
  <2>1. conn' = conn /\ conn.open /\ conn.who = c /\ call'[c].at = call[c].at
    BY <1>9, TickRecords
  <2>2. spent' = IF WithinShares(Charged, c) THEN Charged ELSE Overrun
    BY <1>9, <2>1 DEF Tick
  <2>3. ASSUME spent = Overrun PROVE ~WithinShares(Charged, c)
    <3>1. spent \in [work : Nat, write : Nat, wait : Nat] /\ spent.wait = Headroom + 1
      BY <2>3 DEF Inv, Types, RestType, Overrun, NothingSpent
    <3>2. Charged.wait = spent.wait \/ Charged.wait = spent.wait + 1
      BY <3>1 DEF Charged
    <3>3. ~(Charged.wait <= Headroom)  BY <3>1, <3>2, LimitsArePositive
    <3> QED  BY <3>3 DEF WithinShares
  <2> QED  BY <2>1, <2>2, <2>3
<1>10. CASE \E d \in Call : CallerStep(d)
  BY <1>10, <1>1, <1>2, <1>3, <1>4, <1>5, <1>6 DEF CallerStep
<1>11. CASE OtherStep \/ Tick \/ \E d \in Call : EditTakesEffect(d)
  BY <1>8, <1>9, <1>11, <1>w
<1> QED  BY <1>7, <1>10, <1>11, NextSteps

\* Neither a mishap nor the shutdown is taken back.
LEMMA StaysDisturbed ==
  ASSUME Inv, Next
  PROVE  /\ mishaps' = 0 => mishaps = 0
         /\ lifecycle' # "draining" => lifecycle # "draining"
<1>1. mishaps \in Nat  BY LimitAssumption DEF Inv, Types, RestType
<1>2. mishaps' = mishaps \/ mishaps' = mishaps + 1
  BY DEF Next, Begin, Connect, GiveUpConnecting, Authenticate, Ask, PingFails,
     TakeAnswer, NoAnswer, EditTakesEffect, PluginHello, PluginAuth, PluginPing, PluginRequest,
     Finish, SendReply, PluginDrops, LifecycleMoves, ClockJumps, Tick
<1>3. lifecycle' = lifecycle \/ lifecycle # "draining"
  BY DEF Next, Begin, Connect, GiveUpConnecting, Authenticate, Ask, PingFails,
     TakeAnswer, NoAnswer, EditTakesEffect, PluginHello, PluginAuth, PluginPing, PluginRequest,
     Finish, SendReply, PluginDrops, LifecycleMoves, ClockJumps, Tick
<1> QED  BY <1>1, <1>2, <1>3

\* Whatever the step, an undisturbed exchange goes on in time or is answered.
LEMMA ExchangeInTime ==
  ASSUME PromptInv, Next, NEW c \in Call, conn.open, conn.who = c, spent # Overrun,
         mishaps' = 0, lifecycle' # "draining"
  PROVE  \/ /\ conn'.open /\ call'[c].at \in Waiting
            /\ spent' # Overrun => Prompt(c)'
         \/ \E m \in FromPlugin \ Belated :
              call'[c].at = "over" /\ call'[c].answer = m /\ ~conn'.open
<1>0. mishaps = 0 /\ lifecycle # "draining" /\ Inv /\ OpenWaits
  BY StaysDisturbed DEF PromptInv
<1>1. Prompt(c) /\ call[c].at \in Waiting
  BY <1>0 DEF PromptInv, InTime, Undisturbed, OpenWaits
<1>2. CASE CallerStep(c)  BY <1>0, <1>1, <1>2, CallerInTime
<1>3. ASSUME NEW d \in Call, d # c, CallerStep(d)
      PROVE  conn'.open /\ call'[c].at \in Waiting /\ Prompt(c)'
  BY <1>0, <1>1, <1>3, OthersInTime, PromptKept
<1>4. CASE PluginStep
  <2>1. call' = call  BY <1>4, PluginFrame
  <2> QED  BY <1>0, <1>1, <1>4, <2>1, PluginInTime
<1>5. CASE OtherStep \/ \E d \in Call : EditTakesEffect(d)
  <2>1. ~ClockJumps
    <3>1. mishaps' # mishaps + 1  BY <1>0
    <3> QED  BY <3>1 DEF ClockJumps
  <2>2. /\ call' = call /\ conn' = conn /\ plugin' = plugin
        /\ carried' = carried /\ spent' = spent
    BY <1>5, <2>1 DEF OtherStep, LifecycleMoves, EditTakesEffect
  <2> QED  BY <1>1, <2>2, PromptKept
<1>6. CASE Tick
  <2>1. conn' = conn /\ call'[c].at = call[c].at  BY <1>0, <1>6, TickRecords
  <2> QED  BY <1>0, <1>1, <1>6, <2>1, TickInTime
<1> QED  BY <1>2, <1>3, <1>4, <1>5, <1>6, NextSteps

LEMMA PromptInvInit == Init => PromptInv
<1>1. ASSUME Init PROVE Inv /\ ~conn.open
  BY <1>1, InvInit DEF Init, NoConnection
<1> QED  BY <1>1 DEF PromptInv, OpenWaits, InTime

LEMMA PromptInvNext ==
  ASSUME PromptInv, [Next]_vars
  PROVE  PromptInv'
<1>0. Inv /\ OpenWaits /\ InTime /\ Inv'  BY InvNext DEF PromptInv
<1>1. CASE Next
  <2>1. OpenWaits'  BY <1>0, <1>1, StaysOpen DEF OpenWaits
  <2>2. ASSUME NEW c \in Call, conn'.open, conn'.who = c, Undisturbed' PROVE Prompt(c)'
    <3>1. spent' # Overrun /\ mishaps' = 0 /\ lifecycle' # "draining"
      BY <2>2 DEF Undisturbed, Overrun, NothingSpent
    <3>2. CASE Connect(c)  BY <1>0, <3>1, <3>2, ConnectInTime
    <3>3. CASE conn.open /\ conn.who = c /\ spent # Overrun
      BY <1>1, <2>2, <3>1, <3>3, ExchangeInTime
    <3> QED  BY <1>0, <1>1, <2>2, <3>1, <3>2, <3>3, StaysOpen
  <2>3. InTime'  BY <2>2 DEF InTime
  <2> QED  BY <1>0, <2>1, <2>3 DEF PromptInv
<1>2. CASE UNCHANGED vars
  <2>1. /\ call' = call /\ conn' = conn /\ plugin' = plugin /\ carried' = carried
        /\ spent' = spent /\ mishaps' = mishaps /\ lifecycle' = lifecycle
    BY <1>2 DEF vars
  <2>2. OpenWaits'  BY <1>0, <2>1 DEF OpenWaits
  <2>3. ASSUME NEW c \in Call, conn'.open, conn'.who = c, Undisturbed' PROVE Prompt(c)'
    <3>1. Prompt(c)
      BY <1>0, <2>1, <2>3 DEF InTime, Undisturbed, Overrun, NothingSpent
    <3> QED  BY <2>1, <3>1, PromptKept
  <2>4. InTime'  BY <2>3 DEF InTime
  <2> QED  BY <1>0, <2>2, <2>4 DEF PromptInv
<1> QED  BY <1>1, <1>2

\* If every stage keeps within its share, an instance that is neither starting
\* its shutdown nor disturbed by errors or the wall clock answers in time: the
\* connection stays open until the plugin's own, timely answer is taken.
THEOREM SessionPrompt == Spec => PromptIsAnswered
<1> DEFINE Promptly ==
      \A c \in Call : conn.who = c /\ conn.open /\ spent # Overrun
                      /\ mishaps' = 0 /\ lifecycle' # "draining" =>
         IF call'[c].at = "over"
         THEN call'[c].answer \notin FromServer \cup {"late", "expired"}
         ELSE conn'.open
<1>1. Init => PromptInv  BY PromptInvInit
<1>2. PromptInv /\ [Next]_vars => PromptInv'  BY PromptInvNext
<1>3. ASSUME PromptInv, Next PROVE Promptly
  <2>1. ASSUME NEW c \in Call, conn.who = c, conn.open, spent # Overrun,
               mishaps' = 0, lifecycle' # "draining"
        PROVE  IF call'[c].at = "over"
               THEN call'[c].answer \notin FromServer \cup {"late", "expired"}
               ELSE conn'.open
    <3>1. "over" \notin Waiting  BY DEF Waiting
    <3>2. \A m \in FromPlugin \ Belated : m \notin FromServer \cup {"late", "expired"}
      BY DEF FromPlugin, FromServer, Belated
    <3> QED  BY <1>3, <2>1, <3>1, <3>2, ExchangeInTime
  <2> QED  BY <2>1
<1>4. PromptInv /\ [Next]_vars => [Promptly]_vars  BY <1>3
<1> QED  BY <1>1, <1>2, <1>4, PTL DEF Spec, PromptIsAnswered

-----------------------------------------------------------------------------
(* The result of an edit.                                                  *)

AppliedAreEdits == \A c \in applied : call[c].kind = "edit"

LEMMA AppliedAreEditsNext ==
  ASSUME Inv, AppliedAreEdits, [Next]_vars
  PROVE  AppliedAreEdits'
<1>0. UnaskedUnapplied /\ OnlyTheServedRuns /\ applied \subseteq Call
  BY DEF Inv, Honest, Types, RestType
<1>1. ASSUME NEW c \in Call, CallerStep(c) PROVE AppliedAreEdits'
  <2>1. c \in applied => call[c].at # "new"  BY <1>0 DEF UnaskedUnapplied
  <2> QED  BY <1>0, <1>1, <2>1, CallerFrame DEF AppliedAreEdits
<1>2. ASSUME NEW c \in Call, EditTakesEffect(c) PROVE AppliedAreEdits'
  <2>1. call[c].kind = "edit"  BY <1>0, <1>2 DEF EditTakesEffect, OnlyTheServedRuns
  <2> QED  BY <1>2, <2>1, EffectFrame DEF AppliedAreEdits
<1>3. CASE PluginStep \/ OtherStep
  BY <1>3, PluginFrame, OtherFrame DEF AppliedAreEdits
<1>4. CASE Tick
  BY <1>0, <1>4, TickFrame DEF AppliedAreEdits
<1>5. CASE UNCHANGED vars
  BY <1>5 DEF AppliedAreEdits, vars
<1> QED  BY <1>1, <1>2, <1>3, <1>4, <1>5, NextSteps

\* An edit that was made is on its way to being answered so.
LEMMA ResultStays ==
  ASSUME PromptInv, AppliedAreEdits, Next, NEW c \in applied \ running,
         conn.who = c, conn.open, call[c].at = "asking", call[c].left > 0, plugin.left > 0,
         mishaps' = mishaps, lifecycle # "draining"
  PROVE  IF call'[c].at = "over" THEN call'[c].answer = "done" ELSE conn'.open
<1>0. /\ Inv /\ OpenWaits /\ c \in Call /\ call[c].kind = "edit"
      /\ conn \in ConnRecords /\ SentSays /\ mishaps \in Nat
  BY LimitAssumption DEF PromptInv, Inv, Types, RestType, AppliedAreEdits, ConnType, ConnRecords, Honest
<1>1. CASE CallerStep(c)
  <2>1. /\ ~GiveUpConnecting(c) /\ ~Connect(c) /\ \A k \in Kinds : ~Begin(c, k)
        /\ ~Authenticate(c) /\ ~Ask(c) /\ ~PingFails(c)
    BY DEF GiveUpConnecting, Connect, Begin, Authenticate, Ask, PingFails
  <2>2. ~NoAnswer(c)
    <3>1. mishaps' # mishaps + 1 /\ call[c].left # 0  BY <1>0
    <3> QED  BY <3>1 DEF NoAnswer
  <2>3. PICK m \in FromPlugin : TakeAnswer(c, m)  BY <1>1, <2>1, <2>2 DEF CallerStep
  <2>4. Arrived(c, m) /\ Over(c, m)  BY <2>3 DEF TakeAnswer
  <2>5. conn.out = <<m>> /\ Sent(c)  BY <1>0, <2>4, AnswerPlace
  <2>6. Says(c, m)  BY <1>0, <2>5 DEF SentSays
  <2>7. m = "done"  BY <1>0, <2>6 DEF Says, FromPlugin
  <2>8. m \in Answers  BY DEF Answers
  <2>9. call'[c].at = "over" /\ call'[c].answer = m  BY <1>0, <2>4, <2>8, OverCall DEF Inv
  <2> QED  BY <2>7, <2>9
<1>2. ASSUME NEW d \in Call, d # c, CallerStep(d)
      PROVE  call'[c] = call[c] /\ conn' = conn
  BY <1>0, <1>2, OthersInTime
<1>3. CASE PluginStep
  <2>1. call' = call  BY <1>3, PluginFrame
  <2>2. ~PluginDrops
    <3>1. plugin.left # 0  BY <1>0, ClocksRun DEF Clocks
    <3> QED  BY <3>1 DEF PluginDrops, Inv, Situation, Executing
  <2>3. /\ Received.open = conn.open
        /\ [conn EXCEPT !.out = Append(@, plugin.reply)].open = conn.open
        /\ [Received EXCEPT !.out = Append(@, "server_auth")].open = conn.open
    BY <1>0 DEF Received, ConnRecords
  <2>4. conn'.open
    BY <1>3, <2>2, <2>3 DEF PluginStep, PluginHello, PluginAuth, PluginPing, PluginRequest,
       Finish, SendReply, Loop
  <2> QED  BY <2>1, <2>4
<1>4. CASE OtherStep \/ \E d \in Call : EditTakesEffect(d)
  BY <1>4 DEF OtherStep, LifecycleMoves, ClockJumps, EditTakesEffect
<1>5. CASE Tick
  BY <1>0, <1>5, TickFrame
<1> QED  BY <1>0, <1>1, <1>2, <1>3, <1>4, <1>5, NextSteps

\* The result of an edit that was made is never thrown away, however late it
\* is: its caller keeps the connection until it is told so.
THEOREM SessionKeepsResult == Spec => EditResultIsKept
<1> DEFINE Kept ==
      \A c \in applied \ running :
        /\ conn.who = c /\ conn.open /\ call[c].at = "asking"
        /\ call[c].left > 0 /\ plugin.left > 0
        /\ mishaps' = mishaps /\ lifecycle # "draining"
        => IF call'[c].at = "over" THEN call'[c].answer = "done" ELSE conn'.open
<1>1. Init => AppliedAreEdits  BY DEF Init, AppliedAreEdits
<1>2. Inv /\ AppliedAreEdits /\ [Next]_vars => AppliedAreEdits'  BY AppliedAreEditsNext
<1>3. ASSUME PromptInv, AppliedAreEdits, Next PROVE Kept
  BY <1>3, ResultStays
<1>4. PromptInv /\ AppliedAreEdits /\ [Next]_vars => [Kept]_vars
  BY <1>3
<1> HIDE DEF Kept
<1>5. Spec => []PromptInv  BY PromptInvInit, PromptInvNext, PTL DEF Spec
<1>6. Spec => []AppliedAreEdits  BY <1>1, <1>2, Invariance, PTL DEF Spec
<1>7. Spec => [][Kept]_vars  BY <1>4, <1>5, <1>6, PTL DEF Spec
<1> QED  BY <1>7 DEF EditResultIsKept, Kept

\* From its start to its answer an edit has a caller.
THEOREM SessionMeetsCaller == Spec => EditMeetsItsCaller
BY SessionAwaited, SessionKeepsResult DEF EditMeetsItsCaller

-----------------------------------------------------------------------------
(* The bytes.                                                              *)

\* One unit on the pipe, and what each end holds of the exchange.
FrameUnit == [of : Nat, at : Nat]
Tasks ==
  [does : {"rest", "write", "read", "execute"}, no : Nat,
   whole : Seq(FrameUnit), part : Seq(FrameUnit)]
Ops == [held : BOOLEAN, pending : BOOLEAN, at : {"ready", "waiting", "draining"}]
KernelOps ==
  [st : {"none", "queued", "done", "broken", "aborted"}, moved : Seq(FrameUnit)]

Executes(n) == [Rest EXCEPT !.does = "execute", !.no = n]
Transfers(t) == t.does \in {"read", "write"}
\* Take, of a task.
TakeOf(t) ==
  IF t.does = "write" THEN Body + 1
  ELSE IF t.whole = <<>> THEN 1
  ELSE IF Body + 1 - Len(t.whole) < Chunk THEN Body + 1 - Len(t.whole) ELSE Chunk

\* A task, its OverlappedOp and the operation the kernel has go together.
EndFits(t, o, k) ==
  /\ Transfers(t) =>
       /\ o.held
       /\ o.at = "ready" => k = Idle
       /\ o.at # "ready" => o.pending /\ k.st # "none"
       /\ Len(t.whole) <= Body /\ Len(t.part) < TakeOf(t)
       /\ Len(t.part) + Len(k.moved) <= TakeOf(t)
  /\ ~Transfers(t) => t.whole = <<>> /\ t.part = <<>> /\ o = NoOp /\ k = Idle
  /\ t.does = "write" => t.whole = <<>>
  /\ k.st # "done" => k.moved = <<>>

FrameParts ==
  /\ stream \in [Ends -> Seq(FrameUnit)] /\ open \subseteq Ends
  /\ task \in [Ends -> Tasks] /\ op \in [Ends -> Ops] /\ kernel \in [Ends -> KernelOps]
  /\ late \in [Ends -> BOOLEAN] /\ stopping \in BOOLEAN /\ desynced \in BOOLEAN
  /\ asked \in 0 .. MaxRequests
  /\ \A e \in Ends :
       /\ task[e].no <= asked /\ Len(stream[e]) <= Room
       /\ EndFits(task[e], op[e], kernel[e])
       /\ task[e].does # "rest" => e \in open
  /\ task["client"].does # "execute"

\* s is what a frame n has from its unit a + 1 on.
UnitsOf(s, n, a) == \A i \in 1 .. Len(s) : s[i] = [of |-> n, at |-> a + i]

-----------------------------------------------------------------------------
LEMMA FrameConstants ==
  /\ Body \in Nat /\ Chunk \in Nat /\ Room \in Nat /\ MaxRequests \in Nat
  /\ Body >= 1 /\ Chunk >= 1 /\ Room >= 1 /\ MaxRequests >= 1
BY FrameAssumption DEF FrameAssumption

LEMMA TwoEnds ==
  /\ "client" \in Ends /\ "plugin" \in Ends
  /\ Peer("client") = "plugin" /\ Peer("plugin") = "client"
  /\ \A e \in Ends : e = "client" \/ e = "plugin"
  /\ \A e \in Ends : Peer(e) \in Ends /\ Peer(e) # e
BY DEF Ends, Peer

\* The records the threads begin and end with.
LEMMA FrameRecords ==
  /\ Rest \in Tasks /\ Reads \in Tasks
  /\ Rest.does = "rest" /\ Rest.no = 0 /\ Rest.whole = <<>> /\ Rest.part = <<>>
  /\ Reads.does = "read" /\ Reads.no = 0 /\ Reads.whole = <<>> /\ Reads.part = <<>>
  /\ \A n \in Nat :
       /\ Writes(n) \in Tasks
       /\ Writes(n).does = "write" /\ Writes(n).no = n
       /\ Writes(n).whole = <<>> /\ Writes(n).part = <<>>
  /\ \A n \in Nat :
       /\ Executes(n) \in Tasks
       /\ Executes(n).does = "execute" /\ Executes(n).no = n
       /\ Executes(n).whole = <<>> /\ Executes(n).part = <<>>
  /\ NoOp \in Ops /\ FreshOp \in Ops
  /\ FreshOp.held /\ FreshOp.at = "ready"
  /\ Idle \in KernelOps /\ Idle.st = "none" /\ Idle.moved = <<>>
<1>1. <<>> \in Seq(FrameUnit)
  OBVIOUS
<1>2. Rest \in Tasks /\ Rest.does = "rest" /\ Rest.no = 0 /\ Rest.whole = <<>> /\ Rest.part = <<>>
  BY <1>1 DEF Rest, Tasks
<1>3. /\ Reads \in Tasks /\ Reads.does = "read" /\ Reads.no = 0
      /\ Reads.whole = <<>> /\ Reads.part = <<>>
  BY <1>1 DEF Rest, Reads, Tasks
<1>4. ASSUME NEW n \in Nat
      PROVE  /\ Writes(n) \in Tasks
             /\ Writes(n).does = "write" /\ Writes(n).no = n
             /\ Writes(n).whole = <<>> /\ Writes(n).part = <<>>
  BY <1>1, <1>4 DEF Rest, Writes, Tasks
<1>5. NoOp \in Ops /\ FreshOp \in Ops /\ FreshOp.held /\ FreshOp.at = "ready"
  BY DEF NoOp, FreshOp, Ops
<1>6. Idle \in KernelOps /\ Idle.st = "none" /\ Idle.moved = <<>>
  BY <1>1 DEF Idle, KernelOps
<1>7. ASSUME NEW n \in Nat
      PROVE  /\ Executes(n) \in Tasks
             /\ Executes(n).does = "execute" /\ Executes(n).no = n
             /\ Executes(n).whole = <<>> /\ Executes(n).part = <<>>
  BY <1>1, <1>7 DEF Rest, Executes, Tasks
<1>8. QED
  BY <1>2, <1>3, <1>4, <1>5, <1>6, <1>7

LEMMA TakeIsTakeOf == ASSUME NEW e \in Ends PROVE Take(e) = TakeOf(task[e])
BY DEF Take, TakeOf

\* A transfer is never of nothing, and never goes past the end of the frame.
LEMMA TakeFits ==
  ASSUME NEW t \in Tasks, Transfers(t), Len(t.whole) <= Body,
         t.does = "write" => t.whole = <<>>
  PROVE  /\ TakeOf(t) \in Nat /\ TakeOf(t) >= 1
         /\ Len(t.whole) + TakeOf(t) <= Body + 1
         /\ t.does = "write" => TakeOf(t) = Body + 1
<1>1. Len(t.whole) \in Nat /\ (t.whole = <<>> => Len(t.whole) = 0)
  BY DEF Tasks
<1>2. \/ TakeOf(t) = Body + 1 /\ Len(t.whole) = 0
      \/ TakeOf(t) = 1 /\ Len(t.whole) = 0
      \/ TakeOf(t) = Body + 1 - Len(t.whole)
      \/ TakeOf(t) = Chunk /\ ~(Body + 1 - Len(t.whole) < Chunk)
  BY <1>1 DEF TakeOf
<1>3. ASSUME NEW w \in Nat, w <= Body, NEW x,
             \/ x = Body + 1 /\ w = 0
             \/ x = 1 /\ w = 0
             \/ x = Body + 1 - w
             \/ x = Chunk /\ ~(Body + 1 - w < Chunk)
      PROVE  x \in Nat /\ x >= 1 /\ w + x <= Body + 1
  BY <1>3, FrameConstants
<1>4. TakeOf(t) \in Nat /\ TakeOf(t) >= 1 /\ Len(t.whole) + TakeOf(t) <= Body + 1
  BY <1>1, <1>2, <1>3
<1>5. t.does = "write" => TakeOf(t) = Body + 1
  BY DEF TakeOf
<1>6. QED
  BY <1>4, <1>5

\* A thread that has finished has nothing; one that begins has nothing yet.
LEMMA FinishedFits ==
  ASSUME NEW t \in Tasks, ~Transfers(t), t.whole = <<>>, t.part = <<>>
  PROVE  EndFits(t, NoOp, Idle)
BY FrameRecords DEF EndFits, Transfers

LEMMA BeginningFits ==
  ASSUME NEW t \in Tasks, Transfers(t), Len(t.whole) <= Body, t.part = <<>>,
         t.does = "write" => t.whole = <<>>
  PROVE  EndFits(t, FreshOp, Idle)
<1>1. TakeOf(t) \in Nat /\ TakeOf(t) >= 1
  BY TakeFits
<1>2. Len(t.part) = 0 /\ Len(Idle.moved) = 0
  BY FrameRecords
<1>3. QED
  BY <1>1, <1>2, FrameRecords DEF EndFits, Transfers

\* What holds of the end whose step it is holds of all, when the step leaves
\* the other end alone.
LEMMA OneEnd ==
  ASSUME FrameParts, NEW e \in Ends,
         NEW t \in Tasks, NEW o \in Ops, NEW k \in KernelOps,
         task' = [task EXCEPT ![e] = t], op' = [op EXCEPT ![e] = o],
         kernel' = [kernel EXCEPT ![e] = k],
         EndFits(t, o, k), t.no <= asked',
         asked' \in asked .. MaxRequests,
         t.does # "rest" => e \in open', t.does = "execute" => e # "client",
         open' \subseteq open,
         \A f \in Ends : f # e /\ f \in open => f \in open',
         stream' \in [Ends -> Seq(FrameUnit)],
         \A f \in Ends : Len(stream'[f]) <= Room,
         late' \in [Ends -> BOOLEAN], stopping' \in BOOLEAN, desynced' \in BOOLEAN
  PROVE  FrameParts'
<1>1. /\ task' \in [Ends -> Tasks] /\ op' \in [Ends -> Ops] /\ kernel' \in [Ends -> KernelOps]
      /\ task'[e] = t /\ op'[e] = o /\ kernel'[e] = k
      /\ \A f \in Ends : f # e =>
           task'[f] = task[f] /\ op'[f] = op[f] /\ kernel'[f] = kernel[f]
  BY DEF FrameParts
<1>2. asked \in Nat /\ asked' \in 0 .. MaxRequests /\ asked <= asked'
  BY FrameConstants DEF FrameParts
<1>3. ASSUME NEW f \in Ends
      PROVE  /\ task'[f].no <= asked' /\ EndFits(task'[f], op'[f], kernel'[f])
             /\ task'[f].does # "rest" => f \in open'
  <2>1. CASE f = e
    BY <1>1, <2>1
  <2>2. CASE f # e
    <3>1. /\ task[f].no <= asked /\ EndFits(task[f], op[f], kernel[f])
          /\ task[f].does # "rest" => f \in open
          /\ task[f].no \in Nat
      BY DEF FrameParts, Tasks
    <3>2. QED
      BY <1>1, <1>2, <2>2, <3>1
  <2>3. QED
    BY <2>1, <2>2
<1>4. task'["client"].does # "execute"
  BY <1>1, TwoEnds DEF FrameParts
<1>5. QED
  BY <1>1, <1>2, <1>3, <1>4 DEF FrameParts

\* What an end has, unfolded.
LEMMA EndOf ==
  ASSUME FrameParts, NEW e \in Ends
  PROVE  /\ task[e] \in Tasks /\ op[e] \in Ops /\ kernel[e] \in KernelOps
         /\ stream[e] \in Seq(FrameUnit) /\ Len(stream[e]) \in Nat /\ Len(stream[e]) <= Room
         /\ task[e].no \in Nat /\ task[e].no <= asked /\ asked \in 0 .. MaxRequests /\ asked \in Nat
         /\ task[e].whole \in Seq(FrameUnit) /\ task[e].part \in Seq(FrameUnit)
         /\ kernel[e].moved \in Seq(FrameUnit)
         /\ Len(task[e].whole) \in Nat /\ Len(task[e].part) \in Nat
         /\ Len(kernel[e].moved) \in Nat
         /\ EndFits(task[e], op[e], kernel[e])
         /\ task[e].does # "rest" => e \in open
BY FrameConstants DEF FrameParts, Tasks, KernelOps

LEMMA FramePartsInit == FrameInit => FrameParts
<1> SUFFICES ASSUME FrameInit PROVE FrameParts
  OBVIOUS
<1>1. \A e \in Ends : /\ stream[e] = <<>> /\ task[e] = Rest /\ op[e] = NoOp
                      /\ kernel[e] = Idle
  BY DEF FrameInit
<1>2. EndFits(Rest, NoOp, Idle)
  BY FrameRecords, FinishedFits DEF Transfers
<1>3. <<>> \in Seq(FrameUnit) /\ Len(<<>>) = 0
  OBVIOUS
<1>4. /\ stream \in [Ends -> Seq(FrameUnit)] /\ task \in [Ends -> Tasks]
      /\ op \in [Ends -> Ops] /\ kernel \in [Ends -> KernelOps] /\ late \in [Ends -> BOOLEAN]
  <2>1. FALSE \in BOOLEAN
    OBVIOUS
  <2>2. QED
    BY <1>3, <2>1, FrameRecords DEF FrameInit
<1>5. asked \in 0 .. MaxRequests /\ asked = 0 /\ open \subseteq Ends
      /\ stopping \in BOOLEAN /\ desynced \in BOOLEAN
  <2>1. stopping \in BOOLEAN /\ desynced \in BOOLEAN
    BY DEF FrameInit
  <2>2. QED
    BY <2>1, FrameConstants DEF FrameInit
<1>6. ASSUME NEW e \in Ends
      PROVE  /\ task[e].no <= asked /\ Len(stream[e]) <= Room
             /\ EndFits(task[e], op[e], kernel[e])
             /\ task[e].does = "rest"
  BY <1>1, <1>2, <1>3, <1>5, FrameRecords, FrameConstants
<1>7. QED
  BY <1>4, <1>5, <1>6, TwoEnds DEF FrameParts

-----------------------------------------------------------------------------
\* Sequences of units: what is cut off, what is appended, what a frame has.
LEMMA CutUnits ==
  ASSUME NEW s \in Seq(FrameUnit), NEW k \in 1 .. Len(s)
  PROVE  /\ SubSeq(s, 1, k) \in Seq(FrameUnit) /\ Len(SubSeq(s, 1, k)) = k
         /\ \A j \in 1 .. k : SubSeq(s, 1, k)[j] = s[j]
         /\ SubSeq(s, k + 1, Len(s)) \in Seq(FrameUnit)
         /\ Len(SubSeq(s, k + 1, Len(s))) = Len(s) - k
         /\ \A j \in 1 .. Len(s) - k : SubSeq(s, k + 1, Len(s))[j] = s[k + j]
<1>1. Len(s) \in Nat /\ \A j \in 1 .. Len(s) : s[j] \in FrameUnit
  OBVIOUS
<1>2. \A j \in 1 .. k : s[j] \in FrameUnit
  BY <1>1
<1>3. /\ SubSeq(s, 1, k) \in Seq(FrameUnit) /\ Len(SubSeq(s, 1, k)) = k
      /\ \A j \in 1 .. k : SubSeq(s, 1, k)[j] = s[j]
  <2>1. /\ SubSeq(s, 1, k) \in Seq(FrameUnit)
        /\ Len(SubSeq(s, 1, k)) = IF 1 <= k THEN k - 1 + 1 ELSE 0
        /\ \A j \in 1 .. k - 1 + 1 : SubSeq(s, 1, k)[j] = s[1 + j - 1]
    BY <1>2, SubSeqProperties
  <2>2. k - 1 + 1 = k /\ 1 <= k /\ \A j \in 1 .. k : 1 + j - 1 = j
    BY <1>1
  <2>3. QED
    BY <2>1, <2>2
<1>4. \A j \in k + 1 .. Len(s) : s[j] \in FrameUnit
  BY <1>1
<1>5. /\ SubSeq(s, k + 1, Len(s)) \in Seq(FrameUnit)
      /\ Len(SubSeq(s, k + 1, Len(s))) =
           IF k + 1 <= Len(s) THEN Len(s) - (k + 1) + 1 ELSE 0
      /\ \A j \in 1 .. Len(s) - (k + 1) + 1 :
           SubSeq(s, k + 1, Len(s))[j] = s[k + 1 + j - 1]
  BY <1>1, <1>4, SubSeqProperties
<1>6. Len(s) - (k + 1) + 1 = Len(s) - k /\ (k + 1 <= Len(s) \/ Len(s) - k = 0)
      /\ \A j \in 1 .. Len(s) - k : k + 1 + j - 1 = k + j
  BY <1>1
<1>7. QED
  BY <1>3, <1>5, <1>6

LEMMA JoinUnits ==
  ASSUME NEW s \in Seq(FrameUnit), NEW r \in Seq(FrameUnit)
  PROVE  /\ s \o r \in Seq(FrameUnit) /\ Len(s \o r) = Len(s) + Len(r)
         /\ \A n, a \in Nat : UnitsOf(s, n, a) /\ UnitsOf(r, n, a + Len(s)) =>
              UnitsOf(s \o r, n, a)
<1>1. /\ s \o r \in Seq(FrameUnit) /\ Len(s \o r) = Len(s) + Len(r)
      /\ \A i \in 1 .. Len(s) + Len(r) : (s \o r)[i] =
           IF i <= Len(s) THEN s[i] ELSE r[i - Len(s)]
  BY ConcatProperties
<1>2. Len(s) \in Nat /\ Len(r) \in Nat
  OBVIOUS
<1>3. ASSUME NEW n \in Nat, NEW a \in Nat, UnitsOf(s, n, a), UnitsOf(r, n, a + Len(s)),
             NEW i \in 1 .. Len(s) + Len(r)
      PROVE  (s \o r)[i] = [of |-> n, at |-> a + i]
  <2>1. CASE i <= Len(s)
    BY <1>1, <1>2, <1>3, <2>1 DEF UnitsOf
  <2>2. CASE ~(i <= Len(s))
    <3>1. i - Len(s) \in 1 .. Len(r) /\ a + Len(s) + (i - Len(s)) = a + i
      BY <1>2, <2>2
    <3>2. r[i - Len(s)] = [of |-> n, at |-> a + Len(s) + (i - Len(s))]
      BY <1>3, <3>1 DEF UnitsOf
    <3>3. QED
      BY <1>1, <2>2, <3>1, <3>2
  <2>3. QED
    BY <2>1, <2>2
<1>4. QED
  BY <1>1, <1>3 DEF UnitsOf

LEMMA FramePiece ==
  ASSUME NEW n \in Nat, NEW a \in Nat, NEW k \in Nat, a + k <= Body + 1
  PROVE  /\ SubSeq(Frame(n), a + 1, a + k) \in Seq(FrameUnit)
         /\ Len(SubSeq(Frame(n), a + 1, a + k)) = k
         /\ UnitsOf(SubSeq(Frame(n), a + 1, a + k), n, a)
<1>1. ASSUME NEW j \in a + 1 .. a + k
      PROVE  Frame(n)[j] = [of |-> n, at |-> j] /\ Frame(n)[j] \in FrameUnit
  <2>1. j \in 1 .. Body + 1 /\ j \in Nat
    BY FrameConstants
  <2>2. QED
    BY <2>1 DEF Frame, FrameUnit
<1>2. /\ SubSeq(Frame(n), a + 1, a + k) \in Seq(FrameUnit)
      /\ Len(SubSeq(Frame(n), a + 1, a + k)) =
           IF a + 1 <= a + k THEN a + k - (a + 1) + 1 ELSE 0
      /\ \A j \in 1 .. a + k - (a + 1) + 1 :
           SubSeq(Frame(n), a + 1, a + k)[j] = Frame(n)[a + 1 + j - 1]
  <2>1. a + 1 \in Int /\ a + k \in Int
    OBVIOUS
  <2>2. \A j \in a + 1 .. a + k : Frame(n)[j] \in FrameUnit
    BY <1>1
  <2>3. QED
    BY <2>1, <2>2, SubSeqProperties
<1>3. Len(SubSeq(Frame(n), a + 1, a + k)) = k
  BY <1>2
<1>4. ASSUME NEW j \in 1 .. k
      PROVE  SubSeq(Frame(n), a + 1, a + k)[j] = [of |-> n, at |-> a + j]
  <2>1. j \in 1 .. a + k - (a + 1) + 1 /\ a + 1 + j - 1 = a + j /\ a + j \in a + 1 .. a + k
    OBVIOUS
  <2>2. QED
    BY <1>1, <1>2, <2>1
<1>5. QED
  BY <1>2, <1>3, <1>4 DEF UnitsOf

\* A write at an end leaves the function what it was there.
LEMMA SameAt ==
  ASSUME NEW S, NEW f \in [Ends -> S], NEW e \in Ends
  PROVE  [f EXCEPT ![e] = f[e]] = f
OBVIOUS

-----------------------------------------------------------------------------
\* The end of an exchange, of a frame or of the connection, as seen by the
\* thread: it fails, and has nothing.
LEMMA FailsParts ==
  ASSUME FrameParts, NEW e \in Ends, NEW why, Fails(e, why),
         kernel' = [kernel EXCEPT ![e] = Idle], UNCHANGED <<late, stopping, asked>>
  PROVE  FrameParts'
<1>1. /\ task' = [task EXCEPT ![e] = Rest] /\ op' = [op EXCEPT ![e] = NoOp]
      /\ \/ e = "client" /\ desynced' \in BOOLEAN /\ UNCHANGED <<stream, open>>
         \/ /\ e = "plugin" /\ open' = open \ {"plugin"} /\ UNCHANGED desynced
            /\ stream' = [stream EXCEPT !["client"] = <<>>]
  BY TwoEnds DEF Fails
<1>2. EndFits(Rest, NoOp, Idle)
  BY FrameRecords, FinishedFits DEF Transfers
<1>3. /\ late' \in [Ends -> BOOLEAN] /\ stopping' \in BOOLEAN /\ desynced' \in BOOLEAN
      /\ asked' \in asked .. MaxRequests /\ Rest.no <= asked'
  <2>1. desynced' \in BOOLEAN /\ stopping' \in BOOLEAN /\ late' \in [Ends -> BOOLEAN]
    BY <1>1 DEF FrameParts
  <2>2. QED
    BY <2>1, FrameRecords, FrameConstants DEF FrameParts
<1>4. stream' \in [Ends -> Seq(FrameUnit)] /\ \A f \in Ends : Len(stream'[f]) <= Room
  <2>1. <<>> \in Seq(FrameUnit) /\ Len(<<>>) = 0
    OBVIOUS
  <2>2. stream \in [Ends -> Seq(FrameUnit)] /\ \A f \in Ends : Len(stream[f]) <= Room
    BY DEF FrameParts
  <2>3. CASE UNCHANGED stream
    BY <2>2, <2>3
  <2>4. CASE stream' = [stream EXCEPT !["client"] = <<>>]
    <3>1. stream' \in [Ends -> Seq(FrameUnit)]
      BY <2>1, <2>2, <2>4
    <3>2. ASSUME NEW f \in Ends PROVE Len(stream'[f]) <= Room
      <4>1. stream'[f] = <<>> \/ stream'[f] = stream[f]
        BY <2>2, <2>4
      <4>2. QED
        BY <2>1, <2>2, <4>1, FrameConstants
    <3>3. QED
      BY <3>1, <3>2
  <2>5. QED
    BY <1>1, <2>3, <2>4
<1>5. open' \subseteq open /\ \A f \in Ends : f # e /\ f \in open => f \in open'
  BY <1>1
<1>6. QED
  BY <1>1, <1>2, <1>3, <1>4, <1>5, FrameRecords, OneEnd

\* A thread that begins a transfer.
LEMMA BeginsParts ==
  ASSUME FrameParts, NEW e \in Ends, e \in open, ~Transfers(task[e]),
         NEW t \in {Reads} \cup {Writes(n) : n \in 0 .. asked'}, Begins(e, t, FALSE),
         asked' \in asked .. MaxRequests,
         UNCHANGED <<stream, open, kernel, stopping, desynced>>
  PROVE  FrameParts'
<1>1. asked \in Nat /\ asked' \in Nat /\ asked <= asked'
  BY FrameConstants DEF FrameParts
<1>2. /\ t \in Tasks /\ Transfers(t) /\ t.whole = <<>> /\ t.part = <<>> /\ t.no <= asked'
      /\ t.does # "execute"
  <2>1. CASE t = Reads
    BY <1>1, <2>1, FrameRecords DEF Transfers
  <2>2. CASE \E n \in 0 .. asked' : t = Writes(n)
    BY <1>1, <2>2, FrameRecords DEF Transfers
  <2>3. QED
    BY <2>1, <2>2
<1>3. EndFits(t, FreshOp, Idle)
  <2>1. Len(t.whole) <= Body
    BY <1>2, FrameConstants
  <2>2. QED
    BY <1>2, <2>1, BeginningFits
<1>4. kernel[e] = Idle /\ kernel' = [kernel EXCEPT ![e] = Idle]
  <2>1. kernel[e] = Idle
    BY EndOf DEF EndFits
  <2>2. QED
    BY <2>1, SameAt DEF FrameParts
<1>5. late' \in [Ends -> BOOLEAN] /\ stopping' \in BOOLEAN /\ desynced' \in BOOLEAN
  BY DEF Begins, FrameParts
<1>6. task' = [task EXCEPT ![e] = t] /\ op' = [op EXCEPT ![e] = FreshOp]
  BY DEF Begins
<1>7. stream' \in [Ends -> Seq(FrameUnit)] /\ \A f \in Ends : Len(stream'[f]) <= Room
  BY DEF FrameParts
<1>8. QED
  BY <1>2, <1>3, <1>4, <1>5, <1>6, <1>7, FrameRecords, OneEnd

\* The kernel's part in it: the transfer is under way, and what it has moved is
\* no more than was wanted.
LEMMA KernelParts ==
  ASSUME FrameParts, NEW e \in Ends, kernel[e].st = "queued", NEW k \in KernelOps,
         kernel' = [kernel EXCEPT ![e] = k], k.st # "none",
         k.st # "done" => k.moved = <<>>,
         Len(k.moved) <= Wanted(e),
         stream' \in [Ends -> Seq(FrameUnit)], \A f \in Ends : Len(stream'[f]) <= Room,
         UNCHANGED <<open, task, op, late, stopping, desynced, asked>>
  PROVE  FrameParts'
<1>1. /\ task' = [task EXCEPT ![e] = task[e]] /\ op' = [op EXCEPT ![e] = op[e]]
      /\ task[e] \in Tasks /\ op[e] \in Ops
  BY SameAt DEF FrameParts
<1>2. /\ EndFits(task[e], op[e], kernel[e]) /\ task[e].no <= asked
      /\ task[e].does # "rest" => e \in open
      /\ task[e].does = "execute" => e # "client"
      /\ Len(task[e].part) \in Nat /\ Len(task[e].whole) \in Nat
  BY EndOf DEF FrameParts
<1>3. Transfers(task[e]) /\ op[e].at # "ready"
  BY <1>2, FrameRecords DEF EndFits
<1>4. Len(task[e].part) + Len(k.moved) <= TakeOf(task[e])
  <2>1. Wanted(e) = TakeOf(task[e]) - Len(task[e].part)
    BY TakeIsTakeOf DEF Wanted
  <2>2. TakeOf(task[e]) \in Nat
    BY <1>1, <1>2, <1>3, TakeFits DEF EndFits
  <2>3. Len(k.moved) \in Nat
    BY DEF KernelOps
  <2>4. Len(k.moved) <= TakeOf(task[e]) - Len(task[e].part)
    BY <2>1
  <2>5. ASSUME NEW x \in Nat, NEW y \in Nat, NEW z \in Nat, x <= y - z PROVE z + x <= y
    BY <2>5
  <2>6. QED
    BY <1>2, <2>2, <2>3, <2>4, <2>5
<1>5. EndFits(task[e], op[e], k)
  BY <1>2, <1>3, <1>4 DEF EndFits
<1>6. asked' \in asked .. MaxRequests
  BY FrameConstants DEF FrameParts
<1>7. late' \in [Ends -> BOOLEAN] /\ stopping' \in BOOLEAN /\ desynced' \in BOOLEAN
  BY DEF FrameParts
<1>8. QED
  BY <1>1, <1>2, <1>5, <1>6, <1>7, OneEnd

-----------------------------------------------------------------------------
\* The units an end has moved of the frame it transfers, and those on their way
\* to it of the frame it reads.
Passed(e) == Len(task[e].whole) + Len(task[e].part) + Len(kernel[e].moved)
Got(e) == IF task[e].does = "read" THEN Passed(e) ELSE 0
Due(e) == Got(e) + Len(stream[e])

\* What a reader holds is the beginning of frame `asked', and what is on the way
\* to it goes on from there.
HeldFits(e) ==
  task[e].does = "read" =>
    /\ UnitsOf(task[e].whole, asked, 0)
    /\ UnitsOf(task[e].part, asked, Len(task[e].whole))
    /\ UnitsOf(kernel[e].moved, asked, Len(task[e].whole) + Len(task[e].part))
StreamFits(e) == UnitsOf(stream[e], asked, Got(e)) /\ Due(e) <= Body + 1

\* The result as TakesResult sees it.
PartNow(e) == task[e].part \o kernel[e].moved
WholeNow(e) == task[e].whole \o PartNow(e)

LEMMA ResultLengths ==
  ASSUME FrameParts, NEW e \in Ends, Transfers(task[e])
  PROVE  /\ PartNow(e) \in Seq(FrameUnit) /\ WholeNow(e) \in Seq(FrameUnit)
         /\ Len(PartNow(e)) = Len(task[e].part) + Len(kernel[e].moved)
         /\ Len(WholeNow(e)) = Len(task[e].whole) + Len(PartNow(e))
         /\ Len(WholeNow(e)) = Passed(e) /\ Passed(e) \in Nat /\ Passed(e) <= Body + 1
         /\ Len(PartNow(e)) \in Nat
         /\ Len(PartNow(e)) <= TakeOf(task[e]) /\ Take(e) = TakeOf(task[e])
         /\ TakeOf(task[e]) \in Nat
         /\ Len(task[e].whole) + TakeOf(task[e]) <= Body + 1
         /\ task[e].does = "write" =>
              TakeOf(task[e]) = Body + 1 /\ task[e].whole = <<>> /\ Len(task[e].whole) = 0
<1>1. /\ task[e] \in Tasks /\ EndFits(task[e], op[e], kernel[e])
      /\ task[e].whole \in Seq(FrameUnit) /\ task[e].part \in Seq(FrameUnit)
      /\ kernel[e].moved \in Seq(FrameUnit)
  BY EndOf
<1>2. /\ Len(task[e].whole) \in Nat /\ Len(task[e].part) \in Nat
      /\ Len(kernel[e].moved) \in Nat
  BY EndOf
<1>3. /\ Len(task[e].whole) <= Body /\ (task[e].does = "write" => task[e].whole = <<>>)
      /\ Len(task[e].part) + Len(kernel[e].moved) <= TakeOf(task[e])
  BY <1>1 DEF EndFits
<1>4. /\ TakeOf(task[e]) \in Nat
      /\ Len(task[e].whole) + TakeOf(task[e]) <= Body + 1
      /\ task[e].does = "write" => TakeOf(task[e]) = Body + 1
  BY <1>1, <1>3, TakeFits
<1>5. /\ PartNow(e) \in Seq(FrameUnit)
      /\ Len(PartNow(e)) = Len(task[e].part) + Len(kernel[e].moved)
  BY <1>1, JoinUnits DEF PartNow
<1>6. /\ WholeNow(e) \in Seq(FrameUnit)
      /\ Len(WholeNow(e)) = Len(task[e].whole) + Len(PartNow(e))
  BY <1>1, <1>5, JoinUnits DEF WholeNow
<1>7. Len(WholeNow(e)) = Passed(e) /\ Passed(e) \in Nat
  <2>1. ASSUME NEW w \in Nat, NEW p \in Nat, NEW m \in Nat
        PROVE  w + (p + m) = w + p + m /\ w + p + m \in Nat
    OBVIOUS
  <2>2. Len(WholeNow(e)) = Len(task[e].whole) + (Len(task[e].part) + Len(kernel[e].moved))
    BY <1>5, <1>6
  <2>3. QED
    BY <1>2, <2>1, <2>2 DEF Passed
<1>8. ASSUME NEW w \in Nat, NEW p \in Nat, NEW m \in Nat, NEW k \in Nat,
             p + m <= k, w + k <= Body + 1
      PROVE  w + p + m <= Body + 1
  BY <1>8, FrameConstants
<1>9. Passed(e) <= Body + 1
  BY <1>2, <1>3, <1>4, <1>8 DEF Passed
<1>10. task[e].whole = <<>> => Len(task[e].whole) = 0
  OBVIOUS
<1>11. Len(PartNow(e)) \in Nat /\ Len(PartNow(e)) <= TakeOf(task[e])
  <2>1. Len(PartNow(e)) \in Nat
    BY <1>5, LenProperties
  <2>2. Len(PartNow(e)) <= TakeOf(task[e])
    BY <1>3, <1>5
  <2>3. QED
    BY <2>1, <2>2
<1>12. Take(e) = TakeOf(task[e])
  BY TakeIsTakeOf
<1>13. task[e].does = "write" =>
         TakeOf(task[e]) = Body + 1 /\ task[e].whole = <<>> /\ Len(task[e].whole) = 0
  BY <1>3, <1>4, <1>10
<1>14. TakeOf(task[e]) \in Nat /\ Len(task[e].whole) + TakeOf(task[e]) <= Body + 1
  BY <1>4
<1>15. QED
  BY <1>5, <1>6, <1>7, <1>9, <1>11, <1>12, <1>13, <1>14

\* What was read so far, put together, is the beginning of the frame.
LEMMA ResultUnits ==
  ASSUME FrameParts, NEW e \in Ends, task[e].does = "read", HeldFits(e)
  PROVE  /\ UnitsOf(WholeNow(e), asked, 0)
         /\ UnitsOf(PartNow(e), asked, Len(task[e].whole))
         /\ Len(WholeNow(e)) = Body + 1 => WholeNow(e)[1].of = asked
<1>1. /\ task[e].whole \in Seq(FrameUnit) /\ task[e].part \in Seq(FrameUnit)
      /\ kernel[e].moved \in Seq(FrameUnit) /\ asked \in Nat
      /\ Len(task[e].whole) \in Nat /\ Len(task[e].part) \in Nat
  BY EndOf
<1>2. PartNow(e) \in Seq(FrameUnit) /\ WholeNow(e) \in Seq(FrameUnit)
  BY ResultLengths DEF Transfers
<1>3. UnitsOf(PartNow(e), asked, Len(task[e].whole))
  BY <1>1, JoinUnits DEF HeldFits, PartNow
<1>4. UnitsOf(WholeNow(e), asked, 0)
  <2>1. 0 \in Nat /\ 0 + Len(task[e].whole) = Len(task[e].whole)
    BY <1>1
  <2>2. QED
    BY <1>1, <1>2, <1>3, <2>1, JoinUnits DEF HeldFits, WholeNow
<1>5. Len(WholeNow(e)) = Body + 1 => WholeNow(e)[1].of = asked
  <2>1. Len(WholeNow(e)) = Body + 1 => 1 \in 1 .. Len(WholeNow(e))
    BY FrameConstants
  <2>2. Len(WholeNow(e)) = Body + 1 => WholeNow(e)[1] = [of |-> asked, at |-> 0 + 1]
    BY <1>4, <2>1 DEF UnitsOf
  <2>3. QED
    BY <2>2
<1>6. QED
  BY <1>3, <1>4, <1>5

\* The three ends of TakesResult.
TakesMore(e) ==
  /\ Len(PartNow(e)) < TakeOf(task[e])
  /\ task' = [task EXCEPT ![e] = [task[e] EXCEPT !.part = PartNow(e)]]
  /\ op' = [op EXCEPT ![e] = [op[e] EXCEPT !.pending = FALSE, !.at = "ready"]]
  /\ UNCHANGED desynced
Feeds(e) ==
  /\ task[e].does = "read" /\ Len(WholeNow(e)) < Body + 1
  /\ task' = [task EXCEPT ![e] = [task[e] EXCEPT !.whole = WholeNow(e), !.part = <<>>]]
  /\ op' = [op EXCEPT ![e] = FreshOp]
  /\ UNCHANGED desynced
HasFrame(e) == Len(WholeNow(e)) = Body + 1 /\ FrameEnds(e, WholeNow(e))

LEMMA TakesResultCases ==
  ASSUME FrameParts, NEW e \in Ends, TakesResult(e)
  PROVE  /\ Transfers(task[e]) /\ op[e].at = "waiting" /\ kernel[e].st = "done"
         /\ kernel' = [kernel EXCEPT ![e] = Idle]
         /\ UNCHANGED <<stream, open, late, stopping, asked>>
         /\ TakesMore(e) \/ Feeds(e) \/ HasFrame(e)
<1>1. /\ Transfers(task[e]) /\ op[e].at = "waiting" /\ kernel[e].st = "done"
      /\ kernel' = [kernel EXCEPT ![e] = Idle]
      /\ UNCHANGED <<stream, open, late, stopping, asked>>
  BY DEF TakesResult, InTransfer, Transfers
<1>2. /\ Len(PartNow(e)) <= TakeOf(task[e]) /\ Take(e) = TakeOf(task[e])
      /\ TakeOf(task[e]) \in Nat /\ Len(PartNow(e)) \in Nat
      /\ Len(WholeNow(e)) \in Nat /\ Len(WholeNow(e)) <= Body + 1
      /\ Len(WholeNow(e)) = Len(task[e].whole) + Len(PartNow(e))
      /\ task[e].does = "write" => TakeOf(task[e]) = Body + 1 /\ Len(task[e].whole) = 0
  BY <1>1, ResultLengths
<1>3. CASE Len(PartNow(e)) < Take(e)
  <2>1. /\ task' = [task EXCEPT ![e].part = PartNow(e)]
        /\ op' = [op EXCEPT ![e].pending = FALSE, ![e].at = "ready"]
        /\ UNCHANGED desynced
    BY <1>3 DEF TakesResult, PartNow
  <2>2. op' = [op EXCEPT ![e] = [op[e] EXCEPT !.pending = FALSE, !.at = "ready"]]
    BY <2>1 DEF FrameParts
  <2>3. QED
    BY <1>1, <1>2, <1>3, <2>1, <2>2 DEF TakesMore
<1>4. CASE ~(Len(PartNow(e)) < Take(e)) /\ Len(WholeNow(e)) < Body + 1
  <2>1. /\ task' = [task EXCEPT ![e].whole = WholeNow(e), ![e].part = <<>>]
        /\ op' = [op EXCEPT ![e] = FreshOp] /\ UNCHANGED desynced
    BY <1>4 DEF TakesResult, PartNow, WholeNow
  <2>2. task' = [task EXCEPT ![e] = [task[e] EXCEPT !.whole = WholeNow(e), !.part = <<>>]]
    BY <2>1 DEF FrameParts
  <2>3. task[e].does = "read"
    BY <1>1, <1>2, <1>4, FrameConstants DEF Transfers
  <2>4. QED
    BY <1>1, <1>4, <2>1, <2>2, <2>3 DEF Feeds
<1>5. CASE ~(Len(PartNow(e)) < Take(e)) /\ ~(Len(WholeNow(e)) < Body + 1)
  <2>1. FrameEnds(e, WholeNow(e))
    BY <1>5 DEF TakesResult, PartNow, WholeNow
  <2>2. Len(WholeNow(e)) = Body + 1
    BY <1>2, <1>5, FrameConstants
  <2>3. QED
    BY <1>1, <2>1, <2>2 DEF HasFrame
<1>6. QED
  BY <1>3, <1>4, <1>5

LEMMA TakesResultParts ==
  ASSUME FrameParts, NEW e \in Ends, HeldFits(e), TakesResult(e)
  PROVE  FrameParts'
<1>1. /\ Transfers(task[e]) /\ op[e].at = "waiting" /\ kernel[e].st = "done"
      /\ kernel' = [kernel EXCEPT ![e] = Idle]
      /\ UNCHANGED <<stream, open, late, stopping, asked>>
      /\ TakesMore(e) \/ Feeds(e) \/ HasFrame(e)
  BY TakesResultCases
<1>2. /\ task[e] \in Tasks /\ op[e] \in Ops /\ EndFits(task[e], op[e], kernel[e])
      /\ task[e].no \in Nat /\ task[e].no <= asked /\ asked \in Nat
      /\ task[e].does # "rest" => e \in open
      /\ task[e].does = "execute" => e # "client"
  BY EndOf DEF FrameParts
<1>3. e \in open
  BY <1>1, <1>2 DEF Transfers
<1>4. /\ late' \in [Ends -> BOOLEAN] /\ stopping' \in BOOLEAN /\ asked' \in asked .. MaxRequests
      /\ stream' \in [Ends -> Seq(FrameUnit)] /\ \A f \in Ends : Len(stream'[f]) <= Room
  <2>1. late' \in [Ends -> BOOLEAN] /\ stopping' \in BOOLEAN
    BY <1>1 DEF FrameParts
  <2>2. QED
    BY <1>1, <2>1, FrameConstants DEF FrameParts
<1>5. /\ PartNow(e) \in Seq(FrameUnit) /\ WholeNow(e) \in Seq(FrameUnit)
      /\ Len(PartNow(e)) \in Nat /\ Len(WholeNow(e)) \in Nat
      /\ Len(task[e].whole) <= Body /\ (task[e].does = "write" => task[e].whole = <<>>)
  BY <1>1, <1>2, ResultLengths DEF EndFits
<1>6. ASSUME NEW t \in Tasks, NEW o \in Ops, EndFits(t, o, Idle), t.no <= asked,
             t.does = "execute" => e = "plugin",
             task' = [task EXCEPT ![e] = t], op' = [op EXCEPT ![e] = o],
             desynced' \in BOOLEAN
      PROVE  FrameParts'
  BY <1>1, <1>3, <1>4, <1>6, FrameRecords, TwoEnds, OneEnd
<1>7. CASE TakesMore(e)
  <2>1. DEFINE t == [task[e] EXCEPT !.part = PartNow(e)]
               o == [op[e] EXCEPT !.pending = FALSE, !.at = "ready"]
  <2>2. /\ t \in Tasks /\ t.does = task[e].does /\ t.whole = task[e].whole
        /\ t.part = PartNow(e) /\ t.no = task[e].no
    BY <1>2, <1>5 DEF Tasks
  <2>3. o \in Ops /\ o.held = op[e].held /\ o.at = "ready"
    BY <1>2 DEF Ops
  <2>4. TakeOf(t) = TakeOf(task[e])
    BY <2>2 DEF TakeOf
  <2> HIDE DEF t, o
  <2>5. Len(t.part) + Len(Idle.moved) <= TakeOf(t) /\ Len(t.part) < TakeOf(t)
    <3>1. Len(Idle.moved) = 0 /\ Len(t.part) < TakeOf(t) /\ Len(t.part) \in Nat
      BY <1>5, <1>7, <2>2, <2>4, FrameRecords DEF TakesMore
    <3>2. TakeOf(t) \in Nat
      BY <1>1, <2>4, ResultLengths
    <3>3. QED
      BY <3>1, <3>2
  <2>6. op[e].held
    BY <1>1, <1>2 DEF EndFits
  <2>7. EndFits(t, o, Idle)
    BY <1>1, <1>5, <2>2, <2>3, <2>5, <2>6, FrameRecords DEF EndFits, Transfers
  <2>8. task' = [task EXCEPT ![e] = t] /\ op' = [op EXCEPT ![e] = o] /\ desynced' \in BOOLEAN
    BY <1>7 DEF TakesMore, t, o, FrameParts
  <2>9. t.does # "execute" /\ t.no <= asked
    BY <1>1, <1>2, <2>2 DEF Transfers
  <2>10. QED
    BY <1>6, <2>2, <2>3, <2>7, <2>8, <2>9
<1>8. CASE Feeds(e)
  <2>1. DEFINE t == [task[e] EXCEPT !.whole = WholeNow(e), !.part = <<>>]
  <2>2. <<>> \in Seq(FrameUnit)
    OBVIOUS
  <2>3. /\ t \in Tasks /\ t.does = "read" /\ t.whole = WholeNow(e)
        /\ t.part = <<>> /\ t.no = task[e].no
    BY <1>2, <1>5, <1>8, <2>2 DEF Tasks, Feeds
  <2>4. Len(WholeNow(e)) <= Body
    BY <1>5, <1>8, FrameConstants DEF Feeds
  <2>5. task' = [task EXCEPT ![e] = t] /\ op' = [op EXCEPT ![e] = FreshOp]
        /\ desynced' \in BOOLEAN
    BY <1>8 DEF Feeds, FrameParts
  <2> HIDE DEF t
  <2>6. EndFits(t, FreshOp, Idle)
    BY <2>3, <2>4, BeginningFits DEF Transfers
  <2>7. QED
    BY <1>2, <1>6, <2>3, <2>5, <2>6, FrameRecords
<1>9. CASE HasFrame(e)
  <2>1. EndFits(Rest, NoOp, Idle) /\ EndFits(Reads, FreshOp, Idle) /\ Rest.no <= asked
        /\ Reads.no <= asked
    <3>1. Len(Reads.whole) <= Body
      BY FrameRecords, FrameConstants
    <3>2. QED
      BY <1>2, <3>1, FrameRecords, FinishedFits, BeginningFits DEF Transfers
  <2>2. desynced' \in BOOLEAN
    BY <1>9 DEF HasFrame, FrameEnds, FrameParts
  <2>3. CASE e = "plugin" /\ task[e].does = "write"
    <3>1. task' = [task EXCEPT ![e] = Rest] /\ op' = [op EXCEPT ![e] = NoOp]
      BY <1>9, <2>3 DEF HasFrame, FrameEnds
    <3>2. QED
      BY <1>6, <2>1, <2>2, <3>1, FrameRecords
  <2>4. CASE e = "plugin" /\ task[e].does # "write"
    <3>1. DEFINE t == [Rest EXCEPT !.does = "execute", !.no = WholeNow(e)[1].of]
    <3>2. task' = [task EXCEPT ![e] = t] /\ op' = [op EXCEPT ![e] = NoOp]
      BY <1>9, <2>4 DEF HasFrame, FrameEnds
    <3>3. WholeNow(e)[1].of = asked
      BY <1>1, <1>9, <2>4, ResultUnits DEF HasFrame, Transfers
    <3>4. /\ t \in Tasks /\ t.does = "execute" /\ t.no = asked
          /\ t.whole = <<>> /\ t.part = <<>>
      <4>1. t = Executes(asked)
        BY <3>3 DEF Executes
      <4> HIDE DEF t
      <4>2. QED
        BY <1>2, <4>1, FrameRecords
    <3> HIDE DEF t
    <3>5. EndFits(t, NoOp, Idle) /\ t.no <= asked
      BY <1>2, <3>4, FinishedFits DEF Transfers
    <3>6. QED
      BY <1>6, <2>2, <2>4, <3>2, <3>4, <3>5, FrameRecords
  <2>5. CASE e = "client" /\ task[e].does = "write"
    <3>1. task' = [task EXCEPT ![e] = Reads] /\ op' = [op EXCEPT ![e] = FreshOp]
      BY <1>9, <2>5 DEF HasFrame, FrameEnds
    <3>2. QED
      BY <1>6, <2>1, <2>2, <3>1, FrameRecords
  <2>6. CASE e = "client" /\ task[e].does # "write"
    <3>1. task' = [task EXCEPT ![e] = Rest] /\ op' = [op EXCEPT ![e] = NoOp]
      BY <1>9, <2>6 DEF HasFrame, FrameEnds
    <3>2. QED
      BY <1>6, <2>1, <2>2, <3>1, FrameRecords
  <2>7. QED
    BY <2>3, <2>4, <2>5, <2>6, TwoEnds
<1>10. QED
  BY <1>1, <1>7, <1>8, <1>9

-----------------------------------------------------------------------------
\* How far the client's request is out, and whose turn it is.
RequestOut == IF task["client"].does = "write" THEN Passed("client") ELSE Body + 1
Awaits == task["plugin"].does \in {"rest", "read"}
\* The plugin has nothing more to write.
Spoken == Awaits \/ (task["plugin"].does = "write" /\ Passed("plugin") = Body + 1)

\* The request is on its way: what the plugin can have of it is what is out.
Calls == Spoken /\ Due("client") = 0 /\ Due("plugin") = RequestOut
\* The plugin has it all, and what the client can have of the answer is what the
\* plugin has written of it.
Answering ==
  /\ Due("plugin") = 0 /\ RequestOut = Body + 1 /\ task["plugin"].no = asked
  /\ \/ task["plugin"].does = "execute" /\ Due("client") = 0
     \/ task["plugin"].does = "write" /\ Due("client") = Passed("plugin")
\* The answer is out, and the plugin waits for the next request.
Replied == Awaits /\ Due("plugin") = 0 /\ RequestOut = Body + 1 /\ Due("client") = Body + 1
\* Between two exchanges nothing is on its way.
Between == Spoken /\ Due("client") = 0 /\ Due("plugin") = 0
Turn == IF task["client"].does = "rest" THEN Between ELSE Calls \/ Answering \/ Replied

InTurn ==
  /\ \A e \in Ends : HeldFits(e)
  /\ task["client"].does # "rest" => ~desynced
  /\ task["client"].does = "write" => task["client"].no = asked
  /\ "plugin" \in open => StreamFits("plugin")
  /\ "plugin" \notin open => stream["client"] = <<>>
  /\ ~desynced => StreamFits("client")
  /\ ~desynced /\ "plugin" \in open => Turn

FrameInv == FrameParts /\ InTurn

\* The numbers are numbers.
LEMMA Numbers ==
  ASSUME FrameParts, NEW e \in Ends
  PROVE  /\ Passed(e) \in Nat /\ Got(e) \in Nat /\ Due(e) \in Nat /\ Len(stream[e]) \in Nat
         /\ Due(e) = Got(e) + Len(stream[e])
         /\ Passed(e) <= Body + 1
         /\ ~Transfers(task[e]) => Passed(e) = 0
         /\ task[e].does # "read" => Got(e) = 0
         /\ task[e].does = "read" => Got(e) = Passed(e)
         /\ Len(stream[e]) = 0 => stream[e] = <<>>
         /\ stream[e] = <<>> => Len(stream[e]) = 0
<1>1. /\ Len(task[e].whole) \in Nat /\ Len(task[e].part) \in Nat
      /\ Len(kernel[e].moved) \in Nat /\ Len(stream[e]) \in Nat /\ stream[e] \in Seq(FrameUnit)
      /\ EndFits(task[e], op[e], kernel[e])
  BY EndOf
<1>2. Passed(e) \in Nat
  <2>1. ASSUME NEW w \in Nat, NEW p \in Nat, NEW m \in Nat PROVE w + p + m \in Nat
    OBVIOUS
  <2>2. QED
    BY <1>1, <2>1 DEF Passed
<1>3. ~Transfers(task[e]) => Passed(e) = 0
  <2>1. ASSUME ~Transfers(task[e])
        PROVE  task[e].whole = <<>> /\ task[e].part = <<>> /\ kernel[e].moved = <<>>
    BY <1>1, <2>1, FrameRecords DEF EndFits
  <2>2. Len(<<>>) = 0 /\ 0 + 0 + 0 = 0
    OBVIOUS
  <2>3. ASSUME ~Transfers(task[e])
        PROVE  Len(task[e].whole) = 0 /\ Len(task[e].part) = 0 /\ Len(kernel[e].moved) = 0
    BY <2>1, <2>2, <2>3
  <2>4. QED
    BY <2>2, <2>3 DEF Passed
<1>4. Passed(e) <= Body + 1
  <2>1. CASE Transfers(task[e])
    BY <2>1, ResultLengths
  <2>2. CASE ~Transfers(task[e])
    BY <1>3, <2>2, FrameConstants
  <2>3. QED
    BY <2>1, <2>2
<1>5. Got(e) \in Nat /\ Due(e) \in Nat
  BY <1>1, <1>2 DEF Got, Due
<1>6. (Len(stream[e]) = 0 => stream[e] = <<>>) /\ (stream[e] = <<>> => Len(stream[e]) = 0)
  BY <1>1, EmptySeq
<1>7. QED
  BY <1>1, <1>2, <1>3, <1>4, <1>5, <1>6 DEF Got, Due

\* What is empty fits anywhere.
LEMMA NothingFits == \A n, a : UnitsOf(<<>>, n, a)
<1>1. Len(<<>>) = 0 /\ 1 .. 0 = {}
  OBVIOUS
<1>2. QED
  BY <1>1 DEF UnitsOf

\* An end that the step leaves alone.
LEMMA AloneEnd ==
  ASSUME NEW e \in Ends, task'[e] = task[e], kernel'[e] = kernel[e]
  PROVE  /\ Passed(e)' = Passed(e) /\ Got(e)' = Got(e)
         /\ asked' = asked => (HeldFits(e)' <=> HeldFits(e))
         /\ stream'[e] = stream[e] => Due(e)' = Due(e)
         /\ stream'[e] = stream[e] /\ asked' = asked => (StreamFits(e)' <=> StreamFits(e))
<1>1. Passed(e)' = Passed(e)
  BY DEF Passed
<1>2. Got(e)' = Got(e)
  BY <1>1 DEF Got
<1>3. stream'[e] = stream[e] => Due(e)' = Due(e)
  BY <1>2 DEF Due
<1>4. asked' = asked => (HeldFits(e)' <=> HeldFits(e))
  BY DEF HeldFits
<1>5. stream'[e] = stream[e] /\ asked' = asked => (StreamFits(e)' <=> StreamFits(e))
  BY <1>2, <1>3 DEF StreamFits
<1>6. QED
  BY <1>1, <1>2, <1>3, <1>4, <1>5

\* A step that changes nobody's turn.
LEMMA TurnKept ==
  ASSUME FrameParts, InTurn, \A e \in Ends : HeldFits(e)',
         \A e \in Ends : /\ task'[e].does = task[e].does /\ task'[e].no = task[e].no
                         /\ Due(e)' = Due(e)
                         /\ task[e].does = "write" => Passed(e)' = Passed(e)
                         /\ StreamFits(e) => StreamFits(e)',
         "plugin" \in open' <=> "plugin" \in open,
         "plugin" \notin open => stream'["client"] = <<>>,
         UNCHANGED <<desynced, asked>>
  PROVE  InTurn'
<1>1. RequestOut' = RequestOut
  BY TwoEnds DEF RequestOut
<1>2. Awaits' = Awaits /\ Spoken' = Spoken
  BY TwoEnds DEF Awaits, Spoken
<1>3. Calls' = Calls /\ Replied' = Replied /\ Between' = Between
  BY <1>1, <1>2, TwoEnds DEF Calls, Replied, Between
<1>4. Answering' = Answering
  BY <1>1, TwoEnds DEF Answering
<1>5. Turn' = Turn
  BY <1>3, <1>4, TwoEnds DEF Turn
<1>6. QED
  BY <1>5, TwoEnds DEF InTurn

\* As above, when the streams and what each end has moved stay the same.
LEMMA QuietStep ==
  ASSUME FrameParts, InTurn, \A e \in Ends : HeldFits(e)',
         \A e \in Ends : /\ task'[e].does = task[e].does /\ task'[e].no = task[e].no
                         /\ Passed(e)' = Passed(e),
         "plugin" \in open' <=> "plugin" \in open,
         UNCHANGED <<stream, desynced, asked>>
  PROVE  InTurn'
<1>1. ASSUME NEW e \in Ends
      PROVE  /\ Due(e)' = Due(e) /\ (StreamFits(e) => StreamFits(e)')
  <2>1. Got(e)' = Got(e)
    BY DEF Got
  <2>2. Due(e)' = Due(e)
    BY <2>1 DEF Due
  <2>3. QED
    BY <2>1, <2>2 DEF StreamFits
<1>2. "plugin" \notin open => stream'["client"] = <<>>
  BY DEF InTurn
<1>3. QED
  BY <1>1, <1>2, TurnKept

LEMMA InTurnInit == FrameInit => InTurn
<1> SUFFICES ASSUME FrameInit PROVE InTurn
  OBVIOUS
<1>1. FrameParts
  BY FramePartsInit
<1>2. \A e \in Ends : task[e] = Rest /\ kernel[e] = Idle /\ stream[e] = <<>>
  BY DEF FrameInit
<1>3. /\ \A e \in Ends : HeldFits(e) /\ Passed(e) = 0 /\ Got(e) = 0 /\ Due(e) = 0
      /\ task["client"].does = "rest" /\ task["plugin"].does = "rest"
  <2>1. \A e \in Ends : task[e].does = "rest" /\ ~Transfers(task[e])
    BY <1>2, FrameRecords DEF Transfers
  <2>2. \A e \in Ends : Passed(e) = 0 /\ Got(e) = 0 /\ Due(e) = 0
    BY <1>1, <1>2, <2>1, Numbers
  <2>3. QED
    BY <2>1, <2>2, TwoEnds DEF HeldFits
<1>4. \A e \in Ends : StreamFits(e)
  BY <1>2, <1>3, NothingFits, FrameConstants DEF StreamFits
<1>5. Turn
  BY <1>3, TwoEnds DEF Turn, Between, Spoken, Awaits
<1>6. QED
  BY <1>2, <1>3, <1>4, <1>5, TwoEnds DEF InTurn

-----------------------------------------------------------------------------
\* What the kernel has moved by the end of its step, and what that left.
LEMMA ReadsUnits ==
  ASSUME FrameParts, NEW e \in Ends, KernelReads(e)
  PROVE  \E u, r \in Seq(FrameUnit) :
           /\ Len(u) >= 1 /\ Len(u) <= Wanted(e) /\ Len(stream[e]) = Len(u) + Len(r)
           /\ \A j \in 1 .. Len(u) : u[j] = stream[e][j]
           /\ \A j \in 1 .. Len(r) : r[j] = stream[e][Len(u) + j]
           /\ kernel' = [kernel EXCEPT ![e] = [st |-> "done", moved |-> u]]
           /\ stream' = [stream EXCEPT ![e] = r]
<1>1. PICK k \in 1 .. Wanted(e) :
        /\ k <= Len(stream[e])
        /\ kernel' = [kernel EXCEPT ![e] = [st |-> "done", moved |-> SubSeq(stream[e], 1, k)]]
        /\ stream' = [stream EXCEPT ![e] = SubSeq(@, k + 1, Len(@))]
  BY DEF KernelReads
<1>2. stream[e] \in Seq(FrameUnit) /\ Len(stream[e]) \in Nat
  BY EndOf
<1>3. k \in 1 .. Len(stream[e]) /\ k \in Nat /\ k >= 1 /\ k <= Wanted(e)
  BY <1>1, <1>2
<1>4. DEFINE u == SubSeq(stream[e], 1, k)
             r == SubSeq(stream[e], k + 1, Len(stream[e]))
<1>5. /\ u \in Seq(FrameUnit) /\ Len(u) = k /\ \A j \in 1 .. k : u[j] = stream[e][j]
      /\ r \in Seq(FrameUnit) /\ Len(r) = Len(stream[e]) - k
      /\ \A j \in 1 .. Len(stream[e]) - k : r[j] = stream[e][k + j]
  BY <1>2, <1>3, CutUnits
<1>6. Len(stream[e]) = k + (Len(stream[e]) - k)
  BY <1>2, <1>3
<1>7. stream' = [stream EXCEPT ![e] = r]
  BY <1>1 DEF FrameParts
<1>8. kernel' = [kernel EXCEPT ![e] = [st |-> "done", moved |-> u]]
  BY <1>1
<1> HIDE DEF u, r
<1>9. QED
  BY <1>3, <1>5, <1>6, <1>7, <1>8

\* A writer with an operation queued: what it has moved, and what is left.
LEMMA WriterHas ==
  ASSUME FrameParts, NEW e \in Ends, task[e].does = "write", kernel[e].st = "queued"
  PROVE  /\ Passed(e) = Len(task[e].part) /\ Passed(e) \in Nat /\ Passed(e) < Body + 1
         /\ Wanted(e) = Body + 1 - Len(task[e].part)
         /\ e \in open /\ task[e].no \in Nat
         /\ Len(task[e].whole) = 0 /\ kernel[e].moved = <<>>
<1>1. /\ EndFits(task[e], op[e], kernel[e]) /\ task[e].no \in Nat
      /\ Len(task[e].part) \in Nat /\ (task[e].does # "rest" => e \in open)
  BY EndOf
<1>2. /\ task[e].whole = <<>> /\ kernel[e].moved = <<>> /\ Len(<<>>) = 0
      /\ Len(task[e].part) < TakeOf(task[e])
  BY <1>1 DEF EndFits, Transfers
<1>3. TakeOf(task[e]) = Body + 1 /\ Take(e) = TakeOf(task[e])
  BY TakeIsTakeOf DEF TakeOf
<1>4. Len(task[e].whole) = 0 /\ Len(kernel[e].moved) = 0
  BY <1>2
<1>5. ASSUME NEW p \in Nat PROVE 0 + p + 0 = p
  OBVIOUS
<1>6. Passed(e) = Len(task[e].part)
  BY <1>1, <1>4, <1>5 DEF Passed
<1>7. Len(task[e].part) < Body + 1
  BY <1>2, <1>3
<1>8. Wanted(e) = Body + 1 - Len(task[e].part)
  <2>1. Take(e) = Body + 1
    BY <1>3
  <2>2. Wanted(e) = Take(e) - Len(task[e].part)
    BY DEF Wanted
  <2>3. Len(task[e].part) \in Nat
    BY <1>1
  <2>4. QED
    BY <2>1, <2>2, <2>3, FrameConstants
<1>9. e \in open
  BY <1>1
<1>10. QED
  BY <1>1, <1>2, <1>4, <1>6, <1>7, <1>8, <1>9

LEMMA WritesUnits ==
  ASSUME FrameParts, NEW e \in Ends, KernelWrites(e)
  PROVE  \E u \in Seq(FrameUnit) :
           /\ Len(u) >= 1 /\ Len(u) <= Wanted(e) /\ Passed(e) + Len(u) <= Body + 1
           /\ UnitsOf(u, task[e].no, Passed(e))
           /\ stream[Peer(e)] \o u \in Seq(FrameUnit)
           /\ Len(stream[Peer(e)] \o u) = Len(stream[Peer(e)]) + Len(u)
           /\ Len(stream[Peer(e)] \o u) <= Room
           /\ kernel' = [kernel EXCEPT ![e] = [st |-> "done", moved |-> u]]
           /\ stream' = [stream EXCEPT ![Peer(e)] = stream[Peer(e)] \o u]
<1>1. PICK k \in 1 .. Wanted(e) :
        LET u == SubSeq(Frame(task[e].no), Len(task[e].part) + 1, Len(task[e].part) + k)
        IN /\ Len(stream[Peer(e)]) + k <= Room
           /\ kernel' = [kernel EXCEPT ![e] = [st |-> "done", moved |-> u]]
           /\ stream' = [stream EXCEPT ![Peer(e)] = @ \o u]
  BY DEF KernelWrites
<1>2. /\ Passed(e) = Len(task[e].part) /\ Passed(e) \in Nat
      /\ Wanted(e) = Body + 1 - Len(task[e].part) /\ task[e].no \in Nat
  BY WriterHas DEF KernelWrites
<1>3. k \in Nat /\ k >= 1 /\ k <= Wanted(e) /\ Len(task[e].part) + k <= Body + 1
  BY <1>2, FrameConstants
<1>4. DEFINE u == SubSeq(Frame(task[e].no), Len(task[e].part) + 1, Len(task[e].part) + k)
<1>5. u \in Seq(FrameUnit) /\ Len(u) = k /\ UnitsOf(u, task[e].no, Len(task[e].part))
  <2>1. Len(task[e].part) \in Nat /\ task[e].no \in Nat /\ k \in Nat
    BY <1>2, <1>3
  <2>2. Len(task[e].part) + k <= Body + 1
    BY <1>3
  <2>3. QED
    BY <2>1, <2>2, FramePiece, ZenonT(60)
<1>6. stream' = [stream EXCEPT ![Peer(e)] = stream[Peer(e)] \o u]
  BY <1>1, TwoEnds DEF FrameParts
<1>7. /\ kernel' = [kernel EXCEPT ![e] = [st |-> "done", moved |-> u]]
      /\ Len(stream[Peer(e)]) + k <= Room
  BY <1>1
<1> HIDE DEF u
<1>8. /\ stream[Peer(e)] \o u \in Seq(FrameUnit)
      /\ Len(stream[Peer(e)] \o u) = Len(stream[Peer(e)]) + Len(u)
  <2>1. stream[Peer(e)] \in Seq(FrameUnit)
    BY TwoEnds, EndOf
  <2>2. QED
    BY <1>5, <2>1, JoinUnits
<1>9. QED
  BY <1>2, <1>3, <1>5, <1>6, <1>7, <1>8

-----------------------------------------------------------------------------
\* Every step leaves the threads, their operations and the kernel in step.
LEMMA KernelKeepsParts ==
  ASSUME FrameParts, NEW e \in Ends, Kernel(e)
  PROVE  FrameParts'
<1>1. /\ kernel[e].st = "queued"
      /\ UNCHANGED <<open, task, op, late, stopping, desynced, asked>>
  BY DEF Kernel, KernelReads, KernelWrites, KernelFinds, KernelAborts
<1>2. /\ stream \in [Ends -> Seq(FrameUnit)] /\ \A f \in Ends : Len(stream[f]) <= Room
      /\ kernel \in [Ends -> KernelOps] /\ Len(stream[e]) \in Nat
  BY EndOf DEF FrameParts
<1>3. CASE KernelReads(e)
  <2>1. PICK u, r \in Seq(FrameUnit) :
          /\ Len(u) >= 1 /\ Len(u) <= Wanted(e) /\ Len(stream[e]) = Len(u) + Len(r)
          /\ kernel' = [kernel EXCEPT ![e] = [st |-> "done", moved |-> u]]
          /\ stream' = [stream EXCEPT ![e] = r]
    BY <1>3, ReadsUnits
  <2>2. DEFINE k == [st |-> "done", moved |-> u]
  <2>3. k \in KernelOps /\ k.st = "done" /\ k.moved = u
    BY DEF KernelOps
  <2> HIDE DEF k
  <2>4. Len(r) \in Nat /\ Len(u) \in Nat /\ Len(stream[e]) <= Room
    BY <1>2
  <2>5. Len(r) <= Room
    BY <2>1, <2>4, FrameConstants
  <2>6. stream' \in [Ends -> Seq(FrameUnit)] /\ \A f \in Ends : Len(stream'[f]) <= Room
    BY <1>2, <2>1, <2>5
  <2>7. kernel' = [kernel EXCEPT ![e] = k]
    BY <2>1 DEF k
  <2>8. QED
    BY <1>1, <2>1, <2>3, <2>6, <2>7, KernelParts
<1>4. CASE KernelWrites(e)
  <2>1. PICK u \in Seq(FrameUnit) :
          /\ Len(u) <= Wanted(e)
          /\ stream[Peer(e)] \o u \in Seq(FrameUnit)
          /\ Len(stream[Peer(e)] \o u) <= Room
          /\ kernel' = [kernel EXCEPT ![e] = [st |-> "done", moved |-> u]]
          /\ stream' = [stream EXCEPT ![Peer(e)] = stream[Peer(e)] \o u]
    BY <1>4, WritesUnits
  <2>2. DEFINE k == [st |-> "done", moved |-> u]
  <2>3. k \in KernelOps /\ k.st = "done" /\ k.moved = u
    BY DEF KernelOps
  <2>4. kernel' = [kernel EXCEPT ![e] = k]
    BY <2>1
  <2> HIDE DEF k
  <2>5. stream' \in [Ends -> Seq(FrameUnit)] /\ \A f \in Ends : Len(stream'[f]) <= Room
    BY <1>2, <2>1, TwoEnds
  <2>6. QED
    BY <1>1, <2>1, <2>3, <2>4, <2>5, KernelParts
<1>5. CASE KernelFinds(e) \/ KernelAborts(e)
  <2>1. PICK s \in {"broken", "aborted"} :
          kernel' = [kernel EXCEPT ![e].st = s] /\ UNCHANGED stream
    BY <1>5 DEF KernelFinds, KernelAborts
  <2>2. DEFINE k == [kernel[e] EXCEPT !.st = s]
  <2>3. kernel[e].moved = <<>> /\ kernel[e] \in KernelOps
    BY <1>1, EndOf DEF EndFits
  <2>4. k \in KernelOps /\ k.st = s /\ k.moved = <<>>
    BY <2>3 DEF KernelOps
  <2>5. kernel' = [kernel EXCEPT ![e] = k]
    BY <1>2, <2>1
  <2> HIDE DEF k
  <2>6. Len(k.moved) <= Wanted(e)
    <3>1. /\ EndFits(task[e], op[e], kernel[e]) /\ task[e] \in Tasks
          /\ Len(task[e].part) \in Nat /\ Transfers(task[e])
      BY <1>1, EndOf, FrameRecords DEF EndFits
    <3>2. Wanted(e) = TakeOf(task[e]) - Len(task[e].part)
      BY TakeIsTakeOf DEF Wanted
    <3>3. TakeOf(task[e]) \in Nat /\ Len(task[e].part) < TakeOf(task[e])
      BY <3>1, TakeFits DEF EndFits
    <3>4. Len(<<>>) = 0
      OBVIOUS
    <3>5. ASSUME NEW x \in Nat, NEW y \in Nat, y < x PROVE 0 <= x - y
      BY <3>5
    <3>6. QED
      BY <2>4, <3>1, <3>2, <3>3, <3>4, <3>5
  <2>7. QED
    BY <1>1, <1>2, <2>1, <2>4, <2>5, <2>6, KernelParts
<1>6. QED
  BY <1>3, <1>4, <1>5 DEF Kernel

\* GivesUp always finds its operation pending, so that nothing is let go of.
LEMMA GivesUpDrains ==
  ASSUME FrameParts, NEW e \in Ends, GivesUp(e)
  PROVE  /\ op' = [op EXCEPT ![e].at = "draining"] /\ op[e].pending /\ op[e].at = "waiting"
         /\ Transfers(task[e])
         /\ UNCHANGED <<stream, open, task, kernel, late, stopping, desynced, asked>>
<1>1. Transfers(task[e]) /\ op[e].at = "waiting"
  BY DEF GivesUp, InTransfer, Transfers
<1>2. op[e].pending
  BY <1>1, EndOf DEF EndFits
<1>3. QED
  BY <1>1, <1>2 DEF GivesUp

\* After a failure the kernel has nothing of the end either.
LEMMA FailsCases ==
  ASSUME FrameParts, NEW e \in Ends,
         RefusesToIssue(e) \/ FindsItBroken(e) \/ Drained(e)
  PROVE  \E why \in {"timeout", "broken"} :
           /\ Fails(e, why) /\ kernel' = [kernel EXCEPT ![e] = Idle]
           /\ UNCHANGED <<late, stopping, asked>>
<1>1. CASE RefusesToIssue(e)
  <2>1. kernel[e] = Idle
    BY <1>1, EndOf DEF EndFits, RefusesToIssue, InTransfer, Transfers
  <2>2. kernel' = [kernel EXCEPT ![e] = Idle]
    BY <1>1, <2>1, SameAt DEF RefusesToIssue, FrameParts
  <2>3. QED
    BY <1>1, <2>2 DEF RefusesToIssue
<1>2. CASE FindsItBroken(e)
  BY <1>2 DEF FindsItBroken
<1>3. CASE Drained(e)
  BY <1>3 DEF Drained
<1>4. QED
  BY <1>1, <1>2, <1>3

LEMMA TransferKeepsParts ==
  ASSUME FrameParts, NEW e \in Ends, HeldFits(e), Transfer(e)
  PROVE  FrameParts'
<1>1. CASE RefusesToIssue(e) \/ FindsItBroken(e) \/ Drained(e)
  BY <1>1, FailsCases, FailsParts
<1>2. CASE TakesResult(e)
  BY <1>2, TakesResultParts
<1>3. ASSUME NEW o \in Ops, NEW k \in KernelOps,
             op' = [op EXCEPT ![e] = o], kernel' = [kernel EXCEPT ![e] = k],
             EndFits(task[e], o, k),
             UNCHANGED <<stream, open, task, late, stopping, desynced, asked>>
      PROVE  FrameParts'
  <2>1. task' = [task EXCEPT ![e] = task[e]]
    BY <1>3, SameAt DEF FrameParts
  <2>2. /\ late' \in [Ends -> BOOLEAN] /\ stopping' \in BOOLEAN /\ desynced' \in BOOLEAN
        /\ stream' \in [Ends -> Seq(FrameUnit)] /\ \A f \in Ends : Len(stream'[f]) <= Room
    BY <1>3 DEF FrameParts
  <2>3. asked' \in asked .. MaxRequests
    BY <1>3, FrameConstants DEF FrameParts
  <2>4. task[e] \in Tasks /\ task[e].no <= asked' /\ (task[e].does # "rest" => e \in open')
        /\ (task[e].does = "execute" => e # "client")
    BY <1>3, EndOf DEF FrameParts
  <2>5. QED
    BY <1>3, <2>1, <2>2, <2>3, <2>4, OneEnd
<1>4. CASE Issue(e)
  <2>1. /\ Transfers(task[e]) /\ op[e].at = "ready"
        /\ op' = [op EXCEPT ![e].pending = TRUE, ![e].at = "waiting"]
        /\ kernel' = [kernel EXCEPT ![e] = [st |-> "queued", moved |-> <<>>]]
        /\ UNCHANGED <<stream, open, task, late, stopping, desynced, asked>>
    BY <1>4 DEF Issue, InTransfer, Transfers, Recorded
  <2>2. DEFINE o == [op[e] EXCEPT !.pending = TRUE, !.at = "waiting"]
               k == [st |-> "queued", moved |-> <<>>]
  <2>3. op[e] \in Ops /\ EndFits(task[e], op[e], kernel[e]) /\ kernel[e] = Idle
    BY <2>1, EndOf DEF EndFits
  <2>4. o \in Ops /\ o.held = op[e].held /\ o.pending /\ o.at = "waiting"
    BY <2>3 DEF Ops
  <2>5. k \in KernelOps /\ k.st = "queued" /\ k.moved = <<>>
    <3>1. <<>> \in Seq(FrameUnit)
      OBVIOUS
    <3>2. QED
      BY <3>1 DEF KernelOps
  <2>6. op' = [op EXCEPT ![e] = o] /\ kernel' = [kernel EXCEPT ![e] = k]
    BY <2>1 DEF FrameParts
  <2> HIDE DEF o, k
  <2>7. EndFits(task[e], o, k)
    BY <2>1, <2>3, <2>4, <2>5, FrameRecords DEF EndFits
  <2>8. QED
    BY <1>3, <2>1, <2>4, <2>5, <2>6, <2>7
<1>5. CASE GivesUp(e)
  <2>1. /\ op' = [op EXCEPT ![e].at = "draining"] /\ op[e].pending /\ op[e].at = "waiting"
        /\ Transfers(task[e])
        /\ UNCHANGED <<stream, open, task, kernel, late, stopping, desynced, asked>>
    BY <1>5, GivesUpDrains
  <2>2. DEFINE o == [op[e] EXCEPT !.at = "draining"]
  <2>3. op[e] \in Ops /\ EndFits(task[e], op[e], kernel[e]) /\ kernel[e] \in KernelOps
    BY EndOf
  <2>4. o \in Ops /\ o.held = op[e].held /\ o.pending /\ o.at = "draining"
    BY <2>1, <2>3 DEF Ops
  <2>5. op' = [op EXCEPT ![e] = o] /\ kernel' = [kernel EXCEPT ![e] = kernel[e]]
    BY <2>1, SameAt DEF FrameParts
  <2> HIDE DEF o
  <2>6. EndFits(task[e], o, kernel[e])
    BY <2>1, <2>3, <2>4 DEF EndFits
  <2>7. QED
    BY <1>3, <2>1, <2>3, <2>4, <2>5, <2>6
<1>6. QED
  BY <1>1, <1>2, <1>4, <1>5 DEF Transfer

LEMMA FrameStepKeepsParts ==
  ASSUME FrameInv, FrameNext
  PROVE  FrameParts'
<1>1. FrameParts /\ \A e \in Ends : HeldFits(e)
  BY DEF FrameInv, InTurn
<1>2. asked \in Nat /\ asked \in 0 .. MaxRequests /\ asked \in asked .. MaxRequests
  BY <1>1, FrameConstants DEF FrameParts
<1>3. CASE ClientAsks
  <2>1. /\ asked' = asked + 1 /\ asked < MaxRequests /\ "client" \in open
        /\ task["client"] = Rest /\ Begins("client", Writes(asked'), FALSE)
        /\ UNCHANGED <<stream, open, kernel, stopping, desynced>>
    BY <1>3 DEF ClientAsks
  <2>2. asked' \in asked .. MaxRequests /\ asked' \in 0 .. asked'
    BY <1>2, <2>1, FrameConstants
  <2>3. QED
    BY <1>1, <2>1, <2>2, TwoEnds, FrameRecords, BeginsParts DEF Transfers
<1>4. CASE PluginReads
  <2>1. /\ "plugin" \in open /\ task["plugin"] = Rest /\ Begins("plugin", Reads, FALSE)
        /\ UNCHANGED <<stream, open, kernel, stopping, desynced, asked>>
    BY <1>4 DEF PluginReads
  <2>2. QED
    BY <1>1, <1>2, <2>1, TwoEnds, FrameRecords, BeginsParts DEF Transfers
<1>5. CASE PluginAnswers
  <2>1. /\ task["plugin"].does = "execute"
        /\ Begins("plugin", Writes(task["plugin"].no), FALSE)
        /\ UNCHANGED <<stream, open, kernel, stopping, desynced, asked>>
    BY <1>5 DEF PluginAnswers
  <2>2. "plugin" \in open /\ task["plugin"].no \in 0 .. asked'
    BY <1>1, <1>2, <2>1, TwoEnds, EndOf
  <2>3. /\ Writes(task["plugin"].no) \in {Reads} \cup {Writes(n) : n \in 0 .. asked'}
        /\ ~Transfers(task["plugin"]) /\ asked' \in asked .. MaxRequests
    BY <1>2, <2>1, <2>2 DEF Transfers
  <2>4. QED
    BY <1>1, <2>1, <2>2, <2>3, TwoEnds, BeginsParts
<1>6. CASE ClientCloses
  <2>1. /\ open' = open \ {"client"} /\ task["client"].does = "rest"
        /\ UNCHANGED <<stream, task, op, kernel, late, stopping, desynced, asked>>
    BY <1>6, FrameRecords DEF ClientCloses
  <2>2. QED
    BY <1>1, <2>1, TwoEnds DEF FrameParts
<1>7. CASE StopSignalled
  BY <1>1, <1>7 DEF StopSignalled, FrameParts
<1>8. ASSUME NEW e \in Ends, DeadlinePasses(e)
      PROVE  FrameParts'
  <2>1. late' \in [Ends -> BOOLEAN]
    BY <1>1, <1>8 DEF DeadlinePasses, FrameParts
  <2>2. QED
    BY <1>1, <1>8, <2>1 DEF DeadlinePasses, FrameParts
<1>9. QED
  BY <1>1, <1>3, <1>4, <1>5, <1>6, <1>7, <1>8, KernelKeepsParts, TransferKeepsParts
     DEF FrameNext

-----------------------------------------------------------------------------
(* Every step leaves the turn with somebody.                               *)

\* Nobody's frame and nobody's stream changes.
LEMMA StillStep ==
  ASSUME FrameParts, InTurn, \A e \in Ends : kernel'[e].moved = kernel[e].moved,
         "plugin" \in open' <=> "plugin" \in open,
         UNCHANGED <<stream, task, desynced, asked>>
  PROVE  InTurn'
<1>1. ASSUME NEW e \in Ends
      PROVE  HeldFits(e)' /\ Passed(e)' = Passed(e)
             /\ task'[e].does = task[e].does /\ task'[e].no = task[e].no
  BY DEF HeldFits, Passed, InTurn
<1>2. QED
  BY <1>1, QuietStep

\* A reader in an exchange that has not lost its frames knows what is on the
\* way to it.
LEMMA ReaderFits ==
  ASSUME FrameParts, InTurn, NEW e \in Ends, task[e].does = "read"
  PROVE  StreamFits(e) /\ HeldFits(e) /\ e \in open
<1>1. e \in open
  BY EndOf
<1>2. QED
  BY <1>1, TwoEnds DEF InTurn

LEMMA KernelReadsKeepsTurn ==
  ASSUME FrameParts, InTurn, NEW e \in Ends, KernelReads(e)
  PROVE  InTurn'
<1>1. /\ kernel[e].st = "queued" /\ task[e].does = "read" /\ stream[e] # <<>>
      /\ UNCHANGED <<open, task, op, late, stopping, desynced, asked>>
  BY DEF KernelReads
<1>2. PICK u, r \in Seq(FrameUnit) :
        /\ Len(u) >= 1 /\ Len(stream[e]) = Len(u) + Len(r)
        /\ \A j \in 1 .. Len(u) : u[j] = stream[e][j]
        /\ \A j \in 1 .. Len(r) : r[j] = stream[e][Len(u) + j]
        /\ kernel' = [kernel EXCEPT ![e] = [st |-> "done", moved |-> u]]
        /\ stream' = [stream EXCEPT ![e] = r]
  BY ReadsUnits
<1>3. /\ kernel[e].moved = <<>> /\ Len(task[e].whole) \in Nat /\ Len(task[e].part) \in Nat
      /\ Len(<<>>) = 0 /\ asked \in Nat
  BY <1>1, EndOf DEF EndFits
<1>4. StreamFits(e) /\ HeldFits(e)
  BY <1>1, ReaderFits
<1>5. Got(e) = Len(task[e].whole) + Len(task[e].part)
  <2>1. ASSUME NEW w \in Nat, NEW p \in Nat PROVE w + p + 0 = w + p
    OBVIOUS
  <2>2. Got(e) = Len(task[e].whole) + Len(task[e].part) + 0
    BY <1>1, <1>3 DEF Got, Passed
  <2>3. QED
    BY <1>3, <2>1, <2>2
<1>6. /\ kernel'[e].moved = u /\ stream'[e] = r
      /\ \A f \in Ends : f # e => kernel'[f] = kernel[f] /\ stream'[f] = stream[f]
  BY <1>2 DEF FrameParts
<1>7. Len(u) \in Nat /\ Len(r) \in Nat /\ Got(e) \in Nat
  BY Numbers
<1>8. Got(e)' = Got(e) + Len(u)
  <2>1. Got(e)' = Len(task[e].whole) + Len(task[e].part) + Len(u)
    BY <1>1, <1>6 DEF Got, Passed
  <2>2. QED
    BY <1>5, <2>1
<1>9. Due(e)' = Due(e)
  <2>1. Due(e)' = Got(e)' + Len(r) /\ Due(e) = Got(e) + Len(stream[e])
    BY <1>6 DEF Due
  <2>2. ASSUME NEW g \in Nat, NEW a \in Nat, NEW b \in Nat PROVE (g + a) + b = g + (a + b)
    OBVIOUS
  <2>3. QED
    BY <1>2, <1>7, <1>8, <2>1, <2>2
<1>10. UnitsOf(u, asked, Got(e)) /\ UnitsOf(r, asked, Got(e)')
  <2>1. UnitsOf(stream[e], asked, Got(e))
    BY <1>4 DEF StreamFits
  <2>2. ASSUME NEW j \in 1 .. Len(u) PROVE u[j] = [of |-> asked, at |-> Got(e) + j]
    <3>1. j \in 1 .. Len(stream[e])
      BY <1>2, <1>7
    <3>2. QED
      BY <1>2, <2>1, <3>1 DEF UnitsOf
  <2>3. ASSUME NEW j \in 1 .. Len(r) PROVE r[j] = [of |-> asked, at |-> Got(e)' + j]
    <3>1. Len(u) + j \in 1 .. Len(stream[e]) /\ Got(e) + (Len(u) + j) = Got(e) + Len(u) + j
      BY <1>2, <1>7
    <3>2. r[j] = [of |-> asked, at |-> Got(e) + (Len(u) + j)]
      BY <1>2, <2>1, <3>1 DEF UnitsOf
    <3>3. QED
      BY <1>8, <3>1, <3>2
  <2>4. QED
    BY <2>2, <2>3 DEF UnitsOf
<1>11. HeldFits(e)' /\ StreamFits(e)'
  <2>1. HeldFits(e)'
    BY <1>1, <1>4, <1>5, <1>6, <1>10 DEF HeldFits
  <2>2. Due(e)' <= Body + 1
    BY <1>4, <1>9 DEF StreamFits
  <2>3. QED
    BY <1>1, <1>6, <1>10, <2>1, <2>2 DEF StreamFits
<1>12. ASSUME NEW f \in Ends, f # e
       PROVE  /\ HeldFits(f)' /\ Due(f)' = Due(f) /\ (StreamFits(f) => StreamFits(f)')
              /\ Passed(f)' = Passed(f)
  <2>1. task'[f] = task[f] /\ kernel'[f] = kernel[f] /\ stream'[f] = stream[f]
        /\ asked' = asked /\ HeldFits(f)
    BY <1>1, <1>6, <1>12 DEF InTurn
  <2>2. QED
    BY <2>1, AloneEnd
<1>13. "plugin" \notin open => stream'["client"] = <<>>
  BY <1>1, <1>6, TwoEnds DEF InTurn
<1>14. \A f \in Ends : HeldFits(f)'
  BY <1>11, <1>12
<1>15. ASSUME NEW f \in Ends
       PROVE  /\ task'[f].does = task[f].does /\ task'[f].no = task[f].no
              /\ Due(f)' = Due(f)
              /\ task[f].does = "write" => Passed(f)' = Passed(f)
              /\ StreamFits(f) => StreamFits(f)'
  BY <1>1, <1>9, <1>11, <1>12
<1>16. QED
  BY <1>1, <1>13, <1>14, <1>15, TurnKept

\* The reader at the other end goes on from what it has: the writer has moved
\* as much of the frame as the reader can have of it.
LEMMA AppendFits ==
  ASSUME FrameParts, NEW e \in Ends, StreamFits(e), NEW u \in Seq(FrameUnit),
         UnitsOf(u, asked, Due(e)), Due(e) + Len(u) <= Body + 1,
         stream'[e] = stream[e] \o u, task'[e] = task[e], kernel'[e] = kernel[e],
         asked' = asked
  PROVE  StreamFits(e)' /\ Due(e)' = Due(e) + Len(u)
<1>1. /\ stream[e] \in Seq(FrameUnit) /\ asked \in Nat /\ Got(e) \in Nat /\ Len(stream[e]) \in Nat
      /\ Due(e) = Got(e) + Len(stream[e]) /\ Len(u) \in Nat
  BY EndOf, Numbers
<1>2. Got(e)' = Got(e)
  BY AloneEnd
<1>3. /\ UnitsOf(stream[e] \o u, asked, Got(e))
      /\ Len(stream[e] \o u) = Len(stream[e]) + Len(u)
  BY <1>1, JoinUnits DEF StreamFits
<1>4. Due(e)' = Got(e) + (Len(stream[e]) + Len(u))
  BY <1>2, <1>3 DEF Due
<1>5. Due(e)' = Due(e) + Len(u)
  BY <1>1, <1>4
<1>6. UnitsOf(stream[e], asked, Got(e))'
  BY <1>2, <1>3
<1>7. QED
  BY <1>5, <1>6 DEF StreamFits

LEMMA KernelWritesKeepsTurn ==
  ASSUME FrameParts, InTurn, NEW e \in Ends, KernelWrites(e)
  PROVE  InTurn'
<1>1. /\ kernel[e].st = "queued" /\ task[e].does = "write" /\ Peer(e) \in open
      /\ UNCHANGED <<open, task, op, late, stopping, desynced, asked>>
  BY DEF KernelWrites
<1>2. PICK u \in Seq(FrameUnit) :
        /\ Len(u) >= 1 /\ Passed(e) + Len(u) <= Body + 1
        /\ UnitsOf(u, task[e].no, Passed(e))
        /\ kernel' = [kernel EXCEPT ![e] = [st |-> "done", moved |-> u]]
        /\ stream' = [stream EXCEPT ![Peer(e)] = stream[Peer(e)] \o u]
  BY WritesUnits
<1>3. /\ Passed(e) = Len(task[e].part) /\ Passed(e) \in Nat /\ Passed(e) < Body + 1
      /\ e \in open /\ task[e].no \in Nat /\ Len(task[e].whole) = 0
  BY <1>1, WriterHas
<1>4. /\ kernel'[e].moved = u /\ stream'[Peer(e)] = stream[Peer(e)] \o u
      /\ kernel'[Peer(e)] = kernel[Peer(e)] /\ stream'[e] = stream[e]
  BY <1>2, TwoEnds DEF FrameParts
<1>5. Passed(e)' = Passed(e) + Len(u)
  <2>1. Passed(e)' = 0 + Len(task[e].part) + Len(u)
    BY <1>1, <1>3, <1>4 DEF Passed
  <2>2. Len(u) \in Nat
    OBVIOUS
  <2>3. QED
    BY <1>3, <2>1, <2>2
<1>6. \A f \in Ends : HeldFits(f)'
  <2>1. HeldFits(e)'
    BY <1>1 DEF HeldFits
  <2>2. HeldFits(Peer(e))'
    BY <1>1, <1>4, AloneEnd, TwoEnds DEF InTurn
  <2>3. QED
    BY <2>1, <2>2, TwoEnds
<1>7. Got(e)' = 0 /\ Got(e) = 0 /\ Due(e)' = Due(e) /\ (StreamFits(e) => StreamFits(e)')
  <2>1. Got(e)' = 0 /\ Got(e) = 0
    BY <1>1 DEF Got
  <2>2. Due(e)' = Due(e)
    BY <1>4, <2>1 DEF Due
  <2>3. QED
    BY <1>1, <1>4, <2>1, <2>2 DEF StreamFits
<1>8. /\ Passed(Peer(e))' = Passed(Peer(e)) /\ Got(Peer(e))' = Got(Peer(e))
      /\ Due(Peer(e)) \in Nat
  BY <1>1, <1>4, AloneEnd, TwoEnds, Numbers
<1>9. CASE e = "client"
  <2>1. ~desynced /\ "plugin" \in open /\ Turn /\ task["client"].no = asked
        /\ StreamFits("plugin") /\ StreamFits("client")
    BY <1>1, <1>9, TwoEnds DEF InTurn
  <2>2. RequestOut = Passed("client") /\ RequestOut < Body + 1
    BY <1>1, <1>3, <1>9 DEF RequestOut
  <2>3. Calls
    <3>1. RequestOut # Body + 1
      BY <1>3, <2>2, FrameConstants
    <3>2. QED
      BY <1>1, <1>9, <2>1, <3>1 DEF Turn, Answering, Replied
  <2>4. Due("plugin") = Passed("client")
    BY <2>2, <2>3 DEF Calls
  <2>5. StreamFits("plugin")' /\ Due("plugin")' = Due("plugin") + Len(u)
    <3>1. UnitsOf(u, asked, Due("plugin")) /\ Due("plugin") + Len(u) <= Body + 1
      BY <1>2, <1>9, <2>1, <2>4
    <3>2. /\ stream'["plugin"] = stream["plugin"] \o u /\ kernel'["plugin"] = kernel["plugin"]
          /\ task'["plugin"] = task["plugin"] /\ asked' = asked /\ "plugin" \in Ends
      BY <1>1, <1>4, <1>9, TwoEnds
    <3>3. StreamFits("plugin")
      BY <2>1
    <3>4. QED
      BY <3>1, <3>2, <3>3, AppendFits
  <2>6. Calls'
    <3>1. RequestOut' = Passed("client")'
      BY <1>1, <1>9 DEF RequestOut
    <3>2. Due("plugin")' = RequestOut'
      BY <1>5, <1>9, <2>4, <2>5, <3>1
    <3>3. Spoken'
      BY <1>1, <1>8, <1>9, <2>3, TwoEnds DEF Calls, Spoken, Awaits
    <3>4. QED
      BY <1>7, <1>9, <2>3, <3>2, <3>3 DEF Calls
  <2>7. Turn'
    BY <1>1, <1>9, <2>6 DEF Turn
  <2>8. QED
    BY <1>1, <1>6, <1>7, <1>9, <2>1, <2>5, <2>7 DEF InTurn
<1>10. CASE e = "plugin"
  <2>1. "plugin" \in open /\ StreamFits("plugin")
    BY <1>3, <1>10 DEF InTurn
  <2>2. ASSUME ~desynced PROVE StreamFits("client")' /\ Turn'
    <3>1. Turn /\ StreamFits("client")
      BY <2>1, <2>2 DEF InTurn
    <3>2. ~Spoken /\ ~Awaits
      <4>1. Passed("plugin") # Body + 1
        BY <1>3, <1>10, FrameConstants
      <4>2. QED
        BY <1>1, <1>10, <4>1 DEF Spoken, Awaits
    <3>3. /\ Answering /\ task["client"].does # "rest"
      BY <3>1, <3>2 DEF Turn, Between, Calls, Replied
    <3>4. Due("client") = Passed("plugin") /\ task["plugin"].no = asked
      BY <1>1, <1>10, <3>3 DEF Answering
    <3>5. StreamFits("client")' /\ Due("client")' = Due("client") + Len(u)
      <4>1. UnitsOf(u, asked, Due("client")) /\ Due("client") + Len(u) <= Body + 1
        BY <1>2, <1>10, <3>1, <3>4
      <4>2. /\ stream'["client"] = stream["client"] \o u /\ kernel'["client"] = kernel["client"]
            /\ task'["client"] = task["client"] /\ asked' = asked /\ "client" \in Ends
        BY <1>1, <1>4, <1>10, TwoEnds
      <4>3. StreamFits("client")
        BY <3>1
      <4>4. QED
        BY <4>1, <4>2, <4>3, AppendFits
    <3>6. Due("client")' = Passed("plugin")'
      BY <1>5, <1>10, <3>4, <3>5
    <3>7. RequestOut' = RequestOut
      BY <1>1, <1>8, <1>10, TwoEnds DEF RequestOut
    <3>8. Answering'
      BY <1>1, <1>7, <1>10, <3>3, <3>6, <3>7 DEF Answering
    <3>9. QED
      BY <1>1, <3>3, <3>5, <3>8 DEF Turn
  <2>3. QED
    BY <1>1, <1>3, <1>6, <1>7, <1>10, <2>1, <2>2 DEF InTurn
<1>11. QED
  BY <1>9, <1>10, TwoEnds

LEMMA KernelKeepsTurn ==
  ASSUME FrameParts, InTurn, NEW e \in Ends, Kernel(e)
  PROVE  InTurn'
<1>1. CASE KernelReads(e)
  BY <1>1, KernelReadsKeepsTurn
<1>2. CASE KernelWrites(e)
  BY <1>2, KernelWritesKeepsTurn
<1>3. CASE KernelFinds(e) \/ KernelAborts(e)
  <2>1. /\ \E s \in {"broken", "aborted"} : kernel' = [kernel EXCEPT ![e].st = s]
        /\ UNCHANGED <<stream, open, task, desynced, asked>>
    BY <1>3 DEF KernelFinds, KernelAborts
  <2>2. \A f \in Ends : kernel'[f].moved = kernel[f].moved
    BY <2>1 DEF FrameParts, KernelOps
  <2>3. QED
    BY <2>1, <2>2, StillStep
<1>4. QED
  BY <1>1, <1>2, <1>3 DEF Kernel

\* More is wanted: of the transfer, or of the frame.
LEMMA TakesMoreKeepsTurn ==
  ASSUME FrameParts, InTurn, NEW e \in Ends, TakesResult(e), TakesMore(e) \/ Feeds(e)
  PROVE  InTurn'
<1>1. /\ Transfers(task[e]) /\ kernel' = [kernel EXCEPT ![e] = Idle]
      /\ UNCHANGED <<stream, open, late, stopping, asked, desynced>>
  BY TakesResultCases DEF TakesMore, Feeds
<1>2. /\ PartNow(e) \in Seq(FrameUnit) /\ WholeNow(e) \in Seq(FrameUnit)
      /\ Len(PartNow(e)) \in Nat /\ Len(task[e].whole) \in Nat /\ task[e] \in Tasks
      /\ Len(WholeNow(e)) = Len(task[e].whole) + Len(PartNow(e))
      /\ Len(WholeNow(e)) = Passed(e) /\ Passed(e) \in Nat
  BY <1>1, ResultLengths, EndOf
<1>3. /\ kernel'[e] = Idle /\ kernel'[e].moved = <<>> /\ Len(<<>>) = 0
      /\ \A f \in Ends : f # e => kernel'[f] = kernel[f]
  BY <1>1, FrameRecords DEF FrameParts
<1>4. /\ task'[e].does = task[e].does /\ task'[e].no = task[e].no
      /\ \/ task'[e].whole = task[e].whole /\ task'[e].part = PartNow(e)
         \/ /\ task'[e].whole = WholeNow(e) /\ task'[e].part = <<>>
      /\ \A f \in Ends : f # e => task'[f] = task[f]
  <2>1. CASE TakesMore(e)
    <3>1. task' = [task EXCEPT ![e] = [task[e] EXCEPT !.part = PartNow(e)]]
      BY <2>1 DEF TakesMore
    <3>2. DEFINE t == [task[e] EXCEPT !.part = PartNow(e)]
    <3>3. t.does = task[e].does /\ t.no = task[e].no /\ t.whole = task[e].whole
          /\ t.part = PartNow(e)
      BY <1>2 DEF Tasks
    <3>4. task' = [task EXCEPT ![e] = t]
      BY <3>1
    <3> HIDE DEF t
    <3>5. QED
      BY <3>3, <3>4 DEF FrameParts
  <2>2. CASE Feeds(e)
    <3>1. task' = [task EXCEPT ![e] = [task[e] EXCEPT !.whole = WholeNow(e), !.part = <<>>]]
      BY <2>2 DEF Feeds
    <3>2. DEFINE t == [task[e] EXCEPT !.whole = WholeNow(e), !.part = <<>>]
    <3>3. t.does = task[e].does /\ t.no = task[e].no /\ t.whole = WholeNow(e)
          /\ t.part = <<>>
      BY <1>2 DEF Tasks
    <3>4. task' = [task EXCEPT ![e] = t]
      BY <3>1
    <3> HIDE DEF t
    <3>5. QED
      BY <3>3, <3>4 DEF FrameParts
  <2>3. QED
    BY <2>1, <2>2
<1>5. Passed(e)' = Passed(e)
  <2>1. ASSUME NEW w \in Nat, NEW p \in Nat PROVE w + p + 0 = w + p /\ w + 0 + 0 = w
    OBVIOUS
  <2>2. CASE task'[e].whole = task[e].whole /\ task'[e].part = PartNow(e)
    <3>1. Passed(e)' = Len(task[e].whole) + Len(PartNow(e)) + 0
      BY <1>3, <2>2 DEF Passed
    <3>2. QED
      BY <1>2, <2>1, <3>1
  <2>3. CASE task'[e].whole = WholeNow(e) /\ task'[e].part = <<>>
    <3>1. Passed(e)' = Len(WholeNow(e)) + 0 + 0
      BY <1>3, <2>3 DEF Passed
    <3>2. QED
      BY <1>2, <2>1, <3>1
  <2>4. QED
    BY <1>4, <2>2, <2>3
<1>6. HeldFits(e)'
  <2>1. ASSUME task[e].does = "read"
        PROVE  /\ UnitsOf(task'[e].whole, asked, 0)
               /\ UnitsOf(task'[e].part, asked, Len(task'[e].whole))
    <3>1. HeldFits(e)
      BY DEF InTurn
    <3>2. UnitsOf(WholeNow(e), asked, 0) /\ UnitsOf(PartNow(e), asked, Len(task[e].whole))
      BY <2>1, <3>1, ResultUnits
    <3>3. UnitsOf(task[e].whole, asked, 0)
      BY <2>1, <3>1 DEF HeldFits
    <3>4. QED
      BY <1>4, <3>2, <3>3, NothingFits
  <2>2. UnitsOf(kernel'[e].moved, asked, Len(task'[e].whole) + Len(task'[e].part))
    BY <1>3, NothingFits
  <2>3. QED
    BY <1>1, <1>4, <2>1, <2>2 DEF HeldFits
<1>7. ASSUME NEW f \in Ends
      PROVE  HeldFits(f)' /\ task'[f].does = task[f].does /\ task'[f].no = task[f].no
             /\ Passed(f)' = Passed(f)
  <2>1. CASE f = e
    BY <1>4, <1>5, <1>6, <2>1
  <2>2. CASE f # e
    BY <1>1, <1>3, <1>4, <2>2, AloneEnd DEF InTurn
  <2>3. QED
    BY <2>1, <2>2
<1>8. QED
  BY <1>1, <1>7, QuietStep

\* An end that has nothing of a frame.
Bare(e, t) ==
  /\ t.whole = <<>> /\ t.part = <<>> /\ task'[e] = t /\ kernel'[e].moved = <<>>

LEMMA BareEnd ==
  ASSUME NEW e \in Ends, NEW t, Bare(e, t)
  PROVE  /\ Passed(e)' = 0 /\ Got(e)' = 0 /\ HeldFits(e)'
         /\ Len(stream'[e]) \in Nat => Due(e)' = Len(stream'[e])
<1>1. Len(<<>>) = 0 /\ 0 + 0 + 0 = 0
  OBVIOUS
<1>2. Passed(e)' = 0
  BY <1>1 DEF Passed, Bare
<1>3. Got(e)' = 0
  BY <1>2 DEF Got
<1>4. HeldFits(e)'
  BY NothingFits DEF HeldFits, Bare
<1>5. Len(stream'[e]) \in Nat => Due(e)' = Len(stream'[e])
  BY <1>3 DEF Due
<1>6. QED
  BY <1>2, <1>3, <1>4, <1>5

\* A step of one end that leaves what is on the way to either, and that has
\* nothing of a frame afterwards.
BareMove(e, d, t) ==
  /\ d # e /\ t.whole = <<>> /\ t.part = <<>>
  /\ task' = [task EXCEPT ![e] = t] /\ kernel' = [kernel EXCEPT ![e] = Idle]
  /\ UNCHANGED <<stream, asked>>

LEMMA BareStep ==
  ASSUME FrameParts, InTurn, NEW e \in Ends, NEW d \in Ends, NEW t, BareMove(e, d, t)
  PROVE  /\ task'[e] = t /\ Passed(e)' = 0 /\ Got(e)' = 0
         /\ Due(e)' = Len(stream[e]) /\ Len(stream[e]) \in Nat
         /\ \A f \in Ends : HeldFits(f)'
         /\ task'[d] = task[d] /\ Passed(d)' = Passed(d)
         /\ Due(d)' = Due(d) /\ (StreamFits(d) => StreamFits(d)')
<1>1. /\ task'[e] = t /\ kernel'[e] = Idle /\ kernel'[e].moved = <<>>
      /\ task'[d] = task[d] /\ kernel'[d] = kernel[d]
      /\ stream'[d] = stream[d] /\ asked' = asked /\ stream'[e] = stream[e]
      /\ d # e /\ t.whole = <<>> /\ t.part = <<>>
  BY TwoEnds, FrameRecords DEF BareMove, FrameParts
<1>2. Len(stream[e]) \in Nat
  BY EndOf
<1>3. /\ Passed(e)' = 0 /\ Got(e)' = 0 /\ HeldFits(e)' /\ Due(e)' = Len(stream[e])
  <2>1. Len(stream'[e]) \in Nat
    BY <1>1, <1>2
  <2>2. Bare(e, t)
    BY <1>1 DEF Bare
  <2>3. QED
    BY <1>1, <2>1, <2>2, BareEnd
<1>4. /\ Passed(d)' = Passed(d) /\ HeldFits(d)'
      /\ Due(d)' = Due(d) /\ (StreamFits(d) => StreamFits(d)')
  BY <1>1, TwoEnds, AloneEnd DEF InTurn
<1>5. \A f \in Ends : HeldFits(f)'
  BY <1>1, <1>3, <1>4, TwoEnds
<1>6. QED
  BY <1>1, <1>2, <1>3, <1>4, <1>5

\* What is on the way stays in its place, when its end had nothing and has
\* nothing; and nothing fits wherever it is.
LEMMA StreamStays ==
  ASSUME FrameParts, NEW e \in Ends, UNCHANGED <<stream, asked>>, Got(e)' = 0,
         (StreamFits(e) /\ Got(e) = 0) \/ stream[e] = <<>>
  PROVE  StreamFits(e)'
<1>1. Len(stream[e]) \in Nat /\ Len(<<>>) = 0 /\ asked' = asked /\ stream'[e] = stream[e]
  BY EndOf
<1>2. Due(e)' = Len(stream[e])
  BY <1>1 DEF Due
<1>3. CASE StreamFits(e) /\ Got(e) = 0
  BY <1>1, <1>2, <1>3 DEF StreamFits, Due
<1>4. CASE stream[e] = <<>>
  BY <1>1, <1>2, <1>4, NothingFits, FrameConstants DEF StreamFits
<1>5. QED
  BY <1>3, <1>4

\* The last unit of a frame.
LEMMA FrameEndsKeepsTurn ==
  ASSUME FrameParts, InTurn, NEW e \in Ends, TakesResult(e), HasFrame(e)
  PROVE  InTurn'
<1>1. /\ Transfers(task[e]) /\ kernel' = [kernel EXCEPT ![e] = Idle]
      /\ UNCHANGED <<stream, open, late, stopping, asked>>
      /\ Len(WholeNow(e)) = Body + 1 /\ FrameEnds(e, WholeNow(e))
  BY TakesResultCases DEF HasFrame
<1>2. Passed(e) = Body + 1 /\ Body + 1 # 0 /\ Body + 1 \in Nat
  <2>1. Passed(e) = Body + 1
    BY <1>1, ResultLengths
  <2>2. QED
    BY <2>1, FrameConstants
<1>3. /\ e \in open /\ asked \in Nat /\ Len(stream[e]) \in Nat
      /\ Len(stream[e]) = 0 => stream[e] = <<>>
  BY <1>1, EndOf, Numbers DEF Transfers
\* A reader that has the frame has nothing more on the way to it.
<1>4. task[e].does = "read" => /\ Due(e) = Body + 1 /\ stream[e] = <<>>
                               /\ StreamFits(e) /\ WholeNow(e)[1].of = asked
  <2>1. SUFFICES ASSUME task[e].does = "read"
                 PROVE  /\ Due(e) = Body + 1 /\ stream[e] = <<>> /\ StreamFits(e)
                        /\ WholeNow(e)[1].of = asked
    OBVIOUS
  <2>2. StreamFits(e) /\ HeldFits(e)
    BY <2>1, ReaderFits
  <2>3. Due(e) = Body + 1 + Len(stream[e]) /\ Due(e) <= Body + 1
    BY <1>2, <2>1, <2>2 DEF StreamFits, Due, Got
  <2>4. Len(stream[e]) = 0
    BY <1>2, <1>3, <2>3
  <2>5. Due(e) = Body + 1
    BY <1>2, <2>3, <2>4
  <2>6. WholeNow(e)[1].of = asked
    BY <1>1, <2>1, <2>2, ResultUnits
  <2>7. QED
    BY <1>3, <2>2, <2>4, <2>5, <2>6
<1>5. task[e].does = "write" => Got(e) = 0
  BY DEF Got
<1>6. CASE e = "client" /\ task[e].does = "write"
  <2>1. task' = [task EXCEPT !["client"] = Reads] /\ UNCHANGED desynced
    BY <1>1, <1>6 DEF FrameEnds
  <2>2. /\ task'["client"] = Reads /\ Got("client")' = 0
        /\ Due("client")' = Len(stream["client"]) /\ \A f \in Ends : HeldFits(f)'
        /\ task'["plugin"] = task["plugin"] /\ Passed("plugin")' = Passed("plugin")
        /\ Due("plugin")' = Due("plugin") /\ (StreamFits("plugin") => StreamFits("plugin")')
    <3>1. /\ kernel' = [kernel EXCEPT !["client"] = Idle] /\ UNCHANGED <<stream, asked>>
          /\ "client" \in Ends /\ "plugin" \in Ends /\ "plugin" # "client"
      BY <1>1, <1>6, TwoEnds
    <3>2. Reads.whole = <<>> /\ Reads.part = <<>>
      BY <1>3, FrameRecords
    <3>3. BareMove("client", "plugin", Reads)
      BY <2>1, <3>1, <3>2 DEF BareMove
    <3>4. QED
      BY <3>3, TwoEnds, BareStep
  <2>3. Due("client")' = Due("client")
    BY <1>3, <1>5, <1>6, <2>2 DEF Due
  <2>4. task'["client"].does = "read" /\ task["client"].does = "write" /\ ~desynced
    BY <1>6, <2>2, FrameRecords DEF InTurn
  <2>5. StreamFits("client")'
    BY <1>1, <1>5, <1>6, <2>2, <2>4, TwoEnds, StreamStays DEF InTurn
  <2>6. RequestOut = Body + 1 /\ RequestOut' = Body + 1
    BY <1>2, <1>6, <2>4 DEF RequestOut
  <2>7. (Awaits' <=> Awaits) /\ (Spoken' <=> Spoken)
    BY <2>2 DEF Awaits, Spoken
  <2>8. (Calls => Calls') /\ (Answering => Answering') /\ (Replied => Replied')
    BY <1>1, <2>2, <2>3, <2>6, <2>7 DEF Calls, Answering, Replied
  <2>9. Turn => Turn'
    BY <2>4, <2>8 DEF Turn
  <2>10. QED
    BY <1>1, <2>1, <2>2, <2>4, <2>5, <2>9 DEF InTurn
<1>7. CASE e = "client" /\ task[e].does = "read"
  <2>1. task' = [task EXCEPT !["client"] = Rest] /\ (desynced' <=> desynced)
    BY <1>1, <1>4, <1>7 DEF FrameEnds
  <2>2. /\ task'["client"] = Rest /\ Got("client")' = 0
        /\ Due("client")' = Len(stream["client"]) /\ \A f \in Ends : HeldFits(f)'
        /\ task'["plugin"] = task["plugin"] /\ Passed("plugin")' = Passed("plugin")
        /\ Due("plugin")' = Due("plugin") /\ (StreamFits("plugin") => StreamFits("plugin")')
    <3>1. /\ kernel' = [kernel EXCEPT !["client"] = Idle] /\ UNCHANGED <<stream, asked>>
          /\ "client" \in Ends /\ "plugin" \in Ends /\ "plugin" # "client"
      BY <1>1, <1>7, TwoEnds
    <3>2. Rest.whole = <<>> /\ Rest.part = <<>>
      BY <1>3, FrameRecords
    <3>3. BareMove("client", "plugin", Rest)
      BY <2>1, <3>1, <3>2 DEF BareMove
    <3>4. QED
      BY <3>3, TwoEnds, BareStep
  <2>3. StreamFits("client")' /\ Due("client")' = 0
    <3>1. Len(<<>>) = 0
      OBVIOUS
    <3>2. QED
      BY <1>1, <1>4, <1>7, <2>2, <3>1, StreamStays
  <2>4. task'["client"].does = "rest"
    BY <2>2, FrameRecords
  <2>5. ASSUME ~desynced, "plugin" \in open
        PROVE  Turn'
    <3>1. Turn /\ Due("client") = Body + 1
      BY <1>4, <1>7, <2>5 DEF InTurn
    <3>2. Calls \/ Answering \/ Replied
      BY <1>7, <3>1 DEF Turn
    <3>3. Due("plugin") = 0 /\ Spoken
      BY <1>2, <3>1, <3>2 DEF Calls, Answering, Replied, Spoken
    <3>4. Spoken'
      BY <2>2, <3>3 DEF Spoken, Awaits
    <3>5. QED
      BY <2>2, <2>3, <2>4, <3>3, <3>4 DEF Turn, Between
  <2>6. QED
    BY <1>1, <2>1, <2>2, <2>3, <2>4, <2>5 DEF InTurn
<1>8. CASE e = "plugin" /\ task[e].does = "write"
  <2>1. task' = [task EXCEPT !["plugin"] = Rest] /\ UNCHANGED desynced
    BY <1>1, <1>8 DEF FrameEnds
  <2>2. /\ task'["plugin"] = Rest /\ Got("plugin")' = 0
        /\ Due("plugin")' = Len(stream["plugin"]) /\ \A f \in Ends : HeldFits(f)'
        /\ task'["client"] = task["client"] /\ Passed("client")' = Passed("client")
        /\ Due("client")' = Due("client") /\ (StreamFits("client") => StreamFits("client")')
    <3>1. /\ kernel' = [kernel EXCEPT !["plugin"] = Idle] /\ UNCHANGED <<stream, asked>>
          /\ "plugin" \in Ends /\ "client" \in Ends /\ "client" # "plugin"
      BY <1>1, <1>8, TwoEnds
    <3>2. Rest.whole = <<>> /\ Rest.part = <<>>
      BY <1>3, FrameRecords
    <3>3. BareMove("plugin", "client", Rest)
      BY <2>1, <3>1, <3>2 DEF BareMove
    <3>4. QED
      BY <3>3, TwoEnds, BareStep
  <2>3. Due("plugin")' = Due("plugin")
    BY <1>3, <1>5, <1>8, <2>2 DEF Due
  <2>4. StreamFits("plugin")'
    BY <1>1, <1>3, <1>5, <1>8, <2>2, TwoEnds, StreamStays DEF InTurn
  <2>5. Awaits' /\ Spoken' /\ RequestOut' = RequestOut
    BY <2>2, FrameRecords DEF Awaits, Spoken, RequestOut
  <2>6. ~Awaits
    BY <1>8 DEF Awaits
  <2>7. ASSUME Turn PROVE Turn'
    <3>1. (Calls => Calls') /\ (Between => Between') /\ ~Replied
      BY <2>2, <2>3, <2>5, <2>6 DEF Calls, Between, Replied
    <3>2. Answering => Replied'
      BY <1>2, <1>8, <2>2, <2>3, <2>5 DEF Answering, Replied
    <3>3. QED
      BY <2>2, <2>7, <3>1, <3>2 DEF Turn
  <2>8. QED
    BY <1>1, <2>1, <2>2, <2>4, <2>7 DEF InTurn
<1>9. CASE e = "plugin" /\ task[e].does = "read"
  <2>1. task' = [task EXCEPT !["plugin"] = Executes(asked)] /\ UNCHANGED desynced
    BY <1>1, <1>4, <1>9 DEF FrameEnds, Executes
  <2>2. PICK n \in Nat : n = asked
    BY <1>3
  <2>3. /\ task'["plugin"] = Executes(n) /\ Got("plugin")' = 0
        /\ Due("plugin")' = Len(stream["plugin"]) /\ \A f \in Ends : HeldFits(f)'
        /\ task'["client"] = task["client"] /\ Passed("client")' = Passed("client")
        /\ Due("client")' = Due("client") /\ (StreamFits("client") => StreamFits("client")')
    <3>1. /\ kernel' = [kernel EXCEPT !["plugin"] = Idle] /\ UNCHANGED <<stream, asked>>
          /\ "plugin" \in Ends /\ "client" \in Ends /\ "client" # "plugin"
      BY <1>1, <1>9, TwoEnds
    <3>2. PICK t \in Tasks : t = Executes(n) /\ t.whole = <<>> /\ t.part = <<>>
      BY FrameRecords
    <3>3. task' = [task EXCEPT !["plugin"] = t]
      BY <2>1, <2>2, <3>2
    <3>4. /\ task'["plugin"] = t /\ Got("plugin")' = 0
          /\ Due("plugin")' = Len(stream["plugin"]) /\ \A f \in Ends : HeldFits(f)'
          /\ task'["client"] = task["client"] /\ Passed("client")' = Passed("client")
          /\ Due("client")' = Due("client") /\ (StreamFits("client") => StreamFits("client")')
      <4>1. t.whole = <<>> /\ t.part = <<>>
        BY <3>2
      <4>2. BareMove("plugin", "client", t)
        BY <3>1, <3>3, <4>1 DEF BareMove
      <4>3. QED
        BY <4>2, TwoEnds, BareStep
    <3>5. QED
      BY <3>2, <3>4
  <2>4. StreamFits("plugin")' /\ Due("plugin")' = 0
    <3>1. Len(<<>>) = 0
      OBVIOUS
    <3>2. QED
      BY <1>1, <1>4, <1>9, <2>3, <3>1, StreamStays
  <2>5. task'["plugin"].does = "execute" /\ task'["plugin"].no = asked /\ asked' = asked
    BY <1>1, <2>2, <2>3, FrameRecords
  <2>6. Due("plugin") = Body + 1
    BY <1>4, <1>9
  <2>7. RequestOut' = RequestOut
    BY <2>3 DEF RequestOut
  <2>8. ASSUME Turn PROVE Turn'
    <3>1. Calls /\ task["client"].does # "rest"
      BY <1>2, <2>6, <2>8 DEF Turn, Between, Answering, Replied
    <3>2. Answering'
      BY <2>3, <2>4, <2>5, <2>6, <2>7, <3>1 DEF Calls, Answering
    <3>3. QED
      BY <2>3, <3>1, <3>2 DEF Turn
  <2>9. QED
    BY <1>1, <2>1, <2>3, <2>4, <2>8 DEF InTurn
<1>10. QED
  BY <1>1, <1>6, <1>7, <1>8, <1>9, TwoEnds DEF Transfers

\* A failure: the client marks the connection, the plugin's end closes.
LEMMA FailsKeepsTurn ==
  ASSUME FrameParts, InTurn, NEW e \in Ends, NEW why \in {"timeout", "broken"}, Fails(e, why),
         kernel' = [kernel EXCEPT ![e] = Idle], UNCHANGED <<late, stopping, asked>>
  PROVE  InTurn'
<1>1. task' = [task EXCEPT ![e] = Rest]
  BY DEF Fails
<1>2. CASE e = "client"
  <2>1. desynced' /\ UNCHANGED <<stream, open>>
    BY <1>2 DEF Fails, LosesFrames
  <2>2. /\ task'["client"] = Rest /\ \A f \in Ends : HeldFits(f)'
        /\ (StreamFits("plugin") => StreamFits("plugin")')
    <3>1. /\ kernel' = [kernel EXCEPT !["client"] = Idle] /\ UNCHANGED <<stream, asked>>
          /\ "client" \in Ends /\ "plugin" \in Ends /\ "plugin" # "client"
          /\ task' = [task EXCEPT !["client"] = Rest]
      BY <1>1, <1>2, <2>1, TwoEnds
    <3>2. Rest.whole = <<>> /\ Rest.part = <<>>
      BY FrameRecords
    <3>3. BareMove("client", "plugin", Rest)
      BY <3>1, <3>2 DEF BareMove
    <3>4. QED
      BY <3>3, TwoEnds, BareStep
  <2>3. QED
    BY <2>1, <2>2, FrameRecords DEF InTurn
<1>3. CASE e = "plugin"
  <2>1. /\ UNCHANGED desynced /\ open' = open \ {"plugin"}
        /\ stream' = [stream EXCEPT !["client"] = <<>>]
    BY <1>3, TwoEnds DEF Fails
  <2>2. /\ task'["plugin"] = Rest /\ kernel'["plugin"].moved = <<>>
        /\ task'["client"] = task["client"] /\ kernel'["client"] = kernel["client"]
        /\ stream'["client"] = <<>> /\ asked' = asked
    BY <1>1, <1>3, <2>1, TwoEnds, FrameRecords DEF FrameParts
  <2>3. \A f \in Ends : HeldFits(f)'
    <3>1. HeldFits("plugin")'
      <4>1. Bare("plugin", Rest)
        BY <2>2, FrameRecords DEF Bare
      <4>2. QED
        BY <4>1, TwoEnds, BareEnd
    <3>2. HeldFits("client")'
      BY <2>2, TwoEnds, AloneEnd DEF InTurn
    <3>3. QED
      BY <3>1, <3>2, TwoEnds
  <2>4. StreamFits("client")'
    <3>1. Got("client")' = Got("client") /\ Len(<<>>) = 0
      BY <2>2, TwoEnds, AloneEnd
    <3>2. Got("client") \in Nat /\ Got("client") <= Body + 1
      <4>1. Passed("client") <= Body + 1 /\ Passed("client") \in Nat
        BY TwoEnds, Numbers
      <4>2. QED
        BY <4>1, FrameConstants DEF Got
    <3>3. Due("client")' = Got("client")
      BY <2>2, <3>1, <3>2 DEF Due
    <3>4. QED
      BY <2>2, <3>2, <3>3, NothingFits DEF StreamFits
  <2>5. "plugin" \notin open'
    BY <2>1
  <2>6. QED
    BY <2>1, <2>2, <2>3, <2>4, <2>5, TwoEnds DEF InTurn
<1>4. QED
  BY <1>2, <1>3, TwoEnds

LEMMA TransferKeepsTurn ==
  ASSUME FrameParts, InTurn, NEW e \in Ends, Transfer(e)
  PROVE  InTurn'
<1>1. CASE RefusesToIssue(e) \/ FindsItBroken(e) \/ Drained(e)
  BY <1>1, FailsCases, FailsKeepsTurn
<1>2. CASE TakesResult(e)
  BY <1>2, TakesResultCases, TakesMoreKeepsTurn, FrameEndsKeepsTurn
<1>3. CASE Issue(e)
  <2>1. /\ op[e].at = "ready" /\ Transfers(task[e])
        /\ kernel' = [kernel EXCEPT ![e] = [st |-> "queued", moved |-> <<>>]]
        /\ UNCHANGED <<stream, open, task, late, stopping, desynced, asked>>
    BY <1>3 DEF Issue, InTransfer, Transfers
  <2>2. kernel[e].moved = <<>>
    BY <2>1, EndOf, FrameRecords DEF EndFits
  <2>3. \A f \in Ends : kernel'[f].moved = kernel[f].moved
    BY <2>1, <2>2 DEF FrameParts
  <2>4. QED
    BY <2>1, <2>3, StillStep
<1>4. CASE GivesUp(e)
  <2>1. UNCHANGED <<stream, open, task, kernel, desynced, asked>>
    BY <1>4, GivesUpDrains
  <2>2. QED
    BY <2>1, StillStep
<1>5. QED
  BY <1>1, <1>2, <1>3, <1>4 DEF Transfer

\* The threads ask for something: the client when nothing is on its way, the
\* plugin when it is its turn.
LEMMA ClientAsksKeepsTurn ==
  ASSUME FrameParts, InTurn, ClientAsks
  PROVE  InTurn'
<1>1. /\ task["client"] = Rest /\ ~desynced /\ asked' = asked + 1
      /\ task' = [task EXCEPT !["client"] = Writes(asked')]
      /\ UNCHANGED <<stream, open, kernel, stopping, desynced>>
  BY DEF ClientAsks, Begins
<1>2. /\ asked \in Nat /\ asked' \in Nat /\ "client" \in Ends /\ "plugin" \in Ends
  BY <1>1, EndOf, TwoEnds
<1>3. /\ task'["client"] = Writes(asked') /\ task'["plugin"] = task["plugin"]
      /\ Writes(asked').does = "write" /\ Writes(asked').no = asked'
      /\ Writes(asked').whole = <<>> /\ Writes(asked').part = <<>>
      /\ task["client"].does = "rest"
  BY <1>1, <1>2, TwoEnds, FrameRecords DEF FrameParts
<1>4. Due("client") = 0
  <2>1. CASE "plugin" \in open
    BY <1>1, <1>3, <2>1 DEF InTurn, Turn, Between
  <2>2. CASE "plugin" \notin open
    <3>1. stream["client"] = <<>> /\ Got("client") = 0
      BY <1>2, <1>3, <2>2, Numbers DEF InTurn
    <3>2. QED
      BY <1>2, <3>1, Numbers
  <2>3. QED
    BY <2>1, <2>2
<1>5. Got("client") = 0 /\ Len(stream["client"]) = 0 /\ stream["client"] = <<>>
  <2>1. Got("client") = 0 /\ Due("client") = Got("client") + Len(stream["client"])
        /\ Len(stream["client"]) \in Nat
    BY <1>2, <1>3, Numbers
  <2>2. Len(stream["client"]) = 0
    BY <1>4, <2>1
  <2>3. QED
    BY <1>2, <2>1, <2>2, Numbers
<1>6. kernel'["client"].moved = <<>>
  BY <1>1, <1>2, <1>3, EndOf, FrameRecords DEF EndFits, Transfers
<1>7. /\ Passed("client")' = 0 /\ Got("client")' = 0 /\ HeldFits("client")'
      /\ Due("client")' = 0
  <2>1. task'["client"].whole = <<>> /\ task'["client"].part = <<>>
    BY <1>3
  <2>2. Len(<<>>) = 0 /\ 0 + 0 + 0 = 0 /\ 0 + 0 = 0
    OBVIOUS
  <2>3. Passed("client")' = 0
    BY <1>6, <2>1, <2>2 DEF Passed
  <2>4. Got("client")' = 0
    BY <2>3 DEF Got
  <2>5. HeldFits("client")'
    BY <1>3 DEF HeldFits
  <2>6. Due("client")' = 0
    BY <1>1, <1>5, <2>2, <2>4 DEF Due
  <2>7. QED
    BY <2>3, <2>4, <2>5, <2>6
<1>8. StreamFits("client")'
  BY <1>1, <1>5, <1>7, NothingFits, FrameConstants DEF StreamFits
<1>9. /\ Passed("plugin")' = Passed("plugin") /\ Got("plugin")' = Got("plugin")
      /\ Due("plugin")' = Due("plugin")
  BY <1>1, <1>2, <1>3, AloneEnd
\* Without a frame on its way the plugin's end fits whatever comes next.
<1>10. CASE "plugin" \in open
  <2>1. Due("plugin") = 0 /\ Spoken /\ StreamFits("plugin")
    BY <1>1, <1>3, <1>10 DEF InTurn, Turn, Between
  <2>2. Got("plugin") = 0 /\ stream["plugin"] = <<>>
    <3>1. Due("plugin") = Got("plugin") + Len(stream["plugin"])
          /\ Len(stream["plugin"]) \in Nat /\ Got("plugin") \in Nat
      BY <1>2, Numbers
    <3>2. Got("plugin") = 0 /\ Len(stream["plugin"]) = 0
      BY <2>1, <3>1
    <3>3. QED
      BY <1>2, <3>2, Numbers
  <2>3. HeldFits("plugin")'
    <3>1. SUFFICES ASSUME task["plugin"].does = "read" PROVE HeldFits("plugin")'
      BY <1>3 DEF HeldFits
    <3>2. /\ Len(task["plugin"].whole) \in Nat /\ Len(task["plugin"].part) \in Nat
          /\ Len(kernel["plugin"].moved) \in Nat
          /\ Len(task["plugin"].whole) + Len(task["plugin"].part)
               + Len(kernel["plugin"].moved) = 0
      BY <1>2, <2>2, <3>1, EndOf DEF Got, Passed
    <3>3. /\ Len(task["plugin"].whole) = 0 /\ Len(task["plugin"].part) = 0
          /\ Len(kernel["plugin"].moved) = 0
      <4>1. ASSUME NEW w \in Nat, NEW p \in Nat, NEW m \in Nat, w + p + m = 0
            PROVE  w = 0 /\ p = 0 /\ m = 0
        BY <4>1
      <4>2. QED
        BY <3>2, <4>1
    <3>4. /\ task["plugin"].whole = <<>> /\ task["plugin"].part = <<>>
          /\ kernel["plugin"].moved = <<>>
      BY <1>2, <3>3, EndOf, EmptySeq
    <3>5. QED
      BY <1>1, <1>3, <3>4, NothingFits DEF HeldFits
  <2>4. StreamFits("plugin")'
    BY <1>1, <1>9, <2>1, <2>2, NothingFits, FrameConstants DEF StreamFits
  <2>5. Calls'
    <3>1. RequestOut' = 0
      BY <1>3, <1>7 DEF RequestOut
    <3>2. Spoken'
      BY <1>3, <1>9, <2>1 DEF Spoken, Awaits
    <3>3. QED
      BY <1>7, <1>9, <2>1, <3>1, <3>2 DEF Calls
  <2>6. Turn'
    BY <1>3, <2>5 DEF Turn
  <2>7. QED
    BY <1>1, <1>3, <1>7, <1>8, <1>10, <2>3, <2>4, <2>6, TwoEnds DEF InTurn
<1>11. CASE "plugin" \notin open
  <2>1. HeldFits("plugin")'
    BY <1>2, <1>3, <1>11, EndOf DEF HeldFits
  <2>2. QED
    BY <1>1, <1>3, <1>5, <1>7, <1>8, <1>11, <2>1, TwoEnds DEF InTurn
<1>12. QED
  BY <1>10, <1>11

LEMMA PluginBeginsKeepsTurn ==
  ASSUME FrameParts, InTurn, PluginReads \/ PluginAnswers
  PROVE  InTurn'
<1>1. /\ UNCHANGED <<stream, open, kernel, stopping, desynced, asked>>
      /\ ~Transfers(task["plugin"])
      /\ "plugin" \in Ends /\ "client" \in Ends /\ "client" # "plugin"
  BY TwoEnds, FrameRecords DEF PluginReads, PluginAnswers, Transfers
<1>2. kernel["plugin"] = Idle /\ kernel' = [kernel EXCEPT !["plugin"] = Idle]
  <2>1. kernel["plugin"] = Idle
    BY <1>1, EndOf DEF EndFits
  <2>2. kernel' = kernel
    BY <1>1
  <2>3. QED
    BY <1>1, <2>1, <2>2, SameAt DEF FrameParts
<1>3. Got("plugin") = 0 /\ Due("plugin") = Len(stream["plugin"])
  BY <1>1, Numbers DEF Transfers
<1>4. ASSUME NEW t, t.whole = <<>>, t.part = <<>>, task' = [task EXCEPT !["plugin"] = t]
      PROVE  /\ task'["plugin"] = t /\ Passed("plugin")' = 0 /\ Got("plugin")' = 0
             /\ Due("plugin")' = Due("plugin") /\ \A f \in Ends : HeldFits(f)'
             /\ task'["client"] = task["client"] /\ Passed("client")' = Passed("client")
             /\ Due("client")' = Due("client") /\ RequestOut' = RequestOut
             /\ (StreamFits("client") => StreamFits("client")')
             /\ (StreamFits("plugin") => StreamFits("plugin")')
  <2>1. UNCHANGED <<stream, asked>>
    BY <1>1
  <2>2. /\ task'["plugin"] = t /\ Passed("plugin")' = 0 /\ Got("plugin")' = 0
        /\ Due("plugin")' = Len(stream["plugin"]) /\ \A f \in Ends : HeldFits(f)'
        /\ task'["client"] = task["client"] /\ Passed("client")' = Passed("client")
        /\ Due("client")' = Due("client")
        /\ (StreamFits("client") => StreamFits("client")')
    <3>1. t.whole = <<>> /\ t.part = <<>>
      BY <1>4
    <3>2. task' = [task EXCEPT !["plugin"] = t]
      BY <1>4
    <3>3. "plugin" \in Ends /\ "client" \in Ends /\ "client" # "plugin"
      BY TwoEnds
    <3>4. kernel' = [kernel EXCEPT !["plugin"] = Idle]
      BY <1>2
    <3>5. BareMove("plugin", "client", t)
      BY <2>1, <3>1, <3>2, <3>3, <3>4 DEF BareMove
    <3>6. QED
      BY <3>5, TwoEnds, BareStep
  <2>3. StreamFits("plugin") => StreamFits("plugin")'
    BY <1>1, <1>3, <2>1, <2>2, StreamStays
  <2>4. RequestOut' = RequestOut
    BY <2>2 DEF RequestOut
  <2>5. QED
    BY <1>3, <2>2, <2>3, <2>4
<1>5. ASSUME NEW t, t.whole = <<>>, t.part = <<>>, task' = [task EXCEPT !["plugin"] = t],
             Turn => Turn'
      PROVE  InTurn'
  BY <1>1, <1>4, <1>5 DEF InTurn
<1>6. CASE PluginReads
  <2>1. task["plugin"].does = "rest" /\ task' = [task EXCEPT !["plugin"] = Reads]
    BY <1>6, FrameRecords DEF PluginReads, Begins
  <2>2. Reads.whole = <<>> /\ Reads.part = <<>> /\ Reads.does = "read"
    BY FrameRecords
  <2>3. Awaits' /\ Spoken' /\ ~Answering
    BY <1>4, <2>1, <2>2 DEF Awaits, Spoken, Answering
  <2>4. (Calls => Calls') /\ (Replied => Replied') /\ (Between => Between')
    BY <1>4, <2>1, <2>2, <2>3 DEF Calls, Replied, Between
  <2>5. Turn => Turn'
    BY <1>4, <2>1, <2>2, <2>3, <2>4 DEF Turn
  <2>6. QED
    BY <1>5, <2>1, <2>2, <2>5
<1>7. CASE PluginAnswers
  <2>1. /\ task["plugin"].does = "execute"
        /\ task' = [task EXCEPT !["plugin"] = Writes(task["plugin"].no)]
    BY <1>7 DEF PluginAnswers, Begins
  <2>2. PICK t \in Tasks : /\ t = Writes(task["plugin"].no)
                           /\ t.whole = <<>> /\ t.part = <<>> /\ t.does = "write"
                           /\ t.no = task["plugin"].no
    BY <1>1, EndOf, FrameRecords
  <2>3. task' = [task EXCEPT !["plugin"] = t] /\ t.whole = <<>> /\ t.part = <<>>
    BY <2>1, <2>2
  <2>4. ~Spoken /\ ~Awaits
    BY <2>1 DEF Spoken, Awaits
  <2>5. /\ task'["plugin"] = t /\ Passed("plugin")' = 0
        /\ Due("plugin")' = Due("plugin") /\ Due("client")' = Due("client")
        /\ RequestOut' = RequestOut /\ task'["client"] = task["client"]
    BY <1>4, <2>3
  <2>6. Answering => Answering'
    BY <1>1, <2>1, <2>2, <2>5 DEF Answering
  <2>7. Turn => Turn'
    BY <2>4, <2>5, <2>6 DEF Turn, Calls, Replied, Between
  <2>8. QED
    BY <1>5, <2>3, <2>7
<1>8. QED
  BY <1>6, <1>7

-----------------------------------------------------------------------------
LEMMA FrameStep == FrameInv /\ [FrameNext]_frameVars => FrameInv'
<1> SUFFICES ASSUME FrameInv, [FrameNext]_frameVars PROVE FrameInv'
  OBVIOUS
<1>1. FrameParts /\ InTurn
  BY DEF FrameInv
<1>2. CASE UNCHANGED frameVars
  <2>1. FrameParts'
    BY <1>1, <1>2 DEF frameVars, FrameParts
  <2>2. InTurn'
    BY <1>1, <1>2, StillStep DEF frameVars
  <2>3. QED
    BY <2>1, <2>2 DEF FrameInv
<1>3. CASE FrameNext
  <2>1. FrameParts'
    BY <1>3, FrameStepKeepsParts
  <2>2. ASSUME ClientAsks PROVE InTurn'
    BY <1>1, <2>2, ClientAsksKeepsTurn
  <2>3. ASSUME PluginReads \/ PluginAnswers PROVE InTurn'
    BY <1>1, <2>3, PluginBeginsKeepsTurn
  <2>4. ASSUME ClientCloses PROVE InTurn'
    BY <1>1, <2>4, StillStep DEF ClientCloses
  <2>5. ASSUME StopSignalled PROVE InTurn'
    BY <1>1, <2>5, StillStep DEF StopSignalled
  <2>6. ASSUME NEW e \in Ends, DeadlinePasses(e) PROVE InTurn'
    BY <1>1, <2>6, StillStep DEF DeadlinePasses
  <2>7. ASSUME NEW e \in Ends, Kernel(e) PROVE InTurn'
    BY <1>1, <2>7, KernelKeepsTurn
  <2>8. ASSUME NEW e \in Ends, Transfer(e) PROVE InTurn'
    BY <1>1, <2>8, TransferKeepsTurn
  <2>9. InTurn'
    BY <1>3, <2>2, <2>3, <2>4, <2>5, <2>6, <2>7, <2>8 DEF FrameNext
  <2>10. QED
    BY <2>1, <2>9 DEF FrameInv
<1>4. QED
  BY <1>2, <1>3

LEMMA FrameInvInvariant == FrameSpec => []FrameInv
<1>1. FrameInit => FrameInv
  BY FramePartsInit, InTurnInit DEF FrameInv
<1>2. QED
  BY <1>1, FrameStep, PTL DEF FrameSpec

\* FrameTypeOK, BufferOutlivesIo and FramesInStep are in the invariant.
LEMMA FrameInvGives == FrameInv => FrameTypeOK /\ BufferOutlivesIo /\ FramesInStep
<1> SUFFICES ASSUME FrameInv PROVE FrameTypeOK /\ BufferOutlivesIo /\ FramesInStep
  OBVIOUS
<1>1. FrameParts /\ InTurn
  BY DEF FrameInv
<1>2. FrameTypeOK
  <2>1. ASSUME NEW e \in Ends
        PROVE  /\ task[e].does \in {"rest", "write", "read", "execute"}
               /\ op[e] \in Ops
               /\ kernel[e].st \in {"none", "queued", "done", "broken", "aborted"}
    BY <1>1, EndOf DEF Tasks, KernelOps
  <2>2. ASSUME NEW e \in Ends
        PROVE  task[e].no \in 0 .. asked /\ Len(stream[e]) <= Room
    BY <1>1, EndOf
  <2>3. ASSUME NEW e \in Ends
        PROVE  Len(task[e].whole) + Len(task[e].part) <= Body
    <3>1. Len(task[e].whole) \in Nat /\ Len(task[e].part) \in Nat
          /\ EndFits(task[e], op[e], kernel[e])
      BY <1>1, EndOf
    <3>2. CASE Transfers(task[e])
      <4>1. Len(task[e].part) < TakeOf(task[e])
        BY <3>1, <3>2 DEF EndFits
      <4>2. /\ TakeOf(task[e]) \in Nat
            /\ Len(task[e].whole) + TakeOf(task[e]) <= Body + 1
        BY <1>1, <3>2, ResultLengths
      <4>3. ASSUME NEW w \in Nat, NEW p \in Nat, NEW k \in Nat, p < k, w + k <= Body + 1
            PROVE  w + p <= Body
        BY <4>3, FrameConstants
      <4>4. QED
        BY <3>1, <4>1, <4>2, <4>3
    <3>3. CASE ~Transfers(task[e])
      <4>1. task[e].whole = <<>> /\ task[e].part = <<>> /\ Len(<<>>) = 0
        BY <3>1, <3>3 DEF EndFits
      <4>2. QED
        BY <4>1, FrameConstants
    <3>4. QED
      BY <3>2, <3>3
  <2>4. /\ open \subseteq Ends /\ stopping \in BOOLEAN /\ desynced \in BOOLEAN
        /\ asked \in 0 .. MaxRequests /\ late \in [Ends -> BOOLEAN]
    BY <1>1 DEF FrameParts
  <2>5. QED
    BY <2>1, <2>2, <2>3, <2>4 DEF FrameTypeOK, Ops
<1>3. BufferOutlivesIo
  <2>1. SUFFICES ASSUME NEW e \in Ends, kernel[e].st = "queued"
                 PROVE  op[e].held /\ op[e].at # "ready" /\ e \in open
    BY DEF BufferOutlivesIo
  <2>2. EndFits(task[e], op[e], kernel[e]) /\ (task[e].does # "rest" => e \in open)
    BY <1>1, EndOf
  <2>3. Transfers(task[e])
    BY <2>1, <2>2, FrameRecords DEF EndFits
  <2>4. QED
    BY <2>1, <2>2, <2>3, FrameRecords DEF EndFits, Transfers
<1>4. FramesInStep
  <2>1. SUFFICES ASSUME NEW e \in Ends, task[e].does = "read",
                        NEW i \in 1 .. Len(task[e].whole \o task[e].part)
                 PROVE  LET units == task[e].whole \o task[e].part
                        IN /\ units[i].at = i /\ units[i].of = units[1].of
                           /\ e = "client" => units[i].of = asked
    BY DEF FramesInStep
  <2>2. DEFINE units == task[e].whole \o task[e].part
  <2>3. /\ task[e].whole \in Seq(FrameUnit) /\ task[e].part \in Seq(FrameUnit)
        /\ asked \in Nat /\ Len(task[e].whole) \in Nat
    BY <1>1, EndOf
  <2>4. UnitsOf(task[e].whole, asked, 0) /\ UnitsOf(task[e].part, asked, 0 + Len(task[e].whole))
    <3>1. 0 + Len(task[e].whole) = Len(task[e].whole)
      BY <2>3
    <3>2. QED
      BY <1>1, <2>1, <3>1 DEF InTurn, HeldFits
  <2>5. UnitsOf(units, asked, 0) /\ Len(units) \in Nat
    <3>1. 0 \in Nat
      OBVIOUS
    <3>2. units \in Seq(FrameUnit)
      BY <2>3, JoinUnits
    <3>3. UnitsOf(units, asked, 0)
      BY <2>3, <2>4, <3>1, JoinUnits
    <3>4. QED
      BY <3>2, <3>3, LenProperties
  <2>6. i \in 1 .. Len(units)
    OBVIOUS
  <2> HIDE DEF units
  <2>7. 1 \in 1 .. Len(units) /\ 0 + i = i
    BY <2>5, <2>6
  <2>8. units[i] = [of |-> asked, at |-> 0 + i] /\ units[1] = [of |-> asked, at |-> 0 + 1]
    BY <2>5, <2>6, <2>7 DEF UnitsOf
  <2>9. units[i].at = i /\ units[i].of = asked /\ units[1].of = asked
    BY <2>7, <2>8
  <2>10. QED
    BY <2>9 DEF units
<1>5. QED
  BY <1>2, <1>3, <1>4

-----------------------------------------------------------------------------
(* The connection: whichever view a behaviour is about, both are runs.     *)

\* A connection is a run of the messages and a run of the bytes, so that what
\* is proved of either is so of it.
THEOREM ConnectionRunsBoth == ConnSpec => Spec /\ FrameSpec
<1>1. ConnInit => Init /\ FrameInit
  BY DEF ConnInit
<1>2. [ConnNext]_connVars => [Next]_vars /\ [FrameNext]_frameVars
  <2>1. UNCHANGED connVars => UNCHANGED vars /\ UNCHANGED frameVars
    BY DEF connVars, vars, frameVars
  <2>2. MessageStep => Next /\ UNCHANGED frameVars
    BY DEF MessageStep
  <2>3. ByteStep => FrameNext /\ UNCHANGED vars
    BY DEF ByteStep
  <2>4. QED
    BY <2>1, <2>2, <2>3 DEF ConnNext
<1>3. QED
  BY <1>1, <1>2, PTL DEF ConnSpec, Spec, FrameSpec

\* The ends, their operations and the pipe stay what they are, and the pipe
\* within its room.
THEOREM FrameTypeCorrect == ConnSpec => []FrameTypeOK
BY ConnectionRunsBoth, FrameInvInvariant, FrameInvGives, PTL

\* An OVERLAPPED, its buffer and its handle outlive the operation the kernel
\* has, whichever of result, deadline, stop signal and lost connection comes
\* first.
THEOREM BufferStays == ConnSpec => []BufferOutlivesIo
BY ConnectionRunsBoth, FrameInvInvariant, FrameInvGives, PTL

\* Whoever reads is in step with whoever writes, at the client in the answer to
\* its own last request, although given up operations lose units.
THEOREM ReadersInStep == ConnSpec => []FramesInStep
BY ConnectionRunsBoth, FrameInvInvariant, FrameInvGives, PTL

\* What an edit's answer says of the project is so, on the connection as a whole.
THEOREM ConnectionAnswers == ConnSpec => []AnswersAreTrue
BY ConnectionRunsBoth, SessionAnswers, PTL
===============================================================================
