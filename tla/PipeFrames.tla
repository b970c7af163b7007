------------------------------- MODULE PipeFrames -------------------------------
(***************************************************************************)
(* The bytes of one connection after its handshake: both ends read and     *)
(* write frames by overlapped operations with a deadline                   *)
(* (plugin/src/win_io.rs, pipe.rs; server/src/win_io.rs, pipe_client.rs;   *)
(* core/src/framing.rs).  Session has the same exchanges as whole          *)
(* messages, with their budgets.                                           *)
(*                                                                         *)
(* A frame is its length followed by Body units; the kernel moves as many  *)
(* units at a time as it likes.                                            *)
(***************************************************************************)
EXTENDS Naturals, Sequences

CONSTANTS
  Body,        \* units of a frame's body
  Chunk,       \* READ_CHUNK_SIZE
  Room,        \* units the pipe takes that nobody has read
  MaxRequests  \* bound: requests on the connection

ASSUME FrameAssumption == {Body, Chunk, Room, MaxRequests} \subseteq Nat \ {0}

Ends == {"client", "plugin"}
Peer(e) == IF e = "client" THEN "plugin" ELSE "client"
Frame(n) == [i \in 1 .. Body + 1 |-> [of |-> n, at |-> i]]

VARIABLES
  stream,    \* per end, the units on the way to it
  open,      \* the ends that have not closed their handle
  task,      \* per end, what its thread is at
  op,        \* per end, its OverlappedOp
  kernel,    \* per end, the operation as the kernel has it
  late,      \* per end, the deadline of its task has passed
  stopping,  \* the plugin's stop signal
  desynced,  \* PipeClient::desynced
  asked      \* requests sent so far

frameVars == <<stream, open, task, op, kernel, late, stopping, desynced, asked>>

\* whole: the units the decoder was fed, or that were written; part: those of
\* the read_exact or write_all under way.
Rest == [does |-> "rest", no |-> 0, whole |-> <<>>, part |-> <<>>]
NoOp == [held |-> FALSE, pending |-> FALSE, at |-> "ready"]
FreshOp == [NoOp EXCEPT !.held = TRUE]
Idle == [st |-> "none", moved |-> <<>>]

FrameInit ==
  /\ stream = [e \in Ends |-> <<>>] /\ open = Ends
  /\ task = [e \in Ends |-> Rest] /\ op = [e \in Ends |-> NoOp]
  /\ kernel = [e \in Ends |-> Idle] /\ late = [e \in Ends |-> FALSE]
  /\ stopping = FALSE /\ desynced = FALSE /\ asked = 0

-----------------------------------------------------------------------------
(* The frame as its end sees it.                                           *)

\* FrameDecoder::bytes_needed, at most a chunk: the length alone, then the body.
Take(e) ==
  IF task[e].does = "write" THEN Body + 1
  ELSE IF task[e].whole = <<>> THEN 1
  ELSE LET needed == Body + 1 - Len(task[e].whole)
       IN IF needed < Chunk THEN needed ELSE Chunk
Wanted(e) == Take(e) - Len(task[e].part)

Writes(n) == [Rest EXCEPT !.does = "write", !.no = n]
Reads == [Rest EXCEPT !.does = "read"]

\* A task begins with a transfer of its own and a deadline of its own.
Begins(e, t, deadline) ==
  /\ task' = [task EXCEPT ![e] = t] /\ op' = [op EXCEPT ![e] = FreshOp]
  /\ late' = [late EXCEPT ![e] = deadline]

-----------------------------------------------------------------------------
(* What the threads ask for.                                               *)

\* PipeClient::exchange. A connection that lost its frames is not used again.
ClientAsks ==
  /\ "client" \in open /\ task["client"] = Rest /\ ~desynced /\ asked < MaxRequests
  /\ asked' = asked + 1
  /\ Begins("client", Writes(asked'), FALSE)
  /\ UNCHANGED <<stream, open, kernel, stopping, desynced>>

\* The owner lets go of the connection between two exchanges.
ClientCloses ==
  /\ "client" \in open /\ task["client"] = Rest
  /\ open' = open \ {"client"}
  /\ UNCHANGED <<stream, task, op, kernel, late, stopping, desynced, asked>>

\* run_request_loop waits for the next request.
PluginReads ==
  /\ "plugin" \in open /\ task["plugin"] = Rest
  /\ Begins("plugin", Reads, FALSE)
  /\ UNCHANGED <<stream, open, kernel, stopping, desynced, asked>>

\* The execution ends some time after the request came, and its answer has a
\* deadline of its own.
PluginAnswers ==
  /\ task["plugin"].does = "execute"
  /\ Begins("plugin", Writes(task["plugin"].no), FALSE)
  /\ UNCHANGED <<stream, open, kernel, stopping, desynced, asked>>

DeadlinePasses(e) ==
  /\ task[e].does \in {"read", "write"} /\ ~late[e]
  /\ late' = [late EXCEPT ![e] = TRUE]
  /\ UNCHANGED <<stream, open, task, op, kernel, stopping, desynced, asked>>

StopSignalled ==
  /\ ~stopping /\ stopping' = TRUE
  /\ UNCHANGED <<stream, open, task, op, kernel, late, desynced, asked>>

-----------------------------------------------------------------------------
(* The kernel.                                                             *)

\* It copies between the caller's buffer and the pipe, some of what was asked.
KernelReads(e) ==
  /\ kernel[e].st = "queued" /\ task[e].does = "read" /\ stream[e] # <<>>
  /\ \E k \in 1 .. Wanted(e) :
       /\ k <= Len(stream[e])
       /\ kernel' = [kernel EXCEPT ![e] = [st |-> "done", moved |-> SubSeq(stream[e], 1, k)]]
       /\ stream' = [stream EXCEPT ![e] = SubSeq(@, k + 1, Len(@))]
  /\ UNCHANGED <<open, task, op, late, stopping, desynced, asked>>

KernelWrites(e) ==
  /\ kernel[e].st = "queued" /\ task[e].does = "write" /\ Peer(e) \in open
  /\ \E k \in 1 .. Wanted(e) :
       LET units == SubSeq(Frame(task[e].no), Len(task[e].part) + 1, Len(task[e].part) + k)
       IN /\ Len(stream[Peer(e)]) + k <= Room
          /\ kernel' = [kernel EXCEPT ![e] = [st |-> "done", moved |-> units]]
          /\ stream' = [stream EXCEPT ![Peer(e)] = @ \o units]
  /\ UNCHANGED <<open, task, op, late, stopping, desynced, asked>>

KernelFinds(e) ==
  /\ kernel[e].st = "queued" /\ Peer(e) \notin open
  /\ task[e].does = "read" => stream[e] = <<>>
  /\ kernel' = [kernel EXCEPT ![e].st = "broken"]
  /\ UNCHANGED <<stream, open, task, op, late, stopping, desynced, asked>>

\* An operation that was cancelled may still have been carried out before.
KernelAborts(e) ==
  /\ kernel[e].st = "queued" /\ op[e].at = "draining"
  /\ kernel' = [kernel EXCEPT ![e].st = "aborted"]
  /\ UNCHANGED <<stream, open, task, op, late, stopping, desynced, asked>>

Kernel(e) == KernelReads(e) \/ KernelWrites(e) \/ KernelFinds(e) \/ KernelAborts(e)

-----------------------------------------------------------------------------
(* One transfer (transfer_once; read_exact and write_all of the server).   *)

\* After which errors the client gives the connection up. Mutant: a timeout
\* counts as an answer that did not come.
OnlyBrokenLosesFrames == {"broken", "invalid"}
LosesFrames == {"timeout", "broken", "invalid"}

\* The task fails. The client keeps the handle and marks the connection; the
\* plugin's session ends, and DisconnectNamedPipe discards what was not read.
Fails(e, why) ==
  /\ task' = [task EXCEPT ![e] = Rest] /\ op' = [op EXCEPT ![e] = NoOp]
  /\ IF e = "client"
     THEN /\ desynced' = (desynced \/ why \in LosesFrames)
          /\ UNCHANGED <<stream, open>>
     ELSE /\ open' = open \ {"plugin"} /\ stream' = [stream EXCEPT !["client"] = <<>>]
          /\ UNCHANGED desynced

InTransfer(e, at) == task[e].does \in {"read", "write"} /\ op[e].at = at

\* The deadline is looked at before every operation.
RefusesToIssue(e) ==
  /\ InTransfer(e, "ready") /\ late[e]
  /\ Fails(e, "timeout")
  /\ UNCHANGED <<kernel, late, stopping, asked>>

\* What issue records before it hands the operation over. Mutant: nothing, so
\* that nobody waits for the cancelled operation.
NothingRecorded == FALSE
Recorded == TRUE

Issue(e) ==
  /\ InTransfer(e, "ready") /\ ~late[e]
  /\ op' = [op EXCEPT ![e].pending = Recorded, ![e].at = "waiting"]
  /\ kernel' = [kernel EXCEPT ![e] = [st |-> "queued", moved |-> <<>>]]
  /\ UNCHANGED <<stream, open, task, late, stopping, desynced, asked>>

\* The frame is complete: a request is executed, an answer compared with its
\* request, and after a write the client reads under the same deadline.
FrameEnds(e, whole) ==
  LET n == whole[1].of
  IN IF e = "plugin"
     THEN /\ task' = [task EXCEPT ![e] = IF @.does = "write" THEN Rest
                                        ELSE [Rest EXCEPT !.does = "execute", !.no = n]]
          /\ op' = [op EXCEPT ![e] = NoOp]
          /\ UNCHANGED desynced
     ELSE IF task[e].does = "write"
     THEN /\ task' = [task EXCEPT ![e] = Reads] /\ op' = [op EXCEPT ![e] = FreshOp]
          /\ UNCHANGED desynced
     ELSE /\ task' = [task EXCEPT ![e] = Rest] /\ op' = [op EXCEPT ![e] = NoOp]
          /\ desynced' = (desynced \/ (n # asked /\ "invalid" \in LosesFrames))

\* The result is taken. A transfer that is not complete issues the next
\* operation; a complete one is fed to the decoder, which wants more or has
\* the frame.
TakesResult(e) ==
  /\ InTransfer(e, "waiting") /\ kernel[e].st = "done"
  /\ kernel' = [kernel EXCEPT ![e] = Idle]
  /\ LET part == task[e].part \o kernel[e].moved
         whole == task[e].whole \o part
     IN IF Len(part) < Take(e)
        THEN /\ task' = [task EXCEPT ![e].part = part]
             /\ op' = [op EXCEPT ![e].pending = FALSE, ![e].at = "ready"]
             /\ UNCHANGED desynced
        ELSE IF Len(whole) < Body + 1
        THEN /\ task' = [task EXCEPT ![e].whole = whole, ![e].part = <<>>]
             /\ op' = [op EXCEPT ![e] = FreshOp]
             /\ UNCHANGED desynced
        ELSE FrameEnds(e, whole)
  /\ UNCHANGED <<stream, open, late, stopping, asked>>

\* The peer has closed: between two frames the end of the session, else an error.
FindsItBroken(e) ==
  /\ InTransfer(e, "waiting") /\ kernel[e].st = "broken"
  /\ kernel' = [kernel EXCEPT ![e] = Idle]
  /\ Fails(e, "broken")
  /\ UNCHANGED <<late, stopping, asked>>

\* The wait ends by the deadline or the stop signal. The operation may end
\* after the wait has, and is cancelled all the same; what it moved is lost.
GivesUp(e) ==
  /\ InTransfer(e, "waiting") /\ (late[e] \/ (e = "plugin" /\ stopping))
  /\ IF op[e].pending
     THEN op' = [op EXCEPT ![e].at = "draining"]
          /\ UNCHANGED <<stream, open, task, desynced>>
     ELSE Fails(e, "timeout")
  /\ UNCHANGED <<kernel, late, stopping, asked>>

\* cancel_and_drain returns when the kernel has let go of the buffer.
Drained(e) ==
  /\ InTransfer(e, "draining") /\ kernel[e].st # "queued"
  /\ kernel' = [kernel EXCEPT ![e] = Idle]
  /\ Fails(e, "timeout")
  /\ UNCHANGED <<late, stopping, asked>>

Transfer(e) ==
  \/ RefusesToIssue(e) \/ Issue(e) \/ TakesResult(e) \/ FindsItBroken(e) \/ GivesUp(e)
  \/ Drained(e)

FrameNext ==
  \/ ClientAsks \/ ClientCloses \/ PluginReads \/ PluginAnswers \/ StopSignalled
  \/ \E e \in Ends : DeadlinePasses(e) \/ Kernel(e) \/ Transfer(e)

FrameSpec == FrameInit /\ [][FrameNext]_frameVars
-----------------------------------------------------------------------------
FrameTypeOK ==
  /\ open \subseteq Ends /\ stopping \in BOOLEAN /\ desynced \in BOOLEAN
  /\ asked \in 0 .. MaxRequests /\ late \in [Ends -> BOOLEAN]
  /\ \A e \in Ends :
       /\ task[e].does \in {"rest", "write", "read", "execute"} /\ task[e].no \in 0 .. asked
       /\ Len(stream[e]) <= Room /\ Len(task[e].whole) + Len(task[e].part) <= Body
       /\ op[e] \in [held : BOOLEAN, pending : BOOLEAN, at : {"ready", "waiting", "draining"}]
       /\ kernel[e].st \in {"none", "queued", "done", "broken", "aborted"}

\* While the kernel has an operation, its OVERLAPPED, its buffer and its handle
\* are there, whichever of result, deadline, stop signal and lost connection
\* comes first, and no other operation is issued over it (OverlappedOp).
BufferOutlivesIo ==
  \A e \in Ends :
    kernel[e].st = "queued" => op[e].held /\ op[e].at # "ready" /\ e \in open

\* Whoever reads is in step with whoever writes: what the decoder takes for the
\* n-th unit of a frame is one, all of the same frame, and at the client of the
\* answer to its own last request, although units get lost when an operation
\* that was given up had moved some, and late answers stay in the pipe.
FramesInStep ==
  \A e \in Ends :
    task[e].does = "read" =>
      LET units == task[e].whole \o task[e].part
      IN \A i \in 1 .. Len(units) :
           /\ units[i].at = i /\ units[i].of = units[1].of
           /\ e = "client" => units[i].of = asked
=============================================================================
