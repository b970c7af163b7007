-------------------------- MODULE RenderTasksProofs --------------------------
(***************************************************************************)
(* Proofs about RenderTasks, for any number of requests, callbacks and     *)
(* abandoned tasks: the inventory is exact, the drain misses no task that  *)
(* the host owes, and no file is left without an owner.                    *)
(***************************************************************************)
EXTENDS RenderTasks, FiniteSetTheorems, SequenceTheorems, TLAPS

\* The shutdown counts what the host owes, and did not leave the accept thread
\* between its look at the stop signal and the host's answer.
Draining ==
  sd \notin {"running", "stopping"} /\ detached \notin {"checked", "issuing"}

\* What a task's slot, the host and the accept thread know of each other.
SlotsAgree ==
  /\ \A t \in Tasks :
       /\ slot[t] = "none" => task[t] = "none"
       /\ task[t] = "none" => calls[t] = 0
       /\ cb[t] # "away" => calls[t] # 0
       /\ slot[t] = "pending" => t = cur /\ pc \in {"issuing", "waiting", "abandoning"}
       /\ t \in Owed => slot[t] \in {"pending", "abandoned"}
  /\ pc \in {"before", "checked"} => slot[cur] = "none"
  /\ pc = "issuing" /\ task[cur] = "none" => slot[cur] = "pending"
  /\ pc = "releasing" => slot[cur] = "abandoned"

AbandonedTasks == {t \in Tasks : slot[t] = "abandoned"}

\* Inside abandon_at a task is counted on both sides, never on neither.
CountsAgree ==
  /\ pending = IF slot[cur] = "pending" \/ pc = "releasing" THEN 1 ELSE 0
  /\ Len(abandoned) = Cardinality(AbandonedTasks)

\* From the count on, no task is put in, and a count of zero missed none.
DrainHolds ==
  /\ Draining => pc \notin {"checked", "issuing"}
  /\ Draining /\ sd = "counted" /\ counted = 0 => \A t \in Tasks : slot[t] # "pending"
  /\ DrainedOwesNothing

\* Entries expire in the order they were recorded.
OldestFirst ==
  \A j, k \in DOMAIN abandoned : j < k /\ abandoned[k] = "old" => abandoned[j] = "old"

RInv == TypeOK /\ SlotsAgree /\ CountsAgree /\ DrainHolds

-----------------------------------------------------------------------------
(* Sequences of entries.                                                   *)

LEMMA WithoutLast ==
  ASSUME NEW S, NEW s \in Seq(S), s # <<>>
  PROVE  /\ SubSeq(s, 1, Len(s) - 1) \in Seq(S)
         /\ Len(SubSeq(s, 1, Len(s) - 1)) = Len(s) - 1
         /\ \A k \in 1 .. Len(s) - 1 : SubSeq(s, 1, Len(s) - 1)[k] = s[k]
<1>1. Len(s) \in Nat /\ Len(s) > 0 /\ Len(s) - 1 \in 0 .. Len(s)
  OBVIOUS
<1>2. SubSeq(s, 1, Len(s) - 1) \in Seq(S)
  OBVIOUS
<1>3. Len(SubSeq(s, 1, Len(s) - 1)) = Len(s) - 1
  BY <1>1
<1>4. ASSUME NEW k \in 1 .. Len(s) - 1 PROVE SubSeq(s, 1, Len(s) - 1)[k] = s[k]
  BY <1>1, SubSeqRestrict DEF Restrict
<1>5. QED
  BY <1>2, <1>3, <1>4

LEMMA NewestGone ==
  ASSUME NEW S, abandoned \in Seq(S), abandoned # <<>>
  PROVE  /\ WithoutNewest \in Seq(S) /\ Len(WithoutNewest) = Len(abandoned) - 1
         /\ \A k \in 1 .. Len(abandoned) - 1 : WithoutNewest[k] = abandoned[k]
BY WithoutLast DEF WithoutNewest

LEMMA NewestGoneType ==
  ASSUME TypeOK PROVE WithoutNewest \in Seq({"fresh", "old"})
<1>1. CASE abandoned = <<>>
  BY <1>1 DEF WithoutNewest
<1>2. CASE abandoned # <<>>
  BY <1>2, NewestGone DEF TypeOK
<1>3. QED
  BY <1>1, <1>2

-----------------------------------------------------------------------------
(* Types.                                                                  *)

LEMMA TypeInit == Init => TypeOK
<1> SUFFICES ASSUME Init PROVE TypeOK
  OBVIOUS
<1>1. pending \in Nat /\ abandoned \in Seq({"fresh", "old"})
  BY DEF Init
<1>2. /\ slot \in [Tasks -> SlotStates]
      /\ task \in [Tasks -> {"none", "queued", "finished"}]
      /\ calls \in [Tasks -> Nat]
      /\ cb \in [Tasks -> {"away", "copying", "leaving"}]
  BY DEF Init, SlotStates
<1>3. /\ pc \in AcceptStates /\ cur \in Tasks /\ files \subseteq Tasks
      /\ told \subseteq Tasks /\ sd \in ShutdownStates /\ counted \in Nat
  BY DEF Init, AcceptStates, ShutdownStates
<1>4. detached \in AcceptStates \cup {"no"} /\ timedOut \in BOOLEAN
  BY DEF Init
<1>5. QED
  BY <1>1, <1>2, <1>3, <1>4 DEF TypeOK

\* The types without the two flags, which no prover mixes well with the rest.
DataTypes ==
  /\ pending \in Nat /\ abandoned \in Seq({"fresh", "old"})
  /\ slot \in [Tasks -> SlotStates]
  /\ task \in [Tasks -> {"none", "queued", "finished"}]
  /\ calls \in [Tasks -> Nat]
  /\ cb \in [Tasks -> {"away", "copying", "leaving"}]
  /\ pc \in AcceptStates /\ cur \in Tasks
  /\ files \subseteq Tasks /\ told \subseteq Tasks
  /\ sd \in ShutdownStates /\ counted \in Nat

LEMMA FlagsStep ==
  ASSUME TypeOK, [Next]_vars
  PROVE  detached' \in AcceptStates \cup {"no"} /\ timedOut' \in BOOLEAN
<1>1. (detached' = detached \/ detached' = pc) /\ (timedOut' = timedOut \/ timedOut' = TRUE)
  <2> USE DEF inventory, hostVars, acceptVars, shutdownVars, vars
  <2>1. CASE AcceptStep
    BY <2>1 DEF AcceptStep, CheckStop, NewSlot, TakeResult, SeeStop, Abandon,
       AbandonEnds, AbandonTooLate, SendResponse, SendFails, AcceptEnds
  <2>2. CASE AcceptCall
    BY <2>2 DEF AcceptCall, RequestArrives, RequestFails, IssueReturns,
       IssueFails, DeadlinePasses, WriteArtifact
  <2>3. CASE ShutdownStep \/ Stop
    BY <2>3 DEF ShutdownStep, Join, Detach, ReadPending, ReadAbandoned,
       WaitReturns, WaitTimesOut, RemoveArtifacts, Unload, Stop
  <2>4. CASE HostStep \/ EntryExpires
    BY <2>4 DEF HostStep, HostTakesTask, CallbackArrives, CallbackCompletes,
       CallbackReturns, HostFinishes, ServerTakes, EntryExpires
  <2>5. QED
    BY <2>1, <2>2, <2>3, <2>4 DEF Next
<1>2. QED
  BY <1>1, Zenon DEF TypeOK

LEMMA AcceptTypes ==
  ASSUME TypeOK, AcceptStep \/ AcceptCall
  PROVE  DataTypes'
<1> USE DEF TypeOK, DataTypes, AcceptStates, inventory, hostVars, acceptVars, shutdownVars
<1>1. CASE CheckStop
  BY <1>1 DEF CheckStop
<1>2. CASE NewSlot
  BY <1>2 DEF NewSlot, SlotStates
<1>3. CASE TakeResult
  BY <1>3 DEF TakeResult, SlotStates
<1>4. CASE SeeStop \/ DeadlinePasses \/ AbandonTooLate \/ RequestFails \/ AcceptEnds
  BY <1>4 DEF SeeStop, DeadlinePasses, AbandonTooLate, RequestFails, AcceptEnds
<1>5. CASE Abandon
  <2>1. abandoned' = Append(abandoned, "fresh") /\ pending' = pending
    BY <1>5 DEF Abandon, RecordThenRelease
  <2>2. abandoned' \in Seq({"fresh", "old"})
    BY <2>1
  <2>3. slot' \in [Tasks -> SlotStates]
    BY <1>5 DEF Abandon, SlotStates
  <2>4. QED
    BY <1>5, <2>1, <2>2, <2>3 DEF Abandon
<1>6. CASE AbandonEnds
  BY <1>6 DEF AbandonEnds, RecordThenRelease, ReleaseIssue
<1>7. CASE SendResponse \/ SendFails \/ WriteArtifact
  BY <1>7 DEF SendResponse, SendFails, WriteArtifact, DiscardedFile
<1>8. CASE RequestArrives
  BY <1>8 DEF RequestArrives
<1>9. CASE IssueReturns
  BY <1>9 DEF IssueReturns
<1>10. CASE IssueFails
  BY <1>10 DEF IssueFails, ReleaseIssue, SlotStates
<1>11. QED
  BY <1>1, <1>2, <1>3, <1>4, <1>5, <1>6, <1>7, <1>8, <1>9, <1>10
  DEF AcceptStep, AcceptCall

LEMMA ShutdownTypes ==
  ASSUME TypeOK, ShutdownStep \/ Stop
  PROVE  DataTypes'
<1> USE DEF TypeOK, DataTypes, ShutdownStates, inventory, hostVars, acceptVars, shutdownVars
<1>1. CASE Join \/ Detach \/ Stop \/ Unload
  BY <1>1 DEF Join, Detach, Stop, Unload
<1>2. CASE ReadPending \/ ReadAbandoned
  BY <1>2 DEF ReadPending, ReadAbandoned
<1>3. CASE WaitReturns \/ WaitTimesOut \/ RemoveArtifacts
  BY <1>3 DEF WaitReturns, WaitTimesOut, RemoveArtifacts
<1>4. QED
  BY <1>1, <1>2, <1>3 DEF ShutdownStep

LEMMA HostTypes ==
  ASSUME TypeOK, HostStep \/ EntryExpires
  PROVE  DataTypes'
<1> USE DEF TypeOK, DataTypes, inventory, hostVars, acceptVars, shutdownVars
<1>1. CASE HostTakesTask
  BY <1>1 DEF HostTakesTask
<1>2. ASSUME NEW t \in Tasks, CallbackArrives(t) PROVE DataTypes'
  <2>1. abandoned' \in Seq({"fresh", "old"}) /\ pending' \in Nat
    BY <1>2, NewestGoneType, TypeOK DEF CallbackArrives, ArrivesAbandoned
  <2>2. slot' \in [Tasks -> SlotStates]
    BY <1>2 DEF CallbackArrives, ArrivesAbandoned, Arrived, SlotStates
  <2>3. calls' \in [Tasks -> Nat] /\ cb' \in [Tasks -> {"away", "copying", "leaving"}]
    BY <1>2 DEF CallbackArrives
  <2>4. QED
    BY <1>2, <2>1, <2>2, <2>3 DEF CallbackArrives
<1>3. ASSUME NEW t \in Tasks, CallbackCompletes(t) PROVE DataTypes'
  <2>1. abandoned' \in {abandoned, WithoutNewest}
    BY <1>3 DEF CallbackCompletes, ArrivesAbandoned
  <2>2. pending' \in Nat
    BY <1>3 DEF CallbackCompletes, ArrivesAbandoned, ReleaseIssue
  <2>3. slot' \in [Tasks -> SlotStates]
    BY <1>3 DEF CallbackCompletes, ArrivesAbandoned, Arrived, SlotStates
  <2>4. abandoned' \in Seq({"fresh", "old"})
    BY <2>1, NewestGoneType
  <2>5. QED
    BY <1>3, <2>2, <2>3, <2>4 DEF CallbackCompletes
<1>4. ASSUME NEW t \in Tasks, CallbackReturns(t) \/ HostFinishes(t) \/ ServerTakes(t)
      PROVE  DataTypes'
  BY <1>4 DEF CallbackReturns, HostFinishes, ServerTakes
<1>5. CASE EntryExpires
  BY <1>5 DEF EntryExpires, FreshEntries
<1>6. QED
  BY <1>1, <1>2, <1>3, <1>4, <1>5 DEF HostStep

LEMMA TypeStep == TypeOK /\ [Next]_vars => TypeOK'
<1> SUFFICES ASSUME TypeOK, [Next]_vars PROVE TypeOK'
  OBVIOUS
<1>1. DataTypes'
  <2>1. CASE Next
    BY <2>1, AcceptTypes, ShutdownTypes, HostTypes DEF Next
  <2>2. CASE UNCHANGED vars
    BY <2>2 DEF TypeOK, DataTypes, vars, inventory, hostVars, acceptVars, shutdownVars
  <2>3. QED
    BY <2>1, <2>2
<1>2. QED
  BY <1>1, FlagsStep, Zenon DEF TypeOK, DataTypes

\* The state of the slots, the inventory, the host, the accept thread and the
\* shutdown always has its type.
THEOREM RenderTypeCorrect == Spec => []TypeOK
<1>1. QED
  BY TypeInit, TypeStep, PTL DEF Spec

-----------------------------------------------------------------------------
(* Slots, host and accept thread.                                          *)

LEMMA SlotsInit == Init => SlotsAgree
BY DEF Init, SlotsAgree, Owed

LEMMA SlotsAccept ==
  ASSUME DataTypes, SlotsAgree, AcceptStep \/ AcceptCall
  PROVE  SlotsAgree'
<1> USE DEF DataTypes, SlotsAgree, Owed, inventory, hostVars, acceptVars, shutdownVars
<1>1. CASE CheckStop
  BY <1>1 DEF CheckStop
<1>2. CASE NewSlot
  BY <1>2 DEF NewSlot
<1>3. CASE TakeResult
  BY <1>3 DEF TakeResult
<1>4. CASE SeeStop
  BY <1>4 DEF SeeStop
<1>5. CASE DeadlinePasses
  BY <1>5 DEF DeadlinePasses
<1>6. CASE AbandonTooLate
  BY <1>6 DEF AbandonTooLate
<1>7. CASE RequestFails
  BY <1>7 DEF RequestFails
<1>8. CASE AcceptEnds
  BY <1>8 DEF AcceptEnds
<1>9. CASE Abandon
  BY <1>9 DEF Abandon
<1>10. CASE AbandonEnds
  BY <1>10 DEF AbandonEnds
<1>11. CASE SendResponse \/ SendFails \/ WriteArtifact
  BY <1>11 DEF SendResponse, SendFails, WriteArtifact
<1>12. CASE RequestArrives
  BY <1>12 DEF RequestArrives
<1>13. CASE IssueReturns
  BY <1>13 DEF IssueReturns
<1>14. CASE IssueFails
  BY <1>14 DEF IssueFails
<1>15. QED
  BY <1>1, <1>2, <1>3, <1>4, <1>5, <1>6, <1>7, <1>8, <1>9, <1>10, <1>11,
     <1>12, <1>13, <1>14 DEF AcceptStep, AcceptCall

LEMMA SlotsHost ==
  ASSUME DataTypes, SlotsAgree, HostStep
  PROVE  SlotsAgree'
<1> USE DEF DataTypes, SlotsAgree, Owed, inventory, hostVars, acceptVars, shutdownVars
<1>1. CASE HostTakesTask
  BY <1>1 DEF HostTakesTask
<1>2. ASSUME NEW t \in Tasks, CallbackArrives(t) PROVE SlotsAgree'
  BY <1>2 DEF CallbackArrives, ArrivesAbandoned, Arrived, MutexFree
<1>3. ASSUME NEW t \in Tasks, CallbackCompletes(t) PROVE SlotsAgree'
  BY <1>3 DEF CallbackCompletes, ArrivesAbandoned, Arrived, MutexFree
<1>4. ASSUME NEW t \in Tasks, CallbackReturns(t) PROVE SlotsAgree'
  BY <1>4 DEF CallbackReturns
<1>5. ASSUME NEW t \in Tasks, HostFinishes(t) PROVE SlotsAgree'
  BY <1>5 DEF HostFinishes
<1>6. ASSUME NEW t \in Tasks, ServerTakes(t) PROVE SlotsAgree'
  BY <1>6 DEF ServerTakes
<1>7. QED
  BY <1>1, <1>2, <1>3, <1>4, <1>5, <1>6 DEF HostStep

\* The shutdown and the passing of time touch neither slots nor tasks.
LEMMA SlotsUntouched ==
  ASSUME ShutdownStep \/ Stop \/ EntryExpires \/ UNCHANGED vars
  PROVE  UNCHANGED <<slot, task, calls, cb, pc, cur>>
BY DEF ShutdownStep, Join, Detach, ReadPending, ReadAbandoned, WaitReturns,
   WaitTimesOut, RemoveArtifacts, Unload, Stop, EntryExpires, vars, inventory,
   hostVars, acceptVars, shutdownVars

LEMMA SlotsStep ==
  ASSUME DataTypes, SlotsAgree, [Next]_vars
  PROVE  SlotsAgree'
<1>1. CASE AcceptStep \/ AcceptCall
  BY <1>1, SlotsAccept
<1>2. CASE HostStep
  BY <1>2, SlotsHost
<1>3. CASE ShutdownStep \/ Stop \/ EntryExpires \/ UNCHANGED vars
  BY <1>3, SlotsUntouched DEF SlotsAgree, Owed
<1>4. QED
  BY <1>1, <1>2, <1>3 DEF Next

-----------------------------------------------------------------------------
(* The inventory.                                                          *)

LEMMA FiniteTasks == IsFiniteSet(AbandonedTasks) /\ AbandonedTasks \subseteq Tasks
<1>1. AbandonedTasks \subseteq Tasks
  BY DEF AbandonedTasks
<1>2. QED
  BY <1>1, FS_Subset, RenderAssumption

LEMMA CountsInit == Init => CountsAgree
<1> SUFFICES ASSUME Init PROVE CountsAgree
  OBVIOUS
<1>1. AbandonedTasks = {}
  BY DEF Init, AbandonedTasks
<1>2. Len(abandoned) = 0
  BY DEF Init
<1>3. QED
  BY <1>1, <1>2, FS_EmptySet DEF Init, CountsAgree

\* A callback that finds its slot abandoned takes one entry and one task away.
LEMMA ArrivalCounts ==
  ASSUME DataTypes, CountsAgree, NEW t \in Tasks, ArrivesAbandoned(t)
  PROVE  Len(abandoned') = Cardinality(AbandonedTasks')
<1>1. AbandonedTasks' = AbandonedTasks \ {t}
  BY DEF ArrivesAbandoned, Arrived, AbandonedTasks, DataTypes
<1>2. t \in AbandonedTasks
  BY DEF ArrivesAbandoned, AbandonedTasks
<1>3. Cardinality(AbandonedTasks') = Cardinality(AbandonedTasks) - 1
  BY <1>1, <1>2, FiniteTasks, FS_RemoveElement
<1>4. Cardinality(AbandonedTasks) # 0
  BY <1>2, FiniteTasks, FS_EmptySet
<1>5. abandoned # <<>>
  BY <1>4 DEF CountsAgree
<1>6. Len(abandoned') = Len(abandoned) - 1
  BY <1>5, NewestGone DEF ArrivesAbandoned, DataTypes
<1>7. QED
  BY <1>3, <1>6 DEF CountsAgree

\* What leaves both counters and the slot of the current request alone.
LEMMA CountsStay ==
  ASSUME CountsAgree, UNCHANGED <<pending, cur>>,
         Len(abandoned') = Len(abandoned), AbandonedTasks' = AbandonedTasks,
         (slot'[cur] = "pending" \/ pc' = "releasing")
           <=> (slot[cur] = "pending" \/ pc = "releasing")
  PROVE  CountsAgree'
BY DEF CountsAgree

LEMMA CountsAccept ==
  ASSUME DataTypes, SlotsAgree, CountsAgree, AcceptStep \/ AcceptCall
  PROVE  CountsAgree'
<1> USE DEF inventory, hostVars, acceptVars, shutdownVars
<1>1. CASE NewSlot
  <2>1. AbandonedTasks' = AbandonedTasks
    BY <1>1 DEF NewSlot, AbandonedTasks, DataTypes, SlotsAgree
  <2>2. pending = 0 /\ pending' = pending + 1
    BY <1>1 DEF NewSlot, CountsAgree, SlotsAgree
  <2>3. slot'[cur'] = "pending"
    BY <1>1 DEF NewSlot, DataTypes
  <2>4. QED
    BY <1>1, <2>1, <2>2, <2>3 DEF NewSlot, CountsAgree
<1>2. CASE Abandon
  <2>1. AbandonedTasks' = AbandonedTasks \cup {cur} /\ cur \notin AbandonedTasks
    BY <1>2 DEF Abandon, AbandonedTasks, DataTypes
  <2>2. Cardinality(AbandonedTasks') = Cardinality(AbandonedTasks) + 1
    BY <2>1, FiniteTasks, FS_AddElement
  <2>3. Len(abandoned') = Len(abandoned) + 1
    BY <1>2 DEF Abandon, RecordThenRelease, DataTypes
  <2>4. pending' = 1 /\ pc' = "releasing"
    BY <1>2 DEF Abandon, RecordThenRelease, CountsAgree
  <2>5. QED
    BY <2>2, <2>3, <2>4 DEF CountsAgree
<1>3. CASE AbandonEnds
  <2>1. pending' = 0 /\ UNCHANGED <<abandoned, slot, cur>> /\ pc' = "idle"
    BY <1>3 DEF AbandonEnds, RecordThenRelease, ReleaseIssue, CountsAgree
  <2>2. slot'[cur'] = "abandoned"
    BY <1>3, <2>1 DEF AbandonEnds, SlotsAgree
  <2>3. QED
    BY <2>1, <2>2 DEF CountsAgree, AbandonedTasks
<1>4. CASE IssueFails
  <2>1. slot[cur] = "pending"
    BY <1>4 DEF IssueFails, SlotsAgree
  <2>2. pending' = 0
    BY <1>4, <2>1 DEF IssueFails, ReleaseIssue, CountsAgree
  <2>3. slot'[cur'] = "arrived" /\ pc' = "idle" /\ UNCHANGED abandoned
    BY <1>4 DEF IssueFails, DataTypes
  <2>4. AbandonedTasks' = AbandonedTasks
    BY <1>4, <2>1 DEF IssueFails, AbandonedTasks, DataTypes
  <2>5. QED
    BY <2>2, <2>3, <2>4 DEF CountsAgree
<1>5. CASE RequestArrives
  <2>1. pending = 0
    BY <1>5 DEF RequestArrives, CountsAgree, SlotsAgree, DataTypes
  <2>2. slot'[cur'] # "pending" /\ pc' # "releasing"
    BY <1>5 DEF RequestArrives
  <2>3. UNCHANGED <<pending, abandoned, slot>>
    BY <1>5 DEF RequestArrives
  <2>4. QED
    BY <2>1, <2>2, <2>3 DEF CountsAgree, AbandonedTasks
<1>6. CASE TakeResult
  <2>1. AbandonedTasks' = AbandonedTasks
    BY <1>6 DEF TakeResult, AbandonedTasks, DataTypes
  <2>2. QED
    BY <1>6, <2>1, CountsStay DEF TakeResult, DataTypes
<1>7. CASE CheckStop \/ SeeStop \/ DeadlinePasses \/ AbandonTooLate \/ RequestFails
  BY <1>7, CountsStay DEF CheckStop, SeeStop, DeadlinePasses, AbandonTooLate,
     RequestFails, AbandonedTasks
<1>8. CASE AcceptEnds \/ SendResponse \/ SendFails \/ WriteArtifact \/ IssueReturns
  BY <1>8, CountsStay DEF AcceptEnds, SendResponse, SendFails, WriteArtifact,
     IssueReturns, AbandonedTasks
<1>9. QED
  BY <1>1, <1>2, <1>3, <1>4, <1>5, <1>6, <1>7, <1>8 DEF AcceptStep, AcceptCall

LEMMA CountsHost ==
  ASSUME DataTypes, SlotsAgree, CountsAgree, HostStep
  PROVE  CountsAgree'
<1> USE DEF inventory, hostVars, acceptVars, shutdownVars
<1>1. ASSUME NEW t \in Tasks, ArrivesAbandoned(t), MutexFree(t),
             UNCHANGED <<pc, cur>>
      PROVE  CountsAgree'
  <2>1. (slot'[cur] = "pending" \/ pc' = "releasing")
          <=> (slot[cur] = "pending" \/ pc = "releasing")
    BY <1>1 DEF ArrivesAbandoned, Arrived, DataTypes
  <2>2. QED
    BY <1>1, <2>1, ArrivalCounts DEF CountsAgree, ArrivesAbandoned
<1>2. ASSUME NEW t \in Tasks, CallbackArrives(t) PROVE CountsAgree'
  <2>1. CASE ArrivesAbandoned(t)
    BY <1>1, <1>2, <2>1 DEF CallbackArrives
  <2>2. CASE UNCHANGED <<slot, inventory>>
    BY <1>2, <2>2, CountsStay DEF CallbackArrives, AbandonedTasks
  <2>3. QED
    BY <1>2, <2>1, <2>2 DEF CallbackArrives
<1>3. ASSUME NEW t \in Tasks, CallbackCompletes(t) PROVE CountsAgree'
  <2>1. CASE ArrivesAbandoned(t)
    BY <1>1, <1>3, <2>1 DEF CallbackCompletes
  <2>2. CASE UNCHANGED <<slot, inventory>>
    BY <1>3, <2>2, CountsStay DEF CallbackCompletes, AbandonedTasks
  <2>3. CASE slot[t] = "pending"
    <3>1. t = cur /\ pc # "releasing"
      BY <2>3 DEF SlotsAgree
    <3>2. slot' = [slot EXCEPT ![t] = "done"] /\ ReleaseIssue /\ UNCHANGED <<abandoned, pc, cur>>
      BY <1>3, <2>3 DEF CallbackCompletes, ArrivesAbandoned
    <3>3. pending' = 0 /\ slot'[cur'] = "done"
      BY <2>3, <3>1, <3>2 DEF ReleaseIssue, CountsAgree, DataTypes
    <3>4. AbandonedTasks' = AbandonedTasks
      BY <2>3, <3>2 DEF AbandonedTasks, DataTypes
    <3>5. QED
      BY <3>1, <3>2, <3>3, <3>4 DEF CountsAgree
  <2>4. QED
    BY <1>3, <2>1, <2>2, <2>3 DEF CallbackCompletes
<1>4. ASSUME NEW t \in Tasks, CallbackReturns(t) \/ HostFinishes(t) \/ ServerTakes(t)
      PROVE  CountsAgree'
  BY <1>4, CountsStay DEF CallbackReturns, HostFinishes, ServerTakes, AbandonedTasks
<1>5. CASE HostTakesTask
  BY <1>5, CountsStay DEF HostTakesTask, AbandonedTasks
<1>6. QED
  BY <1>2, <1>3, <1>4, <1>5 DEF HostStep

LEMMA CountsStep ==
  ASSUME DataTypes, SlotsAgree, CountsAgree, [Next]_vars
  PROVE  CountsAgree'
<1>1. CASE AcceptStep \/ AcceptCall
  BY <1>1, CountsAccept
<1>2. CASE HostStep
  BY <1>2, CountsHost
<1>3. CASE ShutdownStep \/ Stop \/ UNCHANGED vars
  <2>1. UNCHANGED <<pending, abandoned>>
    BY <1>3 DEF ShutdownStep, Join, Detach, ReadPending, ReadAbandoned,
       WaitReturns, WaitTimesOut, RemoveArtifacts, Unload, Stop, vars, inventory
  <2>2. QED
    BY <1>3, <2>1, SlotsUntouched DEF CountsAgree, AbandonedTasks
<1>4. CASE EntryExpires
  <2>1. Len(abandoned') = Len(abandoned) /\ UNCHANGED pending
    BY <1>4 DEF EntryExpires, DataTypes
  <2>2. QED
    BY <1>4, <2>1, SlotsUntouched DEF CountsAgree, AbandonedTasks
<1>5. QED
  BY <1>1, <1>2, <1>3, <1>4 DEF Next

-----------------------------------------------------------------------------
(* The drain.                                                              *)

LEMMA DrainInit == Init => DrainHolds
BY DEF Init, DrainHolds, DrainedOwesNothing

\* A count of zero while no task can be put in means that none is owed.
LEMMA ZeroMeansNone ==
  ASSUME DataTypes, SlotsAgree, CountsAgree, DrainHolds, Draining, sd = "counted",
         counted + Len(abandoned) = 0
  PROVE  Owed = {}
<1>1. counted = 0 /\ Len(abandoned) = 0
  BY DEF DataTypes
<1>2. AbandonedTasks = {}
  BY <1>1, FiniteTasks, FS_EmptySet DEF CountsAgree
<1>3. \A t \in Tasks : slot[t] \notin {"pending", "abandoned"}
  BY <1>1, <1>2 DEF DrainHolds, AbandonedTasks
<1>4. QED
  BY <1>3 DEF SlotsAgree, Owed

\* What the accept thread and the host do while the shutdown drains: no task
\* becomes pending, none becomes owed.
LEMMA DrainUndisturbed ==
  ASSUME DataTypes, DrainHolds, UNCHANGED <<sd, counted, detached, timedOut>>,
         Draining => pc' \notin {"checked", "issuing"},
         Draining =>
           \A t \in Tasks : slot'[t] = "pending" => slot[t] = "pending",
         Draining => Owed' \subseteq Owed
  PROVE  DrainHolds'
BY DEF Draining, DrainHolds, DrainedOwesNothing

LEMMA DrainAccept ==
  ASSUME DataTypes, SlotsAgree, DrainHolds, AcceptStep \/ AcceptCall
  PROVE  DrainHolds'
<1> USE DEF inventory, hostVars, acceptVars, shutdownVars
<1>1. UNCHANGED <<sd, counted, detached, timedOut>> /\ Owed' = Owed
  <2>1. CASE AcceptStep
    BY <2>1 DEF AcceptStep, CheckStop, NewSlot, TakeResult, SeeStop, Abandon,
       AbandonEnds, AbandonTooLate, SendResponse, SendFails, AcceptEnds, Owed
  <2>2. CASE AcceptCall
    BY <2>2 DEF AcceptCall, RequestArrives, RequestFails, IssueReturns,
       IssueFails, DeadlinePasses, WriteArtifact, Owed
  <2>3. QED
    BY <2>1, <2>2
<1>2. Draining => pc' \notin {"checked", "issuing"}
  <2>1. CASE AcceptStep
    BY <2>1 DEF AcceptStep, CheckStop, NewSlot, TakeResult, SeeStop, Abandon,
       AbandonEnds, AbandonTooLate, SendResponse, SendFails, AcceptEnds,
       Draining, DrainHolds, Stopped
  <2>2. CASE AcceptCall
    BY <2>2 DEF AcceptCall, RequestArrives, RequestFails, IssueReturns,
       IssueFails, DeadlinePasses, WriteArtifact
  <2>3. QED
    BY <2>1, <2>2
<1>3. Draining =>
        \A t \in Tasks : slot'[t] = "pending" => slot[t] = "pending"
  <2>1. CASE AcceptStep
    BY <2>1 DEF AcceptStep, CheckStop, NewSlot, TakeResult, SeeStop, Abandon,
       AbandonEnds, AbandonTooLate, SendResponse, SendFails, AcceptEnds,
       Draining, DrainHolds, DataTypes
  <2>2. CASE AcceptCall
    BY <2>2 DEF AcceptCall, RequestArrives, RequestFails, IssueReturns,
       IssueFails, DeadlinePasses, WriteArtifact, DataTypes
  <2>3. QED
    BY <2>1, <2>2
<1>4. QED
  BY <1>1, <1>2, <1>3, DrainUndisturbed

LEMMA DrainHost ==
  ASSUME DataTypes, SlotsAgree, DrainHolds, HostStep
  PROVE  DrainHolds'
<1> USE DEF inventory, hostVars, acceptVars, shutdownVars
<1>1. UNCHANGED <<sd, counted, detached, timedOut, pc>>
  BY DEF HostStep, HostTakesTask, CallbackArrives, CallbackCompletes,
     CallbackReturns, HostFinishes, ServerTakes
<1>2. \A t \in Tasks : slot'[t] = "pending" => slot[t] = "pending"
  BY DEF HostStep, HostTakesTask, CallbackArrives, CallbackCompletes,
     CallbackReturns, HostFinishes, ServerTakes, ArrivesAbandoned, Arrived, DataTypes
<1>3. CASE HostTakesTask
  <2>1. ~Draining
    BY <1>3 DEF HostTakesTask, Draining, DrainHolds
  <2>2. QED
    BY <1>1, <2>1 DEF Draining, DrainHolds, DrainedOwesNothing
<1>4. ASSUME NEW t \in Tasks, CallbackArrives(t) PROVE Owed' \subseteq Owed
  BY <1>4 DEF CallbackArrives, Owed, DataTypes
<1>5. ASSUME NEW t \in Tasks, CallbackCompletes(t) \/ CallbackReturns(t) \/ ServerTakes(t)
      PROVE  Owed' = Owed
  BY <1>5 DEF CallbackCompletes, CallbackReturns, ServerTakes, Owed
<1>6. ASSUME NEW t \in Tasks, HostFinishes(t) PROVE Owed' \subseteq Owed
  BY <1>6 DEF HostFinishes, Owed, DataTypes
<1>7. CASE ~HostTakesTask
  <2>1. Owed' \subseteq Owed
    BY <1>4, <1>5, <1>6, <1>7 DEF HostStep
  <2>2. QED
    BY <1>1, <1>2, <2>1, DrainUndisturbed DEF Draining, DrainHolds
<1>8. QED
  BY <1>3, <1>7

LEMMA DrainShutdown ==
  ASSUME DataTypes, SlotsAgree, CountsAgree, DrainHolds,
         ShutdownStep \/ Stop
  PROVE  DrainHolds'
<1> USE DEF inventory, hostVars, acceptVars, shutdownVars
<1>0. UNCHANGED <<slot, task, calls, cb, pc, cur>>
  BY SlotsUntouched
<1>1. CASE Stop
  BY <1>0, <1>1 DEF Stop, Draining, DrainHolds, DrainedOwesNothing
<1>2. CASE Join \/ Detach
  <2>1. sd' = "counting" /\ (Draining' => pc \notin {"checked", "issuing"})
    BY <1>2 DEF Join, Detach, Draining
  <2>2. QED
    BY <1>0, <2>1 DEF Draining, DrainHolds, DrainedOwesNothing
<1>3. CASE ReadPending
  <2>1. counted' = 0 => slot[cur] # "pending"
    BY <1>3 DEF ReadPending, CountsAgree
  <2>2. QED
    BY <1>0, <1>3, <2>1 DEF ReadPending, Draining, DrainHolds, DrainedOwesNothing, SlotsAgree
<1>4. CASE ReadAbandoned
  <2>1. sd' = "drained" /\ Draining' => Owed' = {}
    BY <1>0, <1>4, ZeroMeansNone DEF ReadAbandoned, Draining, Owed
  <2>2. sd' \in {"drained", "waiting"}
    BY <1>4 DEF ReadAbandoned
  <2>3. QED
    BY <1>0, <1>4, <2>1, <2>2 DEF ReadAbandoned, Draining, DrainHolds, DrainedOwesNothing
<1>5. CASE WaitReturns
  <2>1. Owed' = {}
    BY <1>0, <1>5 DEF WaitReturns, Owed
  <2>2. QED
    BY <1>0, <1>5, <2>1 DEF WaitReturns, Draining, DrainHolds, DrainedOwesNothing
<1>6. CASE WaitTimesOut
  BY <1>0, <1>6 DEF WaitTimesOut, Draining, DrainHolds, DrainedOwesNothing
<1>7. CASE RemoveArtifacts \/ Unload
  <2>1. Owed' = Owed
    BY <1>0 DEF Owed
  <2>2. QED
    BY <1>0, <1>7, <2>1 DEF RemoveArtifacts, Unload, Draining, DrainHolds, DrainedOwesNothing
<1>8. QED
  BY <1>1, <1>2, <1>3, <1>4, <1>5, <1>6, <1>7 DEF ShutdownStep

LEMMA DrainStep ==
  ASSUME DataTypes, SlotsAgree, CountsAgree, DrainHolds, [Next]_vars
  PROVE  DrainHolds'
<1>1. CASE AcceptStep \/ AcceptCall
  BY <1>1, DrainAccept
<1>2. CASE HostStep
  BY <1>2, DrainHost
<1>3. CASE ShutdownStep \/ Stop
  BY <1>3, DrainShutdown
<1>4. CASE EntryExpires \/ UNCHANGED vars
  <2>1. UNCHANGED <<sd, counted, detached, timedOut>>
    BY <1>4 DEF EntryExpires, vars, shutdownVars
  <2>2. QED
    BY <1>4, <2>1, SlotsUntouched DEF Draining, DrainHolds, DrainedOwesNothing, Owed
<1>5. QED
  BY <1>1, <1>2, <1>3, <1>4 DEF Next

LEMMA RInvInductive ==
  /\ Init => TypeOK /\ SlotsAgree /\ CountsAgree
  /\ TypeOK /\ SlotsAgree /\ CountsAgree /\ [Next]_vars
       => (TypeOK /\ SlotsAgree /\ CountsAgree)'
<1>1. TypeOK => DataTypes
  BY Zenon DEF TypeOK, DataTypes
<1>2. QED
  BY <1>1, TypeInit, SlotsInit, CountsInit, TypeStep, SlotsStep, CountsStep, Zenon

LEMMA ExactFromCounts == TypeOK /\ SlotsAgree /\ CountsAgree => InventoryExact
<1> SUFFICES ASSUME DataTypes, SlotsAgree, CountsAgree, pc # "releasing"
             PROVE  /\ pending = Cardinality({t \in Tasks : slot[t] = "pending"})
                    /\ Len(abandoned) = Cardinality({t \in Tasks : slot[t] = "abandoned"})
  BY Zenon DEF InventoryExact, TypeOK, DataTypes
<1>1. CASE slot[cur] = "pending"
  <2>1. {t \in Tasks : slot[t] = "pending"} = {cur}
    BY <1>1 DEF SlotsAgree, DataTypes
  <2>2. QED
    BY <1>1, <2>1, FS_Singleton DEF CountsAgree, AbandonedTasks
<1>2. CASE slot[cur] # "pending"
  <2>1. {t \in Tasks : slot[t] = "pending"} = {}
    BY <1>2 DEF SlotsAgree
  <2>2. QED
    BY <1>2, <2>1, FS_EmptySet DEF CountsAgree, AbandonedTasks
<1>3. QED
  BY <1>1, <1>2

\* The inventory counts every slot that waits for its callback, exactly once,
\* for any number of requests and of callbacks per task.
THEOREM CountsEveryTask == Spec => []InventoryExact
<1>1. Spec => [](TypeOK /\ SlotsAgree /\ CountsAgree)
  BY RInvInductive, PTL DEF Spec
<1>2. QED
  BY <1>1, ExactFromCounts, PTL

\* Wherever the accept thread was when the stop gave up on it, other than between
\* its look at the stop and the host's answer, a drain that ends without giving up leaves no callback to come: no order of the stop,
\* the issue, the abandoning and the two reads of the inventory loses a task.
THEOREM DrainMissesNothing == Spec => []DrainedOwesNothing
<1>1. TypeOK => DataTypes
  BY Zenon DEF TypeOK, DataTypes
<1>2. Init => DrainHolds
  BY DrainInit
<1>3. TypeOK /\ SlotsAgree /\ CountsAgree /\ DrainHolds /\ [Next]_vars => DrainHolds'
  BY <1>1, DrainStep, Zenon
<1>4. DrainHolds => DrainedOwesNothing
  BY DEF DrainHolds
<1>5. QED
  BY RInvInductive, <1>2, <1>3, <1>4, PTL DEF Spec

-----------------------------------------------------------------------------
(* The order of the entries and the room for new requests.                 *)

LEMMA FreshOfFinite ==
  ASSUME NEW s \in Seq({"fresh", "old"})
  PROVE  /\ IsFiniteSet({k \in DOMAIN s : s[k] = "fresh"})
         /\ Cardinality({k \in DOMAIN s : s[k] = "fresh"}) \in Nat
<1>1. {k \in DOMAIN s : s[k] = "fresh"} \subseteq 1 .. Len(s) /\ 1 \in Int /\ Len(s) \in Int
  OBVIOUS
<1>2. IsFiniteSet({k \in DOMAIN s : s[k] = "fresh"})
  BY <1>1, FS_Interval, FS_Subset
<1>3. QED
  BY <1>2, FS_CardinalityType

LEMMA FreshFinite ==
  ASSUME DataTypes PROVE IsFiniteSet(FreshEntries) /\ Cardinality(FreshEntries) \in Nat
BY FreshOfFinite DEF FreshEntries, DataTypes

\* What a step does to the entries: nothing, a record, a removal or an expiry.
LEMMA EntrySteps ==
  ASSUME DataTypes, SlotsAgree, CountsAgree, [Next]_vars
  PROVE  \/ abandoned' = abandoned
         \/ pc = "abandoning" /\ pc' = "releasing" /\ abandoned' = Append(abandoned, "fresh")
         \/ abandoned' = WithoutNewest /\ abandoned # <<>> /\ UNCHANGED pc
         \/ EntryExpires
<1> USE DEF inventory, hostVars, acceptVars, shutdownVars
<1>1. ASSUME NEW t \in Tasks, ArrivesAbandoned(t)
      PROVE  abandoned' = WithoutNewest /\ abandoned # <<>>
  <2>1. t \in AbandonedTasks
    BY <1>1 DEF ArrivesAbandoned, AbandonedTasks
  <2>2. Cardinality(AbandonedTasks) # 0
    BY <2>1, FiniteTasks, FS_EmptySet
  <2>3. QED
    BY <1>1, <2>2 DEF ArrivesAbandoned, CountsAgree
<1>2. CASE AcceptStep
  BY <1>2 DEF AcceptStep, CheckStop, NewSlot, TakeResult, SeeStop, Abandon,
     AbandonEnds, AbandonTooLate, SendResponse, SendFails, AcceptEnds, RecordThenRelease
<1>3. CASE AcceptCall
  BY <1>3 DEF AcceptCall, RequestArrives, RequestFails, IssueReturns, IssueFails,
     DeadlinePasses, WriteArtifact
<1>4. CASE ShutdownStep \/ Stop
  BY <1>4 DEF ShutdownStep, Join, Detach, ReadPending, ReadAbandoned, WaitReturns,
     WaitTimesOut, RemoveArtifacts, Unload, Stop
<1>5. CASE HostStep
  BY <1>1, <1>5 DEF HostStep, HostTakesTask, CallbackArrives, CallbackCompletes,
     CallbackReturns, HostFinishes, ServerTakes
<1>6. QED
  BY <1>2, <1>3, <1>4, <1>5 DEF Next, vars

LEMMA RecordedFresh ==
  ASSUME DataTypes, abandoned' = Append(abandoned, "fresh")
  PROVE  FreshEntries' = FreshEntries \cup {Len(abandoned) + 1}
BY DEF DataTypes, FreshEntries

LEMMA RemovedFresh ==
  ASSUME DataTypes, abandoned # <<>>, abandoned' = WithoutNewest
  PROVE  FreshEntries' = FreshEntries \ {Len(abandoned)}
<1>1. /\ Len(abandoned') = Len(abandoned) - 1
      /\ \A k \in 1 .. Len(abandoned) - 1 : abandoned'[k] = abandoned[k]
      /\ abandoned' \in Seq({"fresh", "old"})
  BY NewestGone DEF DataTypes
<1>2. DOMAIN abandoned = 1 .. Len(abandoned) /\ DOMAIN abandoned' = 1 .. Len(abandoned) - 1
      /\ Len(abandoned) \in Nat
  BY <1>1 DEF DataTypes
<1>3. QED
  BY <1>1, <1>2 DEF FreshEntries

LEMMA ExpiredFresh ==
  ASSUME DataTypes, EntryExpires
  PROVE  FreshEntries' \subseteq FreshEntries /\ UNCHANGED pc
BY DEF DataTypes, EntryExpires, FreshEntries, acceptVars

LEMMA OldestFirstStep ==
  ASSUME DataTypes, SlotsAgree, CountsAgree, OldestFirst, [Next]_vars
  PROVE  OldestFirst'
<1>1. CASE abandoned' = abandoned
  BY <1>1 DEF OldestFirst
<1>2. CASE abandoned' = Append(abandoned, "fresh")
  BY <1>2 DEF OldestFirst, DataTypes
<1>3. CASE abandoned' = WithoutNewest /\ abandoned # <<>>
  <2>1. /\ DOMAIN abandoned' = 1 .. Len(abandoned) - 1 /\ DOMAIN abandoned = 1 .. Len(abandoned)
        /\ \A k \in 1 .. Len(abandoned) - 1 : abandoned'[k] = abandoned[k]
        /\ Len(abandoned) \in Nat
    BY <1>3, NewestGone DEF DataTypes
  <2>2. QED
    BY <2>1 DEF OldestFirst
<1>4. CASE EntryExpires
  BY <1>4 DEF EntryExpires, OldestFirst, FreshEntries, DataTypes
<1>5. QED
  BY <1>1, <1>2, <1>3, <1>4, EntrySteps

\* A request on its way to a slot was accepted with room for one more.
RoomKept ==
  /\ AbandonedBounded
  /\ pc \in {"before", "checked", "issuing", "waiting", "abandoning"} => AcceptsNewRender

LEMMA RoomStep ==
  ASSUME DataTypes, DataTypes', SlotsAgree, CountsAgree, RoomKept, [Next]_vars
  PROVE  RoomKept'
<1>1. /\ Cardinality(FreshEntries) \in Nat /\ Cardinality(FreshEntries') \in Nat
      /\ MaxAbandoned \in Nat
  <2>1. Cardinality(FreshEntries') \in Nat
    BY FreshOfFinite DEF DataTypes, FreshEntries
  <2>2. QED
    BY <2>1, FreshFinite, RenderAssumption
<1>2. CASE FreshEntries' \subseteq FreshEntries
  <2>1. Cardinality(FreshEntries') <= Cardinality(FreshEntries)
    BY <1>2, FreshFinite, FS_Subset
  <2>2. pc' \in {"before", "checked", "issuing", "waiting", "abandoning"} =>
          pc \in {"before", "checked", "issuing", "waiting", "abandoning"} \/ AcceptsNewRender
    BY DEF Next, AcceptStep, CheckStop, NewSlot, TakeResult, SeeStop, Abandon,
       AbandonEnds, AbandonTooLate, SendResponse, SendFails, AcceptEnds,
       AcceptCall, RequestArrives, RequestFails, IssueReturns, IssueFails,
       DeadlinePasses, WriteArtifact, ShutdownStep, Join, Detach, ReadPending,
       ReadAbandoned, WaitReturns, WaitTimesOut, RemoveArtifacts, Unload, Stop,
       HostStep, HostTakesTask, CallbackArrives, CallbackCompletes,
       CallbackReturns, HostFinishes, ServerTakes, EntryExpires, vars, acceptVars
  <2>3. QED
    BY <1>1, <2>1, <2>2 DEF RoomKept, AbandonedBounded, AcceptsNewRender
<1>3. CASE pc = "abandoning" /\ pc' = "releasing" /\ abandoned' = Append(abandoned, "fresh")
  <2>1. FreshEntries' = FreshEntries \cup {Len(abandoned) + 1}
    BY <1>3, RecordedFresh
  <2>2. Cardinality(FreshEntries') <= Cardinality(FreshEntries) + 1
    <3>1. Cardinality(FreshEntries \cup {Len(abandoned) + 1})
            \in {Cardinality(FreshEntries), Cardinality(FreshEntries) + 1}
      BY FreshFinite, FS_AddElement
    <3>2. QED
      BY <1>1, <2>1, <3>1
  <2>3. QED
    BY <1>1, <1>3, <2>2 DEF RoomKept, AbandonedBounded, AcceptsNewRender
<1>4. QED
  <2>1. abandoned' = abandoned => FreshEntries' = FreshEntries
    BY DEF FreshEntries
  <2>2. abandoned' = WithoutNewest /\ abandoned # <<>> => FreshEntries' \subseteq FreshEntries
    BY RemovedFresh
  <2>3. QED
    BY <1>2, <1>3, <2>1, <2>2, EntrySteps, ExpiredFresh

\* Never more than MAX_ABANDONED_RENDERS tasks within the TTL are abandoned:
\* the one look at the inventory when a request begins is enough.
THEOREM RoomIsBounded == Spec => []AbandonedBounded
<1>1. Init => RoomKept
  <2> SUFFICES ASSUME Init PROVE RoomKept
    OBVIOUS
  <2>1. FreshEntries = {} /\ pc = "idle"
    BY DEF Init, FreshEntries
  <2>2. QED
    BY <2>1, FS_EmptySet, RenderAssumption DEF RoomKept, AbandonedBounded
<1>2. TypeOK => DataTypes
  BY Zenon DEF TypeOK, DataTypes
<1>3. TypeOK' => DataTypes'
  BY Zenon DEF TypeOK, DataTypes
<1>4. TypeOK /\ TypeOK' /\ SlotsAgree /\ CountsAgree /\ RoomKept /\ [Next]_vars => RoomKept'
  BY <1>2, <1>3, RoomStep, Zenon
<1>5. RoomKept => AbandonedBounded
  BY DEF RoomKept
<1>6. QED
  BY RInvInductive, <1>1, <1>4, <1>5, PTL DEF Spec

\* An answer that takes an entry along makes room whenever an entry counts
\* against it: entries expire from the front and are removed from the back.
THEOREM LateAnswerMakesRoom == Spec => ArrivalMakesRoom
<1>1. Init => OldestFirst
  BY DEF Init, OldestFirst
<1>2. TypeOK => DataTypes
  BY Zenon DEF TypeOK, DataTypes
<1>3. TypeOK /\ SlotsAgree /\ CountsAgree /\ OldestFirst /\ [Next]_vars => OldestFirst'
  BY <1>2, OldestFirstStep, Zenon
<1>4. ASSUME DataTypes, SlotsAgree, CountsAgree, OldestFirst, [Next]_vars
      PROVE  Len(abandoned') < Len(abandoned) /\ FreshEntries # {} =>
               Cardinality(FreshEntries') < Cardinality(FreshEntries)
  <2> SUFFICES ASSUME Len(abandoned') < Len(abandoned), FreshEntries # {}
               PROVE  Cardinality(FreshEntries') < Cardinality(FreshEntries)
    OBVIOUS
  <2>1. abandoned' = WithoutNewest /\ abandoned # <<>>
    <3>1. Len(Append(abandoned, "fresh")) = Len(abandoned) + 1 /\ Len(abandoned) \in Nat
      BY <1>4 DEF DataTypes
    <3>2. EntryExpires => Len(abandoned') = Len(abandoned)
      BY <1>4 DEF EntryExpires, DataTypes
    <3>3. QED
      BY <1>4, <3>1, <3>2, EntrySteps
  <2>2. Len(abandoned) \in FreshEntries
    <3>1. PICK k \in FreshEntries : TRUE
      OBVIOUS
    <3>2. k \in 1 .. Len(abandoned) /\ abandoned[k] = "fresh"
          /\ DOMAIN abandoned = 1 .. Len(abandoned) /\ Len(abandoned) \in Nat
      BY <1>4, <3>1 DEF FreshEntries, DataTypes
    <3>3. abandoned[Len(abandoned)] \in {"fresh", "old"}
      BY <1>4, <3>2 DEF DataTypes
    <3>4. abandoned[Len(abandoned)] # "old"
      BY <1>4, <3>2 DEF OldestFirst
    <3>5. QED
      BY <3>2, <3>3, <3>4 DEF FreshEntries
  <2>3. FreshEntries' = FreshEntries \ {Len(abandoned)}
    BY <1>4, <2>1, RemovedFresh
  <2>4. IsFiniteSet(FreshEntries) /\ Cardinality(FreshEntries) \in Nat
    BY <1>4, FreshFinite
  <2>5. Cardinality(FreshEntries \ {Len(abandoned)}) = Cardinality(FreshEntries) - 1
    BY <2>2, <2>4, FS_RemoveElement
  <2>6. QED
    BY <2>3, <2>4, <2>5
<1>5. TypeOK /\ SlotsAgree /\ CountsAgree /\ OldestFirst /\ [Next]_vars =>
        [Len(abandoned') < Len(abandoned) /\ FreshEntries # {} =>
           Cardinality(FreshEntries') < Cardinality(FreshEntries)]_vars
  BY <1>2, <1>4, Zenon
<1>6. QED
  BY RInvInductive, <1>1, <1>3, <1>5, PTL DEF Spec, ArrivalMakesRoom

-----------------------------------------------------------------------------
(* The hand-off directory.                                                 *)

\* Every file has someone who will take or delete it: the receiver that was told
\* of it, or the thread that is about to send its token.
THEOREM FilesHaveOwners == Spec => []FileHasOwner
<1>1. Init => FileHasOwner
  BY DEF Init, FileHasOwner
<1>2. ASSUME FileHasOwner, [Next]_vars PROVE FileHasOwner'
  <2> USE DEF FileHasOwner, inventory, hostVars, acceptVars, shutdownVars
  <2>1. CASE AcceptStep
    BY <1>2, <2>1 DEF AcceptStep, CheckStop, NewSlot, TakeResult, SeeStop, Abandon,
       AbandonEnds, AbandonTooLate, SendResponse, SendFails, AcceptEnds, DiscardedFile
  <2>2. CASE AcceptCall
    BY <1>2, <2>2 DEF AcceptCall, RequestArrives, RequestFails, IssueReturns,
       IssueFails, DeadlinePasses, WriteArtifact
  <2>3. CASE ShutdownStep \/ Stop
    BY <1>2, <2>3 DEF ShutdownStep, Join, Detach, ReadPending, ReadAbandoned,
       WaitReturns, WaitTimesOut, RemoveArtifacts, Unload, Stop
  <2>4. CASE HostStep \/ EntryExpires
    BY <1>2, <2>4 DEF HostStep, HostTakesTask, CallbackArrives, CallbackCompletes,
       CallbackReturns, HostFinishes, ServerTakes, EntryExpires
  <2>5. QED
    BY <1>2, <2>1, <2>2, <2>3, <2>4 DEF Next, vars
<1>3. QED
  BY <1>1, <1>2, PTL DEF Spec

=============================================================================
