------------------------- MODULE ProcessDataProofs -------------------------
(***************************************************************************)
(* Theorems about ProcessData for every number of threads, chunks, outputs, *)
(* staging areas, inputs and passes.                                        *)
(***************************************************************************)
EXTENDS ProcessData, RunKernelProofs

\* The fields of a transfer message, by its kind.
LEMMA MessageFields ==
  ASSUME NEW m \in MessageSet
  PROVE  /\ m.kind \in {"prepare", "flush", "finish"}
         /\ m.kind \in {"prepare", "finish"} => m.buf \in Buffers
         /\ m.kind \in {"prepare", "flush"} => m.area \in Areas /\ m.submit \in 0..BatchSize
         /\ m.kind = "finish" => m.index \in Outputs
         /\ m # NoMsg
BY BackendAssumption DEF MessageSet, NoMsg

\* The requests run_kernel makes of a batch are well formed.
LEMMA KernelSendsType ==
  /\ Len(KernelSends) \in Nat
  /\ DOMAIN KernelSends = 1..Len(KernelSends)
  /\ \A i \in 1..Len(KernelSends) :
       /\ KernelSends[i].thread \in Threads
       /\ KernelSends[i].regions \in SUBSET (Chunks \X Outputs)
<1>1. Len(KernelSends) \in Nat /\ DOMAIN KernelSends = 1..Len(KernelSends)
  BY SendCases, KernelAssumption
<1> QED
  BY <1>1, KernelSendsPartition, Zenon DEF KernelPartition

----------------------------------------------------------------------------
(* Type correctness *)

\* The pipeline starts well typed.
LEMMA TypeInit == Init => TypeOK
<1> SUFFICES ASSUME Init PROVE TypeOK
  OBVIOUS
<1>0. 0 \in Areas /\ 0 \in Slots /\ 0 \in Outputs /\ NumBuffers - 1 \in Buffers
  BY BackendAssumption, ClientAssumption, KernelAssumption
     DEF Areas, Slots, Outputs, NumBuffers
<1>1. StagingType
  <2>1. isActive \in [Areas -> BOOLEAN] /\ processingAdd \in BOOLEAN
    BY DEF Init, BackendInit
  <2>2. procRefs \in [Areas -> Int] /\ stagingActiveCount \in Int
    BY DEF Init, BackendInit
  <2>3. currentStagingArea \in Areas /\ currentStagingInputs \in Slots
    BY <1>0 DEF Init, BackendInit
  <2> QED
    BY <2>1, <2>2, <2>3 DEF StagingType
<1>2. ThreadsType
  BY DEF Init, BackendInit, ThreadsType
<1>3. ClientType
  BY <1>0 DEF Init, BackendInit, ClientType
<1> QED
  BY <1>1, <1>2, <1>3 DEF TypeOK

\* A batch is handed over: the next area is one of the areas again.
LEMMA SubmitType ==
  ASSUME StagingType, Submit
  PROVE  /\ isActive' \in [Areas -> BOOLEAN] /\ stagingActiveCount' \in Int
         /\ currentStagingArea' \in Areas /\ currentStagingInputs' \in Slots
<1>1. NumAreas \in Nat \ {0} /\ currentStagingArea + 1 \in Nat /\ 0 \in Slots
  BY BackendAssumption DEF StagingType, Areas, Slots
<1>2. (currentStagingArea + 1) % NumAreas \in 0..NumAreas-1
  BY <1>1, DivMod
<1> QED
  BY <1>1, <1>2 DEF Submit, StagingType, Areas

\* A step that leaves the variables alone keeps their types.
LEMMA UnchangedTypes ==
  /\ StagingType /\ UNCHANGED <<stagingVars, processingAdd>> => StagingType'
  /\ ThreadsType /\ UNCHANGED threadVars => ThreadsType'
  /\ ClientType /\ UNCHANGED <<clientVars, ready>> => ClientType'
BY DEF StagingType, ThreadsType, ClientType, stagingVars, threadVars, clientVars

\* Only a longer queue of the transfer thread has to be typed when the client
\* sends it a message.
LEMMA QueueType ==
  ASSUME ThreadsType, transferq' \in Seq(MessageSet), UNCHANGED <<transfer, workq, worker>>
  PROVE  ThreadsType'
BY DEF ThreadsType

\* _addInput keeps the types: queue, area counters and buffer owners.
LEMMA TypeAddInput ==
  ASSUME TypeOK, SendInput
  PROVE  TypeOK'
<1> USE DEF TypeOK
<1>1. /\ currentStagingInputs + 1 \in 1..BatchSize /\ currentStagingInputs \in Slots
      /\ bufferindex \in Buffers /\ currentStagingArea \in Areas /\ BatchSize \in Nat
  BY BackendAssumption DEF StagingType, ClientType, Slots
<1>2. transferq' \in Seq(MessageSet)
  BY <1>1 DEF ThreadsType, SendInput, AddInput, MessageSet
<1>3. ThreadsType'
  BY <1>2, QueueType DEF SendInput
<1>4. StagingType'
  <2>1. CASE Submit
    BY <2>1, SubmitType DEF SendInput, AddInput, StagingType
  <2>2. CASE /\ currentStagingInputs + 1 # BatchSize
             /\ currentStagingInputs' = currentStagingInputs + 1
             /\ UNCHANGED <<stagingActiveCount, isActive, currentStagingArea>>
    BY <1>1, <2>2 DEF SendInput, AddInput, StagingType, Slots
  <2> QED
    BY <2>1, <2>2 DEF SendInput, AddInput
<1>5. ClientType'
  BY <1>1 DEF ClientType, SendInput, AddInput
<1> QED
  BY <1>3, <1>4, <1>5

\* endInput and its flush keep the types.
LEMMA TypeEndInput ==
  ASSUME TypeOK, EndInput
  PROVE  TypeOK'
<1> USE DEF TypeOK
<1>1. ClientType'
  BY DEF ClientType, EndInput
<1>2. CASE currentStagingInputs = 0
  <2>1. UNCHANGED <<stagingVars, processingAdd, threadVars>>
    BY <1>2 DEF EndInput, Flush, threadVars
  <2> QED
    BY <1>1, <2>1, UnchangedTypes
<1>3. CASE currentStagingInputs # 0
  <2>1. /\ currentStagingInputs \in 1..BatchSize /\ currentStagingArea \in Areas
    BY <1>3, BackendAssumption DEF StagingType, Slots
  <2>2. transferq' \in Seq(MessageSet)
    <3>1. [kind |-> "flush", area |-> currentStagingArea, submit |-> currentStagingInputs]
            \in MessageSet
      BY <2>1 DEF MessageSet
    <3>2. transferq' = Append(transferq,
            [kind |-> "flush", area |-> currentStagingArea, submit |-> currentStagingInputs])
      BY <1>3 DEF EndInput, Flush
    <3> QED
      BY <3>1, <3>2 DEF ThreadsType
  <2>3. ThreadsType'
    BY <2>2, QueueType DEF EndInput
  <2>4. StagingType'
    BY <1>3, SubmitType DEF EndInput, Flush, StagingType
  <2> QED
    BY <1>1, <2>3, <2>4
<1> QED
  BY <1>2, <1>3

\* Every step of the client thread keeps the types.
LEMMA TypeClient ==
  ASSUME TypeOK, Client
  PROVE  TypeOK'
<1> USE DEF TypeOK
<1>1. CASE Start
  <2>1. ThreadsType'
    BY <1>1, UnchangedTypes DEF Start
  <2>2. StagingType'
    BY <1>1 DEF Start, DiscardOutput, StagingType, stagingVars
  <2>3. ClientType'
    BY <1>1, ClientAssumption DEF Start, ClientType, NumBuffers
  <2> QED
    BY <2>1, <2>2, <2>3
<1>2. CASE WaitBuffer
  <2>1. (bufferindex + 1) % NumBuffers \in Buffers
    BY ClientAssumption DEF ClientType, NumBuffers
  <2>2. ClientType'
    BY <1>2, <2>1 DEF WaitBuffer, ClientType, backendVars
  <2> QED
    BY <1>2, <2>2, UnchangedTypes DEF WaitBuffer, backendVars
<1>3. CASE ReadInput
  <2>1. ClientType'
    BY <1>3 DEF ReadInput, ClientType
  <2> QED
    BY <1>3, <2>1, UnchangedTypes DEF ReadInput
<1>4. CASE SendInput
  BY <1>4, TypeAddInput
<1>5. CASE EndInput
  BY <1>5, TypeEndInput
<1>6. CASE EndWait
  <2>1. ThreadsType'
    BY <1>6, UnchangedTypes DEF EndWait
  <2>2. StagingType'
    BY <1>6 DEF EndWait, ProcessingFinished, StagingType
  <2>3. ClientType'
    BY <1>6, KernelAssumption DEF EndWait, ClientType, Outputs
  <2> QED
    BY <2>1, <2>2, <2>3
<1>7. CASE GetFirst
  <2>1. 0 \in Buffers /\ 0 \in Outputs
    BY ClientAssumption, KernelAssumption DEF Outputs
  <2>2. transferq' \in Seq(MessageSet)
    BY <1>7, <2>1 DEF GetFirst, GetOutput, ThreadsType, MessageSet
  <2>3. ClientType'
    BY <1>7, <2>1 DEF GetFirst, GetOutput, ClientType
  <2> QED
    BY <1>7, <2>2, <2>3, QueueType, UnchangedTypes DEF GetFirst
<1>8. CASE GetNext
  <2>1. (outputindex + 1) % 2 \in Buffers
    BY ClientAssumption, KernelAssumption DEF ClientType, Outputs
  <2>2. transferq' \in Seq(MessageSet)
    <3>1. CASE outputindex + 1 < NumOutputs
      <4>1. outputindex + 1 \in Outputs
        BY <3>1, KernelAssumption DEF ClientType, Outputs
      <4>2. [kind |-> "finish", buf |-> (outputindex + 1) % 2, index |-> outputindex + 1] \in MessageSet
        BY <2>1, <4>1 DEF MessageSet
      <4>3. transferq' = Append(transferq,
              [kind |-> "finish", buf |-> (outputindex + 1) % 2, index |-> outputindex + 1])
        BY <1>8, <3>1 DEF GetNext, GetOutput
      <4> QED
        BY <4>2, <4>3 DEF ThreadsType
    <3>2. CASE ~(outputindex + 1 < NumOutputs)
      BY <1>8, <3>2 DEF GetNext, ThreadsType
    <3> QED
      BY <3>1, <3>2
  <2>3. ClientType'
    BY <1>8, <2>1 DEF GetNext, GetOutput, ClientType
  <2> QED
    BY <1>8, <2>2, <2>3, QueueType, UnchangedTypes DEF GetNext
<1>9. CASE WaitOutput
  <2>1. ClientType'
    BY <1>9 DEF WaitOutput, ClientType, backendVars
  <2> QED
    BY <1>9, <2>1, UnchangedTypes DEF WaitOutput, backendVars
<1>10. CASE WriteOutput
  <2>1. ClientType'
    BY <1>10, KernelAssumption DEF WriteOutput, ClientType, Outputs, backendVars
  <2> QED
    BY <1>10, <2>1, UnchangedTypes DEF WriteOutput, backendVars
<1>11. CASE Unwind
  <2>1. ClientType'
    BY <1>11 DEF Unwind, ClientType, backendVars
  <2> QED
    BY <1>11, <2>1, UnchangedTypes DEF Unwind, backendVars
<1> QED
  BY <1>1, <1>2, <1>3, <1>4, <1>5, <1>6, <1>7, <1>8, <1>9, <1>10, <1>11 DEF Client

\* Every step of the transfer thread keeps the types.
LEMMA TypeTransfer ==
  ASSUME TypeOK, Transfer
  PROVE  TypeOK'
<1> USE DEF TypeOK
<1> DEFINE m == transfer.msg
<1>0. UNCHANGED clientVars
  BY DEF Transfer
<1>1. CASE TransferPop
  <2>1. Head(transferq) \in MessageSet /\ Tail(transferq) \in Seq(MessageSet)
    BY <1>1 DEF TransferPop, ThreadsType
  <2>2. ThreadsType'
    BY <1>1, <2>1 DEF TransferPop, ThreadsType
  <2> QED
    BY <1>0, <1>1, <2>2, UnchangedTypes DEF TransferPop
<1>2. CASE TransferFinish
  <2>1. m.buf \in Buffers
    BY <1>2, MessageFields DEF TransferFinish, ThreadsType
  <2>2. ThreadsType'
    BY <1>2 DEF TransferFinish, ThreadsType
  <2>3. ClientType'
    BY <1>0, <1>2, <2>1 DEF TransferFinish, ClientType, clientVars
  <2> QED
    BY <1>2, <2>2, <2>3, UnchangedTypes DEF TransferFinish
<1>3. CASE TransferPrepare
  <2>1. m \in MessageSet /\ m.area \in Areas /\ m.submit \in 0..BatchSize
    BY <1>3, MessageFields DEF TransferPrepare, ThreadsType
  <2>2. StagingType'
    <3>1. KernelRefs \in Int
      BY KernelSendsType, KernelSendsPartition DEF KernelPartition
    <3> QED
      BY <1>3, <2>1, <3>1 DEF TransferPrepare, StagingType
  <2>3. CASE m.submit > 0
    <3> DEFINE request(i) == [thread |-> KernelSends[i].thread,
                              req |-> [area |-> m.area, numInputs |-> m.submit,
                                       regions |-> KernelSends[i].regions,
                                       add |-> processingAdd]]
               requests == [i \in 1..Len(KernelSends) |-> request(i)]
    <3>1. \A i \in 1..Len(KernelSends) : request(i) \in SendSet
      BY <2>1, <2>3, KernelSendsType, BackendAssumption DEF SendSet, ReqSet, StagingType
    <3>2. requests \in Seq(SendSet)
      BY <3>1, KernelSendsType
    <3>3. transfer' = [pc |-> "send", msg |-> m, sends |-> requests]
      BY <1>3, <2>3 DEF TransferPrepare
    <3> HIDE DEF requests
    <3>4. ThreadsType'
      BY <1>3, <2>1, <3>2, <3>3 DEF TransferPrepare, ThreadsType
    <3> QED
      BY <1>0, <1>3, <2>2, <3>4, UnchangedTypes DEF TransferPrepare
  <2>4. CASE ~(m.submit > 0)
    <3>1. ThreadsType'
      BY <1>3, <2>1, <2>4 DEF TransferPrepare, ThreadsType
    <3> QED
      BY <1>0, <1>3, <2>2, <3>1, UnchangedTypes DEF TransferPrepare
  <2> QED
    BY <2>3, <2>4
<1>4. CASE TransferSend
  <2>1. Head(transfer.sends) \in SendSet /\ Tail(transfer.sends) \in Seq(SendSet)
    BY <1>4 DEF TransferSend, ThreadsType
  <2>2. Head(transfer.sends).thread \in Threads /\ Head(transfer.sends).req \in ReqSet
    BY <2>1 DEF SendSet
  <2>3. workq' \in [Threads -> Seq(ReqSet)]
    BY <1>4, <2>2 DEF TransferSend, ThreadsType
  <2>4. /\ transfer' = [transfer EXCEPT !.sends = Tail(@)]
        /\ UNCHANGED <<transferq, worker>>
    BY <1>4 DEF TransferSend
  <2>5. ThreadsType'
    BY <2>1, <2>3, <2>4 DEF ThreadsType
  <2> QED
    BY <1>0, <1>4, <2>5, UnchangedTypes DEF TransferSend
<1>5. CASE TransferNotify
  <2>1. m.kind = "prepare" => m.buf \in Buffers
    BY <1>5, MessageFields DEF TransferNotify, ThreadsType
  <2>2. ThreadsType'
    BY <1>5 DEF TransferNotify, ThreadsType
  <2>3. ClientType'
    BY <1>0, <1>5, <2>1 DEF TransferNotify, ClientType, clientVars
  <2> QED
    BY <1>5, <2>2, <2>3, UnchangedTypes DEF TransferNotify
<1> QED
  BY <1>1, <1>2, <1>3, <1>4, <1>5 DEF Transfer, TransferThread

\* A worker thread that goes to another place keeps the types.
LEMMA WorkerEntryType ==
  ASSUME ThreadsType, NEW t \in Threads,
         NEW pcs \in {"idle", "compute", "release", "last", "unlock"},
         NEW req \in ReqSet \cup {NoReq}, pcs # "idle" => req \in ReqSet,
         worker' = [worker EXCEPT ![t] = [pc |-> pcs, req |-> req]],
         UNCHANGED <<transferq, transfer, workq>>
  PROVE  ThreadsType'
BY DEF ThreadsType

\* Every step of a worker thread keeps the types.
LEMMA TypeWorker ==
  ASSUME TypeOK, NEW t \in Threads, Worker(t)
  PROVE  TypeOK'
<1> USE DEF TypeOK
<1>0. worker[t].pc # "idle" => worker[t].req \in ReqSet /\ worker[t].req.area \in Areas
  BY DEF ThreadsType, ReqSet
<1>1. CASE WorkerPop(t)
  <2>1. Head(workq[t]) \in ReqSet /\ Tail(workq[t]) \in Seq(ReqSet)
    BY <1>1 DEF WorkerPop, ThreadsType
  <2>2. ThreadsType'
    BY <1>1, <2>1 DEF WorkerPop, ThreadsType
  <2> QED
    BY <1>1, <2>2, UnchangedTypes DEF WorkerPop, Worker
<1>2. CASE WorkerCompute(t)
  <2>1. ThreadsType'
    BY <1>2 DEF WorkerCompute, ThreadsType
  <2> QED
    BY <1>2, <2>1, UnchangedTypes DEF WorkerCompute, Worker
<1>3. CASE WorkerRelease(t)
  <2>1. ThreadsType'
    <3>0. worker[t].req \in ReqSet /\ UNCHANGED <<transferq, transfer, workq>>
      BY <1>0, <1>3 DEF WorkerRelease
    <3>1. CASE worker' = [worker EXCEPT ![t] = [pc |-> "last", req |-> worker[t].req]]
      BY <3>0, <3>1, WorkerEntryType
    <3>2. CASE worker' = [worker EXCEPT ![t] = [pc |-> "idle", req |-> NoReq]]
      BY <3>0, <3>2, WorkerEntryType
    <3> QED
      BY <1>3, <3>1, <3>2 DEF WorkerRelease
  <2>2. StagingType'
    BY <1>0, <1>3 DEF WorkerRelease, StagingType
  <2> QED
    BY <1>3, <2>1, <2>2, UnchangedTypes DEF WorkerRelease, Worker
<1>4. CASE WorkerDecCount(t)
  <2>1. ThreadsType'
    BY <1>4 DEF WorkerDecCount, ThreadsType
  <2>2. StagingType'
    BY <1>4 DEF WorkerDecCount, StagingType
  <2> QED
    BY <1>4, <2>1, <2>2, UnchangedTypes DEF WorkerDecCount, Worker
<1>5. CASE WorkerSetInactive(t)
  <2>1. ThreadsType'
    BY <1>5 DEF WorkerSetInactive, ThreadsType
  <2>2. StagingType'
    BY <1>5 DEF WorkerSetInactive, StagingType
  <2> QED
    BY <1>5, <2>1, <2>2, UnchangedTypes DEF WorkerSetInactive, Worker
<1> QED
  BY <1>1, <1>2, <1>3, <1>4, <1>5 DEF Worker, WorkerThread

\* Every step keeps the types.
LEMMA TypeStep == TypeOK /\ [Next]_vars => TypeOK'
<1> SUFFICES ASSUME TypeOK, [Next]_vars PROVE TypeOK'
  OBVIOUS
<1>1. CASE Client
  BY <1>1, TypeClient
<1>2. CASE Cancel
  <2>1. ClientType'
    BY <1>2 DEF TypeOK, Cancel, ClientType, backendVars
  <2> QED
    BY <1>2, <2>1, UnchangedTypes DEF TypeOK, Cancel, backendVars
<1>3. CASE Transfer
  BY <1>3, TypeTransfer
<1>4. CASE \E t \in Threads : Worker(t)
  BY <1>4, TypeWorker
<1>5. CASE UNCHANGED vars
  BY <1>5, UnchangedTypes DEF TypeOK, vars, backendVars
<1> QED
  BY <1>1, <1>2, <1>3, <1>4, <1>5 DEF Next, Quiescent

\* Types and index ranges hold for every size of the instance.
THEOREM TypeCorrect == Spec => []TypeOK
BY TypeInit, TypeStep, PTL DEF Spec

----------------------------------------------------------------------------
(* A transfer buffer has one owner *)

\* A buffer whose future is set is in no transfer, and no two transfers share
\* a buffer.
QueueOwns ==
  /\ \A b \in Buffers : ready[b] => \A i \in InFlight : ~Uses(i, b)
  /\ \A i, j \in InFlight : \A b \in Buffers : Uses(i, b) /\ Uses(j, b) => i = j

\* Where the client uses a buffer it has waited for its future.
ClientOwns ==
  /\ pc \in {"read", "add"} => ready[bufferindex]
  /\ pc = "getfirst" => outputindex = 0 /\ \A b \in Buffers : ready[b]
  /\ pc = "getnext" => ready[(outputindex + 1) % 2]
  /\ pc = "write" => ready[outputindex % 2]

BufferInv == TypeOK /\ QueueOwns /\ ClientOwns

\* A buffer that one queued message owns is not used by the client.
LEMMA BufferInvImplies == BufferInv => BufferExclusive
<1> SUFFICES ASSUME BufferInv PROVE BufferExclusive
  OBVIOUS
<1>1. bufferindex \in Buffers /\ outputindex % 2 \in Buffers
  BY ClientAssumption, KernelAssumption DEF BufferInv, TypeOK, ClientType, Outputs
<1> QED
  BY <1>1 DEF BufferInv, QueueOwns, ClientOwns, BufferExclusive

\* A message that takes over a buffer that was free is sent.
Sends(b, m) ==
  /\ ready[b] /\ m.kind \in {"prepare", "finish"} /\ m.buf = b
  /\ transferq' = Append(transferq, m)
  /\ ready' = [ready EXCEPT ![b] = FALSE]
  /\ UNCHANGED transfer

\* Sending such a message moves the buffer from the client to the message.
LEMMA SendOwns ==
  ASSUME TypeOK, QueueOwns, NEW b \in Buffers, NEW m, Sends(b, m)
  PROVE  QueueOwns'
<1> USE DEF Sends
<1>0. PICK n \in Nat : n = Len(transferq)
  BY DEF TypeOK, ThreadsType
<1>1. n = Len(transferq) /\ transferq \in Seq(MessageSet) /\ ready \in [Buffers -> BOOLEAN]
  BY <1>0 DEF TypeOK, ThreadsType, ClientType
<1>2. /\ Len(transferq') = n + 1 /\ transferq'[n + 1] = m
      /\ \A i \in 1..n : transferq'[i] = transferq[i]
  BY <1>1
<1>3. InFlight' = InFlight \cup {n + 1} /\ n + 1 \notin InFlight /\ InFlight \subseteq 0..n
  BY <1>1, <1>2 DEF InFlight
<1>4. ASSUME NEW i \in InFlight PROVE Message(i)' = Message(i)
  <2>1. i = 0 \/ i \in 1..n
    BY <1>3
  <2> QED
    BY <1>2, <2>1 DEF Message
<1>5. Message(n + 1)' = m
  BY <1>1, <1>2 DEF Message
<1>6. \A i \in InFlight : \A c \in Buffers : Uses(i, c)' <=> Uses(i, c)
  BY <1>4 DEF Uses
<1>7. \A c \in Buffers : Uses(n + 1, c)' <=> c = b
  BY <1>5 DEF Uses
<1>8. \A c \in Buffers : ready'[c] <=> ready[c] /\ c # b
  BY <1>1
<1>9. ASSUME NEW c \in Buffers, ready'[c], NEW i \in InFlight'
      PROVE  ~Uses(i, c)'
  BY <1>3, <1>6, <1>7, <1>8, <1>9 DEF QueueOwns
<1>10. ASSUME NEW i \in InFlight', NEW j \in InFlight', NEW c \in Buffers, Uses(i, c)', Uses(j, c)'
       PROVE  i = j
  <2>1. CASE i \in InFlight /\ j \in InFlight
    BY <1>6, <1>10, <2>1 DEF QueueOwns
  <2>2. CASE i = n + 1 /\ j \in InFlight
    BY <1>6, <1>7, <1>10, <2>2 DEF QueueOwns
  <2>3. CASE j = n + 1 /\ i \in InFlight
    BY <1>6, <1>7, <1>10, <2>3 DEF QueueOwns
  <2> QED
    BY <1>3, <2>1, <2>2, <2>3
<1> QED
  BY <1>9, <1>10, Zenon DEF QueueOwns

\* Nothing changes who uses a buffer.
LEMMA QueueSame ==
  ASSUME QueueOwns, UNCHANGED <<transferq, transfer, ready>>
  PROVE  QueueOwns'
BY DEF QueueOwns, InFlight, Uses, Message

\* A flush carries no buffer.
LEMMA FlushOwns ==
  ASSUME TypeOK, QueueOwns, NEW m, m.kind = "flush",
         transferq' = Append(transferq, m), UNCHANGED <<ready, transfer>>
  PROVE  QueueOwns'
<1>0. PICK n \in Nat : n = Len(transferq)
  BY DEF TypeOK, ThreadsType
<1>1. n = Len(transferq) /\ transferq \in Seq(MessageSet)
  BY <1>0 DEF TypeOK, ThreadsType
<1>2. /\ Len(transferq') = n + 1 /\ transferq'[n + 1] = m
      /\ \A i \in 1..n : transferq'[i] = transferq[i]
  BY <1>1
<1>3. InFlight' = InFlight \cup {n + 1} /\ InFlight \subseteq 0..n
  BY <1>1, <1>2 DEF InFlight
<1>4. \A i \in InFlight : Message(i)' = Message(i)
  BY <1>1, <1>2, <1>3 DEF Message
<1>5. Message(n + 1)' = m
  BY <1>1, <1>2 DEF Message
<1>6. \A i \in InFlight : \A c \in Buffers : Uses(i, c)' <=> Uses(i, c)
  BY <1>4 DEF Uses
<1>7. \A c \in Buffers : ~Uses(n + 1, c)'
  BY <1>5 DEF Uses
<1> QED
  BY <1>3, <1>6, <1>7 DEF QueueOwns

\* The transfer thread goes on with a message it has: nobody else gets a buffer.
LEMMA StepOwns ==
  ASSUME QueueOwns, transfer.pc # "idle", transfer'.pc # "idle",
         transfer'.msg = transfer.msg, UNCHANGED <<transferq, ready>>
  PROVE  QueueOwns'
<1>1. InFlight' = InFlight
  BY DEF InFlight
<1>2. \A i \in InFlight : Message(i)' = Message(i)
  BY DEF Message
<1> QED
  BY <1>1, <1>2 DEF QueueOwns, Uses

\* Popping a message shifts the queue and keeps the set of messages.
LEMMA PopOwns ==
  ASSUME TypeOK, QueueOwns, TransferPop
  PROVE  QueueOwns'
<1> DEFINE n == Len(transferq)
<1>1. n \in Nat /\ n > 0 /\ transferq \in Seq(MessageSet)
  BY DEF TypeOK, ThreadsType, TransferPop
<1>2. /\ Len(transferq') = n - 1
      /\ \A i \in 1..n-1 : transferq'[i] = transferq[i + 1]
      /\ transfer'.pc = "run" /\ transfer'.msg = transferq[1] /\ transfer.pc = "idle"
  BY <1>1 DEF TransferPop
<1>3. InFlight = 1..n /\ InFlight' = 0..n-1
  BY <1>1, <1>2 DEF InFlight
<1>4. \A i \in 0..n-1 : Message(i)' = Message(i + 1)
  BY <1>1, <1>2 DEF Message
<1>5. \A i \in 0..n-1 : \A c \in Buffers : i + 1 \in 1..n /\ (Uses(i, c)' <=> Uses(i + 1, c))
  BY <1>1, <1>4 DEF Uses
<1>6. ready' = ready
  BY DEF TransferPop
<1> HIDE DEF n
<1>7. ASSUME NEW c \in Buffers, ready'[c], NEW i \in InFlight'
      PROVE  ~Uses(i, c)'
  BY <1>3, <1>5, <1>6, <1>7 DEF QueueOwns
<1>8. ASSUME NEW i \in InFlight', NEW j \in InFlight', NEW c \in Buffers, Uses(i, c)', Uses(j, c)'
      PROVE  i = j
  <2>1. i + 1 = j + 1
    BY <1>3, <1>5, <1>8 DEF QueueOwns
  <2> QED
    BY <1>1, <1>3, <2>1
<1> QED
  BY <1>7, <1>8, Zenon DEF QueueOwns

\* The message at hand is done: its buffer, if it has one, is given back.
LEMMA DoneOwns ==
  ASSUME TypeOK, QueueOwns, transfer.pc # "idle", transfer'.pc = "idle", UNCHANGED transferq,
         IF transfer.msg.kind \in {"prepare", "finish"}
         THEN ready' = [ready EXCEPT ![transfer.msg.buf] = TRUE]
         ELSE ready' = ready
  PROVE  QueueOwns'
<1> DEFINE n == Len(transferq)
<1>1. /\ n \in Nat /\ transferq \in Seq(MessageSet) /\ ready \in [Buffers -> BOOLEAN]
      /\ transfer.msg \in MessageSet
  BY DEF TypeOK, ThreadsType, ClientType
<1>2. InFlight = 0..n /\ InFlight' = 1..n
  BY <1>1 DEF InFlight
<1>3. \A i \in 1..n : Message(i)' = Message(i)
  BY <1>1 DEF Message
<1>4. \A i \in 1..n : \A c \in Buffers : i \in 0..n /\ i # 0 /\ (Uses(i, c)' <=> Uses(i, c))
  BY <1>1, <1>3 DEF Uses
<1>5. \A c \in Buffers : ready'[c] => ready[c] \/ Uses(0, c)
  BY <1>1, MessageFields DEF Uses, Message
<1>6. 0 \in InFlight
  BY <1>1, <1>2
<1> HIDE DEF n
<1>7. ASSUME NEW c \in Buffers, ready'[c], NEW i \in InFlight'
      PROVE  ~Uses(i, c)'
  <2>1. CASE ready[c]
    BY <1>2, <1>4, <1>7, <2>1 DEF QueueOwns
  <2>2. CASE Uses(0, c)
    BY <1>2, <1>4, <1>6, <1>7, <2>2 DEF QueueOwns
  <2> QED
    BY <1>5, <1>7, <2>1, <2>2
<1>8. ASSUME NEW i \in InFlight', NEW j \in InFlight', NEW c \in Buffers, Uses(i, c)', Uses(j, c)'
      PROVE  i = j
  BY <1>2, <1>4, <1>8 DEF QueueOwns
<1> QED
  BY <1>7, <1>8, Zenon DEF QueueOwns

\* At the start no message is queued and every buffer is free.
LEMMA BufferInit == Init => BufferInv
<1> SUFFICES ASSUME Init PROVE QueueOwns /\ ClientOwns
  BY TypeInit DEF BufferInv
<1>1. InFlight = {} /\ pc = "start"
  BY DEF Init, BackendInit, InFlight
<1> QED
  BY <1>1 DEF QueueOwns, ClientOwns

\* The client hands a buffer over and takes it back by its future only.
LEMMA BufferClient ==
  ASSUME BufferInv, TypeOK', Client
  PROVE  QueueOwns' /\ ClientOwns'
<1> USE DEF BufferInv
<1>0. /\ bufferindex \in Buffers /\ outputindex \in Nat /\ ready \in [Buffers -> BOOLEAN]
      /\ Buffers = 0..1
  BY ClientAssumption, KernelAssumption DEF TypeOK, ClientType, Outputs
<1>1. CASE Start
  BY <1>1, QueueSame DEF Start, threadVars, ClientOwns
<1>2. CASE WaitBuffer
  BY <1>2, QueueSame DEF WaitBuffer, backendVars, threadVars, ClientOwns
<1>3. CASE ReadInput
  BY <1>3, QueueSame DEF ReadInput, threadVars, ClientOwns
<1>4. CASE SendInput
  <2> DEFINE m == [kind |-> "prepare", buf |-> bufferindex, area |-> currentStagingArea,
                   slot |-> currentStagingInputs,
                   submit |-> IF \/ currentStagingInputs + 1 = BatchSize
                                 \/ /\ stagingActiveCount = 0 /\ NumAreas > 1
                                    /\ currentStagingInputs + 1 >= MinInBatchSize
                              THEN currentStagingInputs + 1 ELSE 0]
  <2>1. PICK x : x = m
    OBVIOUS
  <2>2. x.kind \in {"prepare", "finish"} /\ x.buf = bufferindex
    BY <2>1
  <2>3. transferq' = Append(transferq, x) /\ ready' = [ready EXCEPT ![bufferindex] = FALSE]
    BY <1>4, <2>1 DEF SendInput, AddInput
  <2>4. PICK b \in Buffers : b = bufferindex
    BY <1>0
  <2>5. ready[b] /\ UNCHANGED transfer /\ pc' \in {"input", "end"}
    BY <1>4, <2>4 DEF SendInput, ClientOwns
  <2>6. QueueOwns'
    <3>1. Sends(b, x)
      BY <2>2, <2>3, <2>4, <2>5 DEF Sends
    <3> QED
      BY <3>1, SendOwns
  <2> QED
    BY <2>5, <2>6 DEF ClientOwns
<1>5. CASE EndInput
  <2>1. ClientOwns'
    BY <1>5 DEF EndInput, ClientOwns
  <2>2. CASE currentStagingInputs = 0
    BY <1>5, <2>1, <2>2, QueueSame DEF EndInput, Flush
  <2>3. CASE currentStagingInputs # 0
    <3>1. PICK x : x = [kind |-> "flush", area |-> currentStagingArea,
                        submit |-> currentStagingInputs]
      OBVIOUS
    <3>2. x.kind = "flush" /\ transferq' = Append(transferq, x) /\ UNCHANGED <<ready, transfer>>
      BY <1>5, <2>3, <3>1 DEF EndInput, Flush
    <3> QED
      BY <2>1, <3>2, FlushOwns
  <2> QED
    BY <2>2, <2>3
<1>6. CASE EndWait
  BY <1>6, QueueSame DEF EndWait, threadVars, ClientOwns
<1>7. CASE GetFirst
  <2>1. PICK x : x = [kind |-> "finish", buf |-> 0, index |-> 0]
    OBVIOUS
  <2>2. /\ x.kind \in {"prepare", "finish"} /\ x.buf = 0 /\ 0 \in Buffers /\ ready[0]
        /\ transferq' = Append(transferq, x) /\ ready' = [ready EXCEPT ![0] = FALSE]
        /\ UNCHANGED transfer
    BY <1>0, <1>7, <2>1 DEF GetFirst, GetOutput, ClientOwns
  <2>3. QueueOwns'
    <3>1. Sends(0, x)
      BY <2>2 DEF Sends
    <3> QED
      BY <2>2, <3>1, SendOwns
  <2>4. outputindex' = 0 /\ ready'[1] /\ pc' = "getnext" /\ (outputindex' + 1) % 2 = 1
    BY <1>0, <1>7, <2>2 DEF GetFirst, ClientOwns
  <2> QED
    BY <2>3, <2>4 DEF ClientOwns
<1>8. CASE GetNext
  <2>1. ClientOwns'
    BY <1>8 DEF GetNext, ClientOwns
  <2>2. CASE outputindex + 1 < NumOutputs
    <3>1. PICK b : b = (outputindex + 1) % 2
      OBVIOUS
    <3>2. b \in Buffers /\ ready[b]
      BY <1>0, <1>8, <3>1 DEF GetNext, ClientOwns
    <3>3. PICK x : x = [kind |-> "finish", buf |-> b, index |-> outputindex + 1]
      OBVIOUS
    <3>4. /\ x.kind \in {"prepare", "finish"} /\ x.buf = b
          /\ transferq' = Append(transferq, x) /\ ready' = [ready EXCEPT ![b] = FALSE]
          /\ UNCHANGED transfer
      BY <1>8, <2>2, <3>1, <3>3 DEF GetNext, GetOutput
    <3>5. QueueOwns'
      <4>1. Sends(b, x)
        BY <3>2, <3>4 DEF Sends
      <4> QED
        BY <3>2, <4>1, SendOwns
    <3> QED
      BY <2>1, <3>5
  <2>3. CASE ~(outputindex + 1 < NumOutputs)
    BY <1>8, <2>1, <2>3, QueueSame DEF GetNext
  <2> QED
    BY <2>2, <2>3
<1>9. CASE WaitOutput
  BY <1>9, QueueSame DEF WaitOutput, backendVars, threadVars, ClientOwns
<1>10. CASE WriteOutput
  <2>1. ready' = ready /\ QueueOwns'
    BY <1>10, QueueSame DEF WriteOutput, backendVars, threadVars
  <2>2. (outputindex + 1 + 1) % 2 = outputindex % 2
    BY <1>0
  <2>3. pc' = "getnext" => outputindex' = outputindex + 1
    BY <1>10 DEF WriteOutput
  <2>4. pc' \in {"getnext", "start", "done", "unwind"} /\ ready[outputindex % 2]
    BY <1>10 DEF WriteOutput, ClientOwns
  <2> QED
    BY <2>1, <2>2, <2>3, <2>4 DEF ClientOwns
<1>11. CASE Unwind
  BY <1>11, QueueSame DEF Unwind, backendVars, threadVars, ClientOwns
<1> QED
  BY <1>1, <1>2, <1>3, <1>4, <1>5, <1>6, <1>7, <1>8, <1>9, <1>10, <1>11 DEF Client

\* The transfer thread gives a buffer back when it has copied it, not before.
LEMMA BufferTransfer ==
  ASSUME BufferInv, Transfer
  PROVE  QueueOwns' /\ ClientOwns'
<1> USE DEF BufferInv
<1>0. /\ ready \in [Buffers -> BOOLEAN] /\ bufferindex \in Buffers /\ outputindex \in Nat
      /\ Buffers = 0..1 /\ UNCHANGED clientVars
      /\ transfer.pc # "idle" => transfer.msg \in MessageSet
  BY ClientAssumption, KernelAssumption DEF TypeOK, ClientType, ThreadsType, Outputs, Transfer
<1>1. CASE TransferPop
  BY <1>0, <1>1, PopOwns DEF TransferPop, ClientOwns, clientVars
<1>2. CASE TransferFinish
  <2>1. QueueOwns'
    BY <1>2, DoneOwns DEF TransferFinish
  <2>2. \A b \in Buffers : ready[b] => ready'[b]
    BY <1>0, <1>2 DEF TransferFinish
  <2> QED
    BY <1>0, <2>1, <2>2 DEF ClientOwns, clientVars
<1>3. CASE TransferPrepare
  <2>1. /\ transfer.pc # "idle" /\ transfer'.pc # "idle" /\ transfer'.msg = transfer.msg
        /\ UNCHANGED <<transferq, ready>>
    BY <1>3 DEF TransferPrepare, TypeOK, ThreadsType
  <2> QED
    BY <1>0, <2>1, StepOwns DEF ClientOwns, clientVars
<1>4. CASE TransferSend
  <2>1. /\ transfer.pc # "idle" /\ transfer'.pc # "idle" /\ transfer'.msg = transfer.msg
        /\ UNCHANGED <<transferq, ready>>
    BY <1>4 DEF TransferSend, TypeOK, ThreadsType
  <2> QED
    BY <1>0, <2>1, StepOwns DEF ClientOwns, clientVars
<1>5. CASE TransferNotify
  <2>0. transfer.msg.kind \in {"prepare", "flush"}
    BY <1>5 DEF TransferNotify, TypeOK, ThreadsType
  <2>1. QueueOwns'
    BY <1>5, <2>0, DoneOwns DEF TransferNotify
  <2>2. \A b \in Buffers : ready[b] => ready'[b]
    BY <1>0, <1>5 DEF TransferNotify
  <2> QED
    BY <1>0, <2>1, <2>2 DEF ClientOwns, clientVars
<1> QED
  BY <1>1, <1>2, <1>3, <1>4, <1>5 DEF Transfer, TransferThread

\* Every step keeps the ownership of the transfer buffers.
LEMMA BufferStep == BufferInv /\ [Next]_vars => BufferInv'
<1> SUFFICES ASSUME BufferInv, [Next]_vars PROVE BufferInv'
  OBVIOUS
<1>0. TypeOK'
  BY TypeStep DEF BufferInv
<1> SUFFICES QueueOwns' /\ ClientOwns'
  BY <1>0 DEF BufferInv
<1>1. CASE Client
  BY <1>0, <1>1, BufferClient
<1>2. CASE Cancel
  BY <1>2, QueueSame DEF BufferInv, Cancel, backendVars, threadVars, ClientOwns
<1>3. CASE Transfer
  BY <1>3, BufferTransfer
<1>4. CASE \E t \in Threads : Worker(t)
  <2>1. PICK t \in Threads : Worker(t)
    BY <1>4
  <2>2. UNCHANGED <<transferq, transfer, ready, clientVars>>
    BY <2>1 DEF Worker, WorkerThread, WorkerPop, WorkerCompute, WorkerRelease,
                WorkerDecCount, WorkerSetInactive
  <2> QED
    BY <2>2, QueueSame DEF BufferInv, ClientOwns, clientVars
<1>5. CASE UNCHANGED vars
  BY <1>5, QueueSame DEF BufferInv, vars, backendVars, threadVars, clientVars, ClientOwns
<1> QED
  BY <1>1, <1>2, <1>3, <1>4, <1>5 DEF Next, Quiescent

\* The client, the transfer thread and the futures between them never let two
\* threads use a transfer buffer at once, whatever the sizes.
THEOREM BuffersExclusive == Spec => []BufferExclusive
BY BufferInit, BufferStep, BufferInvImplies, PTL DEF Spec

----------------------------------------------------------------------------
(* A region of the recovery memory has one worker *)

\* The request is one that run_kernel sends to this thread.
Routed(t, req) ==
  \E i \in DOMAIN KernelSends :
    KernelSends[i].thread = t /\ KernelSends[i].regions = req.regions

RouteInv ==
  /\ TypeOK
  /\ \A k \in 1..Len(transfer.sends) : Routed(transfer.sends[k].thread, transfer.sends[k].req)
  /\ \A t \in Threads : \A k \in 1..Len(workq[t]) : Routed(t, workq[t][k])
  /\ \A t \in Threads : worker[t].pc = "compute" => Routed(t, worker[t].req)

\* The head and the tail of a queue that is not empty.
LEMMA QueueTail ==
  ASSUME NEW S, NEW q \in Seq(S), q # <<>>
  PROVE  /\ 1 \in 1..Len(q) /\ Head(q) = q[1] /\ q[1] \in S
         /\ \A k \in 1..Len(Tail(q)) : k + 1 \in 1..Len(q) /\ Tail(q)[k] = q[k + 1]
OBVIOUS

\* Two computing workers have requests of different sends of run_kernel.
LEMMA RouteImplies == RouteInv => RegionExclusive
<1> SUFFICES ASSUME RouteInv, NEW t \in Threads, NEW u \in Threads, t # u,
                    worker[t].pc = "compute", worker[u].pc = "compute"
             PROVE  worker[t].req.regions \cap worker[u].req.regions = {}
  BY DEF RegionExclusive
<1>1. PICK i \in DOMAIN KernelSends :
        KernelSends[i].thread = t /\ KernelSends[i].regions = worker[t].req.regions
  BY Zenon DEF RouteInv, Routed
<1>2. PICK j \in DOMAIN KernelSends :
        KernelSends[j].thread = u /\ KernelSends[j].regions = worker[u].req.regions
  BY Zenon DEF RouteInv, Routed
<1>3. i # j
  BY <1>1, <1>2
<1>4. \A m, n \in DOMAIN KernelSends :
        m # n => KernelSends[m].regions \cap KernelSends[n].regions = {}
  BY KernelSendsPartition, Zenon DEF KernelPartition
<1> QED
  BY <1>1, <1>2, <1>3, <1>4, Zenon

\* At the start no request is on its way.
LEMMA RouteInit == Init => RouteInv
<1> SUFFICES ASSUME Init PROVE RouteInv
  OBVIOUS
<1>1. transfer.sends = <<>> /\ \A t \in Threads : workq[t] = <<>> /\ worker[t].pc = "idle"
  BY DEF Init, BackendInit
<1> QED
  BY <1>1, TypeInit DEF RouteInv

\* RouteInv in the next state, from what the requests are then.
LEMMA RouteNext ==
  ASSUME TypeOK',
         \A k \in 1..Len(transfer'.sends) :
           Routed(transfer'.sends[k].thread, transfer'.sends[k].req),
         \A t \in Threads : \A k \in 1..Len(workq'[t]) : Routed(t, workq'[t][k]),
         \A t \in Threads : worker'[t].pc = "compute" => Routed(t, worker'[t].req)
  PROVE  RouteInv'
BY Zenon DEF RouteInv, Routed

\* Every step keeps each request with the thread run_kernel made it for.
LEMMA RouteStep == RouteInv /\ [Next]_vars => RouteInv'
<1> SUFFICES ASSUME RouteInv, [Next]_vars PROVE RouteInv'
  OBVIOUS
<1>0. TypeOK /\ TypeOK'
  BY TypeStep DEF RouteInv
<1>5. /\ \A k \in 1..Len(transfer.sends) :
           Routed(transfer.sends[k].thread, transfer.sends[k].req)
      /\ \A t \in Threads : \A k \in 1..Len(workq[t]) : Routed(t, workq[t][k])
      /\ \A t \in Threads : worker[t].pc = "compute" => Routed(t, worker[t].req)
  BY Zenon DEF RouteInv
<1>1. ASSUME UNCHANGED <<transfer, workq, worker>> PROVE RouteInv'
  <2>1. transfer' = transfer /\ workq' = workq /\ worker' = worker
    BY <1>1
  <2> QED
    BY <1>0, <1>5, <2>1, RouteNext, Zenon
<1>2. CASE Client \/ Cancel \/ UNCHANGED vars
  <2>1. UNCHANGED <<transfer, workq, worker>>
    BY <1>2 DEF Client, Start, WaitBuffer, ReadInput, SendInput, EndInput, EndWait, GetFirst,
      GetNext, WaitOutput, WriteOutput, Unwind, Cancel, vars, backendVars, threadVars
  <2> QED
    BY <1>1, <2>1
<1>3. CASE Transfer
  <2>1. CASE TransferPop \/ TransferFinish \/ TransferNotify
    <3>1. transfer'.sends = <<>> /\ UNCHANGED <<workq, worker>>
      <4>1. CASE TransferPop
        BY <4>1 DEF TransferPop
      <4>2. CASE TransferFinish
        BY <4>2 DEF TransferFinish
      <4>3. CASE TransferNotify
        BY <4>3 DEF TransferNotify
      <4> QED
        BY <2>1, <4>1, <4>2, <4>3
    <3>2. \A k \in 1..Len(transfer'.sends) :
            Routed(transfer'.sends[k].thread, transfer'.sends[k].req)
      BY <3>1
    <3> QED
      BY <1>0, <1>5, <3>1, <3>2, RouteNext, Zenon
  <2>2. CASE TransferPrepare
    <3>1. UNCHANGED <<workq, worker>>
      BY <2>2 DEF TransferPrepare
    <3>2. CASE transfer.msg.submit > 0
      <4>1. /\ Len(transfer'.sends) = Len(KernelSends)
            /\ \A k \in 1..Len(KernelSends) :
                 /\ transfer'.sends[k].thread = KernelSends[k].thread
                 /\ transfer'.sends[k].req.regions = KernelSends[k].regions
        BY <2>2, <3>2, KernelSendsType DEF TransferPrepare
      <4>2. \A k \in 1..Len(transfer'.sends) :
              Routed(transfer'.sends[k].thread, transfer'.sends[k].req)
        BY <4>1, KernelSendsType DEF Routed
      <4> QED
        BY <1>0, <1>5, <3>1, <4>2, RouteNext, Zenon
    <3>3. CASE ~(transfer.msg.submit > 0)
      <4>1. transfer'.sends = transfer.sends
        BY <1>0, <2>2, <3>3 DEF TransferPrepare, TypeOK, ThreadsType
      <4> QED
        BY <1>0, <1>5, <3>1, <4>1, RouteNext, Zenon
    <3> QED
      BY <3>2, <3>3
  <2>3. CASE TransferSend
    <3> DEFINE sends == transfer.sends
               h == Head(sends)
    <3>1. sends \in Seq(SendSet) /\ sends # <<>> /\ workq \in [Threads -> Seq(ReqSet)]
      BY <1>0, <2>3 DEF TransferSend, TypeOK, ThreadsType
    <3>2. h = sends[1] /\ 1 \in 1..Len(sends) /\ h \in SendSet
      BY <3>1, QueueTail
    <3>8. h.thread \in Threads /\ h.req \in ReqSet
      BY <3>2 DEF SendSet
    <3>3. Routed(h.thread, h.req)
      BY <3>2 DEF RouteInv
    <3>4. transfer'.sends = Tail(sends)
      BY <1>0, <2>3 DEF TransferSend, TypeOK, ThreadsType
    <3>5. workq' = [workq EXCEPT ![h.thread] = Append(@, h.req)] /\ worker' = worker
      BY <2>3 DEF TransferSend
    <3> HIDE DEF h
    <3>6. \A k \in 1..Len(transfer'.sends) :
            Routed(transfer'.sends[k].thread, transfer'.sends[k].req)
      <4> SUFFICES ASSUME NEW k \in 1..Len(Tail(sends))
                   PROVE  Routed(Tail(sends)[k].thread, Tail(sends)[k].req)
        BY <3>4
      <4>1. k + 1 \in 1..Len(sends) /\ Tail(sends)[k] = sends[k + 1]
        BY <3>1, QueueTail
      <4> QED
        BY <4>1 DEF RouteInv
    <3>7. ASSUME NEW t \in Threads, NEW k \in 1..Len(workq'[t])
          PROVE  Routed(t, workq'[t][k])
      <4>1. CASE t # h.thread
        BY <3>1, <3>5, <4>1 DEF RouteInv
      <4>2. CASE t = h.thread
        <5>1. workq'[t] = Append(workq[t], h.req) /\ workq[t] \in Seq(ReqSet)
          BY <3>1, <3>8, <3>5, <4>2
        <5>2. CASE k \in 1..Len(workq[t])
          BY <5>1, <5>2 DEF RouteInv
        <5>3. CASE k = Len(workq[t]) + 1
          BY <3>3, <4>2, <5>1, <5>3
        <5> QED
          BY <5>1, <5>2, <5>3
      <4> QED
        BY <4>1, <4>2
    <3> QED
      BY <1>0, <1>5, <3>5, <3>6, <3>7, RouteNext, Zenon
  <2> QED
    BY <1>3, <2>1, <2>2, <2>3 DEF Transfer, TransferThread
<1>4. ASSUME NEW t \in Threads, Worker(t) PROVE RouteInv'
  <2>0. workq \in [Threads -> Seq(ReqSet)] /\ DOMAIN worker = Threads
    BY <1>0 DEF TypeOK, ThreadsType
  <2>1. CASE WorkerPop(t)
    <3>1. /\ workq[t] # <<>> /\ workq' = [workq EXCEPT ![t] = Tail(@)]
          /\ worker' = [worker EXCEPT ![t] = [pc |-> "compute", req |-> Head(workq[t])]]
          /\ UNCHANGED transfer
      BY <2>1 DEF WorkerPop
    <3>2. Routed(t, Head(workq[t]))
      <4>1. 1 \in 1..Len(workq[t]) /\ Head(workq[t]) = workq[t][1]
        BY <2>0, <3>1
      <4> QED
        BY <4>1 DEF RouteInv
    <3>3. ASSUME NEW u \in Threads, NEW k \in 1..Len(workq'[u])
          PROVE  Routed(u, workq'[u][k])
      <4>1. CASE u # t
        BY <2>0, <3>1, <4>1 DEF RouteInv
      <4>2. CASE u = t
        <5>1. workq'[t] = Tail(workq[t]) /\ workq[t] \in Seq(ReqSet)
          BY <2>0, <3>1
        <5>2. k + 1 \in 1..Len(workq[t]) /\ workq'[t][k] = workq[t][k + 1]
          BY <3>1, <4>2, <5>1, QueueTail
        <5> QED
          BY <4>2, <5>2 DEF RouteInv
      <4> QED
        BY <4>1, <4>2
    <3>4. ASSUME NEW u \in Threads, worker'[u].pc = "compute"
          PROVE  Routed(u, worker'[u].req)
      <4>1. CASE u # t
        <5>1. worker'[u] = worker[u]
          BY <2>0, <3>1, <4>1
        <5> QED
          BY <3>4, <5>1 DEF RouteInv
      <4>2. CASE u = t
        <5>1. worker'[u].req = Head(workq[t])
          BY <2>0, <3>1, <4>2
        <5> QED
          BY <3>2, <4>2, <5>1
      <4> QED
        BY <4>1, <4>2
    <3> QED
      <4>1. \A k \in 1..Len(transfer'.sends) :
              Routed(transfer'.sends[k].thread, transfer'.sends[k].req)
        BY <1>5, <3>1, Zenon
      <4> QED
        BY <1>0, <3>3, <3>4, <4>1, RouteNext, Zenon
  <2>2. CASE ~WorkerPop(t)
    <3>1. UNCHANGED <<transfer, workq>>
      BY <1>4, <2>2 DEF Worker, WorkerThread, WorkerCompute, WorkerRelease, WorkerDecCount,
                        WorkerSetInactive
    <3>2. /\ worker'[t].pc # "compute"
          /\ \A u \in Threads \ {t} : worker'[u] = worker[u]
      <4> USE <2>0
      <4>1. CASE WorkerCompute(t)
        <5>1. worker' = [worker EXCEPT ![t].pc = "release"]
          BY <4>1, Zenon DEF WorkerCompute
        <5> QED
          BY <5>1
      <4>2. CASE WorkerRelease(t)
        BY <4>2 DEF WorkerRelease
      <4>3. CASE WorkerDecCount(t)
        BY <4>3 DEF WorkerDecCount
      <4>4. CASE WorkerSetInactive(t)
        BY <4>4 DEF WorkerSetInactive
      <4> QED
        BY <1>4, <2>2, <4>1, <4>2, <4>3, <4>4 DEF Worker, WorkerThread
    <3>3. \A u \in Threads : worker'[u].pc = "compute" => Routed(u, worker'[u].req)
      BY <1>5, <3>2, Zenon
    <3> QED
      BY <1>0, <1>5, <3>1, <3>3, RouteNext, Zenon
  <2> QED
    BY <2>1, <2>2
<1> QED
  BY <1>2, <1>3, <1>4 DEF Next, Quiescent

\* Two workers never write the same part of the recovery memory, for any number
\* of threads, chunks and outputs: the distribution of run_kernel is a partition
\* and always sends a region to the same thread.
THEOREM RegionsExclusive == Spec => []RegionExclusive
BY RouteInit, RouteStep, RouteImplies, PTL DEF Spec
=============================================================================
