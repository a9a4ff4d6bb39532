---------------------------- MODULE PAR2ProcCPU ----------------------------
(***************************************************************************)
(* The ParPar CPU backend (parpar/gf16/controller_cpu.cpp, built without    *)
(* libuv): staging areas that collect a batch of inputs, one transfer       *)
(* thread that copies data in and out, and worker threads that multiply a   *)
(* batch into the recovery memory.  The operations the client thread calls  *)
(* (AddInput, Flush, GetOutput, ...) are action operators that the client   *)
(* module composes; the threads of the backend are actions of their own.    *)
(*                                                                          *)
(* Data is abstract.  A transfer buffer or a staging slot holds a datum; a  *)
(* region of the recovery memory (a chunk of one output) holds the sequence *)
(* of <<coefficient, datum>> pairs multiplied into it since it was cleared. *)
(***************************************************************************)
EXTENDS RunKernel, FiniteSets

CONSTANTS
  NumAreas,     \* staging.size()
  BatchSize,    \* inputBatchSize
  Buffers,      \* the transfer buffers of the client
  Garbage       \* contents of memory that nothing was written to

ASSUME BackendAssumption ==
  /\ NumAreas \in Nat \ {0}
  /\ BatchSize \in Nat \ {0}

Areas   == 0..NumAreas-1
Slots   == 0..BatchSize-1

MinInBatchSize == BatchSize   \* as init sets it

VARIABLES
  transferbuffer,        \* [Buffers -> datum], memory of the client
  src,                   \* [Areas -> [Slots -> datum]]
  procCoeffs,            \* [Areas -> [Slots -> coefficient]]
  isActive,              \* [Areas -> BOOLEAN], the promise of each area is unset
  procRefs,              \* [Areas -> Nat]
  stagingActiveCount,
  currentStagingArea,
  currentStagingInputs,
  processingAdd,
  memProcessing,         \* [Chunks \X Outputs -> Seq of pairs]
  transferq,             \* queue of the transfer thread
  transfer,              \* what the transfer thread is doing
  workq,                 \* [Threads -> queue of compute requests]
  worker,                \* [Threads -> what the worker is doing]
  ready                  \* [Buffers -> BOOLEAN], the future of each buffer is set

stagingVars == <<src, procCoeffs, isActive, procRefs, stagingActiveCount,
                 currentStagingArea, currentStagingInputs>>
threadVars  == <<transferq, transfer, workq, worker>>
backendVars == <<transferbuffer, stagingVars, processingAdd, memProcessing,
                 threadVars, ready>>

NoMsg == [kind |-> "none"]
NoReq == [area |-> -1]

\* transfer_data: prepare an input, flush (a prepare without data) or finish an
\* output.
MessageSet ==
  [kind : {"prepare"}, buf : Buffers, area : Areas, slot : Slots, submit : 0..BatchSize]
  \cup [kind : {"flush"}, area : Areas, submit : 1..BatchSize]
  \cup [kind : {"finish"}, buf : Buffers, index : Outputs]

\* compute_req, and the thread it is sent to.
ReqSet == [area : Areas, numInputs : 1..BatchSize,
           regions : SUBSET (Chunks \X Outputs), add : BOOLEAN]
SendSet == [thread : Threads, req : ReqSet]

----------------------------------------------------------------------------
BackendInit ==
  /\ transferbuffer = [b \in Buffers |-> Garbage]
  /\ src = [a \in Areas |-> [s \in Slots |-> Garbage]]
  /\ procCoeffs = [a \in Areas |-> [s \in Slots |-> Garbage]]
  /\ isActive = [a \in Areas |-> FALSE]
  /\ procRefs = [a \in Areas |-> 0]
  /\ stagingActiveCount = 0
  /\ currentStagingArea = 0
  /\ currentStagingInputs = 0
  /\ processingAdd = FALSE
  /\ memProcessing = [r \in Chunks \X Outputs |-> <<Garbage>>]
  /\ transferq = <<>>
  /\ transfer = [pc |-> "idle", msg |-> NoMsg, sends |-> <<>>]
  /\ workq = [t \in Threads |-> <<>>]
  /\ worker = [t \in Threads |-> [pc |-> "idle", req |-> NoReq]]
  /\ ready = [b \in Buffers |-> TRUE]

----------------------------------------------------------------------------
(* Operations called on the client's thread. *)

\* The output of the pass before is kept.
DiscardNothing == UNCHANGED processingAdd

\* IPAR2ProcBackend::discardOutput
DiscardOutput == processingAdd' = FALSE

\* A client that does not wait.
CanAddAlways == TRUE

\* waitForAdd blocks until this holds; _addInput asserts it.
CanAdd == ~isActive[currentStagingArea]

\* Hand the batch of the current area over: it is locked until processed.
Submit ==
  /\ stagingActiveCount' = stagingActiveCount + 1
  /\ isActive' = [isActive EXCEPT ![currentStagingArea] = TRUE]
  /\ currentStagingInputs' = 0
  /\ currentStagingArea' = (currentStagingArea + 1) % NumAreas

\* _addInput: the coefficients are stored now, the data when the transfer
\* thread gets to it; the buffer's future is pending until then.
AddInput(buf, coeff) ==
  LET n      == currentStagingInputs + 1
      submit == \/ n = BatchSize
                \/ stagingActiveCount = 0 /\ NumAreas > 1 /\ n >= MinInBatchSize
  IN
  /\ CanAdd
  /\ procCoeffs' = [procCoeffs EXCEPT ![currentStagingArea][currentStagingInputs] = coeff]
  /\ transferq' = Append(transferq,
                    [kind |-> "prepare", buf |-> buf, area |-> currentStagingArea,
                     slot |-> currentStagingInputs, submit |-> IF submit THEN n ELSE 0])
  /\ ready' = [ready EXCEPT ![buf] = FALSE]
  /\ IF submit THEN Submit
     ELSE /\ currentStagingInputs' = n
          /\ UNCHANGED <<stagingActiveCount, isActive, currentStagingArea>>
  /\ UNCHANGED <<src, procRefs>>

\* flush: submit a batch that is not full, by a prepare message without data.
Flush ==
  IF currentStagingInputs = 0
  THEN UNCHANGED <<stagingVars, transferq>>
  ELSE /\ transferq' = Append(transferq,
                         [kind |-> "flush", area |-> currentStagingArea,
                          submit |-> currentStagingInputs])
       /\ Submit
       /\ UNCHANGED <<src, procCoeffs, procRefs>>

\* Completion by the counter instead of the futures.
InputEndedByCount == stagingActiveCount = 0

\* The future of endInput is set once every area is inactive; the staging
\* memory is freed then (processing_finished).
InputEnded == \A a \in Areas : ~isActive[a]

ProcessingFinished ==
  /\ InputEnded
  /\ src' = [a \in Areas |-> [s \in Slots |-> Garbage]]
  /\ UNCHANGED <<procCoeffs, isActive, procRefs, stagingActiveCount,
                 currentStagingArea, currentStagingInputs>>

\* getOutput: ask the transfer thread for an output in the client's buffer.
GetOutput(index, buf) ==
  /\ transferq' = Append(transferq, [kind |-> "finish", buf |-> buf, index |-> index])
  /\ ready' = [ready EXCEPT ![buf] = FALSE]

----------------------------------------------------------------------------
(* transfer_slice: the loop of the transfer thread. *)

TransferPop ==
  /\ transfer.pc = "idle"
  /\ transferq # <<>>
  /\ transfer' = [pc |-> "run", msg |-> Head(transferq), sends |-> <<>>]
  /\ transferq' = Tail(transferq)
  /\ UNCHANGED <<transferbuffer, stagingVars, processingAdd, memProcessing,
                 workq, worker, ready>>

\* finish_packed_cksum, then the output's future is set.
TransferFinish ==
  /\ transfer.pc = "run" /\ transfer.msg.kind = "finish"
  /\ transferbuffer' = [transferbuffer EXCEPT ![transfer.msg.buf] =
                          [chunk |-> [c \in Chunks |-> memProcessing[<<c, transfer.msg.index>>]]]]
  /\ ready' = [ready EXCEPT ![transfer.msg.buf] = TRUE]
  /\ transfer' = [pc |-> "idle", msg |-> NoMsg, sends |-> <<>>]
  /\ UNCHANGED <<stagingVars, processingAdd, memProcessing, transferq, workq, worker>>

\* prepare_packed_cksum, then run_kernel's bookkeeping if the batch is complete.
TransferPrepare ==
  LET m == transfer.msg IN
  /\ transfer.pc = "run" /\ m.kind \in {"prepare", "flush"}
  /\ IF m.kind = "prepare"
     THEN src' = [src EXCEPT ![m.area][m.slot] = transferbuffer[m.buf]]
     ELSE UNCHANGED src
  /\ IF m.submit > 0
     THEN /\ procRefs' = [procRefs EXCEPT ![m.area] = KernelRefs]
          /\ processingAdd' = TRUE
          /\ transfer' = [pc |-> "send", msg |-> m,
                          sends |-> [i \in 1..Len(KernelSends) |->
                                      [thread |-> KernelSends[i].thread,
                                       req |-> [area |-> m.area, numInputs |-> m.submit,
                                                regions |-> KernelSends[i].regions,
                                                add |-> processingAdd]]]]
     ELSE /\ transfer' = [transfer EXCEPT !.pc = "send"]
          /\ UNCHANGED <<procRefs, processingAdd>>
  /\ UNCHANGED <<transferbuffer, procCoeffs, isActive, stagingActiveCount,
                 currentStagingArea, currentStagingInputs, memProcessing,
                 transferq, workq, worker, ready>>

\* run_kernel sends the requests one by one ...
TransferSend ==
  /\ transfer.pc = "send" /\ transfer.sends # <<>>
  /\ LET s == Head(transfer.sends)
     IN  workq' = [workq EXCEPT ![s.thread] = Append(@, s.req)]
  /\ transfer' = [transfer EXCEPT !.sends = Tail(@)]
  /\ UNCHANGED <<transferbuffer, stagingVars, processingAdd, memProcessing,
                 transferq, worker, ready>>

\* ... and the future of the input buffer is set after that.
TransferNotify ==
  /\ transfer.pc = "send" /\ transfer.sends = <<>>
  /\ ready' = IF transfer.msg.kind = "prepare"
              THEN [ready EXCEPT ![transfer.msg.buf] = TRUE] ELSE ready
  /\ transfer' = [pc |-> "idle", msg |-> NoMsg, sends |-> <<>>]
  /\ UNCHANGED <<transferbuffer, stagingVars, processingAdd, memProcessing,
                 transferq, workq, worker>>

TransferThread ==
  \/ TransferPop \/ TransferFinish \/ TransferPrepare
  \/ TransferSend \/ TransferNotify

----------------------------------------------------------------------------
(* compute_worker: the loop of a worker thread. *)

WorkerPop(t) ==
  /\ worker[t].pc = "idle"
  /\ workq[t] # <<>>
  /\ worker' = [worker EXCEPT ![t] = [pc |-> "compute", req |-> Head(workq[t])]]
  /\ workq' = [workq EXCEPT ![t] = Tail(@)]
  /\ UNCHANGED <<transferbuffer, stagingVars, processingAdd, memProcessing,
                 transferq, transfer, ready>>

\* Multiply the batch into the regions of the request, cleared first unless
\* an earlier batch is there to add to.
WorkerCompute(t) ==
  LET req   == worker[t].req
      batch == [i \in 1..req.numInputs |->
                  <<procCoeffs[req.area][i - 1], src[req.area][i - 1]>>]
  IN
  /\ worker[t].pc = "compute"
  /\ memProcessing' = [r \in Chunks \X Outputs |->
       IF r \notin req.regions THEN memProcessing[r]
       ELSE IF req.add THEN memProcessing[r] \o batch
       ELSE batch]
  /\ worker' = [worker EXCEPT ![t].pc = "release"]
  /\ UNCHANGED <<transferbuffer, stagingVars, processingAdd, transferq, transfer,
                 workq, ready>>

\* procRefs->fetch_sub: the worker that takes the last reference goes on.
WorkerRelease(t) ==
  LET a == worker[t].req.area IN
  /\ worker[t].pc = "release"
  /\ procRefs' = [procRefs EXCEPT ![a] = @ - 1]
  /\ worker' = [worker EXCEPT ![t] =
                  IF procRefs[a] <= 1 THEN [pc |-> "last", req |-> worker[t].req]
                  ELSE [pc |-> "idle", req |-> NoReq]]
  /\ UNCHANGED <<transferbuffer, src, procCoeffs, isActive, stagingActiveCount,
                 currentStagingArea, currentStagingInputs, processingAdd,
                 memProcessing, transferq, transfer, workq, ready>>

\* stagingActiveCount_dec ...
WorkerDecCount(t) ==
  /\ worker[t].pc = "last"
  /\ stagingActiveCount' = stagingActiveCount - 1
  /\ worker' = [worker EXCEPT ![t].pc = "unlock"]
  /\ UNCHANGED <<transferbuffer, src, procCoeffs, isActive, procRefs,
                 currentStagingArea, currentStagingInputs, processingAdd,
                 memProcessing, transferq, transfer, workq, ready>>

\* ... and only then _setAreaActive(procIdx, false).
WorkerSetInactive(t) ==
  /\ worker[t].pc = "unlock"
  /\ isActive' = [isActive EXCEPT ![worker[t].req.area] = FALSE]
  /\ worker' = [worker EXCEPT ![t] = [pc |-> "idle", req |-> NoReq]]
  /\ UNCHANGED <<transferbuffer, src, procCoeffs, procRefs, stagingActiveCount,
                 currentStagingArea, currentStagingInputs, processingAdd,
                 memProcessing, transferq, transfer, workq, ready>>

WorkerThread(t) ==
  \/ WorkerPop(t) \/ WorkerCompute(t) \/ WorkerRelease(t)
  \/ WorkerDecCount(t) \/ WorkerSetInactive(t)
=============================================================================
