---------------------------- MODULE ProcessData ----------------------------
(***************************************************************************)
(* Par2Repairer::Process's block-offset loop and Par2Repairer::ProcessData  *)
(* (src/par2repairer.cpp), the client thread of the ParPar backend.  Every  *)
(* pass reads a slice of each input block into one of two transfer buffers, *)
(* hands it to the backend, waits for the end of the input and then writes  *)
(* the slice of each recovered output block.                                *)
(***************************************************************************)
EXTENDS PAR2ProcCPU

CONSTANTS
  NumInputs,   \* inputblocks.size()
  NumPasses    \* slices a block is processed in, ceil(blocksize / chunksize)

ASSUME ClientAssumption ==
  /\ NumInputs \in Nat \ {0}
  /\ NumPasses \in Nat \ {0}
  /\ Buffers = 0..1   \* NUM_TRANSFER_BUFFERS

NumBuffers == 2   \* NUM_TRANSFER_BUFFERS

VARIABLES
  pc,            \* where the client thread is
  pass,          \* blockoffset, as the number of the slice
  inputindex,
  bufferindex,
  outputindex,
  cancelled,     \* set by another thread, polled in the input loop
  written        \* slices written to the target files so far, in order

clientVars == <<pc, pass, inputindex, bufferindex, outputindex, cancelled, written>>
vars == <<backendVars, clientVars>>

\* The slice of an input block that a pass reads.
Datum(p, i) == [pass |-> p, input |-> i]

Init ==
  /\ BackendInit
  /\ pc = "start"
  /\ pass = 0
  /\ inputindex = 0
  /\ bufferindex = NumBuffers - 1
  /\ outputindex = 0
  /\ cancelled = FALSE
  /\ written = <<>>

\* ProcessData begins: all buffers available, the backend's output discarded.
Start ==
  /\ pc = "start"
  /\ DiscardOutput
  /\ inputindex' = 0
  /\ bufferindex' = NumBuffers - 1
  /\ pc' = "input"
  /\ UNCHANGED <<transferbuffer, stagingVars, memProcessing, threadVars, ready,
                 pass, outputindex, cancelled, written>>

\* The next buffer is taken without waiting for it.
TakeBuffer ==
  /\ pc = "input"
  /\ bufferindex' = (bufferindex + 1) % NumBuffers
  /\ pc' = "read"
  /\ UNCHANGED <<backendVars, pass, inputindex, outputindex, cancelled, written>>

\* Step to the next transfer buffer and wait for its future.
WaitBuffer ==
  LET b == (bufferindex + 1) % NumBuffers IN
  /\ pc = "input"
  /\ ready[b]
  /\ bufferindex' = b
  /\ pc' = "read"
  /\ UNCHANGED <<backendVars, pass, inputindex, outputindex, cancelled, written>>

\* Read the input block (and copy it to a target file): either may fail.
ReadInput ==
  /\ pc = "read"
  /\ \/ /\ transferbuffer' = [transferbuffer EXCEPT ![bufferindex] = Datum(pass, inputindex)]
        /\ pc' = "add"
     \/ /\ pc' = "unwind"
        /\ UNCHANGED transferbuffer
  /\ UNCHANGED <<stagingVars, processingAdd, memProcessing, threadVars, ready,
                 pass, inputindex, bufferindex, outputindex, cancelled, written>>

\* waitForAdd and addInput with the column of factors of this input.  A cancel
\* seen after the call ends the loop early.
SendInput ==
  /\ pc = "add"
  /\ AddInput(bufferindex, inputindex)
  /\ IF cancelled
     THEN pc' = "end" /\ UNCHANGED inputindex
     ELSE /\ inputindex' = inputindex + 1
          /\ pc' = IF inputindex + 1 < NumInputs THEN "input" ELSE "end"
  /\ UNCHANGED <<transferbuffer, processingAdd, memProcessing, transfer, workq,
                 worker, pass, bufferindex, outputindex, cancelled, written>>

\* endInput flushes the batch that is not full ...
EndInput ==
  /\ pc = "end"
  /\ Flush
  /\ pc' = "endwait"
  /\ UNCHANGED <<transferbuffer, processingAdd, memProcessing, transfer, workq,
                 worker, ready, pass, inputindex, bufferindex, outputindex,
                 cancelled, written>>

\* ... and its future is waited for.  Leaving the scope of bufferavail waits
\* for those futures too.  The cancel flag is polled once more.
EndWait ==
  /\ pc = "endwait"
  /\ ProcessingFinished
  /\ \A b \in Buffers : ready[b]
  /\ pc' = IF cancelled THEN "unwind" ELSE "getfirst"
  /\ outputindex' = 0
  /\ UNCHANGED <<transferbuffer, processingAdd, memProcessing, threadVars, ready,
                 pass, inputindex, bufferindex, cancelled, written>>

\* Ask for the first output.
GetFirst ==
  /\ pc = "getfirst"
  /\ GetOutput(0, 0)
  /\ pc' = "getnext"
  /\ UNCHANGED <<transferbuffer, stagingVars, processingAdd, memProcessing,
                 transfer, workq, worker, pass, inputindex, bufferindex,
                 outputindex, cancelled, written>>

\* Ask for the output after the current one, in the other buffer.
GetNext ==
  /\ pc = "getnext"
  /\ IF outputindex + 1 < NumOutputs
     THEN GetOutput(outputindex + 1, (outputindex + 1) % 2)
     ELSE UNCHANGED <<transferq, ready>>
  /\ pc' = "output"
  /\ UNCHANGED <<transferbuffer, stagingVars, processingAdd, memProcessing,
                 transfer, workq, worker, pass, inputindex, bufferindex,
                 outputindex, cancelled, written>>

\* Wait for the current output; its checksum may be bad.
WaitOutput ==
  /\ pc = "output"
  /\ ready[outputindex % 2]
  /\ pc' \in {"write", "unwind"}
  /\ UNCHANGED <<backendVars, pass, inputindex, bufferindex, outputindex,
                 cancelled, written>>

\* Write the output to its target file, which may fail.  After the last output
\* the loop in Process goes on with the next slice.
WriteOutput ==
  /\ pc = "write"
  /\ \/ /\ written' = Append(written, [pass |-> pass, output |-> outputindex,
                                       data |-> transferbuffer[outputindex % 2]])
        /\ IF outputindex + 1 < NumOutputs
           THEN outputindex' = outputindex + 1 /\ pc' = "getnext" /\ UNCHANGED pass
           ELSE /\ pass' = pass + 1
                /\ pc' = IF pass + 1 < NumPasses THEN "start" ELSE "done"
                /\ UNCHANGED outputindex
     \/ /\ pc' = "unwind"
        /\ UNCHANGED <<pass, outputindex, written>>
  /\ UNCHANGED <<backendVars, inputindex, bufferindex, cancelled>>

\* An early return destroys the futures, and the destructor of a future that
\* std::async returned blocks until it is set.
Unwind ==
  /\ pc = "unwind"
  /\ \A b \in Buffers : ready[b]
  /\ pc' = "failed"
  /\ UNCHANGED <<backendVars, pass, inputindex, bufferindex, outputindex,
                 cancelled, written>>

\* Another thread sets the flag at any time.
Cancel ==
  /\ ~cancelled
  /\ pc \notin {"done", "failed"}
  /\ cancelled' = TRUE
  /\ UNCHANGED <<backendVars, pc, pass, inputindex, bufferindex, outputindex, written>>

Client ==
  \/ Start \/ WaitBuffer \/ ReadInput \/ SendInput \/ EndInput \/ EndWait
  \/ GetFirst \/ GetNext \/ WaitOutput \/ WriteOutput \/ Unwind

Idle == /\ transferq = <<>> /\ transfer.pc = "idle"
        /\ \A t \in Threads : workq[t] = <<>> /\ worker[t].pc = "idle"

\* The call has returned and the backend has run dry.
Quiescent == pc \in {"done", "failed"} /\ Idle /\ UNCHANGED vars

Transfer  == TransferThread /\ UNCHANGED clientVars
Worker(t) == WorkerThread(t) /\ UNCHANGED clientVars

Next == Client \/ Cancel \/ Transfer \/ (\E t \in Threads : Worker(t)) \/ Quiescent

Spec == Init /\ [][Next]_vars

\* Every thread that can run is scheduled eventually; nobody has to cancel.
Fairness == /\ WF_vars(Client)
            /\ WF_vars(Transfer)
            /\ \A t \in Threads : WF_vars(Worker(t))

FairSpec == Spec /\ Fairness

----------------------------------------------------------------------------
(* Properties *)

\* The transfer messages that are queued or being executed.
InFlight == {i \in 0..Len(transferq) : i > 0 \/ transfer.pc # "idle"}
Message(i) == IF i = 0 THEN transfer.msg ELSE transferq[i]
Uses(i, b) == Message(i).kind \in {"prepare", "finish"} /\ Message(i).buf = b

\* Requests of a batch that still have to read their staging area.
Requests ==
  {transfer.sends[i].req : i \in 1..Len(transfer.sends)}
  \cup UNION {{workq[t][i] : i \in 1..Len(workq[t])} : t \in Threads}
  \cup {worker[t].req : t \in {u \in Threads : worker[u].pc = "compute"}}

StagingType ==
  /\ isActive \in [Areas -> BOOLEAN]
  /\ procRefs \in [Areas -> Int]
  /\ stagingActiveCount \in Int
  /\ currentStagingArea \in Areas
  /\ currentStagingInputs \in Slots
  /\ processingAdd \in BOOLEAN

ThreadsType ==
  /\ transferq \in Seq(MessageSet)
  /\ transfer \in [pc : {"idle", "run", "send"}, msg : MessageSet \cup {NoMsg},
                   sends : Seq(SendSet)]
  /\ transfer.pc # "idle" => transfer.msg \in MessageSet
  /\ transfer.pc = "send" => transfer.msg.kind \in {"prepare", "flush"}
  /\ workq \in [Threads -> Seq(ReqSet)]
  /\ worker \in [Threads -> [pc : {"idle", "compute", "release", "last", "unlock"},
                             req : ReqSet \cup {NoReq}]]
  /\ \A t \in Threads : worker[t].pc # "idle" => worker[t].req \in ReqSet

ClientType ==
  /\ ready \in [Buffers -> BOOLEAN]
  /\ pc \in {"start", "input", "read", "add", "end", "endwait", "getfirst",
             "getnext", "output", "write", "unwind", "done", "failed"}
  /\ pass \in Nat
  /\ inputindex \in Nat
  /\ bufferindex \in Buffers
  /\ outputindex \in Outputs
  /\ cancelled \in BOOLEAN

\* Every variable has the type its declaration in the code gives it, and every
\* index (of a staging area, a slot, a buffer, an output) is in range.
TypeOK == StagingType /\ ThreadsType /\ ClientType

\* A transfer buffer belongs to one thread at a time: while ProcessData reads
\* into it, passes it on or writes it to disk no queued or running transfer
\* refers to it, and no two transfers share a buffer.
BufferExclusive ==
  /\ pc \in {"read", "add"} => \A i \in InFlight : ~Uses(i, bufferindex)
  /\ pc = "write" => \A i \in InFlight : ~Uses(i, outputindex % 2)
  /\ \A i, j \in InFlight : \A b \in Buffers : Uses(i, b) /\ Uses(j, b) => i = j

\* A staging area some request still has to read is locked (so _addInput will
\* not change its coefficients and processing_finished will not free it) and no
\* transfer that would overwrite a slot of it is under way.
StagingExclusive ==
  \A req \in Requests :
    /\ isActive[req.area]
    /\ \A i \in InFlight :
         Message(i).kind = "prepare" /\ Message(i).area = req.area
           => i = 0 /\ transfer.pc = "send"

\* Two workers never write the same part of the recovery memory, even when they
\* work on different batches.
RegionExclusive ==
  \A t, u \in Threads :
    t # u /\ worker[t].pc = "compute" /\ worker[u].pc = "compute"
      => worker[t].req.regions \cap worker[u].req.regions = {}

\* When ProcessData returns true the backend has nothing left to do, so the
\* destructor may free its memory; whenever it returns, on an error or a cancel
\* too, no transfer still refers to a transfer buffer, which is freed next.
CleanTeardown ==
  /\ pc = "done" => Idle
  /\ pc \in {"done", "failed"} => \A i \in InFlight, b \in Buffers : ~Uses(i, b)

\* ProcessData writes correct slices in order or fails: it implements SliceWriter.
Writer == INSTANCE SliceWriter WITH
            status <- IF pc \in {"done", "failed"} THEN pc ELSE "busy"
ImplementsSliceWriter == Writer!Spec

\* No thread waits for ever: the processing comes to an end.
Terminates == <>(pc \in {"done", "failed"})
=============================================================================
