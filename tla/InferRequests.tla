---------------------------- MODULE InferRequests ----------------------------
(***************************************************************************)
(* The inference requests of one executable network on the Level Zero      *)
(* backend: AsyncInferRequest and ZeroInferRequest over the pipelines of   *)
(* zero_pipeline.cpp, which share the graph and the command queues of one  *)
(* ZeroExecutor.  OpenVINO's executors, the driver and the device are      *)
(* external and modelled from how this code uses them: an executor runs    *)
(* its tasks one at a time in order, a queue executes its command lists in *)
(* order, a fence or an event stays signalled until it is reset, and a     *)
(* list keeps the arguments the graph has when its execution is recorded.  *)
(* The application creates its requests in one thread, as the tests do,    *)
(* while it may run the ones it has already.                               *)
(***************************************************************************)
EXTENDS Naturals, Sequences

CONSTANTS
    Requests,        \* the inference requests of the network
    MaxInferences,   \* bound: inferences the application starts on a request
    Faults,          \* the steps at which a call may throw
    MaxFaults,       \* bound: calls that throw
    None

Creation == {"inputs", "outputs"}
Push == {"queued", "upload", "execute"}
Pull == {"pushed", "readback", "wait", "copy", "reset"}
Stages == {"UPLOAD", "EXECUTE", "READBACK"}
Regions == {"hostIn", "deviceIn", "deviceOut", "hostOut", "blob"}

ASSUME InferAssumption ==
    /\ MaxInferences \in Nat
    /\ MaxFaults \in Nat
    /\ Faults \subseteq Push \cup Pull
    /\ None \notin Requests

VARIABLES
    integrated,  \* the device shares memory with the host
    graph,       \* whose buffers are the arguments of the shared graph
    recorded,    \* whose buffers the execute list of a request uses
    pc,          \* the step a request has reached
    own,         \* the requests run in the application's thread by Infer
    tasks,       \* the queue of _requestExecutor
    results,     \* the queue of _getResultExecutor
    queue,       \* the command queues of the device
    fence,       \* the signalled fences of a request's pipeline
    event,       \* the requests whose UPLOAD event is signalled
    memory,      \* what the buffers of a request hold
    sent,        \* inferences started on a request
    faults       \* calls that have thrown

host == <<integrated, graph, recorded>>
vars == <<host, pc, own, tasks, results, queue, fence, event, memory, sent, faults>>

Contents == [request : Requests \cup {None}, number : 0..MaxInferences, state : 0..MaxInferences]
Blank == [request |-> None, number |-> 0, state |-> 0]

Init ==
    /\ integrated \in BOOLEAN
    /\ graph = [in |-> None, out |-> None]
    /\ recorded = [r \in Requests |-> graph]
    /\ pc = [r \in Requests |-> "absent"]
    /\ own = {}
    /\ tasks = <<>>
    /\ results = <<>>
    /\ queue = [s \in Stages |-> <<>>]
    /\ fence = [r \in Requests |-> {}]
    /\ event = {}
    /\ memory = [r \in Requests |-> [g \in Regions |-> IF g = "blob" THEN [Blank EXCEPT !.request = r]
                                                                      ELSE Blank]]
    /\ sent = [r \in Requests |-> 0]
    /\ faults = 0

Goto(r, step) == pc' = [pc EXCEPT ![r] = step]

-----------------------------------------------------------------------------
(* Creation of a request and its pipeline. *)

SetInputs(r) ==
    /\ pc[r] = "absent"
    /\ \A q \in Requests : pc[q] \notin Creation
    /\ graph' = [graph EXCEPT !.in = r]
    /\ Goto(r, "inputs")
    /\ UNCHANGED <<integrated, recorded, own, tasks, results, queue, fence, event, memory, sent, faults>>

SetOutputs(r) ==
    /\ pc[r] = "inputs"
    /\ graph' = [graph EXCEPT !.out = r]
    /\ Goto(r, "outputs")
    /\ UNCHANGED <<integrated, recorded, own, tasks, results, queue, fence, event, memory, sent, faults>>

RecordExecution(r) ==
    /\ pc[r] = "outputs"
    /\ recorded' = [recorded EXCEPT ![r] = graph]
    /\ Goto(r, "idle")
    /\ UNCHANGED <<integrated, graph, own, tasks, results, queue, fence, event, memory, sent, faults>>

(* The destructor waits for the inference in flight; the pipeline goes.    *)
Destroy(r) ==
    /\ pc[r] = "idle"
    /\ Goto(r, "gone")
    /\ UNCHANGED <<host, own, tasks, results, queue, fence, event, memory, sent, faults>>

-----------------------------------------------------------------------------
(* The application.  A request that is busy refuses a second inference. *)

StartAsync(r) ==
    /\ pc[r] = "idle"
    /\ sent[r] < MaxInferences
    /\ sent' = [sent EXCEPT ![r] = @ + 1]
    /\ tasks' = Append(tasks, r)
    /\ Goto(r, "queued")
    /\ UNCHANGED <<host, own, results, queue, fence, event, memory, faults>>

Infer(r) ==
    /\ pc[r] = "idle"
    /\ sent[r] < MaxInferences
    /\ sent' = [sent EXCEPT ![r] = @ + 1]
    /\ own' = own \cup {r}
    /\ Goto(r, "queued")
    /\ UNCHANGED <<host, tasks, results, queue, fence, event, memory, faults>>

-----------------------------------------------------------------------------
(* The steps of a running inference, in the thread that runs it. *)

IsFirst(r, s) == s # <<>> /\ Head(s) = r

Scheduled(r) ==
    \/ r \in own
    \/ pc[r] \in Push /\ IsFirst(r, tasks)
    \/ pc[r] \in Pull /\ IsFirst(r, results)

Submit(r, stage) == queue' = [queue EXCEPT ![stage] = Append(@, r)]

UserInput(r) == [request |-> r, number |-> sent[r], state |-> memory[r]["blob"].state]

CopyInputs(r) ==
    /\ pc[r] = "queued"
    /\ Scheduled(r)
    /\ memory' = [memory EXCEPT ![r]["hostIn"] = UserInput(r)]
    /\ Goto(r, IF integrated THEN "execute" ELSE "upload")
    /\ UNCHANGED <<host, own, tasks, results, queue, fence, event, sent, faults>>

DispatchUpload(r) ==
    /\ pc[r] = "upload"
    /\ Scheduled(r)
    /\ Submit(r, "UPLOAD")
    /\ Goto(r, "execute")
    /\ UNCHANGED <<host, own, tasks, results, fence, event, memory, sent, faults>>

DispatchExecute(r) ==
    /\ pc[r] = "execute"
    /\ Scheduled(r)
    /\ Submit(r, "EXECUTE")
    /\ Goto(r, "pushed")
    /\ \/ r \in own /\ UNCHANGED <<tasks, results>>
       \/ r \notin own /\ tasks' = Tail(tasks) /\ results' = Append(results, r)
    /\ UNCHANGED <<host, own, fence, event, memory, sent, faults>>

MutantSyncExecute(r) ==
    /\ pc[r] = "pushed"
    /\ Scheduled(r)
    /\ Goto(r, IF integrated THEN "copy" ELSE "readback")
    /\ UNCHANGED <<host, own, tasks, results, queue, fence, event, memory, sent, faults>>

SyncExecute(r) ==
    /\ pc[r] = "pushed"
    /\ Scheduled(r)
    /\ "EXECUTE" \in fence[r]
    /\ Goto(r, IF integrated THEN "copy" ELSE "readback")
    /\ UNCHANGED <<host, own, tasks, results, queue, fence, event, memory, sent, faults>>

DispatchReadback(r) ==
    /\ pc[r] = "readback"
    /\ Scheduled(r)
    /\ Submit(r, "READBACK")
    /\ Goto(r, "wait")
    /\ UNCHANGED <<host, own, tasks, results, fence, event, memory, sent, faults>>

SyncReadback(r) ==
    /\ pc[r] = "wait"
    /\ Scheduled(r)
    /\ "READBACK" \in fence[r]
    /\ Goto(r, "copy")
    /\ UNCHANGED <<host, own, tasks, results, queue, fence, event, memory, sent, faults>>

CopyOutputs(r) ==
    /\ pc[r] = "copy"
    /\ Scheduled(r)
    /\ memory' = [memory EXCEPT ![r]["blob"] = memory[r]["hostOut"]]
    /\ Goto(r, "reset")
    /\ UNCHANGED <<host, own, tasks, results, queue, fence, event, sent, faults>>

(* The inference leaves its thread, with a result or with an exception. *)
Leave(r) ==
    /\ Goto(r, "idle")
    /\ own' = own \ {r}
    /\ tasks' = IF r \notin own /\ pc[r] \in Push THEN Tail(tasks) ELSE tasks
    /\ results' = IF r \notin own /\ pc[r] \in Pull THEN Tail(results) ELSE results

MutantResetFences(r) ==
    /\ pc[r] = "reset"
    /\ Scheduled(r)
    /\ fence' = [fence EXCEPT ![r] = @ \ {"EXECUTE"}]
    /\ Leave(r)
    /\ UNCHANGED <<host, queue, event, memory, sent, faults>>

ResetFences(r) ==
    /\ pc[r] = "reset"
    /\ Scheduled(r)
    /\ fence' = [fence EXCEPT ![r] = {}]
    /\ Leave(r)
    /\ UNCHANGED <<host, queue, event, memory, sent, faults>>

(* A call throws.  The exception skips the rest of the inference; what the *)
(* loops over inputs, outputs and fences did before it stays done.         *)
Partly(old, new) == {[f \in DOMAIN old |-> IF f \in S THEN new[f] ELSE old[f]] : S \in SUBSET DOMAIN old}

Throw(r) ==
    /\ pc[r] \in Faults
    /\ Scheduled(r)
    /\ faults < MaxFaults
    /\ faults' = faults + 1
    /\ Leave(r)
    /\ \/ /\ pc[r] \notin {"queued", "copy"}
          /\ UNCHANGED memory
       \/ /\ pc[r] = "queued"
          /\ \E c \in Partly(memory[r]["hostIn"], UserInput(r)) :
                memory' = [memory EXCEPT ![r]["hostIn"] = c]
       \/ /\ pc[r] = "copy"
          /\ \E c \in Partly(memory[r]["blob"], memory[r]["hostOut"]) :
                memory' = [memory EXCEPT ![r]["blob"] = c]
    /\ \E left \in IF pc[r] = "reset" THEN SUBSET fence[r] ELSE {fence[r]} :
          fence' = [fence EXCEPT ![r] = left]
    /\ UNCHANGED <<host, queue, event, sent>>

-----------------------------------------------------------------------------
(* The command lists, executed by the device. *)

Finish(r, stage) == queue' = [queue EXCEPT ![stage] = Tail(@)]

MutantUpload(r) ==
    /\ IsFirst(r, queue["UPLOAD"])
    /\ memory' = [memory EXCEPT ![r]["deviceIn"] = memory[r]["hostIn"]]
    /\ Finish(r, "UPLOAD")
    /\ UNCHANGED <<host, pc, own, tasks, results, fence, event, sent, faults>>

(* Copy the inputs, then signal the event. *)
Upload(r) ==
    /\ IsFirst(r, queue["UPLOAD"])
    /\ memory' = [memory EXCEPT ![r]["deviceIn"] = memory[r]["hostIn"]]
    /\ event' = event \cup {r}
    /\ Finish(r, "UPLOAD")
    /\ UNCHANGED <<host, pc, own, tasks, results, fence, sent, faults>>

InRegion == IF integrated THEN "hostIn" ELSE "deviceIn"
OutRegion == IF integrated THEN "hostOut" ELSE "deviceOut"

(* Wait for the event, run the graph on the recorded arguments, signal.    *)
Execute(r) ==
    /\ IsFirst(r, queue["EXECUTE"])
    /\ integrated \/ r \in event
    /\ memory' = [memory EXCEPT ![recorded[r].out][OutRegion] =
                     [memory[recorded[r].in][InRegion] EXCEPT !.state = @ + 1]]
    /\ fence' = [fence EXCEPT ![r] = @ \cup {"EXECUTE"}]
    /\ Finish(r, "EXECUTE")
    /\ UNCHANGED <<host, pc, own, tasks, results, event, sent, faults>>

MutantReadback(r) ==
    /\ IsFirst(r, queue["READBACK"])
    /\ memory' = [memory EXCEPT ![r]["hostOut"] = memory[r]["deviceOut"]]
    /\ fence' = [fence EXCEPT ![r] = @ \cup {"READBACK"}]
    /\ Finish(r, "READBACK")
    /\ UNCHANGED <<host, pc, own, tasks, results, event, sent, faults>>

(* Copy the outputs, reset the event, signal. *)
Readback(r) ==
    /\ IsFirst(r, queue["READBACK"])
    /\ memory' = [memory EXCEPT ![r]["hostOut"] = memory[r]["deviceOut"]]
    /\ event' = event \ {r}
    /\ fence' = [fence EXCEPT ![r] = @ \cup {"READBACK"}]
    /\ Finish(r, "READBACK")
    /\ UNCHANGED <<host, pc, own, tasks, results, sent, faults>>

-----------------------------------------------------------------------------
Create(r) == SetInputs(r) \/ SetOutputs(r) \/ RecordExecution(r)

Run(r) ==
    \/ CopyInputs(r) \/ DispatchUpload(r) \/ DispatchExecute(r)
    \/ SyncExecute(r) \/ DispatchReadback(r) \/ SyncReadback(r)
    \/ CopyOutputs(r) \/ ResetFences(r)

Next ==
    \E r \in Requests :
        \/ Create(r)
        \/ Destroy(r)
        \/ StartAsync(r)
        \/ Infer(r)
        \/ Run(r)
        \/ Throw(r)
        \/ Upload(r)
        \/ Execute(r)
        \/ Readback(r)

(* The threads of the executors and of the application keep running, and   *)
(* the device works off its queues.                                        *)
Fairness ==
    \A r \in Requests : WF_vars(Run(r)) /\ WF_vars(Upload(r)) /\ WF_vars(Execute(r)) /\ WF_vars(Readback(r))

Spec == Init /\ [][Next]_vars /\ Fairness

-----------------------------------------------------------------------------
(* Types: every request is at a known step, every queue holds requests, no *)
(* buffer is ahead of the inferences the application may start, and an     *)
(* upload signals an event and never a fence (zero_pipeline.cpp:83).       *)
IRTypeOK ==
    /\ integrated \in BOOLEAN
    /\ graph \in [in : Requests \cup {None}, out : Requests \cup {None}]
    /\ recorded \in [Requests -> [in : Requests \cup {None}, out : Requests \cup {None}]]
    /\ pc \in [Requests -> {"absent", "idle", "gone"} \cup Creation \cup Push \cup Pull]
    /\ own \subseteq Requests
    /\ tasks \in Seq(Requests)
    /\ results \in Seq(Requests)
    /\ queue \in [Stages -> Seq(Requests)]
    /\ fence \in [Requests -> SUBSET {"EXECUTE", "READBACK"}]
    /\ event \subseteq Requests
    /\ memory \in [Requests -> [Regions -> Contents]]
    /\ sent \in [Requests -> 0..MaxInferences]
    /\ faults \in 0..MaxFaults

(* When pull() returns, the host buffer of the outputs holds the output of *)
(* the inference that was pushed: "to make sure that data is available in  *)
(* the hostMem buffer of the output" (zero_pipeline.cpp:98).               *)
ReadyWhenPulled ==
    \A r \in Requests : pc[r] = "copy" =>
        memory[r]["hostOut"] = [UserInput(r) EXCEPT !.state = @ + 1]

(* A request at rest has no command list left in a queue: its fences can   *)
(* be used again and its pipeline destroyed (vpux_async_infer_request.cpp  *)
(* destroys after StopAndWait).                                            *)
NothingPendingAtRest ==
    \A r \in Requests, s \in Stages : pc[r] \in {"idle", "gone"} =>
        \A i \in DOMAIN queue[s] : queue[s][i] # r

(* Each inference that succeeds delivers the output of its own input, on   *)
(* the state the inference before has left, whatever the other requests do *)
(* on the shared graph, executors and queues.                              *)
Service == INSTANCE InferenceService WITH
    pending <- {r \in Requests : pc[r] \in (Push \cup Pull) \ {"reset"}},
    result <- [r \in Requests |-> memory[r]["blob"]]

ServesRequests == Service!Spec

(* Every inference that was started ends, with a result or an exception:   *)
(* no executor and no queue is blocked for ever by another request.        *)
RequestsFinish == \A r \in Requests : pc[r] \in Push \cup Pull ~> pc[r] = "idle"
==============================================================================
