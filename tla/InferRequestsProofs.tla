------------------------- MODULE InferRequestsProofs -------------------------
(***************************************************************************)
(* Proofs about the inference requests, for every number of requests and   *)
(* inferences, on devices with and without memory of their own: outputs    *)
(* are ready when a pull returns, a request at rest has left nothing in a  *)
(* queue, and the requests serve an application as InferenceService says.  *)
(* They hold as long as no call throws once a command list was dispatched: *)
(* what a later exception breaks is shown by a run (README, findings).     *)
(***************************************************************************)
EXTENDS InferRequests, SequenceTheorems, TLAPS

(* What the application sees of a call that throws this early: the inputs  *)
(* were not copied, or the upload was refused.                             *)
ThrowsEarly == Faults \subseteq {"queued", "upload"}

-----------------------------------------------------------------------------
(* The inductive invariant. *)

Listed(r, stage) == \E i \in DOMAIN queue[stage] : queue[stage][i] = r

Twiceless(s) == \A i, j \in DOMAIN s : s[i] = s[j] => i = j

Created(r) == pc[r] \notin {"absent"} \cup Creation

(* One request is created at a time, so the arguments of the shared graph  *)
(* are its own when its execution is recorded.                             *)
OwnArguments ==
    /\ \A r, q \in Requests : pc[r] \in Creation /\ pc[q] \in Creation => r = q
    /\ \A r \in Requests : pc[r] \in Creation => graph.in = r
    /\ \A r \in Requests : pc[r] = "outputs" => graph.out = r
    /\ \A r \in Requests : Created(r) => recorded[r] = [in |-> r, out |-> r]

(* Which lists of a request a queue holds, step by step.                   *)
ListsOf(r) ==
    /\ Listed(r, "UPLOAD") => ~integrated /\ pc[r] \in {"execute", "pushed"} /\ r \notin event
    /\ Listed(r, "EXECUTE") => pc[r] = "pushed"
    /\ Listed(r, "READBACK") => ~integrated /\ pc[r] = "wait"
    /\ integrated => pc[r] \notin {"upload", "readback", "wait"}

(* The fences and the event say which of these lists are done.             *)
SignalsOf(r) ==
    /\ fence[r] = CASE pc[r] = "pushed" -> IF Listed(r, "EXECUTE") THEN {} ELSE {"EXECUTE"}
                    [] pc[r] = "readback" -> {"EXECUTE"}
                    [] pc[r] = "wait" -> {"EXECUTE"} \cup (IF Listed(r, "READBACK") THEN {} ELSE {"READBACK"})
                    [] pc[r] \in {"copy", "reset"} -> IF integrated THEN {"EXECUTE"}
                                                      ELSE {"EXECUTE", "READBACK"}
                    [] OTHER -> {}
    /\ r \in event =>
        /\ ~integrated
        /\ \/ pc[r] \in {"execute", "pushed", "readback"}
           \/ Listed(r, "READBACK")

Answer(r) == [request |-> r, number |-> sent[r], state |-> memory[r]["blob"].state + 1]

(* Where the inputs and the outputs of the inference are.                  *)
DataOf(r) ==
    /\ \/ pc[r] \in {"upload", "execute"}
       \/ Listed(r, "UPLOAD")
       \/ integrated /\ Listed(r, "EXECUTE")
       => memory[r]["hostIn"] = UserInput(r)
    /\ ~integrated /\ (pc[r] = "execute" \/ Listed(r, "EXECUTE")) =>
            Listed(r, "UPLOAD") \/ (r \in event /\ memory[r]["deviceIn"] = UserInput(r))
    /\ pc[r] = "pushed" /\ ~Listed(r, "EXECUTE") =>
            ~Listed(r, "UPLOAD") /\ memory[r][OutRegion] = Answer(r)
    /\ pc[r] = "readback" \/ Listed(r, "READBACK") => memory[r]["deviceOut"] = Answer(r)
    /\ pc[r] = "wait" /\ ~Listed(r, "READBACK") => memory[r]["hostOut"] = Answer(r)
    /\ pc[r] = "copy" => memory[r]["hostOut"] = Answer(r)

(* The state a request keeps has seen the inferences before this one.      *)
StateOf(r) ==
    /\ memory[r]["blob"].state <= sent[r]
    /\ pc[r] \in (Push \cup Pull) \ {"reset"} => memory[r]["blob"].state < sent[r]

RequestInv(r) == ListsOf(r) /\ SignalsOf(r) /\ DataOf(r) /\ StateOf(r)

IInv ==
    /\ IRTypeOK
    /\ OwnArguments
    /\ \A s \in Stages : Twiceless(queue[s])
    /\ \A r \in Requests : RequestInv(r)

-----------------------------------------------------------------------------
(* The queues of the device. *)

(* A list that is not in its queue yet is in it once afterwards.           *)
LEMMA SubmitLists ==
    ASSUME IInv, NEW r \in Requests, NEW stage \in Stages, Submit(r, stage), ~Listed(r, stage)
    PROVE  /\ queue' \in [Stages -> Seq(Requests)]
           /\ \A s \in Stages : Twiceless(queue'[s])
           /\ \A q \in Requests, s \in Stages :
                Listed(q, s)' <=> Listed(q, s) \/ (q = r /\ s = stage)
<1> DEFINE old == queue[stage]
           new == Append(queue[stage], r)
<1>1. queue \in [Stages -> Seq(Requests)] /\ old \in Seq(Requests)
  BY DEF IInv, IRTypeOK
<1>2. queue' = [queue EXCEPT ![stage] = new]
  BY DEF Submit
<1>3. /\ new \in Seq(Requests) /\ Len(old) \in Nat
      /\ DOMAIN old = 1..Len(old) /\ DOMAIN new = 1..(Len(old) + 1)
      /\ \A i \in 1..Len(old) : new[i] = old[i]
      /\ new[Len(old) + 1] = r
  BY <1>1
<1>4. Twiceless(old) /\ \A i \in DOMAIN old : old[i] # r
  BY DEF IInv, Listed
<1> HIDE DEF new, old
<1>5. Twiceless(new)
  <2> SUFFICES ASSUME NEW i \in DOMAIN new, NEW j \in DOMAIN new, new[i] = new[j], i # j PROVE FALSE
    BY DEF Twiceless
  <2>1. CASE i \in 1..Len(old) /\ j \in 1..Len(old)
    BY <2>1, <1>3, <1>4 DEF Twiceless
  <2>2. CASE i \notin 1..Len(old)
    <3>1. i = Len(old) + 1 /\ j \in 1..Len(old)
      BY <2>2, <1>3
    <3> QED  BY <3>1, <1>3, <1>4
  <2>3. CASE j \notin 1..Len(old)
    <3>1. j = Len(old) + 1 /\ i \in 1..Len(old)
      BY <2>3, <1>3
    <3> QED  BY <3>1, <1>3, <1>4
  <2> QED  BY <2>1, <2>2, <2>3
<1>6. \A q : (\E i \in DOMAIN new : new[i] = q) <=> (\E i \in DOMAIN old : old[i] = q) \/ q = r
  <2>1. 1..(Len(old) + 1) = 1..Len(old) \cup {Len(old) + 1}
    BY <1>3
  <2> QED  BY <2>1, <1>3
<1>7. queue'[stage] = new /\ \A s \in Stages \ {stage} : queue'[s] = queue[s]
  BY <1>1, <1>2
<1>8. \A s \in Stages : Twiceless(queue'[s])
  BY <1>5, <1>7 DEF IInv
<1>9. queue' \in [Stages -> Seq(Requests)]
  BY <1>1, <1>2, <1>3
<1>10. ASSUME NEW q \in Requests, NEW s \in Stages
       PROVE  Listed(q, s)' <=> Listed(q, s) \/ (q = r /\ s = stage)
  <2>1. CASE s = stage
    BY <2>1, <1>6, <1>7 DEF Listed, old
  <2>2. CASE s # stage
    BY <2>2, <1>7 DEF Listed
  <2> QED  BY <2>1, <2>2
<1> QED  BY <1>8, <1>9, <1>10

(* A list that was executed is no longer in its queue.                     *)
LEMMA FinishLists ==
    ASSUME IInv, NEW r \in Requests, NEW stage \in Stages,
           IsFirst(r, queue[stage]), Finish(r, stage)
    PROVE  /\ Listed(r, stage)
           /\ queue' \in [Stages -> Seq(Requests)]
           /\ \A s \in Stages : Twiceless(queue'[s])
           /\ \A q \in Requests, s \in Stages :
                Listed(q, s)' <=> Listed(q, s) /\ ~(q = r /\ s = stage)
<1> DEFINE old == queue[stage]
           new == Tail(queue[stage])
<1>1. queue \in [Stages -> Seq(Requests)] /\ old \in Seq(Requests) /\ old # <<>>
  BY DEF IInv, IRTypeOK, IsFirst
<1>2. queue' = [queue EXCEPT ![stage] = new]
  BY DEF Finish
<1>3. /\ new \in Seq(Requests) /\ Len(old) \in Nat \ {0}
      /\ DOMAIN old = 1..Len(old) /\ DOMAIN new = 1..(Len(old) - 1)
      /\ \A i \in 1..(Len(old) - 1) : new[i] = old[i + 1]
      /\ old[1] = r
  BY <1>1 DEF IsFirst
<1>4. Twiceless(old)
  BY DEF IInv
<1>5. Listed(r, stage)
  BY <1>3 DEF Listed
<1> HIDE DEF new, old
<1>6. \A i \in DOMAIN new : i + 1 \in DOMAIN old /\ new[i] = old[i + 1]
  BY <1>3
<1>7. Twiceless(new)
  <2> SUFFICES ASSUME NEW i \in DOMAIN new, NEW j \in DOMAIN new, new[i] = new[j] PROVE i = j
    BY DEF Twiceless
  <2>1. i + 1 = j + 1
    BY <1>4, <1>6 DEF Twiceless
  <2> QED  BY <2>1, <1>3
<1>8. \A q : (\E i \in DOMAIN new : new[i] = q) <=> (\E i \in DOMAIN old : old[i] = q) /\ q # r
  <2>1. ASSUME NEW i \in DOMAIN new PROVE new[i] # r
    <3>1. i + 1 # 1 /\ 1 \in DOMAIN old
      BY <1>3
    <3> QED  BY <3>1, <1>3, <1>4, <1>6 DEF Twiceless
  <2>2. ASSUME NEW i \in DOMAIN old, old[i] # r PROVE i - 1 \in DOMAIN new /\ new[i - 1] = old[i]
    <3>1. i # 1 /\ i \in 1..Len(old)
      BY <2>2, <1>3
    <3>2. i - 1 \in 1..(Len(old) - 1) /\ (i - 1) + 1 = i
      BY <3>1, <1>3
    <3> QED  BY <3>2, <1>3
  <2> QED  BY <2>1, <2>2, <1>6
<1>9. queue'[stage] = new /\ \A s \in Stages \ {stage} : queue'[s] = queue[s]
  BY <1>1, <1>2
<1>10. \A s \in Stages : Twiceless(queue'[s])
  BY <1>7, <1>9 DEF IInv
<1>11. queue' \in [Stages -> Seq(Requests)]
  BY <1>1, <1>2, <1>3
<1>12. ASSUME NEW q \in Requests, NEW s \in Stages
       PROVE  Listed(q, s)' <=> Listed(q, s) /\ ~(q = r /\ s = stage)
  <2>1. CASE s = stage
    BY <2>1, <1>8, <1>9 DEF Listed, old
  <2>2. CASE s # stage
    BY <2>2, <1>9 DEF Listed
  <2> QED  BY <2>1, <2>2
<1> QED  BY <1>5, <1>10, <1>11, <1>12

(* A step of one request leaves alone what is said of the others.          *)
LEMMA StepOfOne ==
    ASSUME IInv, NEW r \in Requests,
           integrated' = integrated,
           \A q \in Requests : q # r =>
                /\ pc'[q] = pc[q] /\ sent'[q] = sent[q] /\ memory'[q] = memory[q]
                /\ fence'[q] = fence[q] /\ (q \in event' <=> q \in event)
                /\ \A s \in Stages : Listed(q, s)' <=> Listed(q, s),
           \A s \in Stages : Twiceless(queue'[s]),
           IRTypeOK', OwnArguments', RequestInv(r)'
    PROVE  IInv'
<1>1. ASSUME NEW q \in Requests, q # r PROVE RequestInv(q)'
  <2>1. /\ pc'[q] = pc[q] /\ sent'[q] = sent[q] /\ memory'[q] = memory[q]
        /\ fence'[q] = fence[q] /\ (q \in event' <=> q \in event)
        /\ Listed(q, "UPLOAD")' <=> Listed(q, "UPLOAD")
        /\ Listed(q, "EXECUTE")' <=> Listed(q, "EXECUTE")
        /\ Listed(q, "READBACK")' <=> Listed(q, "READBACK")
    BY <1>1 DEF Stages
  <2>2. RequestInv(q) /\ OutRegion' = OutRegion
    BY DEF IInv, OutRegion
  <2>3. ListsOf(q)'
    BY <2>1, <2>2 DEF RequestInv, ListsOf
  <2>4. SignalsOf(q)'
    BY <2>1, <2>2 DEF RequestInv, SignalsOf
  <2>5. DataOf(q)'
    BY <2>1, <2>2 DEF RequestInv, DataOf, UserInput, Answer
  <2>6. StateOf(q)'
    BY <2>1, <2>2 DEF RequestInv, StateOf
  <2> QED  BY <2>3, <2>4, <2>5, <2>6 DEF RequestInv
<1> QED  BY <1>1 DEF IInv

(* A created request keeps the arguments its execution was recorded with.  *)
LEMMA ArgumentsKept ==
    ASSUME IInv, NEW r \in Requests, UNCHANGED <<graph, recorded>>, Created(r), Created(r)',
           \A q \in Requests : q # r => pc'[q] = pc[q]
    PROVE  OwnArguments'
<1>1. \A q \in Requests : (pc'[q] \in Creation <=> pc[q] \in Creation) /\ (pc'[q] = "outputs" <=> pc[q] = "outputs")
                         /\ (Created(q)' <=> Created(q))
  BY DEF Created, Creation
<1> QED  BY <1>1 DEF IInv, OwnArguments

Steps == {"absent", "idle", "gone"} \cup Creation \cup Push \cup Pull

LEMMA Moved ==
    ASSUME IInv, NEW r \in Requests, NEW step \in Steps, Goto(r, step)
    PROVE  /\ pc' \in [Requests -> Steps] /\ pc'[r] = step
           /\ \A q \in Requests : q # r => pc'[q] = pc[q]
BY DEF IInv, IRTypeOK, Goto, Steps

LEMMA QueuesKept ==
    ASSUME IInv, queue' = queue
    PROVE  /\ queue' \in [Stages -> Seq(Requests)]
           /\ \A s \in Stages : Twiceless(queue'[s])
           /\ \A q \in Requests, s \in Stages : Listed(q, s)' <=> Listed(q, s)
BY DEF IInv, IRTypeOK, Listed

-----------------------------------------------------------------------------
(* The steps before an inference. *)

LEMMA CreateStep ==
    ASSUME IInv, NEW r \in Requests, Create(r)
    PROVE  IInv'
<1>1. /\ UNCHANGED <<integrated, own, tasks, results, queue, fence, event, memory, sent, faults>>
      /\ pc[r] \in {"absent", "inputs", "outputs"}
  BY DEF Create, SetInputs, SetOutputs, RecordExecution
<1>2. /\ pc' \in [Requests -> Steps] /\ pc'[r] \in {"inputs", "outputs", "idle"}
      /\ \A q \in Requests : q # r => pc'[q] = pc[q]
  <2>1. \E step \in {"inputs", "outputs", "idle"} : Goto(r, step)
    BY DEF Create, SetInputs, SetOutputs, RecordExecution
  <2>2. {"inputs", "outputs", "idle"} \subseteq Steps
    BY DEF Steps, Creation
  <2> QED  BY <2>1, <2>2, Moved
<1>3. IRTypeOK'
  <2>1. /\ graph' \in [in : Requests \cup {None}, out : Requests \cup {None}]
        /\ recorded' \in [Requests -> [in : Requests \cup {None}, out : Requests \cup {None}]]
    BY DEF IInv, IRTypeOK, Create, SetInputs, SetOutputs, RecordExecution
  <2> QED  BY <1>1, <1>2, <2>1 DEF IInv, IRTypeOK, Steps
<1>4. OwnArguments'
  <2>1. CASE SetInputs(r)
    <3>1. /\ graph' = [graph EXCEPT !.in = r] /\ recorded' = recorded
          /\ pc[r] = "absent" /\ \A q \in Requests : pc[q] \notin Creation
      BY <2>1 DEF SetInputs
    <3>2. pc'[r] = "inputs"
      BY <2>1 DEF SetInputs, Goto, IInv, IRTypeOK
    <3>3. graph'.in = r
      BY <3>1 DEF IInv, IRTypeOK
    <3> QED  BY <1>2, <3>1, <3>2, <3>3 DEF OwnArguments, IInv, Created, Creation
  <2>2. CASE SetOutputs(r)
    <3>1. graph' = [graph EXCEPT !.out = r] /\ recorded' = recorded /\ pc[r] = "inputs"
      BY <2>2 DEF SetOutputs
    <3>2. pc'[r] = "outputs"
      BY <2>2 DEF SetOutputs, Goto, IInv, IRTypeOK
    <3>3. graph'.in = graph.in /\ graph'.out = r
      BY <3>1 DEF IInv, IRTypeOK
    <3> QED  BY <1>2, <3>1, <3>2, <3>3 DEF OwnArguments, IInv, Created, Creation
  <2>3. CASE RecordExecution(r)
    <3>1. graph' = graph /\ recorded' = [recorded EXCEPT ![r] = graph] /\ pc[r] = "outputs"
      BY <2>3 DEF RecordExecution
    <3>2. pc'[r] = "idle"
      BY <2>3 DEF RecordExecution, Goto, IInv, IRTypeOK
    <3>3. recorded'[r] = [in |-> r, out |-> r] /\ \A q \in Requests : q # r => recorded'[q] = recorded[q]
      BY <3>1 DEF IInv, IRTypeOK, OwnArguments, Creation
    <3> QED  BY <1>2, <3>1, <3>2, <3>3 DEF OwnArguments, IInv, Created, Creation
  <2> QED  BY <2>1, <2>2, <2>3 DEF Create
<1>5. /\ \A s \in Stages : Twiceless(queue'[s])
      /\ \A q \in Requests, s \in Stages : Listed(q, s)' <=> Listed(q, s)
  BY <1>1, QueuesKept
<1>6. RequestInv(r)'
  <2>1. RequestInv(r)
    BY DEF IInv
  <2>2. ~Listed(r, "UPLOAD")' /\ ~Listed(r, "EXECUTE")' /\ ~Listed(r, "READBACK")'
    BY <1>1, <1>5, <2>1 DEF RequestInv, ListsOf, Stages
  <2>3. fence'[r] = {} /\ r \notin event'
    BY <1>1, <2>1, <2>2, <1>5 DEF RequestInv, SignalsOf, Stages
  <2>4. memory'[r]["blob"].state <= sent'[r]
    BY <1>1, <2>1 DEF RequestInv, StateOf
  <2> QED  BY <1>2, <2>2, <2>3, <2>4
           DEF RequestInv, ListsOf, SignalsOf, DataOf, StateOf, Push, Pull
<1> QED  BY <1>1, <1>2, <1>3, <1>4, <1>5, <1>6, StepOfOne

LEMMA DestroyStep ==
    ASSUME IInv, NEW r \in Requests, Destroy(r)
    PROVE  IInv'
<1>1. /\ UNCHANGED <<integrated, graph, recorded, own, tasks, results, queue, fence, event, memory, sent, faults>>
      /\ pc[r] = "idle"
  BY DEF Destroy, host
<1>2. /\ pc' \in [Requests -> Steps] /\ pc'[r] = "gone"
      /\ \A q \in Requests : q # r => pc'[q] = pc[q]
  BY Moved DEF Destroy, Steps
<1>3. IRTypeOK'
  BY <1>1, <1>2 DEF IInv, IRTypeOK, Steps
<1>4. OwnArguments'
  BY <1>1, <1>2, ArgumentsKept DEF Created, Creation
<1>5. /\ \A s \in Stages : Twiceless(queue'[s])
      /\ \A q \in Requests, s \in Stages : Listed(q, s)' <=> Listed(q, s)
  BY <1>1, QueuesKept
<1>6. RequestInv(r)'
  <2>1. RequestInv(r) /\ OutRegion' = OutRegion
    BY <1>1 DEF IInv, OutRegion
  <2>2. ~Listed(r, "UPLOAD")' /\ ~Listed(r, "EXECUTE")' /\ ~Listed(r, "READBACK")'
    BY <1>1, <1>5, <2>1 DEF RequestInv, ListsOf, Stages
  <2>3. fence'[r] = {} /\ r \notin event' /\ memory'[r]["blob"].state <= sent'[r]
    BY <1>1, <2>1, <2>2, <1>5 DEF RequestInv, SignalsOf, StateOf, Stages
  <2> QED  BY <1>2, <2>2, <2>3
           DEF RequestInv, ListsOf, SignalsOf, DataOf, StateOf, Push, Pull
<1> QED  BY <1>1, <1>2, <1>3, <1>4, <1>5, <1>6, StepOfOne

LEMMA StartStep ==
    ASSUME IInv, NEW r \in Requests, StartAsync(r) \/ Infer(r)
    PROVE  IInv'
<1>1. /\ UNCHANGED <<integrated, graph, recorded, results, queue, fence, event, memory, faults>>
      /\ pc[r] = "idle" /\ sent[r] < MaxInferences
      /\ sent' = [sent EXCEPT ![r] = @ + 1]
      /\ own' = own \/ own' = own \cup {r}
      /\ tasks' = tasks \/ tasks' = Append(tasks, r)
      /\ Goto(r, "queued")
  BY DEF StartAsync, Infer, host
<1>2. /\ pc' \in [Requests -> Steps] /\ pc'[r] = "queued"
      /\ \A q \in Requests : q # r => pc'[q] = pc[q]
  BY <1>1, Moved DEF Steps, Push
<1>3. IRTypeOK'
  <2>1. sent' \in [Requests -> 0..MaxInferences]
    BY <1>1, InferAssumption DEF IInv, IRTypeOK
  <2>2. own' \subseteq Requests /\ tasks' \in Seq(Requests)
    <3>1. own \subseteq Requests /\ tasks \in Seq(Requests)
      BY DEF IInv, IRTypeOK
    <3>2. Append(tasks, r) \in Seq(Requests)
      BY <3>1
    <3> QED  BY <1>1, <3>1, <3>2
  <2> QED  BY <1>1, <1>2, <2>1, <2>2 DEF IInv, IRTypeOK, Steps
<1>4. OwnArguments'
  BY <1>1, <1>2, ArgumentsKept DEF Created, Creation
<1>5. /\ \A s \in Stages : Twiceless(queue'[s])
      /\ \A q \in Requests, s \in Stages : Listed(q, s)' <=> Listed(q, s)
  BY <1>1, QueuesKept
<1>6. sent'[r] = sent[r] + 1 /\ \A q \in Requests : q # r => sent'[q] = sent[q]
  BY <1>1 DEF IInv, IRTypeOK
<1>7. RequestInv(r)'
  <2>1. RequestInv(r)
    BY DEF IInv
  <2>2. ~Listed(r, "UPLOAD")' /\ ~Listed(r, "EXECUTE")' /\ ~Listed(r, "READBACK")'
    BY <1>1, <1>5, <2>1 DEF RequestInv, ListsOf, Stages
  <2>3. fence'[r] = {} /\ r \notin event'
    BY <1>1, <2>1, <2>2, <1>5 DEF RequestInv, SignalsOf, Stages
  <2>4. memory[r]["blob"].state \in Nat /\ sent[r] \in Nat
    BY InferAssumption DEF IInv, IRTypeOK, Contents, Regions
  <2>5. memory'[r]["blob"].state < sent'[r]
    BY <1>1, <1>6, <2>1, <2>4 DEF RequestInv, StateOf
  <2>6. memory'[r]["blob"].state <= sent'[r]
    BY <1>1, <1>6, <2>1, <2>4 DEF RequestInv, StateOf
  <2> QED  BY <1>2, <2>2, <2>3, <2>5, <2>6
           DEF RequestInv, ListsOf, SignalsOf, DataOf, StateOf, Push, Pull
<1> QED  BY <1>1, <1>2, <1>3, <1>4, <1>5, <1>6, <1>7, StepOfOne

-----------------------------------------------------------------------------
(* The steps of an inference on the host. *)

LEMMA MemorySet ==
    ASSUME IInv, NEW r \in Requests, NEW g \in Regions, NEW c \in Contents,
           memory' = [memory EXCEPT ![r][g] = c]
    PROVE  /\ memory' \in [Requests -> [Regions -> Contents]]
           /\ memory'[r][g] = c
           /\ \A h \in Regions : h # g => memory'[r][h] = memory[r][h]
           /\ \A q \in Requests : q # r => memory'[q] = memory[q]
BY DEF IInv, IRTypeOK

(* What an inference holds is what the types say.                          *)
LEMMA InputTypes ==
    ASSUME IInv, NEW r \in Requests
    PROVE  /\ UserInput(r) \in Contents
           /\ sent[r] \in Nat /\ memory[r]["blob"].state \in Nat
           /\ pc[r] \in (Push \cup Pull) \ {"reset"} => Answer(r) \in Contents
           /\ \A g \in Regions : memory[r][g] \in Contents
<1>1. memory[r]["blob"] \in Contents /\ sent[r] \in 0..MaxInferences
      /\ \A g \in Regions : memory[r][g] \in Contents
  BY DEF IInv, IRTypeOK, Regions
<1>2. memory[r]["blob"].state \in 0..MaxInferences
  BY <1>1 DEF Contents
<1>3. UserInput(r) \in Contents
  BY <1>1, <1>2 DEF UserInput, Contents
<1>4. ASSUME pc[r] \in (Push \cup Pull) \ {"reset"} PROVE Answer(r) \in Contents
  <2>1. memory[r]["blob"].state < sent[r]
    BY <1>4 DEF IInv, RequestInv, StateOf
  <2>2. memory[r]["blob"].state + 1 \in 0..MaxInferences
    BY <2>1, <1>1, <1>2, InferAssumption
  <2> QED  BY <1>1, <2>2 DEF Answer, Contents
<1> QED  BY <1>1, <1>2, <1>3, <1>4, InferAssumption

LEMMA CopyInputsStep ==
    ASSUME IInv, NEW r \in Requests, CopyInputs(r)
    PROVE  IInv'
<1>1. /\ UNCHANGED <<integrated, graph, recorded, own, tasks, results, queue, fence, event, sent, faults>>
      /\ pc[r] = "queued"
      /\ memory' = [memory EXCEPT ![r]["hostIn"] = UserInput(r)]
      /\ Goto(r, IF integrated THEN "execute" ELSE "upload")
  BY DEF CopyInputs, host
<1>2. /\ pc' \in [Requests -> Steps] /\ pc'[r] = IF integrated THEN "execute" ELSE "upload"
      /\ \A q \in Requests : q # r => pc'[q] = pc[q]
  BY <1>1, Moved DEF Steps, Push
<1>3. /\ memory' \in [Requests -> [Regions -> Contents]]
      /\ memory'[r]["hostIn"] = UserInput(r) /\ memory'[r]["blob"] = memory[r]["blob"]
      /\ \A q \in Requests : q # r => memory'[q] = memory[q]
  BY <1>1, InputTypes, MemorySet DEF Regions
<1>4. IRTypeOK'
  BY <1>1, <1>2, <1>3 DEF IInv, IRTypeOK, Steps
<1>5. OwnArguments'
  BY <1>1, <1>2, ArgumentsKept DEF Created, Creation
<1>6. /\ \A s \in Stages : Twiceless(queue'[s])
      /\ \A q \in Requests, s \in Stages : Listed(q, s)' <=> Listed(q, s)
  BY <1>1, QueuesKept
<1>7. RequestInv(r)'
  <2>1. RequestInv(r)
    BY DEF IInv
  <2>2. ~Listed(r, "UPLOAD")' /\ ~Listed(r, "EXECUTE")' /\ ~Listed(r, "READBACK")'
    BY <1>1, <1>6, <2>1 DEF RequestInv, ListsOf, Stages
  <2>3. fence'[r] = {} /\ r \notin event'
    BY <1>1, <2>1, <2>2, <1>6 DEF RequestInv, SignalsOf, Stages
  <2>4. UserInput(r)' = UserInput(r)
    BY <1>1, <1>3 DEF UserInput
  <2>5. StateOf(r)'
    BY <1>1, <1>3, <2>1 DEF RequestInv, StateOf, Push
  <2>6. ListsOf(r)' /\ SignalsOf(r)'
    BY <1>1, <1>2, <2>2, <2>3 DEF ListsOf, SignalsOf
  <2>7. DataOf(r)'
    <3>1. integrated' => pc'[r] = "execute"
      BY <1>1, <1>2
    <3>2. ~integrated' => pc'[r] = "upload"
      BY <1>1, <1>2
    <3> QED  BY <1>3, <2>2, <2>4, <3>1, <3>2 DEF DataOf
  <2> QED  BY <2>5, <2>6, <2>7 DEF RequestInv
<1> QED  BY <1>1, <1>2, <1>3, <1>4, <1>5, <1>6, <1>7, StepOfOne

LEMMA DispatchUploadStep ==
    ASSUME IInv, NEW r \in Requests, DispatchUpload(r)
    PROVE  IInv'
<1>1. /\ UNCHANGED <<integrated, graph, recorded, own, tasks, results, fence, event, memory, sent, faults>>
      /\ pc[r] = "upload" /\ Submit(r, "UPLOAD") /\ Goto(r, "execute")
  BY DEF DispatchUpload, host
<1>2. /\ pc' \in [Requests -> Steps] /\ pc'[r] = "execute"
      /\ \A q \in Requests : q # r => pc'[q] = pc[q]
  BY <1>1, Moved DEF Steps, Push
<1>3. RequestInv(r)
  BY DEF IInv
<1>4. /\ ~Listed(r, "UPLOAD") /\ ~Listed(r, "EXECUTE") /\ ~Listed(r, "READBACK") /\ ~integrated
      /\ r \notin event /\ fence[r] = {} /\ memory[r]["hostIn"] = UserInput(r)
  BY <1>1, <1>3 DEF RequestInv, ListsOf, SignalsOf, DataOf, Stages
<1>5. /\ queue' \in [Stages -> Seq(Requests)]
      /\ \A s \in Stages : Twiceless(queue'[s])
      /\ \A q \in Requests, s \in Stages :
            Listed(q, s)' <=> Listed(q, s) \/ (q = r /\ s = "UPLOAD")
  BY <1>1, <1>4, SubmitLists DEF Stages
<1>6. IRTypeOK'
  BY <1>1, <1>2, <1>5 DEF IInv, IRTypeOK, Steps
<1>7. OwnArguments'
  BY <1>1, <1>2, ArgumentsKept DEF Created, Creation
<1>8. RequestInv(r)'
  <2>1. Listed(r, "UPLOAD")' /\ ~Listed(r, "EXECUTE")' /\ ~Listed(r, "READBACK")'
    BY <1>4, <1>5 DEF Stages
  <2>2. ListsOf(r)' /\ SignalsOf(r)'
    BY <1>1, <1>2, <1>4, <2>1 DEF ListsOf, SignalsOf
  <2>3. DataOf(r)'
    BY <1>1, <1>2, <1>4, <2>1 DEF DataOf, UserInput
  <2>4. StateOf(r)'
    BY <1>1, <1>2, <1>3 DEF RequestInv, StateOf, Push
  <2> QED  BY <2>2, <2>3, <2>4 DEF RequestInv
<1> QED  BY <1>1, <1>2, <1>5, <1>6, <1>7, <1>8, StepOfOne

(* An inference that leaves one executor is at its head.                   *)
LEMMA LeaversAtHead ==
    ASSUME IInv, NEW r \in Requests, Scheduled(r), r \notin own
    PROVE  /\ pc[r] \in Push => tasks # <<>> /\ Tail(tasks) \in Seq(Requests)
           /\ pc[r] \in Pull => results # <<>> /\ Tail(results) \in Seq(Requests)
<1>1. tasks \in Seq(Requests) /\ results \in Seq(Requests) /\ Push \cap Pull = {}
  BY DEF IInv, IRTypeOK, Push, Pull
<1>2. /\ pc[r] \in Push => tasks # <<>>
      /\ pc[r] \in Pull => results # <<>>
  BY <1>1 DEF Scheduled, IsFirst
<1> QED  BY <1>1, <1>2

LEMMA DispatchExecuteStep ==
    ASSUME IInv, NEW r \in Requests, DispatchExecute(r)
    PROVE  IInv'
<1>1. /\ UNCHANGED <<integrated, graph, recorded, own, fence, event, memory, sent, faults>>
      /\ pc[r] = "execute" /\ Submit(r, "EXECUTE") /\ Goto(r, "pushed") /\ Scheduled(r)
      /\ \/ r \in own /\ UNCHANGED <<tasks, results>>
         \/ r \notin own /\ tasks' = Tail(tasks) /\ results' = Append(results, r)
  BY DEF DispatchExecute, host
<1>2. /\ pc' \in [Requests -> Steps] /\ pc'[r] = "pushed"
      /\ \A q \in Requests : q # r => pc'[q] = pc[q]
  BY <1>1, Moved DEF Steps, Pull
<1>3. RequestInv(r)
  BY DEF IInv
<1>4. ~Listed(r, "EXECUTE") /\ ~Listed(r, "READBACK") /\ fence[r] = {}
  BY <1>1, <1>3 DEF RequestInv, ListsOf, SignalsOf
<1>5. /\ queue' \in [Stages -> Seq(Requests)]
      /\ \A s \in Stages : Twiceless(queue'[s])
      /\ \A q \in Requests, s \in Stages :
            Listed(q, s)' <=> Listed(q, s) \/ (q = r /\ s = "EXECUTE")
  BY <1>1, <1>4, SubmitLists DEF Stages
<1>6. IRTypeOK'
  <2>1. tasks \in Seq(Requests) /\ results \in Seq(Requests)
    BY DEF IInv, IRTypeOK
  <2>2. tasks' \in Seq(Requests) /\ results' \in Seq(Requests)
    <3>1. CASE r \in own
      BY <3>1, <1>1, <2>1
    <3>2. CASE r \notin own
      <4>1. Tail(tasks) \in Seq(Requests)
        BY <3>2, <1>1, LeaversAtHead DEF Push
      <4>2. Append(results, r) \in Seq(Requests)
        BY <2>1
      <4> QED  BY <3>2, <4>1, <4>2, <1>1
    <3> QED  BY <3>1, <3>2
  <2> QED  BY <1>1, <1>2, <1>5, <2>2 DEF IInv, IRTypeOK, Steps
<1>7. OwnArguments'
  BY <1>1, <1>2, ArgumentsKept DEF Created, Creation
<1>8. RequestInv(r)'
  <2>1. Listed(r, "EXECUTE")' /\ ~Listed(r, "READBACK")' /\ (Listed(r, "UPLOAD")' <=> Listed(r, "UPLOAD"))
    BY <1>4, <1>5 DEF Stages
  <2>2. ListsOf(r)'
    BY <1>1, <1>2, <1>3, <2>1 DEF RequestInv, ListsOf
  <2>3. SignalsOf(r)'
    BY <1>1, <1>2, <1>3, <1>4, <2>1 DEF RequestInv, SignalsOf
  <2>4. DataOf(r)'
    BY <1>1, <1>2, <1>3, <2>1 DEF RequestInv, DataOf, UserInput
  <2>5. StateOf(r)'
    BY <1>1, <1>2, <1>3 DEF RequestInv, StateOf, Push, Pull
  <2> QED  BY <2>2, <2>3, <2>4, <2>5 DEF RequestInv
<1> QED  BY <1>1, <1>2, <1>5, <1>6, <1>7, <1>8, StepOfOne

LEMMA SyncExecuteStep ==
    ASSUME IInv, NEW r \in Requests, SyncExecute(r)
    PROVE  IInv'
<1>1. /\ UNCHANGED <<integrated, graph, recorded, own, tasks, results, queue, fence, event, memory, sent, faults>>
      /\ pc[r] = "pushed" /\ "EXECUTE" \in fence[r]
      /\ Goto(r, IF integrated THEN "copy" ELSE "readback")
  BY DEF SyncExecute, host
<1>2. /\ pc' \in [Requests -> Steps] /\ pc'[r] = IF integrated THEN "copy" ELSE "readback"
      /\ \A q \in Requests : q # r => pc'[q] = pc[q]
  BY <1>1, Moved DEF Steps, Pull
<1>3. RequestInv(r)
  BY DEF IInv
<1>4. /\ ~Listed(r, "EXECUTE") /\ ~Listed(r, "READBACK") /\ ~Listed(r, "UPLOAD")
      /\ fence[r] = {"EXECUTE"} /\ memory[r][OutRegion] = Answer(r)
  BY <1>1, <1>3 DEF RequestInv, ListsOf, SignalsOf, DataOf
<1>5. /\ \A s \in Stages : Twiceless(queue'[s])
      /\ \A q \in Requests, s \in Stages : Listed(q, s)' <=> Listed(q, s)
  BY <1>1, QueuesKept
<1>6. IRTypeOK'
  BY <1>1, <1>2 DEF IInv, IRTypeOK, Steps
<1>7. OwnArguments'
  BY <1>1, <1>2, ArgumentsKept DEF Created, Creation
<1>8. RequestInv(r)'
  <2>1. ~Listed(r, "UPLOAD")' /\ ~Listed(r, "EXECUTE")' /\ ~Listed(r, "READBACK")'
    BY <1>4, <1>5 DEF Stages
  <2>2. integrated => r \notin event
    BY <1>3 DEF RequestInv, SignalsOf
  <2>3. CASE integrated
    BY <1>1, <1>2, <1>3, <1>4, <2>1, <2>2, <2>3
    DEF RequestInv, ListsOf, SignalsOf, DataOf, StateOf, Answer, OutRegion, Push, Pull
  <2>4. CASE ~integrated
    BY <1>1, <1>2, <1>3, <1>4, <2>1, <2>4
    DEF RequestInv, ListsOf, SignalsOf, DataOf, StateOf, Answer, OutRegion, Push, Pull
  <2> QED  BY <2>3, <2>4
<1> QED  BY <1>1, <1>2, <1>5, <1>6, <1>7, <1>8, StepOfOne

LEMMA DispatchReadbackStep ==
    ASSUME IInv, NEW r \in Requests, DispatchReadback(r)
    PROVE  IInv'
<1>1. /\ UNCHANGED <<integrated, graph, recorded, own, tasks, results, fence, event, memory, sent, faults>>
      /\ pc[r] = "readback" /\ Submit(r, "READBACK") /\ Goto(r, "wait")
  BY DEF DispatchReadback, host
<1>2. /\ pc' \in [Requests -> Steps] /\ pc'[r] = "wait"
      /\ \A q \in Requests : q # r => pc'[q] = pc[q]
  BY <1>1, Moved DEF Steps, Pull
<1>3. RequestInv(r)
  BY DEF IInv
<1>4. /\ ~Listed(r, "EXECUTE") /\ ~Listed(r, "READBACK") /\ ~Listed(r, "UPLOAD") /\ ~integrated
      /\ fence[r] = {"EXECUTE"} /\ memory[r]["deviceOut"] = Answer(r)
  BY <1>1, <1>3 DEF RequestInv, ListsOf, SignalsOf, DataOf
<1>5. /\ queue' \in [Stages -> Seq(Requests)]
      /\ \A s \in Stages : Twiceless(queue'[s])
      /\ \A q \in Requests, s \in Stages :
            Listed(q, s)' <=> Listed(q, s) \/ (q = r /\ s = "READBACK")
  BY <1>1, <1>4, SubmitLists DEF Stages
<1>6. IRTypeOK'
  BY <1>1, <1>2, <1>5 DEF IInv, IRTypeOK, Steps
<1>7. OwnArguments'
  BY <1>1, <1>2, ArgumentsKept DEF Created, Creation
<1>8. RequestInv(r)'
  <2>1. ~Listed(r, "UPLOAD")' /\ ~Listed(r, "EXECUTE")' /\ Listed(r, "READBACK")'
    BY <1>4, <1>5 DEF Stages
  <2> QED  BY <1>1, <1>2, <1>3, <1>4, <2>1
           DEF RequestInv, ListsOf, SignalsOf, DataOf, StateOf, Answer, Push, Pull
<1> QED  BY <1>1, <1>2, <1>5, <1>6, <1>7, <1>8, StepOfOne

LEMMA SyncReadbackStep ==
    ASSUME IInv, NEW r \in Requests, SyncReadback(r)
    PROVE  IInv'
<1>1. /\ UNCHANGED <<integrated, graph, recorded, own, tasks, results, queue, fence, event, memory, sent, faults>>
      /\ pc[r] = "wait" /\ "READBACK" \in fence[r] /\ Goto(r, "copy")
  BY DEF SyncReadback, host
<1>2. /\ pc' \in [Requests -> Steps] /\ pc'[r] = "copy"
      /\ \A q \in Requests : q # r => pc'[q] = pc[q]
  BY <1>1, Moved DEF Steps, Pull
<1>3. RequestInv(r)
  BY DEF IInv
<1>4. /\ ~Listed(r, "EXECUTE") /\ ~Listed(r, "READBACK") /\ ~Listed(r, "UPLOAD") /\ ~integrated
      /\ fence[r] = {"EXECUTE", "READBACK"} /\ memory[r]["hostOut"] = Answer(r) /\ r \notin event
  BY <1>1, <1>3 DEF RequestInv, ListsOf, SignalsOf, DataOf
<1>5. /\ \A s \in Stages : Twiceless(queue'[s])
      /\ \A q \in Requests, s \in Stages : Listed(q, s)' <=> Listed(q, s)
  BY <1>1, QueuesKept
<1>6. IRTypeOK'
  BY <1>1, <1>2 DEF IInv, IRTypeOK, Steps
<1>7. OwnArguments'
  BY <1>1, <1>2, ArgumentsKept DEF Created, Creation
<1>8. RequestInv(r)'
  <2>1. ~Listed(r, "UPLOAD")' /\ ~Listed(r, "EXECUTE")' /\ ~Listed(r, "READBACK")'
    BY <1>4, <1>5 DEF Stages
  <2> QED  BY <1>1, <1>2, <1>3, <1>4, <2>1
           DEF RequestInv, ListsOf, SignalsOf, DataOf, StateOf, Answer, Push, Pull
<1> QED  BY <1>1, <1>2, <1>5, <1>6, <1>7, <1>8, StepOfOne

LEMMA CopyOutputsStep ==
    ASSUME IInv, NEW r \in Requests, CopyOutputs(r)
    PROVE  IInv'
<1>1. /\ UNCHANGED <<integrated, graph, recorded, own, tasks, results, queue, fence, event, sent, faults>>
      /\ pc[r] = "copy" /\ Goto(r, "reset")
      /\ memory' = [memory EXCEPT ![r]["blob"] = memory[r]["hostOut"]]
  BY DEF CopyOutputs, host
<1>2. /\ pc' \in [Requests -> Steps] /\ pc'[r] = "reset"
      /\ \A q \in Requests : q # r => pc'[q] = pc[q]
  BY <1>1, Moved DEF Steps, Pull
<1>3. RequestInv(r)
  BY DEF IInv
<1>4. /\ ~Listed(r, "EXECUTE") /\ ~Listed(r, "READBACK") /\ ~Listed(r, "UPLOAD")
      /\ memory[r]["hostOut"] = Answer(r) /\ r \notin event
  BY <1>1, <1>3 DEF RequestInv, ListsOf, SignalsOf, DataOf
<1>5. /\ memory' \in [Requests -> [Regions -> Contents]]
      /\ memory'[r]["blob"] = Answer(r)
      /\ \A q \in Requests : q # r => memory'[q] = memory[q]
  <2>1. Answer(r) \in Contents
    BY <1>1, InputTypes DEF Pull
  <2> QED  BY <2>1, <1>1, <1>4, MemorySet DEF Regions
<1>6. /\ \A s \in Stages : Twiceless(queue'[s])
      /\ \A q \in Requests, s \in Stages : Listed(q, s)' <=> Listed(q, s)
  BY <1>1, QueuesKept
<1>7. IRTypeOK'
  BY <1>1, <1>2, <1>5 DEF IInv, IRTypeOK, Steps
<1>8. OwnArguments'
  BY <1>1, <1>2, ArgumentsKept DEF Created, Creation
<1>9. RequestInv(r)'
  <2>1. ~Listed(r, "UPLOAD")' /\ ~Listed(r, "EXECUTE")' /\ ~Listed(r, "READBACK")'
    BY <1>4, <1>6 DEF Stages
  <2>2. ListsOf(r)' /\ SignalsOf(r)'
    BY <1>1, <1>2, <1>3, <1>4, <2>1 DEF RequestInv, ListsOf, SignalsOf
  <2>3. DataOf(r)'
    BY <1>2, <2>1 DEF DataOf
  <2>4. StateOf(r)'
    <3>1. memory[r]["blob"].state < sent[r] /\ sent[r] \in Nat /\ memory[r]["blob"].state \in Nat
      BY <1>1, <1>3, InputTypes DEF RequestInv, StateOf, Pull
    <3>2. memory'[r]["blob"].state = memory[r]["blob"].state + 1
      BY <1>5 DEF Answer
    <3> QED  BY <3>1, <3>2, <1>1, <1>2 DEF StateOf
  <2> QED  BY <2>2, <2>3, <2>4 DEF RequestInv
<1> QED  BY <1>1, <1>2, <1>5, <1>6, <1>7, <1>8, <1>9, StepOfOne

(* An inference that ends leaves the executor that ran it.                 *)
LEMMA LeaveTypes ==
    ASSUME IInv, NEW r \in Requests, Scheduled(r), Leave(r)
    PROVE  own' \subseteq Requests /\ tasks' \in Seq(Requests) /\ results' \in Seq(Requests)
<1>1. own \subseteq Requests /\ tasks \in Seq(Requests) /\ results \in Seq(Requests)
  BY DEF IInv, IRTypeOK
<1>2. /\ tasks' = IF r \notin own /\ pc[r] \in Push THEN Tail(tasks) ELSE tasks
      /\ results' = IF r \notin own /\ pc[r] \in Pull THEN Tail(results) ELSE results
      /\ own' = own \ {r}
  BY DEF Leave
<1>3. tasks' \in Seq(Requests)
  BY <1>1, <1>2, LeaversAtHead
<1>4. results' \in Seq(Requests)
  BY <1>1, <1>2, LeaversAtHead
<1> QED  BY <1>1, <1>2, <1>3, <1>4

LEMMA ResetFencesStep ==
    ASSUME IInv, NEW r \in Requests, ResetFences(r)
    PROVE  IInv'
<1>1. /\ UNCHANGED <<integrated, graph, recorded, queue, event, memory, sent, faults>>
      /\ pc[r] = "reset" /\ Scheduled(r) /\ Leave(r) /\ Goto(r, "idle")
      /\ fence' = [fence EXCEPT ![r] = {}]
  BY DEF ResetFences, Leave, host
<1>2. /\ pc' \in [Requests -> Steps] /\ pc'[r] = "idle"
      /\ \A q \in Requests : q # r => pc'[q] = pc[q]
  BY <1>1, Moved DEF Steps
<1>3. RequestInv(r)
  BY DEF IInv
<1>4. /\ ~Listed(r, "EXECUTE") /\ ~Listed(r, "READBACK") /\ ~Listed(r, "UPLOAD") /\ r \notin event
  BY <1>1, <1>3 DEF RequestInv, ListsOf, SignalsOf
<1>5. /\ fence' \in [Requests -> SUBSET {"EXECUTE", "READBACK"}]
      /\ fence'[r] = {} /\ \A q \in Requests : q # r => fence'[q] = fence[q]
  BY <1>1 DEF IInv, IRTypeOK
<1>6. /\ \A s \in Stages : Twiceless(queue'[s])
      /\ \A q \in Requests, s \in Stages : Listed(q, s)' <=> Listed(q, s)
  BY <1>1, QueuesKept
<1>7. IRTypeOK'
  <2>1. own' \subseteq Requests /\ tasks' \in Seq(Requests) /\ results' \in Seq(Requests)
    BY <1>1, LeaveTypes
  <2> QED  BY <1>1, <1>2, <1>5, <2>1 DEF IInv, IRTypeOK, Steps
<1>8. OwnArguments'
  BY <1>1, <1>2, ArgumentsKept DEF Created, Creation
<1>9. RequestInv(r)'
  <2>1. ~Listed(r, "UPLOAD")' /\ ~Listed(r, "EXECUTE")' /\ ~Listed(r, "READBACK")'
    BY <1>4, <1>6 DEF Stages
  <2> QED  BY <1>1, <1>2, <1>3, <1>4, <1>5, <2>1
           DEF RequestInv, ListsOf, SignalsOf, DataOf, StateOf, Push, Pull
<1> QED  BY <1>1, <1>2, <1>5, <1>6, <1>7, <1>8, <1>9, StepOfOne

LEMMA ThrowStep ==
    ASSUME IInv, ThrowsEarly, NEW r \in Requests, Throw(r)
    PROVE  IInv'
<1>1. /\ UNCHANGED <<integrated, graph, recorded, queue, event, sent>>
      /\ pc[r] \in {"queued", "upload"} /\ Scheduled(r) /\ Leave(r) /\ Goto(r, "idle")
      /\ faults < MaxFaults /\ faults' = faults + 1
      /\ fence' = [fence EXCEPT ![r] = fence[r]]
  BY DEF Throw, Leave, host, ThrowsEarly
<1>2. /\ pc' \in [Requests -> Steps] /\ pc'[r] = "idle"
      /\ \A q \in Requests : q # r => pc'[q] = pc[q]
  BY <1>1, Moved DEF Steps
<1>3. RequestInv(r)
  BY DEF IInv
<1>4. /\ ~Listed(r, "EXECUTE") /\ ~Listed(r, "READBACK") /\ ~Listed(r, "UPLOAD") /\ r \notin event
      /\ fence[r] = {}
  BY <1>1, <1>3 DEF RequestInv, ListsOf, SignalsOf
<1>5. fence' = fence
  BY <1>1 DEF IInv, IRTypeOK
<1>6. /\ memory' \in [Requests -> [Regions -> Contents]]
      /\ memory'[r]["blob"] = memory[r]["blob"]
      /\ \A q \in Requests : q # r => memory'[q] = memory[q]
  <2>1. CASE UNCHANGED memory
    BY <2>1 DEF IInv, IRTypeOK
  <2>2. CASE \E c \in Partly(memory[r]["hostIn"], UserInput(r)) : memory' = [memory EXCEPT ![r]["hostIn"] = c]
    <3>1. PICK c \in Partly(memory[r]["hostIn"], UserInput(r)) : memory' = [memory EXCEPT ![r]["hostIn"] = c]
      BY <2>2
    <3>2. memory[r]["hostIn"] \in Contents /\ UserInput(r) \in Contents
      BY InputTypes DEF Regions
    <3>3. c \in Contents
      <4> DEFINE a == memory[r]["hostIn"]
                 b == UserInput(r)
      <4>1. PICK S \in SUBSET DOMAIN a : c = [f \in DOMAIN a |-> IF f \in S THEN b[f] ELSE a[f]]
        BY <3>1 DEF Partly
      <4> HIDE DEF a, b
      <4>2. a \in Contents /\ b \in Contents
        BY <3>2 DEF a, b
      <4>3. /\ DOMAIN a = {"request", "number", "state"}
            /\ \A x \in {a, b} : /\ x["request"] \in Requests \cup {None}
                                 /\ x["number"] \in 0..MaxInferences
                                 /\ x["state"] \in 0..MaxInferences
        BY <4>2 DEF Contents
      <4>4. /\ c["request"] \in Requests \cup {None} /\ c["number"] \in 0..MaxInferences
            /\ c["state"] \in 0..MaxInferences
        BY <4>1, <4>3
      <4>5. c = [request |-> c["request"], number |-> c["number"], state |-> c["state"]]
        BY <4>1, <4>3
      <4> QED  BY <4>4, <4>5 DEF Contents
    <3> QED  BY <3>1, <3>3, MemorySet DEF Regions
  <2> QED  BY <1>1, <2>1, <2>2 DEF Throw
<1>7. /\ \A s \in Stages : Twiceless(queue'[s])
      /\ \A q \in Requests, s \in Stages : Listed(q, s)' <=> Listed(q, s)
  BY <1>1, QueuesKept
<1>8. IRTypeOK'
  <2>1. own' \subseteq Requests /\ tasks' \in Seq(Requests) /\ results' \in Seq(Requests)
    BY <1>1, LeaveTypes
  <2>2. faults' \in 0..MaxFaults
    BY <1>1, InferAssumption DEF IInv, IRTypeOK
  <2> QED  BY <1>1, <1>2, <1>5, <1>6, <2>1, <2>2 DEF IInv, IRTypeOK, Steps
<1>9. OwnArguments'
  BY <1>1, <1>2, ArgumentsKept DEF Created, Creation
<1>10. RequestInv(r)'
  <2>1. ~Listed(r, "UPLOAD")' /\ ~Listed(r, "EXECUTE")' /\ ~Listed(r, "READBACK")'
    BY <1>4, <1>7 DEF Stages
  <2> QED  BY <1>1, <1>2, <1>3, <1>4, <1>5, <1>6, <2>1
           DEF RequestInv, ListsOf, SignalsOf, DataOf, StateOf, Push, Pull
<1> QED  BY <1>1, <1>2, <1>5, <1>6, <1>7, <1>8, <1>9, <1>10, StepOfOne

-----------------------------------------------------------------------------
(* The steps of the device. *)

LEMMA UploadStep ==
    ASSUME IInv, NEW r \in Requests, Upload(r)
    PROVE  IInv'
<1>1. /\ UNCHANGED <<integrated, graph, recorded, pc, own, tasks, results, fence, sent, faults>>
      /\ IsFirst(r, queue["UPLOAD"]) /\ Finish(r, "UPLOAD")
      /\ memory' = [memory EXCEPT ![r]["deviceIn"] = memory[r]["hostIn"]]
      /\ event' = event \cup {r}
  BY DEF Upload, host
<1>2. /\ Listed(r, "UPLOAD")
      /\ queue' \in [Stages -> Seq(Requests)]
      /\ \A s \in Stages : Twiceless(queue'[s])
      /\ \A q \in Requests, s \in Stages :
            Listed(q, s)' <=> Listed(q, s) /\ ~(q = r /\ s = "UPLOAD")
  BY <1>1, FinishLists DEF Stages
<1>3. RequestInv(r)
  BY DEF IInv
<1>4. ~integrated /\ pc[r] \in {"execute", "pushed"} /\ memory[r]["hostIn"] = UserInput(r)
  BY <1>2, <1>3 DEF RequestInv, ListsOf, DataOf
<1>5. /\ memory' \in [Requests -> [Regions -> Contents]]
      /\ memory'[r]["deviceIn"] = memory[r]["hostIn"]
      /\ \A h \in Regions : h # "deviceIn" => memory'[r][h] = memory[r][h]
      /\ \A q \in Requests : q # r => memory'[q] = memory[q]
  <2>1. memory[r]["hostIn"] \in Contents
    BY InputTypes DEF Regions
  <2> QED  BY <1>1, <2>1, MemorySet DEF Regions
<1>6. IRTypeOK'
  BY <1>1, <1>2, <1>5 DEF IInv, IRTypeOK
<1>7. OwnArguments'
  BY <1>1 DEF IInv, OwnArguments, Created
<1>8. RequestInv(r)'
  <2>1. /\ ~Listed(r, "UPLOAD")' /\ ~Listed(r, "READBACK")'
        /\ Listed(r, "EXECUTE")' <=> Listed(r, "EXECUTE")
    BY <1>2, <1>3, <1>4 DEF Stages, RequestInv, ListsOf
  <2>2. ListsOf(r)' /\ SignalsOf(r)'
    BY <1>1, <1>3, <1>4, <2>1 DEF RequestInv, ListsOf, SignalsOf
  <2>3. DataOf(r)'
    <3>1. memory'[r]["deviceIn"] = UserInput(r)' /\ memory'[r]["hostIn"] = UserInput(r)'
      BY <1>1, <1>4, <1>5 DEF UserInput, Regions
    <3>2. pc[r] = "pushed" => Listed(r, "EXECUTE")
      BY <1>2, <1>3 DEF RequestInv, DataOf
    <3> QED  BY <1>1, <1>4, <2>1, <3>1, <3>2 DEF DataOf
  <2>4. StateOf(r)'
    BY <1>1, <1>3, <1>5 DEF RequestInv, StateOf, Regions
  <2> QED  BY <2>2, <2>3, <2>4 DEF RequestInv
<1> QED  BY <1>1, <1>2, <1>5, <1>6, <1>7, <1>8, StepOfOne

(* The arguments the list was recorded with are those of the request, so   *)
(* that the execution touches no other one's buffers.                      *)
LEMMA ExecuteStep ==
    ASSUME IInv, NEW r \in Requests, Execute(r)
    PROVE  IInv'
<1>1. /\ UNCHANGED <<integrated, graph, recorded, pc, own, tasks, results, event, sent, faults>>
      /\ IsFirst(r, queue["EXECUTE"]) /\ Finish(r, "EXECUTE")
      /\ integrated \/ r \in event
      /\ memory' = [memory EXCEPT ![recorded[r].out][OutRegion] =
                        [memory[recorded[r].in][InRegion] EXCEPT !.state = @ + 1]]
      /\ fence' = [fence EXCEPT ![r] = @ \cup {"EXECUTE"}]
  BY DEF Execute, host
<1>2. /\ Listed(r, "EXECUTE")
      /\ queue' \in [Stages -> Seq(Requests)]
      /\ \A s \in Stages : Twiceless(queue'[s])
      /\ \A q \in Requests, s \in Stages :
            Listed(q, s)' <=> Listed(q, s) /\ ~(q = r /\ s = "EXECUTE")
  BY <1>1, FinishLists DEF Stages
<1>3. RequestInv(r)
  BY DEF IInv
<1>4. pc[r] = "pushed" /\ ~Listed(r, "READBACK") /\ fence[r] = {}
  BY <1>2, <1>3 DEF RequestInv, ListsOf, SignalsOf
<1>5. recorded[r].in = r /\ recorded[r].out = r
  <2>1. recorded[r] = [in |-> r, out |-> r]
    BY <1>4 DEF IInv, OwnArguments, Created, Creation
  <2> QED  BY <2>1
<1>6. ~Listed(r, "UPLOAD") /\ memory[r][InRegion] = UserInput(r)
  <2>1. CASE integrated
    BY <2>1, <1>2, <1>3 DEF RequestInv, ListsOf, DataOf, InRegion
  <2>2. CASE ~integrated
    BY <2>2, <1>1, <1>2, <1>3 DEF RequestInv, ListsOf, DataOf, InRegion
  <2> QED  BY <2>1, <2>2
<1>7. [memory[r][InRegion] EXCEPT !.state = @ + 1] = Answer(r)
  BY <1>6 DEF UserInput, Answer
<1>8. /\ memory' \in [Requests -> [Regions -> Contents]]
      /\ memory'[r][OutRegion] = Answer(r)
      /\ memory'[r]["blob"] = memory[r]["blob"]
      /\ \A q \in Requests : q # r => memory'[q] = memory[q]
  <2>1. Answer(r) \in Contents
    BY <1>4, InputTypes DEF Pull
  <2>2. memory' = [memory EXCEPT ![r][OutRegion] = Answer(r)]
    BY <1>1, <1>5, <1>7
  <2>3. OutRegion \in Regions /\ OutRegion # "blob" /\ "blob" \in Regions
    BY DEF OutRegion, Regions
  <2> QED  BY <2>1, <2>2, <2>3, MemorySet
<1>9. /\ fence' \in [Requests -> SUBSET {"EXECUTE", "READBACK"}]
      /\ fence'[r] = {"EXECUTE"} /\ \A q \in Requests : q # r => fence'[q] = fence[q]
  BY <1>1, <1>4 DEF IInv, IRTypeOK
<1>10. IRTypeOK'
  BY <1>1, <1>2, <1>8, <1>9 DEF IInv, IRTypeOK
<1>11. OwnArguments'
  BY <1>1 DEF IInv, OwnArguments, Created
<1>12. RequestInv(r)'
  <2>1. ~Listed(r, "UPLOAD")' /\ ~Listed(r, "READBACK")' /\ ~Listed(r, "EXECUTE")'
    BY <1>2, <1>4, <1>6 DEF Stages
  <2>2. ListsOf(r)' /\ SignalsOf(r)'
    BY <1>1, <1>3, <1>4, <1>9, <2>1 DEF RequestInv, ListsOf, SignalsOf
  <2>3. DataOf(r)'
    <3>1. Answer(r)' = Answer(r) /\ OutRegion' = OutRegion
      BY <1>1, <1>8 DEF Answer, OutRegion
    <3> QED  BY <1>1, <1>4, <1>8, <2>1, <3>1 DEF DataOf
  <2>4. StateOf(r)'
    BY <1>1, <1>3, <1>8 DEF RequestInv, StateOf
  <2> QED  BY <2>2, <2>3, <2>4 DEF RequestInv
<1> QED  BY <1>1, <1>2, <1>8, <1>9, <1>10, <1>11, <1>12, StepOfOne

LEMMA ReadbackStep ==
    ASSUME IInv, NEW r \in Requests, Readback(r)
    PROVE  IInv'
<1>1. /\ UNCHANGED <<integrated, graph, recorded, pc, own, tasks, results, sent, faults>>
      /\ IsFirst(r, queue["READBACK"]) /\ Finish(r, "READBACK")
      /\ memory' = [memory EXCEPT ![r]["hostOut"] = memory[r]["deviceOut"]]
      /\ event' = event \ {r}
      /\ fence' = [fence EXCEPT ![r] = @ \cup {"READBACK"}]
  BY DEF Readback, host
<1>2. /\ Listed(r, "READBACK")
      /\ queue' \in [Stages -> Seq(Requests)]
      /\ \A s \in Stages : Twiceless(queue'[s])
      /\ \A q \in Requests, s \in Stages :
            Listed(q, s)' <=> Listed(q, s) /\ ~(q = r /\ s = "READBACK")
  BY <1>1, FinishLists DEF Stages
<1>3. RequestInv(r)
  BY DEF IInv
<1>4. /\ pc[r] = "wait" /\ ~integrated /\ ~Listed(r, "UPLOAD") /\ ~Listed(r, "EXECUTE")
      /\ fence[r] = {"EXECUTE"} /\ memory[r]["deviceOut"] = Answer(r)
  BY <1>2, <1>3 DEF RequestInv, ListsOf, SignalsOf, DataOf
<1>5. /\ memory' \in [Requests -> [Regions -> Contents]]
      /\ memory'[r]["hostOut"] = Answer(r)
      /\ memory'[r]["blob"] = memory[r]["blob"]
      /\ \A q \in Requests : q # r => memory'[q] = memory[q]
  <2>1. memory[r]["deviceOut"] \in Contents
    BY InputTypes DEF Regions
  <2> QED  BY <1>1, <1>4, <2>1, MemorySet DEF Regions
<1>6. /\ fence' \in [Requests -> SUBSET {"EXECUTE", "READBACK"}]
      /\ fence'[r] = {"EXECUTE", "READBACK"} /\ \A q \in Requests : q # r => fence'[q] = fence[q]
  BY <1>1, <1>4 DEF IInv, IRTypeOK
<1>7. IRTypeOK'
  BY <1>1, <1>2, <1>5, <1>6 DEF IInv, IRTypeOK
<1>8. OwnArguments'
  BY <1>1 DEF IInv, OwnArguments, Created
<1>9. RequestInv(r)'
  <2>1. ~Listed(r, "UPLOAD")' /\ ~Listed(r, "READBACK")' /\ ~Listed(r, "EXECUTE")'
    BY <1>2, <1>4 DEF Stages
  <2>2. ListsOf(r)' /\ SignalsOf(r)'
    BY <1>1, <1>3, <1>4, <1>6, <2>1 DEF RequestInv, ListsOf, SignalsOf
  <2>3. DataOf(r)'
    <3>1. Answer(r)' = Answer(r)
      BY <1>1, <1>5 DEF Answer
    <3> QED  BY <1>1, <1>4, <1>5, <2>1, <3>1 DEF DataOf
  <2>4. StateOf(r)'
    BY <1>1, <1>3, <1>5 DEF RequestInv, StateOf
  <2> QED  BY <2>2, <2>3, <2>4 DEF RequestInv
<1> QED  BY <1>1, <1>2, <1>5, <1>6, <1>7, <1>8, <1>9, StepOfOne

-----------------------------------------------------------------------------
LEMMA InitIInv ==
    ASSUME Init
    PROVE  IInv
<1>1. /\ integrated \in BOOLEAN /\ graph = [in |-> None, out |-> None]
      /\ recorded = [r \in Requests |-> graph] /\ pc = [r \in Requests |-> "absent"]
      /\ own = {} /\ tasks = <<>> /\ results = <<>> /\ queue = [s \in Stages |-> <<>>]
      /\ fence = [r \in Requests |-> {}] /\ event = {} /\ faults = 0
      /\ sent = [r \in Requests |-> 0]
      /\ memory = [r \in Requests |-> [g \in Regions |-> IF g = "blob" THEN [Blank EXCEPT !.request = r]
                                                                       ELSE Blank]]
  BY DEF Init
<1>2. 0 \in 0..MaxInferences /\ 0 \in 0..MaxFaults
  BY InferAssumption
<1>3. /\ memory \in [Requests -> [Regions -> Contents]]
      /\ \A r \in Requests : memory[r]["blob"].state = 0
  <2>1. Blank \in Contents /\ \A r \in Requests : [Blank EXCEPT !.request = r] \in Contents
    BY <1>2 DEF Blank, Contents
  <2>2. \A r \in Requests : [Blank EXCEPT !.request = r].state = 0
    BY DEF Blank
  <2> QED  BY <1>1, <2>1, <2>2 DEF Regions
<1>4. IRTypeOK
  BY <1>1, <1>2, <1>3 DEF IRTypeOK
<1>5. OwnArguments
  BY <1>1 DEF OwnArguments, Created, Creation
<1>6. /\ \A r \in Requests, s \in Stages : ~Listed(r, s)
      /\ \A s \in Stages : Twiceless(queue[s])
  BY <1>1 DEF Listed, Twiceless
<1>7. ASSUME NEW r \in Requests PROVE RequestInv(r)
  <2>1. ~Listed(r, "UPLOAD") /\ ~Listed(r, "EXECUTE") /\ ~Listed(r, "READBACK") /\ pc[r] = "absent"
    BY <1>1, <1>6 DEF Stages
  <2>2. sent[r] = 0 /\ fence[r] = {} /\ r \notin event
    BY <1>1
  <2> QED  BY <2>1, <2>2, <1>3 DEF RequestInv, ListsOf, SignalsOf, DataOf, StateOf, Push, Pull
<1> QED  BY <1>4, <1>5, <1>6, <1>7 DEF IInv

LEMMA StutterIInv ==
    ASSUME IInv, UNCHANGED vars
    PROVE  IInv'
<1>1. UNCHANGED <<integrated, graph, recorded, pc, own, tasks, results, queue, fence, event, memory, sent, faults>>
  BY DEF vars, host
<1>2. IRTypeOK' /\ OwnArguments'
  BY <1>1 DEF IInv, IRTypeOK, OwnArguments, Created
<1>3. \A r \in Requests : RequestInv(r)'
  BY <1>1 DEF IInv, RequestInv, ListsOf, SignalsOf, DataOf, StateOf, Listed, UserInput, Answer, OutRegion
<1> QED  BY <1>1, <1>2, <1>3 DEF IInv

LEMMA NextIInv ==
    ASSUME IInv, ThrowsEarly, [Next]_vars
    PROVE  IInv'
<1>1. ASSUME NEW r \in Requests, Create(r) \/ Destroy(r) \/ StartAsync(r) \/ Infer(r)
      PROVE  IInv'
  BY <1>1, CreateStep, DestroyStep, StartStep
<1>2. ASSUME NEW r \in Requests, Run(r)
      PROVE  IInv'
  BY <1>2, CopyInputsStep, DispatchUploadStep, DispatchExecuteStep, SyncExecuteStep,
     DispatchReadbackStep, SyncReadbackStep, CopyOutputsStep, ResetFencesStep DEF Run
<1>3. ASSUME NEW r \in Requests, Throw(r) \/ Upload(r) \/ Execute(r) \/ Readback(r)
      PROVE  IInv'
  BY <1>3, ThrowStep, UploadStep, ExecuteStep, ReadbackStep
<1> QED  BY <1>1, <1>2, <1>3, StutterIInv DEF Next

LEMMA RequestsInvariant ==
    ASSUME ThrowsEarly
    PROVE  Spec => []IInv
<1>1. Init => IInv
  BY InitIInv
<1>2. IInv /\ [Next]_vars => IInv'
  BY NextIInv
<1> QED  BY <1>1, <1>2, PTL DEF Spec

(* A pull never hands out outputs the device has not written yet: neither  *)
(* a fence of the inference before nor a list of another request on the    *)
(* same queue lets it return early.                                        *)
THEOREM PulledOutputsReady ==
    ASSUME ThrowsEarly
    PROVE  Spec => []ReadyWhenPulled
<1>1. ASSUME IInv PROVE ReadyWhenPulled
  <2> SUFFICES ASSUME NEW r \in Requests, pc[r] = "copy"
               PROVE  memory[r]["hostOut"] = [UserInput(r) EXCEPT !.state = @ + 1]
    BY DEF ReadyWhenPulled
  <2>1. memory[r]["hostOut"] = Answer(r)
    BY <1>1 DEF IInv, RequestInv, DataOf
  <2> QED  BY <2>1 DEF Answer, UserInput
<1> QED  BY <1>1, RequestsInvariant, PTL

(* Whenever a request rests, every list it has submitted was executed, so  *)
(* that its buffers, fences and lists can be used again or destroyed.      *)
THEOREM NothingLeftInQueues ==
    ASSUME ThrowsEarly
    PROVE  Spec => []NothingPendingAtRest
<1>1. ASSUME IInv PROVE NothingPendingAtRest
  <2> SUFFICES ASSUME NEW r \in Requests, NEW s \in Stages, pc[r] \in {"idle", "gone"}, Listed(r, s)
               PROVE  FALSE
    BY DEF NothingPendingAtRest, Listed
  <2>1. ListsOf(r)
    BY <1>1 DEF IInv, RequestInv
  <2> QED  BY <2>1 DEF ListsOf, Stages
<1> QED  BY <1>1, RequestsInvariant, PTL

-----------------------------------------------------------------------------
(* The refinement of InferenceService. *)

Waiting == {r \in Requests : pc[r] \in (Push \cup Pull) \ {"reset"}}
Results == [r \in Requests |-> memory[r]["blob"]]

(* What a step does to the state of the service.                           *)
ServiceStep ==
    \/ UNCHANGED <<sent, Waiting, Results>>
    \/ \E r \in Requests : Service!Submit(r) \/ Service!Deliver(r) \/ Service!Refuse(r)

(* A step that moves one request and leaves its outputs alone changes no   *)
(* more than whether the request is waited for.                            *)
LEMMA ServiceView ==
    ASSUME IInv, NEW r \in Requests,
           \A q \in Requests : q # r => pc'[q] = pc[q],
           \A q \in Requests : memory'[q]["blob"] = memory[q]["blob"]
    PROVE  /\ Results' = Results
           /\ Waiting' = IF pc'[r] \in (Push \cup Pull) \ {"reset"} THEN Waiting \cup {r} ELSE Waiting \ {r}
           /\ r \in Waiting <=> pc[r] \in (Push \cup Pull) \ {"reset"}
BY DEF Results, Waiting

LEMMA StartServes ==
    ASSUME IInv, NEW r \in Requests, StartAsync(r) \/ Infer(r)
    PROVE  Service!Submit(r)
<1>1. /\ memory' = memory /\ pc[r] = "idle" /\ sent' = [sent EXCEPT ![r] = @ + 1] /\ Goto(r, "queued")
  BY DEF StartAsync, Infer
<1>2. pc'[r] = "queued" /\ \A q \in Requests : q # r => pc'[q] = pc[q]
  BY <1>1, Moved DEF Steps, Push
<1>3. Results' = Results /\ Waiting' = Waiting \cup {r} /\ r \notin Waiting
  BY <1>1, <1>2, ServiceView DEF Push, Pull
<1> QED  BY <1>1, <1>3 DEF Service!Submit, Results, Waiting

LEMMA CopyOutputsServes ==
    ASSUME IInv, NEW r \in Requests, CopyOutputs(r)
    PROVE  Service!Deliver(r)
<1>1. /\ sent' = sent /\ pc[r] = "copy" /\ Goto(r, "reset")
      /\ memory' = [memory EXCEPT ![r]["blob"] = memory[r]["hostOut"]]
  BY DEF CopyOutputs
<1>2. pc'[r] = "reset" /\ \A q \in Requests : q # r => pc'[q] = pc[q]
  BY <1>1, Moved DEF Steps, Pull
<1>3. memory[r]["hostOut"] = Answer(r) /\ Answer(r) \in Contents
  BY <1>1, InputTypes DEF IInv, RequestInv, DataOf, Pull
<1>4. memory'[r]["blob"] = Answer(r) /\ \A q \in Requests : q # r => memory'[q] = memory[q]
  BY <1>1, <1>3, MemorySet DEF Regions
<1>5. Results' = [Results EXCEPT ![r] = Answer(r)]
  BY <1>4 DEF Results
<1>6. Answer(r) = [request |-> r, number |-> sent[r], state |-> Results[r].state + 1]
  BY DEF Answer, Results
<1>7. Waiting' = Waiting \ {r} /\ r \in Waiting
  BY <1>1, <1>2 DEF Waiting, Push, Pull
<1>8. Results' = [Results EXCEPT ![r] = [request |-> r, number |-> sent[r], state |-> @.state + 1]]
  BY <1>5, <1>6 DEF Results
<1> QED  BY <1>1, <1>7, <1>8 DEF Service!Deliver, Results, Waiting

LEMMA ThrowServes ==
    ASSUME IInv, ThrowsEarly, NEW r \in Requests, Throw(r)
    PROVE  Service!Refuse(r)
<1>1. /\ sent' = sent /\ pc[r] \in {"queued", "upload"} /\ Goto(r, "idle")
      /\ \/ UNCHANGED memory
         \/ \E c : memory' = [memory EXCEPT ![r]["hostIn"] = c]
  BY DEF Throw, Leave, ThrowsEarly
<1>2. pc'[r] = "idle" /\ \A q \in Requests : q # r => pc'[q] = pc[q]
  BY <1>1, Moved DEF Steps
<1>3. \A q \in Requests : memory'[q]["blob"] = memory[q]["blob"]
  <2>1. CASE UNCHANGED memory
    BY <2>1
  <2>2. CASE \E c : memory' = [memory EXCEPT ![r]["hostIn"] = c]
    <3>1. memory \in [Requests -> [Regions -> Contents]]
      BY DEF IInv, IRTypeOK
    <3> QED  BY <2>2, <3>1 DEF Regions
  <2> QED  BY <1>1, <2>1, <2>2
<1>4. Results' = Results /\ Waiting' = Waiting \ {r} /\ r \in Waiting
  BY <1>1, <1>2, <1>3, ServiceView DEF Push, Pull
<1> QED  BY <1>1, <1>4 DEF Service!Refuse, Results, Waiting

(* The other steps are of no concern to the application.                   *)
LEMMA OtherSteps ==
    ASSUME IInv, NEW r \in Requests,
           \/ Create(r) \/ Destroy(r) \/ CopyInputs(r) \/ DispatchUpload(r) \/ DispatchExecute(r)
           \/ SyncExecute(r) \/ DispatchReadback(r) \/ SyncReadback(r) \/ ResetFences(r)
           \/ Upload(r) \/ Execute(r) \/ Readback(r)
    PROVE  UNCHANGED <<sent, Waiting, Results>>
<1> DEFINE Busy == (Push \cup Pull) \ {"reset"}
<1>1. sent' = sent
  BY DEF Create, SetInputs, SetOutputs, RecordExecution, Destroy, CopyInputs, DispatchUpload, DispatchExecute,
         SyncExecute, DispatchReadback, SyncReadback, ResetFences, Upload, Execute, Readback
<1>2. \A q \in Requests : memory'[q]["blob"] = memory[q]["blob"]
  <2>1. CASE UNCHANGED memory
    BY <2>1
  <2>2. CASE CopyInputs(r) \/ Upload(r) \/ Readback(r)
    <3>1. \E g \in Regions \ {"blob"} : \E c : memory' = [memory EXCEPT ![r][g] = c]
      BY <2>2 DEF CopyInputs, Upload, Readback, Regions
    <3> QED  BY <3>1 DEF IInv, IRTypeOK, Regions
  <2>3. CASE Execute(r)
    <3>1. \E p, c : memory' = [memory EXCEPT ![p][OutRegion] = c]
      BY <2>3 DEF Execute
    <3>2. OutRegion # "blob"
      BY DEF OutRegion
    <3> QED  BY <3>1, <3>2 DEF IInv, IRTypeOK, Regions
  <2> QED  BY <2>1, <2>2, <2>3
           DEF Create, SetInputs, SetOutputs, RecordExecution, Destroy, DispatchUpload, DispatchExecute,
               SyncExecute, DispatchReadback, SyncReadback, ResetFences
<1>3. pc' = pc \/ \E step \in Steps : Goto(r, step) /\ (step \in Busy <=> pc[r] \in Busy)
  <2>1. CASE Create(r) \/ Destroy(r)
    BY <2>1 DEF Create, SetInputs, SetOutputs, RecordExecution, Destroy, Steps, Creation, Push, Pull
  <2>2. CASE CopyInputs(r) \/ DispatchUpload(r) \/ DispatchExecute(r)
    BY <2>2 DEF CopyInputs, DispatchUpload, DispatchExecute, Steps, Push, Pull
  <2>3. CASE SyncExecute(r) \/ DispatchReadback(r) \/ SyncReadback(r)
    BY <2>3 DEF SyncExecute, DispatchReadback, SyncReadback, Steps, Push, Pull
  <2>4. CASE ResetFences(r)
    BY <2>4 DEF ResetFences, Leave, Steps, Push, Pull
  <2>5. CASE Upload(r) \/ Execute(r) \/ Readback(r)
    BY <2>5 DEF Upload, Execute, Readback
  <2> QED  BY <2>1, <2>2, <2>3, <2>4, <2>5
<1>4. \A q \in Requests : pc'[q] \in Busy <=> pc[q] \in Busy
  <2>1. CASE pc' = pc
    BY <2>1
  <2>2. CASE \E step \in Steps : Goto(r, step) /\ (step \in Busy <=> pc[r] \in Busy)
    <3>1. PICK step \in Steps : Goto(r, step) /\ (step \in Busy <=> pc[r] \in Busy)
      BY <2>2
    <3>2. pc'[r] = step /\ \A q \in Requests : q # r => pc'[q] = pc[q]
      BY <3>1, Moved
    <3> HIDE DEF Busy
    <3> QED  BY <3>1, <3>2
  <2> QED  BY <1>3, <2>1, <2>2
<1> QED  BY <1>1, <1>2, <1>4 DEF Waiting, Results

LEMMA StepServes ==
    ASSUME IInv, ThrowsEarly, [Next]_vars
    PROVE  ServiceStep
<1>1. CASE UNCHANGED vars
  BY <1>1 DEF vars, host, ServiceStep, Waiting, Results
<1>2. ASSUME NEW r \in Requests,
             \/ Create(r) \/ Destroy(r) \/ StartAsync(r) \/ Infer(r) \/ Run(r)
             \/ Throw(r) \/ Upload(r) \/ Execute(r) \/ Readback(r)
      PROVE  ServiceStep
  <2>1. CASE StartAsync(r) \/ Infer(r)  BY <2>1, StartServes DEF ServiceStep
  <2>2. CASE CopyOutputs(r)  BY <2>2, CopyOutputsServes DEF ServiceStep
  <2>3. CASE Throw(r)  BY <2>3, ThrowServes DEF ServiceStep
  <2>4. CASE ~(StartAsync(r) \/ Infer(r) \/ CopyOutputs(r) \/ Throw(r))
    BY <2>4, <1>2, OtherSteps DEF Run, ServiceStep
  <2> QED  BY <2>1, <2>2, <2>3, <2>4
<1> QED  BY <1>1, <1>2 DEF Next

(* Each inference that succeeds delivers the output of its own input, on   *)
(* the state the inference before left, whatever other requests do with    *)
(* the graph, the executors and the queues they share.                     *)
THEOREM RequestsServe ==
    ASSUME ThrowsEarly
    PROVE  Spec => ServesRequests
<1>1. Init => Service!Init
  <2> SUFFICES ASSUME Init PROVE Service!Init
    OBVIOUS
  <2>1. /\ pc = [r \in Requests |-> "absent"] /\ sent = [r \in Requests |-> 0]
        /\ memory = [r \in Requests |-> [g \in Regions |-> IF g = "blob" THEN [Blank EXCEPT !.request = r]
                                                                         ELSE Blank]]
    BY DEF Init
  <2>2. \A r \in Requests : memory[r]["blob"] = [request |-> r, number |-> 0, state |-> 0]
    BY <2>1 DEF Blank, Regions
  <2>3. {r \in Requests : pc[r] \in (Push \cup Pull) \ {"reset"}} = {}
    BY <2>1 DEF Push, Pull
  <2> QED  BY <2>1, <2>2, <2>3 DEF Service!Init
<1>2. IInv /\ [Next]_vars => [Service!Next]_Service!vars
  BY StepServes DEF ServiceStep, Service!Next, Service!vars, Waiting, Results
<1> QED  BY <1>1, <1>2, RequestsInvariant, PTL DEF Spec, ServesRequests, Service!Spec
==============================================================================
