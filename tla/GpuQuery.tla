------------------------------ MODULE GpuQuery ------------------------------
(***************************************************************************)
(* DataLayer/kdindex: the query service CudaDb with its GPU threads, the   *)
(* CudaDevices.  The host starts a thread per device, deals a request out  *)
(* to them, collects their results in the order of the requests and stops  *)
(* them.  querySting's use is the host's program: a batch of requests,     *)
(* then as many results; start() and stop(), which nothing in DataLayer    *)
(* calls, come before and between batches.                                 *)
(*                                                                         *)
(* RequestQueue implements a bounded FIFO (BoundedFifo), so an operation   *)
(* on a queue is one step here, enabled when it does not wait.             *)
(*                                                                         *)
(* A query stands for the leaves ("blocks") that meet it, in the order of  *)
(* the keys file (those the tree and the range file agree on), and its     *)
(* regions for the place at which they make a device's data begin; an      *)
(* answer lists the blocks whose records were tested.  What a device's     *)
(* memory holds is kept as far as the two caches depend on it (lastKeys    *)
(* and lastRanges).  Memory is large enough for what completeQuery and     *)
(* completeQueryDP put there at once.                                      *)
(***************************************************************************)
EXTENDS Integers, Sequences, FiniteSets, SequencesExt

CONSTANTS
  NumDevices,   \* devices.size()
  NumBlocks,    \* CudaDb::numBlocks
  Queries,      \* the queries
  Hits,         \* Hits[q]: the blocks that meet q, ascending
  Base,         \* Base[q]: where the data begin in a device's memory
  Room,         \* Room[q]: the blocks that fit a device's memory behind that
  Types,        \* the REQUEST_TYPEs used
  QueueSize,    \* maxSize of a RequestQueue
  MaxBatch,     \* the most requests querySting is given at once
  BlockRecords, \* KdBlock::MAX_RECORDS_PER_BLOCK
  MaxRequests,  \* bound of the model: requests
  MaxStarts     \* bound of the model: calls of CudaDb::start

Devices == 1..NumDevices

\* Without devices, or with fewer blocks than devices, requestQuery divides
\* by zero.
ASSUME GpuAssumption ==
  /\ NumDevices \in Nat \ {0}
  /\ NumBlocks \in Nat /\ NumBlocks >= NumDevices
  /\ \A q \in Queries :
       /\ Hits[q] \in Seq(0..(NumBlocks - 1))
       /\ \A k, l \in DOMAIN Hits[q] : k < l => Hits[q][k] < Hits[q][l]
       /\ Base[q] \in Nat /\ Room[q] \in Nat
  /\ Types \subseteq {"RT_CPU", "RT_CUDA", "RT_CUDA_DP", "RT_CUDA_IM",
                      "RT_CUDA_PARTIAL", "RT_CUDA_PARTIAL_IM"}
  /\ QueueSize \in Nat \ {0} /\ BlockRecords \in Nat \ {0}
  /\ MaxBatch \in Nat /\ MaxRequests \in Nat /\ MaxStarts \in Nat

Requests == [id : 1..MaxRequests, type : Types, query : Queries]
Stop == [type |-> "RT_STOP"]

VARIABLES
  host,      \* the host thread: where it is, and at which device
  issue,     \* requests of the batch still to be made
  take,      \* results of the batch still to be taken
  issued,    \* requests so far
  starts,    \* calls of start() so far
  own,       \* CudaDb::queue
  request,   \* the request being dealt out
  answer,    \* the request of getResult and the parts of its result so far
  thread,    \* of each device: where its thread is
  started,   \* of each device: CudaDevice::started
  queue,     \* of each device: the requests for it
  results,   \* of each device: the results
  work,      \* of each device: the request it is at
  memory,    \* of each device: lastKeys, lastRanges and what is really there
  served     \* history, of each device: the types and queries of the requests
             \* it has ended with

batchVars == <<issue, take, issued, starts, own, request, answer>>
deviceVars == <<thread, started, queue, results, work, memory, served>>
vars == <<host, batchVars, deviceVars>>

-----------------------------------------------------------------------------
Full(q) == Len(q) >= QueueSize

At(pc, i) == [pc |-> pc, at |-> i]

\* The for loops over the devices: on to the next one, or out of the loop.
NextDevice(i, pc, after) == IF i < NumDevices THEN At(pc, i + 1) ELSE At(after, 1)

PerDevice == NumBlocks \div NumDevices

InMemory(type) == type \in {"RT_CUDA_DP", "RT_CUDA_IM"}

\* How many of the blocks that meet q lie before b; those from b on, before c.
Before(q, b) == Cardinality({k \in DOMAIN Hits[q] : Hits[q][k] < b})
Between(q, b, c) == SubSeq(Hits[q], Before(q, b) + 1, Before(q, c))

\* The blocks device i looks for: requestQuery gives it as many consecutive
\* blocks as every other device, or as many of those that meet the query, or
\* those of them that are among its own.
Dealt(r, i) ==
  IF r.type = "RT_CUDA_PARTIAL"
  THEN LET n == Len(Hits[r.query]) \div NumDevices
       IN  SubSeq(Hits[r.query], n * (i - 1) + 1, n * i)
  ELSE Between(r.query, PerDevice * (i - 1), PerDevice * i)

\* totalBlocks > maxBlocks is what partialQueryIM refuses.
Fits(q) == PerDevice <= Room[q]
Refused(r) == r.type = "RT_CUDA_PARTIAL_IM" /\ ~Fits(r.query)

-----------------------------------------------------------------------------
\* A device's memory.  data and ranges say at which base the blocks and their
\* ranges can be read; NoBase: nowhere, they are not there or were run over.
NoBase == -1
NoMemory == [lastKeys |-> FALSE, lastRanges |-> FALSE, data |-> NoBase, ranges |-> NoBase]

\* What is found at base b of something that was put at base a: a request with
\* another base may write its regions or its results over it.
KeptAt(a, b) == IF a = b THEN a ELSE NoBase

\* completeQuery copies the ranges and then the blocks it needs to the start of
\* the data, every time.
AfterComplete(m, b) ==
  [m EXCEPT !.lastRanges = TRUE, !.data = NoBase, !.ranges = NoBase]

\* partialQuery copies the blocks it needs there.
AfterPartial(m, b, n) ==
  [m EXCEPT !.data = IF n = 0 THEN KeptAt(@, b) ELSE NoBase,
            !.ranges = IF n = 0 THEN KeptAt(@, b) ELSE NoBase]

\* (Mutated: one test for both caches.)
AfterInMemoryOneTest(m, b) ==
  [lastKeys |-> TRUE, lastRanges |-> TRUE,
   data |-> IF m.lastKeys THEN KeptAt(m.data, b) ELSE b,
   ranges |-> IF m.lastKeys THEN KeptAt(m.ranges, b) ELSE b]

\* completeQueryDP copies the blocks unless lastKeys says they are there, and
\* the ranges unless lastRanges does.
AfterInMemory(m, b) ==
  [lastKeys |-> TRUE, lastRanges |-> TRUE,
   data |-> IF m.lastKeys THEN KeptAt(m.data, b) ELSE b,
   ranges |-> IF m.lastRanges THEN KeptAt(m.ranges, b) ELSE b]

\* Behind the blocks, partialQueryIM keeps two numbers for each record of the n
\* blocks it tests, and then the numbers of these blocks; completeQueryDP two
\* for each record of all blocks, and then the ranges.
ReachesRanges(n) == n * (2 * BlockRecords + 1) > PerDevice * 2 * BlockRecords

\* partialQueryIM copies the blocks unless lastKeys says they are there.
AfterPartialInMemory(m, b, n) ==
  [m EXCEPT !.lastKeys = TRUE,
            !.data = IF m.lastKeys THEN KeptAt(@, b) ELSE b,
            !.ranges = IF ReachesRanges(n) THEN NoBase ELSE KeptAt(@, b)]

\* partialQueryIM before it returns because the blocks do not fit.
AfterRefusal(m, b) == [m EXCEPT !.data = KeptAt(@, b), !.ranges = KeptAt(@, b)]

MemoryAfter(m, r, n) ==
  LET b == Base[r.query]
  IN  CASE r.type = "RT_CUDA" -> AfterComplete(m, b)
        [] r.type = "RT_CUDA_PARTIAL" -> AfterPartial(m, b, n)
        [] InMemory(r.type) -> AfterInMemory(m, b)
        [] Refused(r) -> AfterRefusal(m, b)
        [] OTHER -> AfterPartialInMemory(m, b, n)

\* Does the kernel read the blocks, and the ranges if it uses them?
ReadsRight(m, r) ==
  CASE r.type \in {"RT_CUDA", "RT_CUDA_PARTIAL"} -> TRUE
    [] InMemory(r.type) ->
         m.data = Base[r.query] /\ m.ranges = Base[r.query]
    [] OTHER -> m.data = Base[r.query]

\* Records read from anywhere else: no property says what comes of them.
Garbage == <<NumBlocks>>

-----------------------------------------------------------------------------
Init ==
  /\ host = At("down", 1)
  /\ issue = 0 /\ take = 0 /\ issued = 0 /\ starts = 0
  /\ own = <<>>
  /\ request = Stop
  /\ answer = [request |-> Stop, parts |-> <<>>]
  /\ thread = [i \in Devices |-> "off"]
  /\ started = [i \in Devices |-> FALSE]
  /\ queue = [i \in Devices |-> <<>>]
  /\ results = [i \in Devices |-> <<>>]
  /\ work = [i \in Devices |-> Stop]
  /\ memory = [i \in Devices |-> NoMemory]
  /\ served = [i \in Devices |-> {}]

\* CudaDb::start: new devices take the place of those stopped before ...
Start ==
  /\ host.pc = "down" /\ starts < MaxStarts
  /\ starts' = starts + 1
  /\ host' = At("start", 1)
  /\ thread' = [i \in Devices |-> "off"]
  /\ started' = [i \in Devices |-> FALSE]
  /\ queue' = [i \in Devices |-> <<>>]
  /\ results' = [i \in Devices |-> <<>>]
  /\ work' = [i \in Devices |-> Stop]
  /\ memory' = [i \in Devices |-> NoMemory]
  /\ served' = [i \in Devices |-> {}]
  /\ answer' = [request |-> Stop, parts |-> <<>>]
  /\ UNCHANGED <<issue, take, issued, own, request>>

\* ... each gets a thread ...
StartDevice ==
  /\ host.pc = "start"
  /\ thread' = [thread EXCEPT ![host.at] = "init"]
  /\ host' = NextDevice(host.at, "start", "wait")
  /\ UNCHANGED <<batchVars, started, queue, results, work, memory, served>>

\* (Mutated: the flag is not looked at.)
WaitUntilNotified ==
  /\ host.pc = "wait"
  /\ host' = At("asleep", host.at)
  /\ UNCHANGED <<batchVars, deviceVars>>

\* ... and the host waits for each, unless it finds it started.
WaitUntilStarted ==
  /\ host.pc = "wait"
  /\ host' = IF started[host.at] THEN NextDevice(host.at, "wait", "up")
             ELSE At("asleep", host.at)
  /\ UNCHANGED <<batchVars, deviceVars>>

\* A wait may end without a reason; the flag is not tested again.
Wake ==
  /\ host.pc = "asleep"
  /\ host' = NextDevice(host.at, "wait", "up")
  /\ UNCHANGED <<batchVars, deviceVars>>

\* querySting is called with n requests.
BeginBatch(n) ==
  /\ host.pc = "up" /\ take = 0 /\ issued + n <= MaxRequests
  /\ issue' = n
  /\ take' = n
  /\ UNCHANGED <<host, issued, starts, own, request, answer, deviceVars>>

\* (Mutated: the host's own queue has no bound.)
RequestQueryAnyway(type, q) ==
  /\ host.pc = "up" /\ issue > 0
  /\ InMemory(type) => Fits(q)
  /\ request' = [id |-> issued + 1, type |-> type, query |-> q]
  /\ own' = Append(own, request')
  /\ issued' = issued + 1
  /\ IF type = "RT_CPU" THEN issue' = issue - 1 /\ UNCHANGED host
     ELSE host' = At("deal", 1) /\ UNCHANGED issue
  /\ UNCHANGED <<take, starts, answer, deviceVars>>

\* (Mutated: a request for the CPU goes to the devices, too.)
RequestQueryOfAll(type, q) ==
  /\ host.pc = "up" /\ issue > 0 /\ ~Full(own)
  /\ InMemory(type) => Fits(q)
  /\ request' = [id |-> issued + 1, type |-> type, query |-> q]
  /\ own' = Append(own, request')
  /\ issued' = issued + 1
  /\ host' = At("deal", 1)
  /\ UNCHANGED <<issue, take, starts, answer, deviceVars>>

\* CudaDb::requestQuery: the host's own queue comes first.  A request for the
\* CPU is answered on the spot.
RequestQuery(type, q) ==
  /\ host.pc = "up" /\ issue > 0 /\ ~Full(own)
  /\ InMemory(type) => Fits(q)
  /\ request' = [id |-> issued + 1, type |-> type, query |-> q]
  /\ own' = Append(own, request')
  /\ issued' = issued + 1
  /\ IF type = "RT_CPU" THEN issue' = issue - 1 /\ UNCHANGED host
     ELSE host' = At("deal", 1) /\ UNCHANGED issue
  /\ UNCHANGED <<take, starts, answer, deviceVars>>

\* CudaDevice::push, for one device after the other.
Deal ==
  /\ host.pc = "deal" /\ ~Full(queue[host.at])
  /\ queue' = [queue EXCEPT ![host.at] = Append(@, request)]
  /\ host' = NextDevice(host.at, "deal", "up")
  /\ issue' = IF host'.pc = "up" THEN issue - 1 ELSE issue
  /\ UNCHANGED <<take, issued, starts, own, request, answer>>
  /\ UNCHANGED <<thread, started, results, work, memory, served>>

\* (Mutated: the newest request.)
GetNewestResult ==
  /\ host.pc = "up" /\ issue = 0 /\ take > 0 /\ own # <<>>
  /\ own' = Front(own)
  /\ answer' = [request |-> Last(own), parts |-> <<>>]
  /\ IF Last(own).type = "RT_CPU" THEN take' = take - 1 /\ UNCHANGED host
     ELSE host' = At("take", 1) /\ UNCHANGED take
  /\ UNCHANGED <<issue, issued, starts, request, deviceVars>>

\* CudaDb::getResult: the oldest request ...
GetResult ==
  /\ host.pc = "up" /\ issue = 0 /\ take > 0 /\ own # <<>>
  /\ own' = Tail(own)
  /\ answer' = [request |-> Head(own), parts |-> <<>>]
  /\ IF Head(own).type = "RT_CPU" THEN take' = take - 1 /\ UNCHANGED host
     ELSE host' = At("take", 1) /\ UNCHANGED take
  /\ UNCHANGED <<issue, issued, starts, request, deviceVars>>

\* ... and from each device the oldest result.
TakeResult ==
  /\ host.pc = "take" /\ results[host.at] # <<>>
  /\ answer' = [answer EXCEPT !.parts = Append(@, Head(results[host.at]))]
  /\ results' = [results EXCEPT ![host.at] = Tail(@)]
  /\ host' = NextDevice(host.at, "take", "up")
  /\ take' = IF host'.pc = "up" THEN take - 1 ELSE take
  /\ UNCHANGED <<issue, issued, starts, own, request>>
  /\ UNCHANGED <<thread, started, queue, work, memory, served>>

\* CudaDb::stop, between batches ...
StopAll ==
  /\ host.pc = "up" /\ take = 0
  /\ host' = At("stop", 1)
  /\ UNCHANGED <<batchVars, deviceVars>>

\* ... stops each device by a request ...
StopDevice ==
  /\ host.pc = "stop" /\ ~Full(queue[host.at])
  /\ queue' = [queue EXCEPT ![host.at] = Append(@, Stop)]
  /\ host' = At("join", host.at)
  /\ UNCHANGED <<batchVars, thread, started, results, work, memory, served>>

\* ... and waits for its thread to end.
Join ==
  /\ host.pc = "join" /\ thread[host.at] = "done"
  /\ host' = NextDevice(host.at, "stop", "down")
  /\ UNCHANGED <<batchVars, deviceVars>>

-----------------------------------------------------------------------------
\* CudaDevice::initialize sets the flag ...
Initialize(i) ==
  /\ thread[i] = "init"
  /\ started' = [started EXCEPT ![i] = TRUE]
  /\ thread' = [thread EXCEPT ![i] = "notify"]
  /\ UNCHANGED <<host, batchVars, queue, results, work, memory, served>>

\* ... unlocks, and wakes the host if it waits for this device.
NotifyStarted(i) ==
  /\ thread[i] = "notify"
  /\ thread' = [thread EXCEPT ![i] = "run"]
  /\ host' = IF host = At("asleep", i) THEN NextDevice(i, "wait", "up") ELSE host
  /\ UNCHANGED <<batchVars, started, queue, results, work, memory, served>>

\* CudaDevice::run takes a request; RT_STOP ends the loop, and finalize().
Pop(i) ==
  /\ thread[i] = "run" /\ queue[i] # <<>>
  /\ queue' = [queue EXCEPT ![i] = Tail(@)]
  /\ IF Head(queue[i]) = Stop
     THEN /\ thread' = [thread EXCEPT ![i] = "done"]
          /\ started' = [started EXCEPT ![i] = FALSE]
          /\ UNCHANGED work
     ELSE /\ thread' = [thread EXCEPT ![i] = "busy"]
          /\ work' = [work EXCEPT ![i] = Head(queue[i])]
          /\ UNCHANGED started
  /\ UNCHANGED <<host, batchVars, results, memory, served>>

\* completeQuery, completeQueryDP, partialQuery or partialQueryIM, which ends
\* without a result when the blocks do not fit.
Complete(i) ==
  /\ thread[i] = "busy"
  /\ LET r == work[i]
         blocks == Dealt(r, i)
         after == MemoryAfter(memory[i], r, Len(blocks))
         result == [id |-> r.id,
                    blocks |-> IF ReadsRight(after, r) THEN blocks ELSE Garbage]
     IN  /\ memory' = [memory EXCEPT ![i] = after]
         /\ IF Refused(r) THEN UNCHANGED results
            ELSE /\ ~Full(results[i])
                 /\ results' = [results EXCEPT ![i] = Append(@, result)]
         /\ served' = [served EXCEPT ![i] =
                         @ \union {[type |-> r.type, query |-> r.query]}]
  /\ thread' = [thread EXCEPT ![i] = "run"]
  /\ work' = [work EXCEPT ![i] = Stop]
  /\ UNCHANGED <<host, batchVars, started, queue>>

-----------------------------------------------------------------------------
HostCall == Start \/ (\E n \in 1..MaxBatch : BeginBatch(n)) \/ StopAll

HostStep ==
  \/ StartDevice \/ WaitUntilStarted
  \/ (\E type \in Types, q \in Queries : RequestQuery(type, q))
  \/ Deal \/ GetResult \/ TakeResult
  \/ StopDevice \/ Join

DeviceStep(i) == Initialize(i) \/ NotifyStarted(i) \/ Pop(i) \/ Complete(i)

\* The program is over.
Over == host.pc = "down" /\ starts = MaxStarts /\ UNCHANGED vars

Next ==
  \/ HostCall
  \/ HostStep
  \/ Wake
  \/ \E i \in Devices : DeviceStep(i)
  \/ Over

Spec == Init /\ [][Next]_vars

\* Threads are scheduled; nothing makes the program call the service, and no
\* wait has to end without a notification.
Fairness == WF_vars(HostStep) /\ \A i \in Devices : WF_vars(DeviceStep(i))

FairSpec == Spec /\ Fairness

-----------------------------------------------------------------------------
\* Types of the variables, with the bounds of the queues.
TypeOK ==
  /\ host.pc \in {"down", "start", "wait", "asleep", "up", "deal", "take", "stop", "join"}
  /\ host.at \in Devices
  /\ issue \in 0..MaxBatch /\ take \in issue..MaxBatch
  /\ issued \in 0..MaxRequests /\ starts \in 0..MaxStarts
  /\ own \in Seq(Requests) /\ Len(own) <= QueueSize
  /\ request \in Requests \cup {Stop}
  /\ answer.request \in Requests \cup {Stop} /\ Len(answer.parts) <= NumDevices
  /\ \A i \in Devices :
       /\ thread[i] \in {"off", "init", "notify", "run", "busy", "done"}
       /\ started[i] \in BOOLEAN
       /\ queue[i] \in Seq(Requests \cup {Stop}) /\ Len(queue[i]) <= QueueSize
       /\ Len(results[i]) <= QueueSize
       /\ \A k \in DOMAIN results[i] :
            results[i][k].blocks \in {Garbage} \cup Seq(0..(NumBlocks - 1))
       /\ work[i] \in Requests \cup {Stop}
       /\ served[i] \subseteq [type : Types, query : Queries]

\* Whether device i has refused a request since it was started: with the
\* message "Data does not fit in memory!" partialQueryIM returns and pushes no
\* result, though CudaDb::getResult waits for one.
HasRefused(i) == \E s \in served[i] : Refused(s)

\* A device's results carry no name of their request; getResult trusts the
\* order of the queues.  Each part of an answer is a result of the request the
\* host popped, unless the device that gave it has refused a request.
PartsAreOfTheRequest ==
  \A i \in DOMAIN answer.parts :
    HasRefused(i) \/ answer.parts[i].id = answer.request.id

\* Device i's memory can be relied on for request r: what r does not copy is
\* where an earlier request put it.  completeQuery and partialQuery copy all
\* they need.  The other two rely on lastKeys, and completeQueryDP on
\* lastRanges as well; nothing resets these.
Reliable(r, i) ==
  \/ r.type \in {"RT_CUDA", "RT_CUDA_PARTIAL"}
  \/ \A s \in served[i] :
       /\ Base[s.query] = Base[r.query]
       /\ InMemory(s.type) \/ s.type = "RT_CUDA_PARTIAL_IM"
       /\ (InMemory(r.type) /\ s.type = "RT_CUDA_PARTIAL_IM")
            => ~ReachesRanges(Len(Dealt(s, i)))

\* The blocks an answer lists: of the blocks that meet the query, those below
\* the last multiple of the number of devices.  What the division leaves over
\* is given to no device.
Expected(r) ==
  IF r.type = "RT_CUDA_PARTIAL"
  THEN SubSeq(Hits[r.query], 1, Len(Hits[r.query]) - (Len(Hits[r.query]) % NumDevices))
  ELSE Between(r.query, 0, NumBlocks - (NumBlocks % NumDevices))

\* The parts the devices find make the whole answer, each block once and in
\* order (requestQuery's three ways to deal a request out, and the devices'
\* caches) - of all blocks but those the division leaves over, and as long as
\* the requests that share a device's caches are of the same make.
AnswersExact ==
  (/\ host.pc = "up" /\ Len(answer.parts) = NumDevices
   /\ \A i \in Devices : Reliable(answer.request, i) /\ ~HasRefused(i))
  => FlattenSeq([i \in Devices |-> answer.parts[i].blocks]) = Expected(answer.request)

\* No thread waits for room in a device's queues: each request in them is
\* still in the host's own queue, or the one the host is at, and that queue is
\* as long.  Without this the host and a device could wait for each other.
DevicesHaveRoom ==
  /\ host.pc \in {"deal", "stop"} => ~Full(queue[host.at])
  /\ \A i \in Devices : thread[i] = "busy" => ~Full(results[i])

\* When the host stops the devices and when they are stopped, no request and
\* no result is left behind, to be taken for another one's later.
NothingLeftBehind ==
  host.pc \in {"stop", "join", "down"} =>
    /\ own = <<>>
    /\ \A i \in Devices :
         /\ results[i] = <<>> /\ thread[i] # "busy"
         /\ \A k \in DOMAIN queue[i] : queue[i][k] = Stop

\* start(), stop() and a batch are under way.
Inside == host.pc \notin {"up", "down"} \/ take > 0

\* The host comes back from start(), stop() and a batch of requests and
\* results, but for two cases: a device has refused a request; or the batch
\* is longer than the host's own queue, which only the host empties: then it
\* waits for itself, although "Can send multiple queries in through the
\* request array" (DataLayer/IndexStore.hpp:32).
HostReturns ==
  Inside ~> \/ ~Inside
            \/ \E i \in Devices : HasRefused(i)
            \/ host.pc = "up" /\ issue > 0 /\ Full(own)

=============================================================================
