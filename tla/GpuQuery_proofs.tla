--------------------------- MODULE GpuQuery_proofs ---------------------------
(***************************************************************************)
(* The queues between CudaDb and its devices, for any number of devices,   *)
(* blocks, queries and requests and any length of the queues.  Everything  *)
(* a device has of requests - results, the one it is at, queue - belongs   *)
(* to requests the host still has in its own queue, in the order of their  *)
(* numbers.  From this follow all three: the parts of an answer are of its *)
(* request, no thread waits for room, and nothing is left behind.  What a  *)
(* device's memory holds then gives that the parts are right, and the last *)
(* two theorems: they make the whole answer, and the types.                *)
(***************************************************************************)
EXTENDS GpuQuery, FiniteSetTheorems, SequenceTheorems, WellFoundedInduction, TLAPS

\* Sequences of things that carry a number (id); those in S count.
IdsOf(s, S) == {s[k].id : k \in {l \in DOMAIN s : s[l] \in S}}

Ascending(s, S) ==
  \A k, l \in DOMAIN s : k < l /\ s[k] \in S /\ s[l] \in S => s[k].id < s[l].id

\* What is appended adds its number.
LEMMA AppendedId ==
  ASSUME NEW T, NEW S, NEW s \in Seq(T), NEW e \in T
  PROVE  /\ IdsOf(Append(s, e), S)
              = IdsOf(s, S) \cup (IF e \in S THEN {e.id} ELSE {})
         /\ Ascending(s, S) /\ (e \in S => \A x \in IdsOf(s, S) : x < e.id)
              => Ascending(Append(s, e), S)
<1>. DEFINE n == Len(s)
            t == Append(s, e)
<1>1. /\ n \in Nat /\ DOMAIN s = 1..n /\ DOMAIN t = 1..(n + 1)
      /\ t[n + 1] = e /\ \A k \in 1..n : t[k] = s[k]
  OBVIOUS
<1>. HIDE DEF n, t
<1>2. IdsOf(t, S) = IdsOf(s, S) \cup (IF e \in S THEN {e.id} ELSE {})
  <2>1. DOMAIN t = DOMAIN s \cup {n + 1} /\ n + 1 \notin DOMAIN s
    BY <1>1
  <2>. QED BY <2>1, <1>1 DEF IdsOf
<1>3. ASSUME Ascending(s, S), e \in S => \A x \in IdsOf(s, S) : x < e.id
      PROVE  Ascending(t, S)
  <2>. SUFFICES ASSUME NEW k \in DOMAIN t, NEW l \in DOMAIN t,
                       k < l, t[k] \in S, t[l] \in S
                PROVE  t[k].id < t[l].id
    BY DEF Ascending
  <2>1. k \in 1..n /\ t[k] = s[k]
    BY <1>1
  <2>2. CASE l \in 1..n
    BY <2>1, <2>2, <1>1, <1>3 DEF Ascending
  <2>3. CASE l = n + 1
    <3>1. s[k].id \in IdsOf(s, S)
      BY <2>1, <1>1 DEF IdsOf
    <3>. QED BY <3>1, <2>1, <2>3, <1>1, <1>3
  <2>. QED BY <2>2, <2>3, <1>1
<1>. QED
  BY <1>2, <1>3 DEF t

\* What is taken from the front takes its number along, the least.
LEMMA TakenId ==
  ASSUME NEW T, NEW S, NEW s \in Seq(T), s # <<>>, Ascending(s, S),
         \A e \in T \cap S : e.id \in Nat
  PROVE  /\ Ascending(Tail(s), S)
         /\ IdsOf(Tail(s), S)
              = IdsOf(s, S) \ (IF Head(s) \in S THEN {Head(s).id} ELSE {})
         /\ Head(s) \in S => /\ Head(s).id \in IdsOf(s, S)
                             /\ \A x \in IdsOf(Tail(s), S) : Head(s).id < x
<1>. DEFINE n == Len(s)
            t == Tail(s)
            h == Head(s)
<1>1. /\ n \in Nat /\ n >= 1 /\ DOMAIN s = 1..n /\ DOMAIN t = 1..(n - 1)
      /\ h = s[1] /\ \A k \in 1..(n - 1) : t[k] = s[k + 1]
      /\ \A k \in 1..n : s[k] \in T
  OBVIOUS
<1>. HIDE DEF n, t, h
<1>2. \A k \in 1..(n - 1) : k + 1 \in 1..n /\ k + 1 # 1
  BY <1>1
<1>3. \A k \in 1..n : k # 1 => k - 1 \in 1..(n - 1) /\ (k - 1) + 1 = k
  BY <1>1
<1>4. Ascending(t, S)
  <2>. SUFFICES ASSUME NEW k \in 1..(n - 1), NEW l \in 1..(n - 1),
                       k < l, t[k] \in S, t[l] \in S
                PROVE  t[k].id < t[l].id
    BY <1>1 DEF Ascending
  <2>1. k + 1 < l + 1 /\ k + 1 \in 1..n /\ l + 1 \in 1..n
    BY <1>1
  <2>. QED BY <2>1, <1>1 DEF Ascending
<1>5. IdsOf(s, S) = IdsOf(t, S) \cup (IF h \in S THEN {h.id} ELSE {})
  <2>1. IdsOf(t, S) \subseteq IdsOf(s, S)
    BY <1>1, <1>2 DEF IdsOf
  <2>2. h \in S => h.id \in IdsOf(s, S)
    BY <1>1 DEF IdsOf
  <2>3. ASSUME NEW x \in IdsOf(s, S)
        PROVE  x \in IdsOf(t, S) \cup (IF h \in S THEN {h.id} ELSE {})
    <3>1. PICK k \in 1..n : s[k] \in S /\ x = s[k].id
      BY <1>1 DEF IdsOf
    <3>2. CASE k = 1
      BY <3>1, <3>2, <1>1
    <3>3. CASE k # 1
      <4>1. k - 1 \in DOMAIN t /\ t[k - 1] = s[k]
        BY <3>3, <1>1, <1>3
      <4>. QED BY <4>1, <3>1 DEF IdsOf
    <3>. QED BY <3>2, <3>3
  <2>. QED BY <2>1, <2>2, <2>3
<1>6. ASSUME h \in S, NEW x \in IdsOf(t, S) PROVE h.id < x
  <2>1. PICK k \in 1..(n - 1) : t[k] \in S /\ x = t[k].id
    BY <1>1, <1>6 DEF IdsOf
  <2>2. 1 \in 1..n /\ k + 1 \in 1..n /\ 1 < k + 1 /\ t[k] = s[k + 1]
    BY <1>1
  <2>. QED BY <2>1, <2>2, <1>1, <1>6 DEF Ascending
<1>7. h \in S => h.id \notin IdsOf(t, S)
  <2>1. h \in S => h.id \in Nat
    BY <1>1
  <2>. QED BY <2>1, <1>6
<1>. QED
  BY <1>4, <1>5, <1>6, <1>7 DEF t, h

\* A sequence has no more numbers than places, and as many if they ascend
\* and all count.
LEMMA CountedIds ==
  ASSUME NEW T, NEW S, NEW s \in Seq(T)
  PROVE  /\ IsFiniteSet(IdsOf(s, S)) /\ Cardinality(IdsOf(s, S)) \in Nat
         /\ Cardinality(IdsOf(s, S)) <= Len(s)
         /\ T \subseteq S /\ Ascending(s, S) /\ (\A e \in T : e.id \in Nat)
              => Cardinality(IdsOf(s, S)) = Len(s)
<1>. DEFINE n == Len(s)
            all == {s[k].id : k \in 1..n}
            f == [k \in 1..n |-> s[k].id]
<1>1. n \in Nat /\ DOMAIN s = 1..n /\ \A k \in 1..n : s[k] \in T
  OBVIOUS
<1>2. IsFiniteSet(1..n) /\ Cardinality(1..n) = n
  <2>1. \A m \in Nat : IsFiniteSet(1..m) /\ Cardinality(1..m) = IF 1 > m THEN 0 ELSE m - 1 + 1
    BY FS_Interval
  <2>2. \A m \in Nat : (IF 1 > m THEN 0 ELSE m - 1 + 1) = m
    OBVIOUS
  <2>. QED BY <2>1, <2>2, <1>1
<1>3. f \in Surjection(1..n, all)
  BY DEF Surjection
<1>4. /\ IsFiniteSet(all) /\ Cardinality(all) <= n
      /\ f \in Injection(1..n, all) => Cardinality(all) = n
  BY <1>2, <1>3, FS_Surjection
<1>. HIDE DEF n, f
<1>5. IdsOf(s, S) \subseteq all
  BY <1>1 DEF IdsOf
<1>6. IsFiniteSet(IdsOf(s, S)) /\ Cardinality(IdsOf(s, S)) <= Cardinality(all)
  BY <1>4, <1>5, FS_Subset
<1>7. Cardinality(all) \in Nat /\ Cardinality(IdsOf(s, S)) \in Nat
  BY <1>4, <1>6, FS_CardinalityType
<1>8. ASSUME T \subseteq S, Ascending(s, S), \A e \in T : e.id \in Nat
      PROVE  Cardinality(IdsOf(s, S)) = n
  <2>1. IdsOf(s, S) = all
    BY <1>1, <1>8 DEF IdsOf
  <2>2. \A k, l \in 1..n : k < l => f[k] < f[l]
    BY <1>1, <1>8 DEF Ascending, f
  <2>3. \A k \in 1..n : f[k] \in Nat
    BY <1>1, <1>8 DEF f
  <2>4. \A k, l \in 1..n : f[k] = f[l] => k = l
    <3>. SUFFICES ASSUME NEW k \in 1..n, NEW l \in 1..n, f[k] = f[l], k # l
                  PROVE  FALSE
      OBVIOUS
    <3>1. k < l \/ l < k
      BY <1>1
    <3>. QED BY <3>1, <2>2, <2>3
  <2>5. f \in Injection(1..n, all)
    BY <1>3, <2>4 DEF Injection, IsInjective, Surjection
  <2>. QED BY <2>1, <2>5, <1>4
<1>. QED
  BY <1>1, <1>4, <1>6, <1>7, <1>8 DEF n

-----------------------------------------------------------------------------
Places == {"down", "start", "wait", "asleep", "up", "deal", "take", "stop", "join"}
Threads == {"off", "init", "notify", "run", "busy", "done"}

Numbered == [id : Nat, type : Types, query : Queries]
ForDevices == {r \in Numbered : r.type # "RT_CPU"}
Result == [id : Nat, blocks : {Garbage} \cup {Dealt(r, i) : r \in Numbered, i \in Devices}]

\* The types the proof needs; a request's number need not be bounded.
Typed ==
  /\ host \in [pc : Places, at : Devices]
  /\ issue \in Nat /\ take \in Nat /\ issued \in Nat /\ issue <= take
  /\ host.pc = "deal" => issue > 0
  /\ host.pc = "take" => issue = 0 /\ take > 0
  /\ own \in Seq(Numbered)
  /\ request \in Numbered \cup {Stop}
  /\ answer \in [request : Numbered \cup {Stop}, parts : Seq(Result)]
  /\ thread \in [Devices -> Threads]
  /\ queue \in [Devices -> Seq(Numbered \cup {Stop})]
  /\ results \in [Devices -> Seq(Result)]
  /\ work \in [Devices -> Numbered \cup {Stop}]
  /\ served \in [Devices -> SUBSET [type : Types, query : Queries]]
  /\ \A i \in Devices : thread[i] = "busy" => work[i] \in Numbered

\* A request is no Stop, and has a number and a type.
LEMMA RequestFields ==
  /\ Stop \notin Numbered
  /\ \A r \in Numbered : r.id \in Nat /\ r.type \in Types /\ r.query \in Queries
  /\ \A r \in Result : r.id \in Nat
  /\ ForDevices \subseteq Numbered
<1>1. Stop.type \notin Types
  BY GpuAssumption DEF Stop
<1>. QED
  BY <1>1 DEF Numbered, ForDevices, Result

\* Where the loops over the devices go is a place again.
LEMMA NextPlace ==
  ASSUME NEW i \in Devices, NEW pc \in Places, NEW after \in Places
  PROVE  /\ NextDevice(i, pc, after) \in [pc : Places, at : Devices]
         /\ NextDevice(i, pc, after).pc \in {pc, after}
         /\ i < NumDevices => /\ NextDevice(i, pc, after).pc = pc
                              /\ NextDevice(i, pc, after).at = i + 1
         /\ ~(i < NumDevices) => /\ NextDevice(i, pc, after).pc = after
                                 /\ NextDevice(i, pc, after).at = 1
                                 /\ i = NumDevices
<1>1. NumDevices \in Nat /\ NumDevices > 0 /\ i \in 1..NumDevices
  BY GpuAssumption DEF Devices
<1>. QED
  BY <1>1 DEF NextDevice, At, Devices

\* The types hold at first.
LEMMA TypedAtFirst ==
  ASSUME Init
  PROVE  Typed
<1>1. 1 \in Devices
  BY GpuAssumption DEF Devices
<1>2. \A S : <<>> \in Seq(S)
  OBVIOUS
<1>. QED
  BY <1>1, <1>2 DEF Init, Typed, At, Places, Threads

\* The host's steps keep the types.
LEMMA HostTyped ==
  ASSUME Typed, HostCall \/ HostStep \/ Wake
  PROVE  Typed'
<1>1. CASE Start
  <2>1. 1 \in Devices /\ \A S : <<>> \in Seq(S)
    BY GpuAssumption DEF Devices
  <2>. QED BY <1>1, <2>1 DEF Start, Typed, At, Places, Threads
<1>2. CASE StartDevice
  <2>1. host' \in [pc : Places, at : Devices] /\ host'.pc \in {"start", "wait"}
    <3>1. host.at \in Devices /\ host' = NextDevice(host.at, "start", "wait")
      BY <1>2 DEF StartDevice, Typed
    <3>2. "start" \in Places /\ "wait" \in Places
      BY DEF Places
    <3>. QED BY <3>1, <3>2, NextPlace
  <2>2. thread' \in [Devices -> Threads] /\ \A i \in Devices : thread'[i] = "busy" => thread[i] = "busy"
    BY <1>2 DEF StartDevice, Typed, Threads
  <2>. QED BY <1>2, <2>1, <2>2 DEF StartDevice, Typed, batchVars
<1>3. CASE WaitUntilStarted
  <2>1. host' \in [pc : Places, at : Devices] /\ host'.pc \in {"wait", "up", "asleep"}
    <3>1. host.at \in Devices /\ "wait" \in Places /\ "up" \in Places
      BY DEF Typed, Places
    <3>2. /\ NextDevice(host.at, "wait", "up") \in [pc : Places, at : Devices]
          /\ NextDevice(host.at, "wait", "up").pc \in {"wait", "up"}
      BY <3>1, NextPlace
    <3>. QED BY <1>3, <3>1, <3>2 DEF WaitUntilStarted, At, Places
  <2>. QED BY <1>3, <2>1 DEF WaitUntilStarted, Typed, batchVars, deviceVars
<1>4. CASE Wake
  <2>1. host' \in [pc : Places, at : Devices] /\ host'.pc \in {"wait", "up"}
    <3>1. host.at \in Devices /\ host' = NextDevice(host.at, "wait", "up")
      BY <1>4 DEF Wake, Typed
    <3>2. "wait" \in Places /\ "up" \in Places
      BY DEF Places
    <3>. QED BY <3>1, <3>2, NextPlace
  <2>. QED BY <1>4, <2>1 DEF Wake, Typed, batchVars, deviceVars
<1>5. ASSUME NEW n \in 1..MaxBatch, BeginBatch(n) PROVE Typed'
  <2>1. n \in Nat
    BY GpuAssumption
  <2>. QED BY <1>5, <2>1 DEF BeginBatch, Typed, deviceVars
<1>6. ASSUME NEW type \in Types, NEW q \in Queries, RequestQuery(type, q) PROVE Typed'
  <2>1. request' \in Numbered
    BY <1>6 DEF RequestQuery, Typed, Numbered
  <2>2. own' \in Seq(Numbered)
    BY <1>6, <2>1 DEF RequestQuery, Typed
  <2>3. host' \in [pc : Places, at : Devices] /\ host'.pc \in {"up", "deal"}
    BY <1>6, GpuAssumption DEF RequestQuery, Typed, At, Places, Devices
  <2>4. issue' \in Nat /\ issue' <= take' /\ (host'.pc = "deal" => issue' > 0)
    BY <1>6 DEF RequestQuery, Typed
  <2>. QED BY <1>6, <2>1, <2>2, <2>3, <2>4 DEF RequestQuery, Typed, deviceVars
<1>7. CASE Deal
  <2>1. host.at \in Devices /\ host' \in [pc : Places, at : Devices] /\ host'.pc \in {"deal", "up"}
    BY <1>7, NextPlace DEF Deal, Typed, Places
  <2>2. queue' \in [Devices -> Seq(Numbered \cup {Stop})]
    BY <1>7, <2>1 DEF Deal, Typed
  <2>3. issue' \in Nat /\ issue' <= take' /\ (host'.pc = "deal" => issue' > 0)
    <3>1. issue \in Nat /\ take \in Nat /\ issue > 0 /\ issue <= take /\ take' = take
      BY <1>7 DEF Deal, Typed
    <3>2. CASE host'.pc = "up"
      <4>1. issue' = issue - 1
        BY <1>7, <3>2 DEF Deal
      <4>. QED BY <3>1, <3>2, <4>1
    <3>3. CASE host'.pc # "up"
      <4>1. issue' = issue
        BY <1>7, <3>3 DEF Deal
      <4>. QED BY <3>1, <4>1
    <3>. QED BY <3>2, <3>3
  <2>. QED BY <1>7, <2>1, <2>2, <2>3 DEF Deal, Typed
<1>8. CASE GetResult
  <2>1. Head(own) \in Numbered /\ Tail(own) \in Seq(Numbered)
    BY <1>8 DEF GetResult, Typed
  <2>2. host' \in [pc : Places, at : Devices] /\ host'.pc \in {"up", "take"}
    BY <1>8, GpuAssumption DEF GetResult, Typed, At, Places, Devices
  <2>3. answer' \in [request : Numbered \cup {Stop}, parts : Seq(Result)]
    BY <1>8, <2>1 DEF GetResult
  <2>4. take' \in Nat /\ issue' <= take' /\ (host'.pc = "take" => issue' = 0 /\ take' > 0)
    BY <1>8 DEF GetResult, Typed
  <2>. QED BY <1>8, <2>1, <2>2, <2>3, <2>4 DEF GetResult, Typed, deviceVars
<1>9. CASE TakeResult
  <2>. DEFINE i == host.at
  <2>1. i \in Devices /\ host' \in [pc : Places, at : Devices] /\ host'.pc \in {"take", "up"}
    BY <1>9, NextPlace DEF TakeResult, Typed, Places
  <2>2. Head(results[i]) \in Result /\ Tail(results[i]) \in Seq(Result)
    BY <1>9, <2>1 DEF TakeResult, Typed
  <2>3. results' \in [Devices -> Seq(Result)]
    BY <1>9, <2>1, <2>2 DEF TakeResult, Typed
  <2>4. answer' \in [request : Numbered \cup {Stop}, parts : Seq(Result)]
    <3>1. answer' = [answer EXCEPT !.parts = Append(@, Head(results[i]))]
      BY <1>9 DEF TakeResult
    <3>2. answer.request \in Numbered \cup {Stop} /\ answer.parts \in Seq(Result)
      BY DEF Typed
    <3>3. Append(answer.parts, Head(results[i])) \in Seq(Result)
      BY <2>2, <3>2
    <3>4. answer \in [request : Numbered \cup {Stop}, parts : Seq(Result)]
      BY DEF Typed
    <3>. HIDE DEF i
    <3>. QED BY <3>1, <3>2, <3>3, <3>4
  <2>5. take' \in Nat /\ issue' = 0 /\ (host'.pc = "take" => take' > 0)
    <3>1. take \in Nat /\ issue = 0 /\ take > 0 /\ issue' = issue
      BY <1>9 DEF TakeResult, Typed
    <3>2. CASE host'.pc = "up"
      <4>1. take' = take - 1
        BY <1>9, <3>2 DEF TakeResult
      <4>. QED BY <3>1, <3>2, <4>1
    <3>3. CASE host'.pc # "up"
      <4>1. take' = take
        BY <1>9, <3>3 DEF TakeResult
      <4>. QED BY <3>1, <3>3, <4>1
    <3>. QED BY <3>2, <3>3
  <2>. QED BY <1>9, <2>1, <2>3, <2>4, <2>5, SMTT(20) DEF TakeResult, Typed
<1>10. CASE StopAll
  <2>1. 1 \in Devices
    BY GpuAssumption DEF Devices
  <2>. QED BY <1>10, <2>1 DEF StopAll, Typed, At, Places, batchVars, deviceVars
<1>11. CASE StopDevice
  <2>1. host.at \in Devices /\ host' \in [pc : Places, at : Devices] /\ host'.pc = "join"
    BY <1>11 DEF StopDevice, Typed, At, Places
  <2>2. queue' \in [Devices -> Seq(Numbered \cup {Stop})]
    BY <1>11, <2>1 DEF StopDevice, Typed
  <2>. QED BY <1>11, <2>1, <2>2 DEF StopDevice, Typed, batchVars
<1>12. CASE Join
  <2>1. host' \in [pc : Places, at : Devices] /\ host'.pc \in {"stop", "down"}
    <3>1. host.at \in Devices /\ host' = NextDevice(host.at, "stop", "down")
      BY <1>12 DEF Join, Typed
    <3>2. "stop" \in Places /\ "down" \in Places
      BY DEF Places
    <3>. QED BY <3>1, <3>2, NextPlace
  <2>. QED BY <1>12, <2>1 DEF Join, Typed, batchVars, deviceVars
<1>. QED
  BY <1>1, <1>2, <1>3, <1>4, <1>5, <1>6, <1>7, <1>8, <1>9, <1>10, <1>11, <1>12
     DEF HostCall, HostStep

\* The devices' steps keep the types.
LEMMA DeviceTyped ==
  ASSUME Typed, NEW i \in Devices, DeviceStep(i)
  PROVE  Typed'
<1>1. CASE Initialize(i)
  BY <1>1 DEF Initialize, Typed, Threads, batchVars
<1>2. CASE NotifyStarted(i)
  <2>1. host' \in [pc : Places, at : Devices] /\ (host' = host \/ host'.pc \in {"wait", "up"})
    <3>1. "wait" \in Places /\ "up" \in Places
      BY DEF Places
    <3>2. /\ NextDevice(i, "wait", "up") \in [pc : Places, at : Devices]
          /\ NextDevice(i, "wait", "up").pc \in {"wait", "up"}
      BY <3>1, NextPlace
    <3>. QED BY <1>2, <3>2 DEF NotifyStarted, Typed
  <2>. QED BY <1>2, <2>1 DEF NotifyStarted, Typed, Threads, batchVars
<1>3. CASE Pop(i)
  <2>1. queue[i] \in Seq(Numbered \cup {Stop}) /\ queue[i] # <<>>
    BY <1>3 DEF Pop, Typed
  <2>2. Head(queue[i]) \in Numbered \cup {Stop} /\ Tail(queue[i]) \in Seq(Numbered \cup {Stop})
    BY <2>1
  <2>3. queue' \in [Devices -> Seq(Numbered \cup {Stop})]
    BY <1>3, <2>2 DEF Pop, Typed
  <2>4. CASE Head(queue[i]) = Stop
    BY <1>3, <2>3, <2>4 DEF Pop, Typed, Threads, batchVars
  <2>5. CASE Head(queue[i]) # Stop
    <3>1. /\ thread' = [thread EXCEPT ![i] = "busy"]
          /\ work' = [work EXCEPT ![i] = Head(queue[i])]
          /\ UNCHANGED <<host, batchVars, results, served>>
      BY <1>3, <2>5 DEF Pop
    <3>2. Head(queue[i]) \in Numbered
      BY <2>2, <2>5
    <3>3. /\ thread' \in [Devices -> Threads]
          /\ work' \in [Devices -> Numbered \cup {Stop}]
          /\ \A k \in Devices : thread'[k] = "busy" => work'[k] \in Numbered
      BY <3>1, <3>2 DEF Typed, Threads
    <3>. QED BY <2>3, <3>1, <3>3 DEF Typed, batchVars
  <2>. QED BY <2>4, <2>5
<1>4. CASE Complete(i)
  <2>. DEFINE r == work[i]
              blocks == Dealt(r, i)
              after == MemoryAfter(memory[i], r, Len(blocks))
              result == [id |-> r.id,
                         blocks |-> IF ReadsRight(after, r) THEN blocks ELSE Garbage]
  <2>1. r \in Numbered
    BY <1>4 DEF Complete, Typed
  <2>2. result \in Result
    BY <2>1, RequestFields DEF Result
  <2>3. results' = results \/ results' = [results EXCEPT ![i] = Append(@, result)]
    BY <1>4 DEF Complete
  <2>. HIDE DEF result
  <2>4. results' \in [Devices -> Seq(Result)]
    <3>1. results[i] \in Seq(Result) /\ results \in [Devices -> Seq(Result)]
      BY DEF Typed
    <3>2. Append(results[i], result) \in Seq(Result)
      BY <2>2, <3>1
    <3>. QED BY <2>3, <3>1, <3>2
  <2>5. [type |-> r.type, query |-> r.query] \in [type : Types, query : Queries]
    BY <2>1, RequestFields
  <2>6. served' \in [Devices -> SUBSET [type : Types, query : Queries]]
    BY <1>4, <2>5 DEF Complete, Typed
  <2>7. /\ thread' = [thread EXCEPT ![i] = "run"] /\ work' = [work EXCEPT ![i] = Stop]
        /\ UNCHANGED <<host, batchVars, started, queue>>
    BY <1>4 DEF Complete
  <2>. QED BY <2>4, <2>6, <2>7 DEF Typed, Threads, batchVars
<1>. QED
  BY <1>1, <1>2, <1>3, <1>4 DEF DeviceStep

-----------------------------------------------------------------------------
\* The host's own queue is numbered in ascending order, and is as long as the
\* batch it is at says.
HostInv ==
  /\ Ascending(own, Numbered)
  /\ \A x \in IdsOf(own, Numbered) : x <= issued
  /\ Len(own) <= QueueSize
  /\ Len(answer.parts) <= NumDevices
  /\ host.pc \notin {"up", "deal", "take"} => take = 0
  /\ host.pc \notin {"deal", "take"} => Len(own) = take - issue
  /\ host.pc = "deal" =>
       /\ request \in ForDevices /\ request.id \in IdsOf(own, ForDevices)
       /\ \A x \in IdsOf(own, Numbered) : x <= request.id
       /\ Len(own) = take - issue + 1
  /\ host.pc = "take" =>
       /\ answer.request \in ForDevices
       /\ \A x \in IdsOf(own, Numbered) : answer.request.id < x
       /\ Len(own) = take - 1 /\ Len(own) < QueueSize
       /\ Len(answer.parts) = host.at - 1

\* The requests device i still owes the host: those in the host's own queue,
\* without the one that has not been dealt to it yet, and with the one whose
\* result has not been taken from it yet.
Due(i) ==
  IF host.pc = "deal" /\ i >= host.at THEN IdsOf(own, ForDevices) \ {request.id}
  ELSE IF host.pc = "take" /\ i >= host.at THEN IdsOf(own, ForDevices) \cup {answer.request.id}
  ELSE IdsOf(own, ForDevices)

Done(i) == IdsOf(results[i], Result)
Doing(i) == IF thread[i] = "busy" THEN {work[i].id} ELSE {}
ToDo(i) == IdsOf(queue[i], Numbered)

StopSent(i) == host = At("join", i) /\ thread[i] # "done"

Stopped(i) ==
  \/ host.pc = "down"
  \/ host = At("join", i)
  \/ host.pc \in {"stop", "join"} /\ i < host.at

NotStarted(i) == host.pc = "start" /\ i >= host.at

\* Device i works them off in their order; it may have dropped some if it has
\* refused a request.
DeviceInv(i) ==
  /\ Ascending(queue[i], Numbered) /\ Ascending(results[i], Result)
  /\ \A x \in Done(i) : \A y \in Doing(i) \cup ToDo(i) : x < y
  /\ \A x \in Doing(i) : \A y \in ToDo(i) : x < y
  /\ Done(i) \cup Doing(i) \cup ToDo(i) \subseteq Due(i)
  /\ HasRefused(i) \/ Due(i) \subseteq Done(i) \cup Doing(i) \cup ToDo(i)
  /\ \A k \in DOMAIN queue[i] : queue[i][k] = Stop => k = Len(queue[i]) /\ StopSent(i)
  /\ thread[i] = "done" => Stopped(i)
  /\ NotStarted(i) => thread[i] = "off"

Inv ==
  /\ Typed
  /\ HostInv
  /\ \A i \in Devices : DeviceInv(i)
  /\ PartsAreOfTheRequest

\* Of the host's own queue: requests for devices are among the others, and all
\* numbers are numbers.
LEMMA OwnIds ==
  ASSUME Typed, HostInv
  PROVE  /\ IdsOf(own, ForDevices) \subseteq IdsOf(own, Numbered)
         /\ IdsOf(own, Numbered) \subseteq Nat
         /\ Ascending(own, ForDevices)
<1>1. \A k \in DOMAIN own : own[k] \in Numbered
  BY DEF Typed
<1>. QED
  BY <1>1, RequestFields DEF IdsOf, Ascending, HostInv

\* A device is as it was when nothing of it changes, nor what it owes, and the
\* host does not leave it unstopped.
LEMMA DeviceKept ==
  ASSUME NEW i \in Devices, DeviceInv(i),
         queue'[i] = queue[i], results'[i] = results[i], served'[i] = served[i],
         Doing(i)' = Doing(i), Due(i)' = Due(i),
         StopSent(i) => StopSent(i)',
         thread'[i] = "done" => Stopped(i)',
         NotStarted(i)' => thread'[i] = "off"
  PROVE  DeviceInv(i)'
<1>1. Done(i)' = Done(i) /\ ToDo(i)' = ToDo(i) /\ (HasRefused(i) => HasRefused(i)')
  BY DEF Done, ToDo, HasRefused
<1>2. Ascending(queue[i], Numbered)' /\ Ascending(results[i], Result)'
  BY DEF DeviceInv, Ascending
<1>3. \A k \in DOMAIN queue'[i] : queue'[i][k] = Stop => k = Len(queue'[i]) /\ StopSent(i)'
  BY DEF DeviceInv
<1>. QED
  BY <1>1, <1>2, <1>3 DEF DeviceInv

\* The host walks from place to place outside a batch: no queue changes.
LEMMA Walk ==
  ASSUME Inv, UNCHANGED <<batchVars, queue, results, work, served>>,
         host \in [pc : Places \ {"deal", "take"}, at : Devices],
         host' \in [pc : Places \ {"deal", "take"}, at : Devices],
         take = 0 \/ host'.pc = "up",
         \A i \in Devices : thread'[i] = "busy" <=> thread[i] = "busy",
         \A i \in Devices : StopSent(i) => StopSent(i)',
         \A i \in Devices : thread'[i] = "done" => Stopped(i)',
         \A i \in Devices : NotStarted(i)' => thread'[i] = "off"
  PROVE  HostInv' /\ (\A i \in Devices : DeviceInv(i)') /\ PartsAreOfTheRequest'
<1>1. HostInv'
  BY DEF Inv, HostInv, batchVars, Ascending, IdsOf
<1>2. ASSUME NEW i \in Devices PROVE DeviceInv(i)'
  <2>1. Due(i)' = Due(i)
    BY DEF Due, batchVars
  <2>2. Doing(i)' = Doing(i)
    BY DEF Doing
  <2>. QED BY <2>1, <2>2, DeviceKept DEF Inv
<1>3. PartsAreOfTheRequest'
  BY DEF Inv, PartsAreOfTheRequest, HasRefused, batchVars
<1>. QED
  BY <1>1, <1>2, <1>3

\* The steps outside a batch.
LEMMA WalkSteps ==
  ASSUME Inv,
         StartDevice \/ WaitUntilStarted \/ Wake \/ StopAll \/ Join
           \/ \E i \in Devices : NotifyStarted(i) \/ Initialize(i)
  PROVE  HostInv' /\ (\A i \in Devices : DeviceInv(i)') /\ PartsAreOfTheRequest'
<1>. DEFINE Elsewhere == [pc : Places \ {"deal", "take"}, at : Devices]
<1>1. /\ Typed /\ HostInv /\ host.at \in Devices
      /\ host.pc \notin {"deal", "take"} => host \in Elsewhere
      /\ \A i \in Devices : /\ thread[i] = "done" => Stopped(i)
                            /\ NotStarted(i) => thread[i] = "off"
      /\ NumDevices \in Nat /\ Devices = 1..NumDevices
  BY GpuAssumption DEF Inv, DeviceInv, Typed, Devices
<1>. HIDE DEF Elsewhere
<1>2. ASSUME NEW pc \in Places, NEW after \in Places,
             pc \notin {"deal", "take"}, after \notin {"deal", "take"},
             NEW i \in Devices
      PROVE  /\ NextDevice(i, pc, after) \in Elsewhere
             /\ \/ /\ NextDevice(i, pc, after).pc = pc
                   /\ NextDevice(i, pc, after).at = i + 1
                \/ NextDevice(i, pc, after).pc = after /\ i = NumDevices
  <2>1. NextDevice(i, pc, after) \in [pc : Places, at : Devices]
    BY NextPlace
  <2>2. \/ i < NumDevices /\ NextDevice(i, pc, after).pc = pc
                          /\ NextDevice(i, pc, after).at = i + 1
        \/ NextDevice(i, pc, after).pc = after /\ i = NumDevices
    BY NextPlace
  <2>. QED BY <1>2, <2>1, <2>2 DEF Elsewhere
<1>3. ASSUME NEW i \in Devices, host.pc \notin {"down", "stop", "join"}
      PROVE  ~StopSent(i) /\ ~Stopped(i) /\ thread[i] # "done"
  <2>1. host # At("join", i)
    BY <1>3 DEF At
  <2>2. ~Stopped(i) /\ ~StopSent(i)
    BY <2>1, <1>3 DEF StopSent, Stopped
  <2>. QED BY <2>2, <1>1
<1>4. ASSUME host.pc \in {"wait", "asleep"}, host' \in Elsewhere,
             host'.pc \in {"wait", "asleep", "up"},
             UNCHANGED <<batchVars, thread, queue, results, work, served>>
      PROVE  HostInv' /\ (\A i \in Devices : DeviceInv(i)') /\ PartsAreOfTheRequest'
  <2>1. take = 0 /\ host \in Elsewhere
    BY <1>1, <1>4 DEF HostInv
  <2>2. \A i \in Devices : ~NotStarted(i)' /\ ~StopSent(i) /\ thread[i] # "done"
    BY <1>3, <1>4 DEF NotStarted
  <2>. QED BY <2>1, <2>2, <1>4, Walk DEF Elsewhere
<1>5. CASE StartDevice
  <2>1. host.pc = "start" /\ host' = NextDevice(host.at, "start", "wait")
    BY <1>5 DEF StartDevice
  <2>2. /\ host' \in Elsewhere /\ host'.pc \in {"start", "wait"}
        /\ host'.pc = "start" => host'.at = host.at + 1
    <3>1. "start" \in Places /\ "wait" \in Places
      BY DEF Places
    <3>. QED BY <2>1, <3>1, <1>1, <1>2
  <2>3. /\ thread' = [thread EXCEPT ![host.at] = "init"] /\ take = 0
        /\ UNCHANGED <<batchVars, queue, results, work, served>>
    BY <1>5, <1>1, <2>1 DEF StartDevice, HostInv
  <2>4. thread[host.at] = "off"
    <3>1. host.at \in Int /\ NotStarted(host.at)
      BY <1>1, <2>1 DEF NotStarted
    <3>. QED BY <3>1, <1>1
  <2>5. \A i \in Devices : /\ thread[i] # "done" /\ thread'[i] # "done" /\ ~StopSent(i)
                           /\ thread'[i] = "busy" <=> thread[i] = "busy"
    BY <1>3, <2>1, <2>3, <2>4, <1>1 DEF Typed
  <2>6. ASSUME NEW i \in Devices, NotStarted(i)' PROVE thread'[i] = "off"
    <3>1. host'.pc = "start" /\ i >= host'.at
      BY <2>6 DEF NotStarted
    <3>2. i >= host.at /\ i # host.at
      BY <3>1, <2>2, <1>1
    <3>3. NotStarted(i)
      BY <3>2, <2>1 DEF NotStarted
    <3>4. thread[i] = "off"
      BY <3>3, <1>1
    <3>. QED BY <3>2, <3>4, <2>3, <1>1 DEF Typed
  <2>. QED BY <2>1, <2>2, <2>3, <2>5, <2>6, <1>1, Walk DEF Elsewhere
<1>6. CASE WaitUntilStarted
  <2>1. host.pc = "wait" /\ UNCHANGED <<batchVars, thread, queue, results, work, served>>
    BY <1>6 DEF WaitUntilStarted, deviceVars
  <2>2. "wait" \in Places /\ "up" \in Places /\ At("asleep", host.at) \in Elsewhere
    BY <1>1 DEF Places, At, Elsewhere
  <2>3. host' \in Elsewhere /\ host'.pc \in {"wait", "asleep", "up"}
    BY <1>6, <2>2, <1>1, <1>2 DEF WaitUntilStarted, At
  <2>. QED BY <2>1, <2>3, <1>4
<1>7. CASE Wake
  <2>1. host.pc = "asleep" /\ UNCHANGED <<batchVars, thread, queue, results, work, served>>
    BY <1>7 DEF Wake, deviceVars
  <2>2. "wait" \in Places /\ "up" \in Places
    BY DEF Places
  <2>3. host' \in Elsewhere /\ host'.pc \in {"wait", "asleep", "up"}
    BY <1>7, <2>2, <1>1, <1>2 DEF Wake
  <2>. QED BY <2>1, <2>3, <1>4
<1>8. CASE StopAll
  <2>1. /\ host.pc = "up" /\ take = 0 /\ host' = At("stop", 1)
        /\ UNCHANGED <<batchVars, thread, queue, results, work, served>>
    BY <1>8 DEF StopAll, deviceVars
  <2>2. host' \in Elsewhere /\ host \in Elsewhere
    BY <2>1, <1>1, GpuAssumption DEF Elsewhere, At, Places
  <2>3. \A i \in Devices : ~NotStarted(i)' /\ ~StopSent(i) /\ thread[i] # "done"
    BY <1>3, <2>1 DEF NotStarted, At
  <2>. QED BY <2>1, <2>2, <2>3, Walk DEF Elsewhere
<1>9. CASE Join
  <2>1. /\ host.pc = "join" /\ thread[host.at] = "done"
        /\ host' = NextDevice(host.at, "stop", "down")
        /\ UNCHANGED <<batchVars, thread, queue, results, work, served>>
    BY <1>9 DEF Join, deviceVars
  <2>2. /\ host' \in Elsewhere /\ take = 0
        /\ \/ host'.pc = "stop" /\ host'.at = host.at + 1
           \/ host'.pc = "down"
    <3>1. "stop" \in Places /\ "down" \in Places
      BY DEF Places
    <3>2. host' \in Elsewhere
      BY <2>1, <3>1, <1>1, <1>2
    <3>3. \/ host'.pc = "stop" /\ host'.at = host.at + 1
          \/ host'.pc = "down"
      BY <2>1, <3>1, <1>1, <1>2
    <3>. QED BY <2>1, <3>2, <3>3, <1>1 DEF HostInv
  <2>3. \A i \in Devices : ~StopSent(i) /\ ~NotStarted(i)'
    BY <2>1, <2>2 DEF StopSent, NotStarted, At
  <2>4. ASSUME NEW i \in Devices, thread'[i] = "done" PROVE Stopped(i)'
    <3>1. i <= host.at
      <4>1. Stopped(i)
        BY <2>1, <2>4, <1>1
      <4>2. host = At("join", i) => i = host.at
        BY DEF At
      <4>. QED BY <4>1, <4>2, <2>1, <1>1 DEF Stopped
    <3>. QED BY <3>1, <2>2, <1>1 DEF Stopped
  <2>. QED BY <2>1, <2>2, <2>3, <2>4, <1>1, Walk DEF Elsewhere
<1>10. ASSUME NEW i \in Devices, NotifyStarted(i), host = At("asleep", i)
       PROVE  HostInv' /\ (\A j \in Devices : DeviceInv(j)') /\ PartsAreOfTheRequest'
  <2>1. /\ host.pc = "asleep" /\ host' = NextDevice(i, "wait", "up")
        /\ thread' = [thread EXCEPT ![i] = "run"] /\ thread[i] = "notify"
        /\ UNCHANGED <<batchVars, queue, results, work, served>>
    BY <1>10 DEF NotifyStarted, At
  <2>2. host' \in Elsewhere /\ host'.pc \in {"wait", "up"}
    <3>1. "wait" \in Places /\ "up" \in Places
      BY DEF Places
    <3>. QED BY <2>1, <3>1, <1>2
  <2>3. /\ take = 0
        /\ \A j \in Devices : /\ ~NotStarted(j)' /\ ~StopSent(j) /\ thread'[j] # "done"
                              /\ thread'[j] = "busy" <=> thread[j] = "busy"
    BY <1>1, <1>3, <2>1, <2>2 DEF NotStarted, HostInv, Typed
  <2>. QED BY <2>1, <2>2, <2>3, <1>1, Walk DEF Elsewhere
<1>11. ASSUME NEW i \in Devices,
              Initialize(i) \/ (NotifyStarted(i) /\ host # At("asleep", i))
       PROVE  HostInv' /\ (\A j \in Devices : DeviceInv(j)') /\ PartsAreOfTheRequest'
  <2>1. /\ UNCHANGED <<host, batchVars, queue, results, work, served>>
        /\ \E to \in {"notify", "run"} : thread' = [thread EXCEPT ![i] = to]
        /\ thread[i] \in {"init", "notify"}
    BY <1>11 DEF Initialize, NotifyStarted
  <2>2. \A j \in Devices : /\ thread'[j] = "done" <=> thread[j] = "done"
                           /\ thread'[j] = "busy" <=> thread[j] = "busy"
                           /\ thread[j] = "off" => thread'[j] = "off"
    BY <2>1, <1>1 DEF Typed
  <2>3. HostInv'
    BY <2>1, <1>1 DEF HostInv, batchVars, Ascending, IdsOf
  <2>4. ASSUME NEW j \in Devices PROVE DeviceInv(j)'
    <3>1. Due(j)' = Due(j) /\ Doing(j)' = Doing(j)
      BY <2>1, <2>2 DEF Due, Doing, batchVars
    <3>2. /\ StopSent(j) => StopSent(j)'
          /\ thread'[j] = "done" => Stopped(j)'
          /\ NotStarted(j)' => thread'[j] = "off"
      BY <2>1, <2>2, <1>1 DEF StopSent, Stopped, NotStarted
    <3>. QED BY <2>1, <3>1, <3>2, DeviceKept DEF Inv
  <2>5. PartsAreOfTheRequest'
    BY <2>1 DEF Inv, PartsAreOfTheRequest, HasRefused, batchVars
  <2>. QED BY <2>3, <2>4, <2>5
<1>. QED
  BY <1>5, <1>6, <1>7, <1>8, <1>9, <1>10, <1>11

\* What a device has of requests is numbers.
LEMMA DeviceIds ==
  ASSUME Typed, NEW i \in Devices
  PROVE  /\ queue[i] \in Seq(Numbered \cup {Stop}) /\ results[i] \in Seq(Result)
         /\ Done(i) \subseteq Nat /\ Doing(i) \subseteq Nat /\ ToDo(i) \subseteq Nat
         /\ \A e \in (Numbered \cup {Stop}) \cap Numbered : e.id \in Nat
         /\ \A e \in Result \cap Result : e.id \in Nat
<1>1. queue[i] \in Seq(Numbered \cup {Stop}) /\ results[i] \in Seq(Result)
  BY DEF Typed
<1>2. Doing(i) \subseteq Nat
  BY RequestFields DEF Typed, Doing
<1>3. ToDo(i) \subseteq Nat
  BY RequestFields DEF ToDo, IdsOf
<1>4. Done(i) \subseteq Nat
  BY <1>1, RequestFields DEF Done, IdsOf
<1>. QED
  BY <1>1, <1>2, <1>3, <1>4, RequestFields

\* No queue has any number in it when the host has nothing outstanding.
LEMMA Empty ==
  ASSUME Inv, host.pc \notin {"up", "deal", "take"}
  PROVE  /\ own = <<>>
         /\ \A i \in Devices : Done(i) = {} /\ Doing(i) = {} /\ ToDo(i) = {}
         /\ \A i \in Devices : results[i] = <<>> /\ thread[i] # "busy"
         /\ \A i \in Devices : \A k \in DOMAIN queue[i] : queue[i][k] = Stop
<1>1. take = 0 /\ issue = 0 /\ Len(own) = 0 /\ own \in Seq(Numbered)
  BY DEF Inv, HostInv, Typed
<1>2. own = <<>>
  BY <1>1
<1>3. IdsOf(own, ForDevices) = {}
  BY <1>2 DEF IdsOf
<1>4. \A i \in Devices : Due(i) = {}
  BY <1>3 DEF Due
<1>5. \A i \in Devices : Done(i) = {} /\ Doing(i) = {} /\ ToDo(i) = {}
  BY <1>4 DEF Inv, DeviceInv
<1>6. ASSUME NEW i \in Devices PROVE results[i] = <<>> /\ thread[i] # "busy"
  <2>1. results[i] \in Seq(Result) /\ \A k \in DOMAIN results[i] : results[i][k] \in Result
    BY DEF Inv, Typed
  <2>2. DOMAIN results[i] = {}
    BY <2>1, <1>5 DEF Done, IdsOf
  <2>3. results[i] = <<>>
    <3>1. \A s \in Seq(Result) : DOMAIN s = {} => s = <<>>
      OBVIOUS
    <3>. QED BY <2>1, <2>2, <3>1
  <2>. QED BY <2>3, <1>5 DEF Doing
<1>7. ASSUME NEW i \in Devices, NEW k \in DOMAIN queue[i] PROVE queue[i][k] = Stop
  <2>1. queue[i][k] \in Numbered \cup {Stop}
    BY DEF Inv, Typed
  <2>. QED BY <2>1, <1>5 DEF ToDo, IdsOf
<1>. QED
  BY <1>2, <1>5, <1>6, <1>7

\* New devices have nothing.
LEMMA StartKeeps ==
  ASSUME Inv, Start
  PROVE  HostInv' /\ (\A i \in Devices : DeviceInv(i)') /\ PartsAreOfTheRequest'
<1>1. own = <<>> /\ own' = <<>>
  BY Empty DEF Start
<1>2. /\ take = 0 /\ take' = 0 /\ issue' = issue /\ issued' = issued
      /\ host'.pc = "start" /\ answer'.parts = <<>> /\ answer'.request = Stop
      /\ issue = 0
  BY DEF Start, Inv, HostInv, Typed, At
<1>3. HostInv'
  <2>1. Len(answer'.parts) <= NumDevices /\ Len(own') = 0 /\ 0 <= QueueSize
    BY <1>1, <1>2, GpuAssumption
  <2>2. DOMAIN own' = {}
    BY <1>1
  <2>. QED BY <1>1, <1>2, <2>1, <2>2 DEF HostInv, Ascending, IdsOf
<1>4. ASSUME NEW i \in Devices PROVE DeviceInv(i)'
  <2>1. queue'[i] = <<>> /\ results'[i] = <<>> /\ thread'[i] = "off"
    BY DEF Start
  <2>2. DOMAIN queue'[i] = {} /\ DOMAIN results'[i] = {}
    BY <2>1
  <2>3. Done(i)' = {} /\ Doing(i)' = {} /\ ToDo(i)' = {}
    BY <2>1, <2>2 DEF Done, Doing, ToDo, IdsOf
  <2>4. Due(i)' = {}
    BY <1>1, <1>2 DEF Due, IdsOf
  <2>5. Ascending(queue[i], Numbered)' /\ Ascending(results[i], Result)'
    BY <2>2 DEF Ascending
  <2>. QED BY <2>1, <2>2, <2>3, <2>4, <2>5 DEF DeviceInv
<1>5. PartsAreOfTheRequest'
  BY <1>2 DEF PartsAreOfTheRequest
<1>. QED
  BY <1>3, <1>4, <1>5

\* A batch begins.
LEMMA BeginBatchKeeps ==
  ASSUME Inv, NEW n \in 1..MaxBatch, BeginBatch(n)
  PROVE  HostInv' /\ (\A i \in Devices : DeviceInv(i)') /\ PartsAreOfTheRequest'
<1>1. /\ host.pc = "up" /\ take = 0 /\ issue' = n /\ take' = n /\ n \in Nat
      /\ UNCHANGED <<host, issued, own, request, answer, thread, queue, results, work, served>>
  BY GpuAssumption DEF BeginBatch, deviceVars
<1>2. issue = 0 /\ Len(own) = 0
  BY <1>1 DEF Inv, HostInv, Typed
<1>3. HostInv'
  BY <1>1, <1>2 DEF Inv, HostInv, Ascending, IdsOf
<1>4. ASSUME NEW i \in Devices PROVE DeviceInv(i)'
  <2>1. Due(i)' = Due(i) /\ Doing(i)' = Doing(i)
    BY <1>1 DEF Due, Doing
  <2>2. /\ StopSent(i) => StopSent(i)'
        /\ thread'[i] = "done" => Stopped(i)'
        /\ NotStarted(i)' => thread'[i] = "off"
    BY <1>1 DEF StopSent, Stopped, NotStarted, Inv, DeviceInv
  <2>. QED BY <1>1, <2>1, <2>2, DeviceKept DEF Inv
<1>5. PartsAreOfTheRequest'
  BY <1>1 DEF Inv, PartsAreOfTheRequest, HasRefused
<1>. QED
  BY <1>3, <1>4, <1>5

\* While the host is up, no device is stopped or about to.
LEMMA UpAndRunning ==
  ASSUME Inv, host.pc \in {"up", "deal", "take"}, NEW i \in Devices
  PROVE  ~StopSent(i) /\ ~Stopped(i) /\ ~NotStarted(i) /\ thread[i] # "done"
<1>1. host # At("join", i)
  BY DEF At
<1>2. ~StopSent(i) /\ ~Stopped(i) /\ ~NotStarted(i)
  BY <1>1 DEF StopSent, Stopped, NotStarted
<1>. QED
  BY <1>2 DEF Inv, DeviceInv

\* The host's new request is the one with the highest number; no device owes
\* it yet.
LEMMA RequestKeeps ==
  ASSUME Inv, NEW type \in Types, NEW q \in Queries, RequestQuery(type, q)
  PROVE  HostInv' /\ (\A i \in Devices : DeviceInv(i)') /\ PartsAreOfTheRequest'
<1>. DEFINE r == [id |-> issued + 1, type |-> type, query |-> q]
<1>1. /\ host.pc = "up" /\ issue > 0 /\ Len(own) < QueueSize
      /\ own' = Append(own, r) /\ issued' = issued + 1 /\ request' = r
      /\ UNCHANGED <<take, answer, thread, queue, results, work, served>>
      /\ issued \in Nat /\ take \in Nat /\ issue \in Nat /\ own \in Seq(Numbered)
      /\ Typed /\ HostInv /\ QueueSize \in Nat
  BY GpuAssumption DEF RequestQuery, deviceVars, Full, Inv, Typed
<1>2. r \in Numbered /\ r.id = issued + 1 /\ (r \in ForDevices <=> type # "RT_CPU")
  BY <1>1 DEF Numbered, ForDevices
<1>3. \/ type = "RT_CPU" /\ issue' = issue - 1 /\ host' = host
      \/ type # "RT_CPU" /\ issue' = issue /\ host' = At("deal", 1)
  BY DEF RequestQuery
<1>. HIDE DEF r
<1>4. /\ IdsOf(own, ForDevices) \subseteq IdsOf(own, Numbered)
      /\ IdsOf(own, Numbered) \subseteq Nat
      /\ \A x \in IdsOf(own, Numbered) : x < r.id
  BY <1>1, <1>2, OwnIds DEF HostInv
<1>5. /\ IdsOf(own', Numbered) = IdsOf(own, Numbered) \cup {r.id}
      /\ Ascending(own', Numbered)
  <2>1. Ascending(own, Numbered)
    BY <1>1 DEF HostInv
  <2>. QED BY <2>1, <1>1, <1>2, <1>4, AppendedId
<1>6. IdsOf(own', ForDevices) = IdsOf(own, ForDevices) \cup (IF r \in ForDevices THEN {r.id} ELSE {})
  <2>1. \A S : IdsOf(Append(own, r), S) = IdsOf(own, S) \cup (IF r \in S THEN {r.id} ELSE {})
    <3>1. own \in Seq(Numbered) /\ r \in Numbered
      BY <1>1, <1>2
    <3>. QED BY <3>1, AppendedId
  <2>2. IdsOf(Append(own, r), ForDevices)
          = IdsOf(own, ForDevices) \cup (IF r \in ForDevices THEN {r.id} ELSE {})
    BY <2>1
  <2>. QED BY <2>2, <1>1
<1>7. Len(own') = Len(own) + 1 /\ Len(own) = take - issue /\ Len(own) \in Nat
  BY <1>1, <1>2 DEF HostInv
<1>8. HostInv'
  <2>1. Ascending(own, Numbered)' /\ \A x \in IdsOf(own, Numbered)' : x <= issued'
    <3>1. \A x \in IdsOf(own', Numbered) : x <= issued'
      BY <1>1, <1>2, <1>4, <1>5
    <3>. QED BY <3>1, <1>5
  <2>2. Len(own') <= QueueSize /\ Len(answer'.parts) <= NumDevices
    BY <1>1, <1>7 DEF HostInv
  <2>3. CASE type = "RT_CPU"
    BY <2>1, <2>2, <2>3, <1>1, <1>3, <1>7 DEF HostInv
  <2>4. CASE type # "RT_CPU"
    <3>1. host'.pc = "deal" /\ r \in ForDevices /\ issue' = issue
      BY <2>4, <1>2, <1>3 DEF At
    <3>2. request'.id \in IdsOf(own', ForDevices) /\ \A x \in IdsOf(own', Numbered) : x <= request'.id
      BY <3>1, <1>1, <1>2, <1>4, <1>5, <1>6
    <3>3. Len(own') = take' - issue' + 1
      BY <3>1, <1>1, <1>7
    <3>. QED BY <2>1, <2>2, <3>1, <3>2, <3>3, <1>1 DEF HostInv
  <2>. QED BY <2>3, <2>4
<1>9. ASSUME NEW i \in Devices PROVE DeviceInv(i)'
  <2>1. Due(i)' = Due(i)
    <3>1. Due(i) = IdsOf(own, ForDevices)
      BY <1>1 DEF Due
    <3>2. CASE type = "RT_CPU"
      BY <3>1, <3>2, <1>1, <1>2, <1>3, <1>6 DEF Due
    <3>3. CASE type # "RT_CPU"
      <4>1. i >= 1 /\ host'.pc = "deal" /\ host'.at = 1
        BY <3>3, <1>3 DEF At, Devices
      <4>2. r.id \notin IdsOf(own, ForDevices)
        BY <1>1, <1>2, <1>4
      <4>3. Due(i)' = IdsOf(own', ForDevices) \ {request'.id}
        BY <4>1 DEF Due
      <4>. QED BY <3>1, <3>3, <4>2, <4>3, <1>1, <1>2, <1>6
    <3>. QED BY <3>2, <3>3
  <2>2. ~StopSent(i) /\ ~Stopped(i) /\ ~NotStarted(i) /\ thread[i] # "done"
    BY <1>1, UpAndRunning
  <2>3. Doing(i)' = Doing(i) /\ ~NotStarted(i)'
    BY <1>1, <1>3 DEF Doing, NotStarted, At
  <2>. QED BY <2>1, <2>2, <2>3, <1>1, DeviceKept DEF Inv
<1>10. PartsAreOfTheRequest'
  BY <1>1 DEF Inv, PartsAreOfTheRequest, HasRefused
<1>. QED
  BY <1>8, <1>9, <1>10

\* What a step within the batch leaves of the loop over the devices.
LEMMA BatchPlace ==
  ASSUME Typed, NEW pc \in {"deal", "take"}, host.pc = pc,
         host' = NextDevice(host.at, pc, "up"), NEW i \in Devices
  PROVE  /\ i \in Int /\ host.at \in Devices /\ host.at \in Int
         /\ host'.pc \in {pc, "up"}
         /\ host'.pc = pc => host'.at = host.at + 1
         /\ host'.pc = "up" => host.at = NumDevices /\ i <= host.at
<1>1. host.at \in Devices /\ pc \in Places /\ "up" \in Places /\ pc # "up"
  BY DEF Typed, Places
<1>2. /\ NumDevices \in Nat /\ i \in 1..NumDevices /\ host.at \in 1..NumDevices
  BY <1>1, GpuAssumption DEF Devices
<1>3. \/ host.at < NumDevices /\ host'.pc = pc /\ host'.at = host.at + 1
      \/ host.at = NumDevices /\ host'.pc = "up"
  BY <1>1, NextPlace
<1>. QED
  BY <1>1, <1>2, <1>3

\* A request is the last in the queue of the device it is dealt to.
LEMMA DealKeeps ==
  ASSUME Inv, Deal
  PROVE  HostInv' /\ (\A i \in Devices : DeviceInv(i)') /\ PartsAreOfTheRequest'
<1>0. PICK d \in Devices : d = host.at
  BY DEF Inv, Typed
<1>1. /\ host.pc = "deal" /\ Typed /\ HostInv
      /\ queue' = [queue EXCEPT ![d] = Append(@, request)]
      /\ host' = NextDevice(host.at, "deal", "up")
      /\ UNCHANGED <<take, issued, own, request, answer, thread, results, work, served>>
      /\ issue \in Nat /\ take \in Nat /\ issue > 0
  BY <1>0 DEF Deal, Inv, Typed
<1>2. /\ request \in ForDevices /\ request.id \in IdsOf(own, ForDevices)
      /\ \A x \in IdsOf(own, Numbered) : x <= request.id
      /\ Len(own) = take - issue + 1
      /\ request \in Numbered /\ request.id \in Nat /\ request # Stop
  BY <1>1, RequestFields DEF HostInv
<1>3. /\ host'.pc \in {"deal", "up"} /\ (host'.pc = "deal" => host'.at = d + 1)
      /\ d \in Int
      /\ \A i \in Devices : i \in Int /\ (host'.pc = "up" => i <= d)
  BY <1>0, <1>1, BatchPlace
<1>4. issue' = IF host'.pc = "up" THEN issue - 1 ELSE issue
  BY DEF Deal
<1>5. HostInv'
  <2>1. Ascending(own, Numbered)' /\ IdsOf(own, Numbered)' = IdsOf(own, Numbered)
        /\ IdsOf(own, ForDevices)' = IdsOf(own, ForDevices)
    BY <1>1 DEF HostInv, Ascending, IdsOf
  <2>2. CASE host'.pc = "up"
    <3>1. Len(own') = take' - issue'
      BY <2>2, <1>1, <1>2, <1>4
    <3>. QED BY <2>1, <2>2, <3>1, <1>1 DEF HostInv
  <2>3. CASE host'.pc = "deal"
    BY <2>1, <2>3, <1>1, <1>2, <1>4 DEF HostInv
  <2>. QED BY <2>2, <2>3, <1>3
<1>6. \A i \in Devices : ~StopSent(i) /\ ~Stopped(i) /\ thread[i] # "done" /\ ~NotStarted(i)'
  BY <1>1, <1>3, UpAndRunning DEF NotStarted
<1>7. ASSUME NEW i \in Devices, i # d PROVE DeviceInv(i)'
  <2>1. Due(i)' = Due(i)
    <3>1. (host'.pc = "deal" /\ i >= host'.at) <=> i >= d
      BY <1>3, <1>7
    <3>2. host'.pc # "take" /\ own' = own /\ request' = request
      BY <1>1, <1>3
    <3>. QED BY <3>1, <3>2, <1>0, <1>1 DEF Due
  <2>2. Doing(i)' = Doing(i) /\ queue'[i] = queue[i]
    BY <1>1, <1>7 DEF Doing, Typed
  <2>. QED BY <2>1, <2>2, <1>1, <1>6, DeviceKept DEF Inv
<1>8. DeviceInv(d)'
  <2>1. queue'[d] = Append(queue[d], request) /\ DeviceInv(d)
    BY <1>1 DEF Typed, Inv
  <2>2. Due(d) = IdsOf(own, ForDevices) \ {request.id}
    BY <1>1, <1>0, <1>3 DEF Due
  <2>3. Due(d)' = IdsOf(own, ForDevices)
    <3>1. ~(host'.pc = "deal" /\ d >= host'.at) /\ host'.pc # "take" /\ own' = own
      BY <1>1, <1>3
    <3>. QED BY <3>1 DEF Due
  <2>4. Done(d) \cup Doing(d) \cup ToDo(d) \subseteq Due(d)
    BY <2>1 DEF DeviceInv
  <2>5. \A x \in Done(d) \cup Doing(d) \cup ToDo(d) : x < request.id
    <3>1. \A x \in Due(d) : x \in Nat /\ x <= request.id /\ x # request.id
      BY <2>2, <1>1, <1>2, OwnIds
    <3>. QED BY <3>1, <2>4, <1>2
  <2>6. /\ IdsOf(Append(queue[d], request), Numbered) = ToDo(d) \cup {request.id}
        /\ Ascending(Append(queue[d], request), Numbered)
    <3>1. queue[d] \in Seq(Numbered \cup {Stop}) /\ request \in Numbered \cup {Stop}
      BY <1>1, <1>2 DEF Typed
    <3>2. Ascending(queue[d], Numbered) /\ \A x \in IdsOf(queue[d], Numbered) : x < request.id
      BY <2>1, <2>5 DEF DeviceInv, ToDo
    <3>. QED BY <3>1, <3>2, <1>2, AppendedId DEF ToDo
  <2>7. /\ ToDo(d)' = ToDo(d) \cup {request.id} /\ Done(d)' = Done(d) /\ Doing(d)' = Doing(d)
        /\ (HasRefused(d) => HasRefused(d)')
    BY <2>1, <2>6, <1>1 DEF ToDo, Done, Doing, HasRefused
  <2>8. Ascending(queue[d], Numbered)' /\ Ascending(results[d], Result)'
    BY <2>1, <2>6, <1>1 DEF DeviceInv
  <2>9. \A k \in DOMAIN queue'[d] : queue'[d][k] # Stop
    <3>1. \A k \in DOMAIN queue[d] : queue[d][k] # Stop
      BY <2>1, <1>1, <1>6 DEF DeviceInv
    <3>2. queue[d] \in Seq(Numbered \cup {Stop})
      BY <1>1 DEF Typed
    <3>. QED BY <2>1, <3>1, <3>2, <1>2
  <2>10. /\ \A x \in Done(d)' : \A y \in Doing(d)' \cup ToDo(d)' : x < y
         /\ \A x \in Doing(d)' : \A y \in ToDo(d)' : x < y
    BY <2>1, <2>5, <2>7 DEF DeviceInv
  <2>11. /\ (Done(d) \cup Doing(d) \cup ToDo(d))' \subseteq Due(d)'
         /\ HasRefused(d)' \/ Due(d)' \subseteq (Done(d) \cup Doing(d) \cup ToDo(d))'
    BY <2>1, <2>2, <2>3, <2>4, <2>7, <1>2 DEF DeviceInv
  <2>. QED BY <2>8, <2>9, <2>10, <2>11, <1>1, <1>6 DEF DeviceInv
<1>9. PartsAreOfTheRequest'
  BY <1>1 DEF Inv, PartsAreOfTheRequest, HasRefused
<1>. QED
  BY <1>5, <1>7, <1>8, <1>9

\* The oldest request leaves the host's own queue and becomes the one whose
\* results are taken.
LEMMA GetResultKeeps ==
  ASSUME Inv, GetResult
  PROVE  HostInv' /\ (\A i \in Devices : DeviceInv(i)') /\ PartsAreOfTheRequest'
<1>. DEFINE r == Head(own)
<1>1. /\ host.pc = "up" /\ issue = 0 /\ take > 0 /\ own # <<>>
      /\ own' = Tail(own) /\ answer' = [request |-> r, parts |-> <<>>]
      /\ UNCHANGED <<issue, issued, request, thread, queue, results, work, served>>
      /\ issued \in Nat /\ take \in Nat /\ own \in Seq(Numbered) /\ Typed /\ HostInv
  BY DEF GetResult, deviceVars, Inv, Typed
<1>2. \/ r.type = "RT_CPU" /\ take' = take - 1 /\ host' = host
      \/ r.type # "RT_CPU" /\ take' = take /\ host' = At("take", 1)
  BY DEF GetResult
<1>3. /\ r \in Numbered /\ Len(own') = Len(own) - 1 /\ Len(own) = take /\ Len(own) <= QueueSize
      /\ Len(own) \in Nat
  BY <1>1 DEF HostInv
<1>4. /\ r.id \in Nat /\ (r \in ForDevices <=> r.type # "RT_CPU")
      /\ \A e \in Numbered : e.id \in Nat
  BY <1>3, RequestFields DEF ForDevices
<1>5. /\ Ascending(own', Numbered)
      /\ IdsOf(own', Numbered) \subseteq IdsOf(own, Numbered)
      /\ \A x \in IdsOf(own', Numbered) : r.id < x
  <2>1. Ascending(own, Numbered) /\ \A e \in Numbered \cap Numbered : e.id \in Nat
    BY <1>1, <1>4 DEF HostInv
  <2>2. own \in Seq(Numbered) /\ own # <<>>
    BY <1>1
  <2>. HIDE DEF r
  <2>3. /\ Ascending(Tail(own), Numbered)
        /\ IdsOf(Tail(own), Numbered)
             = IdsOf(own, Numbered) \ (IF Head(own) \in Numbered THEN {Head(own).id} ELSE {})
        /\ Head(own) \in Numbered => \A x \in IdsOf(Tail(own), Numbered) : Head(own).id < x
    BY <2>1, <2>2, TakenId
  <2>4. own' = Tail(own) /\ r \in Numbered
    BY <1>1, <1>3
  <2>. QED BY <2>3, <2>4 DEF r
<1>6. /\ IdsOf(own', ForDevices) = IdsOf(own, ForDevices) \ (IF r \in ForDevices THEN {r.id} ELSE {})
      /\ r \in ForDevices => r.id \in IdsOf(own, ForDevices)
  <2>1. Ascending(own, ForDevices) /\ \A e \in Numbered \cap ForDevices : e.id \in Nat
    BY <1>1, <1>4, OwnIds
  <2>. QED BY <2>1, <1>1, <1>3, TakenId
<1>. HIDE DEF r
<1>7. HostInv'
  <2>1. /\ Ascending(own, Numbered)' /\ \A x \in IdsOf(own, Numbered)' : x <= issued'
        /\ Len(own') <= QueueSize /\ Len(answer'.parts) = 0 /\ 0 <= NumDevices
        /\ QueueSize \in Nat
    BY <1>1, <1>3, <1>5, GpuAssumption DEF HostInv
  <2>2. CASE r.type = "RT_CPU"
    BY <2>1, <2>2, <1>1, <1>2, <1>3 DEF HostInv
  <2>3. CASE r.type # "RT_CPU"
    <3>1. host'.pc = "take" /\ host'.at = 1 /\ take' = take
      BY <2>3, <1>2 DEF At
    <3>2. answer'.request = r /\ r \in ForDevices
      BY <2>3, <1>1, <1>4
    <3>. QED BY <2>1, <3>1, <3>2, <1>1, <1>3, <1>5 DEF HostInv
  <2>. QED BY <2>2, <2>3
<1>8. ASSUME NEW i \in Devices PROVE DeviceInv(i)'
  <2>1. Due(i)' = Due(i)
    <3>1. Due(i) = IdsOf(own, ForDevices)
      BY <1>1 DEF Due
    <3>2. CASE r.type = "RT_CPU"
      BY <3>1, <3>2, <1>1, <1>2, <1>4, <1>6 DEF Due
    <3>3. CASE r.type # "RT_CPU"
      <4>1. i >= 1 /\ host'.pc = "take" /\ host'.at = 1
        BY <3>3, <1>2 DEF At, Devices
      <4>2. Due(i)' = IdsOf(own', ForDevices) \cup {r.id}
        BY <4>1, <1>1 DEF Due
      <4>. QED BY <3>1, <3>3, <4>2, <1>4, <1>6
    <3>. QED BY <3>2, <3>3
  <2>2. ~StopSent(i) /\ ~Stopped(i) /\ ~NotStarted(i) /\ thread[i] # "done"
    BY <1>1, UpAndRunning
  <2>3. Doing(i)' = Doing(i) /\ ~NotStarted(i)'
    BY <1>1, <1>2 DEF Doing, NotStarted, At
  <2>. QED BY <2>1, <2>2, <2>3, <1>1, DeviceKept DEF Inv
<1>9. PartsAreOfTheRequest'
  <2>1. answer'.parts = <<>>
    BY <1>1
  <2>. QED BY <2>1 DEF PartsAreOfTheRequest
<1>. QED
  BY <1>7, <1>8, <1>9

\* The oldest result of a device that has refused nothing is the request's.
LEMMA TakeResultKeeps ==
  ASSUME Inv, TakeResult
  PROVE  HostInv' /\ (\A i \in Devices : DeviceInv(i)') /\ PartsAreOfTheRequest'
<1>0. PICK d \in Devices : d = host.at
  BY DEF Inv, Typed
<1>. DEFINE h == Head(results[d])
            id == answer.request.id
<1>1. /\ host.pc = "take" /\ results[d] # <<>> /\ Typed /\ HostInv /\ DeviceInv(d)
      /\ answer' = [answer EXCEPT !.parts = Append(@, h)]
      /\ results' = [results EXCEPT ![d] = Tail(@)]
      /\ host' = NextDevice(host.at, "take", "up")
      /\ UNCHANGED <<issue, issued, own, request, thread, queue, work, served>>
      /\ issue = 0 /\ take \in Nat /\ take > 0
  BY <1>0 DEF TakeResult, Inv, Typed
<1>2. /\ answer.request \in ForDevices /\ Len(own) = take - 1 /\ Len(own) < QueueSize
      /\ \A x \in IdsOf(own, Numbered) : id < x
      /\ Len(answer.parts) = d - 1 /\ answer.request \in Numbered /\ id \in Nat
  BY <1>0, <1>1, RequestFields DEF HostInv
<1>3. /\ host'.pc \in {"take", "up"} /\ (host'.pc = "take" => host'.at = d + 1)
      /\ d \in Int
      /\ \A i \in Devices : i \in Int /\ (host'.pc = "up" => i <= d)
  BY <1>0, <1>1, BatchPlace
<1>4. take' = IF host'.pc = "up" THEN take - 1 ELSE take
  BY DEF TakeResult
<1>5. /\ answer.parts \in Seq(Result) /\ h \in Result
      /\ answer'.request = answer.request /\ answer'.parts = Append(answer.parts, h)
  BY <1>1 DEF Typed
<1>6. Len(answer'.parts) = d /\ d <= NumDevices
  BY <1>2, <1>3, <1>5, GpuAssumption DEF Devices
<1>. HIDE DEF h, id
<1>7. HostInv'
  <2>1. /\ Ascending(own, Numbered)' /\ IdsOf(own, Numbered)' = IdsOf(own, Numbered)
        /\ IdsOf(own, ForDevices)' = IdsOf(own, ForDevices)
    BY <1>1 DEF HostInv, Ascending, IdsOf
  <2>2. /\ \A x \in IdsOf(own, Numbered)' : x <= issued'
        /\ Len(own') <= QueueSize /\ Len(answer'.parts) <= NumDevices
    BY <2>1, <1>1, <1>6 DEF HostInv
  <2>3. CASE host'.pc = "up"
    <3>1. Len(own') = take' - issue'
      BY <2>3, <1>1, <1>2, <1>4
    <3>. QED BY <2>1, <2>2, <2>3, <3>1 DEF HostInv
  <2>4. CASE host'.pc = "take"
    <3>1. Len(own') = take' - 1 /\ Len(answer'.parts) = host'.at - 1
      BY <2>4, <1>1, <1>2, <1>3, <1>4, <1>6
    <3>. QED BY <2>1, <2>2, <2>4, <3>1, <1>1, <1>2, <1>5 DEF HostInv, id
  <2>. QED BY <2>3, <2>4, <1>3
<1>8. \A i \in Devices : ~StopSent(i) /\ ~Stopped(i) /\ thread[i] # "done" /\ ~NotStarted(i)'
  BY <1>1, <1>3, UpAndRunning DEF NotStarted
<1>9. ASSUME NEW i \in Devices, i # d PROVE DeviceInv(i)'
  <2>1. Due(i)' = Due(i)
    <3>1. (host'.pc = "take" /\ i >= host'.at) <=> i >= d
      BY <1>3, <1>9
    <3>2. host'.pc # "deal" /\ own' = own /\ answer'.request = answer.request
      BY <1>1, <1>3, <1>5
    <3>. QED BY <3>1, <3>2, <1>0, <1>1 DEF Due
  <2>2. Doing(i)' = Doing(i) /\ results'[i] = results[i]
    BY <1>1, <1>9 DEF Doing, Typed
  <2>. QED BY <2>1, <2>2, <1>1, <1>8, DeviceKept DEF Inv
<1>. DEFINE old == Done(d) \cup Doing(d) \cup ToDo(d)
            owed == IdsOf(own, ForDevices)
<1>10. Due(d) = owed \cup {id} /\ Due(d)' = owed
  <2>1. Due(d) = owed \cup {id}
    BY <1>0, <1>1, <1>3 DEF Due, id
  <2>2. ~(host'.pc = "take" /\ d >= host'.at) /\ host'.pc # "deal" /\ own' = own
    BY <1>1, <1>3
  <2>. QED BY <2>1, <2>2 DEF Due
<1>11. /\ results'[d] = Tail(results[d]) /\ Ascending(Tail(results[d]), Result)
       /\ IdsOf(Tail(results[d]), Result) = Done(d) \ {h.id}
       /\ h.id \in Done(d) /\ \A x \in Done(d) \ {h.id} : h.id < x
  <2>1. results[d] \in Seq(Result) /\ \A e \in Result \cap Result : e.id \in Nat
    BY <1>1, DeviceIds
  <2>2. Ascending(results[d], Result)
    BY <1>1 DEF DeviceInv
  <2>3. results'[d] = Tail(results[d])
    BY <1>1 DEF Typed
  <2>. QED BY <2>1, <2>2, <2>3, <1>1, <1>5, TakenId DEF Done, h
<1>12. \A x \in old \ {h.id} : h.id < x
  BY <1>1, <1>11 DEF DeviceInv
<1>13. /\ old \subseteq owed \cup {id} /\ h.id \in old
       /\ HasRefused(d) \/ owed \cup {id} \subseteq old
  BY <1>1, <1>10, <1>11 DEF DeviceInv
<1>14. \A x \in owed : x \in Nat /\ id < x
  BY <1>1, <1>2, OwnIds
<1>15. HasRefused(d) \/ h.id = id
  BY <1>2, <1>12, <1>13, <1>14
<1>16. old \ {h.id} \subseteq owed
  BY <1>2, <1>12, <1>13, <1>14
<1>17. DeviceInv(d)'
  <2>1. /\ Done(d)' = Done(d) \ {h.id} /\ Doing(d)' = Doing(d) /\ ToDo(d)' = ToDo(d)
        /\ HasRefused(d)' <=> HasRefused(d)
    BY <1>1, <1>11 DEF Done, Doing, ToDo, HasRefused
  <2>2. Ascending(queue[d], Numbered)' /\ Ascending(results[d], Result)'
    BY <1>1, <1>11 DEF DeviceInv, Ascending
  <2>3. h.id \notin Doing(d) \cup ToDo(d)
    <3>1. \A x \in Doing(d) \cup ToDo(d) : h.id < x /\ x \in Nat
      BY <1>1, <1>11, DeviceIds DEF DeviceInv
    <3>. QED BY <3>1
  <2>4. (Done(d) \cup Doing(d) \cup ToDo(d))' = old \ {h.id}
    BY <2>1, <2>3
  <2>5. id \notin owed
    BY <1>2, <1>14
  <2>6. HasRefused(d)' \/ Due(d)' \subseteq old \ {h.id}
    BY <2>1, <2>5, <1>10, <1>13, <1>15
  <2>7. \A k \in DOMAIN queue'[d] : queue'[d][k] # Stop
    BY <1>1, <1>8 DEF DeviceInv
  <2>8. /\ \A x \in Done(d)' : \A y \in Doing(d)' \cup ToDo(d)' : x < y
        /\ \A x \in Doing(d)' : \A y \in ToDo(d)' : x < y
    BY <2>1, <1>1 DEF DeviceInv
  <2>9. thread'[d] # "done" /\ ~NotStarted(d)'
    BY <1>1, <1>8
  <2>. QED BY <2>2, <2>4, <2>6, <2>7, <2>8, <2>9, <1>10, <1>16 DEF DeviceInv
<1>18. PartsAreOfTheRequest'
  <2>. SUFFICES ASSUME NEW k \in DOMAIN answer'.parts
                PROVE  HasRefused(k)' \/ answer'.parts[k].id = answer'.request.id
    BY DEF PartsAreOfTheRequest
  <2>1. k \in 1..d /\ Len(answer.parts) = d - 1
    BY <1>2, <1>5, <1>6
  <2>2. HasRefused(k)' <=> HasRefused(k)
    BY <1>1 DEF HasRefused
  <2>3. CASE k = d
    <3>1. answer'.parts[k] = h
      BY <2>1, <2>3, <1>5
    <3>. QED BY <2>2, <2>3, <3>1, <1>5, <1>15 DEF id
  <2>4. CASE k # d
    <3>1. k \in DOMAIN answer.parts /\ answer'.parts[k] = answer.parts[k]
      BY <2>1, <2>4, <1>3, <1>5
    <3>. QED BY <2>2, <3>1, <1>5 DEF Inv, PartsAreOfTheRequest
  <2>. QED BY <2>3, <2>4
<1>. QED
  BY <1>7, <1>9, <1>17, <1>18

\* A device is told to stop when its queue is empty.
LEMMA StopDeviceKeeps ==
  ASSUME Inv, StopDevice
  PROVE  HostInv' /\ (\A i \in Devices : DeviceInv(i)') /\ PartsAreOfTheRequest'
<1>0. PICK d \in Devices : d = host.at
  BY DEF Inv, Typed
<1>1. /\ host.pc = "stop" /\ host' = At("join", d) /\ Typed /\ HostInv
      /\ queue' = [queue EXCEPT ![d] = Append(@, Stop)]
      /\ UNCHANGED <<batchVars, thread, results, work, served>>
  BY <1>0 DEF StopDevice, Inv
<1>2. /\ own = <<>> /\ host'.pc = "join" /\ host'.at = d
      /\ \A i \in Devices : /\ results[i] = <<>> /\ thread[i] # "busy"
                            /\ Done(i) = {} /\ Doing(i) = {} /\ ToDo(i) = {}
                            /\ \A k \in DOMAIN queue[i] : queue[i][k] = Stop
  BY <1>1, Empty DEF At
<1>3. HostInv'
  BY <1>1, <1>2 DEF HostInv, batchVars, Ascending, IdsOf
<1>4. \A i \in Devices : ~StopSent(i) /\ i \in Int
  BY <1>1 DEF StopSent, At, Devices
<1>5. ASSUME NEW i \in Devices, thread'[i] = "done" PROVE Stopped(i)' /\ i # d
  <2>1. Stopped(i) /\ host # At("join", i)
    BY <1>1, <1>5 DEF Inv, DeviceInv, At
  <2>2. i < d
    BY <2>1, <1>0, <1>1 DEF Stopped
  <2>. QED BY <2>2, <1>2, <1>4 DEF Stopped
<1>6. \A i \in Devices : Due(i) = {} /\ Due(i)' = {}
  <2>1. IdsOf(own, ForDevices) = {} /\ own' = own
    BY <1>1, <1>2 DEF IdsOf, batchVars
  <2>. QED BY <2>1, <1>1, <1>2 DEF Due
<1>7. ASSUME NEW i \in Devices, i # d PROVE DeviceInv(i)'
  <2>1. Doing(i)' = Doing(i) /\ queue'[i] = queue[i] /\ ~NotStarted(i)'
    BY <1>1, <1>2, <1>7 DEF Doing, Typed, NotStarted
  <2>. QED BY <2>1, <1>1, <1>4, <1>5, <1>6, DeviceKept DEF Inv
<1>8. DeviceInv(d)'
  <2>1. queue[d] = <<>>
    <3>1. \A k \in DOMAIN queue[d] : FALSE
      BY <1>2, <1>4 DEF Inv, DeviceInv
    <3>2. \A q \in Seq(Numbered \cup {Stop}) : DOMAIN q = {} => q = <<>>
      OBVIOUS
    <3>3. queue[d] \in Seq(Numbered \cup {Stop})
      BY <1>1 DEF Typed
    <3>. QED BY <3>1, <3>2, <3>3
  <2>2. queue'[d] = <<Stop>>
    BY <2>1, <1>1 DEF Typed
  <2>3. DOMAIN queue'[d] = {1} /\ queue'[d][1] = Stop /\ Len(queue'[d]) = 1
    BY <2>2
  <2>4. /\ Ascending(queue[d], Numbered)' /\ Ascending(results[d], Result)'
        /\ ToDo(d)' = {} /\ Done(d)' = {} /\ Doing(d)' = {}
    <3>1. Stop \notin Numbered
      BY RequestFields
    <3>2. results'[d] = <<>> /\ thread'[d] # "busy" /\ DOMAIN results'[d] = {}
      BY <1>1, <1>2
    <3>. QED BY <2>3, <3>1, <3>2 DEF Ascending, ToDo, Done, Doing, IdsOf
  <2>5. StopSent(d)' /\ ~NotStarted(d)' /\ thread'[d] # "done"
    <3>1. thread'[d] # "done"
      BY <1>5
    <3>. QED BY <3>1, <1>1, <1>2 DEF StopSent, NotStarted
  <2>. QED BY <2>3, <2>4, <2>5, <1>6 DEF DeviceInv
<1>9. PartsAreOfTheRequest'
  BY <1>1 DEF Inv, PartsAreOfTheRequest, HasRefused, batchVars
<1>. QED
  BY <1>3, <1>7, <1>8, <1>9

\* A device's other steps concern no other device and not the host.
LEMMA OthersKeep ==
  ASSUME Inv, NEW i \in Devices, Pop(i) \/ Complete(i)
  PROVE  /\ HostInv'
         /\ \A j \in Devices : j # i => DeviceInv(j)'
         /\ (HasRefused(i) => HasRefused(i)') => PartsAreOfTheRequest'
<1>1. /\ UNCHANGED <<host, batchVars>> /\ Typed
      /\ \A j \in Devices : j # i => /\ queue'[j] = queue[j] /\ results'[j] = results[j]
                                     /\ served'[j] = served[j] /\ work'[j] = work[j]
                                     /\ thread'[j] = thread[j]
  BY DEF Pop, Complete, Inv, Typed
<1>2. HostInv'
  BY <1>1 DEF Inv, HostInv, batchVars, Ascending, IdsOf
<1>3. ASSUME NEW j \in Devices, j # i PROVE DeviceInv(j)'
  <2>1. Due(j)' = Due(j) /\ Doing(j)' = Doing(j)
    BY <1>1, <1>3 DEF Due, Doing, batchVars
  <2>2. /\ StopSent(j) => StopSent(j)'
        /\ thread'[j] = "done" => Stopped(j)'
        /\ NotStarted(j)' => thread'[j] = "off"
    BY <1>1, <1>3 DEF StopSent, Stopped, NotStarted, Inv, DeviceInv
  <2>. QED BY <1>1, <1>3, <2>1, <2>2, DeviceKept DEF Inv
<1>4. ASSUME HasRefused(i) => HasRefused(i)' PROVE PartsAreOfTheRequest'
  <2>1. answer' = answer
    BY <1>1 DEF batchVars
  <2>2. DOMAIN answer.parts \subseteq Devices
    <3>1. answer.parts \in Seq(Result) /\ Len(answer.parts) <= NumDevices /\ NumDevices \in Nat
      BY GpuAssumption DEF Inv, Typed, HostInv
    <3>. QED BY <3>1 DEF Devices
  <2>3. \A j \in Devices : HasRefused(j) => HasRefused(j)'
    BY <1>1, <1>4 DEF HasRefused
  <2>. QED BY <2>1, <2>2, <2>3 DEF Inv, PartsAreOfTheRequest
<1>. QED
  BY <1>2, <1>3, <1>4

\* The request a device takes from its queue is the one it is at.
LEMMA PopKeeps ==
  ASSUME Inv, NEW i \in Devices, Pop(i)
  PROVE  HostInv' /\ (\A j \in Devices : DeviceInv(j)') /\ PartsAreOfTheRequest'
<1>. DEFINE q == queue[i]
            h == Head(q)
<1>1. /\ thread[i] = "run" /\ q # <<>> /\ q \in Seq(Numbered \cup {Stop})
      /\ queue' = [queue EXCEPT ![i] = Tail(q)] /\ queue'[i] = Tail(q)
      /\ UNCHANGED <<host, batchVars, results, served>>
      /\ Typed /\ DeviceInv(i)
  BY DEF Pop, Inv, Typed
<1>2. /\ Len(q) \in Nat /\ Len(q) >= 1 /\ h = q[1] /\ 1 \in DOMAIN q /\ DOMAIN q = 1..Len(q)
      /\ h \in Numbered \cup {Stop}
      /\ DOMAIN Tail(q) = 1..(Len(q) - 1) /\ Len(Tail(q)) = Len(q) - 1
      /\ \A k \in 1..(Len(q) - 1) : Tail(q)[k] = q[k + 1]
  BY <1>1
<1>3. /\ Ascending(Tail(q), Numbered)
      /\ IdsOf(Tail(q), Numbered) = ToDo(i) \ (IF h \in Numbered THEN {h.id} ELSE {})
      /\ h \in Numbered => /\ h.id \in ToDo(i)
                           /\ \A x \in IdsOf(Tail(q), Numbered) : h.id < x
  <2>1. Ascending(q, Numbered) /\ \A e \in (Numbered \cup {Stop}) \cap Numbered : e.id \in Nat
    BY <1>1, DeviceIds DEF DeviceInv
  <2>2. ToDo(i) = IdsOf(q, Numbered) /\ q \in Seq(Numbered \cup {Stop}) /\ q # <<>>
    BY <1>1 DEF ToDo
  <2>. HIDE DEF q
  <2>3. /\ Ascending(Tail(q), Numbered)
        /\ IdsOf(Tail(q), Numbered)
             = IdsOf(q, Numbered) \ (IF Head(q) \in Numbered THEN {Head(q).id} ELSE {})
        /\ Head(q) \in Numbered => /\ Head(q).id \in IdsOf(q, Numbered)
                                   /\ \A x \in IdsOf(Tail(q), Numbered) : Head(q).id < x
    BY <2>1, <2>2, TakenId
  <2>. QED BY <2>2, <2>3
<1>4. \A k \in DOMAIN q : q[k] = Stop => k = Len(q) /\ StopSent(i)
  BY <1>1 DEF DeviceInv
<1>5. h = Stop => /\ thread' = [thread EXCEPT ![i] = "done"] /\ work' = work
  BY DEF Pop
<1>6. h # Stop => /\ thread' = [thread EXCEPT ![i] = "busy"]
                  /\ work' = [work EXCEPT ![i] = h]
  BY DEF Pop
<1>. HIDE DEF q, h
<1>7. Doing(i) = {} /\ ~NotStarted(i)
  BY <1>1 DEF Doing, DeviceInv
<1>8. /\ ToDo(i)' = IdsOf(Tail(q), Numbered) /\ Done(i)' = Done(i) /\ Due(i)' = Due(i)
      /\ HasRefused(i)' <=> HasRefused(i)
  BY <1>1 DEF ToDo, Done, Due, HasRefused, batchVars
<1>9. Ascending(queue[i], Numbered)' /\ Ascending(results[i], Result)' /\ ~NotStarted(i)'
  BY <1>1, <1>3, <1>7 DEF DeviceInv, Ascending, NotStarted
<1>10. CASE h = Stop
  <2>1. Len(q) = 1 /\ host = At("join", i)
    BY <1>2, <1>4, <1>10 DEF StopSent
  <2>2. DOMAIN queue'[i] = {}
    BY <2>1, <1>1, <1>2
  <2>3. thread'[i] = "done" /\ Stopped(i)'
    BY <2>1, <1>1, <1>5, <1>10 DEF Typed, Stopped
  <2>4. Doing(i)' = {} /\ ToDo(i)' = ToDo(i)
    BY <2>3, <1>3, <1>8, <1>10, RequestFields DEF Doing
  <2>5. DeviceInv(i)'
    BY <2>2, <2>3, <2>4, <1>1, <1>7, <1>8, <1>9 DEF DeviceInv
  <2>. QED BY <2>5, <1>8, OthersKeep
<1>11. CASE h # Stop
  <2>1. h \in Numbered /\ thread'[i] = "busy" /\ work'[i] = h
    BY <1>1, <1>2, <1>6, <1>11 DEF Typed
  <2>2. Doing(i)' = {h.id} /\ ToDo(i)' = ToDo(i) \ {h.id} /\ h.id \in ToDo(i)
    BY <2>1, <1>3, <1>8 DEF Doing
  <2>3. (Done(i) \cup Doing(i) \cup ToDo(i))' = Done(i) \cup Doing(i) \cup ToDo(i)
    BY <2>2, <1>7, <1>8
  <2>4. /\ \A x \in Done(i)' : \A y \in Doing(i)' \cup ToDo(i)' : x < y
        /\ \A x \in Doing(i)' : \A y \in ToDo(i)' : x < y
    BY <2>1, <2>2, <1>1, <1>3, <1>8 DEF DeviceInv
  <2>5. ASSUME NEW k \in DOMAIN queue'[i], queue'[i][k] = Stop
        PROVE  k = Len(queue'[i]) /\ StopSent(i)'
    <3>1. k \in 1..(Len(q) - 1) /\ q[k + 1] = Stop /\ k + 1 \in DOMAIN q
      BY <2>5, <1>1, <1>2
    <3>2. k + 1 = Len(q) /\ StopSent(i)
      BY <3>1, <1>4
    <3>. QED BY <3>1, <3>2, <2>1, <1>1, <1>2 DEF StopSent
  <2>6. DeviceInv(i)'
    BY <2>1, <2>3, <2>4, <2>5, <1>1, <1>8, <1>9 DEF DeviceInv
  <2>. QED BY <2>6, <1>8, OthersKeep
<1>. QED
  BY <1>10, <1>11

\* The result a device is through with is its last, or it is refused.
LEMMA CompleteKeeps ==
  ASSUME Inv, NEW i \in Devices, Complete(i)
  PROVE  HostInv' /\ (\A j \in Devices : DeviceInv(j)') /\ PartsAreOfTheRequest'
<1>. DEFINE r == work[i]
            blocks == Dealt(r, i)
            after == MemoryAfter(memory[i], r, Len(blocks))
            result == [id |-> r.id,
                       blocks |-> IF ReadsRight(after, r) THEN blocks ELSE Garbage]
<1>1. /\ thread[i] = "busy" /\ r \in Numbered
      /\ thread' = [thread EXCEPT ![i] = "run"] /\ thread'[i] = "run"
      /\ served' = [served EXCEPT ![i] = @ \cup {[type |-> r.type, query |-> r.query]}]
      /\ UNCHANGED <<host, batchVars, queue>>
      /\ Typed /\ DeviceInv(i)
  BY DEF Complete, Inv, Typed
<1>2. IF Refused(r) THEN results' = results
      ELSE results' = [results EXCEPT ![i] = Append(@, result)]
  BY DEF Complete
<1>3. result \in Result /\ result.id = r.id
  BY <1>1, RequestFields DEF Result
<1>. HIDE DEF result
<1>4. served'[i] = served[i] \cup {[type |-> r.type, query |-> r.query]}
  BY <1>1 DEF Typed
<1>5. (HasRefused(i) => HasRefused(i)') /\ (Refused(r) => HasRefused(i)')
  <2>. DEFINE s == [type |-> r.type, query |-> r.query]
  <2>1. Refused(s) <=> Refused(r)
    BY DEF Refused
  <2>2. served'[i] = served[i] \cup {s}
    BY <1>4
  <2>. HIDE DEF s
  <2>. QED BY <2>1, <2>2 DEF HasRefused, Refused
<1>6. /\ ToDo(i)' = ToDo(i) /\ Due(i)' = Due(i) /\ Doing(i) = {r.id} /\ Doing(i)' = {}
  BY <1>1 DEF ToDo, Due, Doing, batchVars
<1>7. /\ Ascending(queue[i], Numbered)'
      /\ \A k \in DOMAIN queue'[i] : queue'[i][k] = Stop => k = Len(queue'[i]) /\ StopSent(i)'
      /\ ~NotStarted(i)' /\ thread'[i] # "done"
  BY <1>1 DEF DeviceInv, StopSent, NotStarted
<1>8. CASE Refused(r)
  <2>1. results'[i] = results[i] /\ Done(i)' = Done(i) /\ Ascending(results[i], Result)'
    BY <1>1, <1>2, <1>8 DEF DeviceInv, Done
  <2>2. DeviceInv(i)'
    BY <2>1, <1>1, <1>5, <1>6, <1>7, <1>8 DEF DeviceInv
  <2>. QED BY <2>2, <1>5, OthersKeep
<1>9. CASE ~Refused(r)
  <2>1. results'[i] = Append(results[i], result) /\ results[i] \in Seq(Result)
    BY <1>1, <1>2, <1>9 DEF Typed
  <2>2. Ascending(results[i], Result) /\ \A x \in IdsOf(results[i], Result) : x < result.id
    BY <1>1, <1>3, <1>6 DEF DeviceInv, Done
  <2>3. /\ Ascending(Append(results[i], result), Result)
        /\ IdsOf(Append(results[i], result), Result) = IdsOf(results[i], Result) \cup {r.id}
    BY <2>1, <2>2, <1>3, AppendedId
  <2>4. Done(i)' = Done(i) \cup Doing(i) /\ Ascending(results[i], Result)'
    BY <2>1, <2>3, <1>6 DEF Done
  <2>5. \A x \in Done(i)' : \A y \in ToDo(i) : x < y
    BY <2>4, <1>1 DEF DeviceInv
  <2>6. DeviceInv(i)'
    BY <2>4, <2>5, <1>1, <1>5, <1>6, <1>7 DEF DeviceInv
  <2>. QED BY <2>6, <1>5, OthersKeep
<1>. QED
  BY <1>8, <1>9

-----------------------------------------------------------------------------
\* Inv holds at first ...
LEMMA InvAtFirst ==
  ASSUME Init
  PROVE  Inv
<1>1. /\ host.pc = "down" /\ issue = 0 /\ take = 0 /\ own = <<>> /\ answer.parts = <<>>
      /\ \A i \in Devices : thread[i] = "off" /\ queue[i] = <<>> /\ results[i] = <<>>
  BY DEF Init, At
<1>2. HostInv
  <2>1. NumDevices \in Nat /\ QueueSize \in Nat /\ DOMAIN own = {} /\ Len(own) = 0
        /\ Len(answer.parts) = 0
    BY <1>1, GpuAssumption
  <2>. QED BY <1>1, <2>1 DEF HostInv, Ascending, IdsOf
<1>3. ASSUME NEW i \in Devices PROVE DeviceInv(i)
  <2>1. DOMAIN queue[i] = {} /\ DOMAIN results[i] = {} /\ DOMAIN own = {}
    BY <1>1
  <2>2. Due(i) = {} /\ Done(i) = {} /\ Doing(i) = {} /\ ToDo(i) = {}
    BY <1>1, <2>1 DEF Due, Done, Doing, ToDo, IdsOf
  <2>. QED BY <1>1, <2>1, <2>2 DEF DeviceInv, Ascending, Stopped
<1>4. PartsAreOfTheRequest
  BY <1>1 DEF PartsAreOfTheRequest
<1>. QED
  BY <1>2, <1>3, <1>4, TypedAtFirst DEF Inv

\* ... and every step keeps it.
LEMMA InvKept ==
  ASSUME Inv, [Next]_vars
  PROVE  Inv'
<1>1. CASE HostCall \/ HostStep \/ Wake
  <2>1. Typed'
    BY <1>1, HostTyped DEF Inv
  <2>2. HostInv' /\ (\A i \in Devices : DeviceInv(i)') /\ PartsAreOfTheRequest'
    <3>1. CASE Start
      BY <3>1, StartKeeps
    <3>2. CASE \E n \in 1..MaxBatch : BeginBatch(n)
      BY <3>2, BeginBatchKeeps
    <3>3. CASE \E type \in Types, q \in Queries : RequestQuery(type, q)
      BY <3>3, RequestKeeps
    <3>4. CASE Deal
      BY <3>4, DealKeeps
    <3>5. CASE GetResult
      BY <3>5, GetResultKeeps
    <3>6. CASE TakeResult
      BY <3>6, TakeResultKeeps
    <3>7. CASE StopDevice
      BY <3>7, StopDeviceKeeps
    <3>8. CASE StartDevice \/ WaitUntilStarted \/ Wake \/ StopAll \/ Join
      BY <3>8, WalkSteps
    <3>. QED BY <1>1, <3>1, <3>2, <3>3, <3>4, <3>5, <3>6, <3>7, <3>8 DEF HostCall, HostStep
  <2>. QED BY <2>1, <2>2 DEF Inv
<1>2. ASSUME NEW i \in Devices, DeviceStep(i) PROVE Inv'
  <2>1. Typed'
    BY <1>2, DeviceTyped DEF Inv
  <2>2. HostInv' /\ (\A j \in Devices : DeviceInv(j)') /\ PartsAreOfTheRequest'
    <3>1. CASE Initialize(i) \/ NotifyStarted(i)
      BY <3>1, WalkSteps
    <3>2. CASE Pop(i)
      BY <3>2, PopKeeps
    <3>3. CASE Complete(i)
      BY <3>3, CompleteKeeps
    <3>. QED BY <1>2, <3>1, <3>2, <3>3 DEF DeviceStep
  <2>. QED BY <2>1, <2>2 DEF Inv
<1>3. CASE UNCHANGED vars
  <2>1. Typed'
    BY <1>3 DEF Inv, Typed, vars, batchVars, deviceVars
  <2>2. HostInv' /\ PartsAreOfTheRequest'
    BY <1>3 DEF Inv, HostInv, Ascending, IdsOf, PartsAreOfTheRequest, HasRefused,
                vars, batchVars, deviceVars
  <2>3. ASSUME NEW i \in Devices PROVE DeviceInv(i)'
    <3>1. /\ queue'[i] = queue[i] /\ results'[i] = results[i] /\ served'[i] = served[i]
          /\ Doing(i)' = Doing(i) /\ Due(i)' = Due(i)
          /\ StopSent(i) => StopSent(i)'
          /\ Stopped(i) => Stopped(i)'
          /\ NotStarted(i)' => NotStarted(i)
          /\ thread' = thread
      BY <1>3 DEF Doing, Due, StopSent, Stopped, NotStarted, vars, batchVars, deviceVars
    <3>. QED BY <3>1, DeviceKept DEF Inv, DeviceInv
  <2>. QED BY <2>1, <2>2, <2>3 DEF Inv
<1>. QED
  BY <1>1, <1>2, <1>3 DEF Next, Over

LEMMA Invariance == Spec => []Inv
<1>1. Init => Inv
  BY InvAtFirst
<1>2. Inv /\ [Next]_vars => Inv'
  BY InvKept
<1>. QED
  BY <1>1, <1>2, PTL DEF Spec

\* CudaDevice::getResult and CudaDb::getResult: a result carries no name of
\* its request, and the host takes from each device whatever comes first.  It
\* is always a result of the request the host has taken from its own queue,
\* for any number of devices, as long as the device has refused no request.
THEOREM PartsOfRequest == Spec => []PartsAreOfTheRequest
<1>1. Inv => PartsAreOfTheRequest
  BY DEF Inv
<1>. QED
  BY <1>1, Invariance, PTL

\* The host's own queue (CudaDb::queue) has room for as many requests as each
\* of a device's queues: so CudaDevice::push and the push of a result never
\* wait, and the host and a device never wait for each other.
THEOREM RoomForAll == Spec => []DevicesHaveRoom
<1>1. ASSUME Inv PROVE DevicesHaveRoom
  <2>0. /\ Typed /\ HostInv /\ own \in Seq(Numbered) /\ QueueSize \in Nat /\ QueueSize >= 1
        /\ host.at \in Devices /\ Len(own) <= QueueSize /\ Len(own) \in Nat
        /\ \A i \in Devices : DeviceInv(i)
    BY GpuAssumption, <1>1 DEF Inv, Typed, HostInv
  <2>. DEFINE owed == IdsOf(own, ForDevices)
  <2>1. IsFiniteSet(owed) /\ Cardinality(owed) \in Nat /\ Cardinality(owed) <= Len(own)
    BY <2>0, CountedIds
  <2>. HIDE DEF owed
  <2>2. ASSUME host.pc = "deal" PROVE ~Full(queue[host.at])
    <3>1. PICK d \in Devices : d = host.at
      BY <2>0
    <3>2. request.id \in owed /\ Due(d) = owed \ {request.id}
      <4>1. d >= host.at
        BY <3>1 DEF Devices
      <4>. QED BY <2>0, <2>2, <4>1 DEF HostInv, Due, owed
    <3>3. /\ IsFiniteSet(Due(d)) /\ Cardinality(Due(d)) = Cardinality(owed) - 1
      <4>1. /\ IsFiniteSet(owed \ {request.id})
            /\ Cardinality(owed \ {request.id}) = Cardinality(owed) - 1
        BY <2>1, <3>2, FS_RemoveElement
      <4>. QED BY <3>2, <4>1
    <3>4. ToDo(d) \subseteq Due(d) /\ Ascending(queue[d], Numbered)
      BY <2>0 DEF DeviceInv
    <3>5. Cardinality(ToDo(d)) <= Cardinality(Due(d))
      BY <3>3, <3>4, FS_Subset
    <3>6. queue[d] \in Seq(Numbered)
      <4>1. queue[d] \in Seq(Numbered \cup {Stop})
        BY <2>0 DEF Typed
      <4>2. \A k \in DOMAIN queue[d] : queue[d][k] # Stop
        BY <1>1, <2>0, <2>2, UpAndRunning DEF DeviceInv
      <4>. QED BY <4>1, <4>2
    <3>7. Cardinality(ToDo(d)) = Len(queue[d]) /\ Len(queue[d]) \in Nat
      <4>1. \A e \in Numbered : e.id \in Nat
        BY RequestFields
      <4>. QED BY <3>4, <3>6, <4>1, CountedIds DEF ToDo
    <3>. QED BY <2>0, <2>1, <2>2, <3>1, <3>3, <3>5, <3>7 DEF Full
  <2>3. ASSUME host.pc = "stop" PROVE ~Full(queue[host.at])
    <3>1. PICK d \in Devices : d = host.at
      BY <2>0
    <3>2. ~StopSent(d)
      BY <2>3 DEF StopSent, At
    <3>3. \A k \in DOMAIN queue[d] : FALSE
      BY <1>1, <2>0, <2>3, <3>2, Empty DEF DeviceInv
    <3>4. queue[d] \in Seq(Numbered \cup {Stop})
      BY <2>0 DEF Typed
    <3>5. Len(queue[d]) = 0
      <4>1. \A s \in Seq(Numbered \cup {Stop}) : DOMAIN s = {} => s = <<>>
        OBVIOUS
      <4>2. queue[d] = <<>>
        BY <3>3, <3>4, <4>1
      <4>. QED BY <4>2
    <3>. QED BY <2>0, <3>1, <3>5 DEF Full
  <2>4. ASSUME NEW i \in Devices, thread[i] = "busy" PROVE ~Full(results[i])
    <3>. DEFINE w == work[i].id
    <3>1. Doing(i) = {w} /\ Done(i) \cup {w} \subseteq Due(i) /\ Ascending(results[i], Result)
      BY <2>0, <2>4 DEF Doing, DeviceInv
    <3>2. w \notin Done(i)
      <4>1. \A x \in Done(i) : x \in Nat /\ x < w
        BY <2>0, <3>1, DeviceIds DEF DeviceInv
      <4>2. w \in Nat
        BY <2>0, <3>1, DeviceIds
      <4>. QED BY <4>1, <4>2
    <3>. HIDE DEF w
    <3>3. /\ IsFiniteSet(Done(i)) /\ Cardinality(Done(i)) = Len(results[i])
          /\ Len(results[i]) \in Nat
      <4>1. results[i] \in Seq(Result) /\ \A e \in Result : e.id \in Nat
        BY <2>0, DeviceIds
      <4>. QED BY <3>1, <4>1, CountedIds DEF Done
    <3>4. Cardinality(Done(i) \cup {w}) = Len(results[i]) + 1
      BY <3>2, <3>3, FS_AddElement
    <3>5. IsFiniteSet(Due(i)) /\ Cardinality(Due(i)) \in Nat /\ Cardinality(Due(i)) <= QueueSize
      <4>1. CASE host.pc = "deal" /\ i >= host.at
        <5>1. Due(i) \subseteq owed
          BY <4>1 DEF Due, owed
        <5>. QED BY <2>0, <2>1, <5>1, FS_Subset, FS_CardinalityType
      <4>2. CASE ~(host.pc = "deal" /\ i >= host.at) /\ host.pc = "take" /\ i >= host.at
        <5>1. Due(i) = owed \cup {answer.request.id}
          BY <4>2 DEF Due, owed
        <5>2. \A x : /\ IsFiniteSet(owed \cup {x})
                     /\ \/ Cardinality(owed \cup {x}) = Cardinality(owed)
                        \/ Cardinality(owed \cup {x}) = Cardinality(owed) + 1
          BY <2>1, FS_AddElement
        <5>3. /\ IsFiniteSet(Due(i))
              /\ \/ Cardinality(Due(i)) = Cardinality(owed)
                 \/ Cardinality(Due(i)) = Cardinality(owed) + 1
          BY <5>1, <5>2
        <5>4. Len(own) < QueueSize
          BY <2>0, <4>2 DEF HostInv
        <5>. QED BY <2>0, <2>1, <5>3, <5>4
      <4>3. CASE ~(host.pc \in {"deal", "take"} /\ i >= host.at)
        <5>1. Due(i) = owed
          BY <4>3 DEF Due, owed
        <5>. QED BY <2>0, <2>1, <5>1
      <4>. QED BY <4>1, <4>2, <4>3
    <3>6. Cardinality(Done(i) \cup {w}) <= Cardinality(Due(i))
      BY <3>1, <3>5, FS_Subset
    <3>. QED BY <2>0, <3>3, <3>4, <3>5, <3>6 DEF Full
  <2>. QED BY <2>2, <2>3, <2>4 DEF DevicesHaveRoom
<1>. QED
  BY <1>1, Invariance, PTL

\* CudaDb::stop leaves no request and no result in any queue that the devices
\* of the next start(), or the next getResult, could take for another one's.
THEOREM NothingLeft == Spec => []NothingLeftBehind
<1>1. Inv => NothingLeftBehind
  BY Empty DEF NothingLeftBehind
<1>. QED
  BY <1>1, Invariance, PTL

-----------------------------------------------------------------------------
\* Every nonempty set of natural numbers has a least one.
LEMMA LeastOf ==
  ASSUME NEW T \in SUBSET Nat, T # {}
  PROVE  \E x \in T : \A y \in T : x <= y
<1> DEFINE R == OpToRel(<, Nat)
<1>1. IsWellFoundedOn(R, Nat)
  BY NatLessThanWellFounded
<1>2. \A x \in Nat, y \in Nat : y < x => <<y, x>> \in R
  BY DEF OpToRel
<1>. HIDE DEF R
<1>3. PICK x \in T : \A y \in T : ~(<<y, x>> \in R)
  BY <1>1, WFMin
<1>4. \A y \in T : ~(y < x)
  BY <1>2, <1>3
<1>. QED
  BY <1>4

\* Induction, for a set of natural numbers.
LEMMA AllNat ==
  ASSUME NEW T, 0 \in T, \A n \in Nat : n \in T => n + 1 \in T
  PROVE  Nat \subseteq T
<1> DEFINE B == Nat \ T
<1>1. SUFFICES ASSUME B # {} PROVE FALSE
  OBVIOUS
<1>2. PICK x \in B : \A y \in B : x <= y
  BY <1>1, LeastOf
<1>3. x # 0 /\ x - 1 \in Nat /\ x - 1 \notin B
  BY <1>2
<1>4. (x - 1) + 1 \in T
  BY <1>3
<1>. QED
  BY <1>4, <1>2

\* A sequence is cut at the places c, and its pieces are joined again.
LEMMA Cuts ==
  ASSUME NEW S, NEW s \in Seq(S), NEW N \in Nat \ {0}, NEW c \in [0..N -> 0..Len(s)],
         c[0] = 0, \A i \in 1..N : c[i - 1] <= c[i],
         NEW p, p = [i \in 1..N |-> SubSeq(s, c[i - 1] + 1, c[i])]
  PROVE  FlattenSeq(p) = SubSeq(s, 1, c[N])
<1>. DEFINE F == [i \in 1..N |-> SubSeq(s, 1, c[i])]
            G(g) == [i \in 1..N |-> IF i = 1 THEN p[i] ELSE g[i - 1] \o p[i]]
            g == CHOOSE f : f = G(f)
<1>1. \A i \in 1..N : /\ i - 1 \in 0..N /\ i \in 0..N
                      /\ c[i] \in Nat /\ c[i] <= Len(s)
                      /\ c[i - 1] \in Nat /\ c[i - 1] <= c[i]
                      /\ c[1 - 1] = 0
  BY SMTT(20)
<1>2. ASSUME NEW a \in Nat, NEW b \in Nat, a <= b, b <= Len(s)
      PROVE  SubSeq(s, 1, a) \o SubSeq(s, a + 1, b) = SubSeq(s, 1, b)
  <2>. DEFINE u == SubSeq(s, 1, a)
              v == SubSeq(s, a + 1, b)
              w == SubSeq(s, 1, b)
  <2>1. /\ u \in Seq(S) /\ Len(u) = a /\ \A k \in 1..a : u[k] = s[k]
        /\ w \in Seq(S) /\ Len(w) = b /\ \A k \in 1..b : w[k] = s[k]
    BY <1>2
  <2>2. v \in Seq(S) /\ Len(v) = b - a /\ \A k \in 1..(b - a) : v[k] = s[a + k]
    BY <1>2
  <2>. HIDE DEF u, v, w
  <2>3. u \o v \in Seq(S) /\ Len(u \o v) = b
    <3>1. u \o v \in Seq(S) /\ Len(u \o v) = Len(u) + Len(v)
      <4>1. u \in Seq(S) /\ v \in Seq(S)
        BY <2>1, <2>2
      <4>. QED BY <4>1
    <3>. QED BY <1>2, <2>1, <2>2, <3>1
  <2>4. ASSUME NEW k \in 1..b PROVE (u \o v)[k] = w[k]
    <3>1. CASE k <= a
      <4>1. k \in 1..a /\ (u \o v)[k] = u[k]
        BY <1>2, <2>1, <2>2, <3>1
      <4>. QED BY <4>1, <2>1
    <3>2. CASE k > a
      <4>1. k - a \in 1..(b - a) /\ a + (k - a) = k
        BY <1>2, <3>2
      <4>2. (u \o v)[k] = IF k <= Len(u) THEN u[k] ELSE v[k - Len(u)]
        <5>1. k \in 1..(Len(u) + Len(v))
          BY <1>2, <2>1, <2>2
        <5>2. u \in Seq(S) /\ v \in Seq(S)
          BY <2>1, <2>2
        <5>. QED BY <5>1, <5>2
      <4>3. (u \o v)[k] = v[k - a]
        BY <4>2, <3>2, <2>1, <1>2
      <4>4. v[k - a] = s[a + (k - a)]
        BY <4>1, <2>2
      <4>5. w[k] = s[k]
        BY <2>1
      <4>6. (u \o v)[k] = s[k]
        BY <4>3, <4>4, <4>1
      <4>. QED BY <4>5, <4>6
    <3>3. k <= a \/ k > a
      BY <1>2
    <3>. QED BY <3>1, <3>2, <3>3, Zenon
  <2>5. u \o v = w
    BY <2>1, <2>3, <2>4, SeqEqual
  <2>. QED BY <2>5 DEF u, v, w
<1>3. \A i \in 1..N : i # 1 => F[i - 1] \o p[i] = F[i] /\ i - 1 \in 1..N
  <2>. TAKE i \in 1..N
  <2>1. HAVE i # 1
  <2>2. i - 1 \in 1..N
    BY <2>1
  <2>3. F[i - 1] = SubSeq(s, 1, c[i - 1]) /\ p[i] = SubSeq(s, c[i - 1] + 1, c[i])
    BY <2>2
  <2>4. F[i] = SubSeq(s, 1, c[i])
    OBVIOUS
  <2>. QED BY <2>2, <2>3, <2>4, <1>1, <1>2
<1>4. 1 \in 1..N /\ F[1] = p[1]
  BY <1>1
<1>5. F = G(F)
  <2>. HIDE DEF F
  <2>1. \A i \in 1..N : F[i] = IF i = 1 THEN p[i] ELSE F[i - 1] \o p[i]
    BY <1>3, <1>4
  <2>2. F = [i \in 1..N |-> F[i]]
    BY DEF F
  <2>. QED BY <2>1, <2>2
<1>6. g = G(g)
  <2>. HIDE DEF F, G
  <2>. QED BY <1>5
<1>. DEFINE T == {n \in Nat : n + 1 \in 1..N => g[n + 1] = F[n + 1]}
<1>. HIDE DEF F
<1>7. \A i \in 1..N : g[i] = IF i = 1 THEN p[i] ELSE g[i - 1] \o p[i]
  <2>. HIDE DEF g
  <2>. QED BY <1>6
<1>. HIDE DEF g, G
<1>8. Nat \subseteq T
  <2>1. 0 \in T
    <3>1. g[1] = p[1]
      BY <1>4, <1>7
    <3>2. g[1] = F[1]
      BY <3>1, <1>4
    <3>. QED BY <3>2
  <2>2. ASSUME NEW n \in Nat, n \in T PROVE n + 1 \in T
    <3>0. n + 1 \in Nat /\ (n + 1) + 1 = n + 2
      OBVIOUS
    <3>. SUFFICES ASSUME n + 2 \in 1..N PROVE g[n + 2] = F[n + 2]
      BY <3>0
    <3>1. n + 1 \in 1..N /\ n + 2 # 1 /\ (n + 2) - 1 = n + 1
      OBVIOUS
    <3>2. g[n + 2] = g[n + 1] \o p[n + 2]
      BY <3>1, <1>7
    <3>3. F[n + 2] = F[n + 1] \o p[n + 2]
      BY <3>1, <1>3
    <3>. QED BY <2>2, <3>1, <3>2, <3>3
  <2>. HIDE DEF T
  <2>. QED BY <2>1, <2>2, AllNat
<1>9. g[N] = F[N]
  <2>1. N - 1 \in Nat /\ (N - 1) + 1 = N /\ (N - 1) + 1 \in 1..N
    OBVIOUS
  <2>. HIDE DEF g, F
  <2>2. g[(N - 1) + 1] = F[(N - 1) + 1]
    BY <2>1, <1>8
  <2>. QED BY <2>1, <2>2
<1>10. Len(p) = N
  OBVIOUS
<1>11. FlattenSeq(p) = g[N]
  BY <1>10 DEF FlattenSeq, g, G
<1>. QED
  <2>1. N \in 1..N
    OBVIOUS
  <2>2. F[N] = SubSeq(s, 1, c[N])
    BY <2>1 DEF F
  <2>. QED BY <2>2, <1>9, <1>11

\* Products of natural numbers are monotone.
LEMMA Times ==
  ASSUME NEW n \in Nat, NEW i \in Nat, NEW j \in Nat, i <= j
  PROVE  n * i \in Nat /\ n * i <= n * j
<1>1. n * j - n * i = n * (j - i)
  OBVIOUS
<1>2. j - i \in Nat /\ n * (j - i) \in Nat /\ n * i \in Nat
  OBVIOUS
<1>. QED
  BY <1>1, <1>2

\* What is left over when m things are given in equal shares to N.
LEMMA Shares ==
  ASSUME NEW N \in Nat \ {0}, NEW m \in Nat
  PROVE  /\ m \div N \in Nat /\ m - (m % N) \in Nat
         /\ (m \div N) * N = m - (m % N) /\ m - (m % N) <= m
  OBVIOUS

\* How many of the blocks that meet a query lie before b.
LEMMA CountsBefore ==
  ASSUME NEW q \in Queries
  PROVE  /\ \A b : Before(q, b) \in 0..Len(Hits[q])
         /\ Before(q, 0) = 0
         /\ \A b \in Nat, c \in Nat : b <= c => Before(q, b) <= Before(q, c)
<1>. DEFINE h == Hits[q]
            ks(b) == {k \in DOMAIN h : h[k] < b}
<1>1. h \in Seq(0..(NumBlocks - 1)) /\ NumBlocks \in Nat
  BY GpuAssumption
<1>2. Len(h) \in Nat /\ DOMAIN h = 1..Len(h) /\ \A k \in DOMAIN h : h[k] \in Nat
  BY <1>1
<1>. HIDE DEF h
<1>3. IsFiniteSet(1..Len(h)) /\ Cardinality(1..Len(h)) = Len(h)
  <2>1. \A m \in Nat : IsFiniteSet(1..m) /\ Cardinality(1..m) = IF 1 > m THEN 0 ELSE m - 1 + 1
    BY FS_Interval
  <2>2. \A m \in Nat : (IF 1 > m THEN 0 ELSE m - 1 + 1) = m
    OBVIOUS
  <2>. QED BY <2>1, <2>2, <1>2
<1>4. ASSUME NEW b
      PROVE  IsFiniteSet(ks(b)) /\ Cardinality(ks(b)) \in Nat /\ Cardinality(ks(b)) <= Len(h)
  <2>1. ks(b) \subseteq 1..Len(h)
    BY <1>2
  <2>. HIDE DEF ks
  <2>. QED BY <2>1, <1>3, FS_Subset, FS_CardinalityType
<1>5. ks(0) = {}
  BY <1>2
<1>6. ASSUME NEW b \in Nat, NEW c \in Nat, b <= c PROVE Cardinality(ks(b)) <= Cardinality(ks(c))
  <2>1. ks(b) \subseteq ks(c)
    BY <1>2, <1>6
  <2>2. IsFiniteSet(ks(c))
    BY <1>4
  <2>. HIDE DEF ks
  <2>. QED BY <2>1, <2>2, FS_Subset
<1>7. \A b : Before(q, b) = Cardinality(ks(b))
  BY DEF Before, h
<1>. HIDE DEF ks
<1>8. Before(q, 0) = 0
  BY <1>5, <1>7, FS_EmptySet
<1>9. \A b : Before(q, b) \in 0..Len(h)
  BY <1>2, <1>4, <1>7
<1>10. \A b \in Nat, c \in Nat : b <= c => Before(q, b) <= Before(q, c)
  BY <1>6, <1>7
<1>. QED
  BY <1>8, <1>9, <1>10 DEF h

\* What the devices are dealt is cut from the blocks that meet the query, one
\* piece behind the other, and makes up all that are to be expected.
LEMMA DealtMakesAll ==
  ASSUME NEW r \in Numbered
  PROVE  /\ \A i \in Devices : Dealt(r, i) \in Seq(0..(NumBlocks - 1))
         /\ FlattenSeq([i \in Devices |-> Dealt(r, i)]) = Expected(r)
<1>. DEFINE h == Hits[r.query]
            N == NumDevices
            S == 0..(NumBlocks - 1)
<1>1. /\ N \in Nat \ {0} /\ NumBlocks \in Nat /\ r.query \in Queries /\ h \in Seq(S)
      /\ Len(h) \in Nat
  BY GpuAssumption, RequestFields
<1>2. ASSUME NEW c \in [0..N -> 0..Len(h)], c[0] = 0, \A i \in 1..N : c[i - 1] <= c[i],
             \A i \in 1..N : Dealt(r, i) = SubSeq(h, c[i - 1] + 1, c[i]),
             Expected(r) = SubSeq(h, 1, c[N])
      PROVE  /\ \A i \in Devices : Dealt(r, i) \in Seq(S)
             /\ FlattenSeq([i \in Devices |-> Dealt(r, i)]) = Expected(r)
  <2>. DEFINE p == [i \in 1..N |-> SubSeq(h, c[i - 1] + 1, c[i])]
  <2>1. p = [i \in Devices |-> Dealt(r, i)]
    BY <1>2 DEF Devices
  <2>2. ASSUME NEW i \in 1..N PROVE SubSeq(h, c[i - 1] + 1, c[i]) \in Seq(S)
    <3>1. i - 1 \in 0..N /\ i \in 0..N
      BY <1>1
    <3>. HIDE DEF h, S, N
    <3>2. c[i - 1] \in 0..Len(h) /\ c[i] \in 0..Len(h)
      BY <3>1, <1>2
    <3>3. \A a, b \in 0..Len(h) : SubSeq(h, a + 1, b) \in Seq(S)
      BY <1>1
    <3>. QED BY <3>2, <3>3
  <2>3. FlattenSeq(p) = SubSeq(h, 1, c[N])
    <3>1. \A u : u = p => FlattenSeq(u) = SubSeq(h, 1, c[N])
      <4>. HIDE DEF h, S, N
      <4>. QED BY <1>1, <1>2, Cuts
    <3>. QED BY <3>1
  <2>. HIDE DEF p, h
  <2>. QED BY <2>1, <2>2, <2>3, <1>2 DEF Devices
<1>. HIDE DEF h, S
<1>3. CASE r.type = "RT_CUDA_PARTIAL"
  <2>. DEFINE n == Len(h) \div N
              c == [i \in 0..N |-> n * i]
  <2>1. n \in Nat /\ n * N = Len(h) - (Len(h) % N) /\ n * N <= Len(h)
    BY <1>1, Shares
  <2>2. \A i \in 1..N : Dealt(r, i) = SubSeq(h, n * (i - 1) + 1, n * i)
    BY <1>3 DEF Dealt, h
  <2>3. Expected(r) = SubSeq(h, 1, n * N)
    <3>1. Expected(r) = SubSeq(h, 1, Len(h) - (Len(h) % N))
      BY <1>3 DEF Expected, h
    <3>. QED BY <3>1, <2>1
  <2>. HIDE DEF n
  <2>4. \A i \in 0..N : n * i \in Nat /\ n * i <= n * N
    BY <2>1, <1>1, Times
  <2>5. \A i \in 1..N : n * (i - 1) <= n * i /\ i - 1 \in 0..N /\ i \in 0..N
    BY <2>1, <1>1, Times
  <2>6. c \in [0..N -> 0..Len(h)]
    <3>1. \A i \in 0..N : n * i \in 0..Len(h)
      <4>. TAKE i \in 0..N
      <4>. DEFINE x == n * i
                  y == n * N
      <4>1. x \in Nat /\ x <= y /\ y <= Len(h) /\ y \in Nat
        BY <2>1, <2>4, <1>1
      <4>. HIDE DEF x, y
      <4>2. x \in 0..Len(h)
        BY <4>1, <1>1
      <4>. QED BY <4>2 DEF x
    <3>. QED BY <3>1
  <2>7. c[0] = 0 /\ c[N] = n * N
    BY <1>1, <2>1
  <2>8. \A i \in 1..N : c[i - 1] = n * (i - 1) /\ c[i] = n * i
    BY <2>5
  <2>. HIDE DEF c
  <2>9. /\ \A i \in 1..N : c[i - 1] <= c[i]
        /\ \A i \in 1..N : Dealt(r, i) = SubSeq(h, c[i - 1] + 1, c[i])
        /\ Expected(r) = SubSeq(h, 1, c[N])
    BY <2>2, <2>3, <2>5, <2>7, <2>8
  <2>. QED BY <2>6, <2>7, <2>9, <1>2 DEF S
<1>4. CASE r.type # "RT_CUDA_PARTIAL"
  <2>. DEFINE P == NumBlocks \div N
              c == [i \in 0..N |-> Before(r.query, P * i)]
  <2>1. P \in Nat /\ P * N = NumBlocks - (NumBlocks % N) /\ P = PerDevice
    BY <1>1, Shares DEF PerDevice
  <2>2. \A i \in 1..N : Dealt(r, i) = SubSeq(h, Before(r.query, P * (i - 1)) + 1,
                                              Before(r.query, P * i))
    BY <2>1, <1>4 DEF Dealt, Between, h
  <2>. HIDE DEF P
  <2>3. Expected(r) = SubSeq(h, 1, Before(r.query, P * N))
    <3>1. Expected(r) = SubSeq(h, Before(r.query, 0) + 1,
                               Before(r.query, NumBlocks - (NumBlocks % N)))
      BY <1>4 DEF Expected, Between, h
    <3>2. Before(r.query, 0) = 0
      BY <1>1, CountsBefore
    <3>3. Before(r.query, 0) + 1 = 1
      <4>1. \A x : x = 0 => x + 1 = 1
        OBVIOUS
      <4>. QED BY <3>2, <4>1
    <3>. QED BY <3>1, <3>3, <2>1, Zenon
  <2>4. \A i \in 0..N : P * i \in Nat
    BY <2>1, <1>1, Times
  <2>5. \A i \in 1..N : /\ P * (i - 1) \in Nat /\ P * i \in Nat
                        /\ P * (i - 1) <= P * i /\ i - 1 \in 0..N /\ i \in 0..N
    BY <2>1, <1>1, Times
  <2>6. c \in [0..N -> 0..Len(h)]
    BY <1>1, CountsBefore DEF h
  <2>7. c[0] = 0 /\ c[N] = Before(r.query, P * N)
    <3>1. P * 0 = 0 /\ 0 \in 0..N /\ N \in 0..N
      BY <1>1, <2>1
    <3>2. Before(r.query, 0) = 0
      BY <1>1, CountsBefore
    <3>. QED BY <3>1, <3>2
  <2>8. \A i \in 1..N : /\ c[i - 1] = Before(r.query, P * (i - 1))
                        /\ c[i] = Before(r.query, P * i)
    BY <2>5
  <2>9. \A i \in 1..N : Before(r.query, P * (i - 1)) <= Before(r.query, P * i)
    BY <2>5, <1>1, CountsBefore
  <2>. HIDE DEF c
  <2>10. /\ \A i \in 1..N : c[i - 1] <= c[i]
         /\ \A i \in 1..N : Dealt(r, i) = SubSeq(h, c[i - 1] + 1, c[i])
         /\ Expected(r) = SubSeq(h, 1, c[N])
    BY <2>2, <2>3, <2>7, <2>8, <2>9
  <2>. QED BY <2>6, <2>7, <2>10, <1>2 DEF S
<1>. QED
  BY <1>3, <1>4

-----------------------------------------------------------------------------
\* The requests the host has, and the one whose answer it has or collects.
Known == {own[k] : k \in DOMAIN own} \cup ({answer.request} \ {Stop})

\* The older of them come first, and a request being dealt out is one of them.
KnownInv ==
  /\ \A k \in DOMAIN own : answer.request # Stop => answer.request.id < own[k].id
  /\ answer.request # Stop => answer.request.id <= issued
  /\ host.pc = "deal" => request \in Known

\* All requests a device has ended with have their data at b, and are of the
\* two kinds that leave the blocks there ...
Only(i, b) ==
  \A s \in served[i] : /\ Base[s.query] = b
                       /\ InMemory(s.type) \/ s.type = "RT_CUDA_PARTIAL_IM"

\* ... and their ranges.
OnlyWithRanges(i, b) ==
  /\ Only(i, b)
  /\ \A s \in served[i] : s.type = "RT_CUDA_PARTIAL_IM" => ~ReachesRanges(Len(Dealt(s, i)))

Memory == [lastKeys : BOOLEAN, lastRanges : BOOLEAN,
           data : Nat \cup {NoBase}, ranges : Nat \cup {NoBase}]

\* Then lastKeys and lastRanges are to be trusted.
MemoryInv(i) ==
  \A q \in Queries :
    /\ Only(i, Base[q]) /\ memory[i].lastKeys => memory[i].data = Base[q]
    /\ OnlyWithRanges(i, Base[q]) /\ memory[i].lastRanges => memory[i].ranges = Base[q]

\* What a device is to do, does and has done is for the requests known, and a
\* result is what was asked for if the device's memory could be relied on.
AnswerInv(i) ==
  /\ \A k \in DOMAIN queue[i] : queue[i][k] \in Known \cup {Stop}
  /\ thread[i] = "busy" => work[i] \in Known
  /\ \A k \in DOMAIN results[i] : \A r \in Known :
       results[i][k].id = r.id /\ Reliable(r, i) => results[i][k].blocks = Dealt(r, i)
  /\ MemoryInv(i)

\* So is each part of the answer.
PartsInv ==
  /\ answer.parts # <<>> => answer.request \in ForDevices
  /\ \A k \in DOMAIN answer.parts :
       HasRefused(k) \/ (Reliable(answer.request, k) =>
                           answer.parts[k].blocks = Dealt(answer.request, k))

AllInv ==
  /\ Inv /\ KnownInv /\ PartsInv /\ memory \in [Devices -> Memory]
  /\ \A i \in Devices : AnswerInv(i)


\* Known requests are told apart by their numbers.
LEMMA KnownRequests ==
  ASSUME Typed, HostInv, KnownInv
  PROVE  /\ Known \subseteq Numbered
         /\ \A r \in Known : r.id \in Nat /\ r.id <= issued /\ r # Stop
         /\ \A r \in Known, s \in Known : r.id = s.id => r = s
<1>1. /\ own \in Seq(Numbered) /\ answer.request \in Numbered \cup {Stop} /\ issued \in Nat
      /\ \A k \in DOMAIN own : own[k] \in Numbered /\ own[k].id \in IdsOf(own, Numbered)
      /\ Len(own) \in Nat /\ DOMAIN own = 1..Len(own)
  BY DEF Typed, IdsOf
<1>2. Known \subseteq Numbered
  BY <1>1 DEF Known
<1>3. \A r \in Known : r.id \in Nat /\ r.id <= issued /\ r # Stop
  BY <1>1, <1>2, RequestFields DEF Known, KnownInv, HostInv
<1>4. \A k, l \in DOMAIN own : own[k].id = own[l].id => k = l
  <2>. SUFFICES ASSUME NEW k \in DOMAIN own, NEW l \in DOMAIN own,
                       own[k].id = own[l].id, k # l
                PROVE  FALSE
    OBVIOUS
  <2>1. k < l \/ l < k
    BY <1>1
  <2>2. own[k].id < own[l].id \/ own[l].id < own[k].id
    BY <2>1, <1>1 DEF HostInv, Ascending
  <2>3. own[k].id \in Nat /\ own[l].id \in Nat
    BY <1>1, RequestFields
  <2>. QED BY <2>2, <2>3
<1>5. ASSUME NEW r \in Known, NEW s \in Known, r.id = s.id PROVE r = s
  <2>1. \A k \in DOMAIN own : own[k] \in Known /\ own[k].id \in Nat
    BY <1>1, RequestFields DEF Known
  <2>2. CASE r = answer.request /\ s = answer.request
    BY <2>2
  <2>3. CASE r = answer.request /\ \E k \in DOMAIN own : s = own[k]
    <3>1. r # Stop /\ r.id \in Nat
      BY <1>3
    <3>. QED BY <3>1, <2>1, <2>3, <1>5 DEF KnownInv
  <2>4. CASE s = answer.request /\ \E k \in DOMAIN own : r = own[k]
    <3>1. s # Stop /\ s.id \in Nat
      BY <1>3
    <3>. QED BY <3>1, <2>1, <2>4, <1>5 DEF KnownInv
  <2>5. CASE (\E k \in DOMAIN own : r = own[k]) /\ \E k \in DOMAIN own : s = own[k]
    BY <2>5, <1>4, <1>5
  <2>. QED BY <2>2, <2>3, <2>4, <2>5 DEF Known
<1>. QED
  BY <1>2, <1>3, <1>5

\* More requests served: less to rely on, and a refusal is not forgotten.
LEMMA MoreServed ==
  ASSUME NEW i, NEW r, served[i] \subseteq served'[i]
  PROVE  /\ Reliable(r, i)' => Reliable(r, i)
         /\ HasRefused(i) => HasRefused(i)'
  BY DEF Reliable, HasRefused

\* What a device has stays for known requests when its queues, what it is at
\* and its memory stay.
LEMMA AnswerKept ==
  ASSUME NEW i \in Devices, AnswerInv(i), Known' = Known,
         queue'[i] = queue[i], results'[i] = results[i], served'[i] = served[i],
         memory'[i] = memory[i],
         thread'[i] = "busy" => thread[i] = "busy" /\ work'[i] = work[i]
  PROVE  AnswerInv(i)'
<1>1. MemoryInv(i)'
  BY DEF AnswerInv, MemoryInv, Only, OnlyWithRanges
<1>2. \A r : Reliable(r, i)' <=> Reliable(r, i)
  BY DEF Reliable
<1>. QED
  BY <1>1, <1>2 DEF AnswerInv

\* The parts stay right while the answer stays and the devices go on.
LEMMA PartsKept ==
  ASSUME Typed, HostInv, PartsInv, answer' = answer,
         \A i \in Devices : served[i] \subseteq served'[i]
  PROVE  PartsInv'
<1>1. DOMAIN answer.parts \subseteq Devices
  <2>1. answer.parts \in Seq(Result) /\ Len(answer.parts) <= NumDevices /\ NumDevices \in Nat
    BY GpuAssumption DEF Typed, HostInv
  <2>. QED BY <2>1 DEF Devices
<1>2. \A k \in Devices : /\ Reliable(answer.request, k)' => Reliable(answer.request, k)
                         /\ HasRefused(k) => HasRefused(k)'
  <2>. TAKE k \in Devices
  <2>1. Reliable(answer.request, k)' => Reliable(answer.request, k)
    BY DEF Reliable
  <2>. QED BY <2>1, MoreServed
<1>3. ASSUME NEW k \in DOMAIN answer.parts
      PROVE  HasRefused(k)' \/ (Reliable(answer.request, k)' =>
                                  answer'.parts[k].blocks = Dealt(answer'.request, k))
  BY <1>1, <1>2 DEF PartsInv
<1>. QED
  BY <1>3 DEF PartsInv

\* Steps that leave the requests, the queues and the memories alone.
LEMMA QuietSteps ==
  ASSUME AllInv,
         \/ StartDevice \/ WaitUntilStarted \/ Wake \/ StopAll \/ Join
         \/ \E n \in 1..MaxBatch : BeginBatch(n)
         \/ \E i \in Devices : NotifyStarted(i) \/ Initialize(i)
         \/ UNCHANGED vars
  PROVE  /\ KnownInv' /\ PartsInv' /\ memory' \in [Devices -> Memory]
         /\ \A i \in Devices : AnswerInv(i)'
<1>1. /\ UNCHANGED <<issued, own, request, answer, queue, results, work, memory, served>>
      /\ host'.pc = "deal" => host.pc = "deal"
      /\ \A i \in Devices : thread'[i] = "busy" => thread[i] = "busy"
  <2>1. CASE StartDevice
    <3>1. host' = NextDevice(host.at, "start", "wait")
      BY <2>1 DEF StartDevice
    <3>2. host'.pc # "deal"
      BY <3>1 DEF NextDevice, At
    <3>. QED BY <2>1, <3>2 DEF StartDevice, batchVars, AllInv, Inv, Typed
  <2>2. CASE WaitUntilStarted
    BY <2>2 DEF WaitUntilStarted, batchVars, deviceVars, NextDevice, At
  <2>3. CASE Wake
    BY <2>3 DEF Wake, batchVars, deviceVars, NextDevice, At
  <2>4. CASE StopAll
    BY <2>4 DEF StopAll, batchVars, deviceVars, At
  <2>5. CASE Join
    BY <2>5 DEF Join, batchVars, deviceVars, NextDevice, At
  <2>6. ASSUME NEW n \in 1..MaxBatch, BeginBatch(n)
        PROVE  /\ UNCHANGED <<issued, own, request, answer, queue, results, work, memory, served>>
               /\ host' = host /\ thread' = thread
    BY <2>6 DEF BeginBatch, deviceVars
  <2>7. ASSUME NEW i \in Devices, NotifyStarted(i) \/ Initialize(i)
        PROVE  /\ UNCHANGED <<issued, own, request, answer, queue, results, work, memory, served>>
               /\ host'.pc = "deal" => host.pc = "deal"
               /\ \A j \in Devices : thread'[j] = "busy" => thread[j] = "busy"
    BY <2>7 DEF NotifyStarted, Initialize, batchVars, NextDevice, At, AllInv, Inv, Typed
  <2>8. CASE UNCHANGED vars
    BY <2>8 DEF vars, batchVars, deviceVars
  <2>. QED BY <2>1, <2>2, <2>3, <2>4, <2>5, <2>6, <2>7, <2>8
<1>2. Known' = Known
  BY <1>1 DEF Known
<1>3. KnownInv'
  BY <1>1, <1>2 DEF AllInv, KnownInv
<1>4. PartsInv'
  BY <1>1, PartsKept DEF AllInv, Inv
<1>5. \A i \in Devices : AnswerInv(i)'
  BY <1>1, <1>2, AnswerKept DEF AllInv
<1>. QED
  BY <1>1, <1>3, <1>4, <1>5 DEF AllInv

\* New devices have nothing, and the host has no request.
LEMMA StartAnswers ==
  ASSUME AllInv, Start
  PROVE  /\ KnownInv' /\ PartsInv' /\ memory' \in [Devices -> Memory]
         /\ \A i \in Devices : AnswerInv(i)'
<1>1. own = <<>> /\ own' = <<>> /\ DOMAIN own' = {}
  BY Empty DEF Start, AllInv
<1>2. answer' = [request |-> Stop, parts |-> <<>>] /\ host'.pc = "start"
  BY DEF Start, At
<1>3. Known' = {}
  BY <1>1, <1>2 DEF Known
<1>4. KnownInv' /\ PartsInv'
  BY <1>1, <1>2, <1>3 DEF KnownInv, PartsInv
<1>5. NoMemory \in Memory
  BY DEF NoMemory, Memory
<1>6. ASSUME NEW i \in Devices PROVE AnswerInv(i)'
  <2>1. /\ queue'[i] = <<>> /\ results'[i] = <<>> /\ thread'[i] = "off" /\ memory'[i] = NoMemory
    BY DEF Start
  <2>2. MemoryInv(i)'
    BY <2>1 DEF MemoryInv, NoMemory
  <2>. QED BY <2>1, <2>2 DEF AnswerInv
<1>. QED
  BY <1>4, <1>5, <1>6 DEF Start

\* No result is there yet for a new request.
LEMMA RequestAnswers ==
  ASSUME AllInv, NEW type \in Types, NEW q \in Queries, RequestQuery(type, q)
  PROVE  /\ KnownInv' /\ PartsInv' /\ memory' \in [Devices -> Memory]
         /\ \A i \in Devices : AnswerInv(i)'
<1>. DEFINE r == [id |-> issued + 1, type |-> type, query |-> q]
<1>1. /\ host.pc = "up" /\ own' = Append(own, r) /\ issued' = issued + 1 /\ request' = r
      /\ UNCHANGED <<answer, thread, queue, results, work, memory, served>>
      /\ issued \in Nat /\ own \in Seq(Numbered) /\ Typed /\ HostInv /\ KnownInv
      /\ r \in Numbered /\ r.id = issued + 1
  BY DEF RequestQuery, deviceVars, AllInv, Inv, Typed, Numbered
<1>. HIDE DEF r
<1>2. /\ DOMAIN own' = DOMAIN own \cup {Len(own) + 1} /\ own'[Len(own) + 1] = r
      /\ \A k \in DOMAIN own : own'[k] = own[k]
  BY <1>1
<1>3. Known' = Known \cup {r}
  BY <1>1, <1>2 DEF Known
<1>4. KnownInv'
  <2>1. answer.request # Stop => answer.request.id \in Nat
    BY <1>1, RequestFields DEF Typed
  <2>2. ASSUME NEW k \in DOMAIN own', answer'.request # Stop
        PROVE  answer'.request.id < own'[k].id
    BY <2>1, <2>2, <1>1, <1>2 DEF KnownInv
  <2>. QED BY <2>1, <2>2, <1>1, <1>3 DEF KnownInv
<1>5. PartsInv'
  BY <1>1, PartsKept DEF AllInv
<1>6. ASSUME NEW i \in Devices PROVE AnswerInv(i)'
  <2>1. \A k \in DOMAIN results[i] : results[i][k].id # r.id
    <3>. TAKE k \in DOMAIN results[i]
    <3>1. results[i][k].id \in Done(i)
      BY <1>1 DEF Typed, Done, IdsOf
    <3>2. Done(i) \subseteq IdsOf(own, ForDevices)
      BY <1>1 DEF AllInv, Inv, DeviceInv, Due
    <3>3. results[i][k].id \in Nat /\ results[i][k].id <= issued
      BY <3>1, <3>2, <1>1, OwnIds DEF HostInv
    <3>. QED BY <3>3, <1>1
  <2>2. AnswerInv(i)
    BY DEF AllInv
  <2>3. MemoryInv(i)'
    BY <2>2, <1>1 DEF AnswerInv, MemoryInv, Only, OnlyWithRanges
  <2>4. \A s : Reliable(s, i)' <=> Reliable(s, i)
    BY <1>1 DEF Reliable
  <2>. QED BY <2>1, <2>2, <2>3, <2>4, <1>1, <1>3 DEF AnswerInv
<1>. QED
  BY <1>1, <1>4, <1>5, <1>6 DEF AllInv

\* The host puts a known request, or Stop, into a device's queue.
LEMMA PushAnswers ==
  ASSUME AllInv, Deal \/ StopDevice
  PROVE  /\ KnownInv' /\ PartsInv' /\ memory' \in [Devices -> Memory]
         /\ \A i \in Devices : AnswerInv(i)'
<1>1. PICK d \in Devices : d = host.at
  BY DEF AllInv, Inv, Typed
<1>2. PICK e \in {request, Stop} :
        /\ queue' = [queue EXCEPT ![d] = Append(@, e)]
        /\ host.pc = "deal" \/ e = Stop
  BY <1>1 DEF Deal, StopDevice
<1>3. /\ UNCHANGED <<issued, own, request, answer, thread, results, work, memory, served>>
      /\ host'.pc = "deal" => host.pc = "deal"
      /\ Typed /\ KnownInv
  BY DEF Deal, StopDevice, batchVars, NextDevice, At, AllInv, Inv
<1>4. Known' = Known /\ e \in Known \cup {Stop}
  BY <1>2, <1>3 DEF Known, KnownInv
<1>5. KnownInv'
  BY <1>3, <1>4 DEF KnownInv
<1>6. PartsInv'
  BY <1>3, PartsKept DEF AllInv, Inv
<1>7. ASSUME NEW i \in Devices, i # d PROVE AnswerInv(i)'
  <2>1. queue'[i] = queue[i]
    BY <1>2, <1>3, <1>7 DEF Typed
  <2>. QED BY <2>1, <1>3, <1>4, AnswerKept DEF AllInv
<1>8. AnswerInv(d)'
  <2>1. AnswerInv(d) /\ queue'[d] = Append(queue[d], e) /\ queue[d] \in Seq(Numbered \cup {Stop})
    BY <1>2, <1>3 DEF AllInv, Typed
  <2>2. \A k \in DOMAIN queue'[d] : queue'[d][k] \in Known \cup {Stop}
    BY <2>1, <1>4 DEF AnswerInv
  <2>3. MemoryInv(d)'
    BY <2>1, <1>3 DEF AnswerInv, MemoryInv, Only, OnlyWithRanges
  <2>4. \A s : Reliable(s, d)' <=> Reliable(s, d)
    BY <1>3 DEF Reliable
  <2>. QED BY <2>1, <2>2, <2>3, <2>4, <1>3, <1>4 DEF AnswerInv
<1>. QED
  BY <1>3, <1>5, <1>6, <1>7, <1>8 DEF AllInv

\* The request that comes before the next answer is no longer known; no device
\* has it any more.
LEMMA GetResultAnswers ==
  ASSUME AllInv, GetResult, Inv'
  PROVE  /\ KnownInv' /\ PartsInv' /\ memory' \in [Devices -> Memory]
         /\ \A i \in Devices : AnswerInv(i)'
<1>. DEFINE r == Head(own)
<1>1. /\ host.pc = "up" /\ own # <<>> /\ host'.pc \in {"up", "take"}
      /\ own' = Tail(own) /\ answer' = [request |-> r, parts |-> <<>>]
      /\ UNCHANGED <<issued, request, thread, queue, results, work, memory, served>>
      /\ own \in Seq(Numbered) /\ Typed /\ HostInv /\ KnownInv
      /\ host'.pc = "take" => host'.at = 1
  BY DEF GetResult, deviceVars, At, AllInv, Inv, Typed
<1>2. /\ r = own[1] /\ 1 \in DOMAIN own /\ r \in Numbered /\ r # Stop /\ r.id \in Nat
      /\ \A k \in DOMAIN own' : k + 1 \in DOMAIN own /\ own'[k] = own[k + 1] /\ 1 < k + 1
  <2>1. r = own[1] /\ 1 \in DOMAIN own /\ r \in Numbered
    BY <1>1
  <2>2. Len(own) \in Nat /\ DOMAIN own = 1..Len(own) /\ DOMAIN own' = 1..(Len(own) - 1)
    BY <1>1
  <2>3. \A k \in DOMAIN own' : k + 1 \in DOMAIN own /\ own'[k] = own[k + 1] /\ 1 < k + 1
    BY <2>2, <1>1
  <2>. QED BY <2>1, <2>3, RequestFields
<1>. HIDE DEF r
<1>3. /\ Known' \subseteq Known /\ r \in Known
      /\ \A k \in DOMAIN own' : own'[k] \in Known'
      /\ r \in Known'
  BY <1>1, <1>2 DEF Known
<1>4. KnownInv'
  <2>1. \A k \in DOMAIN own' : r.id < own'[k].id
    BY <1>1, <1>2 DEF HostInv, Ascending
  <2>2. r.id <= issued'
    BY <1>1, <1>2 DEF HostInv, IdsOf
  <2>. QED BY <2>1, <2>2, <1>1 DEF KnownInv
<1>5. PartsInv'
  BY <1>1 DEF PartsInv
<1>6. ASSUME NEW i \in Devices PROVE AnswerInv(i)'
  <2>1. AnswerInv(i) /\ DeviceInv(i)'
    BY DEF AllInv, Inv
  <2>2. \A x \in Due(i)' : \E s \in Known' : s.id = x
    <3>1. Due(i)' \subseteq IdsOf(own', ForDevices) \cup {r.id}
      BY <1>1 DEF Due
    <3>2. \A x \in IdsOf(own', ForDevices) : \E s \in Known' : s.id = x
      BY <1>3 DEF IdsOf
    <3>. QED BY <3>1, <3>2, <1>3
  <2>3. ASSUME NEW e \in Known, e.id \in Due(i)' PROVE e \in Known'
    <3>1. PICK s \in Known' : s.id = e.id
      BY <2>2, <2>3
    <3>2. s = e
      BY <3>1, <1>1, <1>3, KnownRequests
    <3>. QED BY <3>1, <3>2
  <2>4. (Doing(i) \cup ToDo(i))' \subseteq Due(i)'
    BY <2>1 DEF DeviceInv
  <2>5. ASSUME NEW k \in DOMAIN queue'[i] PROVE queue'[i][k] \in Known' \cup {Stop}
    <3>1. queue'[i][k] \in Known \cup {Stop} /\ queue'[i] = queue[i]
      BY <2>1, <1>1 DEF AnswerInv
    <3>2. CASE queue'[i][k] \in Known
      <4>1. queue'[i][k] \in Numbered
        BY <3>2, <1>1, KnownRequests
      <4>2. queue'[i][k].id \in ToDo(i)'
        BY <4>1 DEF ToDo, IdsOf
      <4>. QED BY <4>2, <3>2, <2>3, <2>4
    <3>. QED BY <3>1, <3>2
  <2>6. thread'[i] = "busy" => work'[i] \in Known'
    <3>1. ASSUME thread'[i] = "busy" PROVE work'[i] \in Known'
      <4>1. work'[i] \in Known /\ work'[i].id \in Doing(i)'
        BY <3>1, <2>1, <1>1 DEF AnswerInv, Doing
      <4>. QED BY <4>1, <2>3, <2>4
    <3>. QED BY <3>1
  <2>7. MemoryInv(i)'
    BY <2>1, <1>1 DEF AnswerInv, MemoryInv, Only, OnlyWithRanges
  <2>8. \A s : Reliable(s, i)' <=> Reliable(s, i)
    BY <1>1 DEF Reliable
  <2>. QED BY <2>1, <2>5, <2>6, <2>7, <2>8, <1>1, <1>3 DEF AnswerInv
<1>. QED
  BY <1>1, <1>4, <1>5, <1>6 DEF AllInv

\* A part taken is the device's result for the request, if it has refused none.
LEMMA TakeResultAnswers ==
  ASSUME AllInv, TakeResult, Inv'
  PROVE  /\ KnownInv' /\ PartsInv' /\ memory' \in [Devices -> Memory]
         /\ \A i \in Devices : AnswerInv(i)'
<1>1. PICK d \in Devices : d = host.at
  BY DEF AllInv, Inv, Typed
<1>. DEFINE h == Head(results[d])
            r == answer.request
<1>2. /\ host.pc = "take" /\ results[d] # <<>> /\ Typed /\ HostInv /\ KnownInv
      /\ answer' = [answer EXCEPT !.parts = Append(@, h)]
      /\ results' = [results EXCEPT ![d] = Tail(@)]
      /\ host' = NextDevice(host.at, "take", "up")
      /\ UNCHANGED <<issued, own, request, thread, queue, work, memory, served>>
  BY <1>1 DEF TakeResult, AllInv, Inv
<1>3. /\ answer.parts \in Seq(Result) /\ h \in Result /\ results[d] \in Seq(Result)
      /\ answer'.request = r /\ answer'.parts = Append(answer.parts, h)
      /\ h = results[d][1] /\ 1 \in DOMAIN results[d]
  BY <1>2 DEF Typed
<1>4. r \in ForDevices /\ r # Stop /\ Len(answer.parts) = d - 1 /\ d \in Nat
  BY <1>1, <1>2, RequestFields, GpuAssumption DEF HostInv, Devices
<1>. HIDE DEF h, r
<1>5. Known' = Known /\ r \in Known
  BY <1>2, <1>3, <1>4 DEF Known, r
<1>6. host'.pc # "deal"
  BY <1>2 DEF NextDevice, At
<1>7. KnownInv'
  BY <1>2, <1>3, <1>5, <1>6 DEF KnownInv, r
<1>8. \A k : /\ Reliable(r, k)' <=> Reliable(r, k)
             /\ HasRefused(k)' <=> HasRefused(k)
  BY <1>2 DEF Reliable, HasRefused, r
<1>9. PartsInv'
  <2>1. ASSUME NEW k \in DOMAIN answer'.parts
        PROVE  HasRefused(k)' \/ (Reliable(answer.request, k)' =>
                                    answer'.parts[k].blocks = Dealt(answer'.request, k))
    <3>1. k \in 1..d
      BY <1>3, <1>4
    <3>2. Reliable(answer.request, k)' <=> Reliable(r, k)
      BY <1>2, <1>3 DEF Reliable
    <3>3. CASE k = d
      <4>1. answer'.parts[d] = h
        BY <1>3, <1>4
      <4>2. HasRefused(d)' \/ h.id = r.id
        <5>1. d \in DOMAIN answer'.parts
          BY <1>3, <1>4
        <5>. QED BY <5>1, <4>1, <1>3 DEF Inv, PartsAreOfTheRequest
      <4>3. h.id = r.id /\ Reliable(r, d) => h.blocks = Dealt(r, d)
        BY <1>3, <1>5 DEF AllInv, AnswerInv
      <4>. QED BY <3>2, <3>3, <4>1, <4>2, <4>3, <1>3
    <3>4. CASE k # d
      <4>1. k \in DOMAIN answer.parts /\ answer'.parts[k] = answer.parts[k]
        BY <3>1, <3>4, <1>3, <1>4
      <4>2. HasRefused(k) \/ (Reliable(r, k) => answer.parts[k].blocks = Dealt(r, k))
        BY <4>1 DEF AllInv, PartsInv, r
      <4>. QED BY <3>2, <4>1, <4>2, <1>3, <1>8
    <3>. QED BY <3>3, <3>4
  <2>. QED BY <2>1, <1>3, <1>4 DEF PartsInv
<1>10. ASSUME NEW i \in Devices PROVE AnswerInv(i)'
  <2>1. AnswerInv(i) /\ \A s : Reliable(s, i)' <=> Reliable(s, i)
    BY <1>2 DEF AllInv, Reliable
  <2>2. MemoryInv(i)'
    BY <2>1, <1>2 DEF AnswerInv, MemoryInv, Only, OnlyWithRanges
  <2>3. \A k \in DOMAIN results'[i] : \E l \in DOMAIN results[i] : results'[i][k] = results[i][l]
    <3>1. CASE i = d
      <4>1. results'[d] = Tail(results[d])
        BY <1>2 DEF Typed
      <4>2. \A s \in Seq(Result) : s # <<>> =>
              \A k \in DOMAIN Tail(s) : k + 1 \in DOMAIN s /\ Tail(s)[k] = s[k + 1]
        OBVIOUS
      <4>. QED BY <3>1, <4>1, <4>2, <1>2, <1>3
    <3>2. CASE i # d
      BY <3>2, <1>2 DEF Typed
    <3>. QED BY <3>1, <3>2
  <2>. QED BY <2>1, <2>2, <2>3, <1>2, <1>5 DEF AnswerInv
<1>. QED
  BY <1>2, <1>7, <1>9, <1>10 DEF AllInv


\* The request a device takes from its queue is a known one.
LEMMA PopAnswers ==
  ASSUME AllInv, NEW i \in Devices, Pop(i)
  PROVE  /\ KnownInv' /\ PartsInv' /\ memory' \in [Devices -> Memory]
         /\ \A j \in Devices : AnswerInv(j)'
<1>1. /\ thread[i] = "run" /\ queue[i] # <<>> /\ queue[i] \in Seq(Numbered \cup {Stop})
      /\ queue'[i] = Tail(queue[i])
      /\ UNCHANGED <<host, batchVars, results, memory, served>>
      /\ \A j \in Devices : j # i => /\ queue'[j] = queue[j] /\ work'[j] = work[j]
                                     /\ thread'[j] = thread[j]
      /\ Typed /\ KnownInv
  BY DEF Pop, AllInv, Inv, Typed
<1>2. Known' = Known
  BY <1>1 DEF Known, batchVars
<1>3. KnownInv'
  BY <1>1, <1>2 DEF KnownInv, batchVars
<1>4. PartsInv'
  BY <1>1, PartsKept DEF AllInv, Inv, batchVars
<1>5. ASSUME NEW j \in Devices, j # i PROVE AnswerInv(j)'
  BY <1>1, <1>2, <1>5, AnswerKept DEF AllInv
<1>6. AnswerInv(i)'
  <2>1. AnswerInv(i) /\ \A s : Reliable(s, i)' <=> Reliable(s, i)
    BY <1>1 DEF AllInv, Reliable
  <2>2. MemoryInv(i)'
    BY <2>1, <1>1 DEF AnswerInv, MemoryInv, Only, OnlyWithRanges
  <2>3. /\ Head(queue[i]) = queue[i][1] /\ 1 \in DOMAIN queue[i]
        /\ \A k \in DOMAIN queue'[i] : k + 1 \in DOMAIN queue[i] /\ queue'[i][k] = queue[i][k + 1]
    BY <1>1
  <2>4. thread'[i] = "busy" => work'[i] = Head(queue[i]) /\ Head(queue[i]) # Stop
    BY <1>1 DEF Pop, Typed
  <2>5. thread'[i] = "busy" => work'[i] \in Known
    BY <2>1, <2>3, <2>4 DEF AnswerInv
  <2>6. \A k \in DOMAIN queue'[i] : queue'[i][k] \in Known \cup {Stop}
    BY <2>1, <2>3 DEF AnswerInv
  <2>. QED BY <2>1, <2>2, <2>5, <2>6, <1>1, <1>2 DEF AnswerInv
<1>. QED
  BY <1>1, <1>3, <1>4, <1>5, <1>6 DEF AllInv

\* What each kind of request makes of a device's memory.
LEMMA MemoryKept ==
  ASSUME NEW m \in Memory, NEW r \in Numbered, NEW n
  PROVE  /\ MemoryAfter(m, r, n) \in Memory
         /\ InMemory(r.type) \/ r.type = "RT_CUDA_PARTIAL_IM" =>
              LET b == Base[r.query]
                  after == MemoryAfter(m, r, n)
              IN  /\ (m.lastKeys => m.data = b) => (after.lastKeys => after.data = b)
                  /\ /\ m.lastRanges => m.ranges = b
                     /\ r.type = "RT_CUDA_PARTIAL_IM" => ~ReachesRanges(n)
                     => (after.lastRanges => after.ranges = b)
                  /\ ~Refused(r) => after.lastKeys
                  /\ InMemory(r.type) => after.lastRanges
<1>. DEFINE b == Base[r.query]
            after == MemoryAfter(m, r, n)
<1>1. b \in Nat /\ r.type \in Types
  BY GpuAssumption, RequestFields
<1>2. /\ m.lastKeys \in BOOLEAN /\ m.lastRanges \in BOOLEAN
      /\ m.data \in Nat \cup {NoBase} /\ m.ranges \in Nat \cup {NoBase}
      /\ m = [lastKeys |-> m.lastKeys, lastRanges |-> m.lastRanges,
              data |-> m.data, ranges |-> m.ranges]
  BY DEF Memory
<1>3. \A a : KeptAt(a, b) \in {a, NoBase} /\ (a = b => KeptAt(a, b) = b)
  BY DEF KeptAt
<1>. HIDE DEF b
<1>4. /\ AfterComplete(m, b) \in Memory /\ AfterPartial(m, b, n) \in Memory
      /\ AfterInMemory(m, b) \in Memory /\ AfterPartialInMemory(m, b, n) \in Memory
      /\ AfterRefusal(m, b) \in Memory
  BY <1>1, <1>2, <1>3 DEF Memory, AfterComplete, AfterPartial, AfterInMemory,
                          AfterPartialInMemory, AfterRefusal
<1>5. CASE r.type = "RT_CUDA"
  <2>1. after = AfterComplete(m, b)
    BY <1>5 DEF MemoryAfter, InMemory, Refused, b
  <2>. QED BY <1>4, <1>5, <2>1 DEF InMemory
<1>6. CASE r.type = "RT_CUDA_PARTIAL"
  <2>1. after = AfterPartial(m, b, n)
    BY <1>6 DEF MemoryAfter, InMemory, Refused, b
  <2>. QED BY <1>4, <1>6, <2>1 DEF InMemory
<1>7. CASE InMemory(r.type)
  <2>1. after = AfterInMemory(m, b) /\ r.type # "RT_CUDA_PARTIAL_IM"
    BY <1>7 DEF MemoryAfter, InMemory, Refused, b
  <2>2. after.lastKeys /\ after.lastRanges
    BY <2>1 DEF AfterInMemory
  <2>3. (m.lastKeys => m.data = b) => after.data = b
    BY <2>1, <1>3 DEF AfterInMemory
  <2>4. (m.lastRanges => m.ranges = b) => after.ranges = b
    BY <2>1, <1>3 DEF AfterInMemory
  <2>5. after \in Memory
    BY <2>1, <1>4
  <2>. HIDE DEF after
  <2>. QED BY <2>2, <2>3, <2>4, <2>5 DEF after, b
<1>8. CASE Refused(r)
  <2>1. after = AfterRefusal(m, b) /\ r.type = "RT_CUDA_PARTIAL_IM" /\ ~InMemory(r.type)
    BY <1>8 DEF MemoryAfter, InMemory, Refused, b
  <2>2. /\ after.lastKeys = m.lastKeys /\ after.lastRanges = m.lastRanges
        /\ m.data = b => after.data = b
        /\ m.ranges = b => after.ranges = b
    BY <2>1, <1>2, <1>3 DEF AfterRefusal
  <2>3. after \in Memory
    BY <2>1, <1>4
  <2>. HIDE DEF after
  <2>. QED BY <2>1, <2>2, <2>3, <1>8 DEF after, b
<1>9. CASE r.type \notin {"RT_CUDA", "RT_CUDA_PARTIAL"} /\ ~InMemory(r.type) /\ ~Refused(r)
  <2>1. after = AfterPartialInMemory(m, b, n)
    BY <1>9 DEF MemoryAfter, b
  <2>2. /\ after.lastKeys /\ after.lastRanges = m.lastRanges
        /\ (m.lastKeys => m.data = b) => after.data = b
        /\ ~ReachesRanges(n) /\ m.ranges = b => after.ranges = b
    BY <2>1, <1>2, <1>3 DEF AfterPartialInMemory
  <2>3. after \in Memory
    BY <2>1, <1>4
  <2>. HIDE DEF after
  <2>. QED BY <2>2, <2>3, <1>9 DEF after, b
<1>. QED
  BY <1>5, <1>6, <1>7, <1>8, <1>9

\* A request that relies on the caches finds in them what it needs.
LEMMA CompleteAnswers ==
  ASSUME AllInv, NEW i \in Devices, Complete(i)
  PROVE  /\ KnownInv' /\ PartsInv' /\ memory' \in [Devices -> Memory]
         /\ \A j \in Devices : AnswerInv(j)'
<1>0. PICK r \in Known : r = work[i] /\ r \in Numbered
  BY DEF Complete, AllInv, Inv, Typed, AnswerInv
<1>. DEFINE n == Len(Dealt(r, i))
            m == memory[i]
            after == MemoryAfter(m, r, n)
            result == [id |-> r.id,
                       blocks |-> IF ReadsRight(after, r) THEN Dealt(r, i) ELSE Garbage]
            s == [type |-> r.type, query |-> r.query]
<1>1. /\ thread[i] = "busy"
      /\ memory' = [memory EXCEPT ![i] = after]
      /\ served' = [served EXCEPT ![i] = @ \cup {s}]
      /\ results' = results \/ results' = [results EXCEPT ![i] = Append(@, result)]
      /\ Refused(r) => results' = results
      /\ thread' = [thread EXCEPT ![i] = "run"] /\ work' = [work EXCEPT ![i] = Stop]
      /\ UNCHANGED <<host, batchVars, started, queue>>
      /\ Typed /\ HostInv /\ KnownInv /\ AnswerInv(i)
  BY <1>0 DEF Complete, AllInv, Inv
<1>2. m \in Memory /\ r.type \in Types /\ r.query \in Queries
  BY <1>0, RequestFields DEF AllInv
<1>3. /\ memory'[i] = after /\ served'[i] = served[i] \cup {s} /\ thread'[i] = "run"
      /\ queue'[i] = queue[i]
      /\ \A j \in Devices : j # i => /\ queue'[j] = queue[j] /\ results'[j] = results[j]
                                     /\ served'[j] = served[j] /\ memory'[j] = memory[j]
                                     /\ work'[j] = work[j] /\ thread'[j] = thread[j]
  BY <1>1 DEF AllInv, Typed
<1>4. Known' = Known
  BY <1>1 DEF Known, batchVars
<1>5. KnownInv'
  BY <1>1, <1>4 DEF KnownInv, batchVars
<1>6. PartsInv'
  <2>1. \A j \in Devices : served[j] \subseteq served'[j]
    BY <1>3
  <2>. QED BY <2>1, <1>1, PartsKept DEF AllInv, batchVars
<1>7. after \in Memory
  BY <1>0, <1>2, MemoryKept
<1>8. memory' \in [Devices -> Memory]
  BY <1>1, <1>7 DEF AllInv
<1>9. ASSUME NEW j \in Devices, j # i PROVE AnswerInv(j)'
  BY <1>3, <1>4, <1>9, AnswerKept DEF AllInv
<1>10. s.type = r.type /\ s.query = r.query /\ Dealt(s, i) = Dealt(r, i)
  BY DEF Dealt
<1>11. ASSUME NEW q \in Queries, Only(i, Base[q])'
       PROVE  /\ Only(i, Base[q]) /\ Base[r.query] = Base[q]
              /\ InMemory(r.type) \/ r.type = "RT_CUDA_PARTIAL_IM"
              /\ after.lastKeys => after.data = Base[q]
              /\ ~Refused(r) => after.lastKeys
              /\ InMemory(r.type) => after.lastRanges
  <2>1. Only(i, Base[q]) /\ Base[s.query] = Base[q]
        /\ (InMemory(s.type) \/ s.type = "RT_CUDA_PARTIAL_IM")
    <3>. HIDE DEF s
    <3>. QED BY <1>3, <1>11 DEF Only
  <2>2. m.lastKeys => m.data = Base[q]
    BY <2>1, <1>1 DEF AnswerInv, MemoryInv
  <2>. HIDE DEF after, m, n
  <2>3. /\ (m.lastKeys => m.data = Base[q]) => (after.lastKeys => after.data = Base[q])
        /\ ~Refused(r) => after.lastKeys
        /\ InMemory(r.type) => after.lastRanges
    BY <2>1, <1>0, <1>2, <1>10, MemoryKept DEF after
  <2>. QED BY <2>1, <2>2, <2>3, <1>10
<1>12. ASSUME NEW q \in Queries, OnlyWithRanges(i, Base[q])'
       PROVE  after.lastRanges => after.ranges = Base[q]
  <2>1. Only(i, Base[q])'
    BY <1>12 DEF OnlyWithRanges
  <2>2. OnlyWithRanges(i, Base[q]) /\ (s.type = "RT_CUDA_PARTIAL_IM" => ~ReachesRanges(Len(Dealt(s, i))))
    <3>1. Only(i, Base[q])
      BY <2>1, <1>11
    <3>. HIDE DEF s
    <3>. QED BY <3>1, <1>3, <1>12 DEF OnlyWithRanges
  <2>3. m.lastRanges => m.ranges = Base[q]
    BY <2>2, <1>1 DEF AnswerInv, MemoryInv
  <2>4. r.type = "RT_CUDA_PARTIAL_IM" => ~ReachesRanges(n)
    BY <2>2, <1>10
  <2>5. Base[r.query] = Base[q] /\ (InMemory(r.type) \/ r.type = "RT_CUDA_PARTIAL_IM")
    BY <2>1, <1>11
  <2>. HIDE DEF after, m, n, s
  <2>. QED BY <2>3, <2>4, <2>5, <1>0, <1>2, MemoryKept DEF after
<1>13. MemoryInv(i)'
  <2>. HIDE DEF after, m, n, s
  <2>. QED BY <1>3, <1>11, <1>12 DEF MemoryInv
<1>14. ASSUME Reliable(r, i)', ~Refused(r) PROVE result.blocks = Dealt(r, i)
  <2>1. ReadsRight(after, r)
    <3>1. CASE r.type \in {"RT_CUDA", "RT_CUDA_PARTIAL"}
      <4>. HIDE DEF after
      <4>. QED BY <3>1 DEF ReadsRight, InMemory
    <3>2. CASE r.type \notin {"RT_CUDA", "RT_CUDA_PARTIAL"}
      <4>1. \A t \in served'[i] : /\ Base[t.query] = Base[r.query]
                                  /\ InMemory(t.type) \/ t.type = "RT_CUDA_PARTIAL_IM"
                                  /\ (InMemory(r.type) /\ t.type = "RT_CUDA_PARTIAL_IM")
                                       => ~ReachesRanges(Len(Dealt(t, i)))
        BY <1>14, <3>2 DEF Reliable
      <4>2. Only(i, Base[r.query])'
        BY <4>1 DEF Only
      <4>3. InMemory(r.type) => OnlyWithRanges(i, Base[r.query])'
        BY <4>1, <4>2 DEF OnlyWithRanges
      <4>. HIDE DEF after, result, n, m, s
      <4>4. after.data = Base[r.query]
        BY <4>2, <1>2, <1>11, <1>14
      <4>5. InMemory(r.type) => after.ranges = Base[r.query]
        BY <4>2, <4>3, <1>2, <1>11, <1>12
      <4>. QED BY <3>2, <4>4, <4>5 DEF ReadsRight
    <3>. QED BY <3>1, <3>2
  <2>. HIDE DEF after, n
  <2>. QED BY <2>1
<1>15. ASSUME NEW k \in DOMAIN results'[i], NEW q \in Known,
              results'[i][k].id = q.id, Reliable(q, i)'
       PROVE  results'[i][k].blocks = Dealt(q, i)
  <2>1. results[i] \in Seq(Result)
    BY <1>1 DEF Typed
  <2>2. Reliable(q, i)
    BY <1>3, <1>15, MoreServed
  <2>3. CASE k \in DOMAIN results[i] /\ results'[i][k] = results[i][k]
    BY <2>2, <2>3, <1>1, <1>15 DEF AnswerInv
  <2>4. CASE ~Refused(r) /\ results'[i][k] = result
    <3>1. result.id = r.id
      OBVIOUS
    <3>. HIDE DEF result
    <3>2. q = r
      BY <3>1, <2>4, <1>0, <1>1, <1>15, KnownRequests
    <3>. QED BY <3>2, <2>4, <1>14, <1>15
  <2>5. \/ k \in DOMAIN results[i] /\ results'[i][k] = results[i][k]
        \/ ~Refused(r) /\ results'[i][k] = result
    <3>. HIDE DEF result
    <3>1. CASE results' = results
      BY <3>1
    <3>2. CASE results' = [results EXCEPT ![i] = Append(@, result)] /\ ~Refused(r)
      <4>1. results'[i] = Append(results[i], result)
        BY <3>2, <1>1 DEF Typed
      <4>. QED BY <4>1, <3>2, <2>1
    <3>. QED BY <3>1, <3>2, <1>1
  <2>. QED BY <2>3, <2>4, <2>5
<1>16. AnswerInv(i)'
  <2>. HIDE DEF after, result, n, m, s
  <2>. QED BY <1>1, <1>3, <1>4, <1>13, <1>15 DEF AnswerInv
<1>. QED
  BY <1>5, <1>6, <1>8, <1>9, <1>16


-----------------------------------------------------------------------------
LEMMA AllInvKept ==
  ASSUME AllInv, [Next]_vars
  PROVE  AllInv'
<1>1. Inv'
  BY InvKept DEF AllInv
<1>2. /\ KnownInv' /\ PartsInv' /\ memory' \in [Devices -> Memory]
      /\ \A i \in Devices : AnswerInv(i)'
  <2>1. CASE HostCall
    BY <2>1, QuietSteps, StartAnswers DEF HostCall
  <2>2. CASE HostStep
    BY <2>2, <1>1, QuietSteps, RequestAnswers, PushAnswers, GetResultAnswers, TakeResultAnswers
       DEF HostStep
  <2>3. CASE Wake \/ UNCHANGED vars
    BY <2>3, QuietSteps
  <2>4. ASSUME NEW i \in Devices, DeviceStep(i)
        PROVE  /\ KnownInv' /\ PartsInv' /\ memory' \in [Devices -> Memory]
               /\ \A j \in Devices : AnswerInv(j)'
    BY <2>4, QuietSteps, PopAnswers, CompleteAnswers DEF DeviceStep
  <2>. QED BY <2>1, <2>2, <2>3, <2>4 DEF Next, Over
<1>. QED
  BY <1>1, <1>2 DEF AllInv

LEMMA AllInvariance == Spec => []AllInv
<1>1. Init => AllInv
  <2>. SUFFICES ASSUME Init PROVE AllInv
    OBVIOUS
  <2>1. /\ own = <<>> /\ DOMAIN own = {} /\ answer = [request |-> Stop, parts |-> <<>>]
        /\ host.pc = "down" /\ DOMAIN answer.parts = {} /\ NoMemory \in Memory
    BY DEF Init, At, NoMemory, Memory
  <2>2. KnownInv /\ PartsInv
    BY <2>1 DEF KnownInv, PartsInv
  <2>3. ASSUME NEW i \in Devices PROVE AnswerInv(i)
    <3>1. queue[i] = <<>> /\ results[i] = <<>> /\ thread[i] = "off" /\ memory[i] = NoMemory
      BY DEF Init
    <3>2. MemoryInv(i)
      BY <3>1 DEF MemoryInv, NoMemory
    <3>. QED BY <3>1, <3>2 DEF AnswerInv
  <2>. QED BY <2>1, <2>2, <2>3, InvAtFirst DEF AllInv, Init
<1>2. AllInv /\ [Next]_vars => AllInv'
  BY AllInvKept
<1>. QED
  BY <1>1, <1>2, PTL DEF Spec

\* CudaDb::requestQuery, CudaDevice::completeQuery and its three sisters: the
\* parts the devices find make up the answer.
THEOREM AnswersAreExact == Spec => []AnswersExact
<1>1. ASSUME AllInv PROVE AnswersExact
  <2>. SUFFICES ASSUME host.pc = "up", Len(answer.parts) = NumDevices,
                       \A i \in Devices : Reliable(answer.request, i) /\ ~HasRefused(i)
                PROVE  FlattenSeq([i \in Devices |-> answer.parts[i].blocks])
                         = Expected(answer.request)
    BY DEF AnswersExact
  <2>1. answer.parts \in Seq(Result) /\ NumDevices \in Nat \ {0}
    BY <1>1, GpuAssumption DEF AllInv, Inv, Typed
  <2>2. DOMAIN answer.parts = Devices /\ answer.parts # <<>>
    BY <2>1 DEF Devices
  <2>3. answer.request \in Numbered
    BY <1>1, <2>2, RequestFields DEF AllInv, PartsInv
  <2>4. \A i \in Devices : answer.parts[i].blocks = Dealt(answer.request, i)
    BY <1>1, <2>2 DEF AllInv, PartsInv
  <2>5. [i \in Devices |-> answer.parts[i].blocks] = [i \in Devices |-> Dealt(answer.request, i)]
    BY <2>4
  <2>. QED BY <2>3, <2>5, DealtMakesAll
<1>. QED
  BY <1>1, AllInvariance, PTL


-----------------------------------------------------------------------------
\* The requests of the batch that have not been numbered yet.
ToIssue == IF host.pc = "deal" THEN issue - 1 ELSE issue

\* What TypeOK says beyond Typed.
Bounds ==
  /\ ToIssue <= MaxRequests - issued /\ take <= MaxBatch /\ starts \in 0..MaxStarts
  /\ own \in Seq(Requests) /\ request \in Requests \cup {Stop}
  /\ answer.request \in Requests \cup {Stop}
  /\ started \in [Devices -> BOOLEAN]
  /\ queue \in [Devices -> Seq(Requests \cup {Stop})]
  /\ work \in [Devices -> Requests \cup {Stop}]
  /\ \A i \in Devices : Len(queue[i]) <= QueueSize /\ Len(results[i]) <= QueueSize

LEMMA BoundsKept ==
  ASSUME Typed, HostInv, Bounds, [Next]_vars
  PROVE  Bounds'
<1>0. /\ QueueSize \in Nat \ {0} /\ MaxRequests \in Nat /\ MaxBatch \in Nat /\ MaxStarts \in Nat
      /\ issued \in Nat /\ take \in Nat /\ issue \in Nat /\ issue <= take
      /\ results \in [Devices -> Seq(Result)] /\ host.at \in Devices
      /\ answer \in [request : Numbered \cup {Stop}, parts : Seq(Result)]
  BY GpuAssumption DEF Typed
<1>1. ASSUME NEW i \in Devices, NEW e \in Requests \cup {Stop}, ~Full(queue[i]),
             queue' = [queue EXCEPT ![i] = Append(@, e)]
      PROVE  /\ queue' \in [Devices -> Seq(Requests \cup {Stop})]
             /\ \A j \in Devices : Len(queue'[j]) <= QueueSize
  <2>1. queue[i] \in Seq(Requests \cup {Stop}) /\ Len(queue[i]) < QueueSize
    BY <1>0, <1>1 DEF Bounds, Full
  <2>2. Append(queue[i], e) \in Seq(Requests \cup {Stop}) /\ Len(Append(queue[i], e)) <= QueueSize
    BY <1>0, <2>1
  <2>. QED BY <1>1, <2>2 DEF Bounds
<1>2. CASE Start
  <2>1. \A S : <<>> \in Seq(S)
    OBVIOUS
  <2>2. Len(<<>>) = 0 /\ starts' \in 0..MaxStarts
    BY <1>0, <1>2 DEF Start, Bounds
  <2>3. ToIssue' = ToIssue
    BY <1>2 DEF Start, ToIssue, At
  <2>. QED BY <1>0, <1>2, <2>1, <2>2, <2>3 DEF Start, Bounds
<1>3. CASE \/ StartDevice \/ WaitUntilStarted \/ Wake \/ StopAll \/ Join
           \/ UNCHANGED vars \/ \E i \in Devices : NotifyStarted(i)
  <2>1. ToIssue' = ToIssue
    BY <1>3 DEF StartDevice, WaitUntilStarted, Wake, StopAll, Join, NotifyStarted, ToIssue,
                NextDevice, At, vars, batchVars, deviceVars
  <2>. QED BY <1>3, <2>1
           DEF StartDevice, WaitUntilStarted, Wake, StopAll, Join, NotifyStarted, Bounds,
               vars, batchVars, deviceVars
<1>4. ASSUME NEW i \in Devices, Initialize(i) PROVE Bounds'
  BY <1>4 DEF Initialize, Bounds, ToIssue, batchVars
<1>5. ASSUME NEW n \in 1..MaxBatch, BeginBatch(n) PROVE Bounds'
  BY <1>0, <1>5 DEF BeginBatch, Bounds, ToIssue, deviceVars
<1>6. ASSUME NEW type \in Types, NEW q \in Queries, RequestQuery(type, q) PROVE Bounds'
  <2>1. /\ host.pc = "up" /\ issue > 0 /\ ToIssue = issue
        /\ own' = Append(own, request') /\ issued' = issued + 1
        /\ request' = [id |-> issued + 1, type |-> type, query |-> q]
        /\ \/ issue' = issue - 1 /\ host' = host
           \/ issue' = issue /\ host'.pc = "deal"
        /\ UNCHANGED <<take, starts, answer, deviceVars>>
    BY <1>6 DEF RequestQuery, ToIssue, At
  <2>2. issued + 1 \in 1..MaxRequests /\ ToIssue' <= MaxRequests - issued'
    BY <1>0, <2>1 DEF Bounds, ToIssue
  <2>3. request' \in Requests
    BY <2>1, <2>2 DEF Requests
  <2>4. own' \in Seq(Requests)
    BY <2>1, <2>3 DEF Bounds
  <2>. QED BY <2>1, <2>2, <2>3, <2>4 DEF Bounds, deviceVars
<1>7. CASE Deal
  <2>1. request \in Requests \cup {Stop}
    BY DEF Bounds
  <2>2. /\ queue' \in [Devices -> Seq(Requests \cup {Stop})]
        /\ \A j \in Devices : Len(queue'[j]) <= QueueSize
    BY <1>0, <1>1, <1>7, <2>1 DEF Deal
  <2>3. ToIssue' = ToIssue
    BY <1>7, <1>0 DEF Deal, ToIssue, NextDevice, At
  <2>. QED BY <1>7, <2>2, <2>3 DEF Deal, Bounds
<1>8. CASE GetResult
  <2>1. Head(own) \in Requests /\ Tail(own) \in Seq(Requests)
    BY <1>8 DEF GetResult, Bounds
  <2>2. take' <= MaxBatch
    BY <1>0, <1>8 DEF GetResult, Bounds
  <2>3. ToIssue' = ToIssue
    BY <1>8 DEF GetResult, ToIssue, At
  <2>. QED BY <1>8, <2>1, <2>2, <2>3 DEF GetResult, Bounds, deviceVars
<1>9. CASE TakeResult
  <2>1. take' <= MaxBatch /\ answer'.request = answer.request
    BY <1>0, <1>9 DEF TakeResult, Bounds
  <2>2. \A i \in Devices : Len(results'[i]) <= QueueSize
    <3>1. \A t \in Seq(Result) : t # <<>> => Len(Tail(t)) = Len(t) - 1 /\ Len(t) \in Nat
      OBVIOUS
    <3>2. results' = [results EXCEPT ![host.at] = Tail(@)] /\ results[host.at] # <<>>
      BY <1>9 DEF TakeResult
    <3>3. Len(Tail(results[host.at])) <= QueueSize
      BY <1>0, <3>1, <3>2 DEF Bounds
    <3>. QED BY <1>0, <3>2, <3>3 DEF Bounds
  <2>3. ToIssue' = ToIssue
    BY <1>9 DEF TakeResult, ToIssue, NextDevice, At
  <2>. QED BY <1>9, <2>1, <2>2, <2>3 DEF TakeResult, Bounds
<1>10. CASE StopDevice
  <2>1. /\ queue' \in [Devices -> Seq(Requests \cup {Stop})]
        /\ \A j \in Devices : Len(queue'[j]) <= QueueSize
    BY <1>0, <1>1, <1>10 DEF StopDevice
  <2>2. ToIssue' = ToIssue
    BY <1>10 DEF StopDevice, ToIssue, At, batchVars
  <2>. QED BY <1>10, <2>1, <2>2 DEF StopDevice, Bounds, batchVars
<1>11. ASSUME NEW i \in Devices, Pop(i) PROVE Bounds'
  <2>1. queue[i] \in Seq(Requests \cup {Stop}) /\ queue[i] # <<>> /\ Len(queue[i]) <= QueueSize
    BY <1>11 DEF Pop, Bounds
  <2>2. /\ Head(queue[i]) \in Requests \cup {Stop} /\ Tail(queue[i]) \in Seq(Requests \cup {Stop})
        /\ Len(Tail(queue[i])) <= QueueSize
    BY <2>1, <1>0
  <2>3. /\ queue' \in [Devices -> Seq(Requests \cup {Stop})]
        /\ \A j \in Devices : Len(queue'[j]) <= QueueSize
    BY <2>2, <1>11 DEF Pop, Bounds
  <2>4. started' \in [Devices -> BOOLEAN] /\ work' \in [Devices -> Requests \cup {Stop}]
    BY <2>2, <1>11 DEF Pop, Bounds
  <2>. QED BY <2>3, <2>4, <1>11 DEF Pop, Bounds, ToIssue, batchVars
<1>12. ASSUME NEW i \in Devices, Complete(i) PROVE Bounds'
  <2>1. \A j \in Devices : Len(results'[j]) <= QueueSize
    <3>1. \/ results' = results
          \/ /\ ~Full(results[i])
             /\ \E e : results' = [results EXCEPT ![i] = Append(@, e)]
      BY <1>12 DEF Complete
    <3>2. \A e : ~Full(results[i]) => Len(Append(results[i], e)) <= QueueSize
      <4>1. Len(results[i]) \in Nat
        BY <1>0
      <4>. QED BY <1>0, <4>1 DEF Full
    <3>. QED BY <1>0, <3>1, <3>2 DEF Bounds
  <2>2. work' = [work EXCEPT ![i] = Stop] /\ UNCHANGED <<host, batchVars, started, queue>>
    BY <1>12 DEF Complete
  <2>. QED BY <2>1, <2>2 DEF Bounds, ToIssue, batchVars
<1>. QED
  BY <1>2, <1>3, <1>4, <1>5, <1>6, <1>7, <1>8, <1>9, <1>10, <1>11, <1>12
     DEF Next, HostCall, HostStep, DeviceStep, Over

\* Types and the bounds of the queues.
THEOREM TypeCorrect == Spec => []TypeOK
<1>1. Init => Bounds
  <2>. SUFFICES ASSUME Init PROVE Bounds
    OBVIOUS
  <2>1. \A S : <<>> \in Seq(S)
    OBVIOUS
  <2>2. Len(<<>>) = 0 /\ QueueSize \in Nat
    BY GpuAssumption
  <2>. QED BY <2>1, <2>2, GpuAssumption DEF Init, Bounds, ToIssue, At
<1>2. Inv /\ Bounds /\ [Next]_vars => Bounds'
  BY BoundsKept DEF Inv
<1>3. ASSUME Inv, Bounds PROVE TypeOK
  <2>1. /\ issue \in 0..MaxBatch /\ take \in issue..MaxBatch
        /\ issued \in 0..MaxRequests /\ starts \in 0..MaxStarts
    <3>1. ToIssue \in Nat
      BY <1>3 DEF Inv, Typed, ToIssue
    <3>. QED BY <1>3, <3>1, GpuAssumption DEF Inv, Typed, Bounds
  <2>2. /\ host.pc \in {"down", "start", "wait", "asleep", "up", "deal", "take", "stop", "join"}
        /\ host.at \in Devices
    BY <1>3 DEF Inv, Typed, Places
  <2>3. ASSUME NEW i \in Devices, NEW k \in DOMAIN results[i]
        PROVE  results[i][k].blocks \in {Garbage} \cup Seq(0..(NumBlocks - 1))
    <3>1. results[i][k] \in Result
      BY <1>3 DEF Inv, Typed
    <3>2. \A r \in Numbered, j \in Devices : Dealt(r, j) \in Seq(0..(NumBlocks - 1))
      BY DealtMakesAll
    <3>. QED BY <3>1, <3>2 DEF Result
  <2>4. ASSUME NEW i \in Devices
        PROVE  /\ thread[i] \in {"off", "init", "notify", "run", "busy", "done"}
               /\ started[i] \in BOOLEAN
               /\ queue[i] \in Seq(Requests \cup {Stop}) /\ Len(queue[i]) <= QueueSize
               /\ Len(results[i]) <= QueueSize
               /\ work[i] \in Requests \cup {Stop}
               /\ served[i] \subseteq [type : Types, query : Queries]
    BY <1>3 DEF Inv, Typed, Bounds, Threads
  <2>. QED BY <1>3, <2>1, <2>2, <2>3, <2>4 DEF TypeOK, Inv, HostInv, Bounds
<1>. QED
  BY <1>1, <1>2, <1>3, Invariance, PTL DEF Spec

=============================================================================
