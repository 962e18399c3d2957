---------------------------- MODULE ServerProofs ----------------------------
(***************************************************************************)
(* What Server keeps for any number of threads, clients, signals and       *)
(* mishaps: wherever the start stops, KVS_Delete frees what has been made, *)
(* all of it, and nothing twice.                                           *)
(***************************************************************************)
EXTENDS Server, FiniteSetTheorems, TLAPS

(* The inductive invariant: what there is, by where the main thread is *)

PartName == {"kvs", "db", "connectionList", "kvsThreads", "timerThread"}
Part(p) == obj[<<p, 0>>]
LoopOf(t) == obj[<<"loop", t>>]
ThreadOf(w) == obj[<<"thread", w>>]
ConnOf(c) == obj[<<"conn", c>>]

Looping == main \in {"observe", "loop", "tell", "stop", "recv"}
Whole == Looping \/ main \in {"threads", "listen"} \/ (main = "error" /\ kvs)
Joining == main \in {"deleteThreads", "join"}
Over == main = "exit" \/ (main = "error" /\ ~kvs)

\* Worker w has been joined.
Gone(w) == Over \/ (Joining /\ w < nth)

TypesSound ==
  /\ main \in {"start", "threads", "listen", "error", "exit", "delete", "deleteConns",
               "deleteTimer", "joinTimer"}
       \cup {"observe", "loop", "tell", "stop", "recv"} \cup {"deleteThreads", "join"}
  /\ kvs \in BOOLEAN
  /\ obj \in [Object -> {"none", "live", "freed"}]
  /\ worker \in [Worker -> {"none", "handle", "blocked", "serve", "recv", "ended"}]
  /\ DOMAIN batch = Loop

CountersSound ==
  /\ nth \in Int /\ filled \in 0 .. ThreadsNum
  /\ main = "start" => nth = 0 /\ filled = 0 /\ ~kvs
  /\ main = "threads" => nth = filled /\ ~kvs
  /\ main = "listen" \/ Looping => kvs
  /\ main = "tell" => nth \in 0 .. ThreadsNum
  /\ main = "joinTimer" => nth = 0
  /\ main = "deleteThreads" => nth \in 0 .. filled
  /\ main = "join" => nth \in 0 .. (filled - 1)

\* KVS_New may give up with any of the parts missing; KVS_Delete frees those
\* there are in the order of the code.
PartsSound ==
  /\ main = "start" => \A p \in PartName : Part(p) = "none"
  /\ Whole => \A p \in PartName : Part(p) = "live"
  /\ Over => \A p \in PartName : Part(p) # "live"
  /\ ~(main = "start" \/ Whole \/ Over) => Part("kvs") = "live" /\ Part("kvsThreads") # "freed"
  /\ main = "delete" => Part("db") # "freed"
  /\ main = "deleteConns" => Part("connectionList") = "live"
  /\ main = "joinTimer" => Part("timerThread") = "live"
  /\ main \in {"deleteConns", "deleteTimer", "joinTimer"} \/ Joining => Part("db") # "live"
  /\ main \in {"deleteTimer", "joinTimer"} \/ Joining => Part("connectionList") # "live"
  /\ main \in {"delete", "deleteConns", "deleteTimer"} => Part("timerThread") # "freed"
  /\ Joining => Part("timerThread") # "live"

ThreadsSound ==
  /\ LoopOf(Main) = "live" <=> Looping
  /\ \A w \in Worker :
       /\ w >= filled => ThreadOf(w) = "none" /\ LoopOf(w) = "none" /\ worker[w] = "none"
       /\ Gone(w) => ThreadOf(w) # "live" /\ LoopOf(w) # "live" /\ worker[w] \in {"none", "ended"}
       /\ w < filled /\ ~Gone(w) =>
            /\ ThreadOf(w) = "live"
            /\ LoopOf(w) = "live" <=> ~(main = "join" /\ w = nth)

ConnsSound ==
  /\ conns \in Seq(Conn)
  /\ \A m, n \in DOMAIN conns : conns[m] = conns[n] => m = n
  /\ \A c \in Conn : ConnOf(c) = "live" <=> \E n \in DOMAIN conns : conns[n] = c
  /\ main = "start" \/ Joining \/ Over \/ main \in {"deleteTimer", "joinTimer"} => conns = <<>>
  /\ main = "delete" => Part("connectionList") = "live" \/ conns = <<>>

\* The accept event of a batch is the only one, so it has its client; a control
\* event has its connection.
BatchSound ==
  /\ DOMAIN queue = Loop /\ queue[Main] \in Seq({"SHUTDOWN", "other", "closed", "mute"})
  /\ \A n \in DOMAIN batch[Main] : batch[Main][n] = "ctrl" => queue[Main] # <<>>
  /\ batch[Main] \in Seq({"ctrl", "accept"})
  /\ \A m, n \in DOMAIN batch[Main] : batch[Main][m] = batch[Main][n] => m = n
  /\ \A n \in DOMAIN batch[Main] :
       batch[Main][n] = "accept" => \E c \in Conn : ConnOf(c) = "none"

TimerSound ==
  /\ Part("timerThread") = "none" => owner = "new"
  /\ Joining \/ Over => owner \in {"new", "freed", "undefined"}
  /\ owner \in {"new", "freed", "undefined"} => thread \in {"none", "done"}

Sound ==
  /\ TypesSound /\ CountersSound /\ PartsSound /\ ThreadsSound
  /\ ConnsSound /\ BatchSound /\ TimerSound
SInv == ~twice /\ (main # "killed" => Sound)

-----------------------------------------------------------------------------
(* What is made and what is freed *)

LEMMA Objects ==
  /\ \A p \in PartName : <<p, 0>> \in Object
  /\ \A t \in Loop : <<"loop", t>> \in Object
  /\ \A w \in Worker : <<"thread", w>> \in Object
  /\ \A c \in Conn : <<"conn", c>> \in Object
  /\ Main \in Loop /\ \A w \in Worker : w \in Loop /\ w # Main /\ w \in Nat
  BY ServerAssumption DEF PartName, Object, Parts, Loop, Worker, Main

LEMMA MakeEffect ==
  ASSUME TypesSound, NEW S, Make(S)
  PROVE  /\ obj' \in [Object -> {"none", "live", "freed"}]
         /\ twice' = twice
         /\ \A x \in Object : obj'[x] = IF x \in S THEN "live" ELSE obj[x]
  BY DEF Make, TypesSound

LEMMA FreeEffect ==
  ASSUME TypesSound, ~twice, NEW S, \A x \in S : obj[x] = "live", Free(S)
  PROVE  /\ obj' \in [Object -> {"none", "live", "freed"}]
         /\ ~twice'
         /\ \A x \in Object : obj'[x] = IF x \in S THEN "freed" ELSE obj[x]
  BY DEF Free, TypesSound

LEMMA OneFreed ==
  ASSUME Sound, ~twice, NEW kind, NEW n, <<kind, n>> \in Object, obj[<<kind, n>>] = "live",
         Free({<<kind, n>>})
  PROVE  /\ obj' \in [Object -> {"none", "live", "freed"}] /\ ~twice' /\ obj'[<<kind, n>>] = "freed"
         /\ \A p \in PartName :
              ~(kind = p /\ n = 0) => obj'[<<p, 0>>] = obj[<<p, 0>>]
         /\ \A t \in Loop : ~(kind = "loop" /\ n = t) => obj'[<<"loop", t>>] = obj[<<"loop", t>>]
         /\ \A w \in Worker :
              ~(kind = "thread" /\ n = w) => obj'[<<"thread", w>>] = obj[<<"thread", w>>]
         /\ \A c \in Conn : ~(kind = "conn" /\ n = c) => obj'[<<"conn", c>>] = obj[<<"conn", c>>]
<1>1. /\ obj' \in [Object -> {"none", "live", "freed"}] /\ ~twice'
      /\ \A x \in Object : obj'[x] = IF x \in {<<kind, n>>} THEN "freed" ELSE obj[x]
  BY FreeEffect DEF Sound
<1> QED
  BY <1>1, Objects

-----------------------------------------------------------------------------
(* Steps of the other threads *)

\* Control connections come; only the main loop takes its own.
QueueGrows ==
  /\ DOMAIN queue' = Loop /\ queue'[Main] \in Seq({"SHUTDOWN", "other", "closed", "mute"})
  /\ queue[Main] # <<>> => queue'[Main] # <<>>

LEMMA Appended ==
  ASSUME Sound, NEW t \in Loop, NEW m \in {"SHUTDOWN", "other", "closed", "mute"},
         queue' = queue \/ queue' = [queue EXCEPT ![t] = Append(@, m)]
  PROVE  QueueGrows
<1>1. DOMAIN queue = Loop /\ queue[Main] \in Seq({"SHUTDOWN", "other", "closed", "mute"})
  BY DEF Sound, BatchSound
<1> DEFINE q == queue[Main]
<1>2. Append(q, m) \in Seq({"SHUTDOWN", "other", "closed", "mute"}) /\ Len(Append(q, m)) = Len(q) + 1 /\ Len(q) \in Nat
  BY <1>1
<1>3. Append(q, m) # <<>>
  BY <1>2
<1>4. queue'[Main] \in {q, Append(q, m)}
  BY <1>1, Objects
<1> QED
  BY <1>1, <1>2, <1>3, <1>4 DEF QueueGrows

LEMMA QueueStays == ASSUME Sound, queue' = queue PROVE QueueGrows
  BY DEF Sound, BatchSound, QueueGrows

LEMMA Sends == ASSUME Sound, NEW t \in Loop, SendShutdownCmd(t) PROVE QueueGrows
<1>1. \E m \in {"SHUTDOWN", "mute"} : queue' = queue \/ queue' = [queue EXCEPT ![t] = Append(@, m)]
  BY DEF SendShutdownCmd
<1> QED
  BY <1>1, Appended

\* They neither make nor free, and leave a worker that is gone alone.
LEMMA OthersSound ==
  ASSUME Sound, UNCHANGED <<main, nth, filled, kvs, obj, conns>>,
         owner' = owner /\ (thread' = thread \/ thread \notin {"none", "done"}),
         worker' \in [Worker -> {"none", "handle", "blocked", "serve", "recv", "ended"}],
         \A w \in Worker : worker[w] \in {"none", "ended"} => worker'[w] = worker[w],
         DOMAIN batch' = Loop, batch'[Main] = batch[Main], QueueGrows
  PROVE  Sound'
<1> USE DEF Sound, Part, LoopOf, ThreadOf, ConnOf, Looping, Whole, Joining, Over, Gone
<1>1. TypesSound'
  BY DEF TypesSound
<1>2. CountersSound'
  BY DEF CountersSound
<1>3. PartsSound'
  BY DEF PartsSound
<1>4. ThreadsSound'
  BY DEF ThreadsSound
<1>5. ConnsSound'
  BY DEF ConnsSound
<1>6. BatchSound'
  BY DEF BatchSound, QueueGrows
<1>7. TimerSound'
  BY DEF TimerSound
<1> QED
  BY <1>1, <1>2, <1>3, <1>4, <1>5, <1>6, <1>7

LEMMA OtherSteps ==
  ASSUME Sound,
         \/ \E w \in Worker : WorkerStep(w) \/ EpollReturns(w)
         \/ TimerRuns \/ TimerUsesFreed \/ TimerWakesUp
         \/ \E t \in Loop : Stray(t)
  PROVE  Sound' /\ twice' = twice
<1> DEFINE Frame == /\ UNCHANGED <<main, nth, filled, kvs, obj, twice, conns>>
                    /\ owner' = owner /\ (thread' = thread \/ thread \notin {"none", "done"})
           Work == /\ worker' \in [Worker -> {"none", "handle", "blocked", "serve", "recv", "ended"}]
                   /\ \A w \in Worker : worker[w] \in {"none", "ended"} => worker'[w] = worker[w]
           Batch == DOMAIN batch' = Loop /\ batch'[Main] = batch[Main] /\ QueueGrows
<1>1. ASSUME NEW w \in Worker, NEW here \in {"handle", "blocked", "serve"},
             NEW there \in {"handle", "blocked", "serve", "recv", "ended"}, WorkerGoes(w, here, there)
      PROVE  Frame /\ Work
  BY <1>1 DEF WorkerGoes, Sound, TypesSound, memory, clients, timer
<1>2. ASSUME NEW w \in Worker, WorkerStep(w) \/ EpollReturns(w)
      PROVE  Frame /\ Work /\ Batch
  <2>1. w # Main /\ Main \in Loop /\ DOMAIN batch = Loop
    BY Objects DEF Sound, TypesSound
  <2>0. queue' = queue => QueueGrows
    BY DEF Sound, BatchSound, QueueGrows
  <2>2. ASSUME NEW b, batch' = batch \/ batch' = [batch EXCEPT ![w] = b], QueueGrows
        PROVE  Batch
    BY <2>1, <2>2
  <2>3. CASE WaitForEvents(w)
    BY <1>1, <2>0, <2>2, <2>3 DEF WaitForEvents, control
  <2>4. CASE EpollReturns(w)
    BY <1>1, <2>0, <2>2, <2>4 DEF EpollReturns, control
  <2>5. CASE KVSThread_Ctrl(w)
    <3>0. QueueGrows
      <4>1. queue' = [queue EXCEPT ![w] = Tail(@)]
        BY <2>5 DEF KVSThread_Ctrl
      <4> QED
        BY <2>1, <4>1 DEF Sound, BatchSound, QueueGrows
    <3>1. Batch
      BY <2>2, <2>5, <3>0 DEF KVSThread_Ctrl
    <3>2. \E there \in {"ended", "recv", "handle"} : WorkerGoes(w, "handle", there)
      BY <2>5 DEF KVSThread_Ctrl
    <3> QED
      BY <1>1, <3>1, <3>2
  <2>6. CASE HandlerCalled(w)
    BY <1>1, <2>0, <2>2, <2>6 DEF HandlerCalled, control
  <2>7. CASE HandlerReturns(w)
    BY <1>1, <2>0, <2>2, <2>7 DEF HandlerReturns, Handled, control
  <2>8. CASE WorkerUsesFreed(w)
    BY <2>0, <2>1, <2>8 DEF WorkerUsesFreed, memory, clients, control, timer, Sound, TypesSound
  <2> QED
    BY <1>2, <2>3, <2>4, <2>5, <2>6, <2>7, <2>8 DEF WorkerStep
<1>3. ASSUME TimerRuns \/ TimerUsesFreed \/ TimerWakesUp \/ \E t \in Loop : Stray(t)
      PROVE  Frame /\ Work /\ Batch
  <2>1. UNCHANGED <<main, nth, filled, kvs, obj, twice, conns, worker, batch>>
    BY <1>3 DEF TimerRuns, TimerUsesFreed, TimerWakesUp, Stray, memory, clients
  <2>2. owner' = owner /\ (thread' = thread \/ thread \notin {"none", "done"})
    BY <1>3 DEF TimerRuns, TimerUsesFreed, TimerWakesUp, Stray, timer, T!Arm, T!Wait, T!TimeOut,
       T!Called, T!Leave, T!WakeUp
  <2>3. QueueGrows
    <3>1. CASE queue' = queue
      BY <3>1 DEF Sound, BatchSound, QueueGrows
    <3>2. ASSUME NEW t \in Loop, Stray(t)
          PROVE  \E m \in {"other", "closed"} : queue' = [queue EXCEPT ![t] = Append(@, m)]
      BY <3>2 DEF Stray
    <3> QED
      BY <1>3, <3>1, <3>2, Appended DEF TimerRuns, TimerUsesFreed, TimerWakesUp, control
  <2> QED
    BY <2>1, <2>2, <2>3 DEF Sound, TypesSound
<1>4. Frame /\ Work /\ Batch
  BY <1>2, <1>3
<1> QED
  BY <1>4, OthersSound

LEMMA SignalSound ==
  ASSUME Sound, termsignal_handler
  PROVE  twice' = twice /\ (main' # "killed" => Sound')
<1>1. CASE handler
  <2>1. UNCHANGED <<main, nth, filled, kvs, obj, twice, conns, batch, thread, owner>>
    BY <1>1 DEF termsignal_handler, memory, clients, timer
  <2>2. /\ worker' \in [Worker -> {"none", "handle", "blocked", "serve", "recv", "ended"}]
        /\ \A w \in Worker : worker[w] \in {"none", "ended"} => worker'[w] = worker[w]
    BY <1>1 DEF termsignal_handler, Sound, TypesSound
  <2>3. QueueGrows
    BY <1>1, Objects, Sends DEF termsignal_handler
  <2> QED
    BY <2>1, <2>2, <2>3, OthersSound DEF Sound, TypesSound
<1>2. CASE ~handler
  BY <1>2 DEF termsignal_handler, memory
<1> QED
  BY <1>1, <1>2

-----------------------------------------------------------------------------
(* Steps of the main thread that neither make nor free anything *)

LoopSteps == {"observe", "loop", "tell", "stop", "recv"}
Moves ==
  \/ main = "start" /\ main' = "error" /\ UNCHANGED <<nth, kvs, owner, thread>>
  \/ main = "threads" /\ main' = "delete" /\ UNCHANGED <<nth, kvs, owner, thread>>
  \/ /\ main = "threads" /\ nth = ThreadsNum /\ main' = "listen"
     /\ kvs' = TRUE /\ nth' = nth /\ owner' = "started"
  \/ main = "listen" /\ main' \in {"error", "delete"} /\ nth' \in Int /\ UNCHANGED <<kvs, owner, thread>>
  \/ /\ main \in LoopSteps /\ main' \in LoopSteps /\ UNCHANGED <<kvs, owner, thread>>
     /\ nth' \in Int /\ (main' = "tell" => nth' \in 0 .. ThreadsNum)
  \/ /\ main = "deleteTimer" /\ Part("timerThread") = "live" /\ main' = "joinTimer" /\ nth' = 0
     /\ owner' = "join" /\ kvs' = kvs
  \/ /\ main = "deleteTimer" /\ Part("timerThread") # "live" /\ main' = "deleteThreads" /\ nth' = 0
     /\ UNCHANGED <<kvs, owner, thread>>
  \/ /\ main = "error" /\ main' = (IF kvs THEN "delete" ELSE "exit")
     /\ UNCHANGED <<nth, kvs, owner, thread>>

LEMMA MovesSound ==
  ASSUME Sound, Moves, UNCHANGED <<obj, filled, conns, worker>>,
         (batch' = batch /\ QueueGrows) \/ (BatchSound' /\ DOMAIN batch' = Loop)
  PROVE  Sound'
<1> USE DEF Sound, Part, LoopOf, ThreadOf, ConnOf, Looping, Whole, Joining, Over, Gone, Moves,
            LoopSteps
<1>1. TypesSound'
  BY DEF TypesSound
<1>2. CountersSound'
  BY ServerAssumption DEF CountersSound, TypesSound
<1>3. PartsSound'
  BY DEF PartsSound, CountersSound, TypesSound, PartName
<1>4. ThreadsSound'
  BY ServerAssumption DEF ThreadsSound, CountersSound, TypesSound, Worker
<1>5. ConnsSound'
  BY DEF ConnsSound, CountersSound, PartsSound, PartName
<1>6. BatchSound'
  BY DEF BatchSound, QueueGrows
<1>7. TimerSound'
  <2>1. Part("timerThread") \in {"none", "live", "freed"}
    BY Objects DEF TypesSound, PartName
  <2>2. CASE main \in {"threads", "listen"} \cup LoopSteps
    BY <2>2 DEF TimerSound, PartsSound, PartName, CountersSound
  <2>3. CASE main = "start"
    BY <2>3 DEF TimerSound, PartsSound, PartName, CountersSound
  <2>4. CASE main = "deleteTimer"
    BY <2>1, <2>4 DEF TimerSound, PartsSound, PartName, CountersSound
  <2>5. CASE main = "error"
    BY <2>5 DEF TimerSound, PartsSound, PartName, CountersSound, TypesSound
  <2> QED
    BY <2>2, <2>3, <2>4, <2>5
<1> QED
  BY <1>1, <1>2, <1>3, <1>4, <1>5, <1>6, <1>7

\* A batch is a permutation of some of what is ready, so it has no event twice.
LEMMA MainEvents ==
  ASSUME Sound, NEW e \in Events(Main)
  PROVE  /\ e \in Seq({"ctrl", "accept"})
         /\ \A m, n \in DOMAIN e : e[m] = e[n] => m = n
         /\ \A n \in DOMAIN e : e[n] = "accept" => \E c \in Conn : ConnOf(c) = "none"
         /\ \A n \in DOMAIN e : e[n] = "ctrl" => queue[Main] # <<>>
<1> DEFINE sure == IF ControlReady(Main) THEN {"ctrl"} ELSE {}
           maybe == {"accept" : c \in {d \in Conn : obj[<<"conn", d>>] = "none"}}
<1>1. e \in SetToAllKPermutations(sure \cup maybe)
  BY DEF Events
<1>2. PICK S \in SUBSET (sure \cup maybe) : e \in SetToSeqs(S)
  BY <1>1 DEF SetToAllKPermutations
<1>3. S \subseteq {"ctrl", "accept"}
  BY <1>2
<1>4. IsFiniteSet(S)
  <2>1. IsFiniteSet({} \cup {"ctrl"})
    BY FS_EmptySet, FS_AddElement
  <2>2. IsFiniteSet(({} \cup {"ctrl"}) \cup {"accept"})
    BY <2>1, FS_AddElement
  <2> DEFINE both == ({} \cup {"ctrl"}) \cup {"accept"}
  <2>3. S \in SUBSET both
    BY <1>3
  <2> HIDE DEF both
  <2> QED
    BY <2>2, <2>3, FS_Subset DEF both
<1>5. Cardinality(S) \in Nat
  BY <1>4, FS_CardinalityType
<1>6. /\ e \in [1 .. Cardinality(S) -> S]
      /\ \A i, j \in 1 .. Cardinality(S) : i # j => e[i] # e[j]
  BY <1>2 DEF SetToSeqs
<1>7. e \in Seq({"ctrl", "accept"})
  <2> DEFINE k == Cardinality(S)
  <2>1. k \in Nat /\ e \in [1 .. k -> {"ctrl", "accept"}]
    BY <1>3, <1>5, <1>6
  <2> HIDE DEF k
  <2> QED
    BY <2>1
<1>8. ASSUME "accept" \in S
      PROVE  \E c \in Conn : ConnOf(c) = "none"
  BY <1>2, <1>8 DEF ConnOf
<1>9. ASSUME "ctrl" \in S
      PROVE  queue[Main] # <<>>
  BY <1>2, <1>9 DEF ControlReady
<1> QED
  BY <1>6, <1>7, <1>8, <1>9

\* What is left of a batch when its first event has been handled.
LEMMA TailBatch ==
  ASSUME Sound, batch[Main] # <<>>
  PROVE  LET b == Tail(batch[Main]) IN
         /\ b \in Seq({"ctrl", "accept"})
         /\ \A m, n \in DOMAIN b : b[m] = b[n] => m = n
         /\ \A n \in DOMAIN b : b[n] # Head(batch[Main]) /\ \E m \in DOMAIN batch[Main] : b[n] = batch[Main][m]
<1> DEFINE a == batch[Main]
           b == Tail(a)
<1>1. a \in Seq({"ctrl", "accept"}) /\ \A m, n \in DOMAIN a : a[m] = a[n] => m = n
  BY DEF Sound, BatchSound
<1> HIDE DEF a
<1>2. b \in Seq({"ctrl", "accept"}) /\ Len(a) > 0 /\ Head(a) = a[1]
      /\ DOMAIN a = 1 .. Len(a) /\ DOMAIN b = 1 .. (Len(a) - 1) /\ Len(a) \in Nat
      /\ \A n \in 1 .. (Len(a) - 1) : b[n] = a[n + 1]
  BY <1>1 DEF a
<1> HIDE DEF b
<1>3. \A n \in DOMAIN b : n + 1 \in DOMAIN a /\ n + 1 # 1 /\ b[n] = a[n + 1] /\ 1 \in DOMAIN a
  BY <1>2
<1>4. \A m, n \in DOMAIN b : b[m] = b[n] => m = n
  <2> SUFFICES ASSUME NEW m \in DOMAIN b, NEW n \in DOMAIN b, b[m] = b[n]
               PROVE  m = n
    OBVIOUS
  <2>1. m + 1 = n + 1
    BY <1>1, <1>3
  <2> QED
    BY <1>2, <2>1
<1>5. \A n \in DOMAIN b : b[n] # Head(a) /\ \E m \in DOMAIN a : b[n] = a[m]
  BY <1>1, <1>2, <1>3
<1> QED
  BY <1>2, <1>4, <1>5 DEF a, b

\* The main loop waits, or handles an event; a control event takes a connection.
LEMMA BatchKept ==
  ASSUME Sound, UNCHANGED obj,
         \/ UNCHANGED queue /\ \E e \in Events(Main) : batch' = [batch EXCEPT ![Main] = e]
         \/ UNCHANGED queue /\ batch[Main] # <<>> /\ Handled(Main)
         \/ NextEvent(Main, "ctrl") /\ Handled(Main) /\ Unread(Main)
  PROVE  BatchSound' /\ DOMAIN batch' = Loop
<1>1. /\ DOMAIN batch = Loop /\ Main \in Loop
      /\ DOMAIN queue = Loop /\ queue[Main] \in Seq({"SHUTDOWN", "other", "closed", "mute"})
  BY Objects DEF Sound, TypesSound, BatchSound
<1>2. ASSUME NEW e \in Events(Main), batch' = [batch EXCEPT ![Main] = e], UNCHANGED queue
      PROVE  BatchSound'
  <2>1. batch'[Main] = e
    BY <1>1, <1>2
  <2> QED
    BY <1>1, <1>2, <2>1, MainEvents DEF BatchSound, ConnOf
<1>3. ASSUME batch[Main] # <<>>, Handled(Main), 
             DOMAIN queue' = Loop, queue'[Main] \in Seq({"SHUTDOWN", "other", "closed", "mute"}),
             queue'[Main] = queue[Main] \/ Head(batch[Main]) = "ctrl"
      PROVE  BatchSound'
  <2>1. batch'[Main] = Tail(batch[Main])
    BY <1>1, <1>3 DEF Handled
  <2>2. \A n \in DOMAIN batch[Main] :
          /\ batch[Main][n] = "accept" => \E c \in Conn : ConnOf(c) = "none"
          /\ batch[Main][n] = "ctrl" => queue[Main] # <<>>
    BY DEF Sound, BatchSound
  <2> QED
    BY <1>3, <2>1, <2>2, TailBatch, ZenonT(40) DEF BatchSound, ConnOf
<1>4. ASSUME NextEvent(Main, "ctrl"), Handled(Main), Unread(Main)
      PROVE  BatchSound'
  <2>1. queue[Main] # <<>>
    <3>1. 1 \in DOMAIN batch[Main] /\ batch[Main][1] = "ctrl"
      BY <1>4 DEF NextEvent, Sound, BatchSound
    <3> QED
      BY <3>1 DEF Sound, BatchSound
  <2>2. DOMAIN queue' = Loop /\ queue'[Main] \in Seq({"SHUTDOWN", "other", "closed", "mute"})
    BY <1>1, <1>4, <2>1 DEF Unread
  <2> QED
    BY <1>3, <1>4, <2>2 DEF NextEvent
<1> QED
  BY <1>1, <1>2, <1>3, <1>4 DEF Handled

-----------------------------------------------------------------------------
(* The start *)

LEMMA KVS_NewSound ==
  ASSUME Sound, ~twice, KVS_New
  PROVE  Sound' /\ ~twice'
<1>1. CASE At("start", "error") /\ UNCHANGED <<nth, filled, kvs, memory, worker, batch, control, clients, timer>>
  <2>1. Moves
    BY <1>1 DEF Moves, At, timer
  <2> QED
    BY <1>1, <2>1, MovesSound, QueueStays DEF memory, clients, control
<1>2. ASSUME NEW made \in {{}, {"db", "connectionList"}, {"db", "connectionList", "kvsThreads"},
                           {"db", "connectionList", "kvsThreads", "timerThread"}},
             main = "start", main' \in {"threads", "delete"},
             main' = "threads" <=> "timerThread" \in made,
             Make({<<"kvs", 0>>} \cup {<<p, 0>> : p \in made}),
             UNCHANGED <<nth, filled, kvs, worker, batch, queue, clients, timer>>
      PROVE  Sound' /\ ~twice'
  <2> DEFINE S == {<<"kvs", 0>>} \cup {<<p, 0>> : p \in made}
  <2>1. /\ obj' \in [Object -> {"none", "live", "freed"}] /\ twice' = twice
        /\ \A x \in Object : obj'[x] = IF x \in S THEN "live" ELSE obj[x]
    BY <1>2, MakeEffect DEF Sound
  <2>2. \A p \in PartName : <<p, 0>> \in S <=> p = "kvs" \/ p \in made
    OBVIOUS
  <2>3. \A p \in PartName : obj'[<<p, 0>>] = IF p = "kvs" \/ p \in made THEN "live" ELSE "none"
    BY <1>2, <2>1, <2>2, Objects DEF Sound, PartsSound, Part
  <2>4. /\ \A t \in Loop : <<"loop", t>> \notin S /\ \A w \in Worker : <<"thread", w>> \notin S
        /\ \A c \in Conn : <<"conn", c>> \notin S
    BY <1>2
  <2>5. /\ \A t \in Loop : obj'[<<"loop", t>>] = obj[<<"loop", t>>]
        /\ \A w \in Worker : obj'[<<"thread", w>>] = obj[<<"thread", w>>]
        /\ \A c \in Conn : obj'[<<"conn", c>>] = obj[<<"conn", c>>]
    BY <2>1, <2>4, Objects
  <2> HIDE DEF S
  <2> USE <1>2, ServerAssumption DEF Sound, Part, LoopOf, ThreadOf, ConnOf, Looping, Whole, Joining, Over, Gone
  <2>6. TypesSound'
    BY <2>1 DEF TypesSound
  <2>7. CountersSound'
    BY DEF CountersSound
  <2>8. PartsSound'
    BY <2>3 DEF PartsSound, PartName
  <2>9. ThreadsSound'
    BY <2>5, Objects DEF ThreadsSound, CountersSound, Worker
  <2>10. ConnsSound'
    BY <2>5, Objects DEF ConnsSound, clients
  <2>11. BatchSound'
    BY <2>5, Objects DEF BatchSound
  <2>12. TimerSound'
    BY <2>3 DEF TimerSound, PartsSound, PartName, timer
  <2> QED
    BY <2>1, <2>6, <2>7, <2>8, <2>9, <2>10, <2>11, <2>12
<1> QED
  BY <1>1, <1>2 DEF KVS_New, At, control

LEMMA KVSThread_NewSound ==
  ASSUME Sound, ~twice, KVSThread_New
  PROVE  Sound' /\ ~twice'
<1>1. CASE At("threads", "delete")
  <2>1. Moves /\ UNCHANGED <<obj, filled, conns, worker, batch, twice, queue>>
    BY <1>1 DEF Moves, At, KVSThread_New, timer, clients, memory, control
  <2> QED
    BY <2>1, MovesSound, QueueStays
<1>2. CASE At("threads", "threads")
  <2> DEFINE S == {<<"thread", nth>>, <<"loop", nth>>}
  <2>1. /\ main = "threads" /\ main' = "threads" /\ Make(S)
        /\ worker' = worker \/ worker' = [worker EXCEPT ![nth] = "handle"]
        /\ filled' = filled + 1 /\ nth' = nth + 1 /\ nth < ThreadsNum
        /\ UNCHANGED <<kvs, batch, queue, conns, owner, thread>>
    BY <1>2 DEF KVSThread_New, At, clients, timer, control
  <2>2. nth \in Worker /\ nth = filled /\ ~kvs
    BY <2>1, ServerAssumption DEF Sound, CountersSound, Worker
  <2>3. PICK n \in Worker : n = nth
    BY <2>2
  <2>4. /\ obj' \in [Object -> {"none", "live", "freed"}] /\ twice' = twice
        /\ \A x \in Object : obj'[x] = IF x \in {<<"thread", n>>, <<"loop", n>>} THEN "live" ELSE obj[x]
    BY <2>1, <2>3, MakeEffect DEF Sound
  <2>5. /\ \A p \in PartName : obj'[<<p, 0>>] = obj[<<p, 0>>]
        /\ \A c \in Conn : obj'[<<"conn", c>>] = obj[<<"conn", c>>]
        /\ \A t \in Loop : obj'[<<"loop", t>>] = IF t = n THEN "live" ELSE obj[<<"loop", t>>]
        /\ \A w \in Worker : obj'[<<"thread", w>>] = IF w = n THEN "live" ELSE obj[<<"thread", w>>]
    BY <2>4, Objects DEF PartName
  <2> HIDE DEF S
  <2> USE <2>1, <2>2, <2>3, ServerAssumption
      DEF Sound, Part, LoopOf, ThreadOf, ConnOf, Looping, Whole, Joining, Over, Gone
  <2>6. TypesSound'
    BY <2>4 DEF TypesSound
  <2>7. CountersSound'
    BY DEF CountersSound
  <2>8. PartsSound'
    BY <2>5 DEF PartsSound, PartName
  <2>9. ThreadsSound'
    <3>1. \A w \in Worker : w # n => worker'[w] = worker[w]
      BY DEF TypesSound
    <3> QED
      BY <2>5, <3>1, Objects DEF ThreadsSound, CountersSound, Worker
  <2>10. ConnsSound'
    BY <2>5, Objects DEF ConnsSound
  <2>11. BatchSound'
    BY <2>5, Objects DEF BatchSound
  <2>12. TimerSound'
    BY <2>5 DEF TimerSound, PartName
  <2> QED
    BY <2>4, <2>6, <2>7, <2>8, <2>9, <2>10, <2>11, <2>12
<1> QED
  BY <1>1, <1>2 DEF KVSThread_New

LEMMA StartTimerSound ==
  ASSUME Sound, ~twice, StartTimer
  PROVE  Sound' /\ ~twice'
<1>1. Moves /\ UNCHANGED <<obj, filled, conns, worker, batch, twice, queue>>
  BY DEF StartTimer, Moves, At, T!TimerThread_Start, clients, memory, control
<1> QED
  BY <1>1, MovesSound, QueueStays

LEMMA MainloopStartsSound ==
  ASSUME Sound, ~twice, MainloopStarts
  PROVE  Sound' /\ ~twice'
<1>1. CASE At("listen", "error") \/ At("listen", "delete")
  <2>1. Moves /\ UNCHANGED <<obj, filled, conns, worker, batch, twice, queue>>
    BY <1>1 DEF Moves, At, MainloopStarts, timer, clients, memory, control, Main
  <2> QED
    BY <2>1, MovesSound, QueueStays
<1>2. CASE At("listen", "observe")
  <2>1. /\ main = "listen" /\ main' = "observe" /\ Make({<<"loop", Main>>}) /\ nth' = -1
        /\ UNCHANGED <<filled, kvs, worker, batch, queue, conns, owner, thread>>
    BY <1>2 DEF MainloopStarts, At, clients, timer, control, Main
  <2>2. /\ obj' \in [Object -> {"none", "live", "freed"}] /\ twice' = twice
        /\ \A x \in Object : obj'[x] = IF x = <<"loop", Main>> THEN "live" ELSE obj[x]
    BY <2>1, MakeEffect DEF Sound
  <2>3. /\ \A p \in PartName : obj'[<<p, 0>>] = obj[<<p, 0>>]
        /\ \A c \in Conn : obj'[<<"conn", c>>] = obj[<<"conn", c>>]
        /\ \A w \in Worker : obj'[<<"loop", w>>] = obj[<<"loop", w>>]
        /\ \A w \in Worker : obj'[<<"thread", w>>] = obj[<<"thread", w>>]
        /\ obj'[<<"loop", Main>>] = "live"
    BY <2>2, Objects DEF PartName
  <2> USE <2>1, ServerAssumption
      DEF Sound, Part, LoopOf, ThreadOf, ConnOf, Looping, Whole, Joining, Over, Gone
  <2>6. TypesSound'
    BY <2>2 DEF TypesSound
  <2>7. CountersSound'
    BY DEF CountersSound
  <2>8. PartsSound'
    BY <2>3 DEF PartsSound, PartName
  <2>9. ThreadsSound'
    BY <2>3 DEF ThreadsSound, CountersSound, Worker
  <2>10. ConnsSound'
    BY <2>3 DEF ConnsSound
  <2>11. BatchSound'
    BY <2>3 DEF BatchSound
  <2>12. TimerSound'
    BY <2>3 DEF TimerSound, PartName
  <2> QED
    BY <2>2, <2>6, <2>7, <2>8, <2>9, <2>10, <2>11, <2>12
<1> QED
  BY <1>1, <1>2 DEF MainloopStarts

-----------------------------------------------------------------------------
(* The main loop *)

\* Wherever it ends, the main loop frees its event loop and KVS_Delete follows.
LEMMA LoopFreed ==
  ASSUME Sound, ~twice, main \in LoopSteps, main' = "delete", Free({<<"loop", Main>>}),
         UNCHANGED <<nth, filled, kvs, worker, conns, owner, thread, queue>>,
         batch' = batch \/ batch' = [batch EXCEPT ![Main] = <<>>]
  PROVE  Sound' /\ ~twice'
<1>1. obj[<<"loop", Main>>] = "live" /\ <<"loop", Main>> \in Object
  BY Objects DEF Sound, ThreadsSound, Looping, LoopSteps, LoopOf
<1>2. /\ obj' \in [Object -> {"none", "live", "freed"}] /\ ~twice'
      /\ obj'[<<"loop", Main>>] = "freed"
      /\ \A p \in PartName : obj'[<<p, 0>>] = obj[<<p, 0>>]
      /\ \A c \in Conn : obj'[<<"conn", c>>] = obj[<<"conn", c>>]
      /\ \A w \in Worker : obj'[<<"loop", w>>] = obj[<<"loop", w>>]
      /\ \A w \in Worker : obj'[<<"thread", w>>] = obj[<<"thread", w>>]
  BY <1>1, OneFreed, Objects DEF PartName
<1> USE <1>2, ServerAssumption
    DEF Sound, Part, LoopOf, ThreadOf, ConnOf, Looping, Whole, Joining, Over, Gone, LoopSteps
<1>3. TypesSound'
  BY DEF TypesSound
<1>4. CountersSound'
  BY DEF CountersSound
<1>5. PartsSound'
  BY DEF PartsSound, PartName
<1>6. ThreadsSound'
  BY DEF ThreadsSound, CountersSound, Worker
<1>7. ConnsSound'
  BY ZenonT(40) DEF ConnsSound, PartsSound, PartName
<1>8. BatchSound'
  <2>1. CASE batch' = batch
    BY <2>1 DEF BatchSound
  <2>2. CASE batch'[Main] = <<>>
    BY <2>2 DEF BatchSound
  <2> QED
    BY <2>1, <2>2, Objects DEF TypesSound
<1>9. TimerSound'
  BY DEF TimerSound, PartName
<1> QED
  BY <1>3, <1>4, <1>5, <1>6, <1>7, <1>8, <1>9

LEMMA ObserveSound ==
  ASSUME Sound, ~twice, KVS_Observe \/ MainloopRuns
  PROVE  Sound' /\ ~twice'
<1>1. CASE At("observe", "observe") \/ At("observe", "loop")
  <2>1. nth \in Int
    BY DEF Sound, CountersSound
  <2>2. Moves /\ UNCHANGED <<obj, filled, conns, worker, batch, twice, queue>>
    BY <1>1, <2>1 DEF Moves, LoopSteps, At, KVS_Observe, MainloopRuns, timer, clients, memory, control
  <2> QED
    BY <2>2, MovesSound, QueueStays
<1>2. CASE At("observe", "delete")
  BY <1>2, LoopFreed DEF At, KVS_Observe, MainloopRuns, LoopSteps, clients, timer, control
<1> QED
  BY <1>1, <1>2 DEF KVS_Observe, MainloopRuns

LEMMA MainLoopSound ==
  ASSUME Sound, ~twice, MainWaits \/ KVS_Ctrl \/ TellWorker \/ AllTold
  PROVE  Sound' /\ ~twice'
<1>1. UNCHANGED <<obj, filled, conns, worker, twice, kvs, owner, thread>>
  BY DEF MainWaits, KVS_Ctrl, TellWorker, AllTold, clients, memory, timer
<1>2. Moves
  <2>1. nth \in Int
    BY DEF Sound, CountersSound
  <2>2. CASE KVS_Ctrl
    <3>1. Head(queue[Main]) \in {"SHUTDOWN", "other", "closed", "mute"}
      <4>1. 1 \in DOMAIN batch[Main] /\ batch[Main][1] = "ctrl"
        BY <2>2 DEF KVS_Ctrl, NextEvent, Sound, BatchSound
      <4> QED
        BY <4>1, Objects DEF Sound, BatchSound
    <3>2. main = "loop" /\ main' \in {"tell", "stop", "loop", "recv"} /\ nth' = 0
      BY <2>2, <3>1 DEF KVS_Ctrl, At
    <3> QED
      BY <1>1, <3>2, ServerAssumption DEF Moves, LoopSteps
  <2>3. CASE TellWorker
    <3>1. main = "tell" /\ main' = "tell" /\ nth < ThreadsNum /\ nth' = nth + 1
      BY <2>3 DEF TellWorker, At
    <3>2. nth' \in 0 .. ThreadsNum
      BY <3>1, ServerAssumption DEF Sound, CountersSound
    <3> QED
      BY <1>1, <3>1, <3>2 DEF Moves, LoopSteps
  <2>4. CASE MainWaits \/ AllTold
    BY <1>1, <2>1, <2>4 DEF MainWaits, AllTold, At, Moves, LoopSteps
  <2> QED
    BY <2>2, <2>3, <2>4
<1>3. (batch' = batch /\ QueueGrows) \/ (BatchSound' /\ DOMAIN batch' = Loop)
  <2>1. CASE MainWaits
    BY <1>1, <2>1, BatchKept DEF MainWaits, control
  <2>2. CASE KVS_Ctrl
    BY <1>1, <2>2, BatchKept DEF KVS_Ctrl
  <2>3. CASE TellWorker
    <3>1. nth \in Loop
      <4>1. nth \in 0 .. ThreadsNum /\ nth < ThreadsNum
        BY <2>3 DEF TellWorker, At, Sound, CountersSound
      <4> QED
        BY <4>1, ServerAssumption DEF Loop, Worker
    <3> QED
      BY <2>3, <3>1, Sends DEF TellWorker
  <2>4. CASE AllTold
    BY <2>4, QueueStays DEF AllTold, control
  <2> QED
    BY <2>1, <2>2, <2>3, <2>4
<1> QED
  BY <1>1, <1>2, <1>3, MovesSound

LEMMA MainloopEndsSound ==
  ASSUME Sound, ~twice, MainloopEnds
  PROVE  Sound' /\ ~twice'
  BY LoopFreed DEF MainloopEnds, At, LoopSteps, clients, timer, control

\* A client is not one that came before, so its connection is a new one.
LEMMA AcceptSound ==
  ASSUME Sound, ~twice, accept_handler
  PROVE  Sound' /\ ~twice'
<1>1. CASE UNCHANGED <<memory, clients>>
  <2>1. Moves /\ UNCHANGED <<obj, filled, conns, worker, twice, queue>>
    <3>1. nth \in Int /\ nth' = nth
      BY DEF Sound, CountersSound, accept_handler
    <3> QED
      BY <1>1, <3>1 DEF accept_handler, At, Moves, LoopSteps, memory, clients, control, timer
  <2>2. BatchSound' /\ DOMAIN batch' = Loop
    BY <2>1, BatchKept DEF accept_handler, NextEvent
  <2> QED
    BY <2>1, <2>2, MovesSound
<1>2. CASE ~UNCHANGED <<memory, clients>>
  <2>1. PICK c : c = CHOOSE d \in Conn : obj[<<"conn", d>>] = "none"
    OBVIOUS
  <2>2. /\ main = "loop" /\ main' = "loop" /\ Make({<<"conn", c>>}) /\ conns' = Append(conns, c)
        /\ batch[Main] # <<>> /\ Head(batch[Main]) = "accept" /\ Handled(Main)
        /\ UNCHANGED <<nth, filled, kvs, worker, queue, owner, thread>>
    BY <1>2, <2>1 DEF accept_handler, At, NextEvent, control, timer
  <2>3. \E d \in Conn : obj[<<"conn", d>>] = "none"
    <3>1. 1 \in DOMAIN batch[Main] /\ batch[Main][1] = "accept"
      BY <2>2 DEF Sound, BatchSound
    <3> QED
      BY <3>1 DEF Sound, BatchSound, ConnOf
  <2>4. c \in Conn /\ obj[<<"conn", c>>] = "none"
    BY <2>1, <2>3
  <2>5. /\ obj' \in [Object -> {"none", "live", "freed"}] /\ twice' = twice
        /\ \A x \in Object : obj'[x] = IF x = <<"conn", c>> THEN "live" ELSE obj[x]
    BY <2>2, MakeEffect DEF Sound
  <2>6. /\ \A p \in PartName : obj'[<<p, 0>>] = obj[<<p, 0>>]
        /\ \A d \in Conn : obj'[<<"conn", d>>] = IF d = c THEN "live" ELSE obj[<<"conn", d>>]
        /\ \A t \in Loop : obj'[<<"loop", t>>] = obj[<<"loop", t>>]
        /\ \A w \in Worker : obj'[<<"thread", w>>] = obj[<<"thread", w>>]
    BY <2>5, Objects DEF PartName
  <2> USE <2>2, ServerAssumption
      DEF Sound, Part, LoopOf, ThreadOf, ConnOf, Looping, Whole, Joining, Over, Gone
  <2>7. TypesSound'
    BY <2>5 DEF TypesSound, Handled
  <2>8. CountersSound'
    BY DEF CountersSound
  <2>9. PartsSound'
    BY <2>6 DEF PartsSound, PartName
  <2>10. ThreadsSound'
    BY <2>6, Objects DEF ThreadsSound, CountersSound
  <2>11. ConnsSound'
    <3>1. conns \in Seq(Conn) /\ \A n \in DOMAIN conns : conns[n] # c
      BY <2>4 DEF ConnsSound
    <3>2. /\ conns' \in Seq(Conn) /\ Len(conns) \in Nat
          /\ DOMAIN conns = 1 .. Len(conns) /\ DOMAIN conns' = 1 .. (Len(conns) + 1)
          /\ \A n \in DOMAIN conns : conns'[n] = conns[n]
          /\ conns'[Len(conns) + 1] = c
      BY <2>4, <3>1
    <3>3. \A m, n \in DOMAIN conns' : conns'[m] = conns'[n] => m = n
      BY <3>1, <3>2 DEF ConnsSound
    <3>4. \A d \in Conn : (\E n \in DOMAIN conns' : conns'[n] = d)
                            <=> d = c \/ \E n \in DOMAIN conns : conns[n] = d
      BY <3>2
    <3> QED
      BY <2>6, <3>2, <3>3, <3>4 DEF ConnsSound
  <2>12. BatchSound'
    <3>1. batch'[Main] = Tail(batch[Main])
      BY Objects DEF TypesSound, Handled
    <3>2. \A n \in DOMAIN batch'[Main] : batch'[Main][n] # "accept"
      BY <3>1, TailBatch
    <3>3. \A n \in DOMAIN batch'[Main] : batch'[Main][n] = "ctrl" => queue[Main] # <<>>
      BY <3>1, TailBatch DEF BatchSound
    <3> QED
      BY <3>1, <3>2, <3>3, TailBatch DEF BatchSound
  <2>13. TimerSound'
    BY <2>6 DEF TimerSound, PartName
  <2> QED
    BY <2>5, <2>7, <2>8, <2>9, <2>10, <2>11, <2>12, <2>13
<1> QED
  BY <1>1, <1>2

-----------------------------------------------------------------------------
(* KVS_Delete *)

\* One part is freed, and the main thread goes on.
PartFreed(p) ==
  /\ obj' \in [Object -> {"none", "live", "freed"}] /\ ~twice'
  /\ obj'[<<p, 0>>] # "live" /\ (obj[<<p, 0>>] # "none" => obj'[<<p, 0>>] # "none")
  /\ \A q \in PartName \ {p} : obj'[<<q, 0>>] = obj[<<q, 0>>]
  /\ \A t \in Loop : obj'[<<"loop", t>>] = obj[<<"loop", t>>]
  /\ \A w \in Worker : obj'[<<"thread", w>>] = obj[<<"thread", w>>]
  /\ \A c \in Conn : obj'[<<"conn", c>>] = obj[<<"conn", c>>]

LEMMA PartGoes ==
  ASSUME Sound, ~twice, NEW p \in PartName, Part(p) # "freed",
         (Free({<<p, 0>>}) /\ Part(p) = "live") \/ Free(There({<<p, 0>>}))
  PROVE  PartFreed(p)
<1>1. <<p, 0>> \in Object /\ obj[<<p, 0>>] \in {"none", "live"}
  BY Objects DEF Sound, TypesSound, Part
<1>2. CASE obj[<<p, 0>>] = "live"
  <2>1. Free({<<p, 0>>})
    <3>1. There({<<p, 0>>}) = {<<p, 0>>}
      BY <1>2 DEF There
    <3> QED
      BY <3>1
  <2> QED
    BY <1>1, <1>2, <2>1, OneFreed DEF PartFreed, PartName
<1>3. CASE obj[<<p, 0>>] = "none"
  <2>1. There({<<p, 0>>}) = {}
    BY <1>3 DEF There
  <2>2. Free({})
    BY <1>3, <2>1 DEF Part
  <2>3. obj' \in [Object -> {"none", "live", "freed"}] /\ ~twice' /\ \A x \in Object : obj'[x] = obj[x]
    BY <2>2, FreeEffect DEF Sound
  <2> QED
    BY <1>1, <1>3, <2>3, Objects DEF PartFreed
<1> QED
  BY <1>1, <1>2, <1>3

LEMMA HashTable_DeleteSound ==
  ASSUME Sound, ~twice, HashTable_Delete
  PROVE  Sound' /\ ~twice'
<1>1. /\ main = "delete"
      /\ main' = IF obj[<<"connectionList", 0>>] = "live" THEN "deleteConns" ELSE "deleteTimer"
      /\ UNCHANGED <<nth, filled, kvs, worker, batch, queue, conns, owner, thread>>
  BY DEF HashTable_Delete, At, Live, control, clients, timer
<1>2. PartFreed("db")
  BY <1>1, PartGoes DEF HashTable_Delete, PartName, Sound, PartsSound
<1> USE <1>1, <1>2, ServerAssumption
    DEF Sound, Part, LoopOf, ThreadOf, ConnOf, Looping, Whole, Joining, Over, Gone, PartFreed, PartName
<1>3. TypesSound'
  BY DEF TypesSound
<1>4. CountersSound'
  BY DEF CountersSound
<1>5. PartsSound'
  BY DEF PartsSound
<1>6. ThreadsSound'
  BY Objects DEF ThreadsSound
<1>7. ConnsSound'
  BY DEF ConnsSound
<1>8. BatchSound'
  BY DEF BatchSound
<1>9. TimerSound'
  BY DEF TimerSound
<1> QED
  BY <1>3, <1>4, <1>5, <1>6, <1>7, <1>8, <1>9

LEMMA Connection_DeleteSound ==
  ASSUME Sound, ~twice, Connection_Delete
  PROVE  Sound' /\ ~twice'
<1>1. /\ main = "deleteConns" /\ main' = main /\ conns # <<>> /\ conns' = Tail(conns)
      /\ UNCHANGED <<nth, filled, kvs, worker, batch, queue, owner, thread>>
  BY DEF Connection_Delete, At, control, timer
<1>2. PICK c : c = Head(conns)
  OBVIOUS
<1>3. /\ conns \in Seq(Conn) /\ c \in Conn /\ c = conns[1] /\ 1 \in DOMAIN conns
      /\ conns' \in Seq(Conn) /\ DOMAIN conns = 1 .. Len(conns) /\ Len(conns) \in Nat
      /\ DOMAIN conns' = 1 .. (Len(conns) - 1)
      /\ \A n \in 1 .. (Len(conns) - 1) : conns'[n] = conns[n + 1]
  BY <1>1, <1>2 DEF Sound, ConnsSound
<1>4. obj[<<"conn", c>>] = "live"
  BY <1>3 DEF Sound, ConnsSound, ConnOf
<1>5. /\ obj' \in [Object -> {"none", "live", "freed"}] /\ ~twice' /\ obj'[<<"conn", c>>] = "freed"
      /\ \A p \in PartName : obj'[<<p, 0>>] = obj[<<p, 0>>]
      /\ \A t \in Loop : obj'[<<"loop", t>>] = obj[<<"loop", t>>]
      /\ \A w \in Worker : obj'[<<"thread", w>>] = obj[<<"thread", w>>]
      /\ \A d \in Conn \ {c} : obj'[<<"conn", d>>] = obj[<<"conn", d>>]
  BY <1>2, <1>3, <1>4, OneFreed, Objects DEF Connection_Delete, PartName
<1> USE <1>1, <1>5, ServerAssumption
    DEF Sound, Part, LoopOf, ThreadOf, ConnOf, Looping, Whole, Joining, Over, Gone
<1>6. TypesSound'
  BY DEF TypesSound
<1>7. CountersSound'
  BY DEF CountersSound
<1>8. PartsSound'
  BY DEF PartsSound, PartName
<1>9. ThreadsSound'
  BY Objects DEF ThreadsSound
<1>10. ConnsSound'
  <2>1. \A m, n \in DOMAIN conns' : conns'[m] = conns'[n] => m = n
    <3> SUFFICES ASSUME NEW m \in DOMAIN conns', NEW n \in DOMAIN conns', conns'[m] = conns'[n]
                 PROVE  m = n
      OBVIOUS
    <3>1. m + 1 \in DOMAIN conns /\ n + 1 \in DOMAIN conns /\ conns[m + 1] = conns[n + 1]
      BY <1>3
    <3>2. m + 1 = n + 1
      BY <3>1 DEF ConnsSound
    <3> QED
      BY <1>3, <3>2
  <2>2. ASSUME NEW d \in Conn
        PROVE  (\E n \in DOMAIN conns' : conns'[n] = d) <=> d # c /\ \E n \in DOMAIN conns : conns[n] = d
    <3>1. ASSUME NEW n \in DOMAIN conns', conns'[n] = d
          PROVE  d # c /\ \E m \in DOMAIN conns : conns[m] = d
      <4>1. n + 1 \in DOMAIN conns /\ conns[n + 1] = d /\ n + 1 # 1
        BY <1>3, <3>1
      <4> QED
        BY <1>3, <4>1 DEF ConnsSound
    <3>2. ASSUME NEW n \in DOMAIN conns, conns[n] = d, d # c
          PROVE  \E m \in DOMAIN conns' : conns'[m] = d
      <4>1. n - 1 \in DOMAIN conns' /\ (n - 1) + 1 = n
        BY <1>3, <3>2
      <4>2. conns'[n - 1] = d
        BY <1>3, <3>2, <4>1
      <4> QED
        BY <4>1, <4>2
    <3> QED
      BY <3>1, <3>2
  <2>3. \A d \in Conn : obj'[<<"conn", d>>] = "live" <=> \E n \in DOMAIN conns' : conns'[n] = d
    BY <2>2, ZenonT(40) DEF ConnsSound
  <2> QED
    BY <1>3, <2>1, <2>3 DEF ConnsSound
<1>11. BatchSound'
  <2>1. \A d \in Conn : obj[<<"conn", d>>] = "none" => obj'[<<"conn", d>>] = "none"
    BY <1>4
  <2> QED
    BY <2>1 DEF BatchSound
<1>12. TimerSound'
  BY DEF TimerSound, PartName
<1> QED
  BY <1>6, <1>7, <1>8, <1>9, <1>10, <1>11, <1>12

LEMMA LinkedList_DeleteSound ==
  ASSUME Sound, ~twice, LinkedList_Delete
  PROVE  Sound' /\ ~twice'
<1>1. /\ main = "deleteConns" /\ main' = "deleteTimer" /\ conns = <<>>
      /\ UNCHANGED <<nth, filled, kvs, worker, batch, queue, conns, owner, thread>>
  BY DEF LinkedList_Delete, At, clients, timer
<1>2. PartFreed("connectionList")
  BY <1>1, PartGoes DEF LinkedList_Delete, PartName, Sound, PartsSound
<1> USE <1>1, <1>2, ServerAssumption
    DEF Sound, Part, LoopOf, ThreadOf, ConnOf, Looping, Whole, Joining, Over, Gone, PartFreed, PartName
<1>3. TypesSound'
  BY DEF TypesSound
<1>4. CountersSound'
  BY DEF CountersSound
<1>5. PartsSound'
  BY DEF PartsSound
<1>6. ThreadsSound'
  BY Objects DEF ThreadsSound
<1>7. ConnsSound'
  BY DEF ConnsSound
<1>8. BatchSound'
  BY DEF BatchSound
<1>9. TimerSound'
  BY DEF TimerSound
<1> QED
  BY <1>3, <1>4, <1>5, <1>6, <1>7, <1>8, <1>9

LEMMA DeleteMovesSound ==
  ASSUME Sound, ~twice, DeleteTimer \/ Abort
  PROVE  Sound' /\ ~twice'
<1>1. Moves /\ UNCHANGED <<obj, filled, conns, worker, batch, twice, queue>>
  BY DEF DeleteTimer, Abort, Moves, At, Live, Part, T!TimerThread_Delete, clients, memory, control,
     timer
<1> QED
  BY <1>1, MovesSound, QueueStays

\* The timer is freed when its thread has ended, or if it was never created.
LEMMA JoinTimerSound ==
  ASSUME Sound, ~twice, JoinTimer
  PROVE  Sound' /\ ~twice'
<1>1. /\ main = "joinTimer" /\ main' = "deleteThreads"
      /\ owner' \in {"freed", "undefined"} /\ thread' = thread /\ thread \in {"none", "done"}
      /\ UNCHANGED <<nth, filled, kvs, worker, batch, queue, conns>>
  BY DEF JoinTimer, At, T!JoinAndFree, control, clients
<1>2. PartFreed("timerThread") /\ obj[<<"timerThread", 0>>] = "live"
  BY <1>1, PartGoes DEF JoinTimer, PartName, Sound, PartsSound, Part
<1> USE <1>1, <1>2, ServerAssumption
    DEF Sound, Part, LoopOf, ThreadOf, ConnOf, Looping, Whole, Joining, Over, Gone, PartFreed,
        PartName, Worker
<1>3. TypesSound'
  BY DEF TypesSound
<1>4. CountersSound'
  BY DEF CountersSound
<1>5. PartsSound'
  BY DEF PartsSound
<1>6. ThreadsSound'
  BY Objects DEF ThreadsSound, CountersSound
<1>7. ConnsSound'
  BY DEF ConnsSound
<1>8. BatchSound'
  BY DEF BatchSound
<1>9. TimerSound'
  BY DEF TimerSound
<1> QED
  BY <1>3, <1>4, <1>5, <1>6, <1>7, <1>8, <1>9

\* Worker nth has not been joined: its event loop goes, ...
LEMMA EventLoop_DeleteSound ==
  ASSUME Sound, ~twice, EventLoop_Delete
  PROVE  Sound' /\ ~twice'
<1>1. /\ main = "deleteThreads" /\ main' = "join" /\ nth < filled
      /\ UNCHANGED <<nth, filled, kvs, worker, batch, queue, conns, owner, thread>>
  BY DEF EventLoop_Delete, At, control, clients, timer
<1>2. PICK n \in Worker : n = nth
  BY <1>1, ServerAssumption DEF Sound, CountersSound, Worker
<1>3. obj[<<"loop", n>>] = "live"
  BY <1>1, <1>2, ServerAssumption
     DEF Sound, ThreadsSound, CountersSound, Gone, Over, Joining, LoopOf, Worker
<1>4. /\ obj' \in [Object -> {"none", "live", "freed"}] /\ ~twice' /\ obj'[<<"loop", n>>] = "freed"
      /\ \A p \in PartName : obj'[<<p, 0>>] = obj[<<p, 0>>]
      /\ \A t \in Loop \ {n} : obj'[<<"loop", t>>] = obj[<<"loop", t>>]
      /\ \A w \in Worker : obj'[<<"thread", w>>] = obj[<<"thread", w>>]
      /\ \A c \in Conn : obj'[<<"conn", c>>] = obj[<<"conn", c>>]
  BY <1>2, <1>3, OneFreed, Objects DEF EventLoop_Delete, PartName
<1> USE <1>1, <1>2, <1>4, ServerAssumption
    DEF Sound, Part, LoopOf, ThreadOf, ConnOf, Looping, Whole, Joining, Over, Gone, PartName, Worker
<1>5. TypesSound'
  BY DEF TypesSound
<1>6. CountersSound'
  BY DEF CountersSound
<1>7. PartsSound'
  BY DEF PartsSound
<1>8. ThreadsSound'
  BY Objects DEF ThreadsSound, CountersSound
<1>9. ConnsSound'
  BY DEF ConnsSound
<1>10. BatchSound'
  BY DEF BatchSound
<1>11. TimerSound'
  BY DEF TimerSound
<1> QED
  BY <1>5, <1>6, <1>7, <1>8, <1>9, <1>10, <1>11

\* ... and when it has ended, or if it never was, the KVSThread.
LEMMA JoinWorkerSound ==
  ASSUME Sound, ~twice, JoinWorker
  PROVE  Sound' /\ ~twice'
<1>1. /\ main = "join" /\ main' = "deleteThreads" /\ nth' = nth + 1
      /\ worker[nth] \in {"ended", "none"}
      /\ UNCHANGED <<filled, kvs, worker, batch, queue, conns, owner, thread>>
  BY DEF JoinWorker, At, control, clients, timer
<1>2. PICK n \in Worker : n = nth /\ n < filled
  BY <1>1, ServerAssumption DEF Sound, CountersSound, Worker
<1>3. obj[<<"thread", n>>] = "live"
  BY <1>1, <1>2, ServerAssumption
     DEF Sound, ThreadsSound, CountersSound, Gone, Over, Joining, ThreadOf, Worker
<1>4. /\ obj' \in [Object -> {"none", "live", "freed"}] /\ ~twice' /\ obj'[<<"thread", n>>] = "freed"
      /\ \A p \in PartName : obj'[<<p, 0>>] = obj[<<p, 0>>]
      /\ \A t \in Loop : obj'[<<"loop", t>>] = obj[<<"loop", t>>]
      /\ \A w \in Worker \ {n} : obj'[<<"thread", w>>] = obj[<<"thread", w>>]
      /\ \A c \in Conn : obj'[<<"conn", c>>] = obj[<<"conn", c>>]
  BY <1>2, <1>3, OneFreed, Objects DEF JoinWorker, PartName
<1> USE <1>1, <1>2, <1>4, ServerAssumption
    DEF Sound, Part, LoopOf, ThreadOf, ConnOf, Looping, Whole, Joining, Over, Gone, PartName, Worker
<1>5. TypesSound'
  BY DEF TypesSound
<1>6. CountersSound'
  BY DEF CountersSound
<1>7. PartsSound'
  BY DEF PartsSound
<1>8. ThreadsSound'
  BY Objects DEF ThreadsSound, CountersSound
<1>9. ConnsSound'
  BY DEF ConnsSound
<1>10. BatchSound'
  BY DEF BatchSound
<1>11. TimerSound'
  BY DEF TimerSound
<1> QED
  BY <1>5, <1>6, <1>7, <1>8, <1>9, <1>10, <1>11

LEMMA KVS_FreedSound ==
  ASSUME Sound, ~twice, KVS_Freed
  PROVE  Sound' /\ ~twice'
<1> DEFINE S == {<<"kvs", 0>>} \cup There({<<"kvsThreads", 0>>})
<1>1. /\ main = "deleteThreads" /\ main' = (IF kvs THEN "exit" ELSE "error") /\ nth = filled
      /\ Free(S)
      /\ UNCHANGED <<nth, filled, kvs, worker, batch, queue, conns, owner, thread>>
  BY DEF KVS_Freed, At, control, clients, timer
<1>2. /\ obj[<<"kvs", 0>>] = "live" /\ obj[<<"kvsThreads", 0>>] \in {"none", "live"}
      /\ <<"kvs", 0>> \in Object /\ <<"kvsThreads", 0>> \in Object
  BY <1>1, Objects DEF Sound, PartsSound, TypesSound, Part, PartName, Whole, Looping, Over
<1>3. \A x : x \in S <=> x = <<"kvs", 0>> \/ (x = <<"kvsThreads", 0>> /\ obj[x] = "live")
  BY <1>2 DEF There
<1>4. \A x \in S : obj[x] = "live"
  BY <1>2, <1>3
<1> HIDE DEF S
<1>5. /\ obj' \in [Object -> {"none", "live", "freed"}] /\ ~twice'
      /\ \A x \in Object : obj'[x] = IF x \in S THEN "freed" ELSE obj[x]
  BY <1>1, <1>4, FreeEffect DEF Sound
<1>6. /\ obj'[<<"kvs", 0>>] # "live" /\ obj'[<<"kvsThreads", 0>>] # "live"
      /\ \A p \in PartName \ {"kvs", "kvsThreads"} : obj'[<<p, 0>>] = obj[<<p, 0>>]
      /\ \A t \in Loop : obj'[<<"loop", t>>] = obj[<<"loop", t>>]
      /\ \A w \in Worker : obj'[<<"thread", w>>] = obj[<<"thread", w>>]
      /\ \A c \in Conn : obj'[<<"conn", c>>] = obj[<<"conn", c>>]
  BY <1>2, <1>3, <1>5, Objects DEF PartName
<1> USE <1>1, <1>5, <1>6, ServerAssumption
    DEF Sound, Part, LoopOf, ThreadOf, ConnOf, Looping, Whole, Joining, Over, Gone, PartName, Worker
<1>7. TypesSound'
  BY DEF TypesSound
<1>8. CountersSound'
  BY DEF CountersSound
<1>9. PartsSound'
  BY DEF PartsSound
<1>10. ThreadsSound'
  BY Objects DEF ThreadsSound, CountersSound
<1>11. ConnsSound'
  BY DEF ConnsSound
<1>12. BatchSound'
  BY DEF BatchSound
<1>13. TimerSound'
  BY DEF TimerSound
<1> QED
  BY <1>7, <1>8, <1>9, <1>10, <1>11, <1>12, <1>13

-----------------------------------------------------------------------------
(* The theorems *)

LEMMA InitSound == Init => SInv
<1> SUFFICES ASSUME Init PROVE Sound /\ ~twice
  BY DEF SInv
<1> USE ServerAssumption, Objects
    DEF Init, Part, LoopOf, ThreadOf, ConnOf, Looping, Whole, Joining, Over, Gone, PartName
<1>1. TypesSound
  BY DEF TypesSound
<1>2. CountersSound
  BY DEF CountersSound
<1>3. PartsSound
  BY DEF PartsSound
<1>4. ThreadsSound
  BY DEF ThreadsSound, CountersSound, Worker
<1>5. ConnsSound
  BY DEF ConnsSound
<1>6. BatchSound
  BY DEF BatchSound
<1>7. TimerSound
  BY DEF TimerSound, T!Init
<1> QED
  BY <1>1, <1>2, <1>3, <1>4, <1>5, <1>6, <1>7 DEF Sound

LEMMA NextSound == SInv /\ [Next]_vars => SInv'
<1> SUFFICES ASSUME SInv, [Next]_vars PROVE SInv'
  OBVIOUS
<1>1. CASE UNCHANGED vars
  <2>1. UNCHANGED <<main, nth, filled, kvs, obj, twice, worker, batch, queue, conns, owner, thread>>
    BY <1>1 DEF vars, memory, control, clients, timer
  <2>2. Sound => Sound'
    BY <2>1, OthersSound, QueueStays DEF Sound, TypesSound
  <2> QED
    BY <2>1, <2>2 DEF SInv
<1>2. ASSUME Next
      PROVE  SInv'
  <2>1. Sound /\ ~twice
    BY <1>2 DEF SInv, Next, Running
  <2>2. CASE Start
    BY <2>1, <2>2, KVS_NewSound, KVSThread_NewSound, StartTimerSound, MainloopStartsSound, ObserveSound
       DEF Start, SInv
  <2>3. CASE Serve \/ MainWaits
    BY <2>1, <2>3, AcceptSound, MainLoopSound, MainloopEndsSound DEF Serve, SInv
  <2>4. CASE KVS_Delete
    BY <2>1, <2>4, HashTable_DeleteSound, Connection_DeleteSound, LinkedList_DeleteSound,
       DeleteMovesSound, JoinTimerSound, EventLoop_DeleteSound, JoinWorkerSound, KVS_FreedSound
       DEF KVS_Delete, SInv
  <2>5. CASE \/ \E w \in Worker : WorkerStep(w) \/ EpollReturns(w)
             \/ TimerRuns \/ TimerUsesFreed \/ TimerWakesUp \/ \E t \in Loop : Stray(t)
    BY <2>1, <2>5, OtherSteps DEF SInv
  <2>6. CASE termsignal_handler
    BY <2>1, <2>6, SignalSound DEF SInv
  <2> QED
    BY <1>2, <2>2, <2>3, <2>4, <2>5, <2>6 DEF Next
<1> QED
  BY <1>1, <1>2

\* The process keeps its books from the start to the exit, with any number of
\* workers and clients: the invariant the two theorems below rest on.
THEOREM ServerInvariance == Spec => []SInv
  BY InitSound, NextSound, PTL DEF Spec

\* However far the start gets before a call fails, and in whatever order
\* clients, signals and control connections come, what is freed was allocated,
\* and is freed once.
THEOREM ServerFreesOnce == Spec => []FreedOnce
<1>1. SInv => FreedOnce
  BY DEF SInv, FreedOnce
<1> QED
  BY <1>1, ServerInvariance, PTL

\* When main returns everything has been freed and every thread has ended.
THEOREM ServerExitsClean == Spec => []CleanExit
<1>1. SInv => CleanExit
  <2> SUFFICES ASSUME Sound, main = "exit"
               PROVE  /\ \A x \in Object : obj[x] # "live"
                      /\ \A w \in Worker : worker[w] \in {"none", "ended"}
                      /\ thread \in {"none", "done"}
    BY DEF SInv, CleanExit
  <2>1. Over /\ ~Looping /\ ~Joining
    BY DEF Over, Looping, Joining
  <2>2. \A p \in PartName : obj[<<p, 0>>] # "live"
    BY <2>1 DEF Sound, PartsSound, Part
  <2>3. \A w \in Worker : /\ obj[<<"thread", w>>] # "live" /\ obj[<<"loop", w>>] # "live"
                          /\ worker[w] \in {"none", "ended"}
    BY <2>1 DEF Sound, ThreadsSound, Gone, ThreadOf, LoopOf
  <2>4. obj[<<"loop", Main>>] # "live"
    BY <2>1 DEF Sound, ThreadsSound, LoopOf
  <2>5. \A c \in Conn : obj[<<"conn", c>>] # "live"
    <3>1. DOMAIN conns = {}
      BY <2>1 DEF Sound, ConnsSound
    <3> QED
      BY <3>1 DEF Sound, ConnsSound, ConnOf
  <2>6. thread \in {"none", "done"}
    BY <2>1 DEF Sound, TimerSound
  <2>7. \A x \in Object : obj[x] # "live"
    BY <2>2, <2>3, <2>4, <2>5 DEF Object, Parts, PartName, Loop
  <2> QED
    BY <2>3, <2>6, <2>7
<1> QED
  BY <1>1, ServerInvariance, PTL
=============================================================================
