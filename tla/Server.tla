------------------------------- MODULE Server -------------------------------
(***************************************************************************)
(* The life of the server process: main and mainloop of src/src/main.c,    *)
(* KVS_New, KVS_Observe, KVS_Ctrl and KVS_Delete of src/src/kvs.c, the     *)
(* worker threads of src/src/kvsthread.c, the event loops of               *)
(* src/src/pal/pal_linux.c and the control sockets of src/src/utils.c.     *)
(*                                                                         *)
(* Everything the process allocates is an object that is made and freed;   *)
(* a thread that uses one after that sets fault, and the model stops.      *)
(* The timer is the one of TimerThread, without its clock: its Interval is *)
(* 0 here, so that a wait may time out whenever its thread is scheduled.   *)
(***************************************************************************)
EXTENDS Integers, Sequences, FiniteSets, SequencesExt

CONSTANTS
  ThreadsNum,                             \* THREADS_NUM
  Conn,                                   \* the clients that connect
  MaxTerm,                                \* bound on the number of SIGTERMs
  MaxMishaps,                             \* bound on what goes wrong: failed calls and stray
                                          \* control connections
  NSPerSec, Interval, MaxSec, MaxLate     \* see TimerThread

Worker == 0 .. (ThreadsNum - 1)
Main == -1                       \* the main thread, next to the workers
Loop == Worker \cup {Main}       \* who has an event loop and a control socket

ASSUME ServerAssumption ==
  /\ ThreadsNum \in Nat \ {0} /\ MaxTerm \in Nat /\ MaxMishaps \in Nat
  /\ IsFiniteSet(Conn)

VARIABLES
  main,          \* where the main thread is
  nth,           \* the counter of its loops over the threads
  filled,        \* how many elements of kvsThreads are not NULL
  kvs,           \* is the variable kvs of main set?
  handler,       \* is termsignal_handler installed?
  obj,           \* what is allocated
  twice,         \* has anything been freed that was not allocated?
  worker,        \* where each worker thread is
  batch,         \* the events an event loop has still to handle
  sock,          \* control sockets
  queue,         \* the connections waiting at each control socket, by what they bring
  watched,       \* the control sockets that are registered with their event loop
  untold,        \* the control sockets SendShutdownCmd has failed for
  conns,         \* connectionList
  given,         \* the worker each connection is registered with
  nextThread,
  terms, mishaps, \* SIGTERMs, and what has gone wrong, so far
  fault,         \* has freed memory been used?
  clock, next, thread, owner, since       \* see TimerThread

timer == <<clock, next, thread, owner, since>>
control == <<sock, queue, watched, untold>>
clients == <<conns, given, nextThread>>
memory == <<obj, twice>>
vars == <<main, nth, filled, kvs, handler, memory, worker, batch, control, clients,
          terms, mishaps, fault, timer>>

T == INSTANCE TimerThread

-----------------------------------------------------------------------------
(* What is allocated *)

Parts == {<<p, 0>> : p \in {"kvs", "db", "connectionList", "kvsThreads", "timerThread"}}
Object == Parts \cup {<<"loop", t>> : t \in Loop}
                \cup {<<"thread", w>> : w \in Worker} \cup {<<"conn", c>> : c \in Conn}

Live(part, n) == obj[<<part, n>>] = "live"
Make(S) == /\ obj' = [x \in Object |-> IF x \in S THEN "live" ELSE obj[x]]
           /\ UNCHANGED twice
Free(S) == /\ obj' = [x \in Object |-> IF x \in S THEN "freed" ELSE obj[x]]
           /\ twice' = (twice \/ \E x \in S : obj[x] # "live")

\* What of S is there to be freed.
There(S) == {x \in S : obj[x] # "none"}

Init ==
  /\ main = "start" /\ nth = 0 /\ filled = 0
  /\ kvs = FALSE /\ handler = FALSE
  /\ obj = [x \in Object |-> "none"] /\ twice = FALSE
  /\ worker = [w \in Worker |-> "none"]
  /\ batch = [t \in Loop |-> <<>>]
  /\ sock = [t \in Loop |-> "none"] /\ queue = [t \in Loop |-> <<>>]
  /\ watched = {} /\ untold = {}
  /\ conns = <<>> /\ given = [c \in Conn |-> Main] /\ nextThread = 0
  /\ terms = 0 /\ mishaps = 0 /\ fault = FALSE
  /\ T!Init

Running == main \notin {"exit", "killed"} /\ ~fault

Fails == mishaps < MaxMishaps /\ mishaps' = mishaps + 1
Succeeds == UNCHANGED mishaps

At(here, there) == main = here /\ main' = there

-----------------------------------------------------------------------------
(* Control connections *)

\* SendShutdownCmd connects and sends.  When there is no socket or nobody
\* listens, nothing arrives; when send fails, the connection stays open, mute.
SendShutdownCmd(t) ==
  /\ \/ /\ sock[t] = "listening" /\ Succeeds
        /\ queue' = [queue EXCEPT ![t] = Append(@, "SHUTDOWN")]
        /\ UNCHANGED untold
     \/ /\ sock[t] # "listening" /\ Succeeds
        /\ untold' = untold \cup {t}
        /\ UNCHANGED queue
     \/ /\ Fails
        /\ untold' = untold \cup {t}
        /\ queue' \in {queue} \cup {[queue EXCEPT ![t] = Append(@, "mute")] :
                                       s \in {sock[t]} \cap {"listening"}}
  /\ UNCHANGED <<sock, watched>>

\* Another process connects, and sends something else or closes at once.
Stray(t) ==
  /\ Fails
  /\ sock[t] = "listening"
  /\ \E m \in {"other", "closed"} : queue' = [queue EXCEPT ![t] = Append(@, m)]
  /\ UNCHANGED <<main, nth, filled, kvs, handler, memory, worker, batch, sock, watched,
                 untold, clients, terms, fault, timer>>

\* SIGTERM runs its handler in any thread; one that is in epoll_wait then calls
\* it again.
termsignal_handler ==
  /\ terms < MaxTerm
  /\ terms' = terms + 1
  /\ \/ /\ handler
        /\ SendShutdownCmd(Main)
        /\ \/ UNCHANGED worker
           \/ \E w \in Worker : /\ worker[w] = "blocked"
                                /\ worker' = [worker EXCEPT ![w] = "handle"]
        /\ UNCHANGED main
     \/ /\ ~handler
        /\ main' = "killed"
        /\ UNCHANGED <<control, worker, mishaps>>
  /\ UNCHANGED <<nth, filled, kvs, handler, memory, batch, clients, fault, timer>>

-----------------------------------------------------------------------------
(* Start *)

\* The socket is bound and KVS_New allocates the parts, until one fails; the
\* list is allocated with db, without a test.
KVS_New ==
  \/ /\ At("start", "error") /\ Fails
     /\ UNCHANGED <<nth, filled, kvs, handler, memory, worker, batch, control, clients,
                    terms, fault, timer>>
  \/ /\ \/ At("start", "threads") /\ Succeeds
        \/ At("start", "delete") /\ Fails
     /\ \E made \in {{}, {"db", "connectionList"}, {"db", "connectionList", "kvsThreads"},
                    {"db", "connectionList", "kvsThreads", "timerThread"}} :
          /\ main' = "threads" <=> "timerThread" \in made
          /\ Make({<<"kvs", 0>>} \cup {<<p, 0>> : p \in made})
     /\ UNCHANGED <<nth, filled, kvs, handler, worker, batch, control, clients,
                    terms, fault, timer>>

\* A worker starts at once.  A pthread_create that fails returns a positive
\* number and passes for a success.  If there is no event loop the KVSThread is
\* freed, and KVS_New ends with KVS_Delete.
KVSThread_New ==
  /\ nth < ThreadsNum
  /\ \/ /\ At("threads", "threads")
        /\ Make({<<"thread", nth>>, <<"loop", nth>>})
        /\ \/ worker' = [worker EXCEPT ![nth] = "handle"] /\ Succeeds
           \/ UNCHANGED worker /\ Fails
        /\ filled' = filled + 1 /\ nth' = nth + 1
     \/ /\ At("threads", "delete") /\ Fails
        /\ UNCHANGED <<memory, worker, filled, nth>>
  /\ UNCHANGED <<kvs, handler, batch, control, clients, terms, fault, timer>>

StartTimer ==
  /\ nth = ThreadsNum
  /\ At("threads", "listen")
  /\ T!TimerThread_Start
  /\ IF thread' = "none" THEN Fails ELSE Succeeds
  /\ kvs' = TRUE
  /\ UNCHANGED <<nth, filled, handler, memory, worker, batch, control, clients,
                 terms, fault>>

\* listen, and the first part of mainloop.
MainloopStarts ==
  /\ \/ /\ At("listen", "error") \/ At("listen", "delete")
        /\ Fails
        /\ UNCHANGED <<memory, handler>>
     \/ /\ At("listen", "observe") /\ Succeeds
        /\ Make({<<"loop", Main>>})
        /\ handler' = TRUE
  /\ nth' = Main
  /\ UNCHANGED <<filled, kvs, worker, batch, control, clients, terms, fault, timer>>

\* The control sockets, that of the main thread first.  Whether a worker's loop
\* watches its socket is not looked at; any other failure ends mainloop.
KVS_Observe ==
  /\ nth < ThreadsNum
  /\ \/ /\ At("observe", "observe")
        /\ sock' = [sock EXCEPT ![nth] = "listening"]
        /\ \/ watched' = watched \cup {nth} /\ Succeeds
           \/ nth # Main /\ UNCHANGED watched /\ Fails
        /\ nth' = nth + 1
        /\ UNCHANGED memory
     \/ /\ At("observe", "delete") /\ Fails
        /\ sock' \in {sock, [sock EXCEPT ![Main] = "listening"]}
        /\ Free({<<"loop", Main>>})
        /\ UNCHANGED <<watched, nth>>
  /\ UNCHANGED <<filled, kvs, handler, worker, batch, queue, untold, clients, terms,
                 fault, timer>>

\* The listening socket is registered.
MainloopRuns ==
  /\ nth = ThreadsNum
  /\ \/ At("observe", "loop") /\ UNCHANGED memory /\ Succeeds
     \/ At("observe", "delete") /\ Free({<<"loop", Main>>}) /\ Fails
  /\ UNCHANGED <<nth, filled, kvs, handler, worker, batch, control, clients, terms,
                 fault, timer>>

-----------------------------------------------------------------------------
(* The event loops *)

ControlReady(t) == t \in watched /\ queue[t] # <<>>

\* What epoll_wait may return: everything that is ready, in any order; a client
\* makes its connection, or the listening socket, ready when it likes.
Events(t) ==
  LET sure == IF ControlReady(t) THEN {"ctrl"} ELSE {}
      maybe == IF t = Main THEN {"accept" : c \in {d \in Conn : obj[<<"conn", d>>] = "none"}}
               ELSE {c \in Conn : given[c] = t /\ Live("conn", c)}
  IN {e \in SetToAllKPermutations(sure \cup maybe) : e # <<>> /\ sure \subseteq Range(e)}

\* The main loop waits ...
MainWaits ==
  /\ At("loop", "loop")
  /\ batch[Main] = <<>>
  /\ \E e \in Events(Main) : batch' = [batch EXCEPT ![Main] = e]
  /\ UNCHANGED <<nth, filled, kvs, handler, memory, worker, control, clients, terms,
                 mishaps, fault, timer>>

Handled(t) == batch' = [batch EXCEPT ![t] = Tail(@)]
Unread(t) == queue' = [queue EXCEPT ![t] = Tail(@)] /\ UNCHANGED <<sock, watched, untold>>
NextEvent(t, event) == batch[t] # <<>> /\ Head(batch[t]) = event

\* ... and handles its events: a client, who may be refused, ...  Clients are
\* alike, so which of those that have not come yet is next makes no difference.
accept_handler ==
  /\ NextEvent(Main, "accept")
  /\ Handled(Main)
  /\ \/ At("loop", "stop") /\ UNCHANGED <<memory, clients>> /\ Fails
     \/ At("loop", "loop") /\ UNCHANGED <<memory, clients>> /\ Succeeds
     \/ /\ At("loop", "loop") /\ Succeeds
        /\ nextThread' = (nextThread + 1) % ThreadsNum
        /\ LET c == CHOOSE d \in Conn : obj[<<"conn", d>>] = "none"
           IN /\ Make({<<"conn", c>>})
              /\ conns' = Append(conns, c)
              /\ given' = [given EXCEPT ![c] = nextThread]
  /\ UNCHANGED <<nth, filled, kvs, handler, worker, control, terms, fault, timer>>

\* Faulty variant: the loop goes on after a SHUTDOWN.
KVS_CtrlGoesOn ==
  /\ NextEvent(Main, "ctrl")
  /\ Handled(Main) /\ Unread(Main)
  /\ nth' = 0
  /\ At("loop", IF Head(queue[Main]) = "mute" THEN "recv" ELSE "loop")
  /\ UNCHANGED <<filled, kvs, handler, memory, worker, clients, terms, mishaps, fault, timer>>

\* ... or a control connection.  One that ends without a word stops the loop
\* too, but the workers are not told; for one that is mute recv waits for ever.
KVS_Ctrl ==
  /\ NextEvent(Main, "ctrl")
  /\ Handled(Main) /\ Unread(Main)
  /\ nth' = 0
  /\ At("loop", CASE Head(queue[Main]) = "SHUTDOWN" -> "tell"
                  [] Head(queue[Main]) = "closed"   -> "stop"
                  [] Head(queue[Main]) = "other"    -> "loop"
                  [] Head(queue[Main]) = "mute"     -> "recv")
  /\ UNCHANGED <<filled, kvs, handler, memory, worker, clients, terms, mishaps, fault, timer>>

\* Faulty variant: the last worker is left out.
TellAllButOne ==
  /\ nth < ThreadsNum - 1
  /\ At("tell", "tell")
  /\ SendShutdownCmd(nth)
  /\ nth' = nth + 1
  /\ UNCHANGED <<filled, kvs, handler, memory, worker, batch, clients, terms, fault,
                 timer>>

TellWorker ==
  /\ nth < ThreadsNum
  /\ At("tell", "tell")
  /\ SendShutdownCmd(nth)
  /\ nth' = nth + 1
  /\ UNCHANGED <<filled, kvs, handler, memory, worker, batch, clients, terms, fault,
                 timer>>

AllTold ==
  /\ nth = ThreadsNum
  /\ At("tell", "stop")
  /\ UNCHANGED <<nth, filled, kvs, handler, memory, worker, batch, control, clients,
                 terms, mishaps, fault, timer>>

\* What is left of the batch is dropped, and the main loop freed.
MainloopEnds ==
  /\ At("stop", "delete")
  /\ batch' = [batch EXCEPT ![Main] = <<>>]
  /\ Free({<<"loop", Main>>})
  /\ UNCHANGED <<nth, filled, kvs, handler, worker, control, clients, terms, mishaps,
                 fault, timer>>

-----------------------------------------------------------------------------
(* The workers *)

WorkerGoes(w, here, there) ==
  /\ worker[w] = here
  /\ worker' = [worker EXCEPT ![w] = there]
  /\ UNCHANGED <<main, nth, filled, kvs, handler, memory, clients, terms, mishaps, fault,
                 timer>>

\* epoll_wait is called, with the event loop's descriptor and array, ...
WaitForEvents(w) ==
  /\ WorkerGoes(w, "handle", "blocked")
  /\ batch[w] = <<>> /\ Live("loop", w)
  /\ UNCHANGED <<batch, control>>

\* ... and returns.
EpollReturns(w) ==
  /\ WorkerGoes(w, "blocked", "handle")
  /\ Live("loop", w)
  /\ \E e \in Events(w) : batch' = [batch EXCEPT ![w] = e]
  /\ UNCHANGED control

\* A control connection ends the worker, unless it brings something else, or
\* nothing: then recv waits for ever.
KVSThread_Ctrl(w) ==
  LET m == Head(queue[w])
      ends == m \in {"SHUTDOWN", "closed"}
  IN
  /\ worker[w] = "handle" /\ Live("loop", w) /\ NextEvent(w, "ctrl")
  /\ batch' = [batch EXCEPT ![w] = IF ends THEN <<>> ELSE Tail(@)]
  /\ queue' = [queue EXCEPT ![w] = Tail(@)]
  /\ sock' = IF ends THEN [sock EXCEPT ![w] = "closed"] ELSE sock
  /\ WorkerGoes(w, "handle", IF ends THEN "ended" ELSE IF m = "mute" THEN "recv" ELSE "handle")
  /\ UNCHANGED <<watched, untold>>

\* A client's data is handled, with whatever commands it holds ...
HandlerCalled(w) ==
  /\ Live("loop", w) /\ batch[w] # <<>> /\ Head(batch[w]) # "ctrl"
  /\ Live("conn", Head(batch[w]))
  /\ WorkerGoes(w, "handle", "serve")
  /\ UNCHANGED <<batch, control>>

\* ... and the handler returns.
HandlerReturns(w) ==
  /\ WorkerGoes(w, "serve", "handle")
  /\ Live("conn", Head(batch[w]))
  /\ Handled(w)
  /\ UNCHANGED control

-----------------------------------------------------------------------------
(* The timer, whose function is KVS_Vacuum *)

TimerRuns ==
  /\ T!Arm \/ T!Wait \/ (T!TimeOut /\ Live("db", 0)) \/ T!Called \/ T!Leave
  /\ IF thread # "woken" /\ thread' = "done" THEN Fails ELSE Succeeds
  /\ UNCHANGED <<main, nth, filled, kvs, handler, memory, worker, batch, control, clients,
                 terms, fault>>

TimerWakesUp ==
  /\ T!WakeUp
  /\ Fails
  /\ UNCHANGED <<main, nth, filled, kvs, handler, memory, worker, batch, control, clients,
                 terms, fault>>

\* A thread reaches for what the main thread has freed: a worker for its event
\* loop, a connection or, in a handler, the store; ...
WorkerUsesFreed(w) ==
  /\ \/ ~Live("loop", w) /\ \/ worker[w] = "handle"
                            \/ worker[w] = "blocked" /\ Events(w) # {}
     \/ /\ worker[w] \in {"handle", "serve"} /\ batch[w] # <<>>
        /\ Head(batch[w]) # "ctrl" /\ ~Live("conn", Head(batch[w]))
     \/ worker[w] = "serve" /\ ~Live("db", 0)
  /\ fault' = TRUE
  /\ UNCHANGED <<main, nth, filled, kvs, handler, memory, worker, batch, control, clients,
                 terms, mishaps, timer>>

\* ... the timer for the store.
TimerUsesFreed ==
  /\ ~Live("db", 0) /\ thread \in {"blocked", "calling"} /\ ~T!Before(clock, next)
  /\ fault' = TRUE
  /\ UNCHANGED <<main, nth, filled, kvs, handler, memory, worker, batch, control, clients,
                 terms, mishaps, timer>>

-----------------------------------------------------------------------------
(* KVS_Delete *)

\* Faulty variant: a start that has failed has no connections, so their list is
\* left alone.
HashTable_DeleteAlone ==
  /\ At("delete", IF kvs THEN "deleteConns" ELSE "deleteTimer")
  /\ Free(There({<<"db", 0>>}))
  /\ UNCHANGED <<nth, filled, kvs, handler, worker, batch, control, clients, terms,
                 mishaps, fault, timer>>

\* The store goes first, ...
HashTable_Delete ==
  /\ At("delete", IF Live("connectionList", 0) THEN "deleteConns" ELSE "deleteTimer")
  /\ Free(There({<<"db", 0>>}))
  /\ UNCHANGED <<nth, filled, kvs, handler, worker, batch, control, clients, terms,
                 mishaps, fault, timer>>

\* ... then the connections: a removal takes the cursor back to before the first
\* entry, so LinkedList_Next always gives the head.
Connection_Delete ==
  /\ conns # <<>>
  /\ At("deleteConns", "deleteConns")
  /\ conns' = Tail(conns)
  /\ Free({<<"conn", Head(conns)>>})
  /\ UNCHANGED <<nth, filled, kvs, handler, worker, batch, control, given, nextThread,
                 terms, mishaps, fault, timer>>

\* The list is freed and the control socket closed.
LinkedList_Delete ==
  /\ conns = <<>>
  /\ At("deleteConns", "deleteTimer")
  /\ Free({<<"connectionList", 0>>})
  /\ sock' = [sock EXCEPT ![Main] = IF @ = "listening" THEN "closed" ELSE @]
  /\ UNCHANGED <<nth, filled, kvs, handler, worker, batch, queue, watched, untold,
                 clients, terms, mishaps, fault, timer>>

DeleteTimer ==
  /\ IF Live("timerThread", 0)
     THEN At("deleteTimer", "joinTimer") /\ T!TimerThread_Delete
     ELSE At("deleteTimer", "deleteThreads") /\ UNCHANGED timer
  /\ nth' = 0
  /\ UNCHANGED <<filled, kvs, handler, memory, worker, batch, control, clients, terms,
                 mishaps, fault>>

JoinTimer ==
  /\ At("joinTimer", "deleteThreads")
  /\ T!JoinAndFree
  /\ Free({<<"timerThread", 0>>})
  /\ fault' = (owner' = "undefined")
  /\ UNCHANGED <<nth, filled, kvs, handler, worker, batch, control, clients, terms, mishaps>>

\* KVSThread_Delete frees the event loop before it joins the thread ...
EventLoop_Delete ==
  /\ nth < filled
  /\ At("deleteThreads", "join")
  /\ Free({<<"loop", nth>>})
  /\ UNCHANGED <<nth, filled, kvs, handler, worker, batch, control, clients, terms,
                 mishaps, fault, timer>>

\* ... which may be one that was never created.
JoinWorker ==
  /\ At("join", "deleteThreads")
  /\ worker[nth] \in {"ended", "none"}
  /\ Free({<<"thread", nth>>})
  /\ sock' = [sock EXCEPT ![nth] = IF @ = "listening" THEN "closed" ELSE @]
  /\ fault' \in {FALSE, worker[nth] = "none"}
  /\ nth' = nth + 1
  /\ UNCHANGED <<filled, kvs, handler, worker, batch, queue, watched, untold, clients,
                 terms, mishaps, timer>>

\* The array and the KVS itself; in KVS_New, main then goes to its error exit.
KVS_Freed ==
  /\ nth = filled
  /\ At("deleteThreads", IF kvs THEN "exit" ELSE "error")
  /\ Free({<<"kvs", 0>>} \cup There({<<"kvsThreads", 0>>}))
  /\ UNCHANGED <<nth, filled, kvs, handler, worker, batch, control, clients, terms,
                 mishaps, fault, timer>>

\* Faulty variant: the error exit deletes without a test.
AbortAnyway ==
  /\ At("error", "delete")
  /\ UNCHANGED <<nth, filled, kvs, handler, memory, worker, batch, control, clients,
                 terms, mishaps, fault, timer>>

Abort ==
  /\ At("error", IF kvs THEN "delete" ELSE "exit")
  /\ UNCHANGED <<nth, filled, kvs, handler, memory, worker, batch, control, clients,
                 terms, mishaps, fault, timer>>

-----------------------------------------------------------------------------
Start == KVS_New \/ KVSThread_New \/ StartTimer \/ MainloopStarts \/ KVS_Observe \/ MainloopRuns
Serve == accept_handler \/ KVS_Ctrl \/ TellWorker \/ AllTold \/ MainloopEnds
KVS_Delete == \/ HashTable_Delete \/ Connection_Delete \/ LinkedList_Delete \/ DeleteTimer
              \/ JoinTimer \/ EventLoop_Delete \/ JoinWorker \/ KVS_Freed \/ Abort

\* A thread that has what it needs to go on does so; clients and signals need
\* not come.
MainGoes == Running /\ (Start \/ Serve \/ KVS_Delete \/ (ControlReady(Main) /\ MainWaits))
WorkerStep(w) == \/ WaitForEvents(w) \/ KVSThread_Ctrl(w) \/ HandlerCalled(w) \/ HandlerReturns(w)
                 \/ ControlReady(w) /\ EpollReturns(w)
                 \/ WorkerUsesFreed(w)

Next ==
  /\ Running
  /\ \/ Start \/ Serve \/ KVS_Delete \/ MainWaits
     \/ \E w \in Worker : WorkerStep(w) \/ EpollReturns(w)
     \/ TimerRuns \/ TimerUsesFreed \/ TimerWakesUp
     \/ termsignal_handler \/ \E t \in Loop : Stray(t)

Spec == Init /\ [][Next]_vars

FairSpec ==
  /\ Spec
  /\ WF_vars(MainGoes)
  /\ \A w \in Worker : WF_vars(Running /\ WorkerStep(w))
  /\ WF_vars(Running /\ (TimerRuns \/ TimerUsesFreed))

-----------------------------------------------------------------------------
(* Properties *)

\* What is freed was allocated, and freed once, however far the start got before
\* one of its calls failed, and although KVS_New deletes what it gives up.
FreedOnce == ~twice

\* When main returns nothing is left, and no thread runs on, unless freed
\* memory has been used on the way.
CleanExit ==
  main = "exit" /\ ~fault =>
    /\ \A x \in Object : obj[x] # "live"
    /\ \A w \in Worker : worker[w] \in {"none", "ended"}
    /\ thread \in {"none", "done"}

Stopping == {"tell", "stop", "delete", "deleteConns", "deleteTimer", "joinTimer",
             "deleteThreads", "join", "error", "exit"}

\* A SIGTERM that has reached the control socket ends the main loop, in whatever
\* order it comes with clients and other control connections; only a mute one
\* may keep the main thread in recv.
TermHeeded ==
  (\E n \in DOMAIN queue[Main] : queue[Main][n] = "SHUTDOWN")
    ~> main \in Stopping \cup {"recv"}

\* The timer's join waits for a thread the signal has missed.
TimerMissed == owner = "join" /\ thread \notin {"none", "woken", "done"}

\* After a SHUTDOWN the process ends, if every worker can be told and watches
\* its socket, unless the timer misses its signal or freed memory is used first.
ShutdownCompletes ==
  main = "tell" ~>
    \/ main = "exit" \/ fault \/ TimerMissed
    \/ untold # {} \/ watched # Loop
=============================================================================
