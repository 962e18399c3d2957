--------------------------- MODULE ConnectionPool ---------------------------
(***************************************************************************)
(* The connections of the server: accept_handler of src/src/main.c and     *)
(* KVS_AddConnection of src/src/kvs.c on the main thread, and the workers  *)
(* whose event loops run the handlers and close connections.  The list is  *)
(* the main thread's alone (module LinkedList); a Connection is shared: its *)
(* worker marks it CLOSED and closes its descriptor, in this order, and    *)
(* the main thread frees what it finds CLOSED when the list is full.       *)
(***************************************************************************)
EXTENDS LinkedList, FiniteSetsExt

CONSTANTS
  ThreadsNum,
  MaxConnections,
  Fd              \* descriptors, as numbers: accept takes the lowest free one

Conn == Entry     \* addresses of connections
Worker == 0 .. (ThreadsNum - 1)

\* A connection, and what epoll has of a registered descriptor.
Connection == [sock : Fd, state : {"READINGCMD", "CLOSED"}]
Registration == [worker : Worker, conn : Conn]

ASSUME PoolAssumption ==
  /\ ThreadsNum \in Nat \ {0} /\ MaxConnections \in Nat
  /\ Fd \subseteq Nat /\ Null \notin Nat \cup Connection \cup Registration

VARIABLES
  conn,        \* the contents of each allocated connection
  open,        \* the descriptors that are open
  epoll,       \* the worker and the connection an open descriptor is registered with
  nextThread,
  pc,          \* where the main thread is
  newsock,     \* the descriptor accept has returned
  tobeClosed,  \* the local list of KVS_CleanupClosedConnections
  wasClosed,   \* the connections that were CLOSED when the clean-up began
  closing,     \* the connection each worker is in the middle of closing
  raced        \* was a connection freed while its worker was closing it?

main == <<nextThread, pc, newsock, tobeClosed, wasClosed>>
vars == <<list, conn, open, epoll, main, closing, raced>>

Init ==
  /\ LinkedList_New
  /\ conn = [c \in Conn |-> Null]
  /\ open = {}
  /\ epoll = [f \in Fd |-> Null]
  /\ nextThread = 0
  /\ pc = "idle"
  /\ newsock = Null
  /\ tobeClosed = <<>>
  /\ wasClosed = {}
  /\ closing = [w \in Worker |-> Null]
  /\ raced = FALSE

Full == size >= MaxConnections

\* Faulty variant: the test is the wrong way round.
IsOpen(c) == conn[c].state # "CLOSED"

Connection_IsClosed(c) == conn[c].state = "CLOSED"

\* The kernel forgets the registration of a descriptor that is closed.
Close(f) == open' = open \ {f} /\ epoll' = [epoll EXCEPT ![f] = Null]

-----------------------------------------------------------------------------
(* The main thread *)

accept_handler ==
  /\ pc = "idle"
  /\ Fd \ open # {}
  /\ newsock' = Min(Fd \ open)
  /\ open' = open \cup {newsock'}
  /\ pc' = IF Full THEN "scan" ELSE "create"
  /\ wasClosed' = IF Full THEN {c \in Range(Items) : Connection_IsClosed(c)} ELSE {}
  /\ UNCHANGED <<list, conn, epoll, nextThread, tobeClosed, closing, raced>>

\* KVS_CleanupClosedConnections reads the states one by one, ...
ScanConnection ==
  /\ pc = "scan"
  /\ LinkedList_Next
  /\ Following # Null
  /\ LET c == cell[Following].entry IN
     tobeClosed' = IF Connection_IsClosed(c) THEN Append(tobeClosed, c) ELSE tobeClosed
  /\ UNCHANGED <<conn, open, epoll, nextThread, pc, newsock, wasClosed, closing, raced>>

\* Faulty variant: the scan ends at the first connection.
ScanEndsEarly ==
  /\ pc = "scan"
  /\ LinkedList_Next
  /\ pc' = "free"
  /\ UNCHANGED <<conn, open, epoll, nextThread, newsock, tobeClosed, wasClosed,
                 closing, raced>>

ScanEnds ==
  /\ pc = "scan"
  /\ LinkedList_Next
  /\ Following = Null
  /\ pc' = "free"
  /\ UNCHANGED <<conn, open, epoll, nextThread, newsock, tobeClosed, wasClosed,
                 closing, raced>>

\* Faulty variant: what is freed stays in the list.
FreeKeepsListed ==
  /\ pc = "free" /\ tobeClosed # <<>>
  /\ conn' = [conn EXCEPT ![Head(tobeClosed)] = Null]
  /\ tobeClosed' = Tail(tobeClosed)
  /\ UNCHANGED <<list, open, epoll, nextThread, pc, newsock, wasClosed, closing, raced>>

\* ... and then frees what it found, with Connection_Delete, which does not
\* close the descriptor of a connection that is CLOSED.
FreeConnection ==
  /\ pc = "free" /\ tobeClosed # <<>>
  /\ LET c == Head(tobeClosed) IN
     /\ LinkedList_Remove(c)
     /\ conn' = [conn EXCEPT ![c] = Null]
     /\ IF Connection_IsClosed(c) THEN UNCHANGED <<open, epoll>> ELSE Close(conn[c].sock)
     /\ raced' = (\E w \in Worker : closing[w] = c)
  /\ tobeClosed' = Tail(tobeClosed)
  /\ UNCHANGED <<nextThread, pc, newsock, wasClosed, closing>>

CleanupEnds ==
  /\ pc = "free" /\ tobeClosed = <<>>
  /\ pc' = IF Full THEN "refuse" ELSE "create"
  /\ UNCHANGED <<list, conn, open, epoll, nextThread, newsock, tobeClosed, wasClosed,
                 closing, raced>>

\* KVS_AddConnection returns -1, and accept_handler closes the socket.
Refuse ==
  /\ pc = "refuse"
  /\ Close(newsock)
  /\ newsock' = Null /\ pc' = "idle"
  /\ UNCHANGED <<list, conn, nextThread, tobeClosed, wasClosed, closing, raced>>

\* The rest of KVS_AddConnection.  It may fail at each of its calls: with no
\* memory for the connection or its list entry, or when epoll_ctl fails; then
\* the connection stays in the list, open, and its descriptor is closed.
NewConnection ==
  /\ pc = "create"
  /\ newsock' = Null /\ pc' = "idle"
  /\ \/ Close(newsock) /\ UNCHANGED <<list, conn, nextThread>>
     \/ \E c \in Conn :
          /\ conn[c] = Null
          /\ conn' = [conn EXCEPT ![c] = [sock |-> newsock, state |-> "READINGCMD"]]
          /\ \/ LinkedList_AddFails /\ Close(newsock) /\ UNCHANGED nextThread
             \/ /\ LinkedList_Add(c)
                /\ nextThread' = IF nextThread + 1 >= ThreadsNum THEN 0 ELSE nextThread + 1
                /\ \/ /\ epoll' = [epoll EXCEPT ![newsock] = [worker |-> nextThread, conn |-> c]]
                      /\ UNCHANGED open
                   \/ Close(newsock)
  /\ UNCHANGED <<tobeClosed, wasClosed, closing, raced>>

-----------------------------------------------------------------------------
(* The workers *)

\* A handler decides to end its connection: Connection_Close, first half.
MarkClosed(w) ==
  /\ closing[w] = Null
  /\ \E f \in open :
       /\ epoll[f] # Null /\ epoll[f].worker = w
       /\ closing' = [closing EXCEPT ![w] = epoll[f].conn]
       /\ conn' = [conn EXCEPT ![epoll[f].conn].state = "CLOSED"]
  /\ UNCHANGED <<list, open, epoll, main, raced>>

\* Second half: the descriptor is read from the connection and closed.
CloseSock(w) ==
  /\ closing[w] # Null
  /\ Close(conn[closing[w]].sock)
  /\ closing' = [closing EXCEPT ![w] = Null]
  /\ UNCHANGED <<list, conn, main, raced>>

-----------------------------------------------------------------------------
MainStep ==
  \/ accept_handler \/ ScanConnection \/ ScanEnds \/ FreeConnection
  \/ CleanupEnds \/ Refuse \/ NewConnection

\* A worker whose connection has been freed goes on with freed memory, and a
\* list that has lost its tail crashes the next addition: the model stops.
Next ==
  \/ ~raced /\ ~damaged /\ (MainStep \/ \E w \in Worker : MarkClosed(w) \/ CloseSock(w))
  \/ (raced \/ damaged) /\ UNCHANGED vars

Spec == Init /\ [][Next]_vars

-----------------------------------------------------------------------------
(* Properties *)

\* What epoll hands to a worker is alive: as long as a descriptor is registered,
\* it is open, not handed out a second time by accept, and its connection is
\* allocated, still listed, and CLOSED only while that very worker is closing it.
RegisteredAlive ==
  ~raced => \A f \in Fd : epoll[f] # Null =>
    LET c == epoll[f].conn IN
    /\ f \in open /\ f # newsock
    /\ conn[c] # Null /\ conn[c].sock = f
    /\ c \in Range(Items)
    /\ conn[c].state = "CLOSED" => closing[epoll[f].worker] = c

\* The list never holds more than MaxConnections, each of them allocated and
\* listed once, whatever fails on the way.
ListedOnce ==
  ~raced /\ ~damaged =>
    /\ Len(Items) <= MaxConnections
    /\ \A m, n \in DOMAIN Items :
         conn[Items[m]] # Null /\ (Items[m] = Items[n] => m = n)

\* A client is refused only if every listed connection was in use when the
\* clean-up began: closed ones make room.
RefusedOnlyWhenFull ==
  [][pc' = "refuse" => wasClosed = {}]_vars
=============================================================================
