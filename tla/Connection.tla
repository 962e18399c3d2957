----------------------------- MODULE Connection -----------------------------
(***************************************************************************)
(* One client connection: src/src/connection.c, from the bytes the socket  *)
(* delivers to the commands run on the store and the replies sent back.    *)
(* One worker thread runs the handler of a connection, so its steps meet   *)
(* only those of the client: the stream arrives in pieces of any size, and *)
(* the client may go away at any moment.                                   *)
(*                                                                         *)
(* A stream is a sequence of bytes.  The first byte of a command line      *)
(* stands for all its words, CR and LF are themselves, a number is a run   *)
(* of digits on a line of its own, and any other byte is just a byte.      *)
(* What the store answers depends on the other connections (module         *)
(* HashTable) and is left open here.                                       *)
(***************************************************************************)
EXTENDS Integers, Sequences, SequencesExt

CONSTANTS
  CR, LF, Byte,    \* Byte: all that a stream is made of
  Script,          \* what a client may send, see ScriptAssumption
  BufSize,         \* INIT_BUF_SIZE
  CmdLineLimit,    \* CMDLINELIMIT
  MinLine,         \* the least offset a newline may have, less one: 4
  Stale            \* numbers the buffer may show past what was received

Reply == {"VALUE", "END", "STORED", "SERVER_ERROR", "DELETED", "NOT_FOUND",
          "ERROR", "noreply"}
\* missing: how many of its three numbers, the last ones, a "set" line lacks.
CmdLine == [op : {"get", "set", "delete"}, bytes : Nat, missing : 0 .. 3,
            noreply : BOOLEAN]
Number == [number : Nat]

\* A script is a sequence of messages, each with the replies it may get.
ASSUME ScriptAssumption ==
  Script \subseteq Seq([sent : Seq(Byte), replies : SUBSET Reply])
ASSUME LimitAssumption ==
  /\ BufSize \in Nat \ {0} /\ CmdLineLimit \in Nat /\ MinLine \in Nat
  /\ Stale \subseteq Nat

VARIABLES
  script,   \* the messages of the client
  unread,   \* the bytes of them that recv has not returned yet
  peer,     \* is the client still there?
  cmdbuf,   \* the first cmdlen bytes of the buffer
  state,
  set,      \* the size and the place of the data of the "set" being read
  pc,       \* in epoll_wait, or in Connection_ParseAndRunCmd
  log,      \* the reply to each command that was run, in order
  misread   \* was a "set" line that lacks a number taken for complete?

client == <<script, unread, peer>>
vars == <<client, cmdbuf, state, set, pc, log, misread>>

-----------------------------------------------------------------------------
(* Command lines *)

\* The length of the line at the head of some bytes, 0 if it is not complete.
Eol(bytes) == SelectInSeq(bytes, LAMBDA b : b = LF)
\* Lines that are not looked into: too short, or ended by a bare newline.
Malformed(bytes) == Eol(bytes) <= MinLine + 1 \/ bytes[Eol(bytes) - 1] # CR
LineIs(op, bytes) == ~Malformed(bytes) /\ bytes[1] \in CmdLine /\ bytes[1].op = op
Complete(bytes) == LineIs("set", bytes) /\ bytes[1].missing = 0

\* The connection ends when neither byte of the CRLF after the data is right.
BadTrailer(bytes, size) == bytes[size] # LF /\ bytes[size - 1] # CR

\* A message is a line, with its data if it is a complete "set"; the replies it
\* may get are those of its kind.  A message that may get none ends the
\* connection: it does not fit the buffer, or its data has a bad trailer.
Framed(message) ==
  LET bytes == message.sent
      size == Len(bytes)
      Is(op) == LineIs(op, bytes)
      replies == CASE Is("get") -> {"VALUE", "END"}
                   [] Complete(bytes) -> IF BadTrailer(bytes, size) THEN {}
                                         ELSE {"STORED", "SERVER_ERROR"}
                   [] Is("delete") -> IF bytes[1].noreply THEN {"noreply"}
                                      ELSE {"DELETED", "NOT_FOUND"}
                   [] OTHER -> {"ERROR"}
  IN
  /\ Eol(bytes) > 0
  /\ size = IF Complete(bytes) THEN Eol(bytes) + bytes[1].bytes + 2 ELSE Eol(bytes)
  /\ size <= BufSize => replies \subseteq message.replies
ASSUME MessageAssumption == \A s \in Script : \A i \in DOMAIN s : Framed(s[i])

Bytes(messages) == FlattenSeq([i \in DOMAIN messages |-> messages[i].sent])

Init ==
  /\ script \in Script
  /\ unread = Bytes(script)
  /\ peer = "up"
  /\ cmdbuf = <<>>
  /\ state = "READINGCMD"
  /\ set = [bytes |-> 0, data |-> 0]
  /\ pc = "waiting"
  /\ log = <<>>
  /\ misread = FALSE

-----------------------------------------------------------------------------
(* Pieces of the handler *)

Connection_Close ==
  state' = "CLOSED" /\ pc' = "waiting" /\ UNCHANGED <<cmdbuf, set>>

\* Faulty variant: the last byte of what was processed stays in the buffer.
ShortReset(processed) ==
  /\ cmdbuf' = SubSeq(cmdbuf, processed, Len(cmdbuf))
  /\ state' = "READINGCMD"
  /\ UNCHANGED set

Connection_ResetCmd(processed) ==
  /\ cmdbuf' = SubSeq(cmdbuf, processed + 1, Len(cmdbuf))
  /\ state' = "READINGCMD"
  /\ UNCHANGED set

Log(reply) == log' = Append(log, reply)

\* send fails, or not, once the client has gone.
SendFails == peer = "down"

\* The loop goes on after a command, or the handler returns.
GoOn == pc' = "parsing"
Return == pc' = "waiting"

LineLen == Eol(cmdbuf)
IsCmd(op) == LineIs(op, cmdbuf)

ReadsLine == pc = "parsing" /\ state = "READINGCMD"
ReadsData == pc = "parsing" /\ state = "READINGDATA"

\* A number that its line lacks is looked for behind the line: strtol takes line
\* ends for white space, and stops neither at the end of the line nor at that of
\* the bytes received.
Beyond == SelectSeq(SubSeq(cmdbuf, LineLen + 1, Len(cmdbuf)), LAMBDA b : b \notin {CR, LF})
\* One of the missing numbers is not there, or may not be.
MayFail ==
  \E n \in 1 .. cmdbuf[1].missing : n \in DOMAIN Beyond => Beyond[n] \notin Number

\* What the i-th of them may be read as: digits that are the last bytes received
\* may go on in stale ones.
Reads(i) ==
  {b.number : b \in {Beyond[j] : j \in {i} \cap DOMAIN Beyond} \cap Number}
    \cup (IF i > Len(Beyond) \/ (i = Len(Beyond) /\ Last(cmdbuf) \in Number) THEN Stale
          ELSE {})

\* The sizes that reading its numbers may come to.
Sizes ==
  LET m == cmdbuf[1].missing IN
  IF m = 0 THEN {cmdbuf[1].bytes}
  ELSE {n \in Reads(m) : \A i \in 1 .. (m - 1) : Reads(i) # {}}

-----------------------------------------------------------------------------
(* Connection_Handler *)

\* Faulty variant: recv is given the whole buffer for its limit.
ReceiveTooMuch ==
  /\ pc = "waiting" /\ state # "CLOSED"
  /\ \E n \in 1 .. Len(unread) :
       /\ n <= BufSize
       /\ cmdbuf' = cmdbuf \o SubSeq(unread, 1, n)
       /\ unread' = SubSeq(unread, n + 1, Len(unread))
  /\ GoOn
  /\ UNCHANGED <<script, peer, state, set, log, misread>>

\* recv returns some of the bytes on the way, as many as fit.
Receive ==
  /\ pc = "waiting" /\ state # "CLOSED"
  /\ \E n \in 1 .. Len(unread) :
       /\ n <= BufSize - Len(cmdbuf)
       /\ cmdbuf' = cmdbuf \o SubSeq(unread, 1, n)
       /\ unread' = SubSeq(unread, n + 1, Len(unread))
  /\ GoOn
  /\ UNCHANGED <<script, peer, state, set, log, misread>>

\* Faulty variant: only the client's going away closes the connection.
FullBufferIgnored ==
  /\ pc = "waiting" /\ state # "CLOSED"
  /\ peer = "down"
  /\ Connection_Close
  /\ UNCHANGED <<client, log, misread>>

\* recv returns 0 or fails: the client has gone, or there was something to
\* read and no room left for it, which the code takes for the same.
ReceiveNothing ==
  /\ pc = "waiting" /\ state # "CLOSED"
  /\ peer = "down" \/ (unread # <<>> /\ Len(cmdbuf) = BufSize)
  /\ Connection_Close
  /\ UNCHANGED <<client, log, misread>>

-----------------------------------------------------------------------------
(* Connection_ParseAndRunCmd, one command or one return at a time *)

NoLineYet ==
  /\ ReadsLine /\ LineLen = 0
  /\ IF Len(cmdbuf) > CmdLineLimit THEN Connection_Close
     ELSE Return /\ UNCHANGED <<cmdbuf, state, set>>
  /\ UNCHANGED <<client, log, misread>>

WrongLine ==
  /\ ReadsLine /\ LineLen > 0
  /\ \/ \A op \in {"get", "set", "delete"} : ~IsCmd(op)
     \/ IsCmd("set") /\ MayFail
  /\ Connection_ResetCmd(LineLen)
  /\ Log("ERROR")
  /\ Return
  /\ UNCHANGED <<client, misread>>

\* Faulty variant: like "delete", "get" returns to the event loop.
GetReturns ==
  /\ ReadsLine /\ LineLen > 0 /\ IsCmd("get")
  /\ \E reply \in {"VALUE", "END"} : Log(reply)
  /\ \/ Connection_ResetCmd(LineLen) /\ Return
     \/ SendFails /\ Connection_Close
  /\ UNCHANGED <<client, misread>>

GetCmd ==
  /\ ReadsLine /\ LineLen > 0 /\ IsCmd("get")
  /\ \E reply \in {"VALUE", "END"} : Log(reply)
  /\ \/ Connection_ResetCmd(LineLen) /\ GoOn
     \/ SendFails /\ Connection_Close
  /\ UNCHANGED <<client, misread>>

\* The reply to "delete" may be suppressed; the handler returns after it.
DeleteCmd ==
  /\ ReadsLine /\ LineLen > 0 /\ IsCmd("delete")
  /\ \/ /\ \E reply \in (IF cmdbuf[1].noreply THEN {"noreply"}
                         ELSE {"DELETED", "NOT_FOUND"}) : Log(reply)
        /\ Connection_ResetCmd(LineLen)
        /\ Return
     \/ /\ ~cmdbuf[1].noreply /\ SendFails
        /\ \E reply \in {"DELETED", "NOT_FOUND"} : Log(reply)
        /\ Connection_Close
  /\ UNCHANGED <<client, misread>>

\* Its own size, or whatever took the place of the numbers it lacks.
SetLine ==
  /\ ReadsLine /\ LineLen > 0 /\ IsCmd("set")
  /\ \E size \in Sizes : set' = [bytes |-> size, data |-> LineLen]
  /\ state' = "READINGDATA"
  /\ misread' = (misread \/ cmdbuf[1].missing > 0)
  /\ UNCHANGED <<client, cmdbuf, pc, log>>

\* The line, the data and a CRLF, all of which must be in the buffer.
CmdSize == set.bytes + set.data + 2

AwaitData ==
  /\ ReadsData /\ Len(cmdbuf) < CmdSize
  /\ Return
  /\ UNCHANGED <<client, cmdbuf, state, set, log, misread>>

RefuseData ==
  /\ ReadsData /\ Len(cmdbuf) >= CmdSize /\ BadTrailer(cmdbuf, CmdSize)
  /\ Connection_Close
  /\ UNCHANGED <<client, log, misread>>

\* Faulty variant: waits for one byte more than the data has.
StoreLate ==
  /\ ReadsData /\ Len(cmdbuf) > CmdSize /\ ~BadTrailer(cmdbuf, CmdSize)
  /\ Connection_ResetCmd(CmdSize) /\ Log("STORED") /\ GoOn
  /\ UNCHANGED <<client, misread>>

\* The data is stored and the eviction run, or the store is out of memory.
SetCmd ==
  /\ ReadsData /\ Len(cmdbuf) >= CmdSize /\ ~BadTrailer(cmdbuf, CmdSize)
  /\ \/ Connection_ResetCmd(CmdSize) /\ Log("STORED") /\ GoOn
     \/ SendFails /\ Connection_Close /\ Log("STORED")
     \/ Connection_Close /\ Log("SERVER_ERROR")
  /\ UNCHANGED <<client, misread>>

-----------------------------------------------------------------------------
\* The client is gone; what it sent may still arrive.
Disconnect ==
  /\ peer = "up"
  /\ peer' = "down"
  /\ UNCHANGED <<script, unread, cmdbuf, state, set, pc, log, misread>>

Connection_Handler ==
  \/ Receive \/ ReceiveNothing
  \/ NoLineYet \/ WrongLine \/ GetCmd \/ DeleteCmd \/ SetLine
  \/ AwaitData \/ RefuseData \/ SetCmd

Next == Connection_Handler \/ Disconnect

Spec == Init /\ [][Next]_vars

\* The worker serves a connection that can be read; what was sent arrives.
FairSpec == Spec /\ WF_vars(Connection_Handler)

-----------------------------------------------------------------------------
(* Properties *)

\* Every variable has its type, and the buffer is never written past its end.
TypeOK ==
  /\ script \in Script
  /\ unread \in Seq(Byte)
  /\ peer \in {"up", "down"}
  /\ cmdbuf \in Seq(Byte) /\ Len(cmdbuf) <= BufSize
  /\ state \in {"CLOSED", "READINGCMD", "READINGDATA"}
  /\ set \in [bytes : Nat, data : Nat]
  /\ pc \in {"waiting", "parsing"}
  /\ log \in Seq(Reply)
  /\ misread \in BOOLEAN

\* However the stream is cut into pieces, the commands that are run are the
\* client's messages, in its order, none left out or run twice, and never the
\* data of a "set"; each gets a reply of its own kind, and nothing is run
\* after a message that has to end the connection ...
Matched ==
  /\ Len(log) <= Len(script)
  /\ \A i \in DOMAIN log : log[i] \in script[i].replies

\* ... until a "set" line that lacks a number is taken for complete.
RepliesMatch == misread \/ Matched

HasCommand == LineLen > 0

\* A worker that goes back to epoll_wait with a complete line in the buffer,
\* where only more bytes from the client can wake it, has just answered a
\* "delete" or a wrong line; after "get" and "set" the loop goes on.
StallsOnlyAfterReturn ==
  pc = "waiting" /\ state = "READINGCMD" /\ HasCommand =>
    log # <<>> /\ Last(log) \in {"DELETED", "NOT_FOUND", "noreply", "ERROR"}

\* "loop until we consume all the commands we got" (connection.c).
ConsumesAll == pc = "waiting" /\ state = "READINGCMD" => ~HasCommand

\* Messages whose commands the loop does not leave.
Plain(message) == message.replies # {} /\ message.replies \subseteq
  {"VALUE", "END", "STORED", "SERVER_ERROR"}

\* A client that sends only "get" and "set", of any size the buffer can hold,
\* and stays, gets an answer to each, unless the store runs out of memory.
Answered ==
  (\A i \in DOMAIN script : Plain(script[i])) ~>
    (Len(log) = Len(script) \/ peer = "down" \/ (log # <<>> /\ Last(log) = "SERVER_ERROR"))

\* The worker never leaves bytes in the socket for ever: what does not fit ends
\* the connection.
AllRead == <>(unread = <<>> \/ state = "CLOSED")
=============================================================================
