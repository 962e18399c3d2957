---------------------------- MODULE MCConnection ----------------------------
(* Scripts of up to three messages, for a buffer of 8 bytes. *)
EXTENDS Connection

CONSTANTS Other    \* a byte that is nothing special

Cmd(op, bytes) == [op |-> op, bytes |-> bytes, missing |-> 0, noreply |-> FALSE]
Quiet == [op |-> "delete", bytes |-> 0, missing |-> 0, noreply |-> TRUE]
\* A "set" line without its last numbers, and a line that is a number.
Short(missing) == [op |-> "set", bytes |-> 0, missing |-> missing, noreply |-> FALSE]
Digits == [number |-> 1]
CRLF == <<CR, LF>>
Msg(sent, replies) == [sent |-> sent, replies |-> replies]

GetMsg == Msg(<<Cmd("get", 0)>> \o CRLF, {"VALUE", "END"})
\* Fills the buffer to the last byte, and its data is itself a command line.
SetMsg == Msg(<<Cmd("set", 3)>> \o CRLF \o <<Cmd("delete", 0)>> \o CRLF \o CRLF,
              {"STORED", "SERVER_ERROR"})
BigSetMsg == Msg(<<Cmd("set", 4)>> \o CRLF \o <<Other, Other, Other, Other>> \o CRLF, {})
HalfSetMsg == Msg(<<Cmd("set", 1)>> \o CRLF \o <<Other, Other, LF>>,
                  {"STORED", "SERVER_ERROR"})
BadSetMsg == Msg(<<Cmd("set", 1)>> \o CRLF \o <<Other, Other, Other>>, {})
DeleteMsg == Msg(<<Cmd("delete", 0)>> \o CRLF, {"DELETED", "NOT_FOUND"})
QuietMsg == Msg(<<Quiet>> \o CRLF, {"noreply"})
WrongMsg == Msg(<<Other>> \o CRLF, {"ERROR"})
EmptyMsg == Msg(CRLF, {"ERROR"})
BareMsg == Msg(<<Cmd("get", 0), Other, LF>>, {"ERROR"})
LongMsg == Msg(<<Other, Other, Other, Other, Other, Other, Other, Other>> \o CRLF, {})
ShortMsg == Msg(<<Short(1)>> \o CRLF, {"ERROR"})
ShorterMsg == Msg(<<Short(2)>> \o CRLF, {"ERROR"})
NumberMsg == Msg(<<Digits>> \o CRLF, {"ERROR"})

Messages == {GetMsg, SetMsg, BigSetMsg, HalfSetMsg, BadSetMsg, DeleteMsg,
             QuietMsg, WrongMsg, EmptyMsg, BareMsg, LongMsg, ShortMsg,
             ShorterMsg, NumberMsg}
Bytewise == {CR, LF, Other, Quiet, Digits, Short(1), Short(2)} \cup
  {Cmd(op, n) : op \in {"get", "set", "delete"}, n \in 0 .. 4}

Scripts == UNION {[1 .. n -> Messages] : n \in 1 .. 3}
=============================================================================
