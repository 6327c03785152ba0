------------------------------ MODULE MCTelnet ------------------------------
(* Keys and commands in their encodings: among them an option numbered like *)
(* a line feed, and a subnegotiation that carries a carriage return; rub-outs *)
(* of a character, and of none.                                              *)
EXTENDS Telnet
CONSTANTS h1, c1

Encoding ==
    [a |-> <<"a">>, rub |-> <<"DEL">>, cr |-> <<"CR">>, lf |-> <<"LF">>,
     crlf |-> <<"CR", "LF">>, crnul |-> <<"CR", "NUL">>,
     will |-> <<"IAC", "WILL", "LF">>, nop |-> <<"IAC", "NOP">>, ff |-> <<"IAC", "IAC">>,
     sub |-> <<"IAC", "SB", "CR", "IAC", "SE">>]
Long == {<<"a", "crnul", "lf", "a", "rub", "a", "cr", "a", "crlf">>,
         <<"rub", "a", "sub", "a", "rub", "rub", "rub", "cr">>,
         <<"a", "nop", "a", "ff", "rub", "will", "cr", "lf", "a", "lf">>}
=============================================================================
