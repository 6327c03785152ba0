------------------------------- MODULE Telnet -------------------------------
(***************************************************************************)
(* The telnet gateway below the dialogue (telnetserver.go): the accept     *)
(* loop with its limit on connections, the throttle on lines, and the line *)
(* discipline: TCP delivers what the client sent in whatever pieces,       *)
(* readByte filters the option negotiation out of it, and readLineEcho     *)
(* edits a line.                                                           *)
(***************************************************************************)
EXTENDS RateLimit, SequencesExt

CONSTANTS Conns,      \* connections
          Scripts,    \* what a client may send: sequences of keys and commands
          Bytes,      \* Bytes[x]: the bytes of the key or command x
          Chars,      \* the printable bytes
          CmdPer,     \* ticks to earn a line (1/10 s in the code)
          CmdBurst    \* lines at once (20 in the code)

ASSUME LinesAssumption == CmdPer \in Nat \ {0} /\ CmdBurst \in Nat \ {0}

\* The keys that end a line, and what they send.
Enter == [cr |-> <<"CR">>, lf |-> <<"LF">>, crlf |-> <<"CR", "LF">>, crnul |-> <<"CR", "NUL">>]
Options == {"WILL", "WONT", "DO", "DONT"}
\* A command of the protocol: of two bytes, with an option, or a subnegotiation up
\* to its first IAC SE.
IsCommand(b) ==
    /\ Len(b) > 1 /\ b[1] = "IAC"
    /\ \/ Len(b) = 2 /\ b[2] \notin Options \cup {"SB"}
       \/ Len(b) = 3 /\ b[2] \in Options
       \/ Len(b) > 3 /\ b[2] = "SB" /\ \A i \in 4..Len(b) : b[i - 1] = "IAC" /\ b[i] = "SE" <=> i = Len(b)

ASSUME BytesAssumption ==
    /\ \A s \in Scripts : s \in Seq(DOMAIN Bytes)
    /\ {"CR", "LF", "NUL", "DEL", "IAC", "rub"} \cap Chars = {} /\ DOMAIN Enter \cap Chars = {}
    /\ \A x \in DOMAIN Bytes :
          /\ Bytes[x] \in Seq(STRING)
          /\ CASE x \in Chars        -> Bytes[x] = <<x>>
               [] x = "rub"          -> Bytes[x] = <<"DEL">>
               [] x \in DOMAIN Enter -> Bytes[x] = Enter[x]
               [] OTHER              -> IsCommand(Bytes[x])

VARIABLE conn

telnetVars == <<vars, conn>>

\* Of a connection: the script and how much of it has been received and consumed
\* (t.inbuf is what is between), the state of the IAC filter, the line being
\* edited, the bucket, when the throttle's sleep ends; and as history the lines
\* handed to the dialogue and when the reading of each began.
Closed == [st |-> "closed", script |-> <<>>, received |-> 0, consumed |-> 0, filter |-> "data",
           line |-> <<>>, bucket |-> [tokens |-> 0, last |-> 0], wake |-> 0, said |-> <<>>, begun |-> <<>>]

\* The bytes of the first n keys, for every n.
SentFor(s) == LET sent[n \in 0..Len(s)] == IF n = 0 THEN <<>> ELSE sent[n - 1] \o Bytes[s[n]] IN sent
Sent(s) == SentFor(s)[Len(s)]
Buffered(c) == SubSeq(Sent(conn[c].script), conn[c].consumed + 1, conn[c].received)
CmdFull == CmdBurst * CmdPer

TelnetInit == Init /\ conn = [c \in Conns |-> Closed]

\* acceptLoop: a connection too many is told so and closed.
Accept(c, k, s) ==
    /\ conn[c].st = "closed"
    /\ Allow(k)
    /\ conn' = IF Admits(k)
               THEN [conn EXCEPT ![c] = [Closed EXCEPT !.st = "throttled", !.script = s, !.wake = clock,
                                                       !.bucket = NewBucket(CmdFull)]]
               ELSE conn

----------------------------------------------------------------------------
(* cmdRate.Wait, at the start of a line *)

\* Deliberately wrong: sleeps the time of a whole token.
SleepFor_Token(b) == CmdPer

\* Until the rest of a token has come in.  Wait sleeps a millisecond at least, and a
\* tick stands for no less than that.
SleepFor(b) == CmdPer - b.tokens

Wait(c) ==
    /\ conn[c].st = "throttled" /\ conn[c].wake <= clock
    /\ LET r == conn[c]
           b == Refill(r.bucket, CmdFull)
       IN conn' = [conn EXCEPT ![c] =
                      IF b.tokens >= CmdPer
                      THEN [r EXCEPT !.st = "reading", !.bucket = [b EXCEPT !.tokens = @ - CmdPer],
                                     !.begun = Append(r.begun, clock)]
                      ELSE [r EXCEPT !.bucket = b, !.wake = clock + SleepFor(b)]]
    /\ UNCHANGED vars

\* The clock moves on when no sleep is over.
Pass ==
    /\ \A c \in Conns : conn[c].st = "throttled" => conn[c].wake > clock
    /\ Tick /\ UNCHANGED conn

----------------------------------------------------------------------------
(* readByte, rawByte and readLineEcho *)

\* Deliberately wrong: what is left of a sequence is sought in the same buffer only.
Receive_Fresh(c) ==
    /\ conn[c].st = "reading" /\ Buffered(c) = <<>>
    /\ \E n \in conn[c].consumed + 1 .. Len(Sent(conn[c].script)) :
          conn' = [conn EXCEPT ![c].received = n, ![c].filter = "data"]
    /\ UNCHANGED vars

\* conn.Read, with the buffer used up, returns some of what is on its way.
Receive(c) ==
    /\ conn[c].st = "reading" /\ Buffered(c) = <<>>
    /\ \E n \in conn[c].consumed + 1 .. Len(Sent(conn[c].script)) : conn' = [conn EXCEPT ![c].received = n]
    /\ UNCHANGED vars

\* The IAC filter after byte b; in "sub", the byte before was not an IAC.
Filter(f, b) ==
    CASE f = "data" /\ b = "IAC"                  -> "iac"
      [] f = "iac" /\ b \in Options -> "option"
      [] f = "iac" /\ b = "SB"                    -> "sub"
      [] f \in {"sub", "subiac"} /\ b = "IAC"     -> "subiac"
      [] f = "sub" /\ b # "IAC"                   -> "sub"
      [] f = "subiac" /\ b \notin {"IAC", "SE"}   -> "sub"
      [] OTHER                                    -> "data"
\* readByte returns the byte.
Passes(f, b) == \/ f = "data" /\ b # "IAC"
                \/ f = "iac" /\ b = "IAC"

Edited(line, b) ==
    CASE b = "DEL" /\ line # <<>> -> Front(line)
      [] b \in Chars             -> Append(line, b)
      [] OTHER                   -> line

\* One byte of the buffer.  At the end of a line a LF or NUL is swallowed with it if
\* it is in the buffer already; if not, it will end an empty line.
Consume(c) ==
    /\ conn[c].st = "reading" /\ Buffered(c) # <<>>
    /\ LET r == conn[c]
           b == Head(Buffered(c))
           next == [r EXCEPT !.consumed = @ + 1, !.filter = Filter(r.filter, b)]
       IN \/ /\ ~Passes(r.filter, b)
             /\ conn' = [conn EXCEPT ![c] = next]
          \/ /\ Passes(r.filter, b) /\ b \notin {"CR", "LF"}
             /\ conn' = [conn EXCEPT ![c] = [next EXCEPT !.line = Edited(@, b)]]
          \/ /\ Passes(r.filter, b) /\ b \in {"CR", "LF"}
             /\ LET swallowed == IF Len(Buffered(c)) > 1 /\ Buffered(c)[2] \in {"LF", "NUL"} THEN 1 ELSE 0
                IN conn' = [conn EXCEPT ![c] = [next EXCEPT !.consumed = @ + swallowed, !.line = <<>>,
                                                            !.said = Append(r.said, r.line),
                                                            !.st = "throttled", !.wake = clock]]
    /\ UNCHANGED vars

\* Hang-up, a read error or the idle timeout.
Drop(c) ==
    /\ conn[c].st # "closed"
    /\ conn' = [conn EXCEPT ![c] = Closed]
    /\ UNCHANGED vars

TelnetNext ==
    \/ Pass
    \/ \E c \in Conns :
          \/ Wait(c) \/ Receive(c) \/ Consume(c) \/ Drop(c)
          \/ \E k \in Keys, s \in Scripts : Accept(c, k, s)

TelnetSpec == TelnetInit /\ [][TelnetNext]_telnetVars
----------------------------------------------------------------------------
(* PROPERTIES *)

\* What somebody means who presses these keys: the lines, blank ones apart, and the
\* one begun.  The commands mean nothing.
AndLine(lines, l) == IF l = <<>> THEN lines ELSE Append(lines, l)
Press(t, x) ==
    CASE x \in DOMAIN Enter            -> [lines |-> AndLine(t.lines, t.line), line |-> <<>>]
      [] x = "rub" /\ t.line # <<>>    -> [t EXCEPT !.line = Front(@)]
      [] x \in Chars                   -> [t EXCEPT !.line = Append(@, x)]
      [] OTHER                         -> t
MeantBy(s) ==
    LET typed[n \in 0..Len(s)] ==
            IF n = 0 THEN [lines |-> <<>>, line |-> <<>>] ELSE Press(typed[n - 1], s[n])
    IN typed
Filled(lines) ==
    LET filled[n \in 0..Len(lines)] == IF n = 0 THEN <<>> ELSE AndLine(filled[n - 1], lines[n])
    IN filled[Len(lines)]

\* telnetserver.go: the terminal "filters IAC negotiation from input, does server-side
\* line editing".  However TCP cuts what the client sent, after any number of keys the
\* dialogue has been given the lines that were meant, blank ones apart, and what is
\* being edited is what was meant since.
LinesAsMeant ==
    \A c \in Conns : conn[c].st # "closed" =>
        \A n \in 0..Len(conn[c].script) :
            conn[c].consumed = Len(SentFor(conn[c].script)[n]) =>
               /\ Filled(conn[c].said) = MeantBy(conn[c].script)[n].lines
               /\ conn[c].line = MeantBy(conn[c].script)[n].line

\* telnetserver.go: "throttle scripted hammering".  A connection's lines are held back
\* to the rate over every stretch of time, and no longer than that, give or take the
\* millisecond of Wait's shortest sleep: while it sleeps one more line would be too
\* many, when the sleep ends it is not.
HeldToTheRate ==
    \A c \in Conns :
        LET t == conn[c].begun IN
        /\ \A i, j \in DOMAIN t : i <= j => (j - i + 1) * CmdPer <= CmdFull + (t[j] - t[i])
        /\ conn[c].st = "throttled" /\ conn[c].wake > clock =>
              /\ ~A!Within(t, conn[c].wake - 1, CmdPer, CmdBurst)
              /\ A!Within(t, conn[c].wake, CmdPer, CmdBurst)
=============================================================================
