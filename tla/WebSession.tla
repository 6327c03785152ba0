----------------------------- MODULE WebSession -----------------------------
(***************************************************************************)
(* One browser's connection, over the news it is there to deliver          *)
(* (webserver/session.go, consoleui SessionStart and Run).  Three          *)
(* goroutines share a session: the game's (`ui`), one that reads the       *)
(* socket into `lines`, one that writes `out` to it.  They are told to     *)
(* stop by the channel `closed`, which any of them, a newer session of     *)
(* the account or the server's shutdown may close.  News is marked         *)
(* delivered on the universe actor and printed afterwards, when there is   *)
(* no one to give it back to.                                              *)
(*                                                                         *)
(* Of the output only news items are followed, by their ids; all the rest  *)
(* shows only in that the buffer may be full at any time.  Who takes over  *)
(* whom is Sessions' business; here a session is evicted by somebody.      *)
(***************************************************************************)
EXTENDS News

CONSTANTS Browsers,   \* players with a connection of this kind
          LinesSize,  \* capacity of gs.lines (16 in the code)
          MaxLive     \* bound: items queued by the end of a connection

ASSUME WebSessionAssumption ==
    Browsers \subseteq Players /\ LinesSize \in Nat \ {0} /\ MaxLive \in Nat

VARIABLE web  \* [Browsers -> the state of the connection]

webVars == <<news, queued, told, day, web>>

\* Nothing runs: before a connection, and after everything of it has ended.
NoConn == [ui |-> "over", toPrint |-> <<>>, lines |-> 0, out |-> <<>>, closed |-> TRUE,
           rd |-> "done", wr |-> "done", hand |-> <<>>, link |-> "up", screen |-> {}]

NewConn == [NoConn EXCEPT !.closed = FALSE, !.rd = "read", !.wr = "wait"]

\* The writer is "done" when it has closed the socket, "failed" when a write
\* failed: it then leaves the socket as it is.
Live(p) == web[p].ui # "over" \/ web[p].rd # "done" \/ web[p].wr \notin {"done", "failed"}

WebInit == Init /\ web = [p \in Browsers |-> NoConn]

Becomes(p, s) == web' = [web EXCEPT ![p] = s] /\ UNCHANGED vars

-----------------------------------------------------------------------------
(* The game's goroutine *)

\* An upgraded connection (handleWS, newGameSession, attach).  Who is banned, gets
\* no handle or died today is shown out.
Connect(p) ==
    /\ ~Live(p) /\ queued <= MaxLive
    /\ \E next \in {"top", "bye"} : Becomes(p, [NewConn EXCEPT !.ui = next])

\* SessionStart, and the head of the run loop: the news is taken on the actor,
\* closed session or not.
Top(p) ==
    /\ web[p].ui = "top"
    /\ TakeNews(p)
    /\ web' = [web EXCEPT ![p].ui = "print", ![p].toPrint = Shown(Fresh(p))]

\* Printf never waits: a full buffer closes the session, and when the session is
\* closed already the select may take either way.
Printf(s, m) == {[s EXCEPT !.out = Append(@, m)], [s EXCEPT !.closed = TRUE]}

\* PrintNews, and what follows it: the prompt, or the end for the dead.
PrintNews(p) ==
    /\ web[p].ui = "print"
    /\ IF web[p].toPrint = <<>>
       THEN \E next \in {"prompt", "bye"} : Becomes(p, [web[p] EXCEPT !.ui = next])
       ELSE \E s \in Printf(web[p], Head(web[p].toPrint)) :
               Becomes(p, [s EXCEPT !.toPrint = Tail(@)])

\* A line, though the session may be closed: a command, or Q.
ReadLine(p) ==
    /\ web[p].ui = "prompt"
    /\ web[p].lines > 0
    /\ \E next \in {"top", "bye"} : Becomes(p, [web[p] EXCEPT !.ui = next, !.lines = @ - 1])

\* A player idle for too long: the session closes itself.
IdleTimeout(p) ==
    /\ web[p].ui = "prompt"
    /\ Becomes(p, [web[p] EXCEPT !.ui = "bye", !.closed = TRUE])

\* End of input: the command goes on with an empty line, and the loop ends.
EndOfInput(p) ==
    /\ web[p].ui = "prompt"
    /\ web[p].closed
    /\ Becomes(p, [web[p] EXCEPT !.ui = "bye"])

\* After a moment for the writer, the deferred close.
Farewell(p) ==
    /\ web[p].ui = "bye"
    /\ Becomes(p, [web[p] EXCEPT !.ui = "over", !.closed = TRUE])

Ui(p) == Top(p) \/ PrintNews(p) \/ ReadLine(p) \/ IdleTimeout(p) \/ EndOfInput(p) \/ Farewell(p)

\* Someone else's goroutine: attach for a newer session, or CloseAllSessions.  (It
\* stands also for the other output of the session's own overflowing the buffer.)
Evict(p) == ~web[p].closed /\ Becomes(p, [web[p] EXCEPT !.closed = TRUE])

-----------------------------------------------------------------------------
(* The reader and the writer *)

\* Deliberately wrong: the reader waits for room in `lines` whatever happens.
Deliver_OnlyRoom(p) ==
    /\ web[p].rd = "hold"
    /\ web[p].lines < LinesSize
    /\ Becomes(p, [web[p] EXCEPT !.lines = @ + 1, !.rd = "read"])

\* The line goes to the game, or the session has closed meanwhile.
Deliver(p) ==
    /\ web[p].rd = "hold"
    /\ \/ /\ web[p].lines < LinesSize
          /\ Becomes(p, [web[p] EXCEPT !.lines = @ + 1, !.rd = "read"])
       \/ /\ web[p].closed
          /\ Becomes(p, [web[p] EXCEPT !.rd = "done"])

\* ReadMessage fails: the browser has left, or the writer closed the socket.
ReadFails(p) ==
    /\ web[p].rd = "read"
    /\ web[p].link = "gone" \/ web[p].wr = "done"
    /\ Becomes(p, [web[p] EXCEPT !.rd = "done", !.closed = TRUE])

\* What a write may come to: the browser shows it; one that has left may still
\* seem to take it.
Written(s, m) ==
    CASE s.link = "up"      -> {[s EXCEPT !.screen = @ \cup {m}]}
      [] s.link = "gone"    -> {s}
      [] s.link = "stalled" -> {}

\* It lets the deadline pass: the connection takes no more after that.
Failed(s) == [s EXCEPT !.link = IF @ = "up" THEN "stalled" ELSE @]

Take(p) ==
    /\ web[p].wr = "wait" /\ web[p].out # <<>>
    /\ Becomes(p, [web[p] EXCEPT !.wr = "write", !.hand = <<Head(web[p].out)>>, !.out = Tail(@)])

Write(p) ==
    /\ web[p].wr = "write"
    /\ \/ \E s \in Written(web[p], web[p].hand[1]) :
             Becomes(p, [s EXCEPT !.wr = "wait", !.hand = <<>>])
       \/ Becomes(p, [Failed(web[p]) EXCEPT !.wr = "failed", !.hand = <<>>, !.closed = TRUE])

\* Deliberately wrong: a closed session is hung up on as it is.
SeeClosed_NoDrain(p) ==
    /\ web[p].wr = "wait"
    /\ web[p].closed
    /\ Becomes(p, [web[p] EXCEPT !.wr = "done"])

SeeClosed(p) ==
    /\ web[p].wr = "wait"
    /\ web[p].closed
    /\ Becomes(p, [web[p] EXCEPT !.wr = "drain"])

\* What made it into the buffer is written, errors or not, before hanging up.
Drain(p) ==
    /\ web[p].wr = "drain"
    /\ IF web[p].out = <<>>
       THEN Becomes(p, [web[p] EXCEPT !.wr = "done"])
       ELSE \E s \in Written(web[p], Head(web[p].out)) \cup {Failed(web[p])} :
               Becomes(p, [s EXCEPT !.out = Tail(@)])

Reader(p) == Deliver(p) \/ ReadFails(p)
Writer(p) == Take(p) \/ Write(p) \/ SeeClosed(p) \/ Drain(p)

-----------------------------------------------------------------------------
(* The browser, which owes us nothing *)

Send(p) ==
    /\ web[p].rd = "read" /\ web[p].link # "gone" /\ web[p].wr # "done"
    /\ Becomes(p, [web[p] EXCEPT !.rd = "hold"])

Leave(p) ==
    /\ Live(p) /\ web[p].link # "gone"
    /\ Becomes(p, [web[p] EXCEPT !.link = "gone"])

\* All its goroutines have ended: nothing refers to the session any more.
Forget(p) == ~Live(p) /\ web[p] # NoConn /\ Becomes(p, NoConn)

\* News happens, days pass, and players also come another way (by telnet, or with
\* a newer web session).
Elsewhere ==
    /\ Next /\ UNCHANGED web
    /\ queued' > MaxLive => \A p \in Browsers : ~Live(p)

WebNext ==
    \/ Elsewhere
    \/ \E p \in Browsers :
          \/ Connect(p) \/ Ui(p) \/ Reader(p) \/ Writer(p)
          \/ Evict(p) \/ Send(p) \/ Leave(p) \/ Forget(p)

WebSpec == WebInit /\ [][WebNext]_webVars

(* The goroutines run; where a select has a choice it is random, so that an *)
(* alternative that is ready again and again is taken; and an idle prompt   *)
(* times out.  Nothing is asked of the browser.  As in News, players come   *)
(* back, one way or the other.                                             *)
WebFairSpec ==
    /\ WebSpec
    /\ \A p \in Players : WF_webVars(TakeNews(p) /\ UNCHANGED web)
    /\ \A p \in Browsers :
          /\ WF_webVars(Ui(p)) /\ WF_webVars(Reader(p)) /\ WF_webVars(Writer(p))
          /\ SF_webVars(EndOfInput(p)) /\ SF_webVars(SeeClosed(p))

-----------------------------------------------------------------------------
(* Properties *)

\* A session that is closed, by whoever it was, winds down altogether: the game,
\* the reader and the writer all end, whatever each was waiting for and whatever
\* the browser does.  Only a browser that stopped taking output and stays on the
\* line keeps a reader waiting, because a failed write leaves the socket open.
ClosedSessionsEnd ==
    \A p \in Browsers :
        web[p].closed ~> /\ web[p].ui = "over" /\ web[p].wr \in {"done", "failed"}
                         /\ web[p].rd = "done" \/ web[p].link = "stalled"

\* News taken off the list is printed, unless the session closes first; and what
\* an open session printed is shown, though it may then be closed from outside,
\* time out or come to its end, unless the browser fails to take it.
NewsGetsThrough ==
    \A p \in Browsers : \A n \in 1..MaxLive :
        LET Printed == n \in ToSet(web[p].out) \cup ToSet(web[p].hand)
            Seen == n \in web[p].screen IN
        /\ (n \in ToSet(web[p].toPrint)) ~> (Printed \/ Seen \/ web[p].closed)
        /\ (Printed /\ ~web[p].closed) ~> (Seen \/ web[p].link # "up")
=============================================================================
