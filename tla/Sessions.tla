------------------------------ MODULE Sessions ------------------------------
(***************************************************************************)
(* Players at their terminals.  A session runs on a goroutine of its own   *)
(* and gives its commands to the universe actor one at a time; between two *)
(* of them it waits at a prompt, and anything may happen: the other        *)
(* session of the account trades, moves or takes over, the ship is         *)
(* destroyed and, the next day, rebuilt.  What a prompt was opened for     *)
(* (here, the port) is remembered by the session, not by the engine.       *)
(*                                                                         *)
(* Web sessions are registered per player, newest wins; telnet sessions    *)
(* are not registered (webserver/session.go, server.go, telnetserver.go,   *)
(* consoleui/terminal.go, consoleui.go).  Credentials, registration and    *)
(* the news are outside this module.                                       *)
(***************************************************************************)
EXTENDS Trade

CONSTANTS Conns,    \* the connections there may be at a time
          Owner,    \* [Conns -> Traders]
          Amounts,  \* the quantities a player types
          NoSession

ASSUME SessionsAssumption ==
  /\ NoSession \notin Conns
  /\ Owner \in [Conns -> Traders]
  /\ Amounts \subseteq Nat

VARIABLES pc,      \* where each session's goroutine is
          web,     \* those that came through the web portal
          closed,  \* the web sessions closed from outside, or by themselves
          active,  \* [Traders -> Conns \cup {NoSession}]: the server's register
          victim,  \* [Conns -> ...]: the session a new one is about to close
          place,   \* where each player's ship is
          offer,   \* [Conns -> ...]: the amounts the bank's prompts propose
          docked   \* [session -> Nat]: ghost: the life in which it docked

sessionVars == <<pc, web, closed, active, victim, offer, docked>>
vars == <<tradeVars, sessionVars, place>>

Places == {"sol", "port", "bank"}

Prompts == {"cmd", "sell", "buy", "bank", "sol"}  \* waiting in ReadLine
InGame == {"top"} \cup Prompts
States == InGame \cup {"out", "attach", "evict", "start", "over"}

NoOffer == [deposit |-> 0, withdraw |-> 0]

Init ==
  /\ TradeInit
  /\ pc = [s \in Conns |-> "out"]
  /\ web = {} /\ closed = {}
  /\ active = [p \in Traders |-> NoSession]
  /\ victim = [s \in Conns |-> NoSession]
  /\ place \in [Traders -> {"port"}]
  /\ offer = [s \in Conns |-> NoOffer]
  /\ docked = [s \in Conns |-> 0]

(* A session gets to l.  Each round of the bank's dialogue first reads what *)
(* there is to deposit and to withdraw.                                    *)
Goto(s, l) ==
  /\ pc' = [pc EXCEPT ![s] = l]
  /\ offer' = [offer EXCEPT ![s] =
       IF l = "bank" THEN [deposit |-> money[Owner[s]]', withdraw |-> account[Owner[s]]']
       ELSE NoOffer]
Only(s, l) == /\ Goto(s, l)
              /\ UNCHANGED <<web, closed, active, victim, docked>>
Idle == UNCHANGED <<tradeVars, place>>

----------------------------------------------------------------------------
(* Coming and going. *)

(* A connection whose owner is known and may play (lookupPlayer, handleWS, *)
(* authenticate).  It is a new session: a name is not used again while     *)
(* someone still refers to its last holder.                                *)
Connect(s) ==
  /\ pc[s] = "out"
  /\ \A r \in Conns : victim[r] # s
  /\ \/ Goto(s, "attach") /\ web' = web \cup {s}
     \/ Goto(s, "start") /\ UNCHANGED web
  /\ UNCHANGED <<closed, active, victim, docked>>
  /\ Idle

Attach(s) ==
  LET old == active[Owner[s]] IN
  /\ pc[s] = "attach"
  /\ active' = [active EXCEPT ![Owner[s]] = s]
  /\ IF old = NoSession THEN Goto(s, "start") /\ UNCHANGED victim
     ELSE Goto(s, "evict") /\ victim' = [victim EXCEPT ![s] = old]
  /\ UNCHANGED <<web, closed, docked>>
  /\ Idle

(* The lock is released before the old session is closed; one that is over *)
(* by then is not troubled.                                                *)
Evict(s) ==
  /\ pc[s] = "evict"
  /\ closed' = closed \cup {v \in {victim[s]} : pc[v] # "out"}
  /\ victim' = [victim EXCEPT ![s] = NoSession]
  /\ Goto(s, "start")
  /\ UNCHANGED <<web, active, docked>>
  /\ Idle

(* Reconstruction if it is due; who died today is turned away. *)
SessionStart(s) ==
  LET p == Owner[s] IN
  /\ pc[s] = "start"
  /\ \/ /\ Reconstruct(p)
        /\ place' = [place EXCEPT ![p] = "sol"]
        /\ Only(s, "top")
     \/ /\ ~Due(p)
        /\ Only(s, IF Alive(p) THEN "top" ELSE "over")
        /\ Idle

\* Deliberately wrong: a session leaving takes out whoever is registered.
Detach_Always(s) == [active EXCEPT ![Owner[s]] = NoSession]

(* Only its own registration: a newer session may hold the place. *)
Detach(s) == IF active[Owner[s]] = s
             THEN [active EXCEPT ![Owner[s]] = NoSession]
             ELSE active

Over(s) ==
  /\ pc[s] = "over"
  /\ Goto(s, "out")
  /\ IF s \in web THEN active' = Detach(s) ELSE UNCHANGED active
  /\ web' = web \ {s} /\ closed' = closed \ {s}
  /\ docked' = [docked EXCEPT ![s] = 0]
  /\ UNCHANGED victim
  /\ Idle

(* An empty answer to "how much": the bank takes, or gives, all of it.     *)
TakeDefault(s) ==
  /\ pc[s] = "bank"
  /\ \/ BankDeposit(Owner[s], offer[s].deposit)
     \/ BankWithdraw(Owner[s], offer[s].withdraw)

(* ReadLine fails: the peer left, idled too long, or the session is closed.*)
(* GetInput then returns an empty line, and a prompt with a default takes  *)
(* that for an answer; only the port's prompts look whether it was one.    *)
HangUp(s) ==
  /\ pc[s] \in Prompts
  /\ closed' = closed \cup ({s} \cap web)
  /\ TakeDefault(s) \/ UNCHANGED tradeVars
  /\ Goto(s, "over")
  /\ UNCHANGED <<web, active, victim, docked, place>>

----------------------------------------------------------------------------
(* At the prompts.  A closed session may still find a line it had already  *)
(* received: select takes either.                                          *)

\* Deliberately wrong: the run loop prompts whether the ship exists or not.
Top_NoLook(s) == pc[s] = "top" /\ Only(s, "cmd") /\ Idle

(* The run loop looks for death, then prompts. *)
Top(s) ==
  /\ pc[s] = "top"
  /\ Only(s, IF Alive(Owner[s]) THEN "cmd" ELSE "over")
  /\ Idle

Move(s) ==
  LET p == Owner[s] IN
  /\ pc[s] = "cmd"
  /\ \/ /\ Alive(p)
        /\ \E to \in Places \ {place[p]} : place' = [place EXCEPT ![p] = to]
     \/ UNCHANGED place
  /\ Only(s, "top")
  /\ UNCHANGED tradeVars

(* Every round of a dialogue first asks whether the ship still exists, and *)
(* leaves it if not.  A death between the question and the prompt shows at *)
(* the next round, as one at the prompt does.                              *)
Ask(s, l) == Only(s, IF Alive(Owner[s]) THEN l ELSE "top")

(* The port is the one in the ship's sector; the session keeps it. *)
DockPort(s) ==
  LET p == Owner[s] IN
  /\ pc[s] = "cmd"
  /\ Alive(p)
  /\ \/ place[p] = "port" /\ Dock(p) /\ Goto(s, "sell")
     \/ place[p] = "bank" /\ UNCHANGED tradeVars /\ Goto(s, "bank")
     \/ place[p] = "sol"  /\ UNCHANGED tradeVars /\ Goto(s, "sol")
  /\ docked' = [docked EXCEPT ![s] = timesDied[p]]
  /\ UNCHANGED <<web, closed, active, victim, place>>

(* An answer that fails is asked for again; one that goes through, or Q,   *)
(* moves on to the next good.  What the port buys comes first.             *)
Sell(s) ==
  LET p == Owner[s] IN
  /\ pc[s] = "sell"
  /\ UNCHANGED place
  /\ \/ \E g \in Goods \ Sells, n \in Amounts :
          \/ TradeSell(p, g, n) /\ Ask(s, "buy")
          \/ ~CanSell(p, g, n) /\ UNCHANGED tradeVars /\ Ask(s, "sell")
     \/ UNCHANGED tradeVars /\ Ask(s, "buy")

Buy(s) ==
  LET p == Owner[s] IN
  /\ pc[s] = "buy"
  /\ UNCHANGED place
  /\ \/ \E g \in Sells, n \in Amounts :
          \/ TradeBuy(p, g, n) /\ Only(s, "top")
          \/ ~CanBuy(p, g, n) /\ UNCHANGED tradeVars /\ Ask(s, "buy")
     \/ UNCHANGED tradeVars /\ Only(s, "top")

(* The menu and the amount are two prompts, with nothing between them.     *)
Bank(s) ==
  LET p == Owner[s] IN
  /\ pc[s] = "bank"
  /\ UNCHANGED place
  /\ \/ /\ TakeDefault(s) \/ \E n \in Amounts : BankDeposit(p, n) \/ BankWithdraw(p, n)
        /\ Ask(s, "bank")
     \/ UNCHANGED tradeVars /\ Ask(s, "bank")
     \/ UNCHANGED tradeVars /\ Only(s, "top")

(* The service menu asks again whatever the answer, until Q. *)
Sol(s) ==
  LET p == Owner[s] IN
  /\ pc[s] = "sol"
  /\ UNCHANGED place
  /\ \/ \E n \in Amounts : BuyHolds(p, n) /\ Only(s, "sol")
     \/ UNCHANGED tradeVars /\ Only(s, "top")

Answer(s) == Move(s) \/ DockPort(s) \/ Sell(s) \/ Buy(s) \/ Bank(s) \/ Sol(s)

----------------------------------------------------------------------------
(* Others, and time.  Federation space is safe. *)
Destroyed(p) ==
  /\ place[p] # "sol"
  /\ KillPlayer(p)
  /\ place' = [place EXCEPT ![p] = "nowhere"]
  /\ UNCHANGED sessionVars

Time == Tick /\ UNCHANGED <<sessionVars, place>>

Inward(s) == Attach(s) \/ Evict(s) \/ SessionStart(s) \/ Top(s) \/ Over(s)
SessionNext(s) == Connect(s) \/ Inward(s) \/ HangUp(s) \/ Answer(s)

Next == \/ \E s \in Conns : SessionNext(s)
        \/ \E p \in Traders : Destroyed(p)
        \/ Time

Spec == Init /\ [][Next]_vars

(* A goroutine that can run does, and a ReadLine returns: with a line, or  *)
(* after the idle timeout.                                                 *)
Fairness == \A s \in Conns : WF_vars(Inward(s)) /\ WF_vars(HangUp(s) \/ Answer(s))
FairSpec == Spec /\ Fairness
----------------------------------------------------------------------------
(* PROPERTIES *)

(* Every variable has its type.                                            *)
TypeOK ==
  /\ TradeTypeOK
  /\ pc \in [Conns -> States]
  /\ web \subseteq Conns /\ closed \subseteq web
  /\ active \in [Traders -> Conns \cup {NoSession}]
  /\ victim \in [Conns -> Conns \cup {NoSession}]
  /\ place \in [Traders -> Places \cup {"nowhere"}]
  /\ offer \in [Conns -> [deposit : Nat, withdraw : Nat]]
  /\ docked \in [Conns -> Nat]

(* Web sessions that are playing, and not told to stop. *)
Live == {s \in web \ closed : pc[s] \in InGame \cup {"start"}}

(* Why that is so: a web session that has attached is the registered one,  *)
(* or has been told to stop, or is somebody's victim.                      *)
Attached == {"evict"} \cup InGame \cup {"start"}
Accounted(s) ==
  \/ active[Owner[s]] = s
  \/ \E r \in Conns : pc[r] = "evict" /\ victim[r] = s
EveryoneAccounted ==
  /\ \A s \in web \ closed : pc[s] \in Attached => Accounted(s)
  /\ \A s \in web : pc[s] # "out"

(* The newest connection wins (attach): of two live web sessions of one    *)
(* player, one is about to be closed, however connections, takeovers and   *)
(* departures interleave.                                                  *)
OneLiveWebSession ==
  \A s, t \in Live :
    s # t /\ Owner[s] = Owner[t] =>
      \E r \in Conns : pc[r] = "evict" /\ victim[r] \in {s, t}

(* A destroyed ship's money, holds and cargo stay as they are until it is  *)
(* rebuilt, whatever is answered at a prompt that was open when it was     *)
(* destroyed (ops.go, checkAlive; bank.go).                                *)
KeepsWreck(p) == ~Alive(p) /\ ~Alive(p)' => UNCHANGED <<money[p], holds[p], cargo[p]>>
DeadDoNotTrade == [][\A p \in Traders : KeepsWreck(p)]_vars

(* A destroyed ship's sessions end, at whatever prompt the news finds them *)
(* (consoleui.go, isDead, Run); the service menu at Sol does not ask.      *)
GhostsShownOut ==
  \A s \in Conns :
    (pc[s] \in InGame \ {"sol"} /\ ~Alive(Owner[s]))
      ~> (pc[s] \notin InGame \/ Alive(Owner[s]))

(* ops.go:56-60 says that a player killed at a docking prompt cannot       *)
(* complete a trade with the port captured before the death: a trade is    *)
(* made in the life in which the session docked.                           *)
GhostsNeverTrade ==
  [][\A s \in Conns : Sell(s) \/ Buy(s) =>
       cargo'[Owner[s]] = cargo[Owner[s]] \/ docked[s] = timesDied[Owner[s]]]_vars

(* consoleui.go:103-106 says that a prompt for a number aborts the command *)
(* on a disconnect: losing a session has no effect on the ship, the port   *)
(* or the account.                                                         *)
DisconnectAborts == [][\A s \in Conns : HangUp(s) => UNCHANGED tradeVars]_vars
=============================================================================
