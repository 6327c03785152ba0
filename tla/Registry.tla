------------------------------ MODULE Registry ------------------------------
(***************************************************************************)
(* Who is who: how a connection of either front-end comes by a player,     *)
(* registers one, or is turned away (session.go, telnetserver.go,          *)
(* terminal.go, player.go), and what the sysop does to players meanwhile:  *)
(* reports, bans and forced renames (admin.go, consoleui.go).  Everything  *)
(* on players and reports runs on the universe actor, but a login or a     *)
(* sysop command is several visits to it, with prompts in between.         *)
(***************************************************************************)
EXTENDS Naturals, Sequences

CONSTANTS Conns,        \* connections, each used again and again
          Subs,         \* what the web portal knows an account by
          Emails,       \* e-mail addresses: two accounts may have one, an account another later
          Logins,       \* the accounts, each with an address it has or had, that log in
          Admins,       \* the addresses the config lists under "admins"
          Names,        \* handles, as spelt
          Typed,        \* bound: those anybody types in a behaviour
          Norm,         \* moderation.Normalize: names that look alike have one form
          Decent,       \* the names CheckName lets pass
          Databases,    \* the lists of players there may be at the start
          Nobody,
          HandleTries,  \* handles a telnet login may type (5 in the code)
          PassTries,    \* passwords for one handle (3 in the code)
          NameTries,    \* handles a registration may try (8 in the code)
          SetTries,     \* rounds of choosing a password (5 in the code)
          MaxPlayers,   \* bound: players registered in a behaviour
          MaxReports    \* bound: reports filed in a behaviour

ASSUME RegistryAssumption ==
    /\ Logins \subseteq [sub : Subs, email : Emails] /\ Admins \subseteq Emails
    /\ Decent \subseteq Names /\ Typed \subseteq Names
    /\ Nobody \notin Subs \cup Emails \cup Names
    /\ Norm \in [Names -> Names]
    /\ {HandleTries, PassTries, NameTries, SetTries} \subseteq Nat \ {0}
    /\ MaxPlayers \in Nat /\ MaxReports \in Nat

\* A database the game has saved is one it has kept the handles unique in.
PlayerRecords == [name : Names, sub : Subs \cup {Nobody}, email : Emails \cup {Nobody},
                  hash : BOOLEAN, banned : BOOLEAN]
ASSUME DatabasesAssumption ==
    \A d \in Databases :
        /\ d \in Seq(PlayerRecords)
        /\ \A j, k \in DOMAIN d : Norm[d[j].name] = Norm[d[k].name] => j = k

VARIABLES players,  \* u.Players, in the order registered; never shortened
          reports,  \* u.Reports, with `about`: the player who had that handle when it was filed
          conn,     \* where each connection stands, and what it has read so far
          shut      \* shut[c]: players banned without a break since c connected

vars == <<players, reports, conn, shut>>

\* Of a connection.  ident: who the web portal says it is; who: its player, 0 if
\* none yet; banned: as read before the password prompt; left: tries left;
\* typed: the handle a sysop has just banned or unbanned.
NoLogin == [sub |-> Nobody, email |-> Nobody]
Away == [st |-> "away", ident |-> NoLogin, who |-> 0, banned |-> FALSE, left |-> 0, typed |-> Nobody]
Player(n, l, h) == [name |-> n, sub |-> l.sub, email |-> l.email, hash |-> h, banned |-> FALSE]

IDs == 1..Len(players)
First(S) == CHOOSE k \in S : \A j \in S : k <= j
FirstOr0(S) == IF S = {} THEN 0 ELSE First(S)

GetByNormalizedName(n) == FirstOr0({k \in IDs : Norm[players[k].name] = Norm[n]})
IsAdmin(k) == players[k].email \in Admins
CheckName(n) == n \in Decent
Taken(n, but) == \E k \in IDs \ {but} : Norm[players[k].name] = Norm[n]

Init ==
    /\ players \in Databases /\ reports = <<>>
    /\ conn = [c \in Conns |-> Away] /\ shut = [c \in Conns |-> {}]

At(c, s) == conn[c].st = s
Now(c, r) == conn' = [conn EXCEPT ![c] = r]
\* At prompt s, with so many tries.
Ask(c, s, n) == Now(c, [conn[c] EXCEPT !.st = s, !.left = n]) /\ UNCHANGED shut
Leave(c) == Now(c, Away) /\ shut' = [shut EXCEPT ![c] = {}]
\* The loop goes on, or gives up and the connection ends.
Retry(c) == IF conn[c].left > 1 THEN Ask(c, conn[c].st, conn[c].left - 1) ELSE Leave(c)

\* attach, TouchLastSeen and SessionStart follow; what was asked is forgotten.
Enter(c, k) == Now(c, [Away EXCEPT !.st = "game", !.who = k]) /\ UNCHANGED shut

----------------------------------------------------------------------------
(* The web portal *)

Banned == {k \in IDs : players[k].banned}

Connect(c, st, l, left) ==
    /\ At(c, "away")
    /\ Now(c, [Away EXCEPT !.st = st, !.ident = l, !.left = left])
    /\ shut' = [shut EXCEPT ![c] = Banned]
    /\ UNCHANGED <<players, reports>>

BySub(s) == FirstOr0({k \in IDs : players[k].sub = s})
\* GetByEmail looks at the first record with the address only.
ByEmail(e) ==
    LET k == FirstOr0({j \in IDs : players[j].email = e})
    IN IF k # 0 /\ players[k].sub = Nobody THEN k ELSE 0

\* Deliberately wrong: the address is the key.
LookupPlayer_Address(l) == FirstOr0({k \in IDs : players[k].email = l.email})

LookupPlayer(l) == IF BySub(l.sub) # 0 THEN BySub(l.sub) ELSE ByEmail(l.email)

\* It adopts a record that predates web logins.
LookupAdopts(l) ==
    LET k == LookupPlayer(l)
    IN players' = IF BySub(l.sub) = 0 /\ k # 0 THEN [players EXCEPT ![k].sub = l.sub] ELSE players

\* The page asks who is logged in; no session need follow.
HandleMe(l) == LookupAdopts(l) /\ UNCHANGED <<reports, conn, shut>>

\* Deliberately wrong: a record found by its address skips the ban.
Look_Adopted(c) ==
    /\ At(c, "web")
    /\ LookupAdopts(conn[c].ident)
    /\ LET k == LookupPlayer(conn[c].ident)
           adopts == BySub(conn[c].ident.sub) = 0
       IN \/ k # 0 /\ players[k].banned /\ ~adopts /\ Leave(c)
          \/ k # 0 /\ (adopts \/ ~players[k].banned) /\ Enter(c, k)
          \/ k = 0 /\ Ask(c, "sign", NameTries)
    /\ UNCHANGED reports

\* One visit to the actor: find the player and read the ban.
Look(c) ==
    /\ At(c, "web")
    /\ LookupAdopts(conn[c].ident)
    /\ LET k == LookupPlayer(conn[c].ident)
       IN \/ k # 0 /\ players[k].banned /\ Leave(c)
          \/ k # 0 /\ ~players[k].banned /\ Enter(c, k)
          \/ k = 0 /\ Ask(c, "sign", NameTries)
    /\ UNCHANGED reports

----------------------------------------------------------------------------
(* RegisterFlow, of both front-ends *)

\* Deliberately wrong: handles are compared as they are spelt.
CanRegister_Spelt(n) == CheckName(n) /\ ~\E k \in IDs : players[k].name = n

CanRegister(n) == CheckName(n) /\ ~Taken(n, 0)

Registered(n, l) == Append(players, Player(n, l, FALSE))

\* RegisterPlayer asks only whether the handle is free, not whether the account
\* has a player by now.
Register(c, n) ==
    /\ At(c, "sign")
    /\ IF CanRegister(n)
       THEN /\ Len(players) < MaxPlayers
            /\ players' = Registered(n, conn[c].ident)
            /\ IF conn[c].ident # NoLogin THEN Enter(c, Len(players) + 1)
               ELSE /\ Now(c, [conn[c] EXCEPT !.st = "newpass", !.who = Len(players) + 1, !.left = SetTries])
                    /\ UNCHANGED shut
       ELSE Retry(c) /\ UNCHANGED players
    /\ UNCHANGED reports

----------------------------------------------------------------------------
(* The telnet gateway *)

\* Nothing typed, no such handle, or one without a password: another attempt.
Blank(c) ==
    /\ At(c, "handle") /\ Retry(c)
    /\ UNCHANGED <<players, reports>>

SignUp(c) ==
    /\ At(c, "handle") /\ Ask(c, "sign", NameTries)
    /\ UNCHANGED <<players, reports>>

\* The snapshot of password hash and ban, read before the password prompt.
GiveHandle(c, n) ==
    /\ At(c, "handle")
    /\ LET k == GetByNormalizedName(n) IN
          /\ k # 0 /\ players[k].hash
          /\ Now(c, [conn[c] EXCEPT !.st = "pass", !.who = k, !.banned = players[k].banned,
                                    !.left = PassTries])
    /\ UNCHANGED <<players, reports, shut>>

\* A wrong password, or the right one.
Password(c) ==
    /\ At(c, "pass")
    /\ \/ Retry(c)
       \/ conn[c].banned /\ Leave(c)
       \/ ~conn[c].banned /\ Enter(c, conn[c].who)
    /\ UNCHANGED <<players, reports>>

\* setPassword: two lines that do not match, or too short, or the new password.
NewPassword(c) ==
    /\ At(c, "newpass")
    /\ \/ Retry(c) /\ UNCHANGED players
       \/ Enter(c, conn[c].who) /\ players' = [players EXCEPT ![conn[c].who].hash = TRUE]
    /\ UNCHANGED reports

----------------------------------------------------------------------------
(* Of both: the end of a login, and of a session. *)

\* The connection drops, the idle timeout ends it, or the player quits.  Between
\* the two visits of a ban nothing waits for the connection.
HangUp(c) ==
    /\ conn[c].st \notin {"away", "resolve"} /\ Leave(c)
    /\ UNCHANGED <<players, reports>>

----------------------------------------------------------------------------
(* Commands of the game *)

ExecutePass(c) ==
    /\ At(c, "game")
    /\ players' = [players EXCEPT ![conn[c].who].hash = TRUE]
    /\ UNCHANGED <<reports, conn, shut>>

FileReport(c, n) ==
    /\ At(c, "game") /\ Len(reports) < MaxReports
    /\ LET k == GetByNormalizedName(n) IN
          /\ k \notin {0, conn[c].who}
          /\ reports' = Append(reports, [target |-> players[k].name, about |-> k, resolved |-> FALSE])
    /\ UNCHANGED <<players, conn, shut>>

ResolveReports(n) ==
    reports' = [r \in DOMAIN reports |->
                   [reports[r] EXCEPT !.resolved = @ \/ Norm[reports[r].target] = Norm[n]]]

\* First visit of sysopBan; nothing happens if it is refused.
SetBanned(c, n, b) ==
    /\ At(c, "game") /\ IsAdmin(conn[c].who)
    /\ LET k == GetByNormalizedName(n) IN
          /\ k # 0 /\ ~IsAdmin(k)
          /\ players' = [players EXCEPT ![k].banned = b]
          /\ shut' = IF b THEN shut ELSE [d \in Conns |-> shut[d] \ {k}]
    /\ Now(c, [conn[c] EXCEPT !.st = "resolve", !.typed = n])
    /\ UNCHANGED reports

\* Second visit: whatever reports name the handle typed by now.
BanResolves(c) ==
    /\ At(c, "resolve")
    /\ ResolveReports(conn[c].typed)
    /\ Now(c, [conn[c] EXCEPT !.st = "game", !.typed = Nobody])
    /\ UNCHANGED <<players, shut>>

\* Deliberately wrong: the reports against the old handle stay open.
ForceRename_Unresolved(c, n, new) ==
    /\ At(c, "game") /\ IsAdmin(conn[c].who)
    /\ LET k == GetByNormalizedName(n) IN
          /\ k # 0 /\ CheckName(new) /\ ~Taken(new, k)
          /\ players' = [players EXCEPT ![k].name = new]
    /\ UNCHANGED <<reports, conn, shut>>

ForceRename(c, n, new) ==
    /\ At(c, "game") /\ IsAdmin(conn[c].who)
    /\ LET k == GetByNormalizedName(n) IN
          /\ k # 0 /\ CheckName(new) /\ ~Taken(new, k)
          /\ players' = [players EXCEPT ![k].name = new]
          /\ ResolveReports(players[k].name)
    /\ UNCHANGED <<conn, shut>>

----------------------------------------------------------------------------
Login(c) ==
    \/ Look(c) \/ Blank(c) \/ SignUp(c) \/ Password(c) \/ NewPassword(c)
    \/ \E n \in Typed : Register(c, n) \/ GiveHandle(c, n)

Play(c) ==
    \/ ExecutePass(c) \/ BanResolves(c)
    \/ \E n \in Typed :
          \/ FileReport(c, n)
          \/ \E b \in BOOLEAN : SetBanned(c, n, b)
          \/ \E new \in Typed : ForceRename(c, n, new)

Next ==
    \/ \E l \in Logins : HandleMe(l)
    \/ \E c \in Conns :
        \/ Login(c) \/ Play(c) \/ HangUp(c)
        \/ \E l \in Logins : Connect(c, "web", l, 0)
        \/ Connect(c, "handle", NoLogin, HandleTries)

Spec == Init /\ [][Next]_vars
----------------------------------------------------------------------------
(* PROPERTIES *)

\* Types: a connection past its login has a player, and only an admin's waits to
\* resolve reports.
TypeOK ==
    /\ players \in Seq(PlayerRecords)
    /\ reports \in Seq([target : Names, about : IDs, resolved : BOOLEAN])
    /\ conn \in [Conns -> [st : {"away", "web", "sign", "handle", "pass", "newpass", "game", "resolve"},
                            ident : Logins \cup {NoLogin}, who : 0..Len(players), banned : BOOLEAN,
                            left : Nat, typed : Names \cup {Nobody}]]
    /\ shut \in [Conns -> SUBSET IDs]
    /\ \A c \in Conns : /\ conn[c].st \in {"pass", "newpass", "game", "resolve"} => conn[c].who # 0
                        /\ At(c, "resolve") => conn[c].typed # Nobody

\* player.go: handles are "unique in normalized form", the "anti-impersonation rule",
\* whoever registers and whoever is renamed in whatever order.
UniqueHandles ==
    \A j, k \in IDs : Norm[players[j].name] = Norm[players[k].name] => j = k

\* An open report names the player it was filed against: the sysop who acts on
\* the name strikes nobody else, though handles are changed, freed and reused
\* after the report was filed.
OpenReportsNameTheReported ==
    \A r \in DOMAIN reports :
        ~reports[r].resolved => GetByNormalizedName(reports[r].target) = reports[r].about

\* player.go: a banned player is "refused at login".  Nobody gets into the game as
\* a player who was banned when the connection was made and ever since, by either
\* front-end, by the sub, by the address of an old record, or by the password.  (A ban
\* set after the password prompt has read that there is none comes too late for that
\* log-in.)
BannedStayOut ==
    \A c \in Conns : conn[c].st \in {"game", "resolve"} => conn[c].who \notin shut[c]

\* auth.go: the "account key is the ID token's stable `sub` claim, never the email
\* (emails change)".  An account that has a player keeps that one, and logs in
\* as it, whatever address it comes with and whoever else has or had that
\* address; and no record passes from one account to another.
IdentityIsStable ==
    [][/\ \A s \in Subs : BySub(s) # 0 => BySub(s)' = BySub(s)
       /\ \A k \in IDs : players[k].sub # Nobody => players'[k].sub = players[k].sub
       /\ \A c \in Conns, s \in Subs : At(c, "web") /\ conn[c].ident.sub = s =>
             /\ At(c, "sign")' => BySub(s) = 0
             /\ At(c, "game")' => conn'[c].who = BySub(s)']_vars
=============================================================================
