--------------------------- MODULE RegistryProofs ---------------------------
(***************************************************************************)
(* That handles stay unique, that open reports name whom they were filed   *)
(* against, that the banned stay out and that an account keeps its         *)
(* player, for any number of connections, players and names.  The players' *)
(* list changes in few ways; what each does to the handles, to the         *)
(* identities and to what a waiting connection may rely on is shown once.  *)
(***************************************************************************)
EXTENDS Registry, Integers, SequenceTheorems, WellFoundedInduction, TLAPS

\* A set of numbers that is not empty has a least one.
LEMMA LeastNumber == ASSUME NEW S \in SUBSET Nat, S # {} PROVE \E x \in S : \A y \in S : x <= y
  <1> DEFINE R == OpToRel(<, Nat)
  <1>1. IsWellFoundedOn(R, Nat)
    BY NatLessThanWellFounded
  <1>2. \A x, y \in Nat : x < y => <<x, y>> \in R
    BY DEF OpToRel
  <1> HIDE DEF R
  <1>3. PICK x \in S : \A y \in S : ~(<<y, x>> \in R)
    BY <1>1, WFMin
  <1>4. \A y \in S : x \in Nat /\ y \in Nat /\ ~(y < x)
    BY <1>2, <1>3
  <1>5. \A y \in S : x <= y
    BY <1>4, SMT
  <1> QED
    BY <1>5

\* What First returns.
LEMMA FirstIs ==
  ASSUME NEW S \in SUBSET (Nat \ {0}), S # {}
  PROVE  FirstOr0(S) \in S /\ FirstOr0(S) # 0 /\ \A j \in S : FirstOr0(S) <= j
  <1>1. \E x \in S : \A y \in S : x <= y
    BY LeastNumber
  <1>2. First(S) \in S /\ \A j \in S : First(S) <= j
    BY <1>1 DEF First
  <1> QED
    BY <1>2 DEF FirstOr0

\* Later numbers do not change which is first.
LEMMA FirstStays ==
  ASSUME NEW S \in SUBSET (Nat \ {0}), S # {}, NEW T \in SUBSET (Nat \ {0}), S \subseteq T,
         \A t \in T : t \in S \/ \A s \in S : s < t
  PROVE  FirstOr0(T) = FirstOr0(S)
  <1>1. FirstOr0(S) \in S /\ \A j \in S : FirstOr0(S) <= j
    BY FirstIs
  <1>2. FirstOr0(T) \in T /\ \A j \in T : FirstOr0(T) <= j
    BY FirstIs
  <1>3. FirstOr0(S) \in Nat /\ FirstOr0(T) \in Nat /\ FirstOr0(T) <= FirstOr0(S)
    BY <1>1, <1>2
  <1>4. FirstOr0(T) \in S
    BY <1>1, <1>2, <1>3
  <1> QED
    BY <1>1, <1>3, <1>4

----------------------------------------------------------------------------
(* What the list of players says of identities *)

Owned(s) == {k \in IDs : players[k].sub = s}
Mails(e) == {k \in IDs : players[k].email = e}

LEMMA PlayersOK ==
  ASSUME TypeOK
  PROVE  /\ Len(players) \in Nat /\ IDs \subseteq Nat \ {0} /\ DOMAIN players = IDs
         /\ \A k \in IDs : players[k] \in PlayerRecords
  BY DEF TypeOK, IDs

\* Whom an account has, and what record an address leads to.
LEMMA BySubIs ==
  ASSUME TypeOK, NEW s
  PROVE  /\ Owned(s) \in SUBSET (Nat \ {0})
         /\ BySub(s) = FirstOr0(Owned(s))
         /\ BySub(s) = 0 <=> Owned(s) = {}
         /\ BySub(s) # 0 => BySub(s) \in Owned(s)
  <1>1. Owned(s) \in SUBSET (Nat \ {0})
    BY PlayersOK DEF Owned
  <1>2. BySub(s) = FirstOr0(Owned(s))
    BY DEF BySub, Owned
  <1>3. Owned(s) # {} => FirstOr0(Owned(s)) \in Owned(s) /\ FirstOr0(Owned(s)) # 0
    BY <1>1, FirstIs
  <1>4. Owned(s) = {} => FirstOr0(Owned(s)) = 0
    BY DEF FirstOr0
  <1> QED
    BY <1>1, <1>2, <1>3, <1>4

LEMMA ByEmailIs ==
  ASSUME TypeOK, NEW e, ByEmail(e) # 0
  PROVE  ByEmail(e) \in IDs /\ players[ByEmail(e)].sub = Nobody
  <1>1. Mails(e) \in SUBSET (Nat \ {0})
    BY PlayersOK DEF Mails
  <1>2. ByEmail(e) = LET k == FirstOr0(Mails(e)) IN IF k # 0 /\ players[k].sub = Nobody THEN k ELSE 0
    BY DEF ByEmail, Mails
  <1>3. FirstOr0(Mails(e)) = ByEmail(e) /\ FirstOr0(Mails(e)) # 0 /\ players[FirstOr0(Mails(e))].sub = Nobody
    BY <1>2
  <1>4. Mails(e) # {}
    BY <1>3 DEF FirstOr0
  <1>5. FirstOr0(Mails(e)) \in Mails(e)
    BY <1>1, <1>4, FirstIs
  <1> QED
    BY <1>3, <1>5 DEF Mails

\* What may happen to the list of players in a step, k's record or a new one's.
SameIdentities ==
    Len(players') = Len(players) /\ \A k \in IDs : players'[k].sub = players[k].sub
Adopted(k, s) ==
    /\ k \in IDs /\ s \in Subs /\ players[k].sub = Nobody /\ BySub(s) = 0
    /\ Len(players') = Len(players)
    /\ players'[k].sub = s
    /\ \A j \in IDs \ {k} : players'[j] = players[j]
Added(n, l) ==
    /\ n \in Names /\ l \in Logins \cup {NoLogin}
    /\ players' = Append(players, Player(n, l, FALSE))

\* Every account keeps the player it has, and every player its account.
Kept ==
    /\ \A s \in Subs : BySub(s) # 0 => BySub(s)' = BySub(s)
    /\ \A k \in IDs : players[k].sub # Nobody => players'[k].sub = players[k].sub

LEMMA SameIsKept ==
  ASSUME TypeOK, SameIdentities
  PROVE  Kept
  <1>1. IDs' = IDs
    BY DEF SameIdentities, IDs
  <1>2. ASSUME NEW s \in Subs
        PROVE  BySub(s)' = BySub(s)
    <2>1. Owned(s)' = Owned(s)
      BY <1>1 DEF Owned, SameIdentities
    <2> QED
      BY <2>1 DEF BySub, Owned
  <1> QED
    BY <1>2 DEF Kept, SameIdentities

\* An account that adopts a record has it from then on.
LEMMA AdoptedIs ==
  ASSUME TypeOK, NEW k, NEW s, Adopted(k, s)
  PROVE  BySub(s)' = k
  <1>1. IDs' = IDs /\ k \in IDs /\ k \in Nat \ {0}
    BY PlayersOK DEF Adopted, IDs
  <1>2. Owned(s) = {}
    BY BySubIs DEF Adopted
  <1>3. \A j \in IDs : j \in Owned(s)' <=> j = k
    BY <1>1, <1>2 DEF Owned, Adopted
  <1>4. Owned(s)' = {k}
    BY <1>1, <1>3 DEF Owned
  <1>5. BySub(s)' = FirstOr0({k})
    BY <1>4 DEF BySub, Owned
  <1>6. FirstOr0({k}) \in {k}
    BY <1>1, FirstIs
  <1> QED
    BY <1>5, <1>6

LEMMA AdoptedIsKept ==
  ASSUME TypeOK, NEW k, NEW s, Adopted(k, s)
  PROVE  Kept
  <1>1. IDs' = IDs /\ Nobody \notin Subs
    BY RegistryAssumption DEF Adopted, IDs
  <1>2. ASSUME NEW t \in Subs, BySub(t) # 0
        PROVE  BySub(t)' = BySub(t)
    <2>1. t # s /\ t # Nobody
      BY <1>1, <1>2 DEF Adopted
    <2>2. \A j \in IDs : players'[j].sub = t <=> players[j].sub = t
      BY <2>1 DEF Adopted
    <2>3. Owned(t)' = Owned(t)
      BY <1>1, <2>2 DEF Owned
    <2> QED
      BY <2>3 DEF BySub, Owned
  <1> QED
    BY <1>2 DEF Kept, Adopted

\* What is at its place after a registration.
LEMMA AddedIs ==
  ASSUME TypeOK, NEW n, NEW l, Added(n, l)
  PROVE  /\ players' \in Seq(PlayerRecords) /\ Len(players') = Len(players) + 1
         /\ IDs \subseteq IDs' /\ \A k \in IDs' : k \in IDs \/ k = Len(players) + 1
         /\ \A k \in IDs : players'[k] = players[k] /\ k < Len(players) + 1
         /\ players'[Len(players) + 1] = Player(n, l, FALSE)
  <1>1. Len(players) \in Nat /\ players \in Seq(PlayerRecords)
    BY PlayersOK DEF TypeOK
  <1>2. PICK e : e = Player(n, l, FALSE) /\ players' = Append(players, e)
    BY DEF Added
  <1>3. e \in PlayerRecords
    <2>1. n \in Names /\ l.sub \in Subs \cup {Nobody} /\ l.email \in Emails \cup {Nobody}
      BY RegistryAssumption DEF Added, NoLogin
    <2> QED
      BY <1>2, <2>1 DEF Player, PlayerRecords
  <1>4. /\ Len(players') = Len(players) + 1 /\ players' \in Seq(PlayerRecords)
        /\ \A k \in 1..Len(players) : players'[k] = players[k]
        /\ players'[Len(players) + 1] = e
    <2> DEFINE t == Append(players, e)
    <2>1. /\ Len(t) = Len(players) + 1 /\ t \in Seq(PlayerRecords)
          /\ \A k \in 1..Len(players) : t[k] = players[k]
          /\ t[Len(players) + 1] = e
      BY <1>1, <1>3, AppendProperties
    <2> HIDE DEF t
    <2>2. players' = t
      BY <1>2 DEF t
    <2> QED
      BY <2>1, <2>2
  <1>5. IDs' = 1..(Len(players) + 1) /\ IDs = 1..Len(players)
    BY <1>4 DEF IDs
  <1>6. /\ IDs \subseteq IDs' /\ \A k \in IDs' : k \in IDs \/ k = Len(players) + 1
        /\ \A k \in IDs : k < Len(players) + 1
    BY <1>1, <1>5
  <1> QED
    BY <1>2, <1>4, <1>5, <1>6

\* A newcomer is behind whoever has the account already.
LEMMA AddedIsKept ==
  ASSUME TypeOK, NEW n, NEW l, Added(n, l)
  PROVE  Kept
  <1>1. ASSUME NEW s \in Subs, BySub(s) # 0
        PROVE  BySub(s)' = BySub(s)
    <2>1. Owned(s) \subseteq Owned(s)' /\ \A k \in Owned(s)' : k \in Owned(s) \/ \A j \in Owned(s) : j < k
      BY AddedIs DEF Owned
    <2>2. Owned(s)' \in SUBSET (Nat \ {0}) /\ BySub(s)' = FirstOr0(Owned(s)')
      BY AddedIs DEF IDs, Owned, BySub
    <2>3. Owned(s) \in SUBSET (Nat \ {0}) /\ Owned(s) # {} /\ BySub(s) = FirstOr0(Owned(s))
      BY <1>1, BySubIs
    <2> QED
      BY <2>1, <2>2, <2>3, FirstStays
  <1>2. \A k \in IDs : players'[k] = players[k]
    BY AddedIs
  <1> QED
    BY <1>1, <1>2 DEF Kept

----------------------------------------------------------------------------
(* The ways the list of players changes *)

SameNames == Len(players') = Len(players) /\ \A k \in IDs : players'[k].name = players[k].name
SameBans == \A k \in IDs : players'[k].banned = players[k].banned

\* One record is replaced by another.
LEMMA RecordSet ==
  ASSUME TypeOK, NEW k \in IDs, NEW r \in PlayerRecords, players' = [players EXCEPT ![k] = r]
  PROVE  /\ players' \in Seq(PlayerRecords)
         /\ Len(players') = Len(players) /\ IDs' = IDs
         /\ players'[k] = r /\ \A j \in IDs \ {k} : players'[j] = players[j]
  <1>1. players \in Seq(PlayerRecords) /\ Len(players) \in Nat /\ k \in 1..Len(players)
    BY PlayersOK DEF TypeOK, IDs
  <1>2. players' \in Seq(PlayerRecords) /\ Len(players') = Len(players)
    BY <1>1, ExceptSeq
  <1>3. players'[k] = r /\ \A j \in IDs \ {k} : players'[j] = players[j]
    BY <1>1, PlayersOK
  <1> QED
    BY <1>2, <1>3 DEF IDs

LEMMA HashSet ==
  ASSUME TypeOK, NEW k \in IDs, players' = [players EXCEPT ![k].hash = TRUE]
  PROVE  players' \in Seq(PlayerRecords) /\ SameNames /\ SameIdentities /\ SameBans
  <1> DEFINE r == [players[k] EXCEPT !.hash = TRUE]
  <1>1. players[k] \in PlayerRecords
    BY PlayersOK
  <1>2. /\ r \in PlayerRecords
        /\ r.name = players[k].name /\ r.sub = players[k].sub
        /\ r.banned = players[k].banned
    BY <1>1 DEF PlayerRecords
  <1>3. players' = [players EXCEPT ![k] = r]
    OBVIOUS
  <1> HIDE DEF r
  <1>4. /\ players' \in Seq(PlayerRecords) /\ Len(players') = Len(players)
        /\ players'[k] = r /\ \A j \in IDs \ {k} : players'[j] = players[j]
    BY <1>2, <1>3, RecordSet
  <1> QED
    BY <1>2, <1>4 DEF SameNames, SameIdentities, SameBans

LEMMA BanSet ==
  ASSUME TypeOK, NEW k \in IDs, NEW b \in BOOLEAN, players' = [players EXCEPT ![k].banned = b]
  PROVE  /\ players' \in Seq(PlayerRecords) /\ SameNames /\ SameIdentities
         /\ players'[k].banned = b /\ \A j \in IDs \ {k} : players'[j].banned = players[j].banned
  <1> DEFINE r == [players[k] EXCEPT !.banned = b]
  <1>1. players[k] \in PlayerRecords
    BY PlayersOK
  <1>2. /\ r \in PlayerRecords
        /\ r.name = players[k].name /\ r.sub = players[k].sub
        /\ r.banned = b
    BY <1>1 DEF PlayerRecords
  <1>3. players' = [players EXCEPT ![k] = r]
    OBVIOUS
  <1> HIDE DEF r
  <1>4. /\ players' \in Seq(PlayerRecords) /\ Len(players') = Len(players)
        /\ players'[k] = r /\ \A j \in IDs \ {k} : players'[j] = players[j]
    BY <1>2, <1>3, RecordSet
  <1> QED
    BY <1>2, <1>4 DEF SameNames, SameIdentities

LEMMA NameSet ==
  ASSUME TypeOK, NEW k \in IDs, NEW n \in Names, players' = [players EXCEPT ![k].name = n]
  PROVE  /\ players' \in Seq(PlayerRecords) /\ SameIdentities /\ SameBans
         /\ players'[k].name = n /\ \A j \in IDs \ {k} : players'[j].name = players[j].name
  <1> DEFINE r == [players[k] EXCEPT !.name = n]
  <1>1. players[k] \in PlayerRecords
    BY PlayersOK
  <1>2. /\ r \in PlayerRecords
        /\ r.name = n /\ r.sub = players[k].sub
        /\ r.banned = players[k].banned
    BY <1>1 DEF PlayerRecords
  <1>3. players' = [players EXCEPT ![k] = r]
    OBVIOUS
  <1> HIDE DEF r
  <1>4. /\ players' \in Seq(PlayerRecords) /\ Len(players') = Len(players)
        /\ players'[k] = r /\ \A j \in IDs \ {k} : players'[j] = players[j]
    BY <1>2, <1>3, RecordSet
  <1> QED
    BY <1>2, <1>4 DEF SameIdentities, SameBans

LEMMA SubSet ==
  ASSUME TypeOK, NEW l \in Logins, BySub(l.sub) = 0, LookupPlayer(l) # 0,
         players' = [players EXCEPT ![LookupPlayer(l)].sub = l.sub]
  PROVE  /\ players' \in Seq(PlayerRecords) /\ SameNames /\ SameBans
         /\ Adopted(LookupPlayer(l), l.sub)
  <1> DEFINE k == LookupPlayer(l)
             r == [players[k] EXCEPT !.sub = l.sub]
  <1>1. k = ByEmail(l.email) /\ k \in IDs /\ players[k].sub = Nobody
    BY ByEmailIs DEF LookupPlayer
  <1>2. players[k] \in PlayerRecords /\ l.sub \in Subs
    BY <1>1, PlayersOK, RegistryAssumption
  <1>3. /\ r \in PlayerRecords
        /\ r.name = players[k].name /\ r.sub = l.sub
        /\ r.banned = players[k].banned
    BY <1>2 DEF PlayerRecords
  <1>4. players' = [players EXCEPT ![k] = r]
    OBVIOUS
  <1> HIDE DEF r, k
  <1>5. /\ players' \in Seq(PlayerRecords) /\ Len(players') = Len(players)
        /\ players'[k] = r /\ \A j \in IDs \ {k} : players'[j] = players[j]
    BY <1>1, <1>3, <1>4, RecordSet
  <1>6. players' \in Seq(PlayerRecords) /\ SameNames /\ SameBans /\ Adopted(k, l.sub)
    BY <1>1, <1>2, <1>3, <1>5 DEF SameNames, SameBans, Adopted
  <1> QED
    BY <1>6 DEF k

LEMMA OneMorePlayer ==
  ASSUME TypeOK, NEW n, NEW l, Added(n, l)
  PROVE  /\ players' \in Seq(PlayerRecords) /\ Len(players') = Len(players) + 1
         /\ SameBans /\ players'[Len(players) + 1].banned = FALSE
         /\ \A k \in IDs : players'[k].name = players[k].name
         /\ players'[Len(players) + 1].name = n
  <1>1. Player(n, l, FALSE).name = n /\ Player(n, l, FALSE).banned = FALSE
    BY DEF Player
  <1> QED
    BY <1>1, AddedIs DEF SameBans

----------------------------------------------------------------------------
(* The inductive invariant *)

Reports == [target : Names, about : IDs, resolved : BOOLEAN]
Stops == {"away", "web", "sign", "handle", "pass", "newpass", "game", "resolve"}
Connections == [st : Stops, ident : Logins \cup {NoLogin}, who : Nat, banned : BOOLEAN,
                left : Nat, typed : Names \cup {Nobody}]

\* An open report's player still has the handle it names.
ReportsStand ==
    \A r \in DOMAIN reports :
        ~reports[r].resolved => Norm[players[reports[r].about].name] = Norm[reports[r].target]

\* A connection that stands as r, and is to be kept from being any of S, is with the
\* list of players ps: who has a player has none of S, and who is to give a
\* password for one of S is known to be banned.
Sound(ps, r, S) ==
    /\ r \in Connections /\ r.who <= Len(ps)
    /\ r.st \in {"pass", "newpass", "game", "resolve"} => r.who # 0
    /\ r.st = "resolve" => r.typed # Nobody
    /\ r.st = "web" => r.ident \in Logins
    /\ S \subseteq 1..Len(ps) /\ \A k \in S : ps[k].banned = TRUE
    /\ r.st = "pass" /\ r.who \in S => r.banned = TRUE
    /\ r.st \in {"newpass", "game", "resolve"} => r.who \notin S

ConnsSound ==
    /\ conn \in [Conns -> Connections] /\ shut \in [Conns -> SUBSET Nat]
    /\ \A c \in Conns : Sound(players, conn[c], shut[c])

IndInv == TypeOK /\ UniqueHandles /\ ReportsStand /\ ConnsSound

\* Whom a handle finds.
LEMMA GetIs ==
  ASSUME TypeOK, UniqueHandles, NEW n, NEW k \in IDs, Norm[players[k].name] = Norm[n]
  PROVE  GetByNormalizedName(n) = k
  <1>1. {j \in IDs : Norm[players[j].name] = Norm[n]} = {k}
    BY DEF UniqueHandles
  <1>2. FirstOr0({k}) \in {k}
    BY PlayersOK, FirstIs
  <1> QED
    BY <1>1, <1>2 DEF GetByNormalizedName

LEMMA GotIs ==
  ASSUME TypeOK, NEW n, GetByNormalizedName(n) # 0
  PROVE  /\ GetByNormalizedName(n) \in IDs
         /\ Norm[players[GetByNormalizedName(n)].name] = Norm[n]
  <1> DEFINE S == {j \in IDs : Norm[players[j].name] = Norm[n]}
  <1>1. GetByNormalizedName(n) = FirstOr0(S)
    BY DEF GetByNormalizedName
  <1>2. S # {}
    BY <1>1 DEF FirstOr0
  <1>3. S \in SUBSET (Nat \ {0})
    BY PlayersOK
  <1>4. FirstOr0(S) \in S
    BY <1>2, <1>3, FirstIs
  <1> QED
    BY <1>1, <1>4

\* Handles stay unique when no name changes, ...
LEMMA UniqueWhenSame ==
  ASSUME TypeOK, UniqueHandles, SameNames
  PROVE  UniqueHandles'
  <1>1. IDs' = IDs
    BY DEF SameNames, IDs
  <1> QED
    BY <1>1 DEF UniqueHandles, SameNames

\* ... when one changes to a name that is free, ...
LEMMA UniqueWhenRenamed ==
  ASSUME TypeOK, UniqueHandles, NEW k \in IDs, NEW n \in Names, ~Taken(n, k),
         players' = [players EXCEPT ![k].name = n]
  PROVE  UniqueHandles'
  <1>1. /\ Len(players') = Len(players) /\ players'[k].name = n
        /\ \A j \in IDs \ {k} : players'[j].name = players[j].name
    BY NameSet DEF SameIdentities
  <1>2. IDs' = IDs
    BY <1>1 DEF IDs
  <1>3. \A j \in IDs \ {k} : Norm[players[j].name] # Norm[n]
    BY DEF Taken
  <1> QED
    BY <1>1, <1>2, <1>3 DEF UniqueHandles

\* ... and when a player is registered under one.
LEMMA UniqueWhenAdded ==
  ASSUME TypeOK, UniqueHandles, NEW n, NEW l, Added(n, l), ~Taken(n, 0)
  PROVE  UniqueHandles'
  <1>1. \A j \in IDs : Norm[players[j].name] # Norm[n]
    BY PlayersOK DEF Taken
  <1>2. /\ \A k \in IDs' : k \in IDs \/ k = Len(players) + 1
        /\ \A k \in IDs : players'[k].name = players[k].name
        /\ players'[Len(players) + 1].name = n
    BY AddedIs, OneMorePlayer
  <1> QED
    BY <1>1, <1>2 DEF UniqueHandles

\* Reports when nobody is renamed and none is filed.
LEMMA ReportsKept ==
  ASSUME TypeOK, ReportsStand, reports' = reports, Len(players') \in Nat, Len(players') >= Len(players),
         \A k \in IDs : players'[k].name = players[k].name
  PROVE  ReportsStand' /\ reports' \in Seq(Reports')
  <1>1. IDs \subseteq IDs'
    BY PlayersOK DEF IDs
  <1>2. reports \in Seq(Reports)
    BY DEF TypeOK, Reports
  <1>3. Len(reports) \in Nat /\ DOMAIN reports = 1..Len(reports)
        /\ \A r \in DOMAIN reports : reports[r] \in Reports
    BY <1>2
  <1>4. \A r \in DOMAIN reports : reports[r] \in Reports' /\ reports[r].about \in IDs
    BY <1>1, <1>3 DEF Reports
  <1>5. reports \in Seq(Reports')
    <2>1. Reports \subseteq Reports'
      BY <1>1 DEF Reports
    <2> QED
      BY <1>2, <2>1, SeqMonotonic
  <1>6. ReportsStand'
    BY <1>4 DEF ReportsStand
  <1> QED
    BY <1>5, <1>6

\* A report is filed.
LEMMA ReportsFiled ==
  ASSUME TypeOK, ReportsStand, UNCHANGED players, NEW k \in IDs,
         reports' = Append(reports, [target |-> players[k].name, about |-> k, resolved |-> FALSE])
  PROVE  ReportsStand' /\ reports' \in Seq(Reports')
  <1> DEFINE e == [target |-> players[k].name, about |-> k, resolved |-> FALSE]
             t == Append(reports, e)
  <1>1. reports \in Seq(Reports) /\ Reports' = Reports /\ IDs' = IDs
    BY DEF TypeOK, Reports, IDs
  <1>2. e \in Reports /\ e.about = k /\ e.target = players[k].name
    BY PlayersOK DEF Reports, PlayerRecords
  <1>3. /\ t \in Seq(Reports) /\ Len(t) = Len(reports) + 1
        /\ \A r \in 1..Len(reports) : t[r] = reports[r]
        /\ t[Len(reports) + 1] = e
    <2> HIDE DEF e
    <2> QED
      BY <1>1, <1>2, AppendProperties
  <1>4. reports' = t
    OBVIOUS
  <1>5. Len(reports) \in Nat /\ DOMAIN reports = 1..Len(reports) /\ DOMAIN t = 1..Len(t)
    BY <1>1, <1>3
  <1> HIDE DEF t, e
  <1>6. \A r \in DOMAIN t : r \in DOMAIN reports \/ r = Len(reports) + 1
    BY <1>3, <1>5
  <1>7. ReportsStand'
    BY <1>2, <1>3, <1>4, <1>5, <1>6 DEF ReportsStand
  <1> QED
    BY <1>1, <1>3, <1>4, <1>7

\* The reports against a handle are resolved.
LEMMA ResolveIs ==
  ASSUME TypeOK, NEW n, ResolveReports(n)
  PROVE  /\ reports' \in Seq(Reports) /\ DOMAIN reports' = DOMAIN reports
         /\ \A r \in DOMAIN reports :
               /\ reports[r] \in Reports
               /\ reports'[r].about = reports[r].about /\ reports'[r].target = reports[r].target
               /\ ~reports'[r].resolved => ~reports[r].resolved /\ Norm[reports[r].target] # Norm[n]
  <1>1. reports \in Seq(Reports)
    BY DEF TypeOK, Reports
  <1>2. Len(reports) \in Nat /\ DOMAIN reports = 1..Len(reports)
        /\ \A r \in DOMAIN reports : reports[r] \in Reports
    BY <1>1
  <1>3. ASSUME NEW r \in DOMAIN reports
        PROVE  /\ reports'[r] \in Reports
               /\ reports'[r].about = reports[r].about /\ reports'[r].target = reports[r].target
               /\ ~reports'[r].resolved => ~reports[r].resolved /\ Norm[reports[r].target] # Norm[n]
    <2>1. reports'[r] = [reports[r] EXCEPT !.resolved = @ \/ Norm[reports[r].target] = Norm[n]]
      BY DEF ResolveReports
    <2>2. reports[r] \in Reports
      BY <1>2
    <2> QED
      BY <2>1, <2>2 DEF Reports
  <1>4. DOMAIN reports' = DOMAIN reports
    BY DEF ResolveReports
  <1>5. reports' \in [1..Len(reports) -> Reports]
    BY <1>2, <1>3 DEF ResolveReports
  <1>6. reports' \in Seq(Reports)
    BY <1>2, <1>5, SeqDef
  <1> QED
    BY <1>2, <1>3, <1>4, <1>6

LEMMA ReportsResolved ==
  ASSUME TypeOK, ReportsStand, UNCHANGED players, NEW n, ResolveReports(n)
  PROVE  ReportsStand' /\ reports' \in Seq(Reports')
  <1>1. Reports' = Reports
    BY DEF Reports, IDs
  <1> QED
    BY <1>1, ResolveIs DEF ReportsStand

\* A handle is changed, and the reports against it are resolved.
LEMMA ReportsOfOldHandle ==
  ASSUME TypeOK, ReportsStand, NEW k \in IDs, NEW n \in Names,
         players' = [players EXCEPT ![k].name = n], ResolveReports(players[k].name)
  PROVE  ReportsStand' /\ reports' \in Seq(Reports')
  <1>1. /\ Len(players') = Len(players) /\ players'[k].name = n
        /\ \A j \in IDs \ {k} : players'[j].name = players[j].name
    BY NameSet DEF SameIdentities
  <1>2. Reports' = Reports
    BY <1>1 DEF Reports, IDs
  <1>3. /\ reports' \in Seq(Reports) /\ DOMAIN reports' = DOMAIN reports
        /\ \A r \in DOMAIN reports :
              /\ reports[r] \in Reports
              /\ reports'[r].about = reports[r].about /\ reports'[r].target = reports[r].target
              /\ ~reports'[r].resolved =>
                    ~reports[r].resolved /\ Norm[reports[r].target] # Norm[players[k].name]
    BY ResolveIs
  <1>4. ASSUME NEW r \in DOMAIN reports, ~reports'[r].resolved
        PROVE  Norm[players'[reports'[r].about].name] = Norm[reports'[r].target]
    <2>1. Norm[players[reports[r].about].name] = Norm[reports[r].target]
      BY <1>3, <1>4 DEF ReportsStand
    <2>2. reports[r].about \in IDs \ {k}
      BY <1>3, <1>4, <2>1 DEF Reports
    <2> QED
      BY <1>1, <1>3, <2>1, <2>2
  <1> QED
    BY <1>2, <1>3, <1>4 DEF ReportsStand

----------------------------------------------------------------------------
(* The connections in a step *)

\* A connection that is left alone, in a step in which the list of players only
\* grows and whoever it is still kept from stays banned.
LEMMA SoundStays ==
  ASSUME NEW ps, NEW r, NEW S, Sound(ps, r, S), NEW qs, NEW T,
         Len(ps) \in Nat, Len(qs) \in Nat, Len(qs) >= Len(ps),
         T \subseteq S, \A k \in T : qs[k].banned = TRUE
  PROVE  Sound(qs, r, T)
  <1>1. r \in Connections /\ r.who \in Nat /\ r.who <= Len(qs)
    BY DEF Sound, Connections
  <1>2. T \subseteq 1..Len(qs)
    BY DEF Sound
  <1> QED
    BY <1>1, <1>2 DEF Sound

\* The connections in a step of c, which becomes r and is to be kept from being S.
LEMMA ConnsStep ==
  ASSUME TypeOK, ConnsSound, NEW c \in Conns, NEW r, NEW S \in SUBSET Nat,
         conn' = [conn EXCEPT ![c] = r], shut' \in [Conns -> SUBSET Nat], shut'[c] = S,
         Len(players') \in Nat, Len(players') >= Len(players),
         \A d \in Conns \ {c} : shut'[d] \subseteq shut[d],
         \A d \in Conns \ {c} : \A k \in shut'[d] : players'[k].banned = TRUE,
         Sound(players', r, S)
  PROVE  ConnsSound'
  <1>1. r \in Connections
    BY DEF Sound
  <1>2. conn' \in [Conns -> Connections]
    BY <1>1 DEF ConnsSound
  <1>3. ASSUME NEW d \in Conns
        PROVE  Sound(players', conn'[d], shut'[d])
    <2>1. CASE d = c
      BY <2>1 DEF ConnsSound
    <2>2. CASE d # c
      <3>1. conn'[d] = conn[d] /\ Sound(players, conn[d], shut[d])
        BY <2>2 DEF ConnsSound
      <3>2. Len(players) \in Nat
        BY PlayersOK
      <3> QED
        BY <2>2, <3>1, <3>2, SoundStays
    <2> QED
      BY <2>1, <2>2
  <1> QED
    BY <1>2, <1>3 DEF ConnsSound

\* What a step must show of itself: what it makes of the players and the reports,
\* of its own connection and of those still kept out.
LEMMA StepOK ==
  ASSUME IndInv, NEW c \in Conns, NEW r, NEW S \in SUBSET Nat,
         conn' = [conn EXCEPT ![c] = r], shut' \in [Conns -> SUBSET Nat], shut'[c] = S,
         \A d \in Conns \ {c} : shut'[d] \subseteq shut[d],
         \A d \in Conns \ {c} : \A k \in shut'[d] : players'[k].banned = TRUE,
         Sound(players', r, S),
         players' \in Seq(PlayerRecords), Len(players') >= Len(players),
         reports' \in Seq(Reports'), ReportsStand', UniqueHandles'
  PROVE  IndInv'
  <1>1. Len(players') \in Nat
    OBVIOUS
  <1>2. ConnsSound'
    BY <1>1, ConnsStep DEF IndInv
  <1>3. TypeOK'
    <2>1. \A d \in Conns : /\ conn'[d] \in Connections /\ conn'[d].who <= Len(players')
                           /\ shut'[d] \subseteq 1..Len(players')
                           /\ conn'[d].st \in {"pass", "newpass", "game", "resolve"} => conn'[d].who # 0
                           /\ conn'[d].st = "resolve" => conn'[d].typed # Nobody
      BY <1>2 DEF ConnsSound, Sound
    <2>2. \A d \in Conns : conn'[d] \in [st : Stops, ident : Logins \cup {NoLogin}, who : 0..Len(players'),
                                         banned : BOOLEAN, left : Nat, typed : Names \cup {Nobody}]
      BY <1>1, <2>1 DEF Connections
    <2>3. /\ conn' \in [Conns -> [st : Stops, ident : Logins \cup {NoLogin}, who : 0..Len(players'),
                                  banned : BOOLEAN, left : Nat, typed : Names \cup {Nobody}]]
          /\ shut' \in [Conns -> SUBSET (1..Len(players'))]
      BY <1>2, <2>1, <2>2 DEF ConnsSound
    <2> QED
      BY <2>1, <2>3 DEF TypeOK, Stops, Reports, IDs, At
  <1> QED
    BY <1>2, <1>3 DEF IndInv

\* A step that leaves the players and the reports as they are.
LEMMA QuietStep ==
  ASSUME IndInv, UNCHANGED <<players, reports>>, NEW c \in Conns, NEW r, NEW S \in SUBSET Nat,
         conn' = [conn EXCEPT ![c] = r], shut' = [shut EXCEPT ![c] = S],
         Sound(players, r, S)
  PROVE  IndInv'
  <1>1. SameNames
    BY DEF SameNames
  <1>2. Len(players) \in Nat /\ players' \in Seq(PlayerRecords) /\ Len(players') >= Len(players)
    BY DEF IndInv, TypeOK
  <1>3. UniqueHandles'
    BY <1>1, UniqueWhenSame DEF IndInv
  <1>4. ReportsStand' /\ reports' \in Seq(Reports')
    BY <1>1, <1>2, ReportsKept DEF IndInv, SameNames
  <1>5. /\ shut' \in [Conns -> SUBSET Nat] /\ shut'[c] = S
        /\ \A d \in Conns \ {c} : shut'[d] = shut[d] /\ \A k \in shut'[d] : players'[k].banned = TRUE
    BY DEF IndInv, ConnsSound, Sound
  <1> QED
    BY <1>2, <1>3, <1>4, <1>5, StepOK

----------------------------------------------------------------------------
(* What a connection may become *)

LEMMA AwayIs ==
  /\ Away \in Connections /\ Away.st = "away" /\ Away.ident = NoLogin /\ Away.who = 0
  /\ Away.banned = FALSE /\ Away.typed = Nobody
  BY DEF Away, Connections, Stops

\* Away, it is kept from nothing.
LEMMA AwayIsSound ==
  ASSUME NEW ps, Len(ps) \in Nat
  PROVE  Sound(ps, Away, {})
  BY AwayIs DEF Sound

\* In the game, as somebody it is not kept from being.
LEMMA EntersSound ==
  ASSUME NEW ps, NEW S, Len(ps) \in Nat, S \subseteq 1..Len(ps), \A k \in S : ps[k].banned = TRUE,
         NEW k \in 1..Len(ps), k \notin S
  PROVE  Sound(ps, [Away EXCEPT !.st = "game", !.who = k], S)
  <1> DEFINE r == [Away EXCEPT !.st = "game", !.who = k]
  <1>1. k \in Nat
    OBVIOUS
  <1>3. r \in Connections /\ r.st = "game" /\ r.who = k
    BY <1>1, AwayIs DEF Connections, Stops
  <1>2. k # 0 /\ k <= Len(ps)
    OBVIOUS
  <1> HIDE DEF r
  <1>4. Sound(ps, r, S)
    BY <1>2, <1>3 DEF Sound
  <1> QED
    BY <1>4 DEF r

\* Initially all are away.
LEMMA InitOK == Init => IndInv
  <1> SUFFICES ASSUME Init PROVE IndInv
    OBVIOUS
  <1>1. players \in Seq(PlayerRecords) /\ reports = <<>>
    BY DatabasesAssumption DEF Init
  <1>2. UniqueHandles
    BY <1>1, DatabasesAssumption DEF Init, UniqueHandles, IDs
  <1>3. Len(players) \in Nat
    BY <1>1
  <1>4. \A c \in Conns : conn[c] = Away /\ shut[c] = {} /\ Sound(players, conn[c], shut[c])
    BY <1>3, AwayIsSound DEF Init
  <1>5. Away \in Connections
    BY DEF Away, Connections, Stops
  <1>6. ConnsSound
    BY <1>4, <1>5 DEF ConnsSound, Init
  <1>7. ReportsStand
    BY <1>1 DEF ReportsStand
  <1>8. TypeOK
    <2>1. /\ conn \in [Conns -> [st : Stops, ident : Logins \cup {NoLogin}, who : 0..Len(players),
                                 banned : BOOLEAN, left : Nat, typed : Names \cup {Nobody}]]
          /\ shut \in [Conns -> SUBSET IDs]
      <3>1. Away \in [st : Stops, ident : Logins \cup {NoLogin}, who : 0..Len(players),
                      banned : BOOLEAN, left : Nat, typed : Names \cup {Nobody}]
        BY <1>3 DEF Away, Stops
      <3> QED
        BY <1>4, <3>1 DEF Init
    <2>2. \A c \in Conns : conn[c].st = "away"
      BY <1>4, AwayIs
    <2>3. reports \in Seq(Reports)
      BY <1>1
    <2> QED
      BY <1>1, <2>1, <2>2, <2>3 DEF TypeOK, Stops, Reports, At
  <1> QED
    BY <1>2, <1>6, <1>7, <1>8 DEF IndInv

\* A connection as the invariant has it.
LEMMA ConnIs ==
  ASSUME IndInv, NEW c \in Conns
  PROVE  /\ Sound(players, conn[c], shut[c]) /\ conn[c] \in Connections
         /\ Len(players) \in Nat /\ IDs = 1..Len(players)
         /\ shut[c] \in SUBSET Nat /\ shut \in [Conns -> SUBSET Nat]
         /\ shut = [shut EXCEPT ![c] = shut[c]]
         /\ conn \in [Conns -> Connections]
  BY PlayersOK DEF IndInv, ConnsSound, IDs

\* Steps that end a login or a session.
LEMMA LeaveOK ==
  ASSUME IndInv, NEW c \in Conns, Leave(c), UNCHANGED <<players, reports>>
  PROVE  IndInv'
  <1>1. Sound(players, Away, {}) /\ Away.st = "away"
    BY ConnIs, AwayIsSound DEF Away
  <1> QED
    BY <1>1, QuietStep DEF Leave, Now

\* Steps that ask something next.
LEMMA AskOK ==
  ASSUME IndInv, NEW c \in Conns, NEW s \in Stops, NEW n \in Nat, Ask(c, s, n),
         UNCHANGED <<players, reports>>, s = conn[c].st \/ s = "sign"
  PROVE  IndInv'
  <1> DEFINE r == [conn[c] EXCEPT !.st = s, !.left = n]
  <1>1. /\ r \in Connections /\ r.st = s /\ r.ident = conn[c].ident /\ r.who = conn[c].who
        /\ r.banned = conn[c].banned /\ r.typed = conn[c].typed
    BY ConnIs DEF Connections
  <1>2. conn' = [conn EXCEPT ![c] = r] /\ shut' = [shut EXCEPT ![c] = shut[c]]
    BY ConnIs DEF Ask, Now
  <1> HIDE DEF r
  <1>3. Sound(players, r, shut[c])
    BY <1>1, ConnIs DEF Sound
  <1> QED
    BY <1>2, <1>3, ConnIs, QuietStep

LEMMA RetryOK ==
  ASSUME IndInv, NEW c \in Conns, Retry(c), UNCHANGED <<players, reports>>
  PROVE  IndInv'
  <1>1. CASE conn[c].left > 1 /\ Ask(c, conn[c].st, conn[c].left - 1)
    <2>1. conn[c].st \in Stops /\ conn[c].left - 1 \in Nat
      BY <1>1, ConnIs DEF Connections
    <2> QED
      BY <1>1, <2>1, AskOK
  <1>2. CASE Leave(c)
    BY <1>2, LeaveOK
  <1> QED
    BY <1>1, <1>2 DEF Retry

\* Steps that let somebody in, with nothing else changed.
LEMMA EnterOK ==
  ASSUME IndInv, NEW c \in Conns, NEW k \in IDs, k \notin shut[c], Enter(c, k),
         UNCHANGED <<players, reports>>
  PROVE  IndInv'
  <1> DEFINE r == [Away EXCEPT !.st = "game", !.who = k]
  <1>1. Sound(players, r, shut[c])
    BY ConnIs, EntersSound DEF Sound
  <1>2. conn' = [conn EXCEPT ![c] = r] /\ shut' = [shut EXCEPT ![c] = shut[c]]
    BY ConnIs DEF Enter, Now
  <1> HIDE DEF r
  <1> QED
    BY <1>1, <1>2, ConnIs, QuietStep

----------------------------------------------------------------------------
(* The actions *)

LEMMA ConnectOK ==
  ASSUME IndInv, NEW c \in Conns, NEW st, NEW l, NEW left \in Nat, Connect(c, st, l, left),
         (st = "web" /\ l \in Logins) \/ (st = "handle" /\ l = NoLogin)
  PROVE  IndInv'
  <1> DEFINE r == [Away EXCEPT !.st = st, !.ident = l, !.left = left]
  <1>1. st \in Stops /\ l \in Logins \cup {NoLogin}
    BY DEF Stops
  <1>2. r \in Connections /\ r.st = st /\ r.ident = l /\ r.who = 0
    BY <1>1, AwayIs DEF Connections
  <1>3. conn' = [conn EXCEPT ![c] = r] /\ shut' = [shut EXCEPT ![c] = Banned]
        /\ UNCHANGED <<players, reports>>
    BY DEF Connect, Now
  <1> HIDE DEF r
  <1>4. Banned \in SUBSET Nat /\ Banned \subseteq 1..Len(players)
        /\ \A k \in Banned : players[k].banned = TRUE
    <2>1. Banned \subseteq IDs
      BY DEF Banned
    <2>2. ASSUME NEW k \in Banned
          PROVE  players[k].banned = TRUE
      <3>1. players[k].banned /\ players[k] \in PlayerRecords
        BY <2>1, PlayersOK DEF Banned, IndInv
      <3> QED
        BY <3>1 DEF PlayerRecords
    <2> QED
      <3>1. Banned \subseteq 1..Len(players) /\ 1..Len(players) \subseteq Nat
        BY <2>1, ConnIs
      <3> HIDE DEF Banned
      <3> QED
        BY <2>2, <3>1
  <1>5. Sound(players, r, Banned)
    BY <1>2, <1>4, ConnIs DEF Sound
  <1> QED
    BY <1>3, <1>4, <1>5, QuietStep

\* Steps that change one record, other than its name or its ban.
LEMMA RecordStep ==
  ASSUME IndInv, reports' = reports, NEW c \in Conns, NEW r, NEW S \in SUBSET Nat,
         conn' = [conn EXCEPT ![c] = r], shut' = [shut EXCEPT ![c] = S],
         players' \in Seq(PlayerRecords), SameNames, SameBans,
         Sound(players', r, S)
  PROVE  IndInv'
  <1>1. Len(players) \in Nat /\ Len(players') = Len(players) /\ Len(players') >= Len(players)
    BY ConnIs DEF SameNames
  <1>2. UniqueHandles'
    BY UniqueWhenSame DEF IndInv
  <1>3. ReportsStand' /\ reports' \in Seq(Reports')
    BY <1>1, ReportsKept DEF IndInv, SameNames
  <1>4. /\ shut' \in [Conns -> SUBSET Nat] /\ shut'[c] = S
        /\ \A d \in Conns \ {c} : shut'[d] = shut[d]
    BY DEF IndInv, ConnsSound
  <1>5. ASSUME NEW d \in Conns \ {c}, NEW k \in shut'[d]
        PROVE  players'[k].banned = TRUE
    <2>1. k \in IDs /\ players[k].banned = TRUE
      BY <1>4, ConnIs DEF Sound
    <2> QED
      BY <2>1 DEF SameBans
  <1> QED
    BY <1>1, <1>2, <1>3, <1>4, <1>5, StepOK

\* Whom a look-up finds.
LEMMA LookedUp ==
  ASSUME TypeOK, NEW l
  PROVE  /\ LookupPlayer(l) # 0 => LookupPlayer(l) \in IDs
         /\ LookupPlayer(l) = 0 => BySub(l.sub) = 0
  <1>1. BySub(l.sub) # 0 => BySub(l.sub) \in IDs
    BY BySubIs DEF Owned
  <1> QED
    BY <1>1, ByEmailIs DEF LookupPlayer

LEMMA StutterOK == IndInv /\ UNCHANGED vars => IndInv'
  <1> SUFFICES ASSUME IndInv, UNCHANGED vars PROVE IndInv'
    OBVIOUS
  <1> USE DEF vars
  <1>1. TypeOK' /\ UniqueHandles'
    BY DEF IndInv, TypeOK, UniqueHandles, IDs, At
  <1>2. ReportsStand'
    BY DEF IndInv, ReportsStand
  <1>3. ConnsSound'
    BY DEF IndInv, ConnsSound
  <1> QED
    BY <1>1, <1>2, <1>3 DEF IndInv

\* What a look-up makes of the players.
LEMMA LookupSets ==
  ASSUME TypeOK, NEW l \in Logins, LookupAdopts(l)
  PROVE  \/ UNCHANGED players /\ (LookupPlayer(l) = 0 \/ LookupPlayer(l) = BySub(l.sub))
         \/ /\ LookupPlayer(l) # 0 /\ Adopted(LookupPlayer(l), l.sub)
            /\ players' \in Seq(PlayerRecords) /\ SameNames /\ SameBans
  <1>1. CASE BySub(l.sub) = 0 /\ LookupPlayer(l) # 0
    BY <1>1, SubSet DEF LookupAdopts
  <1>2. CASE ~(BySub(l.sub) = 0 /\ LookupPlayer(l) # 0)
    BY <1>2 DEF LookupAdopts, LookupPlayer
  <1> QED
    BY <1>1, <1>2

LEMMA HandleMeOK ==
  ASSUME IndInv, NEW l \in Logins, HandleMe(l)
  PROVE  IndInv'
  <1>1. reports' = reports /\ conn' = conn /\ shut' = shut /\ LookupAdopts(l)
    BY DEF HandleMe
  <1>2. CASE UNCHANGED players
    BY <1>1, <1>2, StutterOK DEF vars
  <1>3. CASE players' \in Seq(PlayerRecords) /\ SameNames /\ SameBans
    <2>1. CASE Conns = {}
      <3>1. UniqueHandles'
        BY <1>3, UniqueWhenSame DEF IndInv
      <3>2. ReportsStand' /\ reports' \in Seq(Reports')
        <4>1. Len(players') \in Nat /\ Len(players') >= Len(players)
          BY <1>3, PlayersOK DEF IndInv, SameNames
        <4> QED
          BY <1>1, <1>3, <4>1, ReportsKept DEF IndInv, SameNames
      <3>3. ConnsSound'
        BY <1>1, <2>1 DEF IndInv, ConnsSound
      <3>4. TypeOK'
        BY <1>1, <1>3, <2>1, <3>2 DEF IndInv, TypeOK, Reports
      <3> QED
        BY <3>1, <3>2, <3>3, <3>4 DEF IndInv
    <2>2. CASE Conns # {}
      <3>1. PICK c : c \in Conns
        BY <2>2
      <3>2. PICK r : r = conn[c]
        OBVIOUS
      <3>3. PICK S : S = shut[c]
        OBVIOUS
      <3>4. conn' = [conn EXCEPT ![c] = r] /\ shut' = [shut EXCEPT ![c] = S] /\ S \in SUBSET Nat
            /\ Sound(players, r, S) /\ Len(players) \in Nat
        BY <1>1, <3>1, <3>2, <3>3, ConnIs
      <3>5. Sound(players', r, S)
        <4>1. Len(players') = Len(players)
          BY <1>3 DEF SameNames
        <4>2. \A k \in S : players'[k].banned = TRUE
          BY <1>3, <3>4 DEF SameBans, Sound, IDs
        <4>3. /\ Sound(players, r, S) /\ Len(players) \in Nat /\ Len(players') \in Nat
              /\ Len(players') >= Len(players) /\ S \subseteq S
          BY <3>4, <4>1
        <4> QED
          BY <4>2, <4>3, SoundStays
      <3>6. conn' = [conn EXCEPT ![c] = r] /\ shut' = [shut EXCEPT ![c] = S] /\ S \in SUBSET Nat
        BY <3>4
      <3>7. /\ reports' = reports /\ players' \in Seq(PlayerRecords) /\ SameNames /\ SameBans
            /\ Sound(players', r, S)
        BY <1>1, <1>3, <3>5
      <3> QED
        BY <3>1, <3>6, <3>7, RecordStep
    <2> QED
      BY <2>1, <2>2
  <1> QED
    BY <1>1, <1>2, <1>3, LookupSets DEF IndInv

LEMMA LookOK ==
  ASSUME IndInv, NEW c \in Conns, Look(c)
  PROVE  IndInv'
  <1>1. PICK l : l = conn[c].ident
    OBVIOUS
  <1>2. l \in Logins /\ reports' = reports /\ LookupAdopts(l)
    BY <1>1, ConnIs DEF Look, At, Sound
  <1>3. PICK k : k = LookupPlayer(l)
    OBVIOUS
  <1>4. \/ k # 0 /\ players[k].banned /\ Leave(c)
        \/ k # 0 /\ ~players[k].banned /\ Enter(c, k)
        \/ k = 0 /\ Ask(c, "sign", NameTries)
    BY <1>1, <1>3 DEF Look
  <1>5. k # 0 => k \in IDs
    BY <1>3, LookedUp DEF IndInv
  <1>6. CASE UNCHANGED players
    <2>1. UNCHANGED <<players, reports>>
      BY <1>2, <1>6
    <2>2. CASE Ask(c, "sign", NameTries)
      <3>1. "sign" \in Stops /\ NameTries \in Nat
        BY RegistryAssumption DEF Stops
      <3> QED
        BY <2>1, <2>2, <3>1, AskOK
    <2>3. CASE Leave(c)
      BY <2>1, <2>3, LeaveOK
    <2>4. CASE k # 0 /\ ~players[k].banned /\ Enter(c, k)
      <3>1. k \notin shut[c]
        BY <2>4, ConnIs DEF Sound
      <3> QED
        BY <1>5, <2>1, <2>4, <3>1, EnterOK
    <2> QED
      BY <1>4, <2>2, <2>3, <2>4
  <1>7. CASE k # 0 /\ players' \in Seq(PlayerRecords) /\ SameNames /\ SameBans
    <2>1. Len(players') = Len(players)
      BY <1>7 DEF SameNames
    <2>2. CASE players[k].banned /\ Leave(c)
      <3>1. Sound(players', Away, {})
        BY <2>1, ConnIs, AwayIsSound
      <3> QED
        BY <1>2, <1>7, <2>2, <3>1, RecordStep DEF Leave, Now
    <2>3. CASE ~players[k].banned /\ Enter(c, k)
      <3> DEFINE r == [Away EXCEPT !.st = "game", !.who = k]
      <3>1. k \in 1..Len(players') /\ k \notin shut[c] /\ shut[c] \subseteq 1..Len(players')
        BY <1>5, <1>7, <2>1, <2>3, ConnIs DEF Sound
      <3>2. \A j \in shut[c] : players'[j].banned = TRUE
        BY <1>7, ConnIs DEF SameBans, Sound
      <3>3. Len(players') \in Nat
        BY <2>1, ConnIs
      <3>4. Sound(players', r, shut[c])
        BY <3>1, <3>2, <3>3, EntersSound
      <3>5. conn' = [conn EXCEPT ![c] = r] /\ shut' = [shut EXCEPT ![c] = shut[c]]
        BY <2>3, ConnIs DEF Enter, Now
      <3> HIDE DEF r
      <3> QED
        BY <1>2, <1>7, <3>4, <3>5, ConnIs, RecordStep
    <2> QED
      BY <1>4, <1>7, <2>2, <2>3
  <1> QED
    BY <1>2, <1>3, <1>6, <1>7, LookupSets DEF IndInv

LEMMA RegisterOK ==
  ASSUME IndInv, NEW c \in Conns, NEW n \in Typed, Register(c, n)
  PROVE  IndInv'
  <1>1. CASE ~CanRegister(n)
    BY <1>1, RetryOK DEF Register
  <1>2. CASE CanRegister(n)
    <2>1. PICK l : l = conn[c].ident
      OBVIOUS
    <2>2. PICK k : k = Len(players) + 1
      OBVIOUS
    <2>3. /\ At(c, "sign") /\ players' = Append(players, Player(n, l, FALSE)) /\ reports' = reports
          /\ IF l # NoLogin THEN Enter(c, k)
             ELSE /\ Now(c, [conn[c] EXCEPT !.st = "newpass", !.who = k, !.left = SetTries])
                  /\ UNCHANGED shut
      BY <1>2, <2>1, <2>2 DEF Register, Registered
    <2>4. Added(n, l)
      <3>1. n \in Names /\ l \in Logins \cup {NoLogin}
        BY <2>1, ConnIs, RegistryAssumption DEF Connections
      <3> QED
        BY <2>3, <3>1 DEF Added
    <2>5. /\ players' \in Seq(PlayerRecords) /\ Len(players') = Len(players) + 1 /\ SameBans
          /\ \A j \in IDs : players'[j].name = players[j].name
      BY <2>4, OneMorePlayer DEF IndInv
    <2>6. Len(players') \in Nat /\ Len(players') >= Len(players) /\ k \in 1..Len(players')
          /\ shut[c] \subseteq 1..Len(players') /\ k \notin shut[c]
      <3>1. shut[c] \subseteq 1..Len(players) /\ Len(players) \in Nat
        BY ConnIs DEF Sound
      <3> QED
        BY <2>2, <2>5, <3>1
    <2>7. \A d \in Conns : \A j \in shut[d] : players'[j].banned = TRUE
      BY <2>5, ConnIs DEF SameBans, Sound
    <2>8. UniqueHandles'
      BY <1>2, <2>4, UniqueWhenAdded DEF IndInv, CanRegister
    <2>9. ReportsStand' /\ reports' \in Seq(Reports')
      BY <2>3, <2>5, <2>6, ReportsKept DEF IndInv
    <2>10. CASE l # NoLogin
      <3> DEFINE r == [Away EXCEPT !.st = "game", !.who = k]
      <3>1. Sound(players', r, shut[c])
        BY <2>6, <2>7, EntersSound
      <3>2. conn' = [conn EXCEPT ![c] = r] /\ shut' = shut
        BY <2>3, <2>10 DEF Enter, Now
      <3> HIDE DEF r
      <3> QED
        BY <2>5, <2>6, <2>7, <2>8, <2>9, <3>1, <3>2, ConnIs, StepOK
    <2>11. CASE l = NoLogin
      <3> DEFINE r == [conn[c] EXCEPT !.st = "newpass", !.who = k, !.left = SetTries]
      <3>1. conn' = [conn EXCEPT ![c] = r] /\ shut' = shut
        BY <2>3, <2>11 DEF Now
      <3>2. r \in Connections /\ r.st = "newpass" /\ r.who = k
        <4>1. SetTries \in Nat /\ k \in Nat
          BY <2>6, RegistryAssumption
        <4> QED
          BY <4>1, ConnIs DEF Connections, Stops
      <3> HIDE DEF r
      <3>3. Sound(players', r, shut[c])
        <4>1. k # 0 /\ k <= Len(players')
          BY <2>6
        <4> QED
          BY <2>6, <2>7, <3>2, <4>1 DEF Sound
      <3> QED
        BY <2>5, <2>6, <2>7, <2>8, <2>9, <3>1, <3>3, ConnIs, StepOK
    <2> QED
      BY <2>10, <2>11
  <1> QED
    BY <1>1, <1>2

LEMMA SignUpOK ==
  ASSUME IndInv, NEW c \in Conns, SignUp(c)
  PROVE  IndInv'
  <1>1. "sign" \in Stops /\ NameTries \in Nat
    BY RegistryAssumption DEF Stops
  <1> QED
    BY <1>1, AskOK DEF SignUp

LEMMA GiveHandleOK ==
  ASSUME IndInv, NEW c \in Conns, NEW n \in Typed, GiveHandle(c, n)
  PROVE  IndInv'
  <1>1. PICK k : k = GetByNormalizedName(n)
    OBVIOUS
  <1>2. PICK b : b = players[k].banned
    OBVIOUS
  <1> DEFINE r == [conn[c] EXCEPT !.st = "pass", !.who = k, !.banned = b, !.left = PassTries]
  <1>3. k \in IDs /\ UNCHANGED <<players, reports>>
    BY <1>1, GotIs DEF GiveHandle, IndInv
  <1>4. conn' = [conn EXCEPT ![c] = r] /\ shut' = [shut EXCEPT ![c] = shut[c]]
    BY <1>1, <1>2, ConnIs DEF GiveHandle, Now
  <1>5. /\ r \in Connections /\ r.st = "pass" /\ r.who = k /\ r.banned = b
    <2>1. b \in BOOLEAN
      BY <1>2, <1>3, PlayersOK DEF IndInv, PlayerRecords
    <2>2. PassTries \in Nat /\ k \in Nat
      BY <1>3, PlayersOK, RegistryAssumption DEF IndInv
    <2> QED
      BY <2>1, <2>2, ConnIs DEF Connections, Stops
  <1> HIDE DEF r
  <1>6. k # 0 /\ k <= Len(players)
    BY <1>3, ConnIs
  <1>7. Sound(players, r, shut[c])
    BY <1>2, <1>5, <1>6, ConnIs DEF Sound
  <1> QED
    BY <1>3, <1>4, <1>7, ConnIs, QuietStep

LEMMA PasswordOK ==
  ASSUME IndInv, NEW c \in Conns, Password(c)
  PROVE  IndInv'
  <1>1. At(c, "pass") /\ UNCHANGED <<players, reports>>
    BY DEF Password
  <1>2. CASE Retry(c)
    BY <1>1, <1>2, RetryOK
  <1>3. CASE Leave(c)
    BY <1>1, <1>3, LeaveOK
  <1>4. CASE ~conn[c].banned /\ Enter(c, conn[c].who)
    <2>1. conn[c].who \in IDs /\ conn[c].who \notin shut[c]
      <3>1. conn[c].who # 0 /\ conn[c].who <= Len(players)
        BY <1>1, ConnIs DEF At, Sound
      <3>2. conn[c].who \in Nat
        BY ConnIs DEF Connections
      <3>3. conn[c].who \notin shut[c]
        BY <1>1, <1>4, ConnIs DEF At, Sound
      <3> QED
        BY <3>1, <3>2, <3>3, ConnIs
    <2> QED
      BY <1>1, <1>4, <2>1, EnterOK
  <1> QED
    BY <1>2, <1>3, <1>4 DEF Password

\* Steps that set a password.
LEMMA HashStep ==
  ASSUME IndInv, reports' = reports, NEW c \in Conns, NEW k \in IDs, NEW r,
         players' = [players EXCEPT ![k].hash = TRUE],
         conn' = [conn EXCEPT ![c] = r], shut' = shut, Sound(players, r, shut[c])
  PROVE  IndInv'
  <1>1. players' \in Seq(PlayerRecords) /\ SameNames /\ SameIdentities /\ SameBans
    BY HashSet DEF IndInv
  <1>3. Len(players) \in Nat /\ Len(players') \in Nat /\ Len(players') >= Len(players)
    BY <1>1, ConnIs DEF SameNames
  <1>4. \A j \in shut[c] : players'[j].banned = TRUE
    BY <1>1, ConnIs DEF SameBans, Sound
  <1>5. Sound(players', r, shut[c])
    BY <1>3, <1>4, ConnIs, SoundStays
  <1> QED
    BY <1>1, <1>5, ConnIs, RecordStep

LEMMA NewPasswordOK ==
  ASSUME IndInv, NEW c \in Conns, NewPassword(c)
  PROVE  IndInv'
  <1>1. CASE Retry(c) /\ UNCHANGED players
    BY <1>1, RetryOK DEF NewPassword
  <1>2. CASE Enter(c, conn[c].who) /\ players' = [players EXCEPT ![conn[c].who].hash = TRUE]
    <2>1. PICK k : k = conn[c].who
      OBVIOUS
    <2> DEFINE r == [Away EXCEPT !.st = "game", !.who = k]
    <2>2. k \in 1..Len(players) /\ k \notin shut[c]
      <3>1. k # 0 /\ k <= Len(players) /\ k \in Nat
        BY <2>1, ConnIs DEF NewPassword, At, Sound, Connections
      <3>2. k \notin shut[c]
        BY <2>1, ConnIs DEF NewPassword, At, Sound
      <3> QED
        BY <3>1, <3>2, ConnIs
    <2>3. shut[c] \subseteq 1..Len(players) /\ \A j \in shut[c] : players[j].banned = TRUE
      BY ConnIs DEF Sound
    <2>4. Sound(players, r, shut[c])
      BY <2>2, <2>3, ConnIs, EntersSound
    <2>5. conn' = [conn EXCEPT ![c] = r] /\ shut' = shut /\ reports' = reports
          /\ players' = [players EXCEPT ![k].hash = TRUE]
      BY <1>2, <2>1 DEF NewPassword, Enter, Now
    <2> HIDE DEF r
    <2> QED
      BY <2>2, <2>4, <2>5, ConnIs, HashStep
  <1> QED
    BY <1>1, <1>2 DEF NewPassword

\* Somebody in the game is somebody.
LEMMA PlaysAs ==
  ASSUME IndInv, NEW c \in Conns, At(c, "game")
  PROVE  conn[c].who \in IDs /\ conn = [conn EXCEPT ![c] = conn[c]]
  <1>1. conn[c].who # 0 /\ conn[c].who <= Len(players) /\ conn[c].who \in Nat
    BY ConnIs DEF At, Sound, Connections
  <1> QED
    BY <1>1, ConnIs DEF At

LEMMA ExecutePassOK ==
  ASSUME IndInv, NEW c \in Conns, ExecutePass(c)
  PROVE  IndInv'
  <1>1. At(c, "game") /\ reports' = reports /\ conn' = conn /\ shut' = shut
        /\ players' = [players EXCEPT ![conn[c].who].hash = TRUE]
    BY DEF ExecutePass
  <1>2. PICK r : r = conn[c]
    OBVIOUS
  <1>3. PICK k : k = r.who
    OBVIOUS
  <1> QED
    BY <1>1, <1>2, <1>3, PlaysAs, ConnIs, HashStep

LEMMA FileReportOK ==
  ASSUME IndInv, NEW c \in Conns, NEW n \in Typed, FileReport(c, n)
  PROVE  IndInv'
  <1>1. PICK k : k = GetByNormalizedName(n)
    OBVIOUS
  <1>2. /\ At(c, "game") /\ k # 0 /\ players' = players /\ conn' = conn /\ shut' = shut
        /\ reports' = Append(reports, [target |-> players[k].name, about |-> k, resolved |-> FALSE])
    BY <1>1 DEF FileReport
  <1>3. k \in IDs
    BY <1>1, <1>2, GotIs DEF IndInv
  <1>4. ReportsStand' /\ reports' \in Seq(Reports')
    BY <1>2, <1>3, ReportsFiled DEF IndInv
  <1>5. SameNames
    BY <1>2 DEF SameNames
  <1>6. UniqueHandles'
    BY <1>5, UniqueWhenSame DEF IndInv
  <1>7. players' \in Seq(PlayerRecords) /\ Len(players') >= Len(players)
    BY <1>2, ConnIs DEF IndInv, TypeOK
  <1>8. PICK r : r = conn[c]
    OBVIOUS
  <1>9. /\ conn' = [conn EXCEPT ![c] = r] /\ Sound(players', r, shut[c])
        /\ \A d \in Conns : \A j \in shut[d] : players'[j].banned = TRUE
    BY <1>2, <1>8, PlaysAs, ConnIs DEF Sound
  <1> QED
    BY <1>2, <1>4, <1>6, <1>7, <1>9, ConnIs, StepOK

LEMMA ResolvesOK ==
  ASSUME IndInv, NEW c \in Conns, BanResolves(c)
  PROVE  IndInv'
  <1>1. PICK n : n = conn[c].typed
    OBVIOUS
  <1> DEFINE r == [conn[c] EXCEPT !.st = "game", !.typed = Nobody]
  <1>2. /\ At(c, "resolve") /\ ResolveReports(n) /\ players' = players /\ shut' = shut
        /\ conn' = [conn EXCEPT ![c] = r]
    BY <1>1 DEF BanResolves, Now
  <1>3. /\ r \in Connections /\ r.st = "game" /\ r.who = conn[c].who
    BY ConnIs DEF Connections, Stops
  <1> HIDE DEF r
  <1>4. ReportsStand' /\ reports' \in Seq(Reports')
    BY <1>2, ReportsResolved DEF IndInv
  <1>5. SameNames
    BY <1>2 DEF SameNames
  <1>6. UniqueHandles'
    BY <1>5, UniqueWhenSame DEF IndInv
  <1>7. players' \in Seq(PlayerRecords) /\ Len(players') >= Len(players)
    BY <1>2, ConnIs DEF IndInv, TypeOK
  <1>8. Sound(players, r, shut[c])
    BY <1>2, <1>3, ConnIs DEF At, Sound
  <1>9. \A d \in Conns : \A j \in shut[d] : players'[j].banned = TRUE
    BY <1>2, ConnIs DEF Sound
  <1> QED
    BY <1>2, <1>4, <1>6, <1>7, <1>8, <1>9, ConnIs, StepOK

LEMMA SetBannedOK ==
  ASSUME IndInv, NEW c \in Conns, NEW n \in Typed, NEW b \in BOOLEAN, SetBanned(c, n, b)
  PROVE  IndInv'
  <1>1. PICK k : k = GetByNormalizedName(n)
    OBVIOUS
  <1> DEFINE r == [conn[c] EXCEPT !.st = "resolve", !.typed = n]
  <1>2. /\ At(c, "game") /\ k # 0 /\ players' = [players EXCEPT ![k].banned = b] /\ reports' = reports
        /\ shut' = IF b THEN shut ELSE [d \in Conns |-> shut[d] \ {k}]
        /\ conn' = [conn EXCEPT ![c] = r]
    BY <1>1 DEF SetBanned, Now
  <1>3. k \in IDs
    BY <1>1, <1>2, GotIs DEF IndInv
  <1>4. n \in Names /\ n # Nobody
    BY RegistryAssumption
  <1>5. r \in Connections /\ r.st = "resolve" /\ r.who = conn[c].who /\ r.typed = n
    BY <1>4, ConnIs DEF Connections, Stops
  <1> HIDE DEF r
  <1>6. /\ players' \in Seq(PlayerRecords) /\ SameNames /\ SameIdentities
        /\ players'[k].banned = b /\ \A j \in IDs \ {k} : players'[j].banned = players[j].banned
    BY <1>2, <1>3, BanSet DEF IndInv
  <1>7. UniqueHandles'
    BY <1>6, UniqueWhenSame DEF IndInv
  <1>8. Len(players') = Len(players) /\ Len(players') \in Nat /\ Len(players') >= Len(players)
    BY <1>6, ConnIs DEF SameNames
  <1>9. ReportsStand' /\ reports' \in Seq(Reports')
    BY <1>2, <1>6, <1>8, ReportsKept DEF IndInv, SameNames
  <1>10. /\ shut' \in [Conns -> SUBSET Nat]
         /\ \A d \in Conns : shut'[d] \subseteq shut[d] /\ (b \/ k \notin shut'[d])
    BY <1>2, ConnIs
  <1>11. ASSUME NEW d \in Conns, NEW l \in shut'[d]
         PROVE  players'[l].banned = TRUE
    <2>1. l \in IDs /\ players[l].banned = TRUE
      BY <1>10, ConnIs DEF Sound
    <2>2. CASE l = k
      BY <1>6, <1>10, <2>2
    <2>3. CASE l # k
      BY <1>6, <2>1, <2>3
    <2> QED
      BY <2>2, <2>3
  <1>12. Sound(players', r, shut'[c])
    <2>1. Sound(players, r, shut[c])
      BY <1>2, <1>4, <1>5, ConnIs DEF At, Sound
    <2> QED
      BY <1>5, <1>8, <1>10, <1>11, <2>1, ConnIs, SoundStays
  <1> QED
    BY <1>2, <1>6, <1>7, <1>8, <1>9, <1>10, <1>11, <1>12, ConnIs, StepOK

LEMMA ForceRenameOK ==
  ASSUME IndInv, NEW c \in Conns, NEW n \in Typed, NEW new \in Typed, ForceRename(c, n, new)
  PROVE  IndInv'
  <1>1. PICK k : k = GetByNormalizedName(n)
    OBVIOUS
  <1>2. /\ At(c, "game") /\ k # 0 /\ ~Taken(new, k) /\ ResolveReports(players[k].name)
        /\ players' = [players EXCEPT ![k].name = new] /\ conn' = conn /\ shut' = shut
    BY <1>1 DEF ForceRename
  <1>3. k \in IDs /\ new \in Names
    BY <1>1, <1>2, GotIs, RegistryAssumption DEF IndInv
  <1>4. players' \in Seq(PlayerRecords) /\ SameIdentities /\ SameBans
    BY <1>2, <1>3, NameSet DEF IndInv
  <1>5. UniqueHandles'
    BY <1>2, <1>3, UniqueWhenRenamed DEF IndInv
  <1>6. ReportsStand' /\ reports' \in Seq(Reports')
    BY <1>2, <1>3, ReportsOfOldHandle DEF IndInv
  <1>8. Len(players') \in Nat /\ Len(players') >= Len(players)
    BY <1>4, ConnIs DEF SameIdentities
  <1>9. \A d \in Conns : \A j \in shut[d] : players'[j].banned = TRUE
    BY <1>4, ConnIs DEF SameBans, Sound
  <1>10. PICK r : r = conn[c]
    OBVIOUS
  <1>11. conn' = [conn EXCEPT ![c] = r] /\ Sound(players', r, shut[c])
    BY <1>2, <1>8, <1>9, <1>10, PlaysAs, ConnIs, SoundStays
  <1> QED
    BY <1>2, <1>4, <1>5, <1>6, <1>8, <1>9, <1>11, ConnIs, StepOK

----------------------------------------------------------------------------
(* The theorems *)

LEMMA NextOK == IndInv /\ [Next]_vars => IndInv'
  <1> SUFFICES ASSUME IndInv, NEW c \in Conns,
                      \/ Login(c) \/ Play(c) \/ HangUp(c)
                      \/ \E l \in Logins : Connect(c, "web", l, 0)
                      \/ Connect(c, "handle", NoLogin, HandleTries)
               PROVE  IndInv'
    BY StutterOK, HandleMeOK DEF Next
  <1>1. CASE Login(c)
    <2>1. CASE Blank(c)
      BY <2>1, RetryOK DEF Blank
    <2> QED
      BY <1>1, <2>1, LookOK, SignUpOK, PasswordOK, NewPasswordOK, RegisterOK, GiveHandleOK DEF Login
  <1>2. CASE Play(c)
    BY <1>2, ExecutePassOK, ResolvesOK, FileReportOK, SetBannedOK, ForceRenameOK DEF Play
  <1>3. CASE HangUp(c)
    BY <1>3, LeaveOK DEF HangUp
  <1>4. ASSUME NEW l \in Logins, Connect(c, "web", l, 0)
        PROVE  IndInv'
    BY <1>4, ConnectOK
  <1>5. CASE Connect(c, "handle", NoLogin, HandleTries)
    <2>1. HandleTries \in Nat
      BY RegistryAssumption
    <2> QED
      BY <1>5, <2>1, ConnectOK
  <1> QED
    BY <1>1, <1>2, <1>3, <1>4, <1>5

THEOREM Invariance == Spec => []IndInv
  <1> QED
    BY InitOK, NextOK, PTL DEF Spec

\* A connection past its login has a player, one who is there.
THEOREM RegistryTypeCorrect == Spec => []TypeOK
  <1>1. IndInv => TypeOK
    BY DEF IndInv
  <1> QED
    BY <1>1, Invariance, PTL

\* player.go: no two handles ever look alike, whoever registers or is renamed.
THEOREM HandlesStayUnique == Spec => []UniqueHandles
  <1>1. IndInv => UniqueHandles
    BY DEF IndInv
  <1> QED
    BY <1>1, Invariance, PTL

\* admin.go: a sysop who acts on the handle in an open report strikes whom it was
\* filed against.
THEOREM ReportsNameTheReported == Spec => []OpenReportsNameTheReported
  <1>1. IndInv => OpenReportsNameTheReported
    <2> SUFFICES ASSUME IndInv, NEW r \in DOMAIN reports, ~reports[r].resolved
                 PROVE  GetByNormalizedName(reports[r].target) = reports[r].about
      BY DEF OpenReportsNameTheReported
    <2>1. reports[r].about \in IDs
      <3>1. reports \in Seq(Reports)
        BY DEF IndInv, TypeOK, Reports
      <3>2. reports[r] \in Reports
        BY <3>1
      <3> QED
        BY <3>2 DEF Reports
    <2>2. Norm[players[reports[r].about].name] = Norm[reports[r].target]
      BY DEF IndInv, ReportsStand
    <2> QED
      BY <2>1, <2>2, GetIs DEF IndInv
  <1> QED
    BY <1>1, Invariance, PTL

\* player.go: who was banned before a connection was made, and is, does not get into
\* the game by it.
THEOREM TheBannedStayOut == Spec => []BannedStayOut
  <1>1. IndInv => BannedStayOut
    BY DEF IndInv, ConnsSound, Sound, BannedStayOut
  <1> QED
    BY <1>1, Invariance, PTL

\* In every step the accounts keep their players.
LEMMA NextKeeps == IndInv /\ [Next]_vars => Kept
  <1> SUFFICES ASSUME IndInv, [Next]_vars PROVE Kept
    OBVIOUS
  <1>1. ASSUME UNCHANGED players
        PROVE  Kept
    <2>1. SameIdentities
      BY <1>1 DEF SameIdentities
    <2> QED
      BY <2>1, SameIsKept DEF IndInv
  <1>2. ASSUME NEW l \in Logins, LookupAdopts(l)
        PROVE  Kept
    BY <1>1, <1>2, LookupSets, AdoptedIsKept DEF IndInv
  <1>3. ASSUME NEW c \in Conns, Look(c)
        PROVE  Kept
    <2>1. conn[c].ident \in Logins /\ LookupAdopts(conn[c].ident)
      BY <1>3, ConnIs DEF Look, At, Sound
    <2> QED
      BY <1>2, <2>1
  <1>4. ASSUME NEW c \in Conns, NEW n \in Typed, Register(c, n)
        PROVE  Kept
    <2>1. CASE CanRegister(n)
      <3>1. PICK l : l = conn[c].ident
        OBVIOUS
      <3>2. n \in Names /\ l \in Logins \cup {NoLogin}
        BY <3>1, ConnIs, RegistryAssumption DEF Connections
      <3>3. Added(n, l)
        BY <1>4, <2>1, <3>1, <3>2 DEF Register, Registered, Added
      <3> QED
        BY <3>3, AddedIsKept DEF IndInv
    <2>2. CASE ~CanRegister(n)
      BY <1>1, <1>4, <2>2 DEF Register
    <2> QED
      BY <2>1, <2>2
  <1>5. ASSUME NEW k \in IDs, players' = [players EXCEPT ![k].hash = TRUE]
        PROVE  Kept
    BY <1>5, HashSet, SameIsKept DEF IndInv
  <1>6. ASSUME NEW c \in Conns, NewPassword(c)
        PROVE  Kept
    <2>1. conn[c].who # 0 /\ conn[c].who <= Len(players) /\ conn[c].who \in Nat
      BY <1>6, ConnIs DEF NewPassword, At, Sound, Connections
    <2>2. conn[c].who \in IDs
      BY <2>1, ConnIs
    <2> QED
      BY <1>1, <1>5, <1>6, <2>2 DEF NewPassword
  <1>7. ASSUME NEW c \in Conns, ExecutePass(c)
        PROVE  Kept
    BY <1>5, <1>7, PlaysAs DEF ExecutePass
  <1>8. ASSUME NEW c \in Conns, NEW n \in Typed, NEW b \in BOOLEAN, SetBanned(c, n, b)
        PROVE  Kept
    <2>1. PICK k : k = GetByNormalizedName(n)
      OBVIOUS
    <2>2. k \in IDs /\ players' = [players EXCEPT ![k].banned = b]
      BY <1>8, <2>1, GotIs DEF SetBanned, IndInv
    <2> QED
      BY <2>2, BanSet, SameIsKept DEF IndInv
  <1>9. ASSUME NEW c \in Conns, NEW n \in Typed, NEW new \in Typed, ForceRename(c, n, new)
        PROVE  Kept
    <2>1. PICK k : k = GetByNormalizedName(n)
      OBVIOUS
    <2>2. k \in IDs /\ players' = [players EXCEPT ![k].name = new] /\ new \in Names
      BY <1>9, <2>1, GotIs, RegistryAssumption DEF ForceRename, IndInv
    <2> QED
      BY <2>2, NameSet, SameIsKept DEF IndInv
  <1>10. CASE UNCHANGED vars
    BY <1>1, <1>10 DEF vars
  <1>11. ASSUME NEW c \in Conns, Login(c)
         PROVE  Kept
    <2>1. CASE Blank(c) \/ SignUp(c) \/ Password(c) \/ \E n \in Typed : GiveHandle(c, n)
      BY <1>1, <2>1 DEF Blank, SignUp, Password, GiveHandle
    <2> QED
      BY <1>3, <1>4, <1>6, <1>11, <2>1 DEF Login
  <1>12. ASSUME NEW c \in Conns, Play(c)
         PROVE  Kept
    <2>1. CASE BanResolves(c) \/ \E n \in Typed : FileReport(c, n)
      BY <1>1, <2>1 DEF BanResolves, FileReport
    <2> QED
      BY <1>7, <1>8, <1>9, <1>12, <2>1 DEF Play
  <1>13. ASSUME NEW c \in Conns, \/ HangUp(c)
                                 \/ \E l \in Logins : Connect(c, "web", l, 0)
                                 \/ Connect(c, "handle", NoLogin, HandleTries)
         PROVE  Kept
    BY <1>1, <1>13 DEF HangUp, Connect
  <1>14. ASSUME NEW l \in Logins, HandleMe(l)
         PROVE  Kept
    BY <1>2, <1>14 DEF HandleMe
  <1> QED
    BY <1>10, <1>11, <1>12, <1>13, <1>14 DEF Next

\* A connection of the web goes on as its account's player.
LEMMA LookEnters ==
  ASSUME IndInv, NEW c \in Conns, NEW s \in Subs, Look(c), conn[c].ident.sub = s
  PROVE  /\ conn'[c].st = "sign" => BySub(s) = 0
         /\ conn'[c].st = "game" => conn'[c].who = BySub(s)'
  <1>1. PICK l : l = conn[c].ident
    OBVIOUS
  <1>2. l \in Logins /\ LookupAdopts(l) /\ l.sub = s
    BY <1>1, ConnIs DEF Look, At, Sound
  <1>3. PICK k : k = LookupPlayer(l)
    OBVIOUS
  <1>4. \/ Leave(c)
        \/ k # 0 /\ Enter(c, k)
        \/ k = 0 /\ Ask(c, "sign", NameTries)
    BY <1>1, <1>3 DEF Look
  <1>5. k # 0 => k = BySub(s)'
    <2>1. CASE UNCHANGED players /\ k = BySub(s)
      BY <2>1 DEF BySub, IDs
    <2>2. CASE Adopted(k, s)
      BY <2>2, AdoptedIs DEF IndInv
    <2> QED
      BY <1>2, <1>3, <2>1, <2>2, LookupSets DEF IndInv
  <1>6. k = 0 => BySub(s) = 0
    BY <1>2, <1>3, LookedUp DEF IndInv
  <1>7. CASE Leave(c)
    <2>1. conn'[c] = Away
      BY <1>7, ConnIs DEF Leave, Now
    <2> QED
      BY <2>1, AwayIs
  <1>8. CASE k # 0 /\ Enter(c, k)
    <2>1. conn'[c] = [Away EXCEPT !.st = "game", !.who = k]
      BY <1>8, ConnIs DEF Enter, Now
    <2>2. conn'[c].st = "game" /\ conn'[c].who = k
      BY <2>1 DEF Away
    <2> QED
      BY <1>5, <1>8, <2>2
  <1>9. CASE k = 0 /\ Ask(c, "sign", NameTries)
    <2>1. conn'[c] = [conn[c] EXCEPT !.st = "sign", !.left = NameTries]
      BY <1>9, ConnIs DEF Ask, Now
    <2>2. conn'[c].st = "sign"
      BY <2>1, ConnIs DEF Connections
    <2> QED
      BY <1>6, <1>9, <2>2
  <1> QED
    BY <1>4, <1>7, <1>8, <1>9

LEMMA NextEnters ==
  ASSUME IndInv, [Next]_vars, NEW c \in Conns, NEW s \in Subs, At(c, "web"), conn[c].ident.sub = s
  PROVE  /\ conn'[c].st = "sign" => BySub(s) = 0
         /\ conn'[c].st = "game" => conn'[c].who = BySub(s)'
  <1>1. conn[c].st = "web"
    BY DEF At
  <1>2. CASE conn'[c] = conn[c]
    BY <1>1, <1>2
  <1>3. ASSUME NEW d \in Conns \ {c}, NEW r, Now(d, r)
        PROVE  conn'[c] = conn[c]
    BY <1>3, ConnIs DEF Now
  <1>4. CASE \E l \in Logins : HandleMe(l)
    BY <1>2, <1>4 DEF HandleMe
  <1>5. CASE UNCHANGED vars
    BY <1>2, <1>5 DEF vars
  <1>6. ASSUME NEW d \in Conns \ {c}, \/ Login(d) \/ Play(d) \/ HangUp(d)
                                      \/ \E l \in Logins : Connect(d, "web", l, 0)
                                      \/ Connect(d, "handle", NoLogin, HandleTries)
        PROVE  conn'[c] = conn[c]
    <2>1. CASE Login(d)
      BY <1>3, <2>1 DEF Login, Look, Blank, SignUp, Password, NewPassword, Register, GiveHandle,
                        Retry, Ask, Leave, Enter
    <2>2. CASE Play(d)
      BY <1>3, <2>2 DEF Play, ExecutePass, BanResolves, FileReport, SetBanned, ForceRename
    <2>3. CASE HangUp(d) \/ (\E l \in Logins : Connect(d, "web", l, 0))
               \/ Connect(d, "handle", NoLogin, HandleTries)
      BY <1>3, <2>3 DEF HangUp, Leave, Connect
    <2> QED
      BY <1>6, <2>1, <2>2, <2>3
  <1>7. CASE Login(c)
    <2>1. Look(c)
      BY <1>1, <1>7 DEF Login, Blank, SignUp, Password, NewPassword, Register, GiveHandle, At
    <2> QED
      BY <2>1, LookEnters
  <1>8. CASE HangUp(c)
    <2>1. conn'[c] = Away
      BY <1>8, ConnIs DEF HangUp, Leave, Now
    <2> QED
      BY <2>1, AwayIs
  <1>9. ~Play(c)
    BY <1>1 DEF Play, ExecutePass, BanResolves, FileReport, SetBanned, ForceRename, At
  <1>10. \A st, l, left : ~Connect(c, st, l, left)
    BY <1>1 DEF Connect, At
  <1> QED
    BY <1>2, <1>4, <1>5, <1>6, <1>7, <1>8, <1>9, <1>10 DEF Next

\* auth.go: whatever is registered, adopted or renamed, an account keeps the player it
\* has, logs in as that player from whatever address, and loses no record to
\* another account of the same address.
THEOREM IdentitiesAreStable == Spec => IdentityIsStable
  <1>1. IndInv /\ [Next]_vars =>
           [/\ \A s \in Subs : BySub(s) # 0 => BySub(s)' = BySub(s)
            /\ \A k \in IDs : players[k].sub # Nobody => players'[k].sub = players[k].sub
            /\ \A c \in Conns, s \in Subs : At(c, "web") /\ conn[c].ident.sub = s =>
                  /\ At(c, "sign")' => BySub(s) = 0
                  /\ At(c, "game")' => conn'[c].who = BySub(s)']_vars
    <2> SUFFICES ASSUME IndInv, [Next]_vars
                 PROVE  /\ \A s \in Subs : BySub(s) # 0 => BySub(s)' = BySub(s)
                        /\ \A k \in IDs : players[k].sub # Nobody => players'[k].sub = players[k].sub
                        /\ \A c \in Conns, s \in Subs : At(c, "web") /\ conn[c].ident.sub = s =>
                              /\ At(c, "sign")' => BySub(s) = 0
                              /\ At(c, "game")' => conn'[c].who = BySub(s)'
      OBVIOUS
    <2>1. Kept
      BY NextKeeps
    <2>2. ASSUME NEW c \in Conns, NEW s \in Subs, At(c, "web"), conn[c].ident.sub = s
          PROVE  /\ At(c, "sign")' => BySub(s) = 0
                 /\ At(c, "game")' => conn'[c].who = BySub(s)'
      BY <2>2, NextEnters DEF At
    <2> QED
      BY <2>1, <2>2 DEF Kept
  <1> QED
    BY <1>1, Invariance, PTL DEF Spec, IdentityIsStable
=============================================================================
