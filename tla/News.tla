-------------------------------- MODULE News --------------------------------
(***************************************************************************)
(* Durable per-player news (news.go).  A player who is attacked, robbed or *)
(* killed while away learns of it at the next session.  The list is        *)
(* bounded per player and as a whole, and delivered items age away; the    *)
(* wording of an item is left out, `id` numbers the items in the order     *)
(* they were queued.                                                       *)
(***************************************************************************)
EXTENDS Naturals, SequencesExt

CONSTANTS Players,
          MaxPerPlayer,  \* maxNewsPerPlayer (50 in the code)
          MaxItems,      \* maxNewsItems (2000 in the code)
          KeepDays,      \* days a delivered item is kept (7 in the code)
          MaxNews,       \* bound: items queued in a behaviour
          MaxDay         \* bound: days explored

ASSUME NewsAssumption ==
    /\ MaxPerPlayer \in Nat \ {0} /\ MaxItems \in Nat \ {0}
    /\ KeepDays \in Nat /\ MaxNews \in Nat /\ MaxDay \in Nat

VARIABLES news,   \* u.News, in the order queued
          queued, \* items queued so far
          told,   \* told[p]: ids of the items p has been shown, in order
          day

vars == <<news, queued, told, day>>

\* The entries of a list at the positions K, in their order: what a loop that copies
\* some of them leaves.  (Not SelectSeq, whose recursion cannot be reasoned about.)
UpTo(K, i) == Cardinality({j \in K : j <= i})
Keep(list, K) == [k \in 1..Cardinality(K) |-> list[CHOOSE i \in K : UpTo(K, i) = k]]

Item(p, n) == [player |-> p, id |-> n, at |-> day, delivered |-> FALSE]
Mine(p, list) == {i \in DOMAIN list : list[i].player = p}
Of(p, list) == Keep(list, Mine(p, list))
Undelivered(p) == {n.id : n \in {m \in ToSet(news) : m.player = p /\ ~m.delivered}}

Init == news = <<>> /\ queued = 0 /\ told = [p \in Players |-> <<>>] /\ day = 1

\* The per-player cap: of the player's own items the newest stay.
CapShare(p, list) ==
    Keep(list, {i \in DOMAIN list :
                   i \in Mine(p, list) => Cardinality({j \in Mine(p, list) : j >= i}) <= MaxPerPlayer})

\* The global cap: only the newest items are kept.
CapAll(list) == Keep(list, {i \in DOMAIN list : i > Len(list) - MaxItems})

AddNews(p) ==
    /\ queued < MaxNews
    /\ queued' = queued + 1
    /\ news' = CapAll(CapShare(p, Append(news, Item(p, queued + 1))))
    /\ UNCHANGED <<told, day>>

Fresh(p) == Keep(news, {i \in Mine(p, news) : ~news[i].delivered})
Shown(list) == [k \in 1..Len(list) |-> list[k].id]

\* Deliberately wrong: what is shown is not marked delivered.
TakeNews_Unmarked(p) ==
    /\ told' = [told EXCEPT ![p] = @ \o Shown(Fresh(p))]
    /\ UNCHANGED <<news, queued, day>>

\* Deliberately wrong: the news of the day is held back, for ever on the last.
TakeNews_Yesterday(p) ==
    LET fresh == Keep(news, {i \in Mine(p, news) : ~news[i].delivered /\ news[i].at < day}) IN
    /\ told' = [told EXCEPT ![p] = @ \o Shown(fresh)]
    /\ news' = [k \in 1..Len(news) |-> IF news[k].player = p /\ news[k].at < day
                                       THEN [news[k] EXCEPT !.delivered = TRUE] ELSE news[k]]
    /\ UNCHANGED <<queued, day>>

\* Session start of a living player (consoleui SessionStart), or a look at the
\* news: what is undelivered is shown, oldest first, and marked.
TakeNews(p) ==
    /\ told' = [told EXCEPT ![p] = @ \o Shown(Fresh(p))]
    /\ news' = [k \in 1..Len(news) |-> IF news[k].player = p
                                       THEN [news[k] EXCEPT !.delivered = TRUE] ELSE news[k]]
    /\ UNCHANGED <<queued, day>>

\* Deliberately wrong: age alone decides.
Stale_Unread(n) == n.at + KeepDays < day + 1

\* Delivered, and older than the week maintenance keeps it.
Stale(n) == n.delivered /\ n.at + KeepDays < day + 1

\* A new day: maintenance drops what is stale by then.
TrimNews ==
    /\ day < MaxDay /\ day' = day + 1
    /\ news' = Keep(news, {i \in DOMAIN news : ~Stale(news[i])})
    /\ UNCHANGED <<queued, told>>

Next == TrimNews \/ \E p \in Players : AddNews(p) \/ TakeNews(p)

Spec == Init /\ [][Next]_vars

\* Players come back sooner or later.
FairSpec == Spec /\ \A p \in Players : WF_vars(TakeNews(p))

-----------------------------------------------------------------------------
(* Properties *)

\* The list holds well-formed items of known players and stays within both caps.
TypeOK ==
    /\ news \in Seq([player : Players, id : 1..queued, at : 1..day, delivered : BOOLEAN])
    /\ Len(news) <= MaxItems
    /\ \A p \in Players : Len(Of(p, news)) <= MaxPerPlayer
    /\ told \in [Players -> Seq(1..queued)]

\* Nobody is told the same thing twice, or out of order: however sessions, caps
\* and trims interleave, a player's news arrives oldest first, each item once.
ToldOnceInOrder ==
    \A p \in Players : \A j, k \in DOMAIN told[p] : j < k => told[p][j] < told[p][k]

\* News is lost unread only to a cap that is full: the player's own share, or the
\* whole list; and then the oldest goes first, so what a player still gets to
\* read is the latest.  The nightly trim never touches an unread item.
UnreadGoesLast ==
    [][\A p \in Players : \A n \in Undelivered(p) :
          n \notin Undelivered(p)' =>
              \/ \E k \in DOMAIN told'[p] : told'[p][k] = n
              \/ /\ queued' = queued + 1
                 /\ Len(Of(p, news)) = MaxPerPlayer \/ Len(news) = MaxItems
                 /\ \A m \in ToSet(Of(p, news')) : m.id > n]_vars

\* The latest thing that happened to a player is always reported to them, if it
\* happened to nobody else since: no cap and no trim can take it away.
LastNewsArrives ==
    \A p \in Players : \A n \in 1..MaxNews :
        (queued = n /\ n \in Undelivered(p)) ~>
            ((\E k \in DOMAIN told[p] : told[p][k] = n) \/ queued > n)
=============================================================================
