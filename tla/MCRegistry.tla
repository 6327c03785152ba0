----------------------------- MODULE MCRegistry -----------------------------
(* A sysop, with a player of old who has not logged in over the web yet; or  *)
(* only a record of old, whose address both accounts come with: either may   *)
(* adopt it, and who registers with the sysop's address is the sysop.        *)
EXTENDS Registry, TLC
CONSTANTS c1, c2, boss, ann, bossMail, annMail

Spellings == {"Boss", "Ann", "4nn", "Bob"}
Alike == [n \in Spellings |-> IF n = "4nn" THEN "Ann" ELSE n]
Account(s, e) == [sub |-> s, email |-> e]
\* Each account has an address; the sysop's becomes what was Ann's.
Portal == {Account(boss, bossMail), Account(boss, annMail), Account(ann, annMail)}
OfOld(n, e) == Player(n, Account(Nobody, e), FALSE)
FromDisk == {<<Player("Boss", Account(boss, bossMail), TRUE), OfOld("Ann", annMail)>>,
             <<OfOld("Boss", annMail)>>}
Symmetry == Permutations(Conns)
=============================================================================
