------------------------------- MODULE MCNews -------------------------------
(* Small instances of WebSession and the News under it: caps of 2 and 3      *)
(* stand for 50 and 2000, so two players stand for the 41 whose full shares  *)
(* the list cannot hold; one of them may also come through the portal.       *)
EXTENDS WebSession
CONSTANTS p1, p2
=============================================================================
