----------------------- MODULE MCRefreshTokenRotation -----------------------
EXTENDS RefreshTokenRotation, TLC

CONSTANTS c1, c2, c3, c4, s1, s2, r1, r2, shareA, shareB

(* Two calls of one client on a server, which may join, and the call of    *)
(* another client on a second.                                             *)
ContendServer == c1 :> s1 @@ c2 :> s1 @@ c3 :> s2
ContendRow == [c \in Call |-> r1]
ContendShare == c1 :> shareA @@ c2 :> shareA @@ c3 :> shareB

(* One server: three flights for one slot, and a call that joins.          *)
QueueServer == [c \in Call |-> s1]
QueueRow == c1 :> r1 @@ c2 :> r1 @@ c3 :> r2 @@ c4 :> r1
QueueShare == c1 :> shareA @@ c2 :> shareB @@ c3 :> shareA @@ c4 :> shareA
=============================================================================
