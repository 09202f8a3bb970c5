---------------------------- MODULE MCUserSessions ----------------------------
(* Two tabs; the first makes calls, two at a time, in the second the user    *)
(* logs in, changes the password and logs out.                              *)
EXTENDS UserSessions, TLC

CONSTANTS t1, t2, c1, c2

MCTabs == {t1, t2}
MCCalls == {c1, c2}
MCTabOf == (c1 :> t1) @@ (c2 :> t1)
=============================================================================
