------------------------------ MODULE MCServer ------------------------------
(* A small instance of Server: one agent type has two runners, one none. *)
EXTENDS Server, TLC

CONSTANTS m1, m2, t1, t2, s1, s2, s3

MCDefines == (m1 :> {t1}) @@ (m2 :> {t1})
MCTypeOf == (s1 :> t1) @@ (s2 :> t1) @@ (s3 :> t2)
=============================================================================
