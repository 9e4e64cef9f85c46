---------------------------- MODULE MCKeyedLocks ----------------------------
(***************************************************************************)
(* An instance of KeyedLocks for TLC.  Four threads compete: t1, t2 and t3 *)
(* for any of the keys 1 and 2, t4 being a second attempt of t1's command. *)
(* t5 may keep key 3 for ever; its claim precedes all the others.          *)
(***************************************************************************)
EXTENDS KeyedLocks, TLC

CONSTANTS t1, t2, t3, t4, t5

\* t2 and t3 were requested at the same instant: the command id decides.
\* t4 repeats the command of t1 at a later instant.
MCClaim ==
    t1 :> [at |-> 2, cmd |-> 1, actor |-> 1] @@
    t2 :> [at |-> 1, cmd |-> 3, actor |-> 1] @@
    t3 :> [at |-> 1, cmd |-> 2, actor |-> 2] @@
    t4 :> [at |-> 3, cmd |-> 1, actor |-> 1] @@
    t5 :> [at |-> 0, cmd |-> 4, actor |-> 2]

MCKeySets ==
    t1 :> {{1}, {1, 2}} @@ t2 :> {{2}, {1, 2}} @@
    t3 :> {{1}, {2}} @@ t4 :> {{1, 2}} @@ t5 :> {{3}}

=============================================================================
