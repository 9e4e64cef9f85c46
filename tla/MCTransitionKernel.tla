------------------------- MODULE MCTransitionKernel -------------------------
(***************************************************************************)
(* An instance of TransitionKernel for TLC.                                *)
(***************************************************************************)
EXTENDS TransitionKernel, TLC

CONSTANTS o1, o2, o3

Undeclared == [o \in Objects |-> -1]

Cmd(id, key, targets, expected) ==
    [id |-> id, key |-> key, type |-> "known", env |-> "live", dom |-> "d1",
     targets |-> targets, expected |-> expected]

\* Two writers of o1, one of them over two objects with an expected version; a
\* reused command id; a reused idempotency key; commands of another
\* environment, of an unknown type and of another domain, the last with the id of
\* another command and "/rejection" appended; o3 is an object of another environment.
Varied ==
    {Cmd(<<"a">>, "ka", {o1}, Undeclared),
     Cmd(<<"a">>, "kb", {o2}, Undeclared),
     Cmd(<<"b">>, "kb", {o1, o2}, [Undeclared EXCEPT ![o1] = 1]),
     Cmd(<<"c">>, "ka", {o2}, [Undeclared EXCEPT ![o2] = 0]),
     Cmd(<<"d">>, "kd", {o2, o3}, Undeclared),
     [Cmd(<<"e">>, "ke", {o1}, Undeclared) EXCEPT !.env = "simulation"],
     [Cmd(<<"f">>, "kf", {o1}, Undeclared) EXCEPT !.type = "unknown"],
     [Cmd(<<"a", "rejection">>, "kr", {o1}, Undeclared) EXCEPT !.dom = "d2"]}

MCWithSuffix(id) == Append(id, "rejection")

MCSeed ==
    [o \in Objects |-> IF o = o3 THEN [ver |-> 1, env |-> "simulation", dom |-> "d1"]
                       ELSE NoObject]

=============================================================================
