--------------------------- MODULE QueryLifecycle ---------------------------
(***************************************************************************)
(* What a database promises about the statements it is given, without      *)
(* threads, queues or connections: a started statement is accepted in a    *)
(* line; at any time at most one statement is with the server; a statement *)
(* goes to the server at most once and from there to one result; only a    *)
(* statement that is still in the line can be aborted, and then the server *)
(* never sees it.                                                          *)
(***************************************************************************)
CONSTANT Data

VARIABLE stage

Stage == {"new", "queued", "executing", "SUCCESS", "ERROR", "aborted"}

In(s) == {d \in Data : stage[d] = s}

Move(D, s) == stage' = [d \in Data |-> IF d \in D THEN s ELSE stage[d]]

Init == stage = [d \in Data |-> "new"]

Accept == \E d \in In("new") : Move({d}, "queued")

Execute == In("executing") = {} /\ \E d \in In("queued") : Move({d}, "executing")

Result == \E d \in In("executing") : Move({d}, "SUCCESS") \/ Move({d}, "ERROR")

Abort == \E D \in SUBSET In("queued") : Move(D, "aborted")

Next == Accept \/ Execute \/ Result \/ Abort

Spec == Init /\ [][Next]_stage
=============================================================================
