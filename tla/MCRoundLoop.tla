---- MODULE MCRoundLoop ----
(***************************************************************************)
(* Instances of RoundLoop for TLC.                                         *)
(***************************************************************************)
EXTENDS RoundLoop

Route(kind, validation, wants) ==
    [kind |-> kind, validation |-> validation, readOnly |-> FALSE, web |-> FALSE,
     plan |-> FALSE, wants |-> wants, related |-> FALSE, openScope |-> FALSE]

MCTasks ==
    {Route("modify", TRUE, {}),
     [Route("modify", TRUE, {"test"}) EXCEPT !.related = TRUE],
     [Route("modify", FALSE, {}) EXCEPT !.openScope = TRUE],
     Route("operate", TRUE, {}),
     [Route("inspect", FALSE, {}) EXCEPT !.readOnly = TRUE, !.plan = TRUE],
     [Route("answer", FALSE, {}) EXCEPT !.web = TRUE]}
====
