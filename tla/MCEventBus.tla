----------------------------- MODULE MCEventBus -----------------------------
(***************************************************************************)
(* A small bus: room for one event, two publishers, two handlers, two      *)
(* worker tasks, so that puts block, events are dropped, a handler leaves  *)
(* in the middle of a delivery and a dead worker is replaced.              *)
(***************************************************************************)
EXTENDS EventBus

CONSTANTS p1, p2

MCPublishers == {p1, p2}

\* p1 publishes twice, so that order can be told; p2 competes for the room.
MCMaxEvents == [p \in MCPublishers |-> IF p = p1 THEN 2 ELSE 1]
=============================================================================
