-------------------------- MODULE MCControlSession --------------------------
(***************************************************************************)
(* Few controllers and short commands for the model checking of            *)
(* ControlSession.                                                         *)
(***************************************************************************)
EXTENDS ControlSession

\* UPDATE has a payload, ROUTING-TABLE, CRASH and the unknown command have none.
ShortPayloads ==
    [k \in AnyCommand |-> IF k \in {"update", "sendfile"} THEN 1 ELSE 0]
=============================================================================
