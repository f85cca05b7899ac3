-------------------------- MODULE MCHttpTransport --------------------------
(* HttpTransport for TLC: one instance with a credential of its own, the    *)
(* fleet's and the environment's behind it; two requests at a time from one *)
(* address, by two callers with both headers, one whose password is not     *)
(* its user's and one without a user; two requests in a window of two ticks. *)
EXTENDS HttpTransport

CONSTANTS managed, ownT, fleetT, ownLogin, fleetLogin, envLogin

MCTarget     == {ownT, fleetT}
MCCredTarget == [i \in {managed} |-> ownT]
MCLiteral    == [i \in {managed} |-> Blank]
MCEntry      == [t \in MCTarget |-> IF t = ownT THEN ownLogin ELSE fleetLogin]

MCHeaders == {[user |-> ownLogin, password |-> ownLogin],
              [user |-> envLogin, password |-> envLogin],
              [user |-> ownLogin, password |-> envLogin],
              [user |-> Blank, password |-> ownLogin]}
=============================================================================
