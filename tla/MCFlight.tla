------------------------------- MODULE MCFlight -------------------------------
EXTENDS Flight

Engine(lit, shed, solid, ticks) == [lit |-> lit, shed |-> shed, solid |-> solid, fuel |-> ticks]
Design(top, clamps, payload, engines) ==
  [top |-> top, clamps |-> clamps, payload |-> payload, engines |-> engines]

(* Boosters beside a core that a later stage sheds, and an upper stage;    *)
(* clamps in two stages, the second of them lighting everything.           *)
Boosted == {Design(6, {4, 3}, 1, <<Engine(4, 2, TRUE, b), Engine(4, 1, FALSE, c), Engine(1, -1, FALSE, 27)>>) :
              b \in {2, 4}, c \in 4..7}
(* One engine for the whole way, lit with the clamps.                      *)
Single == {Design(2, {1}, 1, <<Engine(1, -1, FALSE, 27)>>)}
(* No clamps: the trigger lights the first engine.                         *)
Unclamped == {Design(3, {}, 1, <<Engine(2, 1, FALSE, f), Engine(1, -1, FALSE, 27)>>) : f \in 2..12}
(* A countdown of more than three seconds.                                 *)
Tall == {Design(6, {2}, 1, <<Engine(4, 1, FALSE, f), Engine(1, -1, FALSE, 27)>>) : f \in {5, 9}}

MCDesigns == Boosted \cup Single \cup Unclamped \cup Tall

Mission(terrain, entry, atm, final, lag, loss, circ) ==
  [terrain |-> terrain, entry |-> entry, atm |-> atm, final |-> final, lag |-> lag, drag |-> loss,
   circularize |-> circ]
(* Under thick and thin air, and on an airless body.                       *)
MCMissions ==
  {Mission(t, e, 4, f, l, d, c) : t \in {1, 3}, e \in 2..3, f \in 6..7, l \in {0, 4}, d \in {0, 2}, c \in BOOLEAN}
    \cup {Mission(1, 0, 0, f, 1, 0, TRUE) : f \in 3..4}

(* These vessels have the fuel that FlightProofs assumes.                  *)
ASSUME FuelEnough
===============================================================================
