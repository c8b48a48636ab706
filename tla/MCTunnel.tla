------------------------------ MODULE MCTunnel ------------------------------
(* Values of the constants of Tunnel for TLC. *)
EXTENDS Tunnel

\* remote -> local first, as in copy1.select2(copy2)
BothWays == <<"down", "up">>

\* Enough for a read that fills the buffer and one more; and enough to fill it.
ThreeDownTwoUp == [d \in Dirs |-> IF d = "down" THEN 3 ELSE 2]

=============================================================================
