------------------------------ MODULE BytePipe ------------------------------
(***************************************************************************)
(* What a tunnel promises for each of its directions: the far end gets the *)
(* bytes of the stream in order, never one that was not sent, and an end   *)
(* that is reported as the end of the stream comes after all of them.      *)
(***************************************************************************)
EXTENDS Integers, Sequences

CONSTANT Dirs        \* the directions

VARIABLES sent,      \* how many bytes were sent: byte i is the number i
          shut,      \* the sender is done
          delivered, \* what the far end was given
          state      \* "open", "finished" or "broken"

pipeVars == <<sent, shut, delivered, state>>

Init == /\ sent = [d \in Dirs |-> 0]
        /\ shut = [d \in Dirs |-> FALSE]
        /\ delivered = [d \in Dirs |-> <<>>]
        /\ state = [d \in Dirs |-> "open"]

Send(d) == /\ ~shut[d]
           /\ sent' = [sent EXCEPT ![d] = @ + 1]
           /\ UNCHANGED <<shut, delivered, state>>

Shut(d) == /\ shut' = [shut EXCEPT ![d] = TRUE]
           /\ UNCHANGED <<sent, delivered, state>>

Deliver(d) == /\ \E n \in Len(delivered[d]) + 1 .. sent[d] :
                    delivered' = [delivered EXCEPT ![d] = [i \in 1 .. n |-> i]]
              /\ UNCHANGED <<sent, shut, state>>

Finish(d) == /\ shut[d] /\ Len(delivered[d]) = sent[d]
             /\ state' = [state EXCEPT ![d] = "finished"]
             /\ UNCHANGED <<sent, shut, delivered>>

Break(d) == /\ state' = [state EXCEPT ![d] = "broken"]
            /\ UNCHANGED <<sent, shut, delivered>>

Step(d) == Send(d) \/ Shut(d) \/ Deliver(d) \/ Finish(d) \/ Break(d)

\* The end of one direction is the end of the tunnel.
Next == /\ \A d \in Dirs : state[d] = "open"
        /\ \E d \in Dirs : Step(d)

Spec == Init /\ [][Next]_pipeVars

=============================================================================
