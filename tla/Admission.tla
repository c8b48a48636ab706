----------------------------- MODULE Admission ------------------------------
(***************************************************************************)
(* What the captive portal promises, whatever the number of connections,   *)
(* checks and commands it takes: a device is admitted at a time, and the   *)
(* admission ends only after it has lasted longer than the valid time.     *)
(***************************************************************************)
EXTENDS Integers

CONSTANTS Devices,      \* who can be admitted
          MinValidTime  \* the shortest time an admission is valid

VARIABLES grants,  \* the admissions in force
          clock

Init == grants = {} /\ clock = 0

\* A device is admitted.  The admission is dated at most now; it may be dated
\* earlier, and a device may have several.
Grant ==
    /\ \E mac \in Devices, ts \in 0 .. clock :
         grants' = grants \cup {[mac |-> mac, ts |-> ts]}
    /\ UNCHANGED clock

\* An admission that has run out ends.
Revoke ==
    /\ \E g \in grants : /\ g.ts + MinValidTime < clock
                         /\ grants' = grants \ {g}
    /\ UNCHANGED clock

Advance == clock' \in {t \in Int : t > clock} /\ UNCHANGED grants

Next == Grant \/ Revoke \/ Advance

Spec == Init /\ [][Next]_<<grants, clock>>

=============================================================================
