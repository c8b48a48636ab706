---------------------------- MODULE MCTimeControl ---------------------------
(* Values of the constants of TimeControl for TLC. *)
EXTENDS TimeControl

TwoRadios == <<"a", "g">>

\* Both public interfaces have the names that time_control.rs uses.
BothNamed == {[r \in {"a", "g"} |-> "unset"]}

\* The file generated from wireless.mustache: neither has.
Generated == {[r \in {"a", "g"} |-> "none"]}

\* Both, neither, or only the one of radio g.
AnyNamed == BothNamed \cup Generated \cup
            {[r \in {"a", "g"} |-> IF r = "g" THEN "unset" ELSE "none"]}

\* Days of two hours, weeks of two days: a schedule with a down hour on the
\* first day and none on the second, one for a zone ahead of UTC that lists the
\* first day only, and a file that does not parse.
TwoDaySchedules ==
    {[readable |-> TRUE,  upTime |-> <<{1}, {0, 1}>>, offset |-> 0],
     [readable |-> TRUE,  upTime |-> <<{1}>>,         offset |-> 1],
     [readable |-> FALSE, upTime |-> <<>>,            offset |-> 0]}

\* A whole down day, then an empty one (which is up).
DownDay == {[readable |-> TRUE, upTime |-> <<{5}, {}>>, offset |-> 0]}

=============================================================================
