--------------------------- MODULE MCCaptivePortal --------------------------
(* Values of the constants of CaptivePortal for TLC. *)
EXTENDS CaptivePortal

\* One request of each of the four paths through Service::call.
PathRequests == {[host |-> "portal", referer |-> "other",  query |-> {}],
                 [host |-> "portal", referer |-> "other",  query |-> {"tos"}],
                 [host |-> "other",  referer |-> "portal", query |-> {}],
                 [host |-> "other",  referer |-> "other",  query |-> {}]}

\* The secret, without an acceptance of the terms.
SecretRequests == {[host |-> "portal", referer |-> "other", query |-> {"secret"}]}

\* A device only accepts.
AcceptRequests == {[host |-> "other", referer |-> "other", query |-> {"tos"}]}

\* The file gives no second: accesses are over in the second after they were given.
NoSeconds == {[parses |-> TRUE, secs |-> 0]}

\* The file gives one second; or it does not parse and the default applies.
OneOrDefault == {[parses |-> TRUE, secs |-> 1], [parses |-> FALSE, secs |-> 0]}

=============================================================================
