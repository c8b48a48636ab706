---------------------------- MODULE AccessControl ---------------------------
(***************************************************************************)
(* access_control.rs: check_for_expired lists the chain once and then      *)
(* deletes the expired rules one by one.  A scheduler outside the          *)
(* repository starts the checks; two of them may overlap, and the chain    *)
(* changes between a check's commands.                                     *)
(***************************************************************************)
EXTENDS Router

CONSTANTS Checkers,        \* processes that run check_for_expired
          ValidFiles,      \* contents /etc/zealot_rule_valid_time may have
          DefaultValidTime,\* Duration::hours(24)
          MinValidTime     \* the shortest valid time those contents stand for

VARIABLES check,      \* local state of each run of check_for_expired
          validFile   \* content of the configuration file

accessVars == <<check, validFile>>

\* A content either parses as an i64 or it does not (a missing file, a text
\* with a trailing newline): then secs is of no account.
ValidFile == [parses : BOOLEAN, secs : Int]

\* read_valid_time
ReadValidTime(file) == IF file.parses THEN file.secs ELSE DefaultValidTime

ASSUME ValidTimeAssumption ==
    /\ DefaultValidTime \in Int
    /\ MinValidTime \in Int
    /\ ValidFiles \subseteq ValidFile
    /\ \A file \in ValidFiles : MinValidTime <= ReadValidTime(file)

\* Rule::parse succeeds: the rule names a MAC address and a timestamp.
Parses(rule) == rule.mac # NoMac

\* Mutant: the last second of the valid time does not count.
IsExpired_Early(rule, valid, t) == rule.ts + valid <= t

\* Rule::is_expired, at time t
IsExpired(rule, valid, t) == rule.ts + valid < t

\* Rule::to_string: the specification handed to iptables -D.
ToRuleSpec(rule) == [mac |-> rule.mac, ts |-> rule.ts]

Check == [pc : {"idle", "loop", "delete"},
          rules : Seq(Rule),               \* listed and not yet looked at
          valid : Int,
          result : {"none", "ok", "err"}]

NoCheck == [pc |-> "idle", rules |-> <<>>, valid |-> 0, result |-> "none"]

AccessTypeOK ==
    /\ check \in [Checkers -> Check]
    /\ validFile \in ValidFiles
    /\ \A c \in Checkers : check[c].pc = "delete" => check[c].rules # <<>>

AccessInit ==
    /\ check = [c \in Checkers |-> NoCheck]
    /\ validFile \in ValidFiles

Return(c, result) ==
    check' = [check EXCEPT ![c] = [NoCheck EXCEPT !.result = result]]

\* The valid time is read and the chain is listed.
List(c) ==
    /\ check[c].pc = "idle"
    /\ check' = [check EXCEPT ![c] = [pc |-> "loop",
                                      rules |-> chain,
                                      valid |-> ReadValidTime(validFile),
                                      result |-> "none"]]
    /\ UNCHANGED <<routerVars, validFile>>

\* Listing the chain fails: the check returns the error.
ListFails(c) ==
    /\ check[c].pc = "idle"
    /\ IptablesFault
    /\ Return(c, "err")
    /\ UNCHANGED <<chain, neigh, now, uptime, stepped, validFile>>

\* Mutant: the expired rule is taken off the list before it is deleted.
Examine_Skip(c) ==
    /\ check[c].pc = "loop"
    /\ check[c].rules # <<>>
    /\ LET rule == Head(check[c].rules)
       IN  IF Parses(rule) /\ IsExpired(rule, check[c].valid, now)
           THEN check' = [check EXCEPT ![c].pc = "delete", ![c].rules = Tail(@)]
           ELSE check' = [check EXCEPT ![c].rules = Tail(@)]
    /\ UNCHANGED <<routerVars, validFile>>

\* Mutant: the loop ends at the first rule that is not an expired access.
Examine_Stop(c) ==
    /\ check[c].pc = "loop"
    /\ check[c].rules # <<>>
    /\ LET rule == Head(check[c].rules)
       IN  IF Parses(rule) /\ IsExpired(rule, check[c].valid, now)
           THEN check' = [check EXCEPT ![c].pc = "delete"]
           ELSE check' = [check EXCEPT ![c].rules = <<>>]
    /\ UNCHANGED <<routerVars, validFile>>

\* The loop's next rule is parsed and compared with the clock.
Examine(c) ==
    /\ check[c].pc = "loop"
    /\ check[c].rules # <<>>
    /\ LET rule == Head(check[c].rules)
       IN  IF Parses(rule) /\ IsExpired(rule, check[c].valid, now)
           THEN check' = [check EXCEPT ![c].pc = "delete"]
           ELSE check' = [check EXCEPT ![c].rules = Tail(@)]
    /\ UNCHANGED <<routerVars, validFile>>

\* Mutant: the deleted rule is looked at again.
Delete_Again(c) ==
    /\ check[c].pc = "delete"
    /\ LET spec == ToRuleSpec(Head(check[c].rules))
       IN  /\ IptablesHas(spec)
           /\ IptablesDelete(spec)
    /\ check' = [check EXCEPT ![c].pc = "loop"]
    /\ UNCHANGED <<neigh, now, uptime, stepped, faults, validFile>>

\* Mutant: all rules for the MAC address are deleted, whatever their timestamp.
Delete_AllOfMac(c) ==
    /\ check[c].pc = "delete"
    /\ LET spec == ToRuleSpec(Head(check[c].rules))
       IN  /\ IptablesHas(spec)
           /\ chain' = SelectSeq(chain, LAMBDA rule : rule.mac # spec.mac)
    /\ check' = [check EXCEPT ![c].pc = "loop", ![c].rules = Tail(@)]
    /\ UNCHANGED <<neigh, now, uptime, stepped, faults, validFile>>

\* iptables -D finds the rule.
Delete(c) ==
    /\ check[c].pc = "delete"
    /\ LET spec == ToRuleSpec(Head(check[c].rules))
       IN  /\ IptablesHas(spec)
           /\ IptablesDelete(spec)
    /\ check' = [check EXCEPT ![c].pc = "loop", ![c].rules = Tail(@)]
    /\ UNCHANGED <<neigh, now, uptime, stepped, faults, validFile>>

\* iptables -D fails: the check returns at once, and the rest of the listed
\* rules are left for another check.
DeleteFails(c) ==
    /\ check[c].pc = "delete"
    /\ \/ ~IptablesHas(ToRuleSpec(Head(check[c].rules))) /\ UNCHANGED faults
       \/ IptablesFault
    /\ Return(c, "err")
    /\ UNCHANGED <<chain, neigh, now, uptime, stepped, validFile>>

Finish(c) ==
    /\ check[c].pc = "loop"
    /\ check[c].rules = <<>>
    /\ Return(c, "ok")
    /\ UNCHANGED <<routerVars, validFile>>

\* The administrator writes the configuration file.
WriteValidFile ==
    /\ \E file \in ValidFiles \ {validFile} : validFile' = file
    /\ UNCHANGED <<routerVars, check>>

CheckStep(c) == \/ List(c) \/ ListFails(c) \/ Examine(c)
                \/ Delete(c) \/ DeleteFails(c) \/ Finish(c)

AccessNext == WriteValidFile \/ \E c \in Checkers : CheckStep(c)

=============================================================================
