------------------------------ MODULE Protocol ------------------------------
(***************************************************************************)
(* The vocabulary of internal/protocol: session states and the table of    *)
(* transitions between them, directions, address families and the types of *)
(* the control messages.  Enumerated Go constants are modelled by the       *)
(* strings their String() methods return.                                   *)
(***************************************************************************)

SessionState == {"idle", "preparing", "ready", "running", "collecting",
                 "completed", "failed", "cancelled"}

Direction == {"uplink", "downlink", "both"}

Family == {"ipv4", "ipv6"}

(* The successors of each session state (the map of maps in the code). *)
transitions ==
    [s \in SessionState |->
        CASE s = "idle"       -> {"preparing"}
          [] s = "preparing"  -> {"ready", "cancelled", "failed"}
          [] s = "ready"      -> {"running", "cancelled"}
          [] s = "running"    -> {"collecting", "cancelled"}
          [] s = "collecting" -> {"completed", "failed"}
          [] OTHER            -> {"idle"}]

(* Transition(from, to) returns no error. *)
CanTransition(from, to) == to \in transitions[from]

IsTerminal(s) == s \in {"completed", "failed", "cancelled"}

IsActive(s) == s # "idle" /\ ~IsTerminal(s)

ResetAllowed(s) == s \in {"completed", "failed", "cancelled"}

(* The predicates of state_machine.go agree with its table: a state may be  *)
(* reset exactly when the table leads back to idle, and only from there.    *)
ASSUME ResetMatchesTable ==
    \A s \in SessionState : ResetAllowed(s) <=> CanTransition(s, "idle")

=============================================================================
