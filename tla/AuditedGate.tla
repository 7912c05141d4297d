----------------------------- MODULE AuditedGate -----------------------------
(***************************************************************************)
(* What an enforcement boundary promises its callers and its auditors,     *)
(* with no engine, no exceptions and no request:                           *)
(*   - a grant needs a policy that permits;                                *)
(*   - a decision, once made, is final;                                    *)
(*   - its record is settled, written once or lost, before the caller has  *)
(*     the decision, and what is written is the decision;                  *)
(*   - input that is not a request is refused at once, without a record.   *)
(*                                                                         *)
(* EnforcementPoint implements this specification.                         *)
(***************************************************************************)
EXTENDS Sequences

CONSTANT Calls

VARIABLES
  permits,    \* permits[c]: does the policy permit what c asks?
  decided,    \* decided[c]: the decision, "none" before it is made
  settled,    \* settled[c]: is the record of c written or lost?
  log,        \* the records written, in order
  delivered   \* delivered[c]: has the caller of c got the decision?

gateVars == <<permits, decided, settled, log, delivered>>

Init ==
  /\ permits = [c \in Calls |-> FALSE]
  /\ decided = [c \in Calls |-> "none"]
  /\ settled = [c \in Calls |-> FALSE]
  /\ log = <<>>
  /\ delivered = [c \in Calls |-> FALSE]

\* The policy's answer to c becomes known; only an undecided call asks.
Consult(c) ==
  /\ decided[c] = "none"
  /\ \E p \in BOOLEAN : permits' = [permits EXCEPT ![c] = p]
  /\ UNCHANGED <<decided, settled, log, delivered>>

Decide(c) ==
  /\ decided[c] = "none"
  /\ \/ decided' = [decided EXCEPT ![c] = "refuse"]
     \/ permits[c] /\ decided' = [decided EXCEPT ![c] = "grant"]
  /\ UNCHANGED <<permits, settled, log, delivered>>

Settle(c) ==
  /\ decided[c] # "none"
  /\ ~settled[c]
  /\ settled' = [settled EXCEPT ![c] = TRUE]
  /\ \/ log' = Append(log, [call |-> c, grant |-> decided[c] = "grant"])
     \/ UNCHANGED log
  /\ UNCHANGED <<permits, decided, delivered>>

Deliver(c) ==
  /\ settled[c]
  /\ ~delivered[c]
  /\ delivered' = [delivered EXCEPT ![c] = TRUE]
  /\ UNCHANGED <<permits, decided, settled, log>>

\* A refusal that leaves no record.
Reject(c) ==
  /\ decided[c] = "none"
  /\ decided' = [decided EXCEPT ![c] = "refuse"]
  /\ settled' = [settled EXCEPT ![c] = TRUE]
  /\ delivered' = [delivered EXCEPT ![c] = TRUE]
  /\ UNCHANGED <<permits, log>>

Next == \E c \in Calls : Consult(c) \/ Decide(c) \/ Settle(c) \/ Deliver(c) \/ Reject(c)

Spec == Init /\ [][Next]_gateVars
=============================================================================
