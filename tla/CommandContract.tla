--------------------------- MODULE CommandContract ---------------------------
(***************************************************************************)
(* What the durable command model (docs/adr/0043, 0048) promises the       *)
(* operator, with no tables, transactions, workers or callers in sight.  A *)
(* key is an idempotency triple (actor, type, idempotency key).  However   *)
(* often a key is submitted it is accepted once, its handler takes effect  *)
(* at most once and only after it was accepted, and success is shown only  *)
(* for a key whose handler took effect.                                    *)
(*                                                                         *)
(* CommandQueue implements this specification; its refinement mapping is   *)
(* at the end of that module.                                              *)
(***************************************************************************)
EXTENDS Naturals

CONSTANT Keys

VARIABLES
    accepted,   \* keys for which a command is durably stored
    applied,    \* how many times the handler of each key took effect
    succeeded   \* keys whose command shows "succeeded"

vars == <<accepted, applied, succeeded>>

Init ==
    /\ accepted = {}
    /\ applied = [k \in Keys |-> 0]
    /\ succeeded = {}

Accept(k) ==
    /\ k \notin accepted
    /\ accepted' = accepted \cup {k}
    /\ UNCHANGED <<applied, succeeded>>

Apply(k) ==
    /\ k \in accepted
    /\ applied[k] = 0
    /\ applied' = [applied EXCEPT ![k] = 1]
    /\ UNCHANGED <<accepted, succeeded>>

Report(k) ==
    /\ applied[k] = 1
    /\ succeeded' = succeeded \cup {k}
    /\ UNCHANGED <<accepted, applied>>

(* A late cancel may take the displayed success back; the effect stays.    *)
Retract(k) ==
    /\ succeeded' = succeeded \ {k}
    /\ UNCHANGED <<accepted, applied>>

Next == \E k \in Keys : Accept(k) \/ Apply(k) \/ Report(k) \/ Retract(k)

Spec == Init /\ [][Next]_vars
=============================================================================
