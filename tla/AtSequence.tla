----------------------------- MODULE AtSequence -----------------------------
(***************************************************************************)
(* What "Start selected tests" of autotest-assist-tui promises: the tests  *)
(* come one after the other, the outcome of each is recorded once, none is *)
(* skipped but after a failure with "Stop on NG", and an [OK] verdict      *)
(* means that every test came out well.                                    *)
(***************************************************************************)
EXTENDS Naturals

VARIABLES stops,     \* whether "Stop on NG" is set
          outcome,   \* outcome[t] of each selected test: "none", "ok" or "ng"
          verdict    \* of the whole sequence

vars == <<stops, outcome, verdict>>

Tests == DOMAIN outcome

Init == /\ stops \in BOOLEAN /\ verdict = "none"
        /\ \A t \in Tests : outcome[t] = "none"

Failed == \E t \in Tests : outcome[t] = "ng"

(* The next test in order gets its outcome. *)
Record(t) ==
  /\ verdict = "none" /\ outcome[t] = "none"
  /\ \A u \in 1..(t - 1) : outcome[u] # "none"
  /\ ~(stops /\ Failed)
  /\ \E o \in {"ok", "ng"} : outcome' = [outcome EXCEPT ![t] = o]
  /\ UNCHANGED <<stops, verdict>>

(* [OK] needs every outcome; [NG] may also tell of a trouble of its own,    *)
(* but comes after the last test or after the failure that stops it.        *)
Conclude ==
  /\ verdict = "none"
  /\ (\A t \in Tests : outcome[t] # "none") \/ (stops /\ Failed)
  /\ \E v \in {"ok", "ng"} :
       /\ v = "ok" => \A t \in Tests : outcome[t] = "ok"
       /\ verdict' = v
  /\ UNCHANGED <<stops, outcome>>

Next == (\E t \in Tests : Record(t)) \/ Conclude

Spec == Init /\ [][Next]_vars
=============================================================================
