---------------------------- MODULE ReasoningRun -----------------------------
(***************************************************************************)
(* The contract of one reasoning run (vyrm-core, reasoning.rs): the order  *)
(* of its payloads and what a replay of stored events accepts.             *)
(*                                                                         *)
(* An event is its ordinal and its payload.  A payload is named by what    *)
(* the contract tells apart in it: decisions by their kind, a verification *)
(* by whether every check passed, an outcome by its kind.  The digest      *)
(* chain, the times and the texts of events are left out.                  *)
(***************************************************************************)
EXTENDS Naturals, Sequences

Verifications == {"checks passed", "checks not passed"}
Outcomes == {"succeeded", "failed", "blocked"}
Payloads ==
    {"goal", "plan", "attempt", "observation", "continue", "verify", "stop"}
      \cup Verifications \cup Outcomes

\* The arms of the match in transition.
Transitions ==
    {<<"Empty", "goal", "NeedsPlan">>,
     <<"NeedsPlan", "plan", "NeedsAttempt">>,
     <<"NeedsAttempt", "attempt", "NeedsObservation">>,
     <<"NeedsObservation", "observation", "NeedsDecision">>,
     <<"NeedsDecision", "continue", "NeedsAttempt">>,
     <<"NeedsDecision", "verify", "NeedsVerification">>,
     <<"NeedsDecision", "stop", "NeedsVerification">>,
     <<"NeedsVerification", "checks passed", "NeedsOutcome">>,
     <<"NeedsVerification", "checks not passed", "NeedsPostVerificationDecision">>,
     <<"NeedsPostVerificationDecision", "continue", "NeedsAttempt">>,
     <<"NeedsPostVerificationDecision", "stop", "NeedsOutcome">>}
      \cup {<<"NeedsOutcome", o, "Complete">> : o \in Outcomes}

EmptyRun == [state |-> "Empty", verified |-> FALSE]

\* transition: success contradicts a verification that did not pass.
Allowed(run, payload) ==
    /\ \E to \in {t[3] : t \in Transitions} : <<run.state, payload, to>> \in Transitions
    /\ payload = "succeeded" => run.verified

\* ReasoningRun::append, with last_verification_passed.
Advanced(run, payload) ==
    [state |-> (CHOOSE t \in Transitions : t[1] = run.state /\ t[2] = payload)[3],
     verified |-> IF payload \in Verifications THEN payload = "checks passed" ELSE run.verified]

\* ReasoningRun::replay: the run after one more event, "Invalid" if it is not what append
\* would have made,
Stepped(run, n, event) ==
    IF event.ordinal = n /\ Allowed(run, event.payload)
      THEN Advanced(run, event.payload)
      ELSE [state |-> "Invalid", verified |-> FALSE]

\* and after all of them.
Replay(events) ==
    LET after[n \in 0..Len(events)] ==
          IF n = 0 THEN EmptyRun ELSE Stepped(after[n - 1], n, events[n])
    IN  after[Len(events)]

IsComplete(events) == Replay(events).state = "Complete"
=============================================================================
