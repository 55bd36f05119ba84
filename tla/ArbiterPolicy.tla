----------------------------- MODULE ArbiterPolicy -----------------------------
(***************************************************************************)
(* WeightedRoundRobinArbiter.arbitrate of                                  *)
(* cocotb/emulation/weighted_round_robin.py, as a function of the          *)
(* requests and of the two fields it updates.  WeightedRoundRobin models   *)
(* the loop it is computed by; EmulatedCPU calls it.                       *)
(***************************************************************************)
EXTENDS Naturals

CONSTANTS num_requesters,  \* requesters are 0 .. num_requesters - 1
          weights          \* weights[r]: consecutive grants r may receive

Requester == 0 .. num_requesters - 1

\* The constructor's checks: one weight per requester, all of them positive.
ASSUME NumRequestersAssumption == num_requesters \in Nat \ {0}
ASSUME WeightsAssumption == weights \in [Requester -> Nat \ {0}]

\* The requester k turns after r, and the number of turns from r to s.
TurnAfter(r, k) == (r + k) % num_requesters
Turns(r, s) == (s + num_requesters - r) % num_requesters

\* Mutant of FirstFrom: the lowest number always wins.
FirstFrom_FixedPriority(index, requests) ==
  CHOOSE r \in requests : \A s \in requests : r <= s

\* The first requester at or after index, going round, that has a request.
FirstFrom(index, requests) ==
  CHOOSE r \in requests : \A s \in requests : Turns(index, r) <= Turns(index, s)

\* Mutant of SpendCredit: credits are not counted, so the turn is kept.
SpendCredit_Greedy(r, left) == [grant |-> r, index |-> r, credits |-> left]

(***************************************************************************)
(* Granting r with left credits: one credit is spent, and the last one     *)
(* passes the turn on with a full allowance.                               *)
(***************************************************************************)
SpendCredit(r, left) ==
  IF left = 1
  THEN [grant |-> r, index |-> TurnAfter(r, 1), credits |-> weights[TurnAfter(r, 1)]]
  ELSE [grant |-> r, index |-> r, credits |-> left - 1]

\* Mutant of Arbitrate: the allowance is not renewed when turns were skipped.
Arbitrate_StaleCredits(index, credits, requests) ==
  SpendCredit(FirstFrom(index, requests), credits)

\* arbitrate, for a non-empty set of requests.
Arbitrate(index, credits, requests) ==
  LET r == FirstFrom(index, requests)
  IN  SpendCredit(r, IF r = index THEN credits ELSE weights[r])

================================================================================
