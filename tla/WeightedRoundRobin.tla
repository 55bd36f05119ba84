--------------------------- MODULE WeightedRoundRobin ---------------------------
(***************************************************************************)
(* WeightedRoundRobinArbiter.arbitrate one iteration of its search loop at *)
(* a time, called again and again with any requests.  The loop gives up    *)
(* after max_possible_iterations attempts and raises.                      *)
(***************************************************************************)
EXTENDS ArbiterPolicy

VARIABLES current_index,      \* whose turn it is
          remaining_credits,  \* grants left in this turn
          requests,           \* the requests of the call in progress, {} between calls
          attempts,           \* turns skipped so far in this call
          bypassed            \* history: bypassed[r] = calls in a row that refused r

vars == <<current_index, remaining_credits, requests, attempts, bypassed>>

\* sum(weights[:r]): the weights of the requesters before r, added up.
WeightBefore[r \in 0 .. num_requesters] ==
  IF r = 0 THEN 0 ELSE WeightBefore[r - 1] + weights[r - 1]

\* sum(weights), the bound on the search.
max_possible_iterations == WeightBefore[num_requesters]

Init ==
  /\ current_index = 0
  /\ remaining_credits = weights[0]
  /\ requests = {}
  /\ attempts = 0
  /\ bypassed = [r \in Requester |-> 0]

\* A call with at least one request starts a search.  (With none the arbiter
\* returns at once and changes nothing.)
Call ==
  /\ requests = {}
  /\ requests' \in (SUBSET Requester) \ {{}}
  /\ attempts' = 0
  /\ UNCHANGED <<current_index, remaining_credits, bypassed>>

\* The loop condition, while a call is being searched.
Searching == requests # {} /\ attempts < max_possible_iterations

\* The requester whose turn it is has a request: grant it and return.
Grant ==
  /\ Searching
  /\ current_index \in requests
  /\ LET result == SpendCredit(current_index, remaining_credits)
     IN  /\ current_index' = result.index
         /\ remaining_credits' = result.credits
         /\ bypassed' = [r \in Requester |->
              IF r \in requests \ {result.grant} THEN bypassed[r] + 1 ELSE 0]
  /\ requests' = {}
  /\ UNCHANGED attempts

\* Mutant of Skip: the index is only advanced while it is not the last.
Skip_Sticks ==
  /\ Searching
  /\ current_index \notin requests
  /\ current_index' = IF current_index = num_requesters - 1 THEN current_index
                       ELSE current_index + 1
  /\ remaining_credits' = weights[current_index']
  /\ attempts' = attempts + 1
  /\ UNCHANGED <<requests, bypassed>>

\* It has none: move on to the next requester.
Skip ==
  /\ Searching
  /\ current_index \notin requests
  /\ current_index' = TurnAfter(current_index, 1)
  /\ remaining_credits' = weights[current_index']
  /\ attempts' = attempts + 1
  /\ UNCHANGED <<requests, bypassed>>

Next == Call \/ Grant \/ Skip

Spec == Init /\ [][Next]_vars

--------------------------------------------------------------------------------

TypeOK ==
  /\ current_index \in Requester
  /\ remaining_credits \in 1 .. weights[current_index]
  /\ requests \in SUBSET Requester
  /\ attempts \in Nat
  /\ bypassed \in [Requester -> Nat]

(***************************************************************************)
(* The loop never leaves through its condition, after which it raises      *)
(* "abritation hit timeout": weighted_round_robin.py:183 "should never     *)
(* reach here with valid inputs".                                          *)
(***************************************************************************)
NeverTimesOut == requests # {} => attempts < max_possible_iterations

(***************************************************************************)
(* The weights bound how long a requester that keeps asking is refused:    *)
(* each other requester is served at most its weight's number of times in  *)
(* between, even when credits were left over or requesters come and go.    *)
(***************************************************************************)
BoundedBypass ==
  \A r \in Requester : bypassed[r] <= max_possible_iterations - weights[r]

(***************************************************************************)
(* One call of the loop, from its start to its grant, computes what the    *)
(* closed form Arbitrate says: the winner is already determined while the  *)
(* search is still skipping.                                               *)
(***************************************************************************)
SearchAgreesWithPolicy ==
  [][Skip => Arbitrate(current_index, remaining_credits, requests)
               = Arbitrate(current_index', remaining_credits', requests)]_vars

================================================================================
