----------------------- MODULE WeightedRoundRobinProofs ------------------------
(***************************************************************************)
(* What the arbiter's search computes, that it ends, and how long it may   *)
(* pass a requester over, for any number of requesters with any weights.   *)
(***************************************************************************)
EXTENDS WeightedRoundRobin, TLAPS, WellFoundedInduction

\* The turn after r's.
LEMMA NextTurn ==
  ASSUME NEW r \in Requester
  PROVE  /\ TurnAfter(r, 1) = IF r = num_requesters - 1 THEN 0 ELSE r + 1
         /\ TurnAfter(r, 1) \in Requester
<1>1. r + 1 \in 0 .. 2 * num_requesters - 1
  BY NumRequestersAssumption DEF Requester
<1>2. /\ r + 1 < num_requesters => TurnAfter(r, 1) = r + 1
      /\ ~(r + 1 < num_requesters) => TurnAfter(r, 1) = r + 1 - num_requesters
  <2> DEFINE a == r + 1
  <2>1. a \in 0 .. 2 * num_requesters - 1
    BY <1>1
  <2> HIDE DEF a
  <2>2. /\ a < num_requesters => a % num_requesters = a
        /\ ~(a < num_requesters) => a % num_requesters = a - num_requesters
    BY <2>1, NumRequestersAssumption
  <2>3. TurnAfter(r, 1) = a % num_requesters
    BY Zenon DEF TurnAfter, a
  <2>4. /\ a < num_requesters => TurnAfter(r, 1) = a
        /\ ~(a < num_requesters) => TurnAfter(r, 1) = a - num_requesters
    BY <2>2, <2>3, Zenon
  <2> QED BY <2>4, <1>1, NumRequestersAssumption DEF a, Requester
<1> QED BY <1>2, NumRequestersAssumption DEF Requester

\* How many turns it is from r's to s's: less than a round.
LEMMA TurnsBetween ==
  ASSUME NEW r \in Requester, NEW s \in Requester
  PROVE  Turns(r, s) = IF s < r THEN s + num_requesters - r ELSE s - r
<1>1. s + num_requesters - r \in 0 .. 2 * num_requesters - 1
  BY NumRequestersAssumption DEF Requester
<1>2. /\ s + num_requesters - r < num_requesters <=> s < r
      /\ s + num_requesters - r - num_requesters = s - r
  BY NumRequestersAssumption DEF Requester
<1>3. /\ s + num_requesters - r < num_requesters
           => Turns(r, s) = s + num_requesters - r
      /\ ~(s + num_requesters - r < num_requesters)
           => Turns(r, s) = s + num_requesters - r - num_requesters
  <2> DEFINE a == s + num_requesters - r
  <2>1. a \in 0 .. 2 * num_requesters - 1
    BY <1>1
  <2> HIDE DEF a
  <2>2. /\ a < num_requesters => a % num_requesters = a
        /\ ~(a < num_requesters) => a % num_requesters = a - num_requesters
    BY <2>1, NumRequestersAssumption
  <2>3. Turns(r, s) = a % num_requesters
    BY Zenon DEF Turns, a
  <2>4. /\ a < num_requesters => Turns(r, s) = a
        /\ ~(a < num_requesters) => Turns(r, s) = a - num_requesters
    BY <2>2, <2>3, Zenon
  <2> QED BY <2>4, <1>1, NumRequestersAssumption DEF a, Requester
<1> QED BY <1>2, <1>3

\* A number of turns is a natural number.
LEMMA DistanceInNat ==
  ASSUME NEW r \in Requester, NEW s \in Requester
  PROVE  Turns(r, s) \in Nat
<1>1. Turns(r, s) = IF s < r THEN s + num_requesters - r ELSE s - r
  BY TurnsBetween
<1> QED BY <1>1, NumRequestersAssumption DEF Requester

\* And less than a round.
LEMMA LessThanARound ==
  ASSUME NEW r \in Requester, NEW s \in Requester
  PROVE  Turns(r, s) \in 0 .. num_requesters - 1
<1>1. Turns(r, s) = IF s < r THEN s + num_requesters - r ELSE s - r
  BY TurnsBetween
<1> QED BY <1>1, NumRequestersAssumption DEF Requester

\* One turn on, every other requester is one turn nearer.
LEMMA OneTurnNearer ==
  ASSUME NEW r \in Requester, NEW s \in Requester \ {r}
  PROVE  Turns(TurnAfter(r, 1), s) = Turns(r, s) - 1
<1> DEFINE next == TurnAfter(r, 1)
<1> HIDE DEF next
<1>1. next \in Requester /\ next = IF r = num_requesters - 1 THEN 0 ELSE r + 1
  BY NextTurn DEF next
<1>2. Turns(next, s) = IF s < next THEN s + num_requesters - next ELSE s - next
  BY <1>1, TurnsBetween
<1>3. Turns(r, s) = IF s < r THEN s + num_requesters - r ELSE s - r
  BY TurnsBetween
<1> QED BY <1>1, <1>2, <1>3, NumRequestersAssumption DEF Requester, next

\* Skipping a requester without a request does not change who is first.
LEMMA SameFirst ==
  ASSUME NEW r \in Requester, NEW asking \in SUBSET Requester, r \notin asking
  PROVE  FirstFrom(TurnAfter(r, 1), asking) = FirstFrom(r, asking)
<1> DEFINE First(from, q) == \A s \in asking : Turns(from, q) <= Turns(from, s)
<1>1. \A s \in asking : /\ Turns(r, s) \in Nat
                        /\ Turns(TurnAfter(r, 1), s) = Turns(r, s) - 1
  BY OneTurnNearer, DistanceInNat
<1>2. \A q \in asking : First(TurnAfter(r, 1), q) <=> First(r, q)
  BY <1>1
<1> QED BY <1>2, Zenon DEF FirstFrom

\* Somebody is first.
LEMMA FirstAsks ==
  ASSUME NEW r \in Requester, NEW asking \in SUBSET Requester, asking # {}
  PROVE  FirstFrom(r, asking) \in asking
<1> DEFINE distances == {Turns(r, s) : s \in asking}
<1>1. distances \subseteq Nat /\ distances # {}
  <2>1. \A s \in asking : Turns(r, s) \in Nat
    BY DistanceInNat
  <2> QED BY <2>1
<1>2. PICK d \in distances : \A e \in distances : ~(<<e, d>> \in OpToRel(<, Nat))
  BY <1>1, WFMin, NatLessThanWellFounded, Zenon
<1>3. \A e \in distances : d <= e
  <2> TAKE e \in distances
  <2>1. ~(e < d)
    BY <1>1, <1>2, Zenon DEF OpToRel
  <2> QED BY <1>1, <2>1
<1>4. \E q \in asking : \A s \in asking : Turns(r, q) <= Turns(r, s)
  BY <1>3
<1> QED BY <1>4 DEF FirstFrom

--------------------------------------------------------------------------------
(* Sums of weights. *)

\* A set of numbers that is not empty has a least member.
LEMMA LeastNumber ==
  ASSUME NEW S \in SUBSET Nat, S # {}
  PROVE  \E n \in S : \A m \in S : n <= m
<1>1. PICK n \in S : \A m \in S : ~(<<m, n>> \in OpToRel(<, Nat))
  BY WFMin, NatLessThanWellFounded, Zenon
<1>2. \A m \in S : n <= m
  <2> TAKE m \in S
  <2>1. ~(m < n)
    BY <1>1, Zenon DEF OpToRel
  <2> QED BY <2>1
<1> QED BY <1>2

\* g is what WeightBefore is defined to be, as far as n.
AddsUp(g, n) ==
  /\ g \in [0 .. n -> Nat]
  /\ g[0] = 0
  /\ \A k \in 1 .. n : g[k] = g[k - 1] + weights[k - 1]

\* There is such a function: with one as far as n - 1 there is one as far as n.
LEMMA SumsExist == \E g : AddsUp(g, num_requesters)
<1> USE NumRequestersAssumption
<1> DEFINE missing == {n \in 0 .. num_requesters : ~ \E g : AddsUp(g, n)}
<1> SUFFICES ASSUME missing # {} PROVE FALSE
  OBVIOUS
<1>1. PICK n \in missing : \A m \in missing : n <= m
  <2>1. missing \in SUBSET Nat
    OBVIOUS
  <2> HIDE DEF missing
  <2> QED BY <2>1, LeastNumber, Zenon
<1>2. n # 0
  <2>1. AddsUp([k \in 0 .. 0 |-> 0], 0)
    BY DEF AddsUp
  <2> QED BY <2>1, <1>1
<1>3. n - 1 \in 0 .. num_requesters /\ n - 1 \notin missing
  BY <1>1, <1>2
<1>4. PICK g : AddsUp(g, n - 1)
  BY <1>3
<1> DEFINE longer == [k \in 0 .. n |-> IF k = n THEN g[n - 1] + weights[n - 1] ELSE g[k]]
<1>5. n - 1 \in Requester /\ weights[n - 1] \in Nat
  BY <1>1, <1>2, WeightsAssumption DEF Requester
<1>6. g \in [0 .. n - 1 -> Nat] /\ g[n - 1] \in Nat
  BY <1>4, <1>1, <1>2 DEF AddsUp
<1>7. longer \in [0 .. n -> Nat]
  BY <1>1, <1>2, <1>5, <1>6
<1>8. longer[0] = 0
  BY <1>1, <1>2, <1>4 DEF AddsUp
<1>9. \A k \in 1 .. n : longer[k] = longer[k - 1] + weights[k - 1]
  <2> TAKE k \in 1 .. n
  <2>1. CASE k = n
    BY <2>1, <1>1, <1>2
  <2>2. CASE k # n
    BY <2>2, <1>1, <1>2, <1>4 DEF AddsUp
  <2> QED BY <2>1, <2>2
<1>10. AddsUp(longer, n)
  BY <1>7, <1>8, <1>9 DEF AddsUp
<1> QED BY <1>10, <1>1

\* WeightBefore is what its equation says.
LEMMA WeightBeforeAddsUp == AddsUp(WeightBefore, num_requesters)
<1> DEFINE Equation(g) ==
      g = [r \in 0 .. num_requesters |-> IF r = 0 THEN 0 ELSE g[r - 1] + weights[r - 1]]
<1>1. PICK g : AddsUp(g, num_requesters)
  BY SumsExist
<1>2. Equation(g)
  BY <1>1, NumRequestersAssumption DEF AddsUp
<1>3. Equation(WeightBefore)
  <2>1. WeightBefore = CHOOSE f : Equation(f)
    BY Zenon DEF WeightBefore
  <2> HIDE DEF Equation
  <2> QED BY <2>1, <1>2, Zenon
<1> DEFINE h == WeightBefore
<1> HIDE DEF h
<1>4. Equation(h)
  BY <1>3 DEF h
<1>5. \A n \in 0 .. num_requesters : h[n] = g[n]
  <2> DEFINE differ == {n \in 0 .. num_requesters : h[n] # g[n]}
  <2> SUFFICES ASSUME differ # {} PROVE FALSE
    OBVIOUS
  <2>1. PICK n \in differ : \A m \in differ : n <= m
    <3>1. differ \in SUBSET Nat
      BY NumRequestersAssumption
    <3> HIDE DEF differ
    <3> QED BY <3>1, LeastNumber, Zenon
  <2>2. n # 0
    BY <2>1, <1>1, <1>4, NumRequestersAssumption DEF AddsUp
  <2>3. h[n - 1] = g[n - 1]
    BY <2>1, <2>2, NumRequestersAssumption
  <2>4. h[n] = h[n - 1] + weights[n - 1]
    BY <2>1, <2>2, <1>4, NumRequestersAssumption
  <2>5. g[n] = g[n - 1] + weights[n - 1]
    BY <2>1, <2>2, <1>1, NumRequestersAssumption DEF AddsUp
  <2> QED BY <2>1, <2>3, <2>4, <2>5
<1>6. h = g
  BY <1>1, <1>4, <1>5, NumRequestersAssumption DEF AddsUp
<1> QED BY <1>1, <1>6 DEF h

\* One requester more adds its weight.
LEMMA WeightBeforeNext ==
  /\ WeightBefore[0] = 0
  /\ \A r \in 0 .. num_requesters : WeightBefore[r] \in Nat
  /\ \A r \in Requester : WeightBefore[r + 1] = WeightBefore[r] + weights[r]
<1> DEFINE h == WeightBefore
<1>1. AddsUp(h, num_requesters)
  BY WeightBeforeAddsUp
<1> HIDE DEF h
<1>2. \A r \in Requester : h[r + 1] = h[r] + weights[r]
  <2> TAKE r \in Requester
  <2>1. r + 1 \in 1 .. num_requesters
    BY NumRequestersAssumption DEF Requester
  <2>2. \A k \in 1 .. num_requesters : h[k] = h[k - 1] + weights[k - 1]
    BY <1>1, Zenon DEF AddsUp
  <2>3. h[r + 1] = h[(r + 1) - 1] + weights[(r + 1) - 1]
    BY <2>1, <2>2, Zenon
  <2>4. (r + 1) - 1 = r
    BY DEF Requester
  <2> QED BY <2>3, <2>4, Zenon
<1> QED BY <1>1, <1>2, Zenon DEF AddsUp, h

\* Every weight is at least one, so that requesters further on have at least
\* as much before them as there are requesters in between.
LEMMA WeightsGrow ==
  ASSUME NEW r \in 0 .. num_requesters, NEW s \in r .. num_requesters
  PROVE  WeightBefore[r] + (s - r) <= WeightBefore[s]
<1> USE NumRequestersAssumption
<1> DEFINE h == WeightBefore
<1>1. /\ \A q \in 0 .. num_requesters : h[q] \in Nat
      /\ \A q \in Requester : h[q + 1] = h[q] + weights[q]
  BY WeightBeforeNext
<1> HIDE DEF h
<1> DEFINE wrong == {q \in r .. num_requesters : ~(h[r] + (q - r) <= h[q])}
<1>2. wrong = {}
  <2> SUFFICES ASSUME wrong # {} PROVE FALSE
    OBVIOUS
  <2>1. PICK n \in wrong : \A m \in wrong : n <= m
    <3>1. wrong \in SUBSET Nat
      OBVIOUS
    <3> HIDE DEF wrong
    <3> QED BY <3>1, LeastNumber, Zenon
  <2>2. n # r
    BY <2>1, <1>1
  <2>3. n - 1 \in r .. num_requesters /\ n - 1 \notin wrong
    BY <2>1, <2>2
  <2>4. h[r] + (n - 1 - r) <= h[n - 1]
    BY <2>3
  <2>5. n - 1 \in Requester /\ n - 1 + 1 = n
    BY <2>1, <2>2 DEF Requester
  <2>6. h[n] = h[n - 1] + weights[n - 1] /\ weights[n - 1] \in Nat \ {0}
    BY <2>5, <1>1, WeightsAssumption
  <2>7. h[r] \in Nat /\ h[n - 1] \in Nat
    BY <2>1, <2>3, <1>1
  <2> QED BY <2>1, <2>4, <2>6, <2>7
<1> QED BY <1>2 DEF h

--------------------------------------------------------------------------------

LEMMA InitEstablishes == Init => TypeOK
BY NumRequestersAssumption, WeightsAssumption DEF Init, TypeOK, Requester

LEMMA NextPreserves == TypeOK /\ [Next]_vars => TypeOK'
<1> SUFFICES ASSUME TypeOK, [Next]_vars PROVE TypeOK'
  OBVIOUS
<1> USE NumRequestersAssumption, WeightsAssumption DEF TypeOK
<1>1. CASE Call
  BY <1>1 DEF Call
<1>2. CASE Grant
  <2>1. current_index' \in Requester /\ remaining_credits' \in 1 .. weights[current_index']
    BY <1>2, NextTurn DEF Grant, SpendCredit
  <2>2. bypassed' \in [Requester -> Nat]
    BY <1>2 DEF Grant
  <2> QED BY <1>2, <2>1, <2>2 DEF Grant
<1>3. CASE Skip
  BY <1>3, NextTurn DEF Skip
<1>4. CASE UNCHANGED vars
  BY <1>4 DEF vars
<1> QED
  BY <1>1, <1>2, <1>3, <1>4 DEF Next

\* The index is always a requester's, with between one and all of its credits
\* left (weighted_round_robin.py:144-184).
THEOREM TypeCorrect == Spec => []TypeOK
BY InitEstablishes, NextPreserves, PTL DEF Spec

\* Skipping a requester that asks for nothing does not change the grant to come:
\* the one skipped to has all its credits, and it is nearer to whoever is first.
LEMMA SkipKeepsWinner ==
  TypeOK /\ Skip => Arbitrate(current_index, remaining_credits, requests)
                      = Arbitrate(current_index', remaining_credits', requests)
<1> SUFFICES ASSUME TypeOK, Skip
             PROVE  Arbitrate(current_index, remaining_credits, requests)
                      = Arbitrate(current_index', remaining_credits', requests)
  OBVIOUS
<1> DEFINE winner == FirstFrom(current_index, requests)
<1>1. winner \in requests
  BY FirstAsks DEF Skip, Searching, TypeOK
<1>2. FirstFrom(current_index', requests) = winner
  BY SameFirst DEF Skip, TypeOK
<1>3. winner # current_index
  BY <1>1 DEF Skip
<1>4. remaining_credits' = weights[current_index']
  BY DEF Skip
<1> QED BY <1>2, <1>3, <1>4 DEF Arbitrate

\* Whatever the number of requesters and their weights, the loop of
\* arbitrate (weighted_round_robin.py:160-181), one requester a step, ends with
\* the grant of the policy stated in one formula.
THEOREM SearchIsPolicy == Spec => SearchAgreesWithPolicy
<1>1. TypeOK /\ [Next]_vars => [Skip => Arbitrate(current_index, remaining_credits, requests)
               = Arbitrate(current_index', remaining_credits', requests)]_vars
  BY SkipKeepsWinner
<1> QED BY <1>1, TypeCorrect, PTL DEF Spec, SearchAgreesWithPolicy

--------------------------------------------------------------------------------
(* The search ends. *)

\* While a call is searched, the first that asks is as many turns away as are
\* left of the round, or nearer.
SearchInv ==
  requests # {} =>
    attempts + Turns(current_index, FirstFrom(current_index, requests)) < num_requesters

LEMMA SearchInvInit == Init => SearchInv
BY DEF Init, SearchInv

LEMMA SearchInvNext == TypeOK /\ SearchInv /\ [Next]_vars => SearchInv'
<1> SUFFICES ASSUME TypeOK, SearchInv, [Next]_vars PROVE SearchInv'
  OBVIOUS
<1>1. CASE Call
  <2>1. current_index' \in Requester /\ requests' \in SUBSET Requester /\ requests' # {}
    BY <1>1 DEF Call, TypeOK
  <2> DEFINE first == FirstFrom(current_index', requests')
  <2>2. first \in Requester
    BY <2>1, FirstAsks
  <2> HIDE DEF first
  <2>3. Turns(current_index', first) \in 0 .. num_requesters - 1
    BY <2>1, <2>2, LessThanARound
  <2>4. attempts' = 0
    BY <1>1 DEF Call
  <2> QED BY <2>3, <2>4, NumRequestersAssumption DEF SearchInv, first
<1>2. CASE Grant
  BY <1>2 DEF Grant, SearchInv
<1>3. CASE Skip
  <2>1. /\ current_index \in Requester /\ requests \in SUBSET Requester /\ requests # {}
        /\ current_index \notin requests /\ current_index' = TurnAfter(current_index, 1)
        /\ requests' = requests /\ attempts' = attempts + 1 /\ attempts \in Nat
    BY <1>3 DEF Skip, Searching, TypeOK
  <2> DEFINE first == FirstFrom(current_index, requests)
  <2>2. first \in Requester \ {current_index}
    BY <2>1, FirstAsks
  <2>3. FirstFrom(current_index', requests') = first
    BY <2>1, SameFirst
  <2>4. attempts + Turns(current_index, first) < num_requesters
    BY <2>1 DEF SearchInv
  <2> HIDE DEF first
  <2>5. Turns(current_index', first) = Turns(current_index, first) - 1
    BY <2>1, <2>2, OneTurnNearer
  <2>6. Turns(current_index, first) \in Nat
    BY <2>1, <2>2, DistanceInNat
  <2> QED BY <2>1, <2>3, <2>4, <2>5, <2>6 DEF SearchInv
<1>4. CASE UNCHANGED vars
  BY <1>4 DEF vars, SearchInv
<1> QED BY <1>1, <1>2, <1>3, <1>4 DEF Next

\* There are at most as many requesters as their weights add up to, so a search
\* that ends within a round ends within the loop's limit.
LEMMA SearchInvSuffices == TypeOK /\ SearchInv => NeverTimesOut
<1> SUFFICES ASSUME TypeOK, SearchInv, requests # {}
             PROVE  attempts < max_possible_iterations
  BY DEF NeverTimesOut
<1> DEFINE first == FirstFrom(current_index, requests)
<1>1. first \in Requester /\ current_index \in Requester /\ attempts \in Nat
  BY FirstAsks DEF TypeOK
<1>2. attempts + Turns(current_index, first) < num_requesters
  BY DEF SearchInv
<1> HIDE DEF first
<1>3. Turns(current_index, first) \in Nat
  BY <1>1, DistanceInNat
<1>4. WeightBefore[0] + (num_requesters - 0) <= WeightBefore[num_requesters]
  BY WeightsGrow, NumRequestersAssumption
<1>5. WeightBefore[0] = 0 /\ max_possible_iterations \in Nat
  BY WeightBeforeNext, NumRequestersAssumption DEF max_possible_iterations
<1>6. num_requesters <= max_possible_iterations
  BY <1>4, <1>5, NumRequestersAssumption DEF max_possible_iterations
<1> QED BY <1>1, <1>2, <1>3, <1>5, <1>6, NumRequestersAssumption

\* A call of arbitrate with a request always grants: the loop's condition
\* (weighted_round_robin.py:160) never fails, and line 183 is never reached.
THEOREM SearchSucceeds == Spec => []NeverTimesOut
<1>1. Init => TypeOK /\ SearchInv
  BY InitEstablishes, SearchInvInit
<1>2. TypeOK /\ SearchInv /\ [Next]_vars => (TypeOK /\ SearchInv)'
  BY NextPreserves, SearchInvNext
<1> QED BY <1>1, <1>2, SearchInvSuffices, PTL DEF Spec

--------------------------------------------------------------------------------
(* Nobody is passed over for long. *)

\* How many grants others may receive before it is r's turn, when it is i's and
\* i has some credits left: these, and what those between them are allowed.
Ahead(i, credits, r) ==
  IF i = r THEN 0
  ELSE credits + WeightBefore[r] - WeightBefore[i + 1]
         + (IF r < i THEN max_possible_iterations ELSE 0)

\* What a requester has been refused and may still be refused.
BypassInv ==
  \A r \in Requester :
    /\ bypassed[r] <= max_possible_iterations - weights[r]
    /\ requests = {} \/ r \in requests =>
         bypassed[r] + Ahead(current_index, remaining_credits, r)
           <= max_possible_iterations - weights[r]

\* The sums that Ahead compares, of one requester's turn and a later one's.
LEMMA SumsInOrder ==
  /\ max_possible_iterations = WeightBefore[num_requesters]
  /\ \A r \in Requester :
       /\ WeightBefore[r] \in Nat /\ WeightBefore[r + 1] \in Nat
       /\ WeightBefore[r + 1] = WeightBefore[r] + weights[r]
       /\ WeightBefore[r + 1] <= max_possible_iterations
       /\ weights[r] \in Nat \ {0} /\ max_possible_iterations \in Nat
  /\ \A r, s \in Requester : r < s => WeightBefore[r + 1] <= WeightBefore[s]
<1> USE NumRequestersAssumption
<1>1. max_possible_iterations = WeightBefore[num_requesters]
  BY DEF max_possible_iterations
<1>2. \A r \in Requester :
        /\ WeightBefore[r] \in Nat /\ WeightBefore[r + 1] \in Nat
        /\ WeightBefore[r + 1] = WeightBefore[r] + weights[r]
        /\ weights[r] \in Nat \ {0} /\ max_possible_iterations \in Nat
  <2> TAKE r \in Requester
  <2>1. r \in 0 .. num_requesters /\ r + 1 \in 0 .. num_requesters
    BY DEF Requester
  <2> QED BY <2>1, <1>1, WeightBeforeNext, WeightsAssumption
<1>3. \A r, s \in 0 .. num_requesters : r <= s => WeightBefore[r] <= WeightBefore[s]
  <2> SUFFICES ASSUME NEW r \in 0 .. num_requesters, NEW s \in 0 .. num_requesters, r <= s
               PROVE  WeightBefore[r] <= WeightBefore[s]
    OBVIOUS
  <2>1. WeightBefore[r] + (s - r) <= WeightBefore[s]
    BY WeightsGrow
  <2>2. WeightBefore[r] \in Nat /\ WeightBefore[s] \in Nat
    BY WeightBeforeNext
  <2> QED BY <2>1, <2>2
<1>4. \A r \in Requester : WeightBefore[r + 1] <= max_possible_iterations
  BY <1>1, <1>3 DEF Requester
<1>5. \A r, s \in Requester : r < s => WeightBefore[r + 1] <= WeightBefore[s]
  BY <1>3 DEF Requester
<1> QED BY <1>1, <1>2, <1>4, <1>5

\* Others are never allowed more than the sum of their weights in between.
LEMMA AheadBounded ==
  ASSUME NEW i \in Requester, NEW credits \in 1 .. weights[i], NEW r \in Requester
  PROVE  /\ Ahead(i, credits, r) \in Nat
         /\ Ahead(i, credits, r) <= max_possible_iterations - weights[r]
         /\ i # r => Ahead(i, credits, r) >= credits
<1>1. CASE i = r
  BY <1>1, SumsInOrder DEF Ahead
<1>2. CASE i < r
  BY <1>2, SumsInOrder DEF Ahead, Requester
<1>3. CASE r < i
  BY <1>3, SumsInOrder DEF Ahead, Requester
<1> QED BY <1>1, <1>2, <1>3 DEF Requester

\* When the turn passes on with a full allowance, what was left of the old one
\* is no longer ahead of anyone else.
LEMMA TurnPassesOn ==
  ASSUME NEW i \in Requester, NEW credits \in 1 .. weights[i], NEW r \in Requester \ {i}
  PROVE  Ahead(TurnAfter(i, 1), weights[TurnAfter(i, 1)], r) = Ahead(i, credits, r) - credits
<1> DEFINE next == TurnAfter(i, 1)
<1>1. next \in Requester /\ next = IF i = num_requesters - 1 THEN 0 ELSE i + 1
  BY NextTurn
<1> HIDE DEF next
<1>2. Ahead(next, weights[next], r)
        = WeightBefore[r] - WeightBefore[next] + (IF r < next THEN max_possible_iterations ELSE 0)
  BY <1>1, SumsInOrder DEF Ahead, Requester
<1>3. Ahead(i, credits, r) - credits
        = WeightBefore[r] - WeightBefore[i + 1] + (IF r < i THEN max_possible_iterations ELSE 0)
  BY SumsInOrder DEF Ahead, Requester
<1>4. CASE i = num_requesters - 1
  <2>1. next = 0 /\ r < i /\ ~(r < next) /\ i + 1 = num_requesters
    BY <1>1, <1>4, NumRequestersAssumption DEF Requester
  <2>2. WeightBefore[next] = 0 /\ WeightBefore[i + 1] = max_possible_iterations
    BY <2>1, SumsInOrder, WeightBeforeNext
  <2> QED BY <1>2, <1>3, <2>1, <2>2, SumsInOrder DEF next
<1>5. CASE i # num_requesters - 1
  <2>1. next = i + 1 /\ (r < next <=> r < i)
    BY <1>1, <1>5, NumRequestersAssumption DEF Requester
  <2> QED BY <1>2, <1>3, <2>1, SumsInOrder DEF next
<1> QED BY <1>4, <1>5

LEMMA BypassInvInit == Init => BypassInv
<1> SUFFICES ASSUME Init, NEW r \in Requester
             PROVE  /\ bypassed[r] <= max_possible_iterations - weights[r]
                    /\ bypassed[r] + Ahead(current_index, remaining_credits, r)
                         <= max_possible_iterations - weights[r]
  BY DEF BypassInv
<1>1. current_index \in Requester /\ remaining_credits \in 1 .. weights[current_index]
  BY InitEstablishes DEF TypeOK
<1>2. bypassed[r] = 0
  BY DEF Init
<1> QED BY <1>1, <1>2, AheadBounded, SumsInOrder

LEMMA BypassInvNext == TypeOK /\ BypassInv /\ [Next]_vars => BypassInv'
<1> SUFFICES ASSUME TypeOK, BypassInv, [Next]_vars, NEW r \in Requester
             PROVE  /\ bypassed'[r] <= max_possible_iterations - weights[r]
                    /\ requests' = {} \/ r \in requests' =>
                         bypassed'[r] + Ahead(current_index', remaining_credits', r)
                           <= max_possible_iterations - weights[r]
  BY DEF BypassInv
<1>1. /\ bypassed[r] \in Nat /\ bypassed[r] <= max_possible_iterations - weights[r]
      /\ requests = {} \/ r \in requests =>
           bypassed[r] + Ahead(current_index, remaining_credits, r)
             <= max_possible_iterations - weights[r]
  BY DEF BypassInv, TypeOK
<1>2. /\ current_index \in Requester /\ remaining_credits \in 1 .. weights[current_index]
      /\ requests \in SUBSET Requester
  BY DEF TypeOK
<1>3. /\ current_index' \in Requester /\ remaining_credits' \in 1 .. weights[current_index']
  BY NextPreserves DEF TypeOK
<1>4. weights[r] \in Nat \ {0} /\ max_possible_iterations \in Nat
  BY SumsInOrder
<1> DEFINE ahead == Ahead(current_index, remaining_credits, r)
           aheadNext == Ahead(current_index', remaining_credits', r)
<1>5. /\ ahead \in Nat /\ ahead <= max_possible_iterations - weights[r]
      /\ current_index # r => ahead >= remaining_credits
  BY <1>2, AheadBounded
<1>6. aheadNext \in Nat /\ aheadNext <= max_possible_iterations - weights[r]
  BY <1>3, AheadBounded
<1>7. CASE Call
  BY <1>1, <1>7 DEF Call
<1>8. CASE Grant
  <2>1. current_index \in requests /\ requests' = {}
    BY <1>8 DEF Grant
  <2>2. bypassed'[r] = IF r \in requests \ {current_index} THEN bypassed[r] + 1 ELSE 0
    BY <1>8 DEF Grant, SpendCredit
  <2>3. CASE r \in requests \ {current_index}
    <3>1. aheadNext = ahead - 1
      <4>1. CASE remaining_credits = 1
        <5>1. /\ current_index' = TurnAfter(current_index, 1)
              /\ remaining_credits' = weights[TurnAfter(current_index, 1)]
          BY <1>8, <4>1 DEF Grant, SpendCredit
        <5> QED BY <5>1, <4>1, <1>2, <2>3, TurnPassesOn
      <4>2. CASE remaining_credits # 1
        <5>1. current_index' = current_index /\ remaining_credits' = remaining_credits - 1
          BY <1>8, <4>2 DEF Grant, SpendCredit
        <5> QED BY <5>1, <1>2, <2>3, SumsInOrder DEF Ahead
      <4> QED BY <4>1, <4>2
    <3> HIDE DEF ahead, aheadNext
    <3>2. bypassed[r] + ahead <= max_possible_iterations - weights[r]
      BY <1>1, <2>3 DEF ahead
    <3>3. bypassed'[r] + aheadNext <= max_possible_iterations - weights[r]
      BY <3>1, <3>2, <2>2, <2>3, <1>1, <1>4, <1>5
    <3>4. bypassed'[r] <= max_possible_iterations - weights[r]
      BY <3>3, <1>6, <2>2, <2>3, <1>1, <1>4
    <3> QED BY <3>3, <3>4 DEF aheadNext
  <2>4. CASE r \notin requests \ {current_index}
    <3> HIDE DEF ahead, aheadNext
    <3>1. bypassed'[r] = 0
      BY <2>2, <2>4
    <3> QED BY <3>1, <1>6, <1>4 DEF aheadNext
  <2> QED BY <2>3, <2>4
<1>9. CASE Skip
  <2>1. /\ current_index \notin requests /\ requests' = requests /\ bypassed' = bypassed
        /\ requests # {}
        /\ current_index' = TurnAfter(current_index, 1)
        /\ remaining_credits' = weights[TurnAfter(current_index, 1)]
    BY <1>9 DEF Skip, Searching
  <2>2. CASE r \in requests
    <3>1. aheadNext = ahead - remaining_credits
      BY <2>1, <2>2, <1>2, TurnPassesOn
    <3> HIDE DEF ahead, aheadNext
    <3>2. bypassed[r] + ahead <= max_possible_iterations - weights[r]
      BY <1>1, <2>2 DEF ahead
    <3>3. weights[current_index] \in Nat
      BY <1>2, WeightsAssumption
    <3>4. bypassed'[r] + aheadNext <= max_possible_iterations - weights[r]
      BY <3>1, <3>2, <3>3, <2>1, <1>1, <1>2, <1>4, <1>5
    <3> QED BY <3>4, <2>1, <1>1 DEF aheadNext
  <2>3. CASE r \notin requests
    BY <2>1, <2>3, <1>1
  <2> QED BY <2>2, <2>3
<1>10. CASE UNCHANGED vars
  BY <1>10, <1>1 DEF vars
<1> QED BY <1>7, <1>8, <1>9, <1>10 DEF Next

\* A requester that keeps asking is refused at most as often as the weights of the
\* others add up to, whatever credits are left over from earlier calls and whoever
\* else asks or stops asking (weighted_round_robin.py:163-180).
THEOREM BypassIsBounded == Spec => []BoundedBypass
<1>1. Init => TypeOK /\ BypassInv
  BY InitEstablishes, BypassInvInit
<1>2. TypeOK /\ BypassInv /\ [Next]_vars => (TypeOK /\ BypassInv)'
  BY NextPreserves, BypassInvNext
<1>3. BypassInv => BoundedBypass
  BY DEF BypassInv, BoundedBypass
<1> QED BY <1>1, <1>2, <1>3, PTL DEF Spec

================================================================================
