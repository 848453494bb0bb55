----------------------------- MODULE RegistryProofs -----------------------------
(***************************************************************************)
(* The registry for every value of the constants: the array of active      *)
(* evaluators and the records agree through any order of removals and      *)
(* sweeps, every stake is backed by tokens, and an eligible evaluator has  *)
(* held the minimum for the whole warm-up.                                 *)
(***************************************************************************)
EXTENDS EvaluatorRegistry, SequenceTheorems, FiniteSums

Roster == [active: Seq(Stakers), evaluators: [Stakers -> Evaluator]]

CurrentRoster == [active |-> activeEvaluators, evaluators |-> evaluators]

\* Whoever sits in the array is active and knows its place, and whoever is active sits
\* in the place it knows.
Seated(roster) ==
    /\ \A i \in 1 .. Len(roster.active) :
          /\ roster.evaluators[roster.active[i]].active
          /\ roster.evaluators[roster.active[i]].index = i - 1
    /\ \A a \in Stakers : roster.evaluators[a].active =>
          /\ roster.evaluators[a].index < Len(roster.active)
          /\ roster.active[roster.evaluators[a].index + 1] = a

LEMMA RosterTyped ==
    ASSUME NEW r \in Roster
    PROVE  /\ r.active \in Seq(Stakers)
           /\ Len(r.active) \in Nat
           /\ r.evaluators \in [Stakers -> Evaluator]
BY DEF Roster

\* Every active evaluator holds the minimum.
Funded(roster, minimum) ==
    \A a \in Stakers : roster.evaluators[a].active =>
        roster.evaluators[a].stakedAmount >= minimum

\* The invariant says of the array and the records what is said here of any roster.
LEMMA RosterForm ==
    ASSUME TypeOK
    PROVE  RosterConsistent <=>
              Seated(CurrentRoster) /\ Funded(CurrentRoster, minEvaluatorStake)
<1>1. /\ activeEvaluators \in Seq(Stakers) /\ Len(activeEvaluators) \in Nat
      /\ DOMAIN activeEvaluators = 1 .. Len(activeEvaluators)
      /\ \A i \in 1 .. Len(activeEvaluators) : activeEvaluators[i] \in Stakers
    BY ElementOfSeq DEF TypeOK
<1>2. \A a \in Stakers : evaluators[a].index \in Nat
    BY DEF TypeOK, Evaluator
<1>3. ASSUME RosterConsistent, NEW i \in 1 .. Len(activeEvaluators)
      PROVE  /\ evaluators[activeEvaluators[i]].active
             /\ evaluators[activeEvaluators[i]].index = i - 1
    <2> DEFINE a == activeEvaluators[i]
               k == evaluators[a].index + 1
    <2>1. a \in Stakers /\ evaluators[a].active
        BY <1>1, <1>3 DEF RosterConsistent, Range
    <2>2. evaluators[a].index < Len(activeEvaluators) /\ activeEvaluators[k] = a
        BY <1>3, <2>1 DEF RosterConsistent
    <2>3. k \in 1 .. Len(activeEvaluators)
        BY <1>1, <1>2, <2>1, <2>2
    <2>4. k = i
        BY <1>1, <1>3, <2>2, <2>3 DEF RosterConsistent, IsInjective
    <2> QED BY <1>2, <2>1, <2>4
<1>4. ASSUME Seated(CurrentRoster)
      PROVE  /\ IsInjective(activeEvaluators)
             /\ \A a \in Stakers : evaluators[a].active <=> a \in Range(activeEvaluators)
    <2>1. \A i \in 1 .. Len(activeEvaluators) :
             /\ evaluators[activeEvaluators[i]].active
             /\ evaluators[activeEvaluators[i]].index = i - 1
        BY <1>4 DEF Seated, CurrentRoster
    <2>2. \A a \in Stakers : evaluators[a].active =>
             /\ evaluators[a].index < Len(activeEvaluators)
             /\ activeEvaluators[evaluators[a].index + 1] = a
        BY <1>4 DEF Seated, CurrentRoster
    <2>3. IsInjective(activeEvaluators)
        BY <1>1, <2>1 DEF IsInjective
    <2>4. ASSUME NEW a \in Stakers, evaluators[a].active
          PROVE  a \in Range(activeEvaluators)
        BY <1>1, <1>2, <2>2, <2>4 DEF Range
    <2>5. ASSUME NEW a \in Stakers, a \in Range(activeEvaluators)
          PROVE  evaluators[a].active
        BY <1>1, <2>1, <2>5 DEF Range
    <2> QED BY <2>3, <2>4, <2>5
<1>5. RosterConsistent => Seated(CurrentRoster)
    BY <1>3 DEF RosterConsistent, Seated, CurrentRoster
<1>6. RosterConsistent => Funded(CurrentRoster, minEvaluatorStake)
    BY DEF RosterConsistent, Funded, CurrentRoster
<1>7. Seated(CurrentRoster) /\ Funded(CurrentRoster, minEvaluatorStake) => RosterConsistent
    BY <1>4 DEF RosterConsistent, Seated, Funded, CurrentRoster
<1> QED BY <1>5, <1>6, <1>7

-----------------------------------------------------------------------------
(* Removal *)

\* All but the last element.
LEMMA FrontOfSeq ==
    ASSUME NEW S, NEW s \in Seq(S), Len(s) > 0
    PROVE  /\ Front(s) \in Seq(S)
           /\ Len(Front(s)) = Len(s) - 1
           /\ \A i \in 1 .. Len(s) - 1 : Front(s)[i] = s[i]
<1> DEFINE n == Len(s) - 1
           front == SubSeq(s, 1, n)
<1>1. n \in Nat
    OBVIOUS
<1>2. \A i \in 1 .. n : s[i] \in S
    BY ElementOfSeq
<1>3. Front(s) = front
    BY DEF Front
<1> HIDE DEF n
<1>4. /\ front \in Seq(S)
      /\ Len(front) = IF 1 <= n THEN n - 1 + 1 ELSE 0
      /\ \A i \in 1 .. n - 1 + 1 : front[i] = s[1 + i - 1]
    BY <1>1, <1>2, SubSeqProperties
<1> HIDE DEF front
<1>5. Len(front) = n /\ \A i \in 1 .. n : front[i] = s[i]
    BY <1>1, <1>4
<1> QED BY <1>3, <1>4, <1>5 DEF n

\* What `after` keeps of `before` once `a` is out of the array: the others and all stakes.
KeptWithout(a, before, after) ==
    /\ after \in Roster
    /\ Seated(after)
    /\ Len(after.active) = Len(before.active) - 1
    /\ ~ after.evaluators[a].active
    /\ \A b \in Stakers :
          after.evaluators[b].stakedAmount = before.evaluators[b].stakedAmount
    /\ \A b \in Stakers \ {a} :
          /\ after.evaluators[b].active = before.evaluators[b].active
          /\ after.evaluators[b].activeSince = before.evaluators[b].activeSince
    /\ \A i \in 1 .. before.evaluators[a].index : after.active[i] = before.active[i]

\* _removeFromActive: the last element takes the place that is given up.
LEMMA RemovalMoves ==
    ASSUME NEW r \in Roster, Seated(r), NEW index \in 0 .. Len(r.active) - 1
    PROVE  LET removed == RemoveFromActive(r, index)
               last == r.active[Len(r.active)]
           IN  /\ removed \in Roster
               /\ last \in Stakers
               /\ Len(removed.active) = Len(r.active) - 1
               /\ \A i \in 1 .. Len(r.active) - 1 :
                     removed.active[i] = IF i = index + 1 THEN last ELSE r.active[i]
               /\ \A b \in Stakers :
                     /\ removed.evaluators[b].stakedAmount = r.evaluators[b].stakedAmount
                     /\ removed.evaluators[b].activeSince = r.evaluators[b].activeSince
                     /\ removed.evaluators[b].active = r.evaluators[b].active
                     /\ removed.evaluators[b].index =
                           IF b = last THEN index ELSE r.evaluators[b].index
<1> DEFINE s == r.active
           e == r.evaluators
           last == s[Len(s)]
           moved == [s EXCEPT ![index + 1] = last]
<1>1. s \in Seq(Stakers) /\ e \in [Stakers -> Evaluator] /\ Len(s) \in Nat /\ Len(s) > 0
    BY DEF Roster
<1>2. last \in Stakers /\ e[last].index = Len(s) - 1
    BY <1>1, ElementOfSeq DEF Seated
<1>3. Last(s) = last
    BY DEF Last
<1>4. CASE index = Len(s) - 1
    <2>1. RemoveFromActive(r, index) = [active |-> Front(s), evaluators |-> e]
        BY <1>4 DEF RemoveFromActive
    <2> HIDE DEF s, e, last
    <2>2. /\ Front(s) \in Seq(Stakers)
          /\ Len(Front(s)) = Len(s) - 1
          /\ \A i \in 1 .. Len(s) - 1 : Front(s)[i] = s[i]
        BY <1>1, FrontOfSeq
    <2> QED BY <1>1, <1>2, <1>4, <2>1, <2>2 DEF Roster, s, e, last
<1>5. CASE index # Len(s) - 1
    <2> DEFINE f == [e EXCEPT ![last].index = index]
    <2>1. RemoveFromActive(r, index) = [active |-> Front(moved), evaluators |-> f]
        BY <1>3, <1>5, Zenon DEF RemoveFromActive
    <2>2. moved \in Seq(Stakers) /\ Len(moved) = Len(s)
          /\ \A i \in 1 .. Len(s) : moved[i] = IF i = index + 1 THEN last ELSE s[i]
        <3> HIDE DEF s, last
        <3>1. index + 1 \in 1 .. Len(s)
            BY <1>1 DEF s
        <3> QED BY <1>1, <1>2, <3>1, ExceptSeq
    <2>3. /\ f \in [Stakers -> Evaluator]
          /\ \A b \in Stakers :
                /\ f[b].stakedAmount = e[b].stakedAmount
                /\ f[b].activeSince = e[b].activeSince
                /\ f[b].active = e[b].active
                /\ f[b].index = IF b = last THEN index ELSE e[b].index
        <3>1. index \in Nat
            BY <1>1
        <3> HIDE DEF s, e, last
        <3> QED BY <1>1, <1>2, <3>1 DEF Evaluator
    <2> HIDE DEF moved, f
    <2>4. /\ Front(moved) \in Seq(Stakers)
          /\ Len(Front(moved)) = Len(s) - 1
          /\ \A i \in 1 .. Len(s) - 1 : Front(moved)[i] = moved[i]
        BY <1>1, <2>2, FrontOfSeq
    <2>5. \A i \in 1 .. Len(s) - 1 : i \in 1 .. Len(s)
        BY <1>1
    <2> HIDE DEF s, e, last
    <2> QED BY <1>1, <1>2, <2>1, <2>2, <2>3, <2>4, <2>5 DEF Roster, s, e, last
<1> QED BY <1>4, <1>5

\* An active evaluator leaves the array.
LEMMA DeactivateKeeps ==
    ASSUME NEW r \in Roster, Seated(r), NEW a \in Stakers, r.evaluators[a].active
    PROVE  KeptWithout(a, r, Deactivate(r, a, r.evaluators[a].index))
<1> DEFINE s == r.active
           e == r.evaluators
           index == e[a].index
           last == s[Len(s)]
           removed == RemoveFromActive(r, index)
           after == Deactivate(r, a, index)
<1>1. /\ s \in Seq(Stakers) /\ e \in [Stakers -> Evaluator] /\ Len(s) \in Nat
      /\ index \in 0 .. Len(s) - 1 /\ s[index + 1] = a
    <2>1. s \in Seq(Stakers) /\ e \in [Stakers -> Evaluator] /\ Len(s) \in Nat
        BY RosterTyped
    <2>2. index < Len(s) /\ s[index + 1] = a
        BY DEF Seated
    <2>3. index \in Nat
        BY <2>1 DEF Evaluator
    <2> QED BY <2>1, <2>2, <2>3
<1>2. /\ removed \in Roster
      /\ last \in Stakers
      /\ Len(removed.active) = Len(s) - 1
      /\ \A i \in 1 .. Len(s) - 1 :
            removed.active[i] = IF i = index + 1 THEN last ELSE s[i]
      /\ \A b \in Stakers :
            /\ removed.evaluators[b].stakedAmount = e[b].stakedAmount
            /\ removed.evaluators[b].activeSince = e[b].activeSince
            /\ removed.evaluators[b].active = e[b].active
            /\ removed.evaluators[b].index = IF b = last THEN index ELSE e[b].index
    <2>1. index \in 0 .. Len(r.active) - 1
        BY <1>1
    <2> HIDE DEF index
    <2> QED BY <2>1, RemovalMoves
<1> DEFINE f == [removed.evaluators EXCEPT ![a] =
                   [stakedAmount |-> removed.evaluators[a].stakedAmount, index |-> 0,
                    activeSince |-> 0, active |-> FALSE]]
<1>3. after = [active |-> removed.active, evaluators |-> f]
    BY Zenon DEF Deactivate
<1>4. after.active = removed.active
    BY <1>3
<1>5. after.evaluators = f
    BY <1>3
<1> HIDE DEF removed, after, f
<1>6. /\ after \in Roster
      /\ ~ after.evaluators[a].active
      /\ after.evaluators[a].stakedAmount = e[a].stakedAmount
      /\ \A b \in Stakers \ {a} : after.evaluators[b] = removed.evaluators[b]
    BY <1>2, <1>3, <1>4, <1>5 DEF Roster, Evaluator, f
<1>7. \A b \in Stakers \ {a} :
          /\ after.evaluators[b].stakedAmount = e[b].stakedAmount
          /\ after.evaluators[b].activeSince = e[b].activeSince
          /\ after.evaluators[b].active = e[b].active
          /\ after.evaluators[b].index = IF b = last THEN index ELSE e[b].index
    BY <1>2, <1>6
<1>8. \A i \in 1 .. Len(s) - 1 :
          after.active[i] = IF i = index + 1 THEN last ELSE s[i]
    BY <1>2, <1>4
<1>9. Len(after.active) = Len(s) - 1
    BY <1>2, <1>4
<1>10. \A i \in 1 .. Len(s) : s[i] \in Stakers /\ e[s[i]].active /\ e[s[i]].index = i - 1
    BY <1>1, ElementOfSeq DEF Seated
<1>11. \A b \in Stakers : e[b].active =>
          e[b].index \in Nat /\ e[b].index < Len(s) /\ s[e[b].index + 1] = b
    BY <1>1 DEF Seated, Evaluator
<1> HIDE DEF s, e, last, index
<1>12. ASSUME NEW i \in 1 .. Len(after.active)
       PROVE  /\ after.evaluators[after.active[i]].active
              /\ after.evaluators[after.active[i]].index = i - 1
    <2>1. CASE i = index + 1
        <3>1. after.active[i] = last /\ last = s[Len(s)]
            BY <1>8, <1>9, <2>1 DEF last
        <3>2. last # a
            BY <1>1, <1>9, <1>10, <2>1, <3>1 DEF index
        <3>3. Len(s) \in 1 .. Len(s) /\ index = i - 1
            BY <1>1, <1>9, <2>1
        <3>4. e[last].active /\ last \in Stakers \ {a}
            BY <1>10, <3>1, <3>2, <3>3
        <3>5. after.evaluators[last].active /\ after.evaluators[last].index = index
            BY <1>7, <3>4
        <3> QED BY <3>1, <3>3, <3>5
    <2>2. CASE i # index + 1
        <3>1. after.active[i] = s[i] /\ i \in 1 .. Len(s)
            BY <1>1, <1>8, <1>9, <2>2
        <3>2. s[i] # a /\ s[i] # last
            <4>1. e[s[i]].index = i - 1 /\ e[a].index = index
                BY <1>10, <3>1 DEF index
            <4>2. i \in 1 .. Len(s) - 1
                BY <1>9
            <4>3. s[i] # a
                BY <2>2, <4>1, <4>2, <1>1
            <4>4. Len(s) \in 1 .. Len(s) /\ e[last].index = Len(s) - 1
                BY <1>1, <1>10, <4>2 DEF last
            <4>5. s[i] # last
                BY <1>1, <4>1, <4>2, <4>4
            <4> QED BY <4>3, <4>5
        <3> QED BY <1>7, <1>10, <3>1, <3>2
    <2> QED BY <2>1, <2>2
<1>13. ASSUME NEW b \in Stakers, after.evaluators[b].active
       PROVE  /\ after.evaluators[b].index < Len(after.active)
              /\ after.active[after.evaluators[b].index + 1] = b
    <2>1. b # a /\ e[b].active
        BY <1>6, <1>7, <1>13
    <2>2. CASE b = last
        <3>1. index + 1 \in 1 .. Len(s) - 1
            <4>1. last = s[Len(s)] /\ s[index + 1] # last
                BY <1>1, <2>1, <2>2 DEF last
            <4> QED BY <1>1, <4>1
        <3> QED BY <1>1, <1>7, <1>8, <1>9, <2>1, <2>2, <3>1
    <2>3. CASE b # last
        <3>1. e[b].index + 1 \in 1 .. Len(s) - 1
            BY <1>1, <1>11, <2>1, <2>3 DEF last
        <3>2. e[b].index + 1 # index + 1
            BY <1>1, <1>11, <2>1
        <3>3. after.evaluators[b].index = e[b].index
            BY <1>7, <2>1, <2>3
        <3>4. after.active[e[b].index + 1] = s[e[b].index + 1]
            BY <1>8, <3>1, <3>2
        <3> QED BY <1>1, <1>9, <1>11, <2>1, <3>1, <3>3, <3>4
    <2> QED BY <2>2, <2>3
<1>14. Seated(after)
    BY <1>12, <1>13 DEF Seated
<1>15. \A i \in 1 .. index : after.active[i] = s[i]
    BY <1>1, <1>8
<1> QED BY <1>6, <1>7, <1>9, <1>14, <1>15 DEF KeptWithout, after, s, e, index


-----------------------------------------------------------------------------
(* The sweep of executeMinEvaluatorStake *)

FirstScan == [roster |-> CurrentRoster, i |-> 0]

\* g[k] is the scan after k rounds, for the first n of them.
IsScan(g, minimum, n) ==
    g = [round \in 0 .. n |->
            IF round = 0 THEN FirstScan ELSE SweepRound(g[round - 1], minimum)]

\* The sweep written out.
LEMMA SweepIsScan ==
    ASSUME NEW minimum
    PROVE  Sweep(minimum) =
              (CHOOSE g : IsScan(g, minimum, Len(activeEvaluators)))
                  [Len(activeEvaluators)].roster
BY DEF Sweep, IsScan, FirstScan, CurrentRoster

LEMMA ScanExists ==
    ASSUME NEW minimum, NEW n \in Nat
    PROVE  \E g : IsScan(g, minimum, n)
<1> DEFINE Bad == {k \in Nat : ~ \E g : IsScan(g, minimum, k)}
<1>1. SUFFICES ASSUME Bad # {} PROVE FALSE
    OBVIOUS
<1>2. PICK k \in Bad : \A l \in Nat : l < k => l \notin Bad
    <2> HIDE DEF Bad
    <2>1. Bad \in SUBSET Nat
        BY DEF Bad
    <2> QED BY <1>1, <2>1, SmallestNumber
<1>3. k \in Nat /\ ~ \E g : IsScan(g, minimum, k)
    OBVIOUS
<1>4. CASE k = 0
    <2> DEFINE g == [round \in 0 .. 0 |-> FirstScan]
    <2>1. g = [round \in 0 .. 0 |->
                  IF round = 0 THEN FirstScan ELSE SweepRound(g[round - 1], minimum)]
        OBVIOUS
    <2> HIDE DEF g
    <2>2. IsScan(g, minimum, k)
        BY <1>4, <2>1 DEF IsScan
    <2> QED BY <1>3, <2>2
<1>5. CASE k # 0
    <2>1. PICK h : IsScan(h, minimum, k - 1)
        BY <1>2, <1>3, <1>5
    <2> DEFINE g == [round \in 0 .. k |->
                       IF round = 0 THEN FirstScan ELSE SweepRound(h[round - 1], minimum)]
    <2>2. ASSUME NEW round \in 1 .. k
          PROVE  g[round - 1] = h[round - 1]
        <3>1. round - 1 \in 0 .. k - 1 /\ round - 1 \in 0 .. k
            BY <1>3
        <3>2. h[round - 1] = IF round - 1 = 0 THEN FirstScan
                             ELSE SweepRound(h[(round - 1) - 1], minimum)
            BY <2>1, <3>1, Zenon DEF IsScan
        <3> QED BY <3>1, <3>2
    <2>3. g = [round \in 0 .. k |-> g[round]]
        OBVIOUS
    <2>4. ASSUME NEW round \in 0 .. k
          PROVE  g[round] = IF round = 0 THEN FirstScan
                            ELSE SweepRound(g[round - 1], minimum)
        <3>1. g[round] = IF round = 0 THEN FirstScan ELSE SweepRound(h[round - 1], minimum)
            OBVIOUS
        <3>2. round # 0 => round \in 1 .. k
            BY <1>3
        <3> HIDE DEF g
        <3> QED BY <2>2, <3>1, <3>2
    <2> HIDE DEF g
    <2>5. IsScan(g, minimum, k)
        BY <2>3, <2>4, Zenon DEF IsScan
    <2> QED BY <1>3, <2>5
<1> QED BY <1>4, <1>5

\* After n rounds: as many elements remain to be looked at as rounds, those passed hold
\* the new minimum, nobody has lost stake or come in, and whoever holds the new minimum
\* is still seated.
ScanInv(scan, minimum, n) ==
    /\ scan.roster \in Roster
    /\ Seated(scan.roster)
    /\ scan.i \in Nat
    /\ Len(scan.roster.active) - scan.i = Len(activeEvaluators) - n
    /\ Len(scan.roster.active) <= Len(activeEvaluators)
    /\ \A k \in 1 .. scan.i :
          scan.roster.evaluators[scan.roster.active[k]].stakedAmount >= minimum
    /\ \A a \in Stakers :
          /\ scan.roster.evaluators[a].stakedAmount = evaluators[a].stakedAmount
          /\ scan.roster.evaluators[a].active =>
                /\ evaluators[a].active
                /\ scan.roster.evaluators[a].activeSince = evaluators[a].activeSince
          /\ evaluators[a].active /\ evaluators[a].stakedAmount >= minimum =>
                scan.roster.evaluators[a].active

LEMMA RoundKeeps ==
    ASSUME TypeOK, NEW minimum \in Nat, NEW n \in Nat, n < Len(activeEvaluators),
           NEW scan, ScanInv(scan, minimum, n)
    PROVE  ScanInv(SweepRound(scan, minimum), minimum, n + 1)
<1> DEFINE r == scan.roster
           i == scan.i
           a == r.active[i + 1]
           next == SweepRound(scan, minimum)
<1>1. /\ r \in Roster /\ Seated(r) /\ i \in Nat
      /\ Len(r.active) - i = Len(activeEvaluators) - n
      /\ Len(r.active) <= Len(activeEvaluators)
      /\ \A k \in 1 .. i : r.evaluators[r.active[k]].stakedAmount >= minimum
      /\ \A b \in Stakers :
            /\ r.evaluators[b].stakedAmount = evaluators[b].stakedAmount
            /\ r.evaluators[b].active =>
                  /\ evaluators[b].active
                  /\ r.evaluators[b].activeSince = evaluators[b].activeSince
            /\ evaluators[b].active /\ evaluators[b].stakedAmount >= minimum =>
                  r.evaluators[b].active
    BY DEF ScanInv
<1>2. /\ r.active \in Seq(Stakers) /\ Len(r.active) \in Nat
      /\ r.evaluators \in [Stakers -> Evaluator]
    BY <1>1, RosterTyped
<1> Len(activeEvaluators) \in Nat
    BY DEF TypeOK
<1> HIDE DEF r, i
<1>3. i + 1 \in 1 .. Len(r.active)
    BY <1>1, <1>2
<1>4. a \in Stakers
    BY <1>2, <1>3, ElementOfSeq
<1>5. r.evaluators[a].active /\ r.evaluators[a].index = i
    BY <1>1, <1>3 DEF Seated
<1>6. r.evaluators[a].stakedAmount \in Nat
    BY <1>2, <1>4 DEF Evaluator
<1> HIDE DEF a
<1>7. CASE r.evaluators[a].stakedAmount < minimum
    <2> DEFINE after == Deactivate(r, a, i)
    <2>1. KeptWithout(a, r, after)
        BY <1>1, <1>4, <1>5, DeactivateKeeps
    <2>2. next = [roster |-> after, i |-> i]
        BY <1>7 DEF SweepRound, r, i, a
    <2>3. next.roster = after /\ next.i = i
        BY <2>2
    <2> HIDE DEF next, after
    <2>4. /\ after \in Roster /\ Seated(after)
          /\ Len(after.active) = Len(r.active) - 1
          /\ ~ after.evaluators[a].active
          /\ \A b \in Stakers :
                after.evaluators[b].stakedAmount = r.evaluators[b].stakedAmount
          /\ \A b \in Stakers \ {a} :
                /\ after.evaluators[b].active = r.evaluators[b].active
                /\ after.evaluators[b].activeSince = r.evaluators[b].activeSince
          /\ \A k \in 1 .. i : after.active[k] = r.active[k]
        BY <1>5, <2>1 DEF KeptWithout
    <2>5. Len(after.active) - i = Len(activeEvaluators) - (n + 1)
          /\ Len(after.active) <= Len(activeEvaluators)
        BY <1>1, <1>2, <2>4
    <2>6. ASSUME NEW k \in 1 .. i
          PROVE  after.evaluators[after.active[k]].stakedAmount >= minimum
        <3>1. r.active[k] \in Stakers
            BY <1>1, <1>2, <1>3, ElementOfSeq
        <3>2. after.active[k] = r.active[k]
            BY <2>4
        <3>3. r.evaluators[r.active[k]].stakedAmount >= minimum
            BY <1>1
        <3> QED BY <2>4, <3>1, <3>2, <3>3
    <2>7. ASSUME NEW b \in Stakers
          PROVE  /\ after.evaluators[b].stakedAmount = evaluators[b].stakedAmount
                 /\ after.evaluators[b].active =>
                       /\ evaluators[b].active
                       /\ after.evaluators[b].activeSince = evaluators[b].activeSince
                 /\ evaluators[b].active /\ evaluators[b].stakedAmount >= minimum =>
                       after.evaluators[b].active
        <3>1. CASE b = a
            <4>1. ~ (r.evaluators[a].stakedAmount >= minimum)
                BY <1>6, <1>7
            <4>2. ~ (evaluators[b].stakedAmount >= minimum)
                BY <1>1, <3>1, <4>1
            <4> QED BY <1>1, <2>4, <3>1, <4>2
        <3>2. CASE b # a
            BY <1>1, <2>4, <3>2
        <3> QED BY <3>1, <3>2
    <2> QED BY <1>1, <2>3, <2>4, <2>5, <2>6, <2>7 DEF ScanInv, next
<1>8. CASE ~ (r.evaluators[a].stakedAmount < minimum)
    <2>1. next = [roster |-> r, i |-> i + 1]
        BY <1>8 DEF SweepRound, r, i, a
    <2>2. next.roster = r /\ next.i = i + 1
        BY <2>1
    <2> HIDE DEF next
    <2>3. ASSUME NEW k \in 1 .. i + 1
          PROVE  r.evaluators[r.active[k]].stakedAmount >= minimum
        <3>1. CASE k = i + 1
            BY <1>6, <1>8, <3>1 DEF a
        <3>2. CASE k # i + 1
            BY <1>1, <3>2
        <3> QED BY <3>1, <3>2
    <2>4. Len(r.active) - (i + 1) = Len(activeEvaluators) - (n + 1)
        BY <1>1, <1>2
    <2> QED BY <1>1, <2>2, <2>3, <2>4 DEF ScanInv, next
<1> QED BY <1>7, <1>8

\* A sweep leaves a consistent roster in which everybody holds the new minimum, takes the
\* seats of those below it only, and touches neither stakes nor seniority
\* (executeMinEvaluatorStake).
LEMMA SweepKeeps ==
    ASSUME TypeOK, Seated(CurrentRoster), NEW minimum \in Nat
    PROVE  /\ Sweep(minimum) \in Roster
           /\ Seated(Sweep(minimum))
           /\ Funded(Sweep(minimum), minimum)
           /\ Len(Sweep(minimum).active) <= Len(activeEvaluators)
           /\ \A a \in Stakers :
                 /\ Sweep(minimum).evaluators[a].stakedAmount = evaluators[a].stakedAmount
                 /\ Sweep(minimum).evaluators[a].active =>
                       /\ evaluators[a].active
                       /\ Sweep(minimum).evaluators[a].activeSince
                             = evaluators[a].activeSince
                 /\ evaluators[a].active /\ evaluators[a].stakedAmount >= minimum =>
                       Sweep(minimum).evaluators[a].active
<1> DEFINE len == Len(activeEvaluators)
           g == CHOOSE g : IsScan(g, minimum, len)
<1>1. len \in Nat
    BY DEF TypeOK
<1>2. IsScan(g, minimum, len)
    <2> HIDE DEF len
    <2> QED BY <1>1, ScanExists
<1>3. Sweep(minimum) = g[len].roster
    BY SweepIsScan
<1> HIDE DEF g
<1>4. g[0] = FirstScan
    BY <1>1, <1>2 DEF IsScan
<1>5. ASSUME NEW n \in 1 .. len
      PROVE  g[n] = SweepRound(g[n - 1], minimum)
    BY <1>1, <1>2, <1>5 DEF IsScan
<1>6. ScanInv(FirstScan, minimum, 0)
    BY <1>1 DEF TypeOK, ScanInv, FirstScan, CurrentRoster, Roster
<1> DEFINE Bad == {n \in 0 .. len : ~ ScanInv(g[n], minimum, n)}
<1>7. Bad = {}
    <2> SUFFICES ASSUME Bad # {} PROVE FALSE
        OBVIOUS
    <2>1. PICK n \in Bad : \A k \in Nat : k < n => k \notin Bad
        <3> HIDE DEF Bad
        <3>1. Bad \in SUBSET Nat
            BY <1>1 DEF Bad
        <3> QED BY <3>1, SmallestNumber
    <2>2. n \in 0 .. len /\ ~ ScanInv(g[n], minimum, n)
        OBVIOUS
    <2>3. n # 0
        BY <1>4, <1>6, <2>2
    <2>4. n - 1 \in 0 .. len /\ n - 1 \in Nat /\ n - 1 < n /\ n - 1 < len /\ n \in 1 .. len
        BY <1>1, <2>2, <2>3
    <2>5. ScanInv(g[n - 1], minimum, n - 1)
        BY <2>1, <2>4
    <2> HIDE DEF Bad
    <2>6. ScanInv(SweepRound(g[n - 1], minimum), minimum, (n - 1) + 1)
        BY <2>4, <2>5, RoundKeeps
    <2>7. (n - 1) + 1 = n
        BY <2>4
    <2> QED BY <1>5, <2>2, <2>4, <2>6, <2>7
<1>8. ScanInv(g[len], minimum, len)
    BY <1>1, <1>7
<1> DEFINE scan == g[len]
           r == scan.roster
<1>9. /\ r \in Roster /\ Seated(r) /\ scan.i \in Nat
      /\ Len(r.active) - scan.i = 0
      /\ Len(r.active) <= len
      /\ \A k \in 1 .. scan.i : r.evaluators[r.active[k]].stakedAmount >= minimum
      /\ \A a \in Stakers :
            /\ r.evaluators[a].stakedAmount = evaluators[a].stakedAmount
            /\ r.evaluators[a].active =>
                  /\ evaluators[a].active
                  /\ r.evaluators[a].activeSince = evaluators[a].activeSince
            /\ evaluators[a].active /\ evaluators[a].stakedAmount >= minimum =>
                  r.evaluators[a].active
    BY <1>1, <1>8 DEF ScanInv
<1> HIDE DEF scan, r
<1>10. ASSUME NEW a \in Stakers, r.evaluators[a].active
       PROVE  r.evaluators[a].stakedAmount >= minimum
    <2> DEFINE k == r.evaluators[a].index + 1
    <2>1. r.evaluators[a].index \in Nat /\ Len(r.active) \in Nat
        BY <1>9, RosterTyped DEF Evaluator
    <2>2. r.evaluators[a].index < Len(r.active) /\ r.active[k] = a
        BY <1>9, <1>10 DEF Seated
    <2>3. k \in 1 .. scan.i
        <3>1. scan.i \in Nat /\ Len(r.active) - scan.i = 0
            BY <1>9
        <3> QED BY <2>1, <2>2, <3>1
    <2> QED BY <1>9, <2>2, <2>3
<1> QED BY <1>3, <1>9, <1>10 DEF Funded, scan, r

-----------------------------------------------------------------------------
(* Stakes that go down *)

\* unstake and slash: the roster stays consistent, only the stake of `a` changes, and
\* nobody comes in or loses seniority.
LEMMA LossKeeps ==
    ASSUME TypeOK, RosterConsistent, NEW a \in Stakers, NEW remaining \in Nat
    PROVE  LET after == AfterLoss(a, remaining)
           IN  /\ after \in Roster
               /\ Seated(after)
               /\ Funded(after, minEvaluatorStake)
               /\ Len(after.active) <= Len(activeEvaluators)
               /\ \A b \in Stakers :
                     /\ after.evaluators[b].stakedAmount =
                           IF b = a THEN remaining ELSE evaluators[b].stakedAmount
                     /\ after.evaluators[b].active =>
                           /\ evaluators[b].active
                           /\ after.evaluators[b].activeSince = evaluators[b].activeSince
                     /\ evaluators[b].active =>
                           \/ after.evaluators[b].active
                           \/ b = a /\ remaining < minEvaluatorStake
<1> DEFINE lowered == [evaluators EXCEPT ![a].stakedAmount = remaining]
           reduced == [active |-> activeEvaluators, evaluators |-> lowered]
           after == AfterLoss(a, remaining)
<1>1. /\ activeEvaluators \in Seq(Stakers) /\ Len(activeEvaluators) \in Nat
      /\ evaluators \in [Stakers -> Evaluator] /\ minEvaluatorStake \in Nat
    BY DEF TypeOK
<1>2. /\ lowered \in [Stakers -> Evaluator]
      /\ \A b \in Stakers :
            /\ lowered[b].stakedAmount =
                  IF b = a THEN remaining ELSE evaluators[b].stakedAmount
            /\ lowered[b].active = evaluators[b].active
            /\ lowered[b].index = evaluators[b].index
            /\ lowered[b].activeSince = evaluators[b].activeSince
    BY <1>1 DEF Evaluator
<1>3. Seated(CurrentRoster) /\ Funded(CurrentRoster, minEvaluatorStake)
    BY RosterForm
<1> HIDE DEF lowered
<1>4. reduced \in Roster /\ reduced.active = activeEvaluators /\ reduced.evaluators = lowered
    BY <1>1, <1>2 DEF Roster
<1>5. \A i \in 1 .. Len(activeEvaluators) : activeEvaluators[i] \in Stakers
    BY <1>1, ElementOfSeq
<1>6. Seated(reduced)
    BY <1>2, <1>3, <1>5 DEF Seated, CurrentRoster
<1> HIDE DEF reduced
<1>7. CASE evaluators[a].active /\ remaining < minEvaluatorStake
    <2>1. after = Deactivate(reduced, a, reduced.evaluators[a].index)
        BY <1>2, <1>4, <1>7 DEF AfterLoss, reduced, lowered
    <2>2. reduced.evaluators[a].active
        BY <1>2, <1>4, <1>7
    <2> HIDE DEF after
    <2>3. KeptWithout(a, reduced, after)
        BY <1>4, <1>6, <2>1, <2>2, DeactivateKeeps
    <2>4. after \in Roster /\ Seated(after) /\ Len(after.active) = Len(activeEvaluators) - 1
        BY <1>4, <2>3 DEF KeptWithout
    <2>5. ASSUME NEW b \in Stakers
          PROVE  /\ after.evaluators[b].stakedAmount =
                       IF b = a THEN remaining ELSE evaluators[b].stakedAmount
                 /\ after.evaluators[b].active =>
                       /\ b # a
                       /\ evaluators[b].active
                       /\ after.evaluators[b].activeSince = evaluators[b].activeSince
                 /\ evaluators[b].active => after.evaluators[b].active \/ b = a
        BY <1>2, <1>4, <2>3 DEF KeptWithout
    <2>6. Funded(after, minEvaluatorStake)
        BY <1>3, <2>5 DEF Funded, CurrentRoster
    <2> QED BY <1>1, <1>7, <2>4, <2>5, <2>6 DEF after
<1>8. CASE ~ (evaluators[a].active /\ remaining < minEvaluatorStake)
    <2>1. after = reduced
        BY <1>8 DEF AfterLoss, reduced, lowered
    <2>2. Funded(reduced, minEvaluatorStake)
        BY <1>1, <1>2, <1>3, <1>4, <1>8 DEF Funded, CurrentRoster
    <2> HIDE DEF after
    <2> QED BY <1>1, <1>2, <1>4, <1>6, <2>1, <2>2 DEF after
<1> QED BY <1>7, <1>8

-----------------------------------------------------------------------------
(* The steps *)

\* The steps that move stake or the minimum; the others leave both alone.
LEMMA StakeCases ==
    ASSUME [Next]_vars
    PROVE  \/ \E a \in Stakers, amount \in Amounts : Stake(a, amount)
           \/ \E a \in Stakers, amount \in Amounts : Unstake(a, amount)
           \/ \E caller \in JobManagers, a \in Stakers, amount \in Amounts :
                 Slash(caller, a, amount)
           \/ \E minimum \in Minimums : ExecuteMinEvaluatorStake(minimum)
           \/ UNCHANGED <<stakeVars, minEvaluatorStake>>
<1>1. CASE Tick
    BY <1>1 DEF Tick, ruleVars
<1>2. CASE StakerCall
    <2>1. ASSUME NEW a \in Stakers, SetMetadata(a)
          PROVE  UNCHANGED <<stakeVars, minEvaluatorStake>>
        BY <2>1 DEF SetMetadata, ruleVars
    <2> QED BY <1>2, <2>1, Zenon DEF StakerCall
<1>3. CASE JobManagerCall
    BY <1>3, Zenon DEF JobManagerCall
<1>4. CASE OwnerCall
    <2>1. CASE \E paused \in BOOLEAN : SetSlashPaused(paused)
        BY <2>1 DEF SetSlashPaused
    <2>2. CASE \E period \in WarmupPeriods : SetWarmupPeriod(period)
        BY <2>2 DEF SetWarmupPeriod
    <2>3. CASE \E manager \in JobManagers \cup {NoAddress} :
                  ProposeJobManager(manager) \/ ExecuteJobManager(manager)
        BY <2>3 DEF ProposeJobManager, Propose, ExecuteJobManager, Execute, stakeVars
    <2>4. CASE \E minimum \in Minimums : ProposeMinEvaluatorStake(minimum)
        BY <2>4 DEF ProposeMinEvaluatorStake, Propose
    <2>5. CASE \E key \in DOMAIN pendingChanges : CancelProposal(key)
        BY <2>5 DEF CancelProposal
    <2> QED BY <1>4, <2>1, <2>2, <2>3, <2>4, <2>5, Zenon DEF OwnerCall
<1>5. CASE UNCHANGED vars
    BY <1>5 DEF vars, registryVars, ruleVars
<1> QED BY <1>1, <1>2, <1>3, <1>4, <1>5 DEF Next

\* What governance may execute is what it proposed.
LEMMA MinimumExecuted ==
    ASSUME TypeOK, NEW minimum, ExecuteMinEvaluatorStake(minimum)
    PROVE  minimum \in Nat \ {0}
BY DEF TypeOK, ExecuteMinEvaluatorStake, Execute, Change, NoChange

\* stake: only the stake of `a` changes, and the seat it may take is the next free one.
LEMMA StakeSeats ==
    ASSUME TypeOK, RosterConsistent, NEW a \in Stakers, NEW amount \in Amounts,
           Stake(a, amount)
    PROVE  /\ CurrentRoster' \in Roster
           /\ Seated(CurrentRoster')
           /\ Funded(CurrentRoster', minEvaluatorStake)
           /\ Len(activeEvaluators') <= MAX_ACTIVE_EVALUATORS
           /\ \A b \in Stakers :
                 /\ evaluators'[b].stakedAmount =
                       IF b = a THEN evaluators[a].stakedAmount + amount
                       ELSE evaluators[b].stakedAmount
                 /\ evaluators'[b].active =>
                       evaluators'[b].activeSince =
                          IF evaluators[b].active THEN evaluators[b].activeSince ELSE now
<1> DEFINE total == evaluators[a].stakedAmount + amount
           activates == ~ evaluators[a].active /\ total >= minEvaluatorStake
<1>1. /\ activeEvaluators \in Seq(Stakers) /\ Len(activeEvaluators) \in Nat
      /\ evaluators \in [Stakers -> Evaluator] /\ minEvaluatorStake \in Nat
      /\ now \in Nat /\ MAX_ACTIVE_EVALUATORS \in Nat /\ amount \in Nat /\ total \in Nat
      /\ Len(activeEvaluators) <= MAX_ACTIVE_EVALUATORS
    <2>1. evaluators \in [Stakers -> Evaluator] /\ activeEvaluators \in Seq(Stakers)
        BY DEF TypeOK
    <2>2. evaluators[a].stakedAmount \in Nat /\ amount \in Nat
        BY <2>1, RegistryAssumption DEF Evaluator
    <2>3. Len(activeEvaluators) \in Nat
        BY <2>1
    <2> QED BY <2>1, <2>2, <2>3, RegistryAssumption DEF TypeOK
<1>2. Seated(CurrentRoster) /\ Funded(CurrentRoster, minEvaluatorStake)
    BY RosterForm
<1>3. /\ \A i \in 1 .. Len(activeEvaluators) :
            /\ activeEvaluators[i] \in Stakers
            /\ evaluators[activeEvaluators[i]].active
            /\ evaluators[activeEvaluators[i]].index = i - 1
      /\ \A b \in Stakers : evaluators[b].active =>
            /\ evaluators[b].index \in Nat
            /\ evaluators[b].index < Len(activeEvaluators)
            /\ activeEvaluators[evaluators[b].index + 1] = b
            /\ evaluators[b].stakedAmount >= minEvaluatorStake
    BY <1>1, <1>2, ElementOfSeq DEF Seated, Funded, CurrentRoster, Evaluator
<1>4. CASE activates
    <2>1. /\ activeEvaluators' = Append(activeEvaluators, a)
          /\ evaluators' = [evaluators EXCEPT ![a] =
                [stakedAmount |-> total, index |-> Len(activeEvaluators),
                 activeSince |-> now, active |-> TRUE]]
          /\ Len(activeEvaluators) < MAX_ACTIVE_EVALUATORS
        BY <1>4 DEF Stake
    <2>2. /\ activeEvaluators' \in Seq(Stakers)
          /\ Len(activeEvaluators') = Len(activeEvaluators) + 1
          /\ \A i \in 1 .. Len(activeEvaluators) : activeEvaluators'[i] = activeEvaluators[i]
          /\ activeEvaluators'[Len(activeEvaluators) + 1] = a
        BY <1>1, <2>1, AppendProperties
    <2>3. /\ evaluators' \in [Stakers -> Evaluator]
          /\ evaluators'[a] = [stakedAmount |-> total, index |-> Len(activeEvaluators),
                               activeSince |-> now, active |-> TRUE]
          /\ \A b \in Stakers \ {a} : evaluators'[b] = evaluators[b]
        BY <1>1, <2>1 DEF Evaluator
    <2>4. ASSUME NEW i \in 1 .. Len(activeEvaluators')
          PROVE  /\ evaluators'[activeEvaluators'[i]].active
                 /\ evaluators'[activeEvaluators'[i]].index = i - 1
        <3>1. CASE i = Len(activeEvaluators) + 1
            BY <1>1, <2>2, <2>3, <3>1
        <3>2. CASE i # Len(activeEvaluators) + 1
            <4>1. i \in 1 .. Len(activeEvaluators)
                BY <1>1, <2>2, <3>2
            <4>2. activeEvaluators'[i] = activeEvaluators[i] /\ activeEvaluators[i] # a
                BY <1>3, <1>4, <2>2, <4>1
            <4> QED BY <1>3, <2>3, <4>1, <4>2
        <3> QED BY <3>1, <3>2
    <2>5. ASSUME NEW b \in Stakers, evaluators'[b].active
          PROVE  /\ evaluators'[b].index < Len(activeEvaluators')
                 /\ activeEvaluators'[evaluators'[b].index + 1] = b
                 /\ evaluators'[b].stakedAmount >= minEvaluatorStake
        <3>1. CASE b = a
            BY <1>1, <1>4, <2>2, <2>3, <3>1
        <3>2. CASE b # a
            <4>1. evaluators'[b] = evaluators[b]
                BY <2>3, <3>2
            <4>2. evaluators[b].index + 1 \in 1 .. Len(activeEvaluators)
                BY <1>1, <1>3, <2>5, <4>1
            <4>3. activeEvaluators'[evaluators[b].index + 1] = b
                BY <1>3, <2>2, <2>5, <4>1, <4>2
            <4> QED BY <1>1, <1>3, <2>2, <2>5, <4>1, <4>3
        <3> QED BY <3>1, <3>2
    <2>6. ASSUME NEW b \in Stakers
          PROVE  /\ evaluators'[b].stakedAmount =
                       IF b = a THEN total ELSE evaluators[b].stakedAmount
                 /\ evaluators'[b].active =>
                       evaluators'[b].activeSince =
                          IF evaluators[b].active THEN evaluators[b].activeSince ELSE now
        <3>1. CASE b = a
            BY <1>4, <2>3, <3>1
        <3>2. CASE b # a
            BY <2>3, <3>2
        <3> QED BY <3>1, <3>2
    <2>7. CurrentRoster' \in Roster
        BY <2>2, <2>3 DEF Roster, CurrentRoster
    <2>8. Seated(CurrentRoster')
        BY <2>4, <2>5 DEF Seated, CurrentRoster
    <2>9. Funded(CurrentRoster', minEvaluatorStake)
        BY <2>5 DEF Funded, CurrentRoster
    <2> QED BY <1>1, <2>1, <2>2, <2>6, <2>7, <2>8, <2>9
<1>5. CASE ~ activates
    <2>1. /\ activeEvaluators' = activeEvaluators
          /\ evaluators' = [evaluators EXCEPT ![a].stakedAmount = total]
        BY <1>5 DEF Stake
    <2>2. /\ evaluators' \in [Stakers -> Evaluator]
          /\ \A b \in Stakers :
                /\ evaluators'[b].stakedAmount =
                      IF b = a THEN total ELSE evaluators[b].stakedAmount
                /\ evaluators'[b].active = evaluators[b].active
                /\ evaluators'[b].index = evaluators[b].index
                /\ evaluators'[b].activeSince = evaluators[b].activeSince
        BY <1>1, <2>1 DEF Evaluator
    <2>3. evaluators[a].stakedAmount \in Nat
        BY <1>1 DEF Evaluator
    <2>4. Seated(CurrentRoster')
        BY <1>3, <2>1, <2>2 DEF Seated, CurrentRoster
    <2>5. Funded(CurrentRoster', minEvaluatorStake)
        BY <1>1, <1>3, <2>2, <2>3 DEF Funded, CurrentRoster
    <2> QED BY <1>1, <2>1, <2>2, <2>4, <2>5 DEF Roster, CurrentRoster
<1> QED BY <1>4, <1>5

\* What the array and the records are after any step: consistent, with everybody in them
\* at the minimum then in force, and with the seniority everybody had, or none.
SeatsKept ==
    /\ CurrentRoster' \in Roster
    /\ Seated(CurrentRoster')
    /\ Funded(CurrentRoster', minEvaluatorStake')
    /\ Len(activeEvaluators') <= MAX_ACTIVE_EVALUATORS
    /\ minEvaluatorStake' \in Nat \ {0}
    /\ \A a \in Stakers : evaluators'[a].active =>
          evaluators'[a].activeSince =
             IF evaluators[a].active THEN evaluators[a].activeSince ELSE now

\* unstake and slash.
LEMMA LossSeats ==
    ASSUME TypeOK, RosterConsistent, NEW a \in Stakers, NEW amount \in Amounts,
           amount <= evaluators[a].stakedAmount,
           SetRoster(AfterLoss(a, evaluators[a].stakedAmount - amount)),
           UNCHANGED minEvaluatorStake
    PROVE  /\ SeatsKept
           /\ \A b \in Stakers :
                 evaluators'[b].stakedAmount =
                    IF b = a THEN evaluators[a].stakedAmount - amount
                    ELSE evaluators[b].stakedAmount
           /\ \A b \in Stakers : evaluators[b].active =>
                 \/ evaluators'[b].active
                 \/ evaluators'[b].stakedAmount < minEvaluatorStake
<1> DEFINE remaining == evaluators[a].stakedAmount - amount
           after == AfterLoss(a, remaining)
<1>1. /\ remaining \in Nat
      /\ Len(activeEvaluators) \in Nat /\ Len(activeEvaluators) <= MAX_ACTIVE_EVALUATORS
      /\ minEvaluatorStake \in Nat \ {0} /\ MAX_ACTIVE_EVALUATORS \in Nat
    <2>1. evaluators[a].stakedAmount \in Nat /\ amount \in Nat
        BY RegistryAssumption DEF TypeOK, Evaluator
    <2>2. remaining \in Nat
        BY <2>1
    <2> QED BY <2>2, RegistryAssumption DEF TypeOK
<1>2. activeEvaluators' = after.active /\ evaluators' = after.evaluators
    BY DEF SetRoster
<1> HIDE DEF remaining
<1>3. /\ after \in Roster
      /\ Seated(after)
      /\ Funded(after, minEvaluatorStake)
      /\ Len(after.active) <= Len(activeEvaluators)
      /\ \A b \in Stakers :
            /\ after.evaluators[b].stakedAmount =
                  IF b = a THEN remaining ELSE evaluators[b].stakedAmount
            /\ after.evaluators[b].active =>
                  /\ evaluators[b].active
                  /\ after.evaluators[b].activeSince = evaluators[b].activeSince
            /\ evaluators[b].active =>
                  \/ after.evaluators[b].active
                  \/ b = a /\ remaining < minEvaluatorStake
    BY <1>1, LossKeeps, Zenon
<1> HIDE DEF after
<1>4. Len(after.active) \in Nat
    BY <1>3, RosterTyped
<1>5. CurrentRoster' \in Roster
    BY <1>2, <1>3 DEF Roster, CurrentRoster
<1>6. Seated(CurrentRoster') /\ Funded(CurrentRoster', minEvaluatorStake')
    BY <1>2, <1>3 DEF Seated, Funded, CurrentRoster
<1> QED BY <1>1, <1>2, <1>3, <1>4, <1>5, <1>6 DEF SeatsKept, remaining

\* executeMinEvaluatorStake.
LEMMA SweepSeats ==
    ASSUME TypeOK, RosterConsistent, NEW minimum \in Minimums,
           ExecuteMinEvaluatorStake(minimum)
    PROVE  /\ SeatsKept
           /\ \A a \in Stakers :
                 /\ evaluators'[a].stakedAmount = evaluators[a].stakedAmount
                 /\ evaluators[a].active /\ evaluators[a].stakedAmount >= minEvaluatorStake' =>
                       evaluators'[a].active
<1> DEFINE after == Sweep(minimum)
<1>1. minimum \in Nat \ {0} /\ minEvaluatorStake' = minimum
    BY MinimumExecuted DEF ExecuteMinEvaluatorStake
<1>2. activeEvaluators' = after.active /\ evaluators' = after.evaluators
    BY DEF ExecuteMinEvaluatorStake, SetRoster
<1>3. Seated(CurrentRoster)
    BY RosterForm
<1>4. /\ after \in Roster
      /\ Seated(after)
      /\ Funded(after, minimum)
      /\ Len(after.active) <= Len(activeEvaluators)
      /\ \A a \in Stakers :
            /\ after.evaluators[a].stakedAmount = evaluators[a].stakedAmount
            /\ after.evaluators[a].active =>
                  /\ evaluators[a].active
                  /\ after.evaluators[a].activeSince = evaluators[a].activeSince
            /\ evaluators[a].active /\ evaluators[a].stakedAmount >= minimum =>
                  after.evaluators[a].active
    BY <1>1, <1>3, SweepKeeps
<1> HIDE DEF after
<1>5. /\ Len(after.active) \in Nat /\ Len(activeEvaluators) \in Nat
      /\ Len(activeEvaluators) <= MAX_ACTIVE_EVALUATORS /\ MAX_ACTIVE_EVALUATORS \in Nat
    BY <1>4, RosterTyped, RegistryAssumption DEF TypeOK
<1>6. CurrentRoster' \in Roster
    BY <1>2, <1>4 DEF Roster, CurrentRoster
<1>7. Seated(CurrentRoster') /\ Funded(CurrentRoster', minEvaluatorStake')
    BY <1>1, <1>2, <1>4 DEF Seated, Funded, CurrentRoster
<1> QED BY <1>1, <1>2, <1>4, <1>5, <1>6, <1>7 DEF SeatsKept

LEMMA StepSeats ==
    ASSUME TypeOK, RosterConsistent, [Next]_vars
    PROVE  SeatsKept
<1>1. minEvaluatorStake \in Nat \ {0}
    BY DEF TypeOK
<1>2. CASE \E a \in Stakers, amount \in Amounts : Stake(a, amount)
    <2>1. PICK a \in Stakers, amount \in Amounts : Stake(a, amount)
        BY <1>2
    <2>2. UNCHANGED minEvaluatorStake
        BY <2>1 DEF Stake, ruleVars
    <2> QED BY <1>1, <2>1, <2>2, StakeSeats DEF SeatsKept
<1>3. CASE \E a \in Stakers, amount \in Amounts : Unstake(a, amount)
    <2>1. PICK a \in Stakers, amount \in Amounts : Unstake(a, amount)
        BY <1>3
    <2>2. /\ amount <= evaluators[a].stakedAmount
          /\ SetRoster(AfterLoss(a, evaluators[a].stakedAmount - amount))
          /\ UNCHANGED minEvaluatorStake
        BY <2>1 DEF Unstake, ruleVars
    <2> QED BY <2>2, LossSeats
<1>4. CASE \E caller \in JobManagers, a \in Stakers, amount \in Amounts :
              Slash(caller, a, amount)
    <2>1. PICK caller \in JobManagers, a \in Stakers, amount \in Amounts :
              Slash(caller, a, amount)
        BY <1>4
    <2>2. /\ amount <= evaluators[a].stakedAmount
          /\ SetRoster(AfterLoss(a, evaluators[a].stakedAmount - amount))
          /\ UNCHANGED minEvaluatorStake
        BY <2>1 DEF Slash, ruleVars
    <2> QED BY <2>2, LossSeats
<1>5. CASE \E minimum \in Minimums : ExecuteMinEvaluatorStake(minimum)
    BY <1>5, SweepSeats
<1>6. CASE UNCHANGED <<stakeVars, minEvaluatorStake>>
    <2>1. /\ activeEvaluators' = activeEvaluators
          /\ evaluators' = evaluators
          /\ minEvaluatorStake' = minEvaluatorStake
        BY <1>6 DEF stakeVars
    <2>2. Seated(CurrentRoster) /\ Funded(CurrentRoster, minEvaluatorStake)
        BY RosterForm
    <2>3. CurrentRoster \in Roster /\ Len(activeEvaluators) <= MAX_ACTIVE_EVALUATORS
        BY DEF TypeOK, Roster, CurrentRoster
    <2>4. CurrentRoster' = CurrentRoster
        BY <2>1 DEF CurrentRoster
    <2> QED BY <1>1, <2>1, <2>2, <2>3, <2>4 DEF SeatsKept
<1> QED BY <1>2, <1>3, <1>4, <1>5, <1>6, StakeCases

-----------------------------------------------------------------------------
(* The tokens behind the stakes *)

StakeOf == [a \in Stakers |-> evaluators[a].stakedAmount]

\* The sum of the stakes moves by what one stake moves by.
LEMMA StakeMoves ==
    ASSUME NEW f \in [Stakers -> Nat], NEW g \in [Stakers -> Nat], NEW a \in Stakers,
           \A b \in Stakers \ {a} : g[b] = f[b]
    PROVE  SumFunction(g) + f[a] = SumFunction(f) + g[a]
<1>1. SumFunction(f) = SumFunctionOnSet(f, Stakers)
      /\ SumFunction(g) = SumFunctionOnSet(g, Stakers)
    BY DEF SumFunction
<1>2. IsFiniteSet(Stakers)
    BY RegistryAssumption
<1>3. \A x \in Stakers : f[x] \in Nat /\ g[x] \in Nat
    OBVIOUS
<1>4. \A x \in Stakers : x # a => g[x] = f[x]
    OBVIOUS
<1>5. SumFunctionOnSet(g, Stakers) + f[a] = SumFunctionOnSet(f, Stakers) + g[a]
    BY <1>2, <1>3, <1>4, SumChange
<1> QED BY <1>1, <1>5

LEMMA StakeSum ==
    ASSUME TypeOK
    PROVE  StakeOf \in [Stakers -> Nat] /\ SumFunction(StakeOf) \in Nat
<1>1. StakeOf \in [Stakers -> Nat]
    BY DEF TypeOK, Evaluator, StakeOf
<1>2. SumFunction(StakeOf) = SumFunctionOnSet(StakeOf, Stakers)
    BY DEF SumFunction, StakeOf
<1>3. \A x \in Stakers : StakeOf[x] \in Nat
    BY <1>1
<1> QED BY <1>1, <1>2, <1>3, SumType, RegistryAssumption

\* Tokens and stakes move together (stake, unstake, slash); nothing else moves either.
LEMMA StepBacked ==
    ASSUME TypeOK, RosterConsistent, StakesBacked, [Next]_vars
    PROVE  StakesBacked' /\ balanceOf' \in [Stakers \cup {Registry} -> Nat]
<1>1. /\ balanceOf \in [Stakers \cup {Registry} -> Nat] /\ Registry \notin Stakers
      /\ evaluators \in [Stakers -> Evaluator]
      /\ balanceOf[Registry] = SumFunction(StakeOf)
    BY RegistryAssumption DEF TypeOK, StakesBacked, StakeOf
<1>2. StakeOf \in [Stakers -> Nat] /\ SumFunction(StakeOf) \in Nat
    BY StakeSum
<1>3. evaluators' \in [Stakers -> Evaluator]
    BY StepSeats DEF SeatsKept, Roster, CurrentRoster
<1>4. StakeOf' \in [Stakers -> Nat] /\ SumFunction(StakeOf') \in Nat
    <2>1. StakeOf' \in [Stakers -> Nat] /\ \A x \in Stakers : StakeOf'[x] \in Nat
        BY <1>3 DEF StakeOf, Evaluator
    <2>2. SumFunction(StakeOf') = SumFunctionOnSet(StakeOf', Stakers)
        BY DEF SumFunction, StakeOf
    <2> QED BY <2>1, <2>2, SumType, RegistryAssumption
<1>5. \A b \in Stakers : /\ StakeOf[b] = evaluators[b].stakedAmount
                         /\ StakeOf'[b] = evaluators'[b].stakedAmount
    BY DEF StakeOf
<1>6. SUFFICES /\ balanceOf'[Registry] = SumFunction(StakeOf')
               /\ balanceOf' \in [Stakers \cup {Registry} -> Nat]
    BY DEF StakesBacked, StakeOf
<1>7. ASSUME NEW a \in Stakers, \A b \in Stakers \ {a} : StakeOf'[b] = StakeOf[b]
      PROVE  SumFunction(StakeOf') + StakeOf[a] = SumFunction(StakeOf) + StakeOf'[a]
    BY <1>2, <1>4, <1>7, StakeMoves
<1>8. ASSUME \A b \in Stakers : StakeOf'[b] = StakeOf[b]
      PROVE  StakeOf' = StakeOf
    BY <1>2, <1>4, <1>8
<1>9. \A amount \in Amounts : amount \in Nat
    BY RegistryAssumption
<1> HIDE DEF StakeOf
<1>10. CASE \E a \in Stakers, amount \in Amounts : Stake(a, amount)
    <2>1. PICK a \in Stakers, amount \in Amounts : Stake(a, amount)
        BY <1>10
    <2>2. /\ balanceOf' = [balanceOf EXCEPT ![a] = @ - amount, ![Registry] = @ + amount]
          /\ balanceOf[a] >= amount
        BY <2>1 DEF Stake
    <2>3. \A b \in Stakers :
             StakeOf'[b] = IF b = a THEN StakeOf[a] + amount ELSE StakeOf[b]
        BY <1>5, <2>1, StakeSeats
    <2>4. SumFunction(StakeOf') + StakeOf[a] = SumFunction(StakeOf) + StakeOf'[a]
        BY <1>7, <2>3
    <2>5. StakeOf[a] \in Nat /\ StakeOf'[a] = StakeOf[a] + amount
        BY <1>2, <2>3
    <2>6. SumFunction(StakeOf') = SumFunction(StakeOf) + amount
        BY <1>2, <1>4, <1>9, <2>4, <2>5
    <2>7. /\ balanceOf'[Registry] = balanceOf[Registry] + amount
          /\ balanceOf' \in [Stakers \cup {Registry} -> Nat]
        BY <1>1, <1>9, <2>2
    <2> QED BY <1>1, <2>6, <2>7
<1>11. CASE \E a \in Stakers, amount \in Amounts : Unstake(a, amount)
    <2>1. PICK a \in Stakers, amount \in Amounts : Unstake(a, amount)
        BY <1>11
    <2>2. /\ amount <= evaluators[a].stakedAmount
          /\ SetRoster(AfterLoss(a, evaluators[a].stakedAmount - amount))
          /\ UNCHANGED minEvaluatorStake
          /\ balanceOf' = [balanceOf EXCEPT ![a] = @ + amount, ![Registry] = @ - amount]
          /\ balanceOf[Registry] >= amount
        BY <2>1 DEF Unstake, ruleVars
    <2>3. \A b \in Stakers :
             StakeOf'[b] = IF b = a THEN StakeOf[a] - amount ELSE StakeOf[b]
        BY <1>5, <2>2, LossSeats
    <2>4. SumFunction(StakeOf') + StakeOf[a] = SumFunction(StakeOf) + StakeOf'[a]
        BY <1>7, <2>3
    <2>5. StakeOf[a] \in Nat /\ StakeOf'[a] = StakeOf[a] - amount
        BY <1>2, <2>3
    <2>6. SumFunction(StakeOf') = SumFunction(StakeOf) - amount
        BY <1>2, <1>4, <1>9, <2>4, <2>5
    <2>7. /\ balanceOf'[Registry] = balanceOf[Registry] - amount
          /\ balanceOf' \in [Stakers \cup {Registry} -> Nat]
        BY <1>1, <1>9, <2>2
    <2> QED BY <1>1, <2>6, <2>7
<1>12. CASE \E caller \in JobManagers, a \in Stakers, amount \in Amounts :
               Slash(caller, a, amount)
    <2>1. PICK caller \in JobManagers, a \in Stakers, amount \in Amounts :
              Slash(caller, a, amount)
        BY <1>12
    <2>2. /\ amount <= evaluators[a].stakedAmount
          /\ SetRoster(AfterLoss(a, evaluators[a].stakedAmount - amount))
          /\ UNCHANGED minEvaluatorStake
          /\ balanceOf' = [balanceOf EXCEPT ![Registry] = @ - amount]
          /\ balanceOf[Registry] >= amount
        BY <2>1 DEF Slash, ruleVars
    <2>3. \A b \in Stakers :
             StakeOf'[b] = IF b = a THEN StakeOf[a] - amount ELSE StakeOf[b]
        BY <1>5, <2>2, LossSeats
    <2>4. SumFunction(StakeOf') + StakeOf[a] = SumFunction(StakeOf) + StakeOf'[a]
        BY <1>7, <2>3
    <2>5. StakeOf[a] \in Nat /\ StakeOf'[a] = StakeOf[a] - amount
        BY <1>2, <2>3
    <2>6. SumFunction(StakeOf') = SumFunction(StakeOf) - amount
        BY <1>2, <1>4, <1>9, <2>4, <2>5
    <2>7. /\ balanceOf'[Registry] = balanceOf[Registry] - amount
          /\ balanceOf' \in [Stakers \cup {Registry} -> Nat]
        BY <1>1, <1>9, <2>2
    <2> QED BY <1>1, <2>6, <2>7
<1>13. CASE \E minimum \in Minimums : ExecuteMinEvaluatorStake(minimum)
    <2>1. balanceOf' = balanceOf
        BY <1>13 DEF ExecuteMinEvaluatorStake, Execute
    <2>2. StakeOf' = StakeOf
        BY <1>5, <1>8, <1>13, SweepSeats
    <2> QED BY <1>1, <2>1, <2>2
<1>14. CASE UNCHANGED <<stakeVars, minEvaluatorStake>>
    BY <1>1, <1>14 DEF stakeVars, StakeOf
<1> QED BY <1>10, <1>11, <1>12, <1>13, <1>14, StakeCases

-----------------------------------------------------------------------------
(* The rest of the state *)

RulesTyped ==
    /\ now \in Nat
    /\ published \in SUBSET Stakers
    /\ warmupPeriod \in MIN_WARMUP_PERIOD .. MAX_WARMUP_PERIOD
    /\ jobManager \in JobManagers \cup {NoAddress}
    /\ slashPaused \in BOOLEAN
    /\ DOMAIN pendingChanges = {"jobManager", "minEvaluatorStake"}
    /\ pendingChanges["jobManager"] \in Change(JobManagers) \cup {NoChange}
    /\ pendingChanges["minEvaluatorStake"] \in Change(Nat \ {0}) \cup {NoChange}

LEMMA StepRules ==
    ASSUME TypeOK, [Next]_vars
    PROVE  RulesTyped' /\ now' >= now
<1>0. RulesTyped /\ GOVERNANCE_DELAY \in Nat
    BY RegistryAssumption DEF TypeOK, RulesTyped
<1> USE <1>0
<1>1. CASE Tick
    BY <1>1 DEF Tick, ruleVars, RulesTyped
<1>2. CASE StakerCall
    <2>1. ASSUME NEW a \in Stakers, NEW amount \in Amounts, Stake(a, amount)
          PROVE  RulesTyped' /\ now' >= now
        BY <2>1 DEF Stake, ruleVars, RulesTyped
    <2>2. ASSUME NEW a \in Stakers, NEW amount \in Amounts, Unstake(a, amount)
          PROVE  RulesTyped' /\ now' >= now
        BY <2>2 DEF Unstake, ruleVars, RulesTyped
    <2>3. ASSUME NEW a \in Stakers, SetMetadata(a)
          PROVE  RulesTyped' /\ now' >= now
        BY <2>3 DEF SetMetadata, ruleVars, RulesTyped
    <2> QED BY <1>2, <2>1, <2>2, <2>3, Zenon DEF StakerCall
<1>3. CASE JobManagerCall
    <2>1. ASSUME NEW caller \in JobManagers, NEW a \in Stakers, NEW amount \in Amounts,
                 Slash(caller, a, amount)
          PROVE  RulesTyped' /\ now' >= now
        BY <2>1 DEF Slash, ruleVars, RulesTyped
    <2> QED BY <1>3, <2>1, Zenon DEF JobManagerCall
<1>4. CASE OwnerCall
    <2>1. ASSUME NEW paused \in BOOLEAN, SetSlashPaused(paused)
          PROVE  RulesTyped' /\ now' >= now
        BY <2>1 DEF SetSlashPaused, RulesTyped
    <2>2. ASSUME NEW period \in WarmupPeriods, SetWarmupPeriod(period)
          PROVE  RulesTyped' /\ now' >= now
        BY <2>2 DEF SetWarmupPeriod, RulesTyped
    <2>3. ASSUME NEW manager \in JobManagers \cup {NoAddress}, ProposeJobManager(manager)
          PROVE  RulesTyped' /\ now' >= now
        BY <2>3 DEF ProposeJobManager, Propose, Change, RulesTyped
    <2>4. ASSUME NEW manager \in JobManagers \cup {NoAddress}, ExecuteJobManager(manager)
          PROVE  RulesTyped' /\ now' >= now
        BY <2>4 DEF ExecuteJobManager, Execute, Change, NoChange, RulesTyped
    <2>5. ASSUME NEW minimum \in Minimums, ProposeMinEvaluatorStake(minimum)
          PROVE  RulesTyped' /\ now' >= now
        BY <2>5, RegistryAssumption DEF ProposeMinEvaluatorStake, Propose, Change, RulesTyped
    <2>6. ASSUME NEW minimum \in Minimums, ExecuteMinEvaluatorStake(minimum)
          PROVE  RulesTyped' /\ now' >= now
        BY <2>6 DEF ExecuteMinEvaluatorStake, Execute, Change, NoChange, RulesTyped
    <2>7. ASSUME NEW key \in DOMAIN pendingChanges, CancelProposal(key)
          PROVE  RulesTyped' /\ now' >= now
        BY <2>7 DEF CancelProposal, Change, NoChange, RulesTyped
    <2> QED BY <1>4, <2>1, <2>2, <2>3, <2>4, <2>5, <2>6, <2>7, Zenon DEF OwnerCall
<1>5. CASE UNCHANGED vars
    BY <1>5 DEF vars, registryVars, ruleVars, RulesTyped
<1> QED BY <1>1, <1>2, <1>3, <1>4, <1>5 DEF Next

-----------------------------------------------------------------------------
(* The draw *)

\* The stakes of the warmed-up evaluators laid end to end: each begins where the one
\* before it ends.
LEMMA CumulativeSteps ==
    ASSUME TypeOK, NEW i \in 1 .. Len(activeEvaluators)
    PROVE  /\ Weight(i) \in Nat
           /\ Cumulative(i) \in Nat /\ Cumulative(i - 1) \in Nat
           /\ Cumulative(i) = Cumulative(i - 1) + Weight(i)
<1> DEFINE f == [k \in 1 .. i |-> Weight(k)]
           g == [k \in 1 .. i - 1 |-> Weight(k)]
<1>1. /\ activeEvaluators \in Seq(Stakers) /\ Len(activeEvaluators) \in Nat
      /\ evaluators \in [Stakers -> Evaluator]
    BY DEF TypeOK
<1>2. ASSUME NEW k \in 1 .. Len(activeEvaluators)
      PROVE  Weight(k) \in Nat
    <2>1. activeEvaluators[k] \in Stakers
        BY <1>1, ElementOfSeq
    <2> QED BY <1>1, <2>1 DEF Weight, Evaluator
<1>3. /\ 1 .. i \subseteq 1 .. Len(activeEvaluators)
      /\ i \in 1 .. i /\ (1 .. i) \ {i} = 1 .. i - 1
    BY <1>1
<1>4. IsFiniteSet(1 .. i) /\ IsFiniteSet(1 .. i - 1)
    <2>1. i \in Int /\ i - 1 \in Int /\ 1 \in Int
        BY <1>1
    <2> QED BY <2>1, FS_Interval
<1>5. /\ Cumulative(i) = SumFunctionOnSet(f, 1 .. i)
      /\ Cumulative(i - 1) = SumFunctionOnSet(g, 1 .. i - 1)
    BY DEF Cumulative, SumFunction
<1>6. /\ \A k \in 1 .. i : f[k] = Weight(k) /\ f[k] \in Nat
      /\ \A k \in 1 .. i - 1 : g[k] = Weight(k) /\ g[k] \in Nat /\ f[k] = g[k]
    BY <1>2, <1>3
<1> HIDE DEF f, g
<1>7. SumFunctionOnSet(f, 1 .. i) = f[i] + SumFunctionOnSet(f, (1 .. i) \ {i})
    BY <1>3, <1>4, <1>6, SumSplit
<1>8. SumFunctionOnSet(f, 1 .. i - 1) = SumFunctionOnSet(g, 1 .. i - 1)
    BY <1>4, <1>6, SumSame
<1>9. SumFunctionOnSet(g, 1 .. i - 1) \in Nat /\ SumFunctionOnSet(f, 1 .. i) \in Nat
    BY <1>4, <1>6, SumType
<1>10. SumFunctionOnSet(f, (1 .. i) \ {i}) = SumFunctionOnSet(f, 1 .. i - 1)
    BY <1>3, Zenon
<1>11. f[i] = Weight(i) /\ Weight(i) \in Nat
    BY <1>2, <1>3, <1>6
<1> QED BY <1>5, <1>7, <1>8, <1>9, <1>10, <1>11

LEMMA CumulativeEmpty ==
    Cumulative(0) = 0
<1> DEFINE f == [k \in 1 .. 0 |-> Weight(k)]
<1>1. Cumulative(0) = SumFunctionOnSet(f, 1 .. 0)
    BY DEF Cumulative, SumFunction
<1>2. 1 .. 0 = {}
    OBVIOUS
<1> HIDE DEF f
<1> QED BY <1>1, <1>2, SumEmpty

LEMMA CumulativeNat ==
    ASSUME TypeOK, NEW i \in 0 .. Len(activeEvaluators)
    PROVE  Cumulative(i) \in Nat
<1>1. Len(activeEvaluators) \in Nat
    BY DEF TypeOK
<1>2. CASE i = 0
    BY <1>2, CumulativeEmpty
<1>3. CASE i # 0
    <2>1. i \in 1 .. Len(activeEvaluators)
        BY <1>1, <1>3
    <2> QED BY <2>1, CumulativeSteps
<1> QED BY <1>2, <1>3

LEMMA CumulativeGrows ==
    ASSUME TypeOK, NEW i \in 0 .. Len(activeEvaluators), NEW j \in i .. Len(activeEvaluators)
    PROVE  Cumulative(i) <= Cumulative(j)
<1> DEFINE len == Len(activeEvaluators)
           Bad == {k \in i .. len : ~ (Cumulative(i) <= Cumulative(k))}
<1>1. len \in Nat
    BY DEF TypeOK
<1> HIDE DEF len
<1>2. SUFFICES ASSUME Bad # {} PROVE FALSE
    <2>1. j \notin Bad /\ j \in i .. len
        BY <1>2 DEF len
    <2> QED BY <2>1
<1>3. PICK k \in Bad : \A l \in Nat : l < k => l \notin Bad
    <2> HIDE DEF Bad
    <2>1. Bad \in SUBSET Nat
        BY <1>1 DEF Bad, len
    <2> QED BY <1>2, <2>1, SmallestNumber
<1>4. k \in i .. len /\ ~ (Cumulative(i) <= Cumulative(k))
    OBVIOUS
<1>5. Cumulative(i) \in Nat
    BY CumulativeNat
<1>6. k # i
    BY <1>4, <1>5
<1>7. k - 1 \in i .. len /\ k - 1 \in Nat /\ k - 1 < k /\ k \in 1 .. len
    BY <1>1, <1>4, <1>6 DEF len
<1>8. Cumulative(i) <= Cumulative(k - 1)
    BY <1>3, <1>7
<1>9. /\ Weight(k) \in Nat
      /\ Cumulative(k) \in Nat /\ Cumulative(k - 1) \in Nat
      /\ Cumulative(k) = Cumulative(k - 1) + Weight(k)
    BY <1>7, CumulativeSteps DEF len
<1> QED BY <1>4, <1>5, <1>8, <1>9

\* The walk of assignEvaluator stops at the evaluator on whose stretch the point lies.
LEMMA CandidateLocated ==
    ASSUME TypeOK, NEW i \in 1 .. Len(activeEvaluators), NEW point \in Nat,
           Cumulative(i - 1) <= point, point < Cumulative(i)
    PROVE  Candidate(point) = activeEvaluators[i]
<1> DEFINE Stops(k) ==
               /\ WarmedUp(k) /\ point < Cumulative(k)
               /\ \A l \in 1 .. k - 1 : ~ (WarmedUp(l) /\ point < Cumulative(l))
           chosen == CHOOSE k \in 1 .. Len(activeEvaluators) : Stops(k)
<1>1. Len(activeEvaluators) \in Nat
    BY DEF TypeOK
<1>2. /\ Weight(i) \in Nat
      /\ Cumulative(i) \in Nat /\ Cumulative(i - 1) \in Nat
      /\ Cumulative(i) = Cumulative(i - 1) + Weight(i)
    BY CumulativeSteps
<1>3. WarmedUp(i)
    BY <1>2 DEF Weight
<1>4. ASSUME NEW l \in 1 .. i - 1
      PROVE  ~ (point < Cumulative(l))
    <2>1. l \in 0 .. Len(activeEvaluators) /\ i - 1 \in l .. Len(activeEvaluators)
        BY <1>1
    <2>2. Cumulative(l) <= Cumulative(i - 1) /\ Cumulative(l) \in Nat
        BY <2>1, CumulativeGrows, CumulativeNat
    <2> QED BY <1>2, <2>2
<1>5. Stops(i)
    BY <1>3, <1>4
<1>6. chosen \in 1 .. Len(activeEvaluators) /\ Stops(chosen)
    <2> HIDE DEF Stops
    <2> QED BY <1>5
<1>7. Candidate(point) = activeEvaluators[chosen]
    BY DEF Candidate
<1> HIDE DEF chosen
<1>8. chosen = i
    <2>1. ~ (chosen < i)
        BY <1>1, <1>4, <1>6
    <2>2. ~ (i < chosen)
        BY <1>1, <1>3, <1>6
    <2> QED BY <1>1, <1>6, <2>1, <2>2
<1> QED BY <1>7, <1>8

\* Every point below the total lies on somebody's stretch.
LEMMA PointLocated ==
    ASSUME TypeOK, NEW point \in 0 .. TotalStake - 1
    PROVE  \E i \in 1 .. Len(activeEvaluators) :
              Cumulative(i - 1) <= point /\ point < Cumulative(i)
<1> DEFINE len == Len(activeEvaluators)
           Past == {i \in 0 .. len : point < Cumulative(i)}
<1>1. len \in Nat
    BY DEF TypeOK
<1>2. TotalStake = Cumulative(len) /\ Cumulative(len) \in Nat /\ len \in 0 .. len
    <2>1. len \in 0 .. len
        BY <1>1
    <2> QED BY <2>1, CumulativeNat DEF TotalStake
<1>3. point \in Nat /\ point < Cumulative(len)
    BY <1>2
<1> HIDE DEF len
<1>4. Past # {}
    BY <1>2, <1>3
<1>5. PICK i \in Past : \A k \in Nat : k < i => k \notin Past
    <2> HIDE DEF Past
    <2>1. Past \in SUBSET Nat
        BY <1>1 DEF Past
    <2> QED BY <1>4, <2>1, SmallestNumber
<1>6. i \in 0 .. len /\ point < Cumulative(i)
    OBVIOUS
<1>7. i # 0
    BY <1>3, <1>6, CumulativeEmpty
<1>8. i \in 1 .. len /\ i - 1 \in 0 .. len /\ i - 1 \in Nat /\ i - 1 < i
    BY <1>1, <1>6, <1>7
<1>9. Cumulative(i - 1) \in Nat /\ ~ (point < Cumulative(i - 1))
    BY <1>5, <1>8, CumulativeNat DEF len
<1> QED BY <1>3, <1>6, <1>8, <1>9 DEF len

\* Each evaluator is hit by exactly the points of its stretch.
LEMMA PointsOf ==
    ASSUME TypeOK, RosterConsistent, NEW j \in 1 .. Len(activeEvaluators)
    PROVE  {point \in 0 .. TotalStake - 1 : Candidate(point) = activeEvaluators[j]}
              = Cumulative(j - 1) .. Cumulative(j) - 1
<1>1. Len(activeEvaluators) \in Nat /\ activeEvaluators \in Seq(Stakers)
      /\ DOMAIN activeEvaluators = 1 .. Len(activeEvaluators)
    BY DEF TypeOK
<1>2. /\ Weight(j) \in Nat
      /\ Cumulative(j) \in Nat /\ Cumulative(j - 1) \in Nat
      /\ Cumulative(j) = Cumulative(j - 1) + Weight(j)
    BY CumulativeSteps
<1>3. Cumulative(j) <= TotalStake /\ TotalStake \in Nat
    <2>1. j \in 0 .. Len(activeEvaluators) /\ Len(activeEvaluators) \in j .. Len(activeEvaluators)
          /\ Len(activeEvaluators) \in 0 .. Len(activeEvaluators)
        BY <1>1
    <2> QED BY <2>1, CumulativeGrows, CumulativeNat DEF TotalStake
<1>4. ASSUME NEW point \in Cumulative(j - 1) .. Cumulative(j) - 1
      PROVE  point \in 0 .. TotalStake - 1 /\ Candidate(point) = activeEvaluators[j]
    <2>1. /\ point \in Nat /\ Cumulative(j - 1) <= point /\ point < Cumulative(j)
          /\ point \in 0 .. TotalStake - 1
        BY <1>2, <1>3
    <2> QED BY <2>1, CandidateLocated
<1>5. ASSUME NEW point \in 0 .. TotalStake - 1, Candidate(point) = activeEvaluators[j]
      PROVE  point \in Cumulative(j - 1) .. Cumulative(j) - 1
    <2>1. PICK i \in 1 .. Len(activeEvaluators) :
              Cumulative(i - 1) <= point /\ point < Cumulative(i)
        BY PointLocated
    <2>2. point \in Nat
        BY <1>3
    <2>3. Candidate(point) = activeEvaluators[i]
        BY <2>1, <2>2, CandidateLocated
    <2>4. i = j
        BY <1>1, <1>5, <2>3 DEF RosterConsistent, IsInjective
    <2> QED BY <1>2, <2>1, <2>2, <2>4
<1> QED BY <1>4, <1>5

LEMMA DrawWeighs ==
    ASSUME TypeOK, RosterConsistent, NEW a \in Stakers
    PROVE  Cardinality({point \in 0 .. TotalStake - 1 : Candidate(point) = a})
               = IF IsEligible(a) THEN evaluators[a].stakedAmount ELSE 0
<1>1. Len(activeEvaluators) \in Nat /\ evaluators[a].index \in Nat
      /\ activeEvaluators \in Seq(Stakers)
      /\ DOMAIN activeEvaluators = 1 .. Len(activeEvaluators)
    BY DEF TypeOK, Evaluator
<1>2. CASE evaluators[a].active
    <2> DEFINE j == evaluators[a].index + 1
    <2>1. j \in 1 .. Len(activeEvaluators) /\ activeEvaluators[j] = a
        BY <1>1, <1>2 DEF RosterConsistent
    <2> HIDE DEF j
    <2>2. {point \in 0 .. TotalStake - 1 : Candidate(point) = a}
              = Cumulative(j - 1) .. Cumulative(j) - 1
        BY <2>1, PointsOf
    <2>3. /\ Weight(j) \in Nat
          /\ Cumulative(j) \in Nat /\ Cumulative(j - 1) \in Nat
          /\ Cumulative(j) = Cumulative(j - 1) + Weight(j)
        BY <2>1, CumulativeSteps
    <2>4. Cardinality(Cumulative(j - 1) .. Cumulative(j) - 1) = Weight(j)
        <3>1. Cumulative(j - 1) \in Int /\ Cumulative(j) - 1 \in Int
            BY <2>3
        <3>2. Cardinality(Cumulative(j - 1) .. Cumulative(j) - 1)
                 = IF Cumulative(j - 1) > Cumulative(j) - 1 THEN 0
                   ELSE (Cumulative(j) - 1) - Cumulative(j - 1) + 1
            BY <3>1, FS_Interval
        <3> HIDE DEF j
        <3> QED BY <2>3, <3>2
    <2>5. Weight(j) = IF IsEligible(a) THEN evaluators[a].stakedAmount ELSE 0
        BY <1>2, <2>1 DEF Weight, WarmedUp, IsEligible
    <2> QED BY <2>2, <2>4, <2>5
<1>3. CASE ~ evaluators[a].active
    <2>1. ASSUME NEW point \in 0 .. TotalStake - 1, Candidate(point) = a
          PROVE  FALSE
        <3>1. PICK i \in 1 .. Len(activeEvaluators) :
                  Cumulative(i - 1) <= point /\ point < Cumulative(i)
            BY PointLocated
        <3>2. point \in Nat
            OBVIOUS
        <3>3. Candidate(point) = activeEvaluators[i]
            BY <3>1, <3>2, CandidateLocated
        <3>4. a \in Range(activeEvaluators)
            BY <1>1, <2>1, <3>3 DEF Range
        <3> QED BY <1>3, <3>4 DEF RosterConsistent
    <2>2. {point \in 0 .. TotalStake - 1 : Candidate(point) = a} = {}
        BY <2>1
    <2> QED BY <1>3, <2>2, FS_EmptySet DEF IsEligible
<1> QED BY <1>2, <1>3

-----------------------------------------------------------------------------
(* The theorems *)

\* Whoever is active has not been below the minimum since it was activated.
WarmupRecorded ==
    \A a \in Stakers :
        /\ lastBelow[a] <= now
        /\ evaluators[a].active => lastBelow[a] <= evaluators[a].activeSince

RegistryInv ==
    /\ TypeOK
    /\ RosterConsistent
    /\ StakesBacked
    /\ WarmupRecorded

LEMMA StepRecorded ==
    ASSUME TypeOK, RosterConsistent, WarmupRecorded, [Next]_vars
    PROVE  WarmupRecorded' /\ lastBelow' \in [Stakers -> Nat]
<1>1. SeatsKept
    BY StepSeats
<1>2. now' >= now /\ now' \in Nat /\ now \in Nat /\ lastBelow \in [Stakers -> Nat]
    BY StepRules DEF RulesTyped, TypeOK
<1>3. \A a \in Stakers :
         /\ evaluators[a].activeSince \in Nat
         /\ evaluators'[a].activeSince \in Nat
         /\ evaluators'[a].stakedAmount \in Nat
         /\ evaluators'[a].active =>
               /\ evaluators'[a].stakedAmount >= minEvaluatorStake'
               /\ evaluators'[a].activeSince =
                     IF evaluators[a].active THEN evaluators[a].activeSince ELSE now
    BY <1>1 DEF SeatsKept, Funded, CurrentRoster, Roster, Evaluator, TypeOK
<1>4. minEvaluatorStake' \in Nat
    BY <1>1 DEF SeatsKept
<1>5. CASE RecordBelow
    <2>1. \A a \in Stakers :
             lastBelow'[a] = IF evaluators'[a].stakedAmount < minEvaluatorStake' THEN now'
                             ELSE lastBelow[a]
        BY <1>5 DEF RecordBelow
    <2>2. lastBelow' \in [Stakers -> Nat]
        BY <1>2, <1>5 DEF RecordBelow
    <2>3. ASSUME NEW a \in Stakers
          PROVE  /\ lastBelow'[a] <= now'
                 /\ evaluators'[a].active => lastBelow'[a] <= evaluators'[a].activeSince
        <3>1. /\ lastBelow[a] \in Nat /\ lastBelow[a] <= now
              /\ evaluators[a].active => lastBelow[a] <= evaluators[a].activeSince
            BY <1>2 DEF WarmupRecorded
        <3> QED BY <1>2, <1>3, <1>4, <2>1, <3>1
    <2> QED BY <2>2, <2>3 DEF WarmupRecorded
<1>6. CASE UNCHANGED vars
    BY <1>2, <1>6 DEF vars, registryVars, stakeVars, WarmupRecorded
<1> QED BY <1>5, <1>6 DEF Next

LEMMA InitHolds ==
    ASSUME Init
    PROVE  RegistryInv
<1>1. TypeOK
    <2>1. balanceOf \in [Stakers \cup {Registry} -> Nat]
        BY RegistryAssumption DEF Init
    <2>2. evaluators \in [Stakers -> Evaluator] /\ lastBelow \in [Stakers -> Nat]
        BY RegistryAssumption DEF Init, Evaluator, NoEvaluator
    <2>3. /\ activeEvaluators \in Seq(Stakers)
          /\ Len(activeEvaluators) <= MAX_ACTIVE_EVALUATORS
          /\ minEvaluatorStake \in Nat \ {0}
        BY RegistryAssumption DEF Init
    <2>4. RulesTyped
        BY RegistryAssumption DEF Init, RulesTyped, NoChange
    <2> QED BY <2>1, <2>2, <2>3, <2>4 DEF TypeOK, RulesTyped
<1>2. RosterConsistent
    BY DEF Init, RosterConsistent, NoEvaluator, IsInjective, Range
<1>3. StakesBacked
    <2> DEFINE f == [a \in Stakers |-> evaluators[a].stakedAmount]
    <2>1. \A a \in Stakers : f[a] = 0
        BY DEF Init, NoEvaluator
    <2>2. SumFunction(f) = SumFunctionOnSet(f, Stakers)
        BY DEF SumFunction
    <2>3. balanceOf[Registry] = 0
        BY DEF Init
    <2> HIDE DEF f
    <2>4. SumFunctionOnSet(f, Stakers) = 0
        BY <2>1, SumOfZeros, RegistryAssumption
    <2> QED BY <2>2, <2>3, <2>4 DEF StakesBacked, f
<1>4. WarmupRecorded
    BY RegistryAssumption DEF Init, NoEvaluator, WarmupRecorded
<1> QED BY <1>1, <1>2, <1>3, <1>4 DEF RegistryInv

LEMMA StepHolds ==
    ASSUME RegistryInv, [Next]_vars
    PROVE  TypeOK' /\ SeatsKept /\ StakesBacked' /\ WarmupRecorded'
<1>1. TypeOK /\ RosterConsistent /\ StakesBacked /\ WarmupRecorded
    BY DEF RegistryInv
<1>2. SeatsKept
    BY <1>1, StepSeats
<1>3. StakesBacked' /\ balanceOf' \in [Stakers \cup {Registry} -> Nat]
    BY <1>1, StepBacked
<1>4. RulesTyped'
    BY <1>1, StepRules
<1>5. WarmupRecorded' /\ lastBelow' \in [Stakers -> Nat]
    BY <1>1, StepRecorded
<1>6. /\ activeEvaluators' \in Seq(Stakers)
      /\ evaluators' \in [Stakers -> Evaluator]
      /\ Len(activeEvaluators') <= MAX_ACTIVE_EVALUATORS
      /\ minEvaluatorStake' \in Nat \ {0}
    BY <1>2 DEF SeatsKept, Roster, CurrentRoster
<1>7. TypeOK'
    BY <1>3, <1>4, <1>5, <1>6 DEF TypeOK, RulesTyped
<1> QED BY <1>2, <1>3, <1>5, <1>7

\* The inductive invariant.
LEMMA InvHolds == Spec => []RegistryInv
<1>1. Init => RegistryInv
    BY InitHolds
<1>2. RegistryInv /\ [Next]_vars => RegistryInv'
    <2> SUFFICES ASSUME RegistryInv, [Next]_vars PROVE RegistryInv'
        OBVIOUS
    <2>1. TypeOK' /\ SeatsKept /\ StakesBacked' /\ WarmupRecorded'
        BY StepHolds
    <2>2. (TypeOK => (RosterConsistent <=>
              Seated(CurrentRoster) /\ Funded(CurrentRoster, minEvaluatorStake)))'
        BY RosterForm, PTL
    <2>3. RosterConsistent'
        BY <2>1, <2>2 DEF SeatsKept
    <2> QED BY <2>1, <2>3 DEF RegistryInv
<1> QED BY <1>1, <1>2, PTL DEF Spec

\* Every variable keeps its type; the array never outgrows MAX_ACTIVE_EVALUATORS
\* (stake checks the cap, the sweep and the removals only shorten it).
THEOREM TypeCorrect == Spec => []TypeOK
<1>1. RegistryInv => TypeOK
    BY DEF RegistryInv
<1> QED BY <1>1, InvHolds, PTL

\* The array of active evaluators, the indices into it and the active flags describe one
\* set, and everybody in it holds the minimum in force, through any order of deposits,
\* withdrawals, slashes and sweeps (_removeFromActive and its callers).
THEOREM RosterHolds == Spec => []RosterConsistent
<1>1. RegistryInv => RosterConsistent
    BY DEF RegistryInv
<1> QED BY <1>1, InvHolds, PTL

\* The registry holds exactly the tokens it owes (stake, unstake, slash).
THEOREM StakesHeld == Spec => []StakesBacked
<1>1. RegistryInv => StakesBacked
    BY DEF RegistryInv
<1> QED BY <1>1, InvHolds, PTL

\* An eligible evaluator has held the minimum in force for the whole warm-up (isEligible).
THEOREM EligibleHolds == Spec => []EligibleWarmedUp
<1>1. RegistryInv => EligibleWarmedUp
    <2> SUFFICES ASSUME RegistryInv, NEW a \in Stakers, IsEligible(a)
                 PROVE  lastBelow[a] + warmupPeriod <= now
        BY DEF EligibleWarmedUp
    <2>1. /\ now \in Nat /\ lastBelow[a] \in Nat /\ warmupPeriod \in Nat
          /\ evaluators[a].activeSince \in Nat
        BY RegistryAssumption DEF RegistryInv, TypeOK, Evaluator
    <2>2. evaluators[a].active /\ evaluators[a].activeSince <= now - warmupPeriod
        BY DEF IsEligible
    <2>3. lastBelow[a] <= evaluators[a].activeSince
        BY <2>2 DEF RegistryInv, WarmupRecorded
    <2> QED BY <2>1, <2>2, <2>3
<1> QED BY <1>1, InvHolds, PTL

\* No step of anybody restarts the warm-up of an evaluator that keeps its seat.
THEOREM SeniorityHolds == Spec => SeniorityKept
<1> DEFINE Step == \A a \in Stakers :
                       evaluators[a].active /\ evaluators'[a].active =>
                           evaluators'[a].activeSince = evaluators[a].activeSince
<1>1. RegistryInv /\ [Next]_vars => [Step]_vars
    <2> SUFFICES ASSUME RegistryInv, [Next]_vars PROVE Step
        OBVIOUS
    <2>1. SeatsKept
        BY StepHolds
    <2> QED BY <2>1 DEF SeatsKept
<1> QED BY <1>1, InvHolds, PTL DEF Spec, SeniorityKept

\* The draw of assignEvaluator is stake-weighted and limited to the eligible: of the points
\* below the total, each evaluator is hit by as many as it has eligible stake.
THEOREM DrawHolds == Spec => []DrawIsStakeWeighted
<1>1. RegistryInv => DrawIsStakeWeighted
    BY DrawWeighs DEF RegistryInv, DrawIsStakeWeighted
<1> QED BY <1>1, InvHolds, PTL

\* stake never leaves a seat it could take.
LEMMA StakeIdlesNobody ==
    ASSUME TypeOK, NEW a \in Stakers, NEW amount \in Amounts, Stake(a, amount),
           NEW b \in Stakers, Idle(b)'
    PROVE  Idle(b)
<1> DEFINE total == evaluators[a].stakedAmount + amount
<1>1. evaluators \in [Stakers -> Evaluator] /\ minEvaluatorStake' = minEvaluatorStake
    BY DEF TypeOK, Stake, ruleVars
<1>2. CASE b = a
    <2>1. CASE ~evaluators[a].active /\ total >= minEvaluatorStake
        <3>1. evaluators'[a].active
            BY <1>1, <2>1 DEF Stake
        <3> QED BY <1>2, <3>1 DEF Idle
    <2>2. CASE ~ (~evaluators[a].active /\ total >= minEvaluatorStake)
        <3>1. evaluators'[a].active = evaluators[a].active
              /\ evaluators'[a].stakedAmount = total
            BY <1>1, <2>2 DEF Stake, Evaluator
        <3> QED BY <1>1, <1>2, <2>2, <3>1 DEF Idle
    <2> QED BY <2>1, <2>2
<1>3. CASE b # a
    <2>1. evaluators'[b] = evaluators[b]
        BY <1>1, <1>3 DEF Stake
    <2> QED BY <1>1, <2>1 DEF Idle
<1> QED BY <1>2, <1>3

\* unstake and slash take the seat of whoever is left below the minimum, and no other.
LEMMA LossIdlesNobody ==
    ASSUME TypeOK, RosterConsistent, NEW a \in Stakers, NEW amount \in Amounts,
           amount <= evaluators[a].stakedAmount,
           SetRoster(AfterLoss(a, evaluators[a].stakedAmount - amount)),
           UNCHANGED minEvaluatorStake, NEW b \in Stakers, Idle(b)'
    PROVE  Idle(b)
<1>1. /\ evaluators[a].stakedAmount \in Nat /\ evaluators[b].stakedAmount \in Nat
      /\ amount \in Nat /\ minEvaluatorStake \in Nat
    BY RegistryAssumption DEF TypeOK, Evaluator
<1>2. /\ evaluators'[b].stakedAmount = IF b = a THEN evaluators[a].stakedAmount - amount
                                       ELSE evaluators[b].stakedAmount
      /\ evaluators[b].active => \/ evaluators'[b].active
                                 \/ evaluators'[b].stakedAmount < minEvaluatorStake
    BY LossSeats
<1>3. evaluators'[b].stakedAmount <= evaluators[b].stakedAmount
    BY <1>1, <1>2
<1>4. ~evaluators'[b].active /\ evaluators'[b].stakedAmount >= minEvaluatorStake
    BY DEF Idle
<1>5. ~evaluators[b].active
    BY <1>1, <1>2, <1>4
<1> QED BY <1>1, <1>2, <1>3, <1>4, <1>5 DEF Idle

\* A staker that meets the minimum and has no seat can only blame governance for it.
THEOREM IdleHolds == Spec => OnlyLoweringIdles
<1> DEFINE Step == \A a \in Stakers :
                       ~Idle(a) /\ Idle(a)' => minEvaluatorStake' < minEvaluatorStake
<1>1. RegistryInv /\ [Next]_vars => [Step]_vars
    <2> SUFFICES ASSUME RegistryInv, [Next]_vars, NEW b \in Stakers, ~Idle(b), Idle(b)'
                 PROVE  minEvaluatorStake' < minEvaluatorStake
        OBVIOUS
    <2>1. TypeOK /\ RosterConsistent
        BY DEF RegistryInv
    <2>2. ASSUME NEW a \in Stakers, NEW amount \in Amounts, Stake(a, amount) PROVE FALSE
        BY <2>1, <2>2, StakeIdlesNobody
    <2>3. ASSUME NEW a \in Stakers, NEW amount \in Amounts, Unstake(a, amount) PROVE FALSE
        <3>1. /\ amount <= evaluators[a].stakedAmount
              /\ SetRoster(AfterLoss(a, evaluators[a].stakedAmount - amount))
              /\ UNCHANGED minEvaluatorStake
            BY <2>3 DEF Unstake, ruleVars
        <3> QED BY <2>1, <3>1, LossIdlesNobody
    <2>4. ASSUME NEW caller, NEW a \in Stakers, NEW amount \in Amounts,
                 Slash(caller, a, amount)
          PROVE  FALSE
        <3>1. /\ amount <= evaluators[a].stakedAmount
              /\ SetRoster(AfterLoss(a, evaluators[a].stakedAmount - amount))
              /\ UNCHANGED minEvaluatorStake
            BY <2>4 DEF Slash, ruleVars
        <3> QED BY <2>1, <3>1, LossIdlesNobody
    <2>5. ASSUME NEW minimum \in Minimums, ExecuteMinEvaluatorStake(minimum)
          PROVE  minEvaluatorStake' < minEvaluatorStake
        <3>1. minEvaluatorStake' \in Nat
            BY <2>1, <2>5, MinimumExecuted DEF ExecuteMinEvaluatorStake
        <3>2. /\ evaluators'[b].stakedAmount = evaluators[b].stakedAmount
              /\ evaluators[b].active /\ evaluators[b].stakedAmount >= minEvaluatorStake' =>
                    evaluators'[b].active
            BY <2>1, <2>5, SweepSeats
        <3>3. evaluators[b].stakedAmount \in Nat /\ minEvaluatorStake \in Nat
            BY <2>1 DEF TypeOK, Evaluator
        <3> QED BY <3>1, <3>2, <3>3 DEF Idle
    <2>6. ASSUME UNCHANGED <<stakeVars, minEvaluatorStake>> PROVE FALSE
        BY <2>6 DEF Idle, stakeVars
    <2> QED BY <2>2, <2>3, <2>4, <2>5, <2>6, StakeCases
<1> QED BY <1>1, InvHolds, PTL DEF Spec, OnlyLoweringIdles

=============================================================================
