-------------------------- MODULE PublisherProofs ---------------------------
(***************************************************************************)
(* Proofs about the strategies and the publishers, for all configurations, *)
(* requests and balances and for every width of the words.                 *)
(***************************************************************************)
EXTENDS Publisher, FiniteSums

(* Comparing with a half that was rounded down is comparing exactly.       *)
LEMMA AboveHalf ==
  ASSUME NEW x \in Nat, NEW y \in Nat
  PROVE  x > y \div 2 <=> 2 * x > y
BY SMT

(* Sums that stay below a word do not wrap around.                         *)
LEMMA NoWrap ==
  ASSUME NEW x \in Nat, x < WORD
  PROVE  x % WORD = x
BY WordAssumption, SMT

-----------------------------------------------------------------------------
(***************************************************************************)
(* Sums of words.                                                          *)
(***************************************************************************)

(* Division with remainder.                                                *)
LEMMA Division ==
  ASSUME NEW w \in Nat \ {0}, NEW a \in Nat, NEW p, p = a \div w, NEW r, r = a % w
  PROVE  p \in Nat /\ r \in Nat /\ r < w /\ a = w * p + r
<1>1. p \in Int /\ r \in Int /\ w \in Int /\ w > 0
  BY Z3
<1>2. a = w * p + r
  BY <1>1, Z3
<1>3. p >= 0 /\ r >= 0 /\ r < w
  BY <1>1, Z3
<1> QED
  BY <1>1, <1>2, <1>3

(* Division without remainder.                                             *)
LEMMA DivisionExact ==
  ASSUME NEW w \in Nat \ {0}, NEW a \in Nat, a % w = 0
  PROVE  a \div w \in Nat /\ a = w * (a \div w)
<1> DEFINE p == a \div w
           r == a % w
<1>1. p = a \div w /\ r = a % w /\ r = 0
  OBVIOUS
<1> HIDE DEF p, r
<1>2. p \in Nat /\ a = w * p + r
  BY <1>1, Division
<1>3. w * p \in Nat
  BY <1>2
<1>4. a = w * p
  BY <1>1, <1>2, <1>3
<1> QED
  BY <1>2, <1>4 DEF p

(* The remainder of a multiple of WORD plus a word is that word.           *)
LEMMA RemainderUnique ==
  ASSUME NEW q \in Nat, NEW r \in 0 .. WORD - 1
  PROVE  (WORD * q + r) % WORD = r
BY WordAssumption, SMTT(30)

(* A sum that has wrapped around before wraps around to the same word.     *)
LEMMA WrapTwice ==
  ASSUME NEW a \in Nat, NEW b \in Nat
  PROVE  ((a % WORD) + b) % WORD = (a + b) % WORD
<1> DEFINE y == a % WORD
           x == y + b
           p == a \div WORD
           q == x \div WORD
           r == x % WORD
<1>1. p \in Nat /\ y \in Nat /\ a = WORD * p + y
  <2>1. p = a \div WORD /\ y = a % WORD
    OBVIOUS
  <2> HIDE DEF p, y
  <2> QED
    BY <2>1, Division, WordAssumption
<1>2. x \in Nat
  BY <1>1
<1>3. q \in Nat /\ r \in Nat /\ r < WORD /\ x = WORD * q + r
  <2>1. q = x \div WORD /\ r = x % WORD
    OBVIOUS
  <2> HIDE DEF x, q, r
  <2> QED
    BY <1>2, <2>1, Division, WordAssumption
<1> HIDE DEF p, q, r, y
<1>4. WORD * (p + q) = WORD * p + WORD * q
  BY <1>1, <1>3, WordAssumption
<1>5. a + b = WORD * (p + q) + r
  BY <1>1, <1>3, <1>4, WordAssumption
<1>6. (WORD * (p + q) + r) % WORD = r
  <2>1. p + q \in Nat /\ r \in 0 .. WORD - 1
    BY <1>1, <1>3, WordAssumption
  <2> QED
    BY <2>1, RemainderUnique, Zenon
<1> QED
  BY <1>5, <1>6 DEF r, y

(* The sum of words that the strategies compute, wrapping around at every  *)
(* addition, is the sum of the words modulo 2**256.                        *)
THEOREM WordsWrapOnce ==
  ASSUME NEW s, IsFiniteSet(DOMAIN s), \A i \in DOMAIN s : s[i] \in Nat
  PROVE  SumWords(s) = SumFunction(s) % WORD
<1> DEFINE D == DOMAIN s
           Body(iter) ==
             [t \in SUBSET D |->
                IF t = {} THEN 0
                ELSE (iter[t \ {CHOOSE i \in t : TRUE}] + s[CHOOSE i \in t : TRUE]) % WORD]
           sums == CHOOSE iter : iter = Body(iter)
           h == [t \in SUBSET D |-> SumFunctionOnSet(s, t) % WORD]
<1>1. SumWords(s) = sums[D]
  <2>1. ~\E i \in DOMAIN s : s[i] = Failed
    BY DEF Failed
  <2> QED
    BY <2>1 DEF SumWords, FoldFunction, FoldFunctionOnSet, MapThenFoldSet
<1>2. ASSUME NEW t \in SUBSET D
      PROVE  SumFunctionOnSet(s, t) \in Nat
  BY FS_Subset, SumNat
<1>3. h[{}] = 0
  BY SumEmpty, WordAssumption
<1>4. ASSUME NEW t \in SUBSET D, t # {}
      PROVE  /\ Pick(t) \in t /\ t \ {Pick(t)} \in SUBSET D
             /\ h[t] = (h[t \ {Pick(t)}] + s[Pick(t)]) % WORD
  <2> DEFINE u == t \ {Pick(t)}
             a == SumFunctionOnSet(s, u)
             b == s[Pick(t)]
  <2>1. IsFiniteSet(t) /\ \A i \in t : s[i] \in Int
    BY FS_Subset
  <2>2. Pick(t) \in t /\ SumFunctionOnSet(s, t) = b + a
    BY <1>4, <2>1, SumOfPicked, Zenon
  <2>3. u \in SUBSET D /\ a \in Nat /\ b \in Nat
    BY <1>2, <2>2
  <2>4. ((a % WORD) + b) % WORD = (a + b) % WORD
    <3> HIDE DEF a, b
    <3> QED
      BY <2>3, WrapTwice
  <2>5. h[t] = (b + a) % WORD /\ h[u] = a % WORD
    BY <2>2, <2>3
  <2>6. a + b = b + a
    BY <2>3
  <2> QED
    BY <2>2, <2>3, <2>4, <2>5, <2>6
<1>5. \E iter : iter = Body(iter)
  <2>1. ASSUME NEW t \in SUBSET D PROVE h[t] = Body(h)[t]
    <3>1. CASE t = {}
      BY <3>1, <1>3
    <3>2. CASE t # {}
      <4> HIDE DEF h
      <4> QED
        BY <3>2, <1>4, Zenon DEF Pick
    <3> QED
      BY <3>1, <3>2
  <2>2. h = Body(h)
    BY <2>1, Zenon
  <2> HIDE DEF h, Body
  <2> QED
    BY <2>2
<1>6. sums = Body(sums)
  <2> HIDE DEF Body
  <2> QED
    BY <1>5
<1> HIDE DEF sums
<1>7. \A t \in SUBSET D :
        sums[t] = IF t = {} THEN 0 ELSE (sums[t \ {Pick(t)}] + s[Pick(t)]) % WORD
  BY <1>6 DEF Pick
<1> DEFINE Bad == {t \in SUBSET D : sums[t] # h[t]}
<1>8. ASSUME Bad # {} PROVE FALSE
  <2>1. PICK t \in Bad : \A y \in Bad : y \subseteq t => y = t
    <3>1. Bad \subseteq SUBSET D /\ IsFiniteSet(D)
      OBVIOUS
    <3> HIDE DEF Bad
    <3> QED
      BY <1>8, <3>1, SmallestSubset
  <2> HIDE DEF h
  <2>2. t # {}
    BY <1>3, <1>7, Zenon
  <2>3. sums[t \ {Pick(t)}] = h[t \ {Pick(t)}]
    BY <2>1, <2>2, <1>4
  <2> QED
    BY <2>1, <2>2, <2>3, <1>4, <1>7
<1>9. sums[D] = h[D]
  BY <1>8
<1> QED
  BY <1>1, <1>9 DEF SumFunction

-----------------------------------------------------------------------------
(***************************************************************************)
(* MajorityVoting and SplitDelegation.                                     *)
(***************************************************************************)

(* A list has finitely many positions.                                     *)
LEMMA ListFinite ==
  ASSUME NEW s, IsList(s)
  PROVE  IsFiniteSet(DOMAIN s)
BY FS_Interval DEF IsList

(* The sum of words is a word, unless a result is missing.                 *)
LEMMA SumIsWord ==
  ASSUME NEW s, IsFiniteSet(DOMAIN s), \A i \in DOMAIN s : s[i] \in Nat \cup {Failed}
  PROVE  /\ SumWords(s) \in Nat \cup {Failed}
         /\ SumWords(s) # Failed => /\ \A i \in DOMAIN s : s[i] \in Nat
                                    /\ SumFunction(s) \in Nat
                                    /\ SumWords(s) <= SumFunction(s)
                                    /\ SumFunction(s) < WORD => SumWords(s) = SumFunction(s)
<1>1. CASE \E i \in DOMAIN s : s[i] = Failed
  BY <1>1 DEF SumWords
<1>2. CASE \A i \in DOMAIN s : s[i] \in Nat
  <2> DEFINE sum == SumFunction(s)
  <2>1. sum \in Nat
    BY <1>2, SumNat DEF SumFunction
  <2>2. SumWords(s) = sum % WORD
    BY <1>2, WordsWrapOnce
  <2> HIDE DEF sum
  <2>3. sum % WORD \in Nat /\ sum % WORD <= sum
    BY <2>1, WordAssumption, Z3
  <2>4. sum < WORD => sum % WORD = sum
    BY <2>1, NoWrap
  <2> QED
    BY <1>2, <2>1, <2>2, <2>3, <2>4 DEF sum
<1> QED
  BY <1>1, <1>2

(* The supply that the host computes is a word.                            *)
LEMMA TotalSupplyIsWord ==
  ASSUME NEW c \in Configs
  PROVE  TotalSupply("host", c.assets) \in Nat \cup {Failed}
<1> DEFINE supplies == [k \in DOMAIN c.assets |-> GetSupply("host", c.assets[k])]
<1>1. IsList(c.assets) /\ \A k \in DOMAIN supplies : supplies[k] \in Nat \cup {Failed}
  BY ConfigTypes
<1>2. DOMAIN supplies = DOMAIN c.assets
  OBVIOUS
<1>3. TotalSupply("host", c.assets) = SumWords(supplies)
  BY DEF TotalSupply
<1> HIDE DEF supplies
<1> QED
  BY <1>1, <1>2, <1>3, ListFinite, SumIsWord, ZenonT(30)

(* MajorityVoting decides exactly: proof_execution answers true if and     *)
(* only if more than half of the supply has voted and yes has more votes   *)
(* than no, whatever is rounded in its two divisions.                      *)
THEOREM MajorityDecidesExactly ==
  ASSUME NEW supply \in Nat, NEW tally \in [1 .. 3 -> Nat], Votes(tally) < WORD
  PROVE  ProofExecution(supply, tally)
           <=> 2 * Votes(tally) > supply /\ tally[1] > tally[2]
<1> DEFINE yes == tally[1]
           no == tally[2]
           abstain == tally[3]
<1>1. yes \in Nat /\ no \in Nat /\ abstain \in Nat
  OBVIOUS
<1>2. (yes + no + abstain) % WORD = yes + no + abstain /\ (yes + no) % WORD = yes + no
  <2>1. yes + no + abstain < WORD /\ yes + no < WORD
    BY <1>1, WordAssumption DEF Votes
  <2> QED
    BY <1>1, <2>1, NoWrap
<1>3. yes + no + abstain > supply \div 2 <=> 2 * (yes + no + abstain) > supply
  BY <1>1, AboveHalf
<1>4. yes > (yes + no) \div 2 <=> 2 * yes > yes + no
  BY <1>1, AboveHalf
<1>5. 2 * yes > yes + no <=> yes > no
  BY <1>1
<1> QED
  BY <1>2, <1>3, <1>4, <1>5, ZenonT(30) DEF ProofExecution, Votes

(* A share of a power, by a divisor that is exact, is at most the part of  *)
(* the power that the ratio stands for: share / power <= ratio / total.    *)
(* This is the arithmetic of SplitDelegation.process and of the division   *)
(* by delegation.ratio in the voting guest.                                *)
THEOREM ExactDivisorsConserve ==
  ASSUME NEW power \in Nat, NEW ratio \in Nat \ {0}, NEW n \in Nat \ {0}
  PROVE  Quotient(power, Quotient(ratio * n, ratio)) * (ratio * n) <= power * ratio
<1> DEFINE share == power \div n
<1>1. ratio * n \in Nat /\ (ratio * n) \div ratio = n
  BY SMT
<1>2. Quotient(ratio * n, ratio) = n
  BY <1>1 DEF Quotient
<1>3. Quotient(power, n) = share
  BY DEF Quotient
<1>4. share \in Nat /\ share * n <= power
  BY SMT
<1>5. (share * n) * ratio <= power * ratio
  BY <1>4, SMT
<1>6. share * (ratio * n) = (share * n) * ratio
  BY <1>4, SMT
<1> HIDE DEF share
<1> QED
  BY <1>2, <1>3, <1>5, <1>6, ZenonT(30)

(* Under an even split a delegate gets at most the part of the power that  *)
(* its ratio stands for.                                                   *)
LEMMA EvenShare ==
  ASSUME NEW power \in Nat, NEW delegations, IsList(delegations), EvenSplit(delegations),
         \A i \in DOMAIN delegations : delegations[i].ratio \in Nat,
         NEW k \in DOMAIN delegations
  PROVE  LET share == Quotient(power, GuestRatio(delegations, delegations[k].delegate))
             total == SumFunction(Ratios(delegations))
         IN /\ share \in Nat /\ total \in Nat \ {0}
            /\ share * total <= power * delegations[k].ratio
<1> DEFINE r == delegations[k].ratio
           v == delegations[k].delegate
           total == SumFunction(Ratios(delegations))
           n == total \div r
           share == Quotient(power, GuestRatio(delegations, v))
<1>1. r \in Nat \ {0} /\ total % r = 0 /\ total < WORD
  BY DEF EvenSplit
<1>2. /\ IsFiniteSet(DOMAIN delegations) /\ DOMAIN Ratios(delegations) = DOMAIN delegations
      /\ \A i \in DOMAIN delegations : Ratios(delegations)[i] = delegations[i].ratio
  BY ListFinite DEF Ratios
<1>3. total \in Nat /\ r <= total
  <2> DEFINE f == Ratios(delegations)
             D == DOMAIN delegations
  <2>1. /\ IsFiniteSet(D) /\ IsFiniteSet(D \ {k}) /\ k \in D /\ f[k] = r
        /\ \A i \in D : f[i] \in Nat
    BY <1>2, FS_Subset
  <2> HIDE DEF f, D, r
  <2>2. SumFunctionOnSet(f, D) = f[k] + SumFunctionOnSet(f, D \ {k})
    BY <2>1, SumRemove
  <2>3. SumFunctionOnSet(f, D) \in Nat /\ SumFunctionOnSet(f, D \ {k}) \in Nat
    BY <2>1, SumNat
  <2>4. total = SumFunctionOnSet(f, D)
    BY <1>2 DEF SumFunction, f, D
  <2> HIDE DEF total
  <2> QED
    BY <1>1, <2>1, <2>2, <2>3, <2>4
<1>4. n \in Nat \ {0} /\ total = r * n
  <2> HIDE DEF total, r
  <2>1. n \in Nat /\ total = r * n
    BY <1>1, <1>3, DivisionExact, Zenon
  <2> HIDE DEF n
  <2>4. n = 0 => r * n = 0
    BY <1>1
  <2> QED
    BY <1>1, <1>3, <2>1, <2>4
<1>5. GuestRatio(delegations, v) = Quotient(total, r)
  <2>1. Naming(delegations, v) = {k}
    BY DEF Naming, EvenSplit
  <2>2. Min({k}) = k
    <3>1. k \in Nat
      BY DEF IsList
    <3> QED
      BY <3>1 DEF Min
  <2>3. SumWords(Ratios(delegations)) = total
    <3>1. ~\E i \in DOMAIN Ratios(delegations) : Ratios(delegations)[i] = Failed
      BY <1>2 DEF Failed
    <3>2. SumWords(Ratios(delegations)) = total % WORD
      BY <1>2, WordsWrapOnce
    <3> HIDE DEF total
    <3> QED
      BY <1>1, <1>3, <3>2, NoWrap
  <2>4. delegations # <<>>
    BY DEF IsList
  <2> HIDE DEF total
  <2> QED
    BY <2>1, <2>2, <2>3, <2>4 DEF GuestRatio, Divisor, Ratios
<1>6. Quotient(total, r) = n /\ Quotient(power, n) \in Nat
  <2> HIDE DEF total, r
  <2>1. Quotient(total, r) = n
    BY <1>1, <1>3 DEF Quotient
  <2> HIDE DEF n
  <2>2. power \div n \in Nat
    BY <1>4, Z3
  <2> QED
    BY <1>4, <2>1, <2>2 DEF Quotient
<1>7. share * total <= power * r
  <2>1. Quotient(power, Quotient(r * n, r)) * (r * n) <= power * r
    <3> HIDE DEF r, n
    <3> QED
      BY <1>1, <1>4, ExactDivisorsConserve, ZenonT(30)
  <2> QED
    BY <1>4, <1>5, <2>1
<1> HIDE DEF total, n, share, r, v
<1>8. share \in Nat /\ total \in Nat \ {0}
  BY <1>1, <1>3, <1>5, <1>6 DEF share
<1> QED
  BY <1>7, <1>8 DEF share, total, r, v

(* The shares of all delegates of an even split add up to at most the      *)
(* power.                                                                  *)
LEMMA EvenSharesAddUp ==
  ASSUME NEW power \in Nat, NEW delegations, IsList(delegations), EvenSplit(delegations),
         \A i \in DOMAIN delegations : delegations[i].ratio \in Nat
  PROVE  LET delegates == {delegations[i].delegate : i \in DOMAIN delegations}
         IN SumFunction([v \in delegates |-> Quotient(power, GuestRatio(delegations, v))])
              <= power
<1> DEFINE D == DOMAIN delegations
           e == [i \in D |-> delegations[i].delegate]
           delegates == {e[i] : i \in D}
           ratios == Ratios(delegations)
           total == SumFunction(ratios)
           shares == [v \in delegates |-> Quotient(power, GuestRatio(delegations, v))]
           ratioOf == [v \in delegates |-> ratios[CHOOSE i \in D : e[i] = v]]
           taken == [v \in delegates |-> total * shares[v]]
           due == [v \in delegates |-> power * ratioOf[v]]
           Sum(f) == SumFunctionOnSet(f, delegates)
<1>1. IsFiniteSet(D) /\ \A i, k \in D : e[i] = e[k] => i = k
  BY ListFinite DEF EvenSplit
<1>2. DOMAIN ratios = D /\ \A i \in D : ratios[i] \in Nat /\ ratios[i] = delegations[i].ratio
  BY DEF Ratios
<1>3. \A i \in D : ratioOf[e[i]] = ratios[i]
  <2> SUFFICES ASSUME NEW i \in D PROVE ratioOf[e[i]] = ratios[i]
    OBVIOUS
  <2>1. (CHOOSE k \in D : e[k] = e[i]) = i
    <3> HIDE DEF e, D
    <3> QED
      BY <1>1
  <2>2. ratioOf[e[i]] = ratios[CHOOSE k \in D : e[k] = e[i]]
    OBVIOUS
  <2> QED
    BY <2>1, <2>2, ZenonT(30)
<1>4. IsFiniteSet(delegates) /\ Sum(ratioOf) = total
  <2>1. total = SumFunctionOnSet(ratios, D)
    BY <1>2 DEF SumFunction
  <2> HIDE DEF D, e, ratios, total, ratioOf
  <2>2. \A i \in D : ratioOf[e[i]] \in Int /\ ratios[i] = ratioOf[e[i]]
    BY <1>2, <1>3
  <2> QED
    BY <1>1, <2>1, <2>2, SumReindex
<1>5. ASSUME NEW v \in delegates
      PROVE  /\ shares[v] \in Nat /\ ratioOf[v] \in Nat /\ total \in Nat \ {0}
             /\ shares[v] * total <= power * ratioOf[v]
  <2>1. PICK i \in D : e[i] = v
    OBVIOUS
  <2>2. shares[v] = Quotient(power, GuestRatio(delegations, delegations[i].delegate))
    BY <2>1
  <2> HIDE DEF shares, ratioOf, e, ratios
  <2>3. ratioOf[v] = delegations[i].ratio /\ ratioOf[v] \in Nat
    BY <1>2, <1>3, <2>1
  <2> QED
    BY <2>2, <2>3, EvenShare DEF ratios
<1> HIDE DEF delegates, shares, ratioOf, total, e, D, ratios
<1>6. CASE delegates = {}
  <2>1. Sum(shares) = 0
    BY <1>6, SumEmpty
  <2> QED
    BY <2>1 DEF SumFunction, shares, delegates, e, D
<1>7. CASE delegates # {}
  <2>1. total \in Nat \ {0}
    BY <1>5, <1>7
  <2>2. \A v \in delegates : taken[v] = total * shares[v] /\ due[v] = power * ratioOf[v]
    OBVIOUS
  <2>3. \A v \in delegates : taken[v] \in Int /\ due[v] \in Int /\ taken[v] <= due[v]
    <3> SUFFICES ASSUME NEW v \in delegates
                 PROVE  taken[v] \in Int /\ due[v] \in Int /\ taken[v] <= due[v]
      OBVIOUS
    <3> DEFINE a == shares[v]
               b == ratioOf[v]
    <3>1. a \in Nat /\ b \in Nat /\ a * total <= power * b
      BY <1>5
    <3>2. taken[v] = total * a /\ due[v] = power * b
      BY <2>2
    <3> HIDE DEF a, b, taken, due
    <3>3. total * a = a * total /\ total * a \in Int /\ power * b \in Int
      BY <2>1, <3>1
    <3> QED
      BY <3>1, <3>2, <3>3
  <2> HIDE DEF taken, due
  <2>4. Sum(taken) <= Sum(due)
    BY <1>4, <2>3, SumMonotone
  <2>5. Sum(taken) = total * Sum(shares) /\ Sum(due) = power * Sum(ratioOf)
    <3>1. \A v \in delegates : shares[v] \in Int /\ ratioOf[v] \in Int
      BY <1>5
    <3>2. total \in Int /\ power \in Int
      BY <2>1
    <3> QED
      BY <1>4, <2>2, <3>1, <3>2, SumScale, ZenonT(30)
  <2>6. Sum(shares) \in Int
    BY <1>4, <1>5, SumInt
  <2> DEFINE x == Sum(shares)
  <2>7. total * x <= power * total /\ x \in Int
    BY <1>4, <2>4, <2>5, <2>6
  <2> HIDE DEF x
  <2>8. x <= power
    <3>1. ASSUME x >= power + 1 PROVE FALSE
      <4>1. total * x >= total * (power + 1)
        BY <2>1, <2>7, <3>1
      <4>2. total * (power + 1) = power * total + total
        BY <2>1
      <4>3. total * x \in Int /\ power * total \in Int
        BY <2>1, <2>7
      <4> QED
        BY <2>1, <2>7, <4>1, <4>2, <4>3
    <3> QED
      BY <2>7, <3>1
  <2> QED
    BY <2>8 DEF x, SumFunction, shares, delegates, e, D
<1> QED
  BY <1>6, <1>7

-----------------------------------------------------------------------------
(***************************************************************************)
(* The two copies of the strategies.                                       *)
(***************************************************************************)

(* A sum of words is a result only if all its words are.                   *)
LEMMA SumOfResults ==
  ASSUME NEW s, SumWords(s) # Failed
  PROVE  \A i \in DOMAIN s : s[i] # Failed
BY DEF SumWords

(* A listed account from which the host gets a share gave a delegation     *)
(* that names the voter.                                                   *)
LEMMA HostShareIsDelegated ==
  ASSUME NEW asset, NEW listed, NEW account,
         Share("host", asset, listed, account) # Failed
  PROVE  Naming(asset.registry[listed], account) # {} /\ asset.registry[listed] # <<>>
<1>1. Ratio("host", asset.registry[listed], account) # Failed
  BY DEF Share, Quotient, Failed
<1> QED
  BY <1>1 DEF Ratio, HostRatio, Divisor

(* Under BalanceOf, a share that the host computes the guest computes too. *)
LEMMA SameShare ==
  ASSUME NEW asset, NEW listed, NEW account,
         asset.votingPowerStrategy # "GetPastVotes",
         Share("host", asset, listed, account) # Failed
  PROVE  Share("guest", asset, listed, account) = Share("host", asset, listed, account)
<1>1. asset.registry[listed] # <<>>
  BY HostShareIsDelegated
<1>2. Ratio("guest", asset.registry[listed], account)
        = Ratio("host", asset.registry[listed], account)
  BY <1>1 DEF Ratio, HostRatio, GuestRatio
<1>3. VotingPower("guest", asset, listed) = VotingPower("host", asset, listed)
  BY DEF VotingPower, Known, GuestStrategies, HostStrategies
<1> QED
  BY <1>2, <1>3 DEF Share

(* Under BalanceOf, a power that the host computes the guest computes too. *)
LEMMA SameAssetPower ==
  ASSUME NEW asset, NEW account, NEW data,
         asset.votingPowerStrategy # "GetPastVotes",
         AssetPower("host", asset, account, data) # Failed
  PROVE  AssetPower("guest", asset, account, data) = AssetPower("host", asset, account, data)
<1> DEFINE Shares(side) ==
      [i \in DOMAIN data.listed |-> Share(side, asset, data.listed[i], account)]
<1>1. data.rest = 0 /\ asset.delegationStrategy = "SplitDelegation"
  BY DEF AssetPower, Known, HostStrategies
<1>2. AssetPower("host", asset, account, data) = SumWords(Shares("host"))
      /\ AssetPower("guest", asset, account, data) = SumWords(Shares("guest"))
  BY <1>1 DEF AssetPower, Known, GuestStrategies, HostStrategies
<1>3. \A i \in DOMAIN data.listed : Share("host", asset, data.listed[i], account) # Failed
  BY <1>2, SumOfResults, SMTT(60)
<1>4. Shares("guest") = Shares("host")
  BY <1>3, SameShare, ZenonT(30)
<1> QED
  BY <1>2, <1>4

(* The same of the total over all assets.                                  *)
LEMMA SameTotal ==
  ASSUME NEW assets, NEW account, NEW data,
         \A k \in DOMAIN assets : assets[k].votingPowerStrategy # "GetPastVotes",
         TotalVotingPower("host", assets, account, data) # Failed
  PROVE  TotalVotingPower("guest", assets, account, data)
           = TotalVotingPower("host", assets, account, data)
<1> DEFINE Powers(side) ==
      [k \in DOMAIN assets |-> AssetPower(side, assets[k], account, data)]
<1>1. TotalVotingPower("host", assets, account, data) = SumWords(Powers("host"))
      /\ TotalVotingPower("guest", assets, account, data) = SumWords(Powers("guest"))
  BY DEF TotalVotingPower
<1>2. \A k \in DOMAIN assets : AssetPower("host", assets[k], account, data) # Failed
  BY <1>1, SumOfResults, SMTT(60)
<1>3. Powers("guest") = Powers("host")
  BY <1>2, SameAssetPower
<1> QED
  BY <1>1, <1>3

-----------------------------------------------------------------------------
(***************************************************************************)
(* The publishers.                                                         *)
(***************************************************************************)

(* What a phase says of the results: the host accepted in every phase      *)
(* after the preflight, and not when it failed; the guest accepted in      *)
(* every phase with a journal, and the journal is that of the request.     *)
PhaseInv ==
  /\ config \in Configs
  /\ request \in Requests
  /\ phase = "failed" => ~HostAccepts(config, request)
  /\ phase \notin {"started", "failed", "disconnected"} => HostAccepts(config, request)
  /\ phase = "rejected" => ~GuestAccepts(config, request)
  /\ phase \in {"proved", "sent"} => GuestAccepts(config, request)
  /\ phase \in {"proved", "sent"} => journal = Commits(request)
  /\ journal # NoJournal => GuestAccepts(config, request)

(* The phases of a run keep to what they stand for, as the configuration   *)
(* and the request stay what they are.                                     *)
LEMMA PhasesKept == Spec => []PhaseInv
<1>1. Init => PhaseInv
  BY DEF Init, PhaseInv
<1>2. PhaseInv /\ [Next]_vars => PhaseInv'
  <2> SUFFICES ASSUME PhaseInv, [Next]_vars PROVE PhaseInv'
    OBVIOUS
  <2>1. config' = config /\ request' = request
    BY DEF Next, vars, Preflight, PreflightFails, Prove, ProveFails, Send, RpcFails
  <2>2. /\ HostAccepts(config', request') = HostAccepts(config, request)
        /\ GuestAccepts(config', request') = GuestAccepts(config, request)
        /\ Commits(request') = Commits(request)
    BY <2>1
  <2>3. CASE Preflight
    BY <2>1, <2>2, <2>3, ZenonT(30) DEF PhaseInv, Preflight
  <2>4. CASE PreflightFails
    BY <2>1, <2>2, <2>4, ZenonT(30) DEF PhaseInv, PreflightFails
  <2>5. CASE Prove
    BY <2>1, <2>2, <2>5, SMTT(60) DEF PhaseInv, Prove
  <2>6. CASE ProveFails
    BY <2>1, <2>2, <2>6, ZenonT(30) DEF PhaseInv, ProveFails
  <2>7. CASE Send
    BY <2>1, <2>2, <2>7, SMTT(60) DEF PhaseInv, Send
  <2>8. CASE RpcFails
    BY <2>1, <2>2, <2>8, ZenonT(30) DEF PhaseInv, RpcFails
  <2>9. CASE UNCHANGED vars
    BY <2>1, <2>2, <2>9, ZenonT(30) DEF PhaseInv, vars
  <2> QED
    BY <2>3, <2>4, <2>5, <2>6, <2>7, <2>8, <2>9, ZenonT(30) DEF Next
<1> QED
  BY <1>1, <1>2, PTL DEF Spec

(* The host never accepts a vote without a result, so all shares are.      *)
LEMMA HostVoteHasResult ==
  ASSUME PhaseInv, request.kind = "vote", HostAccepts(config, request)
  PROVE  /\ config.parses
         /\ TotalVotingPower("host", config.assets, request.voter, request.data)
              = request.balance
         /\ request.balance # Failed
<1>1. HostAcceptsVote(config, request)
  BY DEF HostAccepts
<1>2. request.balance \in Nat
  BY RequestTypes DEF PhaseInv
<1> QED
  BY <1>1, <1>2, SMTT(60) DEF HostAcceptsVote, Failed

(* The guest of executions cannot read what its publisher writes.          *)
LEMMA ExecutionUnreadable == ExecutionInput # ExecutionInputRead
<1>1. ExecutionInput[4] = "Address" /\ ExecutionInputRead[4] = "[U256; 3]"
  BY DEF ExecutionInput, ExecutionInputRead
<1>2. "Address" # "[U256; 3]"
  OBVIOUS
<1> QED
  BY <1>1, <1>2

(* The plugin reads in a voting journal what the guest has put into it.    *)
LEMMA DecodedVote ==
  ASSUME NEW r
  PROVE  PluginDecoded(VotingJournal(r)) =
           [block |-> r.block, digest |-> r.block, configContract |-> r.configContract,
            proposalId |-> r.proposalId, voter |-> r.voter, balance |-> r.balance,
            direction |-> r.direction]
<1> DEFINE w == VotingJournal(r)
<1>1. /\ w[1] = Number(r.block) /\ w[2] = Digest(r.block)
      /\ w[4] = Address(r.configContract) /\ w[5] = Number(r.proposalId)
      /\ w[6] = Address(r.voter) /\ w[7] = Number(r.balance) /\ w[8] = Number(r.direction)
  BY DEF VotingJournal
<1> HIDE DEF w
<1>2. /\ w[1].value = r.block /\ w[2].value = r.block
      /\ w[4].value = r.configContract /\ w[5].value = r.proposalId
      /\ w[6].value = r.voter /\ w[7].value = r.balance /\ w[8].value = r.direction
  BY <1>1 DEF Number, Digest, Address
<1> QED
  BY <1>2 DEF PluginDecoded, w

(* No execution is ever proved: what execution_publisher.rs writes for the *)
(* guest does not read as what execution_protocol.rs expects.              *)
THEOREM NoExecutionEverProved == Spec => []NoExecutionProved
<1>1. PhaseInv => NoExecutionProved
  <2>1. request.kind = "execution" => ~GuestAccepts(config, request)
    BY ExecutionUnreadable, ZenonT(30) DEF GuestAccepts
  <2> QED
    BY <2>1 DEF PhaseInv, NoExecutionProved
<1> QED
  BY <1>1, PhasesKept, PTL

(* The plugin reads in every journal that a publisher has sent the request *)
(* the publisher was started with (the three declarations of the journal). *)
THEOREM SentJournalAlwaysRequest == Spec => []SentJournalIsRequest
<1>1. PhaseInv => SentJournalIsRequest
  <2> SUFFICES ASSUME PhaseInv, phase = "sent" PROVE SentJournalIsRequest
    BY DEF SentJournalIsRequest
  <2>1. GuestAccepts(config, request) /\ journal = Commits(request)
    BY DEF PhaseInv
  <2>2. request.kind = "vote"
    BY <2>1, ExecutionUnreadable, ZenonT(30) DEF GuestAccepts
  <2>3. journal = VotingJournal(request)
    BY <2>1, <2>2 DEF Commits
  <2> QED
    BY <2>3, DecodedVote, SMTT(60) DEF SentJournalIsRequest
<1> QED
  BY <1>1, PhasesKept, PTL

(* Where no asset counts past votes, the host's preflight predicts what    *)
(* the voting guest computes: no proof is attempted in vain (publisher.rs  *)
(* and voting_protocol.rs).                                                *)
THEOREM PreflightAlwaysPredicts ==
  ASSUME \A c \in Configs : \A k \in DOMAIN c.assets :
           c.assets[k].votingPowerStrategy # "GetPastVotes"
  PROVE  Spec => []PreflightPredictsGuest
<1>1. PhaseInv => PreflightPredictsGuest
  <2> SUFFICES ASSUME PhaseInv, phase = "rejected", request.kind = "vote"
               PROVE  \/ request.direction \notin 1 .. 3
                      \/ request.balance = 0
                      \/ ~SignerRecovered(request.signature)
    BY DEF PreflightPredictsGuest
  <2>1. HostAccepts(config, request) /\ ~GuestAcceptsVote(config, request)
    BY DEF PhaseInv, GuestAccepts, VoteInput, VoteInputRead
  <2>2. TotalVotingPower("guest", config.assets, request.voter, request.data)
          = request.balance
    BY <2>1, HostVoteHasResult, SameTotal, SMTT(60) DEF PhaseInv
  <2>3. request.balance \in Nat
    BY <2>1, RequestTypes, SMTT(60) DEF PhaseInv
  <2> QED
    BY <2>1, <2>2, <2>3, HostVoteHasResult, SMTT(60) DEF GuestAcceptsVote
<1> QED
  BY <1>1, PhasesKept, PTL

(* Every journal the publisher of votes sends counts only power that was   *)
(* delegated to the voter (SplitDelegation.process of the host).           *)
THEOREM PublishedPowerAlwaysDelegated == Spec => []PublishedPowerIsDelegated
<1>1. PhaseInv => PublishedPowerIsDelegated
  <2> SUFFICES ASSUME PhaseInv, phase = "sent", request.kind = "vote",
                      NEW k \in DOMAIN config.assets,
                      NEW i \in DOMAIN request.data.listed
               PROVE  Naming(config.assets[k].registry[request.data.listed[i]],
                             PluginDecoded(journal).voter) # {}
    BY DEF PublishedPowerIsDelegated
  <2> DEFINE asset == config.assets[k]
  <2>a. HostAccepts(config, request) /\ journal = VotingJournal(request)
    BY DEF PhaseInv, Commits
  <2>1. HostAccepts(config, request) /\ PluginDecoded(journal).voter = request.voter
    BY <2>a, DecodedVote
  <2>2. TotalVotingPower("host", config.assets, request.voter, request.data) # Failed
    BY <2>1, HostVoteHasResult, ZenonT(30)
  <2>3. AssetPower("host", asset, request.voter, request.data) # Failed
    BY <2>2, SumOfResults, SMTT(60) DEF TotalVotingPower
  <2>4. SumWords([n \in DOMAIN request.data.listed |->
                    Share("host", asset, request.data.listed[n], request.voter)]) # Failed
    BY <2>3 DEF AssetPower
  <2>5. Share("host", asset, request.data.listed[i], request.voter) # Failed
    BY <2>4, SumOfResults, SMTT(60)
  <2> QED
    BY <2>1, <2>5, HostShareIsDelegated, SMTT(60)
<1> QED
  BY <1>1, PhasesKept, PTL

(* The preflight of an execution passes exactly when the vote has a        *)
(* majority (proof_execution of MajorityVoting, execution_publisher.rs).   *)
THEOREM MajorityAlwaysExact == Spec => []MajorityExact
<1>1. PhaseInv => MajorityExact
  <2> DEFINE supply == TotalSupply("host", config.assets)
  <2> SUFFICES ASSUME PhaseInv, request.kind = "execution",
                      phase \notin {"started", "disconnected"}, HasBlock(request),
                      Votes(request.tally) < WORD, config.parses,
                      config.executionStrategy = "MajorityVoting", supply # Failed
               PROVE  phase # "failed" <=>
                        2 * Votes(request.tally) > supply
                        /\ request.tally[1] > request.tally[2]
    BY DEF MajorityExact
  <2>1. phase # "failed" <=> HostAccepts(config, request)
    BY DEF PhaseInv
  <2>2. HostAccepts(config, request) <=> ProofExecution(supply, request.tally)
    BY DEF HostAccepts, HostAcceptsExecution, ExecutionPasses, Known, HostStrategies
  <2>3. supply \in Nat /\ request.tally \in [1 .. 3 -> Nat]
    BY TotalSupplyIsWord, RequestTypes, ZenonT(30) DEF PhaseInv
  <2> HIDE DEF supply
  <2> QED
    BY <2>1, <2>2, <2>3, MajorityDecidesExactly, ZenonT(30)
<1> QED
  BY <1>1, PhasesKept, PTL

(* The delegates of an account whose ratios divide their sum never have    *)
(* more power counted together than the account holds, whatever the        *)
(* balances, the ratios and the number of delegates (the two divisions of  *)
(* SplitDelegation.process).                                               *)
THEOREM EvenSplitsAlwaysConserve == Spec => []EvenSplitsConserve
<1>1. PhaseInv => EvenSplitsConserve
  <2> SUFFICES ASSUME config \in Configs, NEW k \in DOMAIN config.assets,
                      NEW holder \in Accounts, NEW asset, asset = config.assets[k],
                      asset.votingPowerStrategy = "BalanceOf",
                      BalanceOf(asset, holder) # Failed,
                      EvenSplit(asset.registry[holder])
               PROVE  SharedOut(asset, holder) <= BalanceOf(asset, holder)
    BY SMTT(60) DEF PhaseInv, EvenSplitsConserve
  <2> DEFINE power == BalanceOf(asset, holder)
             delegations == asset.registry[holder]
             delegates == {delegations[i].delegate : i \in DOMAIN delegations}
  <2>1. /\ power \in Nat /\ IsList(delegations)
        /\ \A i \in DOMAIN delegations : delegations[i].ratio \in Nat
    BY ConfigTypes
  <2>2. ASSUME NEW v PROVE Share("guest", asset, holder, v)
                             = Quotient(power, GuestRatio(delegations, v))
    BY Zenon DEF Share, VotingPower, Known, GuestStrategies, Ratio
  <2>3. SharedOut(asset, holder)
          = SumFunction([v \in delegates |-> Quotient(power, GuestRatio(delegations, v))])
    BY <2>2, Zenon DEF SharedOut
  <2> HIDE DEF power
  <2> QED
    BY <2>1, <2>3, EvenSharesAddUp, ZenonT(30) DEF power
<1> QED
  BY <1>1, PhasesKept, PTL
=============================================================================
