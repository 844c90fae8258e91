--------------------------- MODULE ZkVotingProofs ---------------------------
(***************************************************************************)
(* Proofs that no vote is counted, that the token keeps its supply and     *)
(* that no token votes twice, for any number of accounts, proposals and    *)
(* blocks and for every request.                                           *)
(***************************************************************************)
EXTENDS ZkVoting, PublisherProofs

(* The chain: a proposal that exists now did not exist at its snapshot     *)
(* block nor before, and what existed at a block exists now.               *)
ChainInv ==
  /\ block \in Nat /\ block > 0
  /\ proposals \in [Pids -> [exists : BOOLEAN, snapshot : Nat]]
  /\ \A p \in Pids : proposals[p].exists => proposals[p].snapshot < block
  /\ \A n \in 0 .. block - 1, p \in Pids :
       chain[n].proposals[p].exists => proposals[p].exists /\ proposals[p].snapshot < n

(* The publisher: it has read the configuration that the proposal had at   *)
(* the block of the request, and a journal is that of a request that the   *)
(* host accepted.                                                          *)
ReadInv ==
  /\ phase \in Running =>
       /\ request \in Requests
       /\ request.block \in 0 .. block - 1
       /\ config.parses => /\ request.configContract = Plugin
                           /\ chain[request.block].proposals[request.proposalId].exists
  /\ phase \in {"preflighted", "proved"} => HostAccepts(config, request)
  /\ phase = "proved" => GuestAccepts(config, request) /\ journal = Commits(request)

(* Every step of the chain keeps the order of proposals and snapshots.     *)
LEMMA ChainStep ==
  ASSUME ChainInv, [ZkNext]_allVars
  PROVE  /\ ChainInv'
         /\ block' >= block
         /\ \A n \in 0 .. block - 1 : chain'[n] = chain[n]
<1>1. CASE MineBlock
  <2>1. /\ block' = block + 1 /\ proposals' = proposals
        /\ chain' = [n \in 0 .. block |-> IF n = block THEN State ELSE chain[n]]
    BY <1>1 DEF MineBlock
  <2>2. \A n \in 0 .. block - 1 : chain'[n] = chain[n]
    BY <2>1 DEF ChainInv
  <2>3. chain'[block].proposals = proposals
    BY <2>1 DEF State, ChainInv
  <2>4. ASSUME NEW n \in 0 .. block' - 1, NEW p \in Pids, chain'[n].proposals[p].exists
        PROVE  proposals[p].exists /\ proposals[p].snapshot < n
    <3>1. CASE n = block
      BY <2>3, <2>4, <3>1, Zenon DEF ChainInv
    <3>2. CASE n \in 0 .. block - 1
      BY <2>2, <2>4, <3>2, Zenon DEF ChainInv
    <3> QED
      BY <2>1, <3>1, <3>2, SMTT(60) DEF ChainInv
  <2> QED
    BY <2>1, <2>2, <2>4, SMTT(60) DEF ChainInv
<1>2. ASSUME NEW q \in Pids, CreateProposal(q)
      PROVE  ChainInv' /\ UNCHANGED <<block, chain>>
  <2>1. /\ ~proposals[q].exists /\ block' = block /\ chain' = chain
        /\ proposals' = [proposals EXCEPT ![q] = [exists |-> TRUE, snapshot |-> block - 1]]
    BY <1>2 DEF CreateProposal
  <2>2. proposals' \in [Pids -> [exists : BOOLEAN, snapshot : Nat]]
    BY <2>1 DEF ChainInv
  <2>3. \A p \in Pids : proposals'[p].exists => proposals'[p].snapshot < block
    BY <2>1 DEF ChainInv
  <2>4. \A n \in 0 .. block - 1 : ~chain[n].proposals[q].exists
    BY <2>1 DEF ChainInv
  <2>5. \A p \in Pids \ {q} : proposals'[p] = proposals[p]
    BY <2>1, Zenon DEF ChainInv
  <2> QED
    BY <2>1, <2>2, <2>3, <2>4, <2>5, Zenon DEF ChainInv
<1>3. CASE UNCHANGED <<block, chain, proposals>>
  BY <1>3, SMTT(60) DEF ChainInv
<1>4. CASE \/ UseToken \/ Compute \/ ProveVote \/ SendVote
           \/ \E a, d \in Accounts : Delegate(a, d)
           \/ \E r \in Requests : Start(r)
           \/ UNCHANGED allVars
  <2>1. UNCHANGED <<block, chain, proposals>>
    BY <1>4, Zenon DEF UseToken, Compute, ProveVote, SendVote, Delegate, Start, allVars, chainVars
  <2> QED
    BY <1>3, <2>1, Zenon
<1> QED
  BY <1>1, <1>2, <1>4, SMTT(60) DEF ZkNext, ChainInv

(* A vote that the plugin would take commits to the snapshot block, where  *)
(* the configuration that the host has read did not exist.                 *)
LEMMA NothingAccepted ==
  ASSUME ChainInv, ReadInv, phase = "proved"
  PROVE  ~Accepts(PluginDecoded(journal))
<1>1. GuestAccepts(config, request) /\ HostAccepts(config, request)
      /\ journal = Commits(request)
  BY DEF ReadInv
<1>2. request.kind = "vote"
  BY <1>1, ExecutionUnreadable, Zenon DEF GuestAccepts
<1>3. config.parses
  BY <1>1, <1>2, Zenon DEF HostAccepts, HostAcceptsVote
<1>4. /\ request.proposalId \in Pids /\ request.block \in 0 .. block - 1
      /\ chain[request.block].proposals[request.proposalId].exists
  BY <1>3, ProposalIds, Zenon DEF ReadInv, Running
<1>5. proposals[request.proposalId].snapshot # request.block
  BY <1>4, SMTT(60) DEF ChainInv
<1>6. journal = VotingJournal(request)
  BY <1>1, <1>2, Zenon DEF Commits
<1>7. /\ PluginDecoded(journal).block = request.block
      /\ PluginDecoded(journal).proposalId = request.proposalId
  BY <1>6, DecodedVote, SMTT(60)
<1> QED
  BY <1>5, <1>7, Zenon DEF Accepts

(* Every step of a publisher keeps to what it has read; the blocks it has  *)
(* read stay what they are.                                                *)
LEMMA ReadStep ==
  ASSUME ChainInv, ReadInv, [ZkNext]_allVars
  PROVE  ReadInv'
<1>0. /\ block \in Nat /\ block' \in Nat /\ block' >= block
      /\ \A n \in 0 .. block - 1 : chain'[n] = chain[n]
  BY ChainStep, Zenon DEF ChainInv
<1>1. CASE UNCHANGED vars
  <2>1. UNCHANGED <<config, request, phase, journal>>
    BY <1>1 DEF vars
  <2>2. request.block \in 0 .. block - 1 =>
          request.block \in 0 .. block' - 1 /\ chain'[request.block] = chain[request.block]
    BY <1>0, SMTT(60)
  <2> QED
    BY <2>1, <2>2, Zenon DEF ReadInv
<1>2. ASSUME NEW r \in Requests, Start(r) PROVE ReadInv'
  <2>1. /\ r.block \in 0 .. block - 1 /\ request' = r /\ config' = ConfigAt(r)
        /\ phase' = "started" /\ block' = block /\ chain' = chain
    BY <1>2, ZenonT(30) DEF Start, chainVars
  <2>2. config'.parses => r.configContract = Plugin
                          /\ chain[r.block].proposals[r.proposalId].exists
    BY <2>1, ZenonT(30) DEF ConfigAt, Config
  <2> QED
    BY <2>1, <2>2, Zenon DEF ReadInv
<1>3. CASE Compute
  <2>1. config' = config /\ request' = request /\ block' = block /\ chain' = chain
        /\ journal' = journal
    BY <1>3 DEF Compute, Preflight, PreflightFails, ProveFails, RpcFails, chainVars
  <2>2. \/ phase = "started" /\ HostAccepts(config, request)
           /\ phase' \in {"tested", "preflighted"}
        \/ phase' \in {"failed", "rejected", "disconnected"}
    BY <1>3, ZenonT(30) DEF Compute, Preflight, PreflightFails, ProveFails, RpcFails
  <2> QED
    BY <2>1, <2>2 DEF ReadInv, Running
<1>4. CASE ProveVote
  <2>1. /\ config' = config /\ request' = request /\ block' = block /\ chain' = chain
        /\ phase = "preflighted" /\ phase' = "proved" /\ journal' = Commits(request)
        /\ GuestAccepts(config, request)
    BY <1>4, ZenonT(30) DEF ProveVote, Prove, chainVars
  <2> QED
    BY <2>1 DEF ReadInv, Running
<1>5. CASE SendVote
  <2>1. phase' \in {"sent", "reverted", "undecodable"}
    BY <1>5 DEF SendVote, Send
  <2> QED
    BY <2>1 DEF ReadInv, Running
<1>6. CASE MineBlock \/ UseToken \/ (\E p \in Pids : CreateProposal(p))
           \/ (\E a, d \in Accounts : Delegate(a, d)) \/ UNCHANGED allVars
  <2>1. UNCHANGED vars
    BY <1>6 DEF MineBlock, UseToken, CreateProposal, Delegate, allVars
  <2> QED
    BY <1>1, <2>1, SMTT(60)
<1> QED
  BY <1>2, <1>3, <1>4, <1>5, <1>6, Zenon DEF ZkNext

(* No vote is ever counted: every accepted proof would have to come from   *)
(* the block before the proposal, where it has no configuration yet        *)
(* (createProposal, votingProtocolConfig, voting_protocol.rs).             *)
THEOREM NeverVoteCounted == ZkSpec => []NoVoteCounted
<1>1. ZkInit => ChainInv /\ ReadInv /\ NoVoteCounted
  <2>1. ZkInit => ChainInv
    BY DEF ZkInit, ChainInit, ChainInv, State
  <2> QED
    BY <2>1 DEF ZkInit, ReadInv, Running, NoVoteCounted
<1>2. ChainInv /\ ReadInv /\ NoVoteCounted /\ [ZkNext]_allVars => NoVoteCounted'
  <2> SUFFICES ASSUME ChainInv, ReadInv, NoVoteCounted, [ZkNext]_allVars
               PROVE  NoVoteCounted'
    OBVIOUS
  <2>1. CASE SendVote
    <3>1. phase = "proved" /\ (phase' = "sent" => Accepts(PluginDecoded(journal)))
      BY <2>1 DEF SendVote, Send
    <3>2. phase' # "sent"
      BY <3>1, NothingAccepted, ZenonT(30)
    <3> QED
      BY <2>1, <3>2 DEF SendVote, NoVoteCounted
  <2>2. CASE ~SendVote
    <3>1. counted' = counted
      BY <2>2 DEF ZkNext, MineBlock, UseToken, CreateProposal, Delegate, Start, Compute,
                  ProveVote, allVars
    <3> QED
      BY <3>1, SMTT(60) DEF NoVoteCounted
  <2> QED
    BY <2>1, <2>2
<1> QED
  BY <1>1, <1>2, ChainStep, ReadStep, PTL DEF ZkSpec

-----------------------------------------------------------------------------
(***************************************************************************)
(* The token.                                                              *)
(***************************************************************************)

TokenInv ==
  /\ balanceOf \in [Accounts -> Nat]
  /\ totalSupply = SumFunctionOnSet(balanceOf, Accounts)

(* Adding to one balance, or taking from it, changes the sum by as much.   *)
LEMMA SumAfterChange ==
  ASSUME NEW f \in [Accounts -> Int], NEW a \in Accounts, NEW d \in Int
  PROVE  /\ [f EXCEPT ![a] = @ + d] \in [Accounts -> Int]
         /\ SumFunctionOnSet([f EXCEPT ![a] = @ + d], Accounts)
              = SumFunctionOnSet(f, Accounts) + d
<1> DEFINE g == [f EXCEPT ![a] = @ + d]
<1>1. /\ g \in [Accounts -> Int] /\ IsFiniteSet(Accounts)
      /\ \A x \in Accounts : f[x] \in Int /\ g[x] \in Int
      /\ \A x \in Accounts \ {a} : g[x] = f[x]
      /\ g[a] - f[a] = d
  BY TokenTypes
<1> HIDE DEF g
<1>2. SumFunctionOnSet(g, Accounts) = SumFunctionOnSet(f, Accounts) + (g[a] - f[a])
  BY <1>1, SumUpdate
<1> QED
  BY <1>1, <1>2 DEF g

(* A transfer, also one to oneself, leaves the sum of the balances.        *)
LEMMA MovedKeepsSum ==
  ASSUME TokenInv, NEW a \in Accounts, NEW b \in Accounts, NEW n \in Nat,
         balanceOf[a] >= n
  PROVE  /\ ERC20!Moved(a, b, n) \in [Accounts -> Nat]
         /\ SumFunctionOnSet(ERC20!Moved(a, b, n), Accounts)
              = SumFunctionOnSet(balanceOf, Accounts)
<1> DEFINE taken == [balanceOf EXCEPT ![a] = @ + (-n)]
           moved == [taken EXCEPT ![b] = @ + n]
           sum == SumFunctionOnSet(balanceOf, Accounts)
<1>1. ERC20!Moved(a, b, n) = moved
  BY Zenon DEF ERC20!Moved, TokenInv
<1>2. taken \in [Accounts -> Nat] /\ moved \in [Accounts -> Nat]
  BY DEF TokenInv
<1>3. SumFunctionOnSet(taken, Accounts) = sum + (-n)
  <2>1. balanceOf \in [Accounts -> Int] /\ -n \in Int
    BY DEF TokenInv
  <2> QED
    BY <2>1, SumAfterChange, Zenon
<1>4. SumFunctionOnSet(moved, Accounts) = SumFunctionOnSet(taken, Accounts) + n
  <2>1. taken \in [Accounts -> Int] /\ n \in Int
    BY <1>2
  <2> HIDE DEF taken
  <2> QED
    BY <2>1, SumAfterChange, ZenonT(30)
<1>5. sum \in Int
  BY TokenTypes, SumInt DEF TokenInv
<1> HIDE DEF taken, moved, sum
<1> QED
  BY <1>1, <1>2, <1>3, <1>4, <1>5, SMTT(60) DEF sum

(* Every call of the token keeps the balances adding up to the supply.     *)
LEMMA TokenStep ==
  ASSUME TokenInv, [ZkNext]_allVars
  PROVE  TokenInv'
<1>0. balanceOf \in [Accounts -> Nat] /\ balanceOf \in [Accounts -> Int]
      /\ totalSupply \in Int
  BY TokenTypes, SumInt DEF TokenInv
<1>1. CASE UNCHANGED <<totalSupply, balanceOf>>
  BY <1>1 DEF TokenInv
<1>2. ASSUME NEW a \in Accounts, NEW b \in Accounts, NEW n \in Amounts, ERC20!Transfer(a, b, n)
      PROVE  TokenInv'
  BY <1>2, MovedKeepsSum, TokenTypes DEF ERC20!Transfer, ERC20!CanMove, TokenInv
<1>3. ASSUME NEW a \in Accounts, NEW b \in Accounts, NEW c \in Accounts, NEW n \in Amounts,
             ERC20!TransferFrom(c, a, b, n)
      PROVE  TokenInv'
  BY <1>3, MovedKeepsSum, TokenTypes DEF ERC20!TransferFrom, ERC20!CanMove, TokenInv
<1>4. ASSUME NEW a \in Accounts, NEW n \in Amounts, ERC20!Mint(a, n) PROVE TokenInv'
  <2>1. n \in Nat /\ n \in Int
    BY TokenTypes
  <2>2. balanceOf' = [balanceOf EXCEPT ![a] = @ + n] /\ totalSupply' = totalSupply + n
    BY <1>4 DEF ERC20!Mint
  <2>3. balanceOf' \in [Accounts -> Nat]
    BY <1>0, <2>1, <2>2
  <2> QED
    BY <1>0, <2>1, <2>2, <2>3, SumAfterChange, ZenonT(30) DEF TokenInv
<1>5. ASSUME NEW a \in Accounts, NEW n \in Amounts, ERC20!Burn(a, n) PROVE TokenInv'
  <2>1. n \in Nat /\ -n \in Int /\ balanceOf[a] \in Nat /\ balanceOf[a] >= n
    BY <1>0, <1>5, TokenTypes DEF ERC20!Burn
  <2>2. balanceOf' = [balanceOf EXCEPT ![a] = @ + (-n)] /\ totalSupply' = totalSupply + (-n)
    BY <1>0, <1>5, <2>1, ZenonT(30) DEF ERC20!Burn
  <2>3. balanceOf' \in [Accounts -> Nat]
    BY <1>0, <2>1, <2>2
  <2> QED
    BY <1>0, <2>1, <2>2, <2>3, SumAfterChange, ZenonT(30) DEF TokenInv
<1>6. CASE UseToken
  <2>1. ERC20!Next(Amounts)
    BY <1>6 DEF UseToken
  <2>2. ASSUME NEW a \in Accounts, NEW b \in Accounts, NEW n \in Amounts, ERC20!Approve(a, b, n)
        PROVE  TokenInv'
    BY <1>1, <2>2 DEF ERC20!Approve
  <2> QED
    BY <1>2, <1>3, <1>4, <1>5, <2>1, <2>2 DEF ERC20!Next
<1>7. CASE \/ MineBlock \/ Compute \/ ProveVote \/ SendVote
           \/ \E p \in Pids : CreateProposal(p)
           \/ \E a, d \in Accounts : Delegate(a, d)
           \/ \E r \in Requests : Start(r)
           \/ UNCHANGED allVars
  <2>1. UNCHANGED <<totalSupply, balanceOf>>
    BY <1>7, Zenon DEF MineBlock, Compute, ProveVote, SendVote, CreateProposal, Delegate,
                       Start, allVars, chainVars, tokenVars
  <2> QED
    BY <1>1, <2>1
<1> QED
  BY <1>6, <1>7 DEF ZkNext

(* The balances of the token always add up to its total supply, transfers  *)
(* to oneself and by allowance included (ERC20.sol).                       *)
THEOREM TokenSupplyAlwaysSum == ZkSpec => []TokenSupplyIsSum
<1>1. ZkInit => TokenInv
  BY TokenTypes, Zenon DEF ZkInit, ChainInit, TokenInv
<1>2. TokenInv => TokenSupplyIsSum
  BY DEF TokenInv, TokenSupplyIsSum, ERC20!SupplyIsSum,
         SumFunctionOnSet, FoldFunctionOnSet, MapThenFoldSet,
         ERC20!SumFunctionOnSet, ERC20!FoldFunctionOnSet, ERC20!MapThenFoldSet
<1> QED
  BY <1>1, <1>2, TokenStep, PTL DEF ZkSpec

-----------------------------------------------------------------------------
(***************************************************************************)
(* The power that publishers prove.                                        *)
(***************************************************************************)

Registered == {<<[delegate |-> d, ratio |-> 1]>> : d \in Accounts}

(* A state of the chain whose token is sound. *)
SoundState(s) ==
  /\ s.balanceOf \in [Accounts -> Nat]
  /\ s.totalSupply = SumFunctionOnSet(s.balanceOf, Accounts)
  /\ s.registry \in [Accounts -> Registered]

(* What the accounts that have chosen `voter' hold together. *)
Entrusted(s, voter) ==
  SumFunctionOnSet(s.balanceOf, {a \in Accounts : s.registry[a][1].delegate = voter})

(* What the guest counts of a listed account for the voter is at most what *)
(* the account holds, and only if it has chosen the voter.                 *)
LEMMA ShareOfChosen ==
  ASSUME NEW s, SoundState(s), NEW n, NEW a \in Accounts, NEW v, NEW share,
         share = Share("guest", Asset(s, n), a, v)
  PROVE  /\ share \in Nat \cup {Failed}
         /\ share # Failed => share <= s.balanceOf[a] /\ s.registry[a][1].delegate = v
<1> DEFINE ds == s.registry[a]
           power == s.balanceOf[a]
           ratio == GuestRatio(ds, v)
           ratios == [i \in DOMAIN ds |-> ds[i].ratio]
<1>1. power \in Nat /\ DOMAIN ds = {1} /\ ds[1].ratio = 1 /\ ds # <<>>
  <2>1. PICK d \in Accounts : ds = <<[delegate |-> d, ratio |-> 1]>>
    BY Zenon DEF SoundState, Registered
  <2> HIDE DEF ds
  <2> QED
    BY <2>1 DEF SoundState
<1>2. share = Quotient(power, ratio)
  BY DEF Share, VotingPower, Known, GuestStrategies, BalanceOf, Ratio, Asset
<1>3. SumWords(ratios) \in Nat \cup {Failed}
  <2>1. DOMAIN ratios = {1} /\ ratios[1] = 1 /\ IsFiniteSet({1})
    BY <1>1, FS_Singleton, ZenonT(30)
  <2> HIDE DEF ratios
  <2> QED
    BY <2>1, SumIsWord
<1>4. Naming(ds, v) # {} => Naming(ds, v) = {1} /\ ds[1].delegate = v
  BY <1>1 DEF Naming
<1>5. Min({1}) = 1
  BY DEF Min
<1>6. ratio \in Int /\ (ratio # Failed => ds[1].delegate = v)
  <2>1. CASE Naming(ds, v) = {}
    BY <1>1, <2>1, SMTT(60) DEF GuestRatio, Divisor, Failed
  <2>2. CASE Naming(ds, v) # {}
    <3>1. ratio = Quotient(SumWords(ratios), 1)
      BY <1>1, <1>4, <1>5, <2>2, ZenonT(30) DEF GuestRatio, Divisor
    <3> HIDE DEF ratio, ratios
    <3>2. ratio \in Int
      BY <1>3, <3>1 DEF Quotient, Failed
    <3> QED
      BY <1>4, <2>2, <3>2, ZenonT(30)
  <2> QED
    BY <2>1, <2>2
<1> HIDE DEF ratio, power, ds
<1>7. CASE ratio < 1
  BY <1>2, <1>7 DEF Quotient
<1>8. CASE ratio >= 1
  <2>1. share = power \div ratio
    BY <1>1, <1>2, <1>6, <1>8, SMTT(60) DEF Quotient
  <2>2. power \div ratio \in Nat /\ power \div ratio <= power
    BY <1>1, <1>6, <1>8, Z3
  <2>3. ratio # Failed
    BY <1>8 DEF Failed
  <2> QED
    BY <1>6, <2>1, <2>2, <2>3 DEF power, ds
<1> QED
  BY <1>6, <1>7, <1>8

(* What is entrusted to a voter is a number.                               *)
LEMMA EntrustedNat ==
  ASSUME NEW s, SoundState(s), NEW v
  PROVE  Entrusted(s, v) \in Nat
<1> DEFINE chosen == {a \in Accounts : s.registry[a][1].delegate = v}
<1>1. IsFiniteSet(chosen) /\ \A a \in chosen : s.balanceOf[a] \in Nat
  BY TokenTypes, FS_Subset DEF SoundState
<1> HIDE DEF chosen
<1>2. SumFunctionOnSet(s.balanceOf, chosen) \in Nat
  BY <1>1, SumNat
<1> QED
  BY <1>2 DEF Entrusted, chosen

(* The shares of the accounts on a list that names none twice add up to at *)
(* most what the accounts that have chosen the voter hold.                 *)
LEMMA ListedPower ==
  ASSUME NEW s, SoundState(s), NEW n, NEW v, NEW data, NamesOnce(data.listed),
         NEW power, power = AssetPower("guest", Asset(s, n), v, data)
  PROVE  power \in Nat \cup {Failed} /\ (power # Failed => power <= Entrusted(s, v))
<1> DEFINE listed == data.listed
           D == DOMAIN listed
           shares == [i \in D |-> Share("guest", Asset(s, n), listed[i], v)]
           held == [i \in D |-> s.balanceOf[listed[i]]]
           named == {listed[i] : i \in D}
           chosen == {a \in Accounts : s.registry[a][1].delegate = v}
<1>1. power = Failed \/ power = SumWords(shares)
  BY DEF AssetPower
<1>2. IsFiniteSet(D) /\ DOMAIN shares = D
  BY ListFinite, ZenonT(30) DEF NamesOnce
<1>3. ASSUME NEW i \in D
      PROVE  /\ shares[i] \in Nat \cup {Failed} /\ held[i] \in Nat
             /\ shares[i] # Failed => shares[i] <= held[i] /\ listed[i] \in chosen
  <2>1. listed[i] \in Accounts
    BY DEF NamesOnce
  <2>2. shares[i] = Share("guest", Asset(s, n), listed[i], v)
    OBVIOUS
  <2>3. held[i] = s.balanceOf[listed[i]] /\ held[i] \in Nat
    BY <2>1, Zenon DEF SoundState
  <2> HIDE DEF shares, held, listed
  <2>4. /\ shares[i] \in Nat \cup {Failed}
        /\ shares[i] # Failed => shares[i] <= s.balanceOf[listed[i]]
                                 /\ s.registry[listed[i]][1].delegate = v
    BY <2>1, <2>2, ShareOfChosen, SMTT(60)
  <2> QED
    BY <2>1, <2>3, <2>4, ZenonT(30)
<1> HIDE DEF shares
<1>4. SumWords(shares) \in Nat \cup {Failed}
  BY <1>2, <1>3, SumIsWord, Zenon
<1>5. ASSUME SumWords(shares) # Failed
      PROVE  SumWords(shares) <= Entrusted(s, v)
  <2>1. /\ SumWords(shares) <= SumFunctionOnSet(shares, D)
        /\ SumFunctionOnSet(shares, D) \in Nat
        /\ \A i \in D : shares[i] \in Nat
    BY <1>2, <1>3, <1>5, SumIsWord, Zenon DEF SumFunction
  <2>2. \A i \in D : shares[i] # Failed
    BY <2>1 DEF Failed
  <2>3. SumFunctionOnSet(shares, D) <= SumFunctionOnSet(held, D)
    <3> HIDE DEF held, D
    <3>1. \A i \in D : shares[i] \in Int /\ held[i] \in Int /\ shares[i] <= held[i]
      BY <1>3, <2>1, <2>2, SMTT(60)
    <3> QED
      BY <1>2, <3>1, SumMonotone
  <2>4. /\ IsFiniteSet(named)
        /\ SumFunctionOnSet(s.balanceOf, named) = SumFunctionOnSet(held, D)
    <3> DEFINE balances == s.balanceOf
    <3>1. \A i \in D : held[i] = balances[listed[i]] /\ held[i] \in Int
      BY <1>3, SMTT(60)
    <3>2. IsFiniteSet(D) /\ \A i, k \in D : listed[i] = listed[k] => i = k
      BY <1>2, Zenon DEF NamesOnce
    <3>3. named = {listed[i] : i \in D}
      OBVIOUS
    <3> HIDE DEF held, listed, D, named, balances
    <3>4. \A x \in named : balances[x] \in Int
      BY <3>1, <3>3, ZenonT(30)
    <3>5. IsFiniteSet(named) /\ SumFunctionOnSet(balances, named) = SumFunctionOnSet(held, D)
      BY <3>1, <3>2, <3>3, <3>4, SumOverImage, SMTT(60)
    <3> QED
      BY <3>5, Zenon DEF balances
  <2>5. SumFunctionOnSet(s.balanceOf, named) <= SumFunctionOnSet(s.balanceOf, chosen)
    <3>1. named \in SUBSET chosen
      BY <1>3, <2>2, Zenon
    <3>2. IsFiniteSet(chosen) /\ \A a \in chosen : s.balanceOf[a] \in Nat
      BY TokenTypes, FS_Subset DEF SoundState
    <3> HIDE DEF named, chosen
    <3> QED
      BY <3>1, <3>2, SumSubset, Zenon
  <2>6. /\ SumFunctionOnSet(held, D) \in Nat
        /\ Entrusted(s, v) = SumFunctionOnSet(s.balanceOf, chosen)
        /\ Entrusted(s, v) \in Nat
    <3>1. Entrusted(s, v) = SumFunctionOnSet(s.balanceOf, chosen)
      BY DEF Entrusted
    <3> HIDE DEF held, D, chosen
    <3> QED
      BY <1>2, <1>3, <3>1, SumNat, EntrustedNat
  <2> HIDE DEF held, D, chosen, named
  <2> QED
    BY <1>4, <1>5, <2>1, <2>3, <2>4, <2>5, <2>6
<1> QED
  BY <1>1, <1>4, <1>5, ZenonT(30)

(* The voting guest attests to no more for a voter than what the accounts  *)
(* that have chosen the voter held at the block.                           *)
LEMMA AttestedWithinEntrusted ==
  ASSUME NEW s, SoundState(s), NEW e, NEW n, NEW r, r.balance \in Nat,
         NamesOnce(r.data.listed), GuestAcceptsVote(Config(s, e, n), r)
  PROVE  r.balance <= Entrusted(s, r.voter)
<1> DEFINE assets == <<Asset(s, n)>>
           powers == [k \in DOMAIN assets |-> AssetPower("guest", assets[k], r.voter, r.data)]
<1>1. SumWords(powers) = r.balance
  BY DEF GuestAcceptsVote, Config, TotalVotingPower
<1>2. /\ DOMAIN powers = {1} /\ IsFiniteSet({1})
      /\ powers[1] = AssetPower("guest", Asset(s, n), r.voter, r.data)
  BY FS_Singleton, SMTT(60)
<1> HIDE DEF powers
<1>3. /\ powers[1] \in Nat \cup {Failed}
      /\ powers[1] # Failed => powers[1] <= Entrusted(s, r.voter)
  BY <1>2, ListedPower
<1>4. r.balance # Failed
  BY DEF Failed
<1>5. powers[1] \in Nat /\ r.balance <= SumFunctionOnSet(powers, {1})
  BY <1>1, <1>2, <1>3, <1>4, SumIsWord, Zenon DEF SumFunction
<1>6. SumFunctionOnSet(powers, {1}) = powers[1]
  BY <1>5, SumSingleton
<1>7. Entrusted(s, r.voter) \in Nat
  BY EntrustedNat, Zenon
<1> QED
  BY <1>3, <1>5, <1>6, <1>7, SMTT(60) DEF Failed

(* The state of the chain is sound, now and at every earlier block; a      *)
(* publisher reads the state of its block; and what has been proved is     *)
(* within what was entrusted to the voter at the block.                    *)
PowerInv ==
  /\ TokenInv
  /\ registry \in [Accounts -> Registered]
  /\ DOMAIN chain = 0 .. block - 1
  /\ \A n \in 0 .. block - 1 : SoundState(chain[n])
  /\ phase \in Running => config = ConfigAt(request)
  /\ \A r \in proved : /\ r.block \in 0 .. block - 1 /\ r.balance \in Nat
                       /\ r.balance <= Entrusted(chain[r.block], r.voter)

(* Every step keeps the chain sound.                                       *)
LEMMA SoundChainStep ==
  ASSUME ChainInv, PowerInv, [ZkNext]_allVars
  PROVE  /\ registry' \in [Accounts -> Registered]
         /\ DOMAIN chain' = 0 .. block' - 1
         /\ \A n \in 0 .. block' - 1 : SoundState(chain'[n])
<1>1. CASE MineBlock
  <2>1. /\ block' = block + 1 /\ registry' = registry
        /\ chain' = [n \in 0 .. block |-> IF n = block THEN State ELSE chain[n]]
    BY <1>1 DEF MineBlock
  <2>2. SoundState(State)
    BY DEF PowerInv, TokenInv, SoundState, State
  <2>3. DOMAIN chain' = 0 .. block' - 1
    BY <2>1 DEF ChainInv
  <2>4. ASSUME NEW n \in 0 .. block' - 1 PROVE SoundState(chain'[n])
    <3>1. n \in 0 .. block
      BY <2>1 DEF ChainInv
    <3>2. CASE n = block
      BY <2>1, <2>2, <3>1, <3>2, Zenon
    <3>3. CASE n # block
      <4>1. n \in 0 .. block - 1 /\ chain'[n] = chain[n]
        BY <2>1, <3>1, <3>3, SMTT(60) DEF ChainInv
      <4> QED
        BY <4>1 DEF PowerInv
    <3> QED
      BY <3>2, <3>3, Zenon
  <2> QED
    BY <2>1, <2>3, <2>4, Zenon DEF PowerInv
<1>2. ASSUME NEW a \in Accounts, NEW d \in Accounts, Delegate(a, d)
      PROVE  registry' \in [Accounts -> Registered] /\ UNCHANGED <<block, chain>>
  <2>1. registry' = [registry EXCEPT ![a] = <<[delegate |-> d, ratio |-> 1]>>]
        /\ UNCHANGED <<block, chain>>
    BY <1>2 DEF Delegate
  <2>2. <<[delegate |-> d, ratio |-> 1]>> \in Registered
    BY DEF Registered
  <2> QED
    BY <2>1, <2>2 DEF PowerInv
<1>3. CASE \/ UseToken \/ Compute \/ ProveVote \/ SendVote
           \/ \E p \in Pids : CreateProposal(p)
           \/ \E r \in Requests : Start(r)
           \/ UNCHANGED allVars
  <2>1. UNCHANGED <<block, chain, registry>>
    BY <1>3, Zenon DEF UseToken, Compute, ProveVote, SendVote, CreateProposal, Start,
                       allVars, chainVars
  <2> QED
    BY <2>1 DEF PowerInv
<1> QED
  BY <1>1, <1>2, <1>3, Zenon DEF ZkNext, PowerInv

(* Every step keeps publishers at the state of their block.                *)
LEMMA SameConfigStep ==
  ASSUME ChainInv, ReadInv, PowerInv, [ZkNext]_allVars
  PROVE  phase' \in Running => config' = ConfigAt(request)'
<1>0. \A n \in 0 .. block - 1 : chain'[n] = chain[n]
  BY ChainStep, Zenon
<1>1. CASE UNCHANGED <<config, request>> /\ (phase' \in Running => phase \in Running)
  BY <1>0, <1>1, Zenon DEF PowerInv, ReadInv, ConfigAt
<1>2. ASSUME NEW r \in Requests, Start(r)
      PROVE  phase' \in Running => config' = ConfigAt(request)'
  <2>1. /\ request' = r /\ config' = ConfigAt(r) /\ chain' = chain
    BY <1>2, ZenonT(30) DEF Start, chainVars
  <2> QED
    BY <2>1 DEF ConfigAt
<1>3. CASE Compute \/ ProveVote \/ SendVote
  <2>1. UNCHANGED <<config, request>> /\ phase \in Running
    BY <1>3 DEF Compute, ProveVote, SendVote, Preflight, PreflightFails, ProveFails, RpcFails,
                Prove, Send, Running
  <2> QED
    BY <1>1, <2>1, Zenon
<1>4. CASE MineBlock \/ UseToken \/ (\E p \in Pids : CreateProposal(p))
           \/ (\E a, d \in Accounts : Delegate(a, d)) \/ UNCHANGED allVars
  <2>1. UNCHANGED vars
    BY <1>4 DEF MineBlock, UseToken, CreateProposal, Delegate, allVars
  <2> QED
    BY <1>1, <2>1 DEF vars
<1> QED
  BY <1>2, <1>3, <1>4, Zenon DEF ZkNext

(* Every proof is within what is entrusted to its voter.                   *)
LEMMA ProvedStep ==
  ASSUME ListsNameOnce, ChainInv, ReadInv, PowerInv, [ZkNext]_allVars
  PROVE  \A r \in proved' : /\ r.block \in 0 .. block' - 1 /\ r.balance \in Nat
                            /\ r.balance <= Entrusted(chain'[r.block], r.voter)
<1>0. /\ block \in Nat /\ block' \in Nat /\ block' >= block
      /\ \A n \in 0 .. block - 1 : chain'[n] = chain[n]
  BY ChainStep DEF ChainInv
<1>1. ASSUME NEW r \in proved
      PROVE  /\ r.block \in 0 .. block' - 1 /\ r.balance \in Nat
             /\ r.balance <= Entrusted(chain'[r.block], r.voter)
  BY <1>0 DEF PowerInv
<1>2. CASE ProveVote
  <2>1. /\ phase = "preflighted" /\ GuestAccepts(config, request)
        /\ proved' = proved \cup {request} /\ block' = block /\ chain' = chain
    BY <1>2, ZenonT(30) DEF ProveVote, Prove, chainVars
  <2>2. /\ request \in Requests /\ request.block \in 0 .. block - 1
        /\ config = ConfigAt(request)
    BY <2>1 DEF ReadInv, PowerInv, Running
  <2>3. request.kind = "vote" /\ GuestAcceptsVote(config, request)
    BY <2>1, ExecutionUnreadable, Zenon DEF GuestAccepts
  <2>4. request.balance \in Nat /\ NamesOnce(request.data.listed)
    BY <2>2, <2>3, RequestTypes DEF ListsNameOnce
  <2>5. SoundState(chain[request.block])
    BY <2>2 DEF PowerInv
  <2>6. request.balance <= Entrusted(chain[request.block], request.voter)
    BY <2>2, <2>3, <2>4, <2>5, AttestedWithinEntrusted, Zenon DEF ConfigAt
  <2> QED
    BY <1>1, <2>1, <2>2, <2>4, <2>6
<1>3. CASE ~ProveVote
  <2>1. proved' = proved
    BY <1>3 DEF ZkNext, MineBlock, UseToken, CreateProposal, Delegate, Start, Compute,
                SendVote, allVars
  <2> QED
    BY <1>1, <2>1, ZenonT(30)
<1> QED
  BY <1>2, <1>3

(* The most that a voter has proved for a block is within what was         *)
(* entrusted to the voter.                                                 *)
LEMMA ProvedWithinEntrusted ==
  ASSUME PowerInv, NEW n \in 0 .. block - 1, NEW v
  PROVE  ProvedPower(v, n) \in Nat /\ ProvedPower(v, n) <= Entrusted(chain[n], v)
<1> DEFINE T == {0} \cup {r.balance : r \in {q \in proved : q.voter = v /\ q.block = n}}
           b == Entrusted(chain[n], v)
<1>1. b \in Nat
  BY EntrustedNat DEF PowerInv
<1>2. T \in SUBSET Nat /\ T # {} /\ \A x \in T : x <= b
  BY <1>1 DEF PowerInv
<1> HIDE DEF T, b
<1>3. \E m \in T : \A x \in T : m >= x
  BY <1>1, <1>2, LargestExists, ZenonT(30)
<1>4. Max(T) \in T
  BY <1>3 DEF Max
<1>5. ProvedPower(v, n) = Max(T)
  BY DEF ProvedPower, T
<1> QED
  BY <1>2, <1>4, <1>5, ZenonT(30) DEF b

(* Tokens never vote twice: where no list names an account twice, and      *)
(* every account has one delegate as in this module's registry, what all   *)
(* voters together can prove for a block is at most the supply of the      *)
(* token at that block, for any number of accounts, transfers, delegations *)
(* and proofs (the environment of publisher.rs at a fixed block).          *)
THEOREM PowerNeverTwice ==
  ASSUME ListsNameOnce
  PROVE  ZkSpec => []NoPowerTwice
<1>1. ZkInit => ChainInv /\ ReadInv /\ PowerInv
  <2> SUFFICES ASSUME ZkInit PROVE ChainInv /\ ReadInv /\ PowerInv
    OBVIOUS
  <2>1. ChainInv
    BY DEF ZkInit, ChainInit, ChainInv, State
  <2>2. ReadInv
    BY DEF ZkInit, ReadInv, Running
  <2>3. TokenInv
    BY TokenTypes, Zenon DEF ZkInit, ChainInit, TokenInv
  <2>4. registry \in [Accounts -> Registered]
    BY DEF ZkInit, ChainInit, Registered
  <2>5. SoundState(State)
    BY <2>3, <2>4 DEF TokenInv, SoundState, State
  <2>6. block = 1 /\ chain = [n \in {0} |-> State] /\ phase = "idle" /\ proved = {}
    BY Zenon DEF ZkInit, ChainInit
  <2>7. 0 .. block - 1 = {0}
    BY <2>6
  <2>8. DOMAIN chain = 0 .. block - 1 /\ \A n \in 0 .. block - 1 : SoundState(chain[n])
    BY <2>5, <2>6, <2>7, ZenonT(30)
  <2> QED
    BY <2>1, <2>2, <2>3, <2>4, <2>6, <2>8, ZenonT(30) DEF PowerInv, Running
<1>2. ChainInv /\ ReadInv /\ PowerInv /\ [ZkNext]_allVars => PowerInv'
  <2> SUFFICES ASSUME ChainInv, ReadInv, PowerInv, [ZkNext]_allVars PROVE PowerInv'
    OBVIOUS
  <2>1. TokenInv'
    BY TokenStep DEF PowerInv
  <2> QED
    BY <2>1, SoundChainStep, SameConfigStep, ProvedStep DEF PowerInv
<1>3. ASSUME PowerInv, NEW n \in DOMAIN chain
      PROVE  SumFunction([v \in Accounts |-> ProvedPower(v, n)]) <= chain[n].totalSupply
  <2> DEFINE s == chain[n]
             provedBy == [v \in Accounts |-> ProvedPower(v, n)]
             held == [v \in Accounts |-> Entrusted(s, v)]
             delegate == [a \in Accounts |-> s.registry[a][1].delegate]
             everyone == {a \in Accounts : delegate[a] \in Accounts}
             balances == s.balanceOf
  <2>1. n \in 0 .. block - 1 /\ SoundState(s) /\ IsFiniteSet(Accounts)
    BY <1>3, TokenTypes DEF PowerInv
  <2>2. \A v \in Accounts : /\ provedBy[v] \in Int /\ held[v] \in Int
                            /\ provedBy[v] <= held[v]
    BY <1>3, <2>1, ProvedWithinEntrusted, EntrustedNat, SMTT(60)
  <2>3. SumFunctionOnSet(provedBy, Accounts) <= SumFunctionOnSet(held, Accounts)
    <3> HIDE DEF provedBy, held
    <3> QED
      BY <2>1, <2>2, SumMonotone, ZenonT(30)
  <2>4. balances \in [Accounts -> Nat] /\ s.totalSupply = SumFunctionOnSet(balances, Accounts)
    BY <2>1, Zenon DEF SoundState
  <2>5. SumFunctionOnSet(held, Accounts) = SumFunctionOnSet(balances, everyone)
    <3> DEFINE group == [v \in Accounts |-> {a \in Accounts : s.registry[a][1].delegate = v}]
    <3>1. \A v \in Accounts : /\ group[v] \subseteq Accounts
                              /\ \A a \in Accounts : a \in group[v] <=> delegate[a] = v
      OBVIOUS
    <3>2. \A v \in Accounts : held[v] = SumFunctionOnSet(balances, group[v])
      BY DEF Entrusted
    <3>3. \A a \in Accounts : balances[a] \in Int
      BY <2>4
    <3>4. everyone \subseteq Accounts /\ \A a \in Accounts : a \in everyone <=> delegate[a] \in Accounts
      OBVIOUS
    <3> HIDE DEF held, balances, delegate, everyone, group
    <3> QED
      BY <2>1, <3>1, <3>2, <3>3, <3>4, SumGroups, SMTT(60)
  <2>6. SumFunctionOnSet(balances, everyone) <= SumFunctionOnSet(balances, Accounts)
    <3>1. everyone \in SUBSET Accounts
      OBVIOUS
    <3> HIDE DEF everyone, balances
    <3> QED
      BY <2>1, <2>4, <3>1, SumSubset, Zenon
  <2>7. /\ SumFunctionOnSet(provedBy, Accounts) \in Int
        /\ SumFunctionOnSet(held, Accounts) \in Int
        /\ SumFunctionOnSet(balances, Accounts) \in Int
    <3> HIDE DEF provedBy, held, balances
    <3> QED
      BY <2>1, <2>2, <2>4, SumInt, SMTT(60)
  <2>8. SumFunction(provedBy) = SumFunctionOnSet(provedBy, Accounts)
    BY DEF SumFunction
  <2> HIDE DEF provedBy, held, balances, everyone
  <2>9. SumFunction(provedBy) <= s.totalSupply
    BY <2>3, <2>4, <2>5, <2>6, <2>7, <2>8, SMTT(60)
  <2> QED
    BY <2>9 DEF provedBy
<1>4. PowerInv => NoPowerTwice
  BY <1>3 DEF NoPowerTwice
<1> QED
  BY <1>1, <1>2, <1>4, ChainStep, ReadStep, PTL DEF ZkSpec
=============================================================================
