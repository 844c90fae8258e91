------------------------------- MODULE Token --------------------------------
(***************************************************************************)
(* The ERC20 token that the repository deploys with its plugin.  Addition  *)
(* and subtraction are checked: a call that would leave the range reverts  *)
(* as a whole and is not a step.  Anyone may mint and burn.                *)
(***************************************************************************)
EXTENDS Integers, Functions

CONSTANTS
  Holders,           \* addresses
  MAX                \* type(uint256).max

VARIABLES
  totalSupply,
  balanceOf,
  allowance

vars == <<totalSupply, balanceOf, allowance>>

(* The amount is taken from one balance and then added to another, which   *)
(* may be the same one.                                                    *)
Moved(from, to, amount) ==
  LET taken == [balanceOf EXCEPT ![from] = @ - amount]
  IN [taken EXCEPT ![to] = @ + amount]

CanMove(from, to, amount) ==
  balanceOf[from] >= amount /\ Moved(from, to, amount)[to] <= MAX

Transfer(sender, recipient, amount) ==
  /\ CanMove(sender, recipient, amount)
  /\ balanceOf' = Moved(sender, recipient, amount)
  /\ UNCHANGED <<totalSupply, allowance>>

Approve(owner, spender, amount) ==
  /\ allowance' = [allowance EXCEPT ![owner][spender] = amount]
  /\ UNCHANGED <<totalSupply, balanceOf>>

(* The sender's balance is left as it is. *)
TransferFromAllowance(spender, sender, recipient, amount) ==
  /\ allowance[sender][spender] >= amount
  /\ CanMove(sender, recipient, amount)
  /\ allowance' = [allowance EXCEPT ![sender][spender] = @ - amount]
  /\ balanceOf' = [balanceOf EXCEPT ![recipient] = @ + amount]
  /\ UNCHANGED totalSupply

TransferFrom(spender, sender, recipient, amount) ==
  /\ allowance[sender][spender] >= amount
  /\ CanMove(sender, recipient, amount)
  /\ allowance' = [allowance EXCEPT ![sender][spender] = @ - amount]
  /\ balanceOf' = Moved(sender, recipient, amount)
  /\ UNCHANGED totalSupply

Mint(to, amount) ==
  /\ totalSupply + amount <= MAX /\ balanceOf[to] + amount <= MAX
  /\ balanceOf' = [balanceOf EXCEPT ![to] = @ + amount]
  /\ totalSupply' = totalSupply + amount
  /\ UNCHANGED allowance

Burn(from, amount) ==
  /\ balanceOf[from] >= amount /\ totalSupply >= amount
  /\ balanceOf' = [balanceOf EXCEPT ![from] = @ - amount]
  /\ totalSupply' = totalSupply - amount
  /\ UNCHANGED allowance

Next(Amounts) ==
  \E a, b \in Holders, n \in Amounts :
    \/ Transfer(a, b, n) \/ Approve(a, b, n) \/ Mint(a, n) \/ Burn(a, n)
    \/ \E c \in Holders : TransferFrom(c, a, b, n)

(* The balances add up to the total supply, transfers to oneself included. *)
SupplyIsSum == totalSupply = SumFunctionOnSet(balanceOf, Holders)
=============================================================================
