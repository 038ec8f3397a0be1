------------------------------- MODULE Trades -------------------------------
(***************************************************************************)
(* What a transaction did, and what infer_trade makes of the balances       *)
(* around it. The chain is external: the fee payer, called the trader as in *)
(* the code, pays its fee, opens and closes token accounts against a rent   *)
(* deposit, wraps SOL, and moves tokens and SOL to and from others, in any  *)
(* order; or the transaction fails and only the fee is gone. The metadata   *)
(* has the balances before and after, and none of the steps.                *)
(*                                                                         *)
(* Amounts are raw integers of any decimals. SOL is the native balance;     *)
(* wrapped SOL is a mint like any other, whose unit is a lamport. An        *)
(* account that others hand to the trader within the transaction is left    *)
(* out: see the README.                                                     *)
(***************************************************************************)
EXTENDS Integers, FiniteSets, Functions

CONSTANTS
  TokenAccounts,  \* the token accounts a transaction may name
  MintOf,         \* the mint of each
  OpenedBy,       \* who each belongs to when it is opened
  Mints, WsolMint,
  Rent,           \* TOKEN_ACCOUNT_RENT_LAMPORTS
  Dust,           \* DUST_SOL, in lamports
  Fee,
  Amounts,        \* bound: what one step may move
  InitialAmount,  \* bound: what a token account holds before
  Funds,          \* bound: what the trader has before, enough for every step
  MaxSteps        \* bound: steps of one transaction

Party == {"trader", "other"}

ASSUME TradesAssumption ==
  /\ IsFiniteSet(TokenAccounts) /\ IsFiniteSet(Mints) /\ WsolMint \in Mints
  /\ MintOf \in [TokenAccounts -> Mints] /\ OpenedBy \in [TokenAccounts -> Party]
  /\ {Rent, Dust, Fee, InitialAmount, Funds, MaxSteps} \subseteq Nat /\ Amounts \subseteq Nat \ {0}

VARIABLES
  native,    \* the trader's lamports
  accounts,  \* the token accounts: who owns each, and what it holds
  pre,       \* the balances before the transaction
  moved,     \* history: tokens of each mint that came to the trader, net
  paid,      \* history: SOL that came to the trader, net
  deposits,  \* history: rent the trader deposited in accounts of others
  steps,     \* bounded by MaxSteps
  inferred   \* what infer_trade returned, or "running"

vars == <<native, accounts, pre, moved, paid, deposits, steps, inferred>>
history == <<moved, paid, deposits>>

NoAccount == [owner |-> "nobody", amount |-> 0]
Holding(who, n) == [owner |-> who, amount |-> n]

Owned(as, who) == {a \in TokenAccounts : as[a].owner = who}

Excluded == {"Failed", "NoBlockTime", "NoTokenMovement", "MultiHop", "NoSolLeg",
             "SameDirection", "WrapOrTransferOnly", "Dust"}

Result(reason, trade) == [reason |-> reason, trade |-> trade]
NoTrade == [mint |-> WsolMint, tokens |-> 0, sol |-> 0]
Trade(mint, tokens, sol) == Result("none", [mint |-> mint, tokens |-> tokens, sol |-> sol])
Exclude(reason) == Result(reason, NoTrade)
Running == Result("running", NoTrade)

\* The trader's accounts may be there before; those of others are, but for the
\* ones the trader may open.
Init ==
  /\ \E there \in SUBSET {a \in TokenAccounts : OpenedBy[a] = "trader"},
        new \in SUBSET {a \in TokenAccounts : OpenedBy[a] = "other"} :
       /\ Cardinality(new) <= 1
       /\ accounts = [a \in TokenAccounts |->
                        IF OpenedBy[a] = "trader"
                        THEN IF a \in there THEN Holding("trader", InitialAmount) ELSE NoAccount
                        ELSE IF a \in new THEN NoAccount ELSE Holding("other", InitialAmount)]
  /\ pre = [native |-> Funds, accounts |-> accounts]
  /\ native = Funds - Fee
  /\ moved = [mint \in Mints \ {WsolMint} |-> 0] /\ paid = 0 /\ deposits = 0
  /\ steps = 0 /\ inferred = Running
-----------------------------------------------------------------------------
(* The chain                                                               *)

Advance == inferred = Running /\ steps < MaxSteps /\ steps' = steps + 1

\* Tokens of the account's mint, or lamports if it wraps them, come to the trader
\* (or leave, if n is negative).
Came(a, n) ==
  IF MintOf[a] = WsolMint
  THEN paid' = paid + n /\ UNCHANGED moved
  ELSE moved' = [moved EXCEPT ![MintOf[a]] = @ + n] /\ UNCHANGED paid

\* The trader deposits the rent, in an account of its own or of somebody else.
Open(a) ==
  /\ Advance /\ accounts[a] = NoAccount
  /\ accounts' = [accounts EXCEPT ![a] = Holding(OpenedBy[a], 0)]
  /\ native' = native - Rent
  /\ deposits' = deposits + (IF OpenedBy[a] = "trader" THEN 0 ELSE Rent)
  /\ UNCHANGED <<pre, moved, paid, inferred>>

\* Only an empty account can be closed, or one of wrapped SOL: its lamports come
\* back with the deposit.
Close(a) ==
  /\ Advance /\ accounts[a].owner = "trader"
  /\ accounts[a].amount = 0 \/ MintOf[a] = WsolMint
  /\ accounts' = [accounts EXCEPT ![a] = NoAccount]
  /\ native' = native + Rent + accounts[a].amount
  /\ UNCHANGED <<pre, history, inferred>>

\* An account goes to another owner with all it holds, the deposit included.
HandAway(a) ==
  /\ Advance /\ accounts[a].owner = "trader"
  /\ accounts' = [accounts EXCEPT ![a].owner = "other"]
  /\ Came(a, -accounts[a].amount)
  /\ deposits' = deposits + Rent
  /\ UNCHANGED <<native, pre, inferred>>

Wrap(a, n) ==
  /\ Advance /\ accounts[a].owner = "trader" /\ MintOf[a] = WsolMint
  /\ accounts' = [accounts EXCEPT ![a].amount = @ + n]
  /\ native' = native - n
  /\ UNCHANGED <<pre, history, inferred>>

\* A transfer between two accounts of a mint, whoever owns them.
MoveTokens(a, b, n) ==
  /\ Advance /\ a # b /\ MintOf[a] = MintOf[b]
  /\ accounts[a].owner \in Party /\ accounts[b].owner \in Party
  /\ accounts[a].amount >= n
  /\ accounts' = [accounts EXCEPT ![a].amount = @ - n, ![b].amount = @ + n]
  /\ Came(a, IF accounts[a].owner = accounts[b].owner THEN 0
             ELSE IF accounts[b].owner = "trader" THEN n ELSE -n)
  /\ UNCHANGED <<native, pre, deposits, inferred>>

\* SOL is paid by the trader, or to it.
MoveSol(n) ==
  /\ Advance
  /\ native' = native + n /\ paid' = paid + n
  /\ UNCHANGED <<accounts, pre, moved, deposits, inferred>>
-----------------------------------------------------------------------------
(* infer_trade                                                             *)

\* What the trader holds more of in an account than before.
Growth(post) == [a \in TokenAccounts |-> post[a].amount - pre.accounts[a].amount]
Before == [a \in TokenAccounts |-> pre.accounts[a].amount]

ClosedForgotten(mint, post) ==                         \* mutant of ByMint
  SumFunctionOnSet(Growth(post), {a \in Owned(post, "trader") : MintOf[a] = mint})

\* Net movement of a mint: over the accounts the trader owns afterwards, less
\* what it held in those it no longer owns.
ByMint(mint, post) ==
  LET kept == {a \in Owned(post, "trader") : MintOf[a] = mint}
      gone == {a \in Owned(pre.accounts, "trader") \ Owned(post, "trader") : MintOf[a] = mint}
  IN  SumFunctionOnSet(Growth(post), kept) - SumFunctionOnSet(Before, gone)

RentLeftIn(nativeAfter, post) ==                       \* mutant of SolLamports
  nativeAfter - pre.native + Fee + ByMint(WsolMint, post)

\* The SOL leg: the native change with the fee added back and the rent of
\* accounts opened and closed taken out, joined by wrapped SOL.
SolLamports(nativeAfter, post) ==
  LET created == Owned(post, "trader") \ Owned(pre.accounts, "trader")
      closed  == Owned(pre.accounts, "trader") \ Owned(post, "trader")
  IN  nativeAfter - pre.native + Fee
        + (Cardinality(created) - Cardinality(closed)) * Rent
        + ByMint(WsolMint, post)

Abs(n) == IF n < 0 THEN -n ELSE n

InferTrade(failed, hasTime, nativeAfter, post) ==
  LET movers == {mint \in Mints \ {WsolMint} : ByMint(mint, post) # 0}
      sol    == SolLamports(nativeAfter, post)
      mint   == CHOOSE x \in movers : TRUE
      delta  == ByMint(mint, post)
  IN  CASE failed -> Exclude("Failed")
        [] ~failed /\ ~hasTime -> Exclude("NoBlockTime")
        [] OTHER ->
             IF movers = {} THEN Exclude(IF sol # 0 THEN "WrapOrTransferOnly" ELSE "NoTokenMovement")
             ELSE IF Cardinality(movers) > 1 THEN Exclude("MultiHop")
             ELSE IF sol = 0 THEN Exclude("NoSolLeg")
             ELSE IF (sol > 0) = (delta > 0) THEN Exclude("SameDirection")
             ELSE IF Abs(sol) < Dust THEN Exclude("Dust")
             ELSE Trade(mint, Abs(delta), Abs(sol))

\* The transaction is in a block with or without a time, and is analysed.
Succeed(hasTime) ==
  /\ inferred = Running
  /\ inferred' = InferTrade(FALSE, hasTime, native, accounts)
  /\ UNCHANGED <<native, accounts, pre, history, steps>>

\* Nothing it did remains, except that the fee is paid.
Revert ==
  /\ inferred = Running
  /\ native' = Funds - Fee /\ accounts' = pre.accounts
  /\ inferred' = InferTrade(TRUE, TRUE, native', accounts')
  /\ moved' = [mint \in Mints \ {WsolMint} |-> 0] /\ paid' = 0 /\ deposits' = 0
  /\ UNCHANGED <<pre, steps>>

Step ==
  \/ \E a \in TokenAccounts : Open(a) \/ Close(a) \/ HandAway(a)
  \/ \E a \in TokenAccounts, n \in Amounts : Wrap(a, n)
  \/ \E a, b \in TokenAccounts, n \in Amounts : MoveTokens(a, b, n)
  \/ \E n \in Amounts : MoveSol(n) \/ MoveSol(-n)

Next == Step \/ (\E hasTime \in BOOLEAN : Succeed(hasTime)) \/ Revert

Spec == Init /\ [][Next]_vars
-----------------------------------------------------------------------------
(* Properties                                                              *)

IsTrade == inferred.reason = "none"

\* The transaction succeeded in a block with a time.
Inferred == inferred.reason \notin {"running", "Failed", "NoBlockTime"}

Moved == {mint \in DOMAIN moved : moved[mint] # 0}

\* SOL that came to the trader, less what it deposited in accounts of others.
SolLeg == paid - deposits

\* A transaction is a trade exactly when, of all the steps it took, what remains
\* is one mint against SOL worth counting, and then the amounts are those: no
\* fee, no rent of its own accounts, no wrapping, and nothing the trader moved
\* between accounts of its own is in them, in whatever order it was done.
TradeIsTheExchange ==
  Inferred =>
    /\ IsTrade <=> /\ Cardinality(Moved) = 1 /\ Abs(SolLeg) >= Dust /\ SolLeg # 0
                   /\ \A mint \in Moved : (moved[mint] > 0) # (SolLeg > 0)
    /\ IsTrade => \E mint \in Moved :
                    inferred = Trade(mint, Abs(moved[mint]), Abs(SolLeg))

\* Every exclusion gives the true reason: "Every exclusion is counted".
ExclusionsExplained ==
  /\ inferred.reason = "Failed" => native = pre.native - Fee /\ accounts = pre.accounts
  /\ inferred.reason = "NoTokenMovement" => Moved = {} /\ SolLeg = 0
  /\ inferred.reason = "WrapOrTransferOnly" => Moved = {} /\ SolLeg # 0
  /\ inferred.reason = "MultiHop" => Cardinality(Moved) > 1
  /\ inferred.reason = "NoSolLeg" => Cardinality(Moved) = 1 /\ SolLeg = 0
  /\ inferred.reason = "SameDirection" => \A mint \in Moved : (moved[mint] > 0) = (SolLeg > 0)
  /\ inferred.reason = "Dust" => Cardinality(Moved) = 1 /\ SolLeg # 0 /\ Abs(SolLeg) < Dust

\* The only accounts of others the transaction touched are those it opened, and
\* it gave no account of its own away.
OnlyIntoNewAccounts ==
  /\ \A a \in TokenAccounts : accounts[a].owner \in {OpenedBy[a], "nobody"}
  /\ \A a \in Owned(pre.accounts, "other") : accounts[a] = pre.accounts[a]

\* "NoSolLeg: a token moved but SOL did not. Includes [...] after rent adjustment,
\* transfers into new accounts": tokens that went into new accounts, while nobody
\* was paid any SOL, are such a transfer, whoever the new accounts belong to.
TransfersHaveNoSolLeg ==
  Inferred /\ Cardinality(Moved) = 1 /\ paid = 0 /\ OnlyIntoNewAccounts
    => inferred.reason = "NoSolLeg"
=============================================================================
