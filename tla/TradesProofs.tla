---------------------------- MODULE TradesProofs ----------------------------
(***************************************************************************)
(* Proofs about infer_trade, for every set of token accounts and mints and *)
(* every transaction: what the balances before and after add up to is what *)
(* the steps of the transaction moved.                                     *)
(***************************************************************************)
EXTENDS Trades, FiniteSums

-----------------------------------------------------------------------------
(* What the trader holds                                                   *)

Account == [owner : Party \cup {"nobody"}, amount : Nat]

OfMint(mint) == {a \in TokenAccounts : MintOf[a] = mint}

HeldIn(was) == [a \in TokenAccounts |-> IF was[a].owner = "trader" THEN was[a].amount ELSE 0]

Held(was, mint) == SumFunctionOnSet(HeldIn(was), OfMint(mint))

OwnedCount(was) == Cardinality(Owned(was, "trader"))

LEMMA OfMintFacts ==
  ASSUME NEW mint, NEW was \in [TokenAccounts -> Account]
  PROVE  /\ IsFiniteSet(OfMint(mint)) /\ OfMint(mint) \subseteq TokenAccounts
         /\ Integral(HeldIn(was), OfMint(mint))
         /\ Held(was, mint) \in Int
         /\ IsFiniteSet(Owned(was, "trader")) /\ OwnedCount(was) \in Nat
<1>1. IsFiniteSet(OfMint(mint)) /\ OfMint(mint) \subseteq TokenAccounts
  BY FS_Subset, TradesAssumption DEF OfMint
<1>2. \A a \in TokenAccounts : HeldIn(was)[a] \in Int
  <2>1. \A a \in TokenAccounts : was[a].amount \in Int
    BY DEF Account
  <2>. QED
    BY <2>1 DEF HeldIn
<1>3. Integral(HeldIn(was), OfMint(mint))
  BY <1>1, <1>2 DEF Integral
<1>4. IsFiniteSet(Owned(was, "trader"))
  BY FS_Subset, TradesAssumption DEF Owned
<1>. QED
  BY <1>1, <1>3, <1>4, SumOfOneMore, FS_CardinalityType DEF Held, OwnedCount

\* What a change of one account changes.
LEMMA HeldChanged ==
  ASSUME NEW was \in [TokenAccounts -> Account], NEW now \in [TokenAccounts -> Account],
         NEW a \in TokenAccounts, \A c \in TokenAccounts \ {a} : was[c] = now[c],
         NEW mint
  PROVE  Held(now, mint) = Held(was, mint)
           + (IF MintOf[a] = mint THEN HeldIn(now)[a] - HeldIn(was)[a] ELSE 0)
<1>1. \A c \in TokenAccounts \ {a} : HeldIn(was)[c] = HeldIn(now)[c]
  BY DEF HeldIn
<1>2. /\ IsFiniteSet(OfMint(mint)) /\ OfMint(mint) \subseteq TokenAccounts
      /\ Integral(HeldIn(was), OfMint(mint)) /\ Integral(HeldIn(now), OfMint(mint))
      /\ Held(was, mint) \in Int
  BY OfMintFacts
<1>3. CASE MintOf[a] = mint
  <2>1. a \in OfMint(mint)
    BY <1>3 DEF OfMint
  <2>2. \A c \in OfMint(mint) \ {a} : HeldIn(was)[c] = HeldIn(now)[c]
    BY <1>1, <1>2
  <2>3. Held(now, mint) = Held(was, mint) + (HeldIn(now)[a] - HeldIn(was)[a])
    BY <1>2, <2>1, <2>2, SumOfChanged DEF Held
  <2>. QED
    BY <1>3, <2>3
<1>4. CASE MintOf[a] # mint
  <2>1. \A c \in OfMint(mint) : HeldIn(was)[c] = HeldIn(now)[c]
    BY <1>1, <1>4 DEF OfMint
  <2>2. Held(now, mint) = Held(was, mint)
    BY <1>2, <2>1, SumOfSame DEF Held
  <2>3. Held(was, mint) = Held(was, mint) + 0
    BY <1>2
  <2>. QED
    BY <1>4, <2>2, <2>3
<1>. QED
  BY <1>3, <1>4

LEMMA OwnedChanged ==
  ASSUME NEW was \in [TokenAccounts -> Account], NEW now \in [TokenAccounts -> Account],
         NEW a \in TokenAccounts, \A c \in TokenAccounts \ {a} : was[c] = now[c]
  PROVE  OwnedCount(now) = OwnedCount(was)
           + ((IF now[a].owner = "trader" THEN 1 ELSE 0)
                - (IF was[a].owner = "trader" THEN 1 ELSE 0))
<1> DEFINE S == Owned(was, "trader")
           T == Owned(now, "trader")
<1>1. /\ IsFiniteSet(S) /\ Cardinality(S) \in Nat /\ OwnedCount(was) = Cardinality(S)
      /\ OwnedCount(now) = Cardinality(T)
  BY OfMintFacts DEF OwnedCount
<1>2. \A c \in TokenAccounts \ {a} : c \in S <=> c \in T
  BY DEF Owned
<1>3. /\ a \in S <=> was[a].owner = "trader"
      /\ a \in T <=> now[a].owner = "trader"
      /\ S \subseteq TokenAccounts /\ T \subseteq TokenAccounts
  BY DEF Owned
<1>. HIDE DEF S, T
<1>4. CASE a \in S /\ a \in T
  <2>1. S = T
    BY <1>2, <1>3, <1>4
  <2>2. OwnedCount(now) = OwnedCount(was) + (1 - 1)
    BY <1>1, <2>1
  <2>. QED
    BY <1>3, <1>4, <2>2
<1>5. CASE a \notin S /\ a \notin T
  <2>1. S = T
    BY <1>2, <1>3, <1>5
  <2>2. OwnedCount(now) = OwnedCount(was) + (0 - 0)
    BY <1>1, <2>1
  <2>. QED
    BY <1>3, <1>5, <2>2
<1>6. CASE a \notin S /\ a \in T
  <2>1. T = S \cup {a}
    BY <1>2, <1>3, <1>6
  <2>2. Cardinality(T) = Cardinality(S) + 1
    BY <1>1, <1>6, <2>1, FS_AddElement
  <2>3. OwnedCount(now) = OwnedCount(was) + (1 - 0)
    BY <1>1, <2>2
  <2>. QED
    BY <1>3, <1>6, <2>3
<1>7. CASE a \in S /\ a \notin T
  <2>1. T = S \ {a}
    BY <1>2, <1>3, <1>7
  <2>2. Cardinality(T) = Cardinality(S) - 1
    BY <1>1, <1>7, <2>1, FS_RemoveElement
  <2>3. OwnedCount(now) = OwnedCount(was) + (0 - 1)
    BY <1>1, <2>2
  <2>. QED
    BY <1>3, <1>7, <2>3
<1>. QED
  BY <1>4, <1>5, <1>6, <1>7

-----------------------------------------------------------------------------
(* The books of a transaction                                              *)

TypeInv ==
  /\ accounts \in [TokenAccounts -> Account]
  /\ pre \in [native : Int, accounts : [TokenAccounts -> Account]]
  /\ native \in Int /\ paid \in Int /\ deposits \in Int
  /\ moved \in [Mints \ {WsolMint} -> Int]
  /\ pre.native = Funds

\* Nobody else's account becomes the trader's, and what the trader opens was not
\* there before.
OwnersInv ==
  \A a \in TokenAccounts :
    /\ accounts[a].owner = "trader" => OpenedBy[a] = "trader"
    /\ pre.accounts[a].owner = "trader" => OpenedBy[a] = "trader"
    /\ OpenedBy[a] = "trader" => pre.accounts[a].owner # "other"
    /\ pre.accounts[a].owner = "nobody" => pre.accounts[a].amount = 0

\* What the trader holds more of each mint than before came to it; so did what it
\* has more of SOL, the fee left out and the rent and the wrapped SOL in its own
\* accounts counted, but for what it deposited in accounts of others.
BooksInv ==
  /\ \A mint \in Mints \ {WsolMint} :
       Held(accounts, mint) - Held(pre.accounts, mint) = moved[mint]
  /\ native - pre.native + Fee
       + (OwnedCount(accounts) - OwnedCount(pre.accounts)) * Rent
       + (Held(accounts, WsolMint) - Held(pre.accounts, WsolMint))
     = paid - deposits

\* The verdict is that of the balances the transaction left.
Verdict == InferTrade(FALSE, TRUE, native, accounts)

VerdictInv ==
  /\ inferred \in {Running, Exclude("Failed"), Exclude("NoBlockTime"), Verdict}
  /\ inferred.reason = "Failed" => native = pre.native - Fee /\ accounts = pre.accounts

TradesInv == TypeInv /\ OwnersInv /\ BooksInv /\ VerdictInv

LEMMA VerdictReasons ==
  Verdict.reason \notin {"Failed", "NoBlockTime", "running"}
BY DEF Verdict, InferTrade, Exclude, Trade, Result

LEMMA VerdictStays ==
  ASSUME native' = native, accounts' = accounts, pre' = pre
  PROVE  Verdict' = Verdict
BY DEF Verdict, InferTrade, ByMint, SolLamports, Growth, Before

LEMMA TradesInitially ==
  Init => TradesInv
<1>. SUFFICES ASSUME Init
              PROVE  TradesInv
  OBVIOUS
<1>1. PICK there \in SUBSET {a \in TokenAccounts : OpenedBy[a] = "trader"},
           new \in SUBSET {a \in TokenAccounts : OpenedBy[a] = "other"} :
        accounts = [a \in TokenAccounts |->
                      IF OpenedBy[a] = "trader"
                      THEN IF a \in there THEN Holding("trader", InitialAmount) ELSE NoAccount
                      ELSE IF a \in new THEN NoAccount ELSE Holding("other", InitialAmount)]
  BY DEF Init
<1>2. /\ pre = [native |-> Funds, accounts |-> accounts] /\ native = Funds - Fee
      /\ moved = [mint \in Mints \ {WsolMint} |-> 0] /\ paid = 0 /\ deposits = 0
      /\ inferred = Running
  BY DEF Init
<1>3. {Rent, Dust, Fee, InitialAmount, Funds, MaxSteps} \subseteq Nat
  BY TradesAssumption
<1>4. \A a \in TokenAccounts : accounts[a] \in Account
  BY <1>1, <1>3 DEF Holding, NoAccount, Account, Party
<1>5. accounts \in [TokenAccounts -> Account]
  BY <1>1, <1>4
<1>6. TypeInv
  BY <1>2, <1>3, <1>5 DEF TypeInv
<1>7. OwnersInv
  BY <1>1, <1>2 DEF OwnersInv, Holding, NoAccount
<1>8. BooksInv
  <2>1. \A mint : Held(accounts, mint) \in Int
    BY <1>5, OfMintFacts
  <2>2. OwnedCount(accounts) \in Nat
    BY <1>5, OfMintFacts
  <2>3. (OwnedCount(accounts) - OwnedCount(accounts)) * Rent = 0
    <3>1. OwnedCount(accounts) - OwnedCount(accounts) = 0
      BY <2>2
    <3>. QED
      BY <1>3, <3>1
  <2>4. \A mint : Held(accounts, mint) - Held(accounts, mint) = 0
    BY <2>1
  <2>. QED
    BY <1>2, <1>3, <2>3, <2>4 DEF BooksInv
<1>9. VerdictInv
  BY <1>2 DEF VerdictInv, Running, Result
<1>. QED
  BY <1>6, <1>7, <1>8, <1>9 DEF TradesInv

\* One account changes, and the trader's lamports with it.
LEMMA OneAccount ==
  ASSUME TypeInv, NEW a \in TokenAccounts, NEW now \in [TokenAccounts -> Account],
         \A c \in TokenAccounts \ {a} : accounts[c] = now[c],
         NEW grown \in Int, HeldIn(now)[a] = HeldIn(accounts)[a] + grown
  PROVE  /\ \A mint : Held(now, mint) =
              Held(accounts, mint) + (IF MintOf[a] = mint THEN grown ELSE 0)
         /\ OwnedCount(now) = OwnedCount(accounts)
              + ((IF now[a].owner = "trader" THEN 1 ELSE 0)
                   - (IF accounts[a].owner = "trader" THEN 1 ELSE 0))
<1>1. accounts \in [TokenAccounts -> Account] /\ accounts[a].amount \in Int
  BY DEF TypeInv, Account
<1>2. HeldIn(accounts)[a] \in Int
  BY <1>1 DEF HeldIn
<1>3. HeldIn(now)[a] - HeldIn(accounts)[a] = grown
  BY <1>2
<1>4. \A mint : Held(now, mint) = Held(accounts, mint)
        + (IF MintOf[a] = mint THEN HeldIn(now)[a] - HeldIn(accounts)[a] ELSE 0)
  BY <1>1, HeldChanged
<1>. QED
  BY <1>1, <1>3, <1>4, OwnedChanged

\* The numbers the books are about.
LEMMA BookNumbers ==
  ASSUME TypeInv
  PROVE  /\ \A mint : Held(accounts, mint) \in Int /\ Held(pre.accounts, mint) \in Int
         /\ OwnedCount(accounts) \in Int /\ OwnedCount(pre.accounts) \in Int
         /\ native \in Int /\ pre.native \in Int /\ paid \in Int /\ deposits \in Int
         /\ Rent \in Int /\ Fee \in Int /\ WsolMint \in Mints
         /\ \A mint \in Mints \ {WsolMint} : moved[mint] \in Int
         /\ \A a \in TokenAccounts : /\ accounts[a].amount \in Nat /\ MintOf[a] \in Mints
                                     /\ accounts[a].owner \in Party \cup {"nobody"}
                                     /\ OpenedBy[a] \in Party
<1>1. accounts \in [TokenAccounts -> Account] /\ pre.accounts \in [TokenAccounts -> Account]
  BY DEF TypeInv
<1>2. \A mint : Held(accounts, mint) \in Int /\ Held(pre.accounts, mint) \in Int
  BY <1>1, OfMintFacts
<1>3. OwnedCount(accounts) \in Int /\ OwnedCount(pre.accounts) \in Int
  BY <1>1, OfMintFacts
<1>4. \A a \in TokenAccounts : accounts[a] \in Account
  BY <1>1
<1>. QED
  BY <1>2, <1>3, <1>4, TradesAssumption DEF TypeInv, Account

\* What a step changes: `grown` tokens in an account of `mint`, `owned` accounts
\* more, `sol` lamports, and as much in the history.
Entered(mint, grown, owned, sol) ==
  /\ \A x : Held(accounts', x) = Held(accounts, x) + (IF mint = x THEN grown ELSE 0)
  /\ OwnedCount(accounts') = OwnedCount(accounts) + owned
  /\ native' = native + sol
  /\ \A x \in Mints \ {WsolMint} :
       moved'[x] = moved[x] + (IF mint = x THEN grown ELSE 0)
  /\ paid' - deposits' = (paid - deposits) + (sol + owned * Rent
                                                + (IF mint = WsolMint THEN grown ELSE 0))

\* The books balance after it.
LEMMA Balanced ==
  ASSUME TypeInv, BooksInv, NEW mint \in Mints, NEW grown \in Int, NEW owned \in Int,
         NEW sol \in Int, Entered(mint, grown, owned, sol), pre' = pre
  PROVE  BooksInv'
<1> DEFINE now == accounts'
           n == native'
           m == moved'
           p == paid'
           d == deposits'
<1>0. /\ \A x : Held(now, x) = Held(accounts, x) + (IF mint = x THEN grown ELSE 0)
      /\ OwnedCount(now) = OwnedCount(accounts) + owned
      /\ n = native + sol
      /\ \A x \in Mints \ {WsolMint} : m[x] = moved[x] + (IF mint = x THEN grown ELSE 0)
      /\ p - d = (paid - deposits) + (sol + owned * Rent
                                         + (IF mint = WsolMint THEN grown ELSE 0))
  BY DEF Entered
<1>. HIDE DEF now, n, m, p, d
<1>1. \A x \in Mints \ {WsolMint} : Held(now, x) - Held(pre.accounts, x) = m[x]
  <2>. TAKE x \in Mints \ {WsolMint}
  <2>1. /\ Held(accounts, x) \in Int /\ Held(pre.accounts, x) \in Int /\ moved[x] \in Int
        /\ Held(accounts, x) - Held(pre.accounts, x) = moved[x]
    BY BookNumbers DEF BooksInv
  <2>2. /\ Held(now, x) = Held(accounts, x) + (IF mint = x THEN grown ELSE 0)
        /\ m[x] = moved[x] + (IF mint = x THEN grown ELSE 0)
    BY <1>0
  <2>. QED
    BY <2>1, <2>2
<1>2. \A c, e, f \in Int : (c + f - e) * Rent = (c - e) * Rent + f * Rent
  BY TradesAssumption
<1>3. (OwnedCount(now) - OwnedCount(pre.accounts)) * Rent
        = (OwnedCount(accounts) - OwnedCount(pre.accounts)) * Rent + owned * Rent
  BY <1>0, <1>2, BookNumbers
<1>4. Held(now, WsolMint) = Held(accounts, WsolMint) + (IF mint = WsolMint THEN grown ELSE 0)
  BY <1>0
<1>5. native - pre.native + Fee
        + (OwnedCount(accounts) - OwnedCount(pre.accounts)) * Rent
        + (Held(accounts, WsolMint) - Held(pre.accounts, WsolMint)) = paid - deposits
  BY DEF BooksInv
<1> DEFINE R == (OwnedCount(accounts) - OwnedCount(pre.accounts)) * Rent
           r == owned * Rent
           G == IF mint = WsolMint THEN grown ELSE 0
           H == Held(accounts, WsolMint)
           B == Held(pre.accounts, WsolMint)
<1>6. R \in Int /\ r \in Int /\ G \in Int /\ H \in Int /\ B \in Int
  BY BookNumbers
<1>7. /\ native \in Int /\ pre.native \in Int /\ Fee \in Int /\ paid \in Int /\ deposits \in Int
  BY BookNumbers
<1>8. n - pre.native + Fee + (R + r) + ((H + G) - B) = p - d
  <2>1. native - pre.native + Fee + R + (H - B) = paid - deposits
    BY <1>5
  <2>2. p - d = (paid - deposits) + (sol + r + G) /\ n = native + sol
    BY <1>0
  <2>. HIDE DEF R, r, G, H, B
  <2>3. n - pre.native + Fee + (R + r) + ((H + G) - B)
          = (native - pre.native + Fee + R + (H - B)) + (sol + r + G)
    BY <1>6, <1>7, <2>2
  <2>. QED
    BY <2>1, <2>2, <2>3
<1>9. /\ \A x \in Mints \ {WsolMint} : Held(now, x) - Held(pre.accounts, x) = m[x]
      /\ n - pre.native + Fee
           + (OwnedCount(now) - OwnedCount(pre.accounts)) * Rent
           + (Held(now, WsolMint) - Held(pre.accounts, WsolMint))
         = p - d
  BY <1>1, <1>3, <1>4, <1>8
<1>. QED
  BY <1>9 DEF BooksInv, now, n, m, p, d

BalanceInv == TypeInv /\ OwnersInv /\ BooksInv

LEMMA OpenKeepsBooks ==
  ASSUME BalanceInv, NEW a \in TokenAccounts, Open(a)
  PROVE  BalanceInv'
<1>1. /\ accounts[a] = NoAccount
      /\ accounts' = [accounts EXCEPT ![a] = Holding(OpenedBy[a], 0)]
      /\ native' = native - Rent
      /\ deposits' = deposits + (IF OpenedBy[a] = "trader" THEN 0 ELSE Rent)
      /\ pre' = pre /\ moved' = moved /\ paid' = paid
  BY DEF Open
<1>2. TypeInv /\ OwnersInv /\ BooksInv
  BY DEF BalanceInv
<1>3. accounts' \in [TokenAccounts -> Account] /\ accounts'[a] = Holding(OpenedBy[a], 0)
  <2>1. Holding(OpenedBy[a], 0) \in Account
    BY <1>2, BookNumbers DEF Holding, Account
  <2>. QED
    BY <1>1, <1>2, <2>1 DEF TypeInv
<1>4. TypeInv'
  BY <1>1, <1>2, <1>3, BookNumbers DEF TypeInv
<1>5. OwnersInv'
  BY <1>1, <1>2, <1>3 DEF OwnersInv, Holding, TypeInv
<1>6. HeldIn(accounts')[a] = HeldIn(accounts)[a] + 0
  BY <1>1, <1>3 DEF HeldIn, Holding, NoAccount
<1> DEFINE owned == IF OpenedBy[a] = "trader" THEN 1 ELSE 0
<1>7. /\ \A mint : Held(accounts', mint) =
           Held(accounts, mint) + (IF MintOf[a] = mint THEN 0 ELSE 0)
      /\ OwnedCount(accounts') = OwnedCount(accounts) + owned
  <2>1. accounts'[a].owner = OpenedBy[a] /\ accounts[a].owner = "nobody"
    BY <1>1, <1>3 DEF Holding, NoAccount
  <2>2. \A c \in TokenAccounts \ {a} : accounts[c] = accounts'[c]
    BY <1>1
  <2>3. /\ \A mint : Held(accounts', mint) =
             Held(accounts, mint) + (IF MintOf[a] = mint THEN 0 ELSE 0)
        /\ OwnedCount(accounts') = OwnedCount(accounts)
             + ((IF accounts'[a].owner = "trader" THEN 1 ELSE 0)
                  - (IF accounts[a].owner = "trader" THEN 1 ELSE 0))
    BY <1>2, <1>3, <1>6, <2>2, OneAccount
  <2>. QED
    BY <2>1, <2>3
<1>8. /\ native' = native + (-Rent) /\ -Rent \in Int /\ owned \in Int /\ MintOf[a] \in Mints
      /\ paid' \in Int /\ deposits' \in Int
  BY <1>1, <1>2, BookNumbers
<1>9. paid' - deposits' = (paid - deposits) + ((-Rent) + owned * Rent
                             + (IF MintOf[a] = WsolMint THEN 0 ELSE 0))
  BY <1>1, <1>2, BookNumbers
<1>10. \A x \in Mints \ {WsolMint} :
         moved'[x] = moved[x] + (IF MintOf[a] = x THEN 0 ELSE 0)
  BY <1>1, <1>2, BookNumbers
<1>. HIDE DEF owned
<1>11. Entered(MintOf[a], 0, owned, -Rent)
  BY <1>1, <1>7, <1>8, <1>9, <1>10 DEF Entered
<1>12. BooksInv'
  BY <1>1, <1>2, <1>8, <1>11, Balanced
<1>. QED
  BY <1>4, <1>5, <1>12 DEF BalanceInv

LEMMA CloseKeepsBooks ==
  ASSUME BalanceInv, NEW a \in TokenAccounts, Close(a)
  PROVE  BalanceInv'
<1> DEFINE held == accounts[a].amount
<1>1. /\ accounts[a].owner = "trader" /\ (held = 0 \/ MintOf[a] = WsolMint)
      /\ accounts' = [accounts EXCEPT ![a] = NoAccount]
      /\ native' = native + Rent + held
      /\ deposits' = deposits /\ pre' = pre /\ moved' = moved /\ paid' = paid
  BY DEF Close, history
<1>2. TypeInv /\ OwnersInv /\ BooksInv
  BY DEF BalanceInv
<1>3. accounts' \in [TokenAccounts -> Account] /\ accounts'[a] = NoAccount
  <2>1. NoAccount \in Account
    BY DEF NoAccount, Account
  <2>. QED
    BY <1>1, <1>2, <2>1 DEF TypeInv
<1>4. held \in Int /\ -held \in Int /\ Rent \in Int
  BY <1>2, BookNumbers
<1>. HIDE DEF held
<1>5. TypeInv'
  BY <1>1, <1>2, <1>3, <1>4, BookNumbers DEF TypeInv
<1>6. OwnersInv'
  BY <1>1, <1>2, <1>3 DEF OwnersInv, NoAccount, TypeInv
<1>7. HeldIn(accounts')[a] = HeldIn(accounts)[a] + (-held)
  BY <1>1, <1>3, <1>4 DEF HeldIn, NoAccount, held
<1>8. /\ \A mint : Held(accounts', mint) =
           Held(accounts, mint) + (IF MintOf[a] = mint THEN -held ELSE 0)
      /\ OwnedCount(accounts') = OwnedCount(accounts) + (-1)
  <2>1. accounts'[a].owner = "nobody"
    BY <1>3 DEF NoAccount
  <2>2. \A c \in TokenAccounts \ {a} : accounts[c] = accounts'[c]
    BY <1>1
  <2>3. /\ \A mint : Held(accounts', mint) =
             Held(accounts, mint) + (IF MintOf[a] = mint THEN -held ELSE 0)
        /\ OwnedCount(accounts') = OwnedCount(accounts)
             + ((IF accounts'[a].owner = "trader" THEN 1 ELSE 0)
                  - (IF accounts[a].owner = "trader" THEN 1 ELSE 0))
    BY <1>2, <1>3, <1>4, <1>7, <2>2, OneAccount
  <2>4. OwnedCount(accounts') = OwnedCount(accounts) + (0 - 1)
    BY <1>1, <2>1, <2>3
  <2>. QED
    BY <2>3, <2>4
<1>9. /\ native' = native + (Rent + held) /\ Rent + held \in Int
      /\ MintOf[a] \in Mints
  BY <1>1, <1>2, <1>4, BookNumbers
<1>10. paid' - deposits' = (paid - deposits) + ((Rent + held) + (-1) * Rent
                              + (IF MintOf[a] = WsolMint THEN -held ELSE 0))
  BY <1>1, <1>2, <1>4, BookNumbers
<1>11. \A x \in Mints \ {WsolMint} :
         moved'[x] = moved[x] + (IF MintOf[a] = x THEN -held ELSE 0)
  BY <1>1, <1>2, BookNumbers
<1>12. Entered(MintOf[a], -held, -1, Rent + held)
  BY <1>8, <1>9, <1>10, <1>11 DEF Entered
<1>13. BooksInv'
  BY <1>1, <1>2, <1>4, <1>9, <1>12, Balanced
<1>. QED
  BY <1>5, <1>6, <1>13 DEF BalanceInv

LEMMA HandAwayKeepsBooks ==
  ASSUME BalanceInv, NEW a \in TokenAccounts, HandAway(a)
  PROVE  BalanceInv'
<1> DEFINE held == accounts[a].amount
<1>1. /\ accounts[a].owner = "trader"
      /\ accounts' = [accounts EXCEPT ![a].owner = "other"]
      /\ native' = native
      /\ deposits' = deposits + Rent /\ pre' = pre
      /\ IF MintOf[a] = WsolMint THEN paid' = paid + (-held) /\ moved' = moved
         ELSE moved' = [moved EXCEPT ![MintOf[a]] = @ + (-held)] /\ paid' = paid
  BY DEF HandAway, Came
<1>2. TypeInv /\ OwnersInv /\ BooksInv
  BY DEF BalanceInv
<1>3. /\ accounts' \in [TokenAccounts -> Account]
      /\ accounts'[a].owner = "other" /\ accounts'[a].amount = held
      /\ \A c \in TokenAccounts \ {a} : accounts[c] = accounts'[c]
  <2>1. accounts[a] \in Account /\ accounts \in [TokenAccounts -> Account]
    BY <1>2 DEF TypeInv
  <2>2. [accounts[a] EXCEPT !.owner = "other"] \in Account
    BY <2>1 DEF Account, Party
  <2>3. accounts' = [accounts EXCEPT ![a] = [accounts[a] EXCEPT !.owner = "other"]]
    BY <1>1
  <2>4. accounts'[a] = [accounts[a] EXCEPT !.owner = "other"]
    BY <2>1, <2>3
  <2>. QED
    BY <2>1, <2>2, <2>3, <2>4 DEF Account
<1>4. held \in Int /\ -held \in Int /\ Rent \in Int /\ MintOf[a] \in Mints
  BY <1>2, BookNumbers
<1>. HIDE DEF held
<1>5. TypeInv'
  BY <1>1, <1>2, <1>3, <1>4, BookNumbers DEF TypeInv
<1>6. OwnersInv'
  BY <1>1, <1>2, <1>3 DEF OwnersInv, TypeInv
<1>7. HeldIn(accounts')[a] = HeldIn(accounts)[a] + (-held)
  BY <1>1, <1>3, <1>4 DEF HeldIn, held
<1>8. /\ \A mint : Held(accounts', mint) =
           Held(accounts, mint) + (IF MintOf[a] = mint THEN -held ELSE 0)
      /\ OwnedCount(accounts') = OwnedCount(accounts) + (-1)
  <2>1. /\ \A mint : Held(accounts', mint) =
             Held(accounts, mint) + (IF MintOf[a] = mint THEN -held ELSE 0)
        /\ OwnedCount(accounts') = OwnedCount(accounts)
             + ((IF accounts'[a].owner = "trader" THEN 1 ELSE 0)
                  - (IF accounts[a].owner = "trader" THEN 1 ELSE 0))
    BY <1>2, <1>3, <1>4, <1>7, OneAccount
  <2>2. OwnedCount(accounts') = OwnedCount(accounts) + (0 - 1)
    BY <1>1, <1>3, <2>1
  <2>. QED
    BY <2>1, <2>2
<1>9. native' = native + 0
  BY <1>1, <1>2, BookNumbers
<1>10. paid' - deposits' = (paid - deposits) + (0 + (-1) * Rent
                              + (IF MintOf[a] = WsolMint THEN -held ELSE 0))
  BY <1>1, <1>2, <1>4, BookNumbers
<1>11. \A x \in Mints \ {WsolMint} :
         moved'[x] = moved[x] + (IF MintOf[a] = x THEN -held ELSE 0)
  BY <1>1, <1>2, <1>4, BookNumbers DEF TypeInv
<1>12. Entered(MintOf[a], -held, -1, 0)
  BY <1>8, <1>9, <1>10, <1>11 DEF Entered
<1>13. BooksInv'
  <2>1. pre' = pre /\ -1 \in Int
    BY <1>1
  <2>. QED
    BY <1>2, <1>4, <1>12, <2>1, Balanced
<1>. QED
  BY <1>5, <1>6, <1>13 DEF BalanceInv

\* Tokens that come to an account or leave it.
Credited(was, a, n) == [was EXCEPT ![a].amount = @ + n]

LEMMA AmountChanged ==
  ASSUME NEW was \in [TokenAccounts -> Account], NEW a \in TokenAccounts, NEW n \in Int,
         was[a].amount + n \in Nat
  PROVE  /\ Credited(was, a, n) \in [TokenAccounts -> Account]
         /\ \A c \in TokenAccounts : Credited(was, a, n)[c].owner = was[c].owner
         /\ \A c \in TokenAccounts \ {a} : was[c] = Credited(was, a, n)[c]
         /\ Credited(was, a, n)[a].amount = was[a].amount + n
         /\ HeldIn(Credited(was, a, n))[a]
              = HeldIn(was)[a] + (IF was[a].owner = "trader" THEN n ELSE 0)
<1> DEFINE now == Credited(was, a, n)
           acc == [was[a] EXCEPT !.amount = @ + n]
<1>1. was[a] \in Account
  OBVIOUS
<1>2. acc \in Account /\ acc.owner = was[a].owner /\ acc.amount = was[a].amount + n
  BY <1>1 DEF Account
<1>. HIDE DEF acc
<1>3. now = [was EXCEPT ![a] = acc]
  BY DEF acc, Credited
<1>. HIDE DEF now
<1>4. /\ now \in [TokenAccounts -> Account] /\ now[a] = acc
      /\ \A c \in TokenAccounts \ {a} : was[c] = now[c]
  BY <1>2, <1>3
<1>5. HeldIn(now)[a] = HeldIn(was)[a] + (IF was[a].owner = "trader" THEN n ELSE 0)
  <2>1. /\ HeldIn(now)[a] = IF was[a].owner = "trader" THEN was[a].amount + n ELSE 0
        /\ HeldIn(was)[a] = IF was[a].owner = "trader" THEN was[a].amount ELSE 0
    BY <1>2, <1>4 DEF HeldIn
  <2>. QED
    BY <2>1
<1>. QED
  BY <1>2, <1>4, <1>5 DEF now

LEMMA WrapKeepsBooks ==
  ASSUME BalanceInv, NEW a \in TokenAccounts, NEW n \in Amounts, Wrap(a, n)
  PROVE  BalanceInv'
<1>1. /\ accounts[a].owner = "trader" /\ MintOf[a] = WsolMint
      /\ accounts' = [accounts EXCEPT ![a].amount = @ + n]
      /\ native' = native - n
      /\ deposits' = deposits /\ pre' = pre /\ moved' = moved /\ paid' = paid
  BY DEF Wrap, history
<1>2. TypeInv /\ OwnersInv /\ BooksInv
  BY DEF BalanceInv
<1>3. n \in Nat /\ Rent \in Int /\ accounts[a].amount + n \in Nat /\ -n \in Int
  <2>1. n \in Nat /\ accounts[a].amount \in Nat
    BY <1>2, BookNumbers, TradesAssumption
  <2>. QED
    BY <2>1, TradesAssumption
<1>4. accounts \in [TokenAccounts -> Account]
  BY <1>2 DEF TypeInv
<1>5. /\ accounts' \in [TokenAccounts -> Account]
      /\ \A c \in TokenAccounts : accounts'[c].owner = accounts[c].owner
      /\ \A c \in TokenAccounts \ {a} : accounts[c] = accounts'[c]
      /\ HeldIn(accounts')[a] = HeldIn(accounts)[a] + n
  <2>1. accounts' = Credited(accounts, a, n) /\ accounts[a].owner = "trader"
    BY <1>1 DEF Credited
  <2>2. n \in Int
    BY <1>3
  <2>. QED
    BY <1>3, <1>4, <2>1, <2>2, AmountChanged
<1>6. TypeInv'
  BY <1>1, <1>2, <1>3, <1>5, BookNumbers DEF TypeInv
<1>7. OwnersInv'
  BY <1>1, <1>2, <1>5 DEF OwnersInv
<1>8. /\ \A mint : Held(accounts', mint) =
           Held(accounts, mint) + (IF MintOf[a] = mint THEN n ELSE 0)
      /\ OwnedCount(accounts') = OwnedCount(accounts) + 0
  <2>1. /\ \A mint : Held(accounts', mint) =
             Held(accounts, mint) + (IF MintOf[a] = mint THEN n ELSE 0)
        /\ OwnedCount(accounts') = OwnedCount(accounts)
             + ((IF accounts'[a].owner = "trader" THEN 1 ELSE 0)
                  - (IF accounts[a].owner = "trader" THEN 1 ELSE 0))
    BY <1>2, <1>3, <1>5, OneAccount
  <2>2. OwnedCount(accounts') = OwnedCount(accounts) + (1 - 1)
    BY <1>1, <1>5, <2>1
  <2>. QED
    BY <2>1, <2>2
<1>9. native' = native + (-n)
  BY <1>1, <1>2, <1>3, BookNumbers
<1>10. paid' - deposits' = (paid - deposits) + ((-n) + 0 * Rent
                              + (IF MintOf[a] = WsolMint THEN n ELSE 0))
  BY <1>1, <1>2, <1>3, BookNumbers
<1>11. \A x \in Mints \ {WsolMint} :
         moved'[x] = moved[x] + (IF MintOf[a] = x THEN n ELSE 0)
  BY <1>1, <1>2, BookNumbers
<1>12. Entered(MintOf[a], n, 0, -n)
  BY <1>8, <1>9, <1>10, <1>11 DEF Entered
<1>13. BooksInv'
  <2>1. pre' = pre /\ n \in Int /\ MintOf[a] \in Mints
    BY <1>1, <1>3, TradesAssumption
  <2>. QED
    BY <1>2, <1>3, <1>12, <2>1, Balanced
<1>. QED
  BY <1>6, <1>7, <1>13 DEF BalanceInv

LEMMA MoveSolKeepsBooks ==
  ASSUME BalanceInv, NEW n \in Int, MoveSol(n)
  PROVE  BalanceInv'
<1>1. /\ native' = native + n /\ paid' = paid + n
      /\ accounts' = accounts /\ deposits' = deposits /\ pre' = pre /\ moved' = moved
  BY DEF MoveSol
<1>2. TypeInv /\ OwnersInv /\ BooksInv
  BY DEF BalanceInv
<1>3. TypeInv' /\ OwnersInv'
  BY <1>1, <1>2 DEF TypeInv, OwnersInv
<1>4. /\ \A x : Held(accounts', x) = Held(accounts, x) + (IF WsolMint = x THEN 0 ELSE 0)
      /\ OwnedCount(accounts') = OwnedCount(accounts) + 0
      /\ \A x \in Mints \ {WsolMint} :
           moved'[x] = moved[x] + (IF WsolMint = x THEN 0 ELSE 0)
  BY <1>1, <1>2, BookNumbers
<1>5. paid' - deposits' = (paid - deposits) + (n + 0 * Rent
                             + (IF WsolMint = WsolMint THEN 0 ELSE 0))
  BY <1>1, <1>2, BookNumbers
<1>6. Entered(WsolMint, 0, 0, n)
  BY <1>1, <1>4, <1>5 DEF Entered
<1>7. BooksInv'
  BY <1>1, <1>2, <1>6, Balanced, TradesAssumption
<1>. QED
  BY <1>3, <1>7 DEF BalanceInv

LEMMA CreditedHeld ==
  ASSUME NEW was \in [TokenAccounts -> Account], NEW a \in TokenAccounts, NEW n \in Int,
         was[a].amount + n \in Nat
  PROVE  /\ \A mint : Held(Credited(was, a, n), mint) = Held(was, mint)
              + (IF MintOf[a] = mint /\ was[a].owner = "trader" THEN n ELSE 0)
         /\ OwnedCount(Credited(was, a, n)) = OwnedCount(was)
<1> DEFINE now == Credited(was, a, n)
           grown == IF was[a].owner = "trader" THEN n ELSE 0
<1>1. /\ now \in [TokenAccounts -> Account]
      /\ \A c \in TokenAccounts : now[c].owner = was[c].owner
      /\ \A c \in TokenAccounts \ {a} : was[c] = now[c]
      /\ HeldIn(now)[a] = HeldIn(was)[a] + grown
  BY AmountChanged
<1>2. was[a].amount \in Int
  BY DEF Account
<1>3. HeldIn(was)[a] \in Int
  BY <1>2 DEF HeldIn
<1>. HIDE DEF now
<1>4. HeldIn(now)[a] - HeldIn(was)[a] = grown
  BY <1>1, <1>3
<1>5. \A mint : Held(now, mint) = Held(was, mint)
        + (IF MintOf[a] = mint THEN HeldIn(now)[a] - HeldIn(was)[a] ELSE 0)
  BY <1>1, HeldChanged
<1>6. ASSUME NEW mint
      PROVE  Held(now, mint) = Held(was, mint)
               + (IF MintOf[a] = mint /\ was[a].owner = "trader" THEN n ELSE 0)
  BY <1>4, <1>5
<1>7. OwnedCount(now) = OwnedCount(was)
  <2>1. Owned(now, "trader") = Owned(was, "trader")
    BY <1>1 DEF Owned
  <2>. QED
    BY <2>1 DEF OwnedCount
<1>. QED
  BY <1>6, <1>7 DEF now

LEMMA MoveTokensKeepsBooks ==
  ASSUME BalanceInv, NEW a \in TokenAccounts, NEW b \in TokenAccounts, NEW n \in Amounts,
         MoveTokens(a, b, n)
  PROVE  BalanceInv'
<1> DEFINE mid == Credited(accounts, a, -n)
           came == IF accounts[a].owner = accounts[b].owner THEN 0
                   ELSE IF accounts[b].owner = "trader" THEN n ELSE -n
<1>1. /\ a # b /\ MintOf[a] = MintOf[b]
      /\ accounts[a].owner \in Party /\ accounts[b].owner \in Party
      /\ accounts[a].amount >= n
      /\ accounts' = [accounts EXCEPT ![a].amount = @ - n, ![b].amount = @ + n]
      /\ native' = native /\ pre' = pre /\ deposits' = deposits
      /\ Came(a, came)
  BY DEF MoveTokens
<1>2. TypeInv /\ OwnersInv /\ BooksInv
  BY DEF BalanceInv
<1>3. /\ n \in Nat /\ -n \in Int /\ MintOf[a] \in Mints
      /\ accounts[a].amount \in Nat /\ accounts[b].amount \in Nat
      /\ accounts \in [TokenAccounts -> Account]
  BY <1>2, BookNumbers, TradesAssumption DEF TypeInv
<1>4. came \in Int
  BY <1>3
<1>5. /\ accounts[a].amount + (-n) \in Nat /\ accounts[b].amount + n \in Nat
      /\ accounts[a].amount - n = accounts[a].amount + (-n)
  BY <1>1, <1>3
<1>6. /\ mid \in [TokenAccounts -> Account]
      /\ \A c \in TokenAccounts : mid[c].owner = accounts[c].owner
      /\ mid[b] = accounts[b]
      /\ \A mint : Held(mid, mint) = Held(accounts, mint)
           + (IF MintOf[a] = mint /\ accounts[a].owner = "trader" THEN -n ELSE 0)
      /\ OwnedCount(mid) = OwnedCount(accounts)
  BY <1>1, <1>3, <1>5, AmountChanged, CreditedHeld
<1>7. accounts' = Credited(mid, b, n)
  <2>1. mid = [accounts EXCEPT ![a].amount = @ - n]
    BY <1>3, <1>5 DEF Credited
  <2>. HIDE DEF mid
  <2>2. accounts' = [mid EXCEPT ![b].amount = accounts[b].amount + n]
    BY <1>1, <2>1
  <2>3. mid[b].amount = accounts[b].amount
    BY <1>6
  <2>. QED
    BY <2>2, <2>3 DEF Credited
<1>. HIDE DEF mid
<1>8. /\ accounts' \in [TokenAccounts -> Account]
      /\ \A c \in TokenAccounts : accounts'[c].owner = accounts[c].owner
      /\ \A mint : Held(accounts', mint) = Held(mid, mint)
           + (IF MintOf[b] = mint /\ accounts[b].owner = "trader" THEN n ELSE 0)
      /\ OwnedCount(accounts') = OwnedCount(accounts)
  <2>1. mid[b].amount + n \in Nat /\ n \in Int /\ mid[b].owner = accounts[b].owner
    BY <1>3, <1>5, <1>6
  <2>2. /\ accounts' \in [TokenAccounts -> Account]
        /\ \A c \in TokenAccounts : accounts'[c].owner = mid[c].owner
    BY <1>6, <1>7, <2>1, AmountChanged
  <2>3. /\ \A mint : Held(accounts', mint) = Held(mid, mint)
             + (IF MintOf[b] = mint /\ mid[b].owner = "trader" THEN n ELSE 0)
        /\ OwnedCount(accounts') = OwnedCount(mid)
    BY <1>6, <1>7, <2>1, CreditedHeld
  <2>. QED
    BY <1>6, <2>1, <2>2, <2>3
<1>9. /\ IF MintOf[a] = WsolMint THEN paid' = paid + came /\ moved' = moved
         ELSE moved' = [moved EXCEPT ![MintOf[a]] = @ + came] /\ paid' = paid
  BY <1>1 DEF Came
<1>10. \A mint : Held(accounts', mint) = Held(accounts, mint)
                   + (IF MintOf[a] = mint THEN came ELSE 0)
  <2>. TAKE mint
  <2>1. Held(accounts, mint) \in Int
    BY <1>2, BookNumbers
  <2>2. /\ Held(mid, mint) = Held(accounts, mint)
             + (IF MintOf[a] = mint /\ accounts[a].owner = "trader" THEN -n ELSE 0)
        /\ Held(accounts', mint) = Held(mid, mint)
             + (IF MintOf[a] = mint /\ accounts[b].owner = "trader" THEN n ELSE 0)
    BY <1>1, <1>6, <1>8
  <2>3. /\ accounts[a].owner = "trader" \/ accounts[a].owner = "other"
        /\ accounts[b].owner = "trader" \/ accounts[b].owner = "other"
    BY <1>1 DEF Party
  <2>. QED
    BY <1>3, <2>1, <2>2, <2>3
<1>. HIDE DEF came
<1>11. TypeInv'
  <2>1. native' = native /\ pre' = pre /\ deposits' = deposits
    BY <1>1
  <2>2. paid' \in Int /\ moved' \in [Mints \ {WsolMint} -> Int]
    BY <1>2, <1>3, <1>4, <1>9 DEF TypeInv
  <2>. QED
    BY <1>2, <1>8, <2>1, <2>2 DEF TypeInv
<1>12. OwnersInv'
  <2>1. pre' = pre
    BY <1>1
  <2>. QED
    BY <1>2, <1>8, <2>1 DEF OwnersInv
<1>13. paid' - deposits' = (paid - deposits) + (0 + 0 * Rent
                              + (IF MintOf[a] = WsolMint THEN came ELSE 0))
  <2>1. /\ deposits' = deposits /\ paid \in Int /\ deposits \in Int /\ Rent \in Int
    BY <1>1, <1>2, BookNumbers
  <2>. QED
    BY <1>4, <1>9, <2>1
<1>14. \A x \in Mints \ {WsolMint} :
         moved'[x] = moved[x] + (IF MintOf[a] = x THEN came ELSE 0)
  <2>1. moved \in [Mints \ {WsolMint} -> Int]
    BY <1>2 DEF TypeInv
  <2>. QED
    BY <1>3, <1>4, <1>9, <2>1
<1>15. Entered(MintOf[a], came, 0, 0)
  <2>1. native' = native + 0 /\ OwnedCount(accounts') = OwnedCount(accounts) + 0
    <3>1. native' = native /\ OwnedCount(accounts') = OwnedCount(accounts)
      BY <1>1, <1>8
    <3>2. native \in Int /\ OwnedCount(accounts) \in Int
      BY <1>2, BookNumbers
    <3>. QED
      BY <3>1, <3>2
  <2>. QED
    BY <1>10, <1>13, <1>14, <2>1 DEF Entered
<1>16. BooksInv'
  <2>1. pre' = pre
    BY <1>1
  <2>. QED
    BY <1>2, <1>3, <1>4, <1>15, <2>1, Balanced
<1>. QED
  BY <1>11, <1>12, <1>16 DEF BalanceInv

\* Nothing the transaction did remains, but the fee is gone.
LEMMA RevertKeepsBooks ==
  ASSUME BalanceInv, Revert
  PROVE  BalanceInv'
<1>1. /\ native' = Funds - Fee /\ accounts' = pre.accounts /\ pre' = pre
      /\ moved' = [mint \in Mints \ {WsolMint} |-> 0] /\ paid' = 0 /\ deposits' = 0
  BY DEF Revert
<1>2. TypeInv /\ OwnersInv /\ BooksInv
  BY DEF BalanceInv
<1>3. /\ Funds \in Int /\ Fee \in Int /\ Rent \in Int /\ pre.native = Funds
      /\ pre.accounts \in [TokenAccounts -> Account]
  BY <1>2, TradesAssumption DEF TypeInv
<1>4. TypeInv'
  BY <1>1, <1>2, <1>3 DEF TypeInv
<1>5. OwnersInv'
  BY <1>1, <1>2 DEF OwnersInv
<1>6. /\ \A mint : Held(pre.accounts, mint) - Held(pre.accounts, mint) = 0
      /\ (OwnedCount(pre.accounts) - OwnedCount(pre.accounts)) * Rent = 0
  <2>1. /\ \A mint : Held(pre.accounts, mint) \in Int
        /\ OwnedCount(pre.accounts) \in Int
    BY <1>2, BookNumbers
  <2>2. OwnedCount(pre.accounts) - OwnedCount(pre.accounts) = 0
    BY <2>1
  <2>3. 0 * Rent = 0
    BY <1>3
  <2>. QED
    BY <2>1, <2>2, <2>3
<1>7. BooksInv'
  <2>1. (Funds - Fee) - Funds + Fee + 0 + 0 = 0 - 0
    BY <1>3
  <2>. QED
    BY <1>1, <1>3, <1>6, <2>1 DEF BooksInv
<1>. QED
  BY <1>4, <1>5, <1>7 DEF BalanceInv

LEMMA BooksKept ==
  BalanceInv /\ [Next]_vars => BalanceInv'
<1>. SUFFICES ASSUME BalanceInv, [Next]_vars
              PROVE  BalanceInv'
  OBVIOUS
<1>1. CASE Step
  <2>1. ASSUME NEW a \in TokenAccounts, Open(a) \/ Close(a) \/ HandAway(a)
        PROVE  BalanceInv'
    BY <2>1, OpenKeepsBooks, CloseKeepsBooks, HandAwayKeepsBooks
  <2>2. ASSUME NEW a \in TokenAccounts, NEW n \in Amounts, Wrap(a, n)
        PROVE  BalanceInv'
    BY <2>2, WrapKeepsBooks
  <2>3. ASSUME NEW a \in TokenAccounts, NEW b \in TokenAccounts, NEW n \in Amounts,
               MoveTokens(a, b, n)
        PROVE  BalanceInv'
    BY <2>3, MoveTokensKeepsBooks
  <2>4. ASSUME NEW n \in Amounts, MoveSol(n) \/ MoveSol(-n)
        PROVE  BalanceInv'
    <3>1. n \in Int /\ -n \in Int
      BY TradesAssumption
    <3>. QED
      BY <2>4, <3>1, MoveSolKeepsBooks
  <2>. QED
    BY <1>1, <2>1, <2>2, <2>3, <2>4 DEF Step
<1>2. CASE UNCHANGED <<native, accounts, pre, history, steps>>
  BY <1>2 DEF BalanceInv, TypeInv, OwnersInv, BooksInv, history
<1>3. CASE Revert
  BY <1>3, RevertKeepsBooks
<1>4. CASE UNCHANGED vars
  BY <1>4 DEF vars, BalanceInv, TypeInv, OwnersInv, BooksInv
<1>5. ASSUME NEW hasTime \in BOOLEAN, Succeed(hasTime)
      PROVE  UNCHANGED <<native, accounts, pre, history, steps>>
  BY <1>5 DEF Succeed
<1>. QED
  BY <1>1, <1>2, <1>3, <1>4, <1>5 DEF Next

\* A verdict is given once, and nothing moves after it.
LEMMA VerdictKept ==
  TypeInv /\ VerdictInv /\ [Next]_vars => VerdictInv'
<1>. SUFFICES ASSUME TypeInv, VerdictInv, [Next]_vars
              PROVE  VerdictInv'
  OBVIOUS
<1>1. CASE Step
  <2>1. inferred = Running /\ inferred' = inferred
    BY <1>1 DEF Step, Open, Close, HandAway, Wrap, MoveTokens, MoveSol, Advance
  <2>. QED
    BY <2>1 DEF VerdictInv, Running, Result
<1>2. ASSUME NEW hasTime \in BOOLEAN, Succeed(hasTime)
      PROVE  VerdictInv'
  <2>1. /\ inferred' = InferTrade(FALSE, hasTime, native, accounts)
        /\ native' = native /\ accounts' = accounts /\ pre' = pre
    BY <1>2 DEF Succeed
  <2>2. CASE hasTime = FALSE
    <3>1. inferred' = Exclude("NoBlockTime")
      BY <2>1, <2>2 DEF InferTrade
    <3>. QED
      BY <3>1 DEF VerdictInv, Exclude, Result
  <2>3. CASE hasTime = TRUE
    <3>1. inferred' = Verdict /\ Verdict' = Verdict
      BY <2>1, <2>3, VerdictStays DEF Verdict
    <3>. QED
      BY <3>1, VerdictReasons DEF VerdictInv
  <2>. QED
    BY <2>2, <2>3
<1>3. CASE Revert
  <2>1. /\ inferred' = InferTrade(TRUE, TRUE, native', accounts')
        /\ native' = Funds - Fee /\ accounts' = pre.accounts /\ pre' = pre
        /\ pre.native = Funds
    BY <1>3 DEF Revert, TypeInv
  <2>2. inferred' = Exclude("Failed")
    BY <2>1 DEF InferTrade
  <2>. QED
    BY <2>1, <2>2 DEF VerdictInv
<1>4. CASE UNCHANGED vars
  <2>1. native' = native /\ accounts' = accounts /\ pre' = pre /\ inferred' = inferred
    BY <1>4 DEF vars
  <2>2. Verdict' = Verdict
    BY <2>1, VerdictStays
  <2>. QED
    BY <2>1, <2>2 DEF VerdictInv
<1>. QED
  BY <1>1, <1>2, <1>3, <1>4 DEF Next

LEMMA TradesInvariant ==
  Spec => []TradesInv
<1>1. TradesInv /\ [Next]_vars => TradesInv'
  BY BooksKept, VerdictKept DEF TradesInv, BalanceInv
<1>. QED
  BY <1>1, TradesInitially, PTL DEF Spec

-----------------------------------------------------------------------------
(* What the balances show                                                  *)

\* The net movement infer_trade finds is what the trader holds more than before,
\* in whichever accounts.
LEMMA ByMintIsHeld ==
  ASSUME TypeInv, OwnersInv, NEW mint
  PROVE  ByMint(mint, accounts) = Held(accounts, mint) - Held(pre.accounts, mint)
<1> DEFINE S == OfMint(mint)
           kept == {a \in Owned(accounts, "trader") : MintOf[a] = mint}
           gone == {a \in Owned(pre.accounts, "trader") \ Owned(accounts, "trader") :
                      MintOf[a] = mint}
           now == HeldIn(accounts)
           was == HeldIn(pre.accounts)
           grown == [a \in TokenAccounts |->
                       IF accounts[a].owner = "trader" THEN Growth(accounts)[a] ELSE 0]
           lost == [a \in TokenAccounts |->
                      IF pre.accounts[a].owner = "trader" /\ accounts[a].owner # "trader"
                      THEN Before[a] ELSE 0]
           both == [a \in TokenAccounts |-> now[a] + lost[a]]
<1>1. /\ accounts \in [TokenAccounts -> Account] /\ pre.accounts \in [TokenAccounts -> Account]
  BY DEF TypeInv
<1>2. /\ IsFiniteSet(S) /\ S \subseteq TokenAccounts
      /\ Integral(now, S) /\ Integral(was, S)
      /\ Held(accounts, mint) \in Int /\ Held(pre.accounts, mint) \in Int
  BY <1>1, OfMintFacts
<1>3. \A a \in TokenAccounts : accounts[a].amount \in Int /\ pre.accounts[a].amount \in Int
  BY <1>1 DEF Account
<1>4. \A a \in TokenAccounts : /\ Growth(accounts)[a] = accounts[a].amount - pre.accounts[a].amount
                               /\ Before[a] = pre.accounts[a].amount
                               /\ Growth(accounts)[a] \in Int /\ Before[a] \in Int
  BY <1>3 DEF Growth, Before
<1>5. \A a \in TokenAccounts : grown[a] \in Int /\ lost[a] \in Int
  BY <1>4
<1>6. kept \in SUBSET S /\ gone \in SUBSET S
  BY DEF OfMint, Owned
<1>7. SumFunctionOnSet(Growth(accounts), kept) = SumFunctionOnSet(grown, S)
  <2>1. Integral(grown, S) /\ Integral(Growth(accounts), kept)
    BY <1>2, <1>4, <1>5, <1>6 DEF Integral
  <2>2. \A a \in S \ kept : grown[a] = 0
    BY <1>2 DEF OfMint, Owned
  <2>3. \A a \in kept : Growth(accounts)[a] = grown[a]
    BY <1>2, <1>6 DEF Owned
  <2>4. IsFiniteSet(kept)
    BY <1>2, <1>6, FS_Subset
  <2>. HIDE DEF kept, grown, S
  <2>5. SumFunctionOnSet(Growth(accounts), kept) = SumFunctionOnSet(grown, kept)
    BY <2>1, <2>3, <2>4, SumOfSame
  <2>6. SumFunctionOnSet(grown, S) = SumFunctionOnSet(grown, kept)
    BY <1>2, <1>6, <2>1, <2>2, SumWithoutZeros
  <2>. QED
    BY <2>5, <2>6
<1>8. SumFunctionOnSet(Before, gone) = SumFunctionOnSet(lost, S)
  <2>1. Integral(lost, S) /\ Integral(Before, gone)
    BY <1>2, <1>4, <1>5, <1>6 DEF Integral
  <2>2. \A a \in S \ gone : lost[a] = 0
    BY <1>2 DEF OfMint, Owned
  <2>3. \A a \in gone : Before[a] = lost[a]
    BY <1>2, <1>6 DEF Owned
  <2>4. IsFiniteSet(gone)
    BY <1>2, <1>6, FS_Subset
  <2>. HIDE DEF gone, lost, S
  <2>5. SumFunctionOnSet(Before, gone) = SumFunctionOnSet(lost, gone)
    BY <2>1, <2>3, <2>4, SumOfSame
  <2>6. SumFunctionOnSet(lost, S) = SumFunctionOnSet(lost, gone)
    BY <1>2, <1>6, <2>1, <2>2, SumWithoutZeros
  <2>. QED
    BY <2>5, <2>6
<1>9. \A a \in TokenAccounts : both[a] = grown[a] + was[a]
  <2>. TAKE a \in TokenAccounts
  <2>1. accounts[a].owner = "trader" /\ pre.accounts[a].owner # "trader"
          => pre.accounts[a].amount = 0
    <3>1. pre.accounts[a].owner \in Party \cup {"nobody"}
      BY <1>1 DEF Account
    <3>. QED
      BY <3>1 DEF OwnersInv, Party
  <2>2. /\ now[a] = (IF accounts[a].owner = "trader" THEN accounts[a].amount ELSE 0)
        /\ was[a] = (IF pre.accounts[a].owner = "trader" THEN pre.accounts[a].amount ELSE 0)
        /\ grown[a] = (IF accounts[a].owner = "trader"
                       THEN accounts[a].amount - pre.accounts[a].amount ELSE 0)
        /\ lost[a] = (IF pre.accounts[a].owner = "trader" /\ accounts[a].owner # "trader"
                      THEN pre.accounts[a].amount ELSE 0)
        /\ both[a] = now[a] + lost[a]
    BY <1>4 DEF HeldIn
  <2>. QED
    BY <1>3, <2>1, <2>2
<1>10. Integral(grown, S) /\ Integral(lost, S)
  BY <1>2, <1>5 DEF Integral
<1>11. \A a \in S : both[a] = now[a] + lost[a] /\ both[a] = grown[a] + was[a]
  BY <1>2, <1>9
<1>. HIDE DEF S, now, was, grown, lost, both, kept, gone
<1>12. SumFunctionOnSet(both, S) = SumFunctionOnSet(now, S) + SumFunctionOnSet(lost, S)
  BY <1>2, <1>10, <1>11, SumOfSums
<1>13. SumFunctionOnSet(both, S) = SumFunctionOnSet(grown, S) + SumFunctionOnSet(was, S)
  BY <1>2, <1>10, <1>11, SumOfSums
<1>14. SumFunctionOnSet(grown, S) \in Int /\ SumFunctionOnSet(lost, S) \in Int
  BY <1>2, <1>10, SumOfOneMore
<1>15. Held(accounts, mint) = SumFunctionOnSet(now, S)
       /\ Held(pre.accounts, mint) = SumFunctionOnSet(was, S)
  BY DEF Held, S, now, was
<1>16. ByMint(mint, accounts) = SumFunctionOnSet(Growth(accounts), kept)
                                  - SumFunctionOnSet(Before, gone)
  BY DEF ByMint, kept, gone
<1>. QED
  BY <1>2, <1>7, <1>8, <1>12, <1>13, <1>14, <1>15, <1>16

\* The rent taken out is that of the accounts there are more.
LEMMA CreatedLessClosed ==
  ASSUME NEW S, NEW T, IsFiniteSet(S), IsFiniteSet(T)
  PROVE  Cardinality(T \ S) - Cardinality(S \ T) = Cardinality(T) - Cardinality(S)
<1>1. /\ IsFiniteSet(S \cap T) /\ IsFiniteSet(T \ S) /\ IsFiniteSet(S \ T)
  BY FS_Subset
<1>2. /\ Cardinality(T \ S) = Cardinality(T) - Cardinality(T \cap S)
      /\ Cardinality(S \ T) = Cardinality(S) - Cardinality(S \cap T)
  BY FS_Difference
<1>3. S \cap T = T \cap S
  OBVIOUS
<1>4. Cardinality(S) \in Nat /\ Cardinality(T) \in Nat /\ Cardinality(S \cap T) \in Nat
  BY <1>1, FS_CardinalityType
<1>5. /\ Cardinality(T \ S) = Cardinality(T) - Cardinality(S \cap T)
      /\ Cardinality(S \ T) = Cardinality(S) - Cardinality(S \cap T)
  BY <1>2, <1>3
<1>6. \A s, t, c \in Nat : (t - c) - (s - c) = t - s
  OBVIOUS
<1>. QED
  BY <1>4, <1>5, <1>6

LEMMA SolIsTheLeg ==
  ASSUME TypeInv, OwnersInv, BooksInv
  PROVE  SolLamports(native, accounts) = SolLeg
<1> DEFINE S == Owned(pre.accounts, "trader")
           T == Owned(accounts, "trader")
<1>1. IsFiniteSet(S) /\ IsFiniteSet(T)
  BY OfMintFacts DEF TypeInv
<1>2. Cardinality(T \ S) - Cardinality(S \ T) = OwnedCount(accounts) - OwnedCount(pre.accounts)
  BY <1>1, CreatedLessClosed DEF OwnedCount
<1>3. ByMint(WsolMint, accounts) = Held(accounts, WsolMint) - Held(pre.accounts, WsolMint)
  BY ByMintIsHeld
<1>4. SolLamports(native, accounts) =
        native - pre.native + Fee + (Cardinality(T \ S) - Cardinality(S \ T)) * Rent
          + ByMint(WsolMint, accounts)
  BY DEF SolLamports
<1>. QED
  BY <1>2, <1>3, <1>4 DEF BooksInv, SolLeg

LEMMA MovedFacts ==
  ASSUME TypeInv, OwnersInv, BooksInv
  PROVE  /\ {mint \in Mints \ {WsolMint} : ByMint(mint, accounts) # 0} = Moved
         /\ \A mint \in Moved : ByMint(mint, accounts) = moved[mint] /\ moved[mint] \in Int
         /\ IsFiniteSet(Moved) /\ Cardinality(Moved) \in Nat
         /\ SolLeg \in Int
<1>1. moved \in [Mints \ {WsolMint} -> Int] /\ paid \in Int /\ deposits \in Int
  BY DEF TypeInv
<1>2. \A mint \in Mints \ {WsolMint} : ByMint(mint, accounts) = moved[mint]
  BY ByMintIsHeld DEF BooksInv
<1>3. IsFiniteSet(Moved)
  <2>1. Moved \subseteq Mints
    BY <1>1 DEF Moved
  <2>. QED
    BY <2>1, FS_Subset, TradesAssumption
<1>. QED
  BY <1>1, <1>2, <1>3, FS_CardinalityType DEF Moved, SolLeg

\* So the verdict is one about what was moved and paid.
LEMMA VerdictOnHistory ==
  ASSUME TypeInv, OwnersInv, BooksInv, NEW mint, mint = CHOOSE x \in Moved : TRUE
  PROVE  Verdict =
           IF Moved = {} THEN Exclude(IF SolLeg # 0 THEN "WrapOrTransferOnly" ELSE "NoTokenMovement")
           ELSE IF Cardinality(Moved) > 1 THEN Exclude("MultiHop")
           ELSE IF SolLeg = 0 THEN Exclude("NoSolLeg")
           ELSE IF (SolLeg > 0) = (moved[mint] > 0) THEN Exclude("SameDirection")
           ELSE IF Abs(SolLeg) < Dust THEN Exclude("Dust")
           ELSE Trade(mint, Abs(moved[mint]), Abs(SolLeg))
<1>1. /\ {x \in Mints \ {WsolMint} : ByMint(x, accounts) # 0} = Moved
      /\ \A x \in Moved : ByMint(x, accounts) = moved[x]
  BY MovedFacts
<1>2. SolLamports(native, accounts) = SolLeg
  BY SolIsTheLeg
<1>3. Verdict =
        IF Moved = {} THEN Exclude(IF SolLeg # 0 THEN "WrapOrTransferOnly" ELSE "NoTokenMovement")
        ELSE IF Cardinality(Moved) > 1 THEN Exclude("MultiHop")
        ELSE IF SolLeg = 0 THEN Exclude("NoSolLeg")
        ELSE IF (SolLeg > 0) = (ByMint(mint, accounts) > 0) THEN Exclude("SameDirection")
        ELSE IF Abs(SolLeg) < Dust THEN Exclude("Dust")
        ELSE Trade(mint, Abs(ByMint(mint, accounts)), Abs(SolLeg))
  BY <1>1, <1>2 DEF Verdict, InferTrade
<1>4. Moved # {} => mint \in Moved
  OBVIOUS
<1>5. Moved # {} => ByMint(mint, accounts) = moved[mint]
  BY <1>1, <1>4
<1>. QED
  BY <1>3, <1>5

\* One mint moved.
LEMMA OneMoved ==
  ASSUME TypeInv, OwnersInv, BooksInv, NEW mint, mint = CHOOSE x \in Moved : TRUE
  PROVE  /\ Cardinality(Moved) = 0 <=> Moved = {}
         /\ Cardinality(Moved) = 1 => Moved = {mint} /\ moved[mint] \in Int
         /\ Moved # {} /\ ~(Cardinality(Moved) > 1) => Cardinality(Moved) = 1
<1>1. IsFiniteSet(Moved) /\ Cardinality(Moved) \in Nat
  BY MovedFacts
<1>2. Cardinality(Moved) = 0 <=> Moved = {}
  BY <1>1, FS_EmptySet
<1>3. ASSUME Cardinality(Moved) = 1
      PROVE  Moved = {mint} /\ moved[mint] \in Int
  <2>1. \E x : Moved = {x}
    BY <1>1, <1>3, FS_Singleton
  <2>2. Moved = {mint}
    BY <2>1
  <2>. QED
    BY <2>2, MovedFacts
<1>4. Moved # {} /\ ~(Cardinality(Moved) > 1) => Cardinality(Moved) = 1
  BY <1>1, <1>2
<1>. QED
  BY <1>2, <1>3, <1>4

LEMMA AbsFacts ==
  ASSUME NEW n \in Int
  PROVE  Abs(n) \in Nat /\ (n = 0 <=> Abs(n) = 0)
BY DEF Abs

LEMMA ResultFields ==
  /\ \A reason : Exclude(reason).reason = reason
  /\ \A mint, tokens, sol : Trade(mint, tokens, sol).reason = "none"
  /\ Running.reason = "running"
BY DEF Exclude, Trade, Running, Result

LEMMA TradesTold ==
  TradesInv => TradeIsTheExchange
<1>. SUFFICES ASSUME TradesInv, Inferred
              PROVE  /\ IsTrade <=> /\ Cardinality(Moved) = 1 /\ Abs(SolLeg) >= Dust /\ SolLeg # 0
                                    /\ \A m \in Moved : (moved[m] > 0) # (SolLeg > 0)
                     /\ IsTrade => \E m \in Moved :
                                     inferred = Trade(m, Abs(moved[m]), Abs(SolLeg))
  BY DEF TradeIsTheExchange
<1> DEFINE mint == CHOOSE x \in Moved : TRUE
<1>1. TypeInv /\ OwnersInv /\ BooksInv /\ VerdictInv
  BY DEF TradesInv
<1>2. inferred = Verdict
  BY <1>1, ResultFields DEF VerdictInv, Inferred
<1>3. inferred =
        IF Moved = {} THEN Exclude(IF SolLeg # 0 THEN "WrapOrTransferOnly" ELSE "NoTokenMovement")
        ELSE IF Cardinality(Moved) > 1 THEN Exclude("MultiHop")
        ELSE IF SolLeg = 0 THEN Exclude("NoSolLeg")
        ELSE IF (SolLeg > 0) = (moved[mint] > 0) THEN Exclude("SameDirection")
        ELSE IF Abs(SolLeg) < Dust THEN Exclude("Dust")
        ELSE Trade(mint, Abs(moved[mint]), Abs(SolLeg))
  BY <1>1, <1>2, VerdictOnHistory
<1>4. /\ Cardinality(Moved) = 0 <=> Moved = {}
      /\ Cardinality(Moved) = 1 => Moved = {mint} /\ moved[mint] \in Int
      /\ Moved # {} /\ ~(Cardinality(Moved) > 1) => Cardinality(Moved) = 1
      /\ SolLeg \in Int /\ Cardinality(Moved) \in Nat /\ Dust \in Nat
  BY <1>1, OneMoved, MovedFacts, TradesAssumption
<1>5. Abs(SolLeg) \in Nat
  BY <1>4, AbsFacts
<1>. HIDE DEF mint
<1>6. CASE Cardinality(Moved) # 1
  <2>1. Moved = {} \/ Cardinality(Moved) > 1
    BY <1>4, <1>6
  <2>2. ~IsTrade
    BY <1>3, <2>1, ResultFields DEF IsTrade
  <2>. QED
    BY <1>6, <2>2
<1>7. CASE Cardinality(Moved) = 1
  <2>1. /\ Moved = {mint} /\ moved[mint] \in Int /\ Moved # {} /\ ~(Cardinality(Moved) > 1)
    BY <1>4, <1>7
  <2>2. inferred =
          IF SolLeg = 0 THEN Exclude("NoSolLeg")
          ELSE IF (SolLeg > 0) = (moved[mint] > 0) THEN Exclude("SameDirection")
          ELSE IF Abs(SolLeg) < Dust THEN Exclude("Dust")
          ELSE Trade(mint, Abs(moved[mint]), Abs(SolLeg))
    BY <1>3, <2>1
  <2>3. IsTrade <=> /\ SolLeg # 0 /\ (SolLeg > 0) # (moved[mint] > 0)
                    /\ ~(Abs(SolLeg) < Dust)
    BY <2>2, ResultFields DEF IsTrade
  <2>4. ~(Abs(SolLeg) < Dust) <=> Abs(SolLeg) >= Dust
    BY <1>4, <1>5
  <2>5. (\A m \in Moved : (moved[m] > 0) # (SolLeg > 0)) <=> (SolLeg > 0) # (moved[mint] > 0)
    BY <2>1
  <2>6. IsTrade => inferred = Trade(mint, Abs(moved[mint]), Abs(SolLeg))
    BY <2>2, <2>3
  <2>. QED
    BY <1>7, <2>1, <2>3, <2>4, <2>5, <2>6
<1>. QED
  BY <1>6, <1>7

LEMMA ExclusionsTold ==
  TradesInv => ExclusionsExplained
<1>. SUFFICES ASSUME TradesInv
              PROVE  ExclusionsExplained
  OBVIOUS
<1> DEFINE mint == CHOOSE x \in Moved : TRUE
<1>1. TypeInv /\ OwnersInv /\ BooksInv /\ VerdictInv
  BY DEF TradesInv
<1>2. /\ inferred \in {Running, Exclude("Failed"), Exclude("NoBlockTime"), Verdict}
      /\ inferred.reason = "Failed" => native = pre.native - Fee /\ accounts = pre.accounts
  BY <1>1 DEF VerdictInv
<1>3. CASE inferred # Verdict
  <2>1. inferred.reason \in {"running", "Failed", "NoBlockTime"}
    BY <1>2, <1>3, ResultFields
  <2>. QED
    BY <1>2, <2>1 DEF ExclusionsExplained
<1>4. CASE inferred = Verdict
  <2>1. inferred =
          IF Moved = {} THEN Exclude(IF SolLeg # 0 THEN "WrapOrTransferOnly" ELSE "NoTokenMovement")
          ELSE IF Cardinality(Moved) > 1 THEN Exclude("MultiHop")
          ELSE IF SolLeg = 0 THEN Exclude("NoSolLeg")
          ELSE IF (SolLeg > 0) = (moved[mint] > 0) THEN Exclude("SameDirection")
          ELSE IF Abs(SolLeg) < Dust THEN Exclude("Dust")
          ELSE Trade(mint, Abs(moved[mint]), Abs(SolLeg))
    BY <1>1, <1>4, VerdictOnHistory
  <2>2. /\ Cardinality(Moved) = 1 => Moved = {mint} /\ moved[mint] \in Int
        /\ Moved # {} /\ ~(Cardinality(Moved) > 1) => Cardinality(Moved) = 1
    BY <1>1, OneMoved
  <2>. HIDE DEF mint
  <2>3. inferred.reason # "Failed"
    BY <2>1, ResultFields
  <2>4. /\ inferred.reason = "NoTokenMovement" => Moved = {} /\ SolLeg = 0
        /\ inferred.reason = "WrapOrTransferOnly" => Moved = {} /\ SolLeg # 0
        /\ inferred.reason = "MultiHop" => Cardinality(Moved) > 1
    BY <2>1, ResultFields
  <2>5. /\ inferred.reason = "NoSolLeg" => Cardinality(Moved) = 1 /\ SolLeg = 0
        /\ inferred.reason = "Dust" => Cardinality(Moved) = 1 /\ SolLeg # 0 /\ Abs(SolLeg) < Dust
        /\ inferred.reason = "SameDirection" =>
             Cardinality(Moved) = 1 /\ (SolLeg > 0) = (moved[mint] > 0)
    BY <2>1, <2>2, ResultFields
  <2>6. inferred.reason = "SameDirection" => \A m \in Moved : (moved[m] > 0) = (SolLeg > 0)
    BY <2>2, <2>5
  <2>. QED
    BY <2>3, <2>4, <2>5, <2>6 DEF ExclusionsExplained
<1>. QED
  BY <1>3, <1>4

\* What infer_trade calls a trade is one: one mint against SOL worth counting,
\* the amounts those of the steps, however many, in whatever order and over
\* however many accounts they were taken.
THEOREM TradesAreTheExchanges ==
  Spec => []TradeIsTheExchange
BY TradesInvariant, TradesTold, PTL

\* What is excluded is excluded for the reason given.
THEOREM ReasonsAreTrue ==
  Spec => []ExclusionsExplained
BY TradesInvariant, ExclusionsTold, PTL
=============================================================================
