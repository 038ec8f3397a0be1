------------------------------- MODULE Blocks -------------------------------
(***************************************************************************)
(* From the messages of a block to its contention analysis: each message   *)
(* names its accounts in a fixed order and says only by counts how it uses *)
(* them; RpcTransaction::resolve turns it into the lock sets and programs  *)
(* that Contention takes as given. What the senders meant is external: a   *)
(* transaction is declared, compiled to a message, resolved and analysed.  *)
(*                                                                         *)
(* Positions count from 0, as in the code. A program is never loaded from  *)
(* a lookup table by the message that calls it, and never written.         *)
(***************************************************************************)
EXTENDS Contention, SequencesExt

CONSTANT Programs       \* the accounts that hold programs

ASSUME ProgramsAssumption == /\ Programs \subseteq Accounts /\ VoteProgram \in Programs
                             /\ ProgramSets \subseteq SUBSET Programs

VARIABLE declared       \* history: what the sender of the last message meant

blockVars == <<vars, declared>>

-----------------------------------------------------------------------------
(* The senders                                                             *)

Use == {"unused", "writableSigner", "readonlySigner", "writable", "readonly",
        "loadedWritable", "loadedReadonly"}

\* A transaction as its sender means it: who pays, how it uses each account,
\* and the programs it calls.
Declarations ==
  {d \in [payer : Accounts \ Programs, calls : ProgramSets,
          use : {u \in [Accounts -> Use] :
                   \E c \in ProgramSets : \A p \in Programs :
                     u[p] = IF p \in c THEN "readonly" ELSE "unused"}] :
     /\ d.use[d.payer] = "writableSigner"
     /\ d.calls = {p \in Programs : d.use[p] = "readonly"}}

AccountsUsed(d, u) == {a \in Accounts : d.use[a] = u}

NoDeclaration == [payer |-> 0, calls |-> {}, use |-> [a \in Accounts |-> "unused"]]

\* The wire format: the payer leads the signers that write, then come the other
\* signers, the accounts written and those only read; the counts in the header
\* say where one kind ends and the next begins. The order within a kind is the
\* sender's.
Message(d) ==
  LET signers == <<d.payer>>
                   \o SetToSeq(AccountsUsed(d, "writableSigner") \ {d.payer})
                   \o SetToSeq(AccountsUsed(d, "readonlySigner"))
      others  == SetToSeq(AccountsUsed(d, "writable"))
                   \o SetToSeq(AccountsUsed(d, "readonly"))
      keys    == signers \o others
      Index(p) == (CHOOSE i \in DOMAIN keys : keys[i] = p) - 1
      programs == SetToSeq(d.calls)
  IN  [keys   |-> keys,
       header |-> [signatures       |-> Len(signers),
                   readonlySigned   |-> Cardinality(AccountsUsed(d, "readonlySigner")),
                   readonlyUnsigned |-> Cardinality(AccountsUsed(d, "readonly"))],
       loadedWritable |-> SetToSeq(AccountsUsed(d, "loadedWritable")),
       loadedReadonly |-> SetToSeq(AccountsUsed(d, "loadedReadonly")),
       instructions   |-> [k \in DOMAIN programs |-> Index(programs[k])]]

-----------------------------------------------------------------------------
(* Resolution                                                              *)

SaturatingSub(m, n) == IF n < m THEN m - n ELSE 0

LoadedBeforeStatic(msg) ==                       \* mutant of CombinedAccountKeys
  msg.loadedWritable \o msg.loadedReadonly \o msg.keys

\* Static keys, then the lookup table's writable set, then its readonly set.
CombinedAccountKeys(msg) == msg.keys \o msg.loadedWritable \o msg.loadedReadonly

LastReadonlyWrites(index, staticLen, h) ==       \* mutant of StaticKeyIsWritable
  IF index < h.signatures
  THEN index < SaturatingSub(h.signatures, h.readonlySigned)
  ELSE index <= SaturatingSub(staticLen, h.readonlyUnsigned)

\* Signers come first and the last of them only read; so do the last of the
\* other static keys.
StaticKeyIsWritable(index, staticLen, h) ==
  IF index < h.signatures
  THEN index < SaturatingSub(h.signatures, h.readonlySigned)
  ELSE index < SaturatingSub(staticLen, h.readonlyUnsigned)

\* RpcTransaction::resolve. An instruction that names no key is left out.
Resolve(msg) ==
  LET allKeys == CombinedAccountKeys(msg)
      W(i) == StaticKeyIsWritable(i - 1, Len(msg.keys), msg.header)
  IN  [writable |-> {msg.keys[i] : i \in {j \in DOMAIN msg.keys : W(j)}}
                      \cup ToSet(msg.loadedWritable),
       readonly |-> {msg.keys[i] : i \in {j \in DOMAIN msg.keys : ~W(j)}}
                      \cup ToSet(msg.loadedReadonly),
       programs |-> {allKeys[ix + 1] : ix \in {n \in ToSet(msg.instructions) :
                                                 n < Len(allKeys)}}]
-----------------------------------------------------------------------------
BlocksInit == Init /\ declared = NoDeclaration

\* RpcBlock::resolve, as far as the next transaction of the block, and its
\* analysis.
ResolveNext(d) ==
  /\ Place(Resolve(Message(d)))
  /\ declared' = d

AnotherBlock == NextBlock /\ declared' = NoDeclaration

BlocksNext == AnotherBlock \/ \E d \in Declarations : ResolveNext(d)

BlocksSpec == BlocksInit /\ [][BlocksNext]_blockVars
-----------------------------------------------------------------------------
(* Properties                                                              *)

Writes == {"writableSigner", "writable", "loadedWritable"}
Reads  == {"readonlySigner", "readonly", "loadedReadonly"}

\* Counts and positions give back what the sender meant: the accounts locked for
\* writing and for reading, the payer among the former, the programs called, and
\* whether it is a vote. A key on the wrong side of a count would invent a
\* conflict, or hide one.
ResolvedAsDeclared ==
  txs # <<>> =>
    LET tx == Last(txs)
    IN  /\ tx.writable = {a \in Accounts : declared.use[a] \in Writes}
        /\ tx.readonly = {a \in Accounts : declared.use[a] \in Reads}
        /\ tx.programs = declared.calls
        /\ IsVote(tx) <=> declared.calls = {VoteProgram}

\* Whatever the messages of a block, its analysis is a behaviour of Contention:
\* no account is locked twice by one transaction and no other account passes for
\* a program, which is what Contention's theorems assume of transactions.
AnalysedAsContention ==
  Init /\ [][NextBlock \/ (Last(txs') \in Tx /\ Place(Last(txs')))]_vars
=============================================================================
