---------------------------- MODULE ChainQuorum ----------------------------
(***************************************************************************)
(* Quorum reads of a chain (chain/quorumReads.ts) and the verifiers built  *)
(* on them: receipt canonicality (finalityVerifier.ts), purchases          *)
(* (purchaseVerifier.ts) and wallet proofs (quorumWalletProofVerifier.ts). *)
(*                                                                         *)
(* A read asks every provider, in stages that await each other; within a   *)
(* stage the answers come in any order while the chain grows, reorganises  *)
(* above its finalized height and finalizes.  At least one provider is     *)
(* honest, though it may lag; the others may answer anything.              *)
(***************************************************************************)
EXTENDS Integers, FiniteSets, FiniteSetsExt

CONSTANTS Providers, Honest,
          Tip,               \* the height of the chain
          MinimumQuorum,
          TxAt(_, _),        \* the transaction is in this block (height, branch)
          AccountCode(_, _), \* the wallet's code after this block
          TerminalCode(_, _),
          Nothing            \* no answer yet

ASSUME SomeHonest == Honest \subseteq Providers /\ Honest # {}

ChainBranches == {"a", "b"}
BlockHeights == 1..Tip

VARIABLES finalizedTo,  \* the chain's finalized height
          canon,        \* the branch of each block, final up to finalizedTo
          finalOf,      \* the finalized height an honest provider has seen
          payment,      \* what the transaction's Pay log says, and whether the wallet signed
          query,        \* the read in progress: [kind, stage, height, receipt]
          answers,      \* its current stage: per provider [receipt, head, hash, value]
          verdict

chainVars == <<finalizedTo, canon, finalOf, payment, query, answers, verdict>>

NoAnswers == [p \in Providers |-> [receipt |-> Nothing, head |-> Nothing, hash |-> Nothing, value |-> Nothing]]
NoReceipt == [block |-> 0, hash |-> "a"]
NoVerdict == [status |-> "none", block |-> 0, hash |-> "a", value |-> "empty"]
BlockReceipts == [block : BlockHeights, hash : ChainBranches]
AccountCodes == {"empty", "delegated", "contract", "pinned"}

ChainInit ==
    /\ finalizedTo = 0
    /\ canon = [n \in BlockHeights |-> "a"]
    /\ finalOf = [p \in Honest |-> 0]
    /\ payment \in [succeeded : BOOLEAN, payLog : BOOLEAN, beneficiary : BOOLEAN, signed : BOOLEAN]
    /\ query = [kind |-> "none", stage |-> 0, height |-> 0, receipt |-> NoReceipt]
    /\ answers = NoAnswers /\ verdict = NoVerdict

-----------------------------------------------------------------------------
(* The chain and its providers (external). *)
FinalizeBlock ==
    /\ finalizedTo < Tip
    /\ finalizedTo' = finalizedTo + 1
    /\ UNCHANGED <<canon, finalOf, payment, query, answers, verdict>>

Reorganise(from) ==
    /\ from > finalizedTo
    /\ canon' = [n \in BlockHeights |-> IF n >= from THEN (IF canon[n] = "a" THEN "b" ELSE "a") ELSE canon[n]]
    /\ UNCHANGED <<finalizedTo, finalOf, payment, query, answers, verdict>>

CatchUp(p) ==
    /\ finalOf[p] < finalizedTo
    /\ finalOf' = [finalOf EXCEPT ![p] = @ + 1]
    /\ UNCHANGED <<finalizedTo, canon, payment, query, answers, verdict>>

(* What an honest provider may answer now; one that lags may not know the transaction. *)
HonestReceipts(p) ==
    LET found == {r \in BlockReceipts : canon[r.block] = r.hash /\ TxAt(r.block, r.hash)}
    IN IF found = {} THEN {NoReceipt} ELSE found \cup {NoReceipt : r \in {s \in found : s.block > finalOf[p]}}

CodeAt(kind, n, b) == IF kind = "purchase" THEN TerminalCode(n, b) ELSE AccountCode(n, b)

(* The request a stage sends to every provider. *)
Asks(kind, stage) ==
    CASE stage = 0 -> {}
      [] stage = 1 -> IF kind \in {"receipt", "purchase"} THEN {"receipt", "head"} ELSE {"head"}
      [] stage = 2 -> IF kind = "call" THEN {"hash", "value"} ELSE {"hash"}
      [] OTHER -> {"value"}

Possible(p, field) ==
    CASE field = "receipt" -> IF p \in Honest THEN HonestReceipts(p) ELSE BlockReceipts \cup {NoReceipt}
      [] field = "head" -> IF p \in Honest THEN {finalOf[p]} ELSE 0..Tip
      [] field = "hash" -> IF p \in Honest THEN {canon[query.height]} ELSE ChainBranches
      [] OTHER -> IF p \in Honest THEN {CodeAt(query.kind, query.height, canon[query.height])} ELSE AccountCodes

-----------------------------------------------------------------------------
(* A verifier is called; fewer transports than the quorum are no read at all. *)
AskProviders(kind) ==
    /\ query.kind = "none" /\ Cardinality(Providers) >= MinimumQuorum
    /\ query' = [query EXCEPT !.kind = kind, !.stage = 1]
    /\ UNCHANGED <<finalizedTo, canon, finalOf, payment, answers, verdict>>

ProviderAnswers(p, field, v) ==
    /\ answers[p][field] = Nothing
    /\ answers' = [answers EXCEPT ![p][field] = v]
    /\ UNCHANGED <<finalizedTo, canon, finalOf, payment, query, verdict>>

(* The read ends. *)
EndRead(status, block, hash, value) ==
    /\ verdict' = [status |-> status, block |-> block, hash |-> hash, value |-> value]
    /\ query' = [query EXCEPT !.stage = 0]
    /\ answers' = NoAnswers
    /\ UNCHANGED <<finalizedTo, canon, finalOf, payment>>

(* A provider that does not answer, or answers with something malformed, ends the read: never a smaller quorum. *)
ProviderFails ==
    /\ query.stage # 0
    /\ EndRead("unavailable", 0, "a", "empty")

NextStage(height, receipt) ==
    /\ query' = [query EXCEPT !.stage = @ + 1, !.height = height, !.receipt = receipt]
    /\ answers' = NoAnswers
    /\ UNCHANGED <<finalizedTo, canon, finalOf, payment, verdict>>

-----------------------------------------------------------------------------
AnswersTo(field) == {answers[p][field] : p \in Providers}
StageComplete == query.stage # 0 /\ \A f \in Asks(query.kind, query.stage) : Nothing \notin AnswersTo(f)

Agreed(field) == Cardinality(AnswersTo(field)) = 1
TheAnswer(field) == CHOOSE v \in AnswersTo(field) : TRUE

LowestHead == Min(AnswersTo("head"))

(* A receipt nobody knows cannot be told from a pruned view, so it is not orphaned. *)
Missing == "not-found"

(* Stage 1: the receipt against the lowest finalized head; or that head alone. *)
ReadReceipt ==
    LET receipt == TheAnswer("receipt")
    IN /\ StageComplete /\ query.stage = 1 /\ query.kind \in {"receipt", "purchase"}
       /\ IF ~Agreed("receipt") THEN EndRead("disagreement", 0, "a", "empty")
          ELSE IF receipt = NoReceipt THEN EndRead(Missing, 0, "a", "empty")
          ELSE IF receipt.block > LowestHead THEN EndRead("above-finalized", receipt.block, receipt.hash, "empty")
          ELSE NextStage(receipt.block, receipt)

ReadHead ==
    /\ StageComplete /\ query.stage = 1 /\ query.kind \in {"wallet", "call"}
    /\ IF LowestHead = 0 THEN EndRead("unavailable", 0, "a", "empty")
       ELSE NextStage(LowestHead, NoReceipt)

(* verify of the purchase verifier on an agreed receipt, before it reads the terminal's code. *)
PayHolds == payment.succeeded /\ payment.payLog /\ payment.beneficiary

(* Stage 2: the block hash at the height, and what each verifier makes of it. *)
HashAsAgreed(hash) == TRUE   \* mutant: the receipt's own block hash is taken as canonical
Canonical(hash) == hash = query.receipt.hash

(* ... readFinalizedReceipt: the receipt's block must be the one at its height. *)
ReadHash ==
    LET hash == TheAnswer("hash")
        n == query.height
    IN /\ StageComplete /\ query.stage = 2 /\ query.kind \in {"receipt", "purchase"}
       /\ IF ~Agreed("hash") THEN EndRead("disagreement", 0, "a", "empty")
          ELSE IF ~Canonical(hash) THEN EndRead("orphaned", n, query.receipt.hash, "empty")
          ELSE IF query.kind = "receipt" THEN EndRead("verified", n, query.receipt.hash, "empty")
          ELSE IF ~PayHolds THEN EndRead("ineligible", n, hash, "empty")
          ELSE NextStage(n, query.receipt)

(* ... readCallAtFinalized: hash and value are asked for together, and both must be agreed. *)
ReadCall ==
    /\ StageComplete /\ query.stage = 2 /\ query.kind = "call"
    /\ IF Agreed("hash") /\ Agreed("value")
       THEN EndRead("ok", query.height, TheAnswer("hash"), TheAnswer("value"))
       ELSE EndRead("disagreement", 0, "a", "empty")

(* ... the wallet verifier: the agreed hash is reported with the verdict. *)
ReadWalletBlock ==
    /\ StageComplete /\ query.stage = 2 /\ query.kind = "wallet"
    /\ IF Agreed("hash") THEN NextStage(query.height, [block |-> query.height, hash |-> TheAnswer("hash")])
                         ELSE EndRead("unavailable", 0, "a", "empty")

(* Stage 3: the code at the block.  A terminal of other code is no purchase ... *)
ReadTerminalCode ==
    /\ StageComplete /\ query.stage = 3 /\ query.kind = "purchase"
    /\ IF Agreed("value")
       THEN EndRead(IF TheAnswer("value") = "pinned" THEN "verified" ELSE "ineligible",
                     query.height, query.receipt.hash, TheAnswer("value"))
       ELSE EndRead("unavailable", 0, "a", "empty")

(* ... and a contract wallet cannot be judged by its signature alone. *)
ReadAccountCode ==
    /\ StageComplete /\ query.stage = 3 /\ query.kind = "wallet"
    /\ IF Agreed("value") /\ TheAnswer("value") \in {"empty", "delegated"}
       THEN EndRead(IF payment.signed THEN "verified" ELSE "invalid",
                     query.height, query.receipt.hash, TheAnswer("value"))
       ELSE EndRead("unavailable", 0, "a", "empty")

ChainNext ==
    \/ FinalizeBlock \/ \E n \in BlockHeights : Reorganise(n) \/ \E p \in Honest : CatchUp(p)
    \/ \E kind \in {"receipt", "purchase", "wallet", "call"} : AskProviders(kind)
    \/ \E p \in Providers, f \in Asks(query.kind, query.stage) : \E v \in Possible(p, f) : ProviderAnswers(p, f, v)
    \/ ProviderFails \/ ReadReceipt \/ ReadHead \/ ReadHash \/ ReadCall \/ ReadWalletBlock
    \/ ReadTerminalCode \/ ReadAccountCode

ChainSpec == ChainInit /\ [][ChainNext]_chainVars

-----------------------------------------------------------------------------
FinalBlock(n, hash) == n <= finalizedTo /\ canon[n] = hash

(* A receipt is verified only in a block that is final, and in which the transaction is: one honest provider,
   lagging or not, is enough, and no reorganisation between the requests goes unnoticed. *)
VerifiedIsFinal ==
    query.kind \in {"receipt", "purchase"} /\ verdict.status = "verified"
      => FinalBlock(verdict.block, verdict.hash) /\ TxAt(verdict.block, verdict.hash)

(* A purchase is verified only for the payment the claim describes, made to a terminal with the manifest's
   code at the payment's block. *)
PurchaseIsThePayment ==
    query.kind = "purchase" /\ verdict.status = "verified"
      => /\ payment.succeeded /\ payment.payLog /\ payment.beneficiary
         /\ TerminalCode(verdict.block, canon[verdict.block]) = "pinned"

(* A receipt is called orphaned, which revokes leases, only when its block can never be canonical again. *)
OrphanedForGood ==
    verdict.status = "orphaned" => verdict.block \in 1..finalizedTo /\ canon[verdict.block] # verdict.hash

(* A wallet's method and an eth_call are decided on one final block: the code or value reported is the one
   the chain has there, whatever happened between the stages. *)
DecidedAtFinalState ==
    (query.kind = "wallet" /\ verdict.status = "verified") \/ (query.kind = "call" /\ verdict.status = "ok")
      => /\ FinalBlock(verdict.block, verdict.hash)
         /\ verdict.value = AccountCode(verdict.block, verdict.hash)

(* What a quorum read reports is so on the final chain: verified receipts, payments, orphans, codes and values,
   with one honest provider among any others and reorganisations between its stages (quorumReads.ts,
   purchaseVerifier.ts). *)
QuorumSafe ==
    /\ VerifiedIsFinal
    /\ PurchaseIsThePayment
    /\ OrphanedForGood
    /\ DecidedAtFinalState
=============================================================================
