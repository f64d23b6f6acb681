-------------------------- MODULE PurchaseEvidence --------------------------
(***************************************************************************)
(* What a transaction proves about a purchase: the purchase half of        *)
(* authority/purchases.ts.  A transaction is executed call by call, with   *)
(* routers, several payments and payments made from inside a hook; then    *)
(* every claim about it is judged.  A payment claim names a Pay log; a     *)
(* tier claim also names the HookAfterRecordPay log and the Mint logs, and *)
(* is supported by the call frames that emitted them.                      *)
(*                                                                         *)
(* The contracts are outside src/: a terminal logs Pay, calls the hook     *)
(* and logs HookAfterRecordPay; the hook logs Mint with its caller.        *)
(* The verifier that reads the receipt and the trace is honest about their *)
(* content but may pick any two frames.  Code hashes, ABI digests, block   *)
(* anchors and the project are fixed by the deployment.                    *)
(***************************************************************************)
EXTENDS Integers, Sequences, FiniteSets, SequencesExt

CONSTANTS
    Buyers,      \* beneficiaries
    MaxFrames,   \* bound on calls in the transaction
    MaxEvents    \* bound on logs in the receipt

VARIABLES
    frames,   \* calls: [from, to, parent, buyer, amount, hooked]
    events,   \* logs: [kind, frame, emitter, buyer, amount, caller]
    current,  \* the executing frame, 0 outside
    txState   \* "running", "succeeded" or "reverted"

purchaseVars == <<frames, events, current, txState>>

Terminals == {"terminal", "otherTerminal"}

(***************************************************************************)
(* The transaction (external).                                             *)
(***************************************************************************)
PurchaseInit ==
    /\ frames = << >> /\ events = << >>
    /\ current = 0 /\ txState = "running"

Executing == IF current = 0 THEN "wallet" ELSE frames[current].to

CallFrame(to, buyer, amount) ==
    [from |-> Executing, to |-> to, parent |-> current, buyer |-> buyer, amount |-> amount,
     hooked |-> FALSE]

Log(kind, frame, f) ==
    [kind |-> kind, frame |-> frame, emitter |-> f.to, buyer |-> f.buyer, amount |-> f.amount,
     caller |-> f.from]

CanCall ==
    /\ txState = "running"
    /\ Len(frames) < MaxFrames
    /\ current = 0 => frames = << >>

\* A wallet, a router or a hook pays a terminal, which logs Pay at once
CallPay ==
    /\ CanCall /\ Len(events) < MaxEvents
    /\ Executing \notin Terminals
    /\ \E to \in Terminals, buyer \in Buyers, amount \in 0..1 :
         LET f == CallFrame(to, buyer, amount)
         IN /\ frames' = Append(frames, f)
            /\ events' = Append(events, Log("Pay", Len(frames) + 1, f))
            /\ current' = Len(frames) + 1
    /\ UNCHANGED txState

\* A wallet or a hook calls a router
CallRouter ==
    /\ CanCall
    /\ Executing \in {"wallet", "hook"}
    /\ frames' = Append(frames, CallFrame("router", CHOOSE b \in Buyers : TRUE, 0))
    /\ current' = Len(frames) + 1
    /\ UNCHANGED <<events, txState>>

\* A terminal calls the tier hook once per payment, for the payment's buyer;
\* a router may call the hook too, to mint without a payment
CallHook ==
    /\ CanCall
    /\ \/ /\ Executing \in Terminals /\ ~frames[current].hooked
          /\ frames' = Append([frames EXCEPT ![current].hooked = TRUE],
                              CallFrame("hook", frames[current].buyer, frames[current].amount))
       \/ /\ Executing = "router"
          /\ \E buyer \in Buyers : frames' = Append(frames, CallFrame("hook", buyer, 0))
    /\ current' = Len(frames) + 1
    /\ UNCHANGED <<events, txState>>

HookMints ==
    /\ txState = "running" /\ Len(events) < MaxEvents
    /\ Executing = "hook"
    /\ events' = Append(events, Log("Mint", current, frames[current]))
    /\ UNCHANGED <<frames, current, txState>>

\* A call returns; the terminal whose hook call returns logs HookAfterRecordPay
ReturnCall ==
    /\ txState = "running" /\ current # 0
    /\ LET f == frames[current] IN
       /\ current' = f.parent
       /\ IF f.to = "hook" /\ f.from \in Terminals
          THEN /\ Len(events) < MaxEvents
               /\ events' = Append(events, Log("HookAfterRecordPay", f.parent, frames[f.parent]))
          ELSE UNCHANGED events
       /\ txState' \in IF f.parent = 0 THEN {"succeeded", "reverted"} ELSE {"running"}
    /\ UNCHANGED frames

PurchaseNext == CallPay \/ CallRouter \/ CallHook \/ HookMints \/ ReturnCall

PurchaseSpec == PurchaseInit /\ [][PurchaseNext]_purchaseVars

(***************************************************************************)
(* Claims and their validation.                                            *)
(***************************************************************************)
Indices(kind, emitter) ==
    {i \in 1..Len(events) : events[i].kind = kind /\ events[i].emitter = emitter}

Logged(kind) == {i \in 1..Len(events) : events[i].kind = kind}

\* Claims that name logs of the right kinds
TierClaims ==
    {[pay |-> p, after |-> a, mints |-> m, buyer |-> b] :
       p \in Logged("Pay"), a \in Logged("HookAfterRecordPay"),
       m \in SUBSET Logged("Mint"), b \in Buyers}

\* parseCanonicalPurchaseClaim: Mint logs lie between Pay and the after-pay log
ClaimWellFormed(c) ==
    /\ c.mints # {}
    /\ \A m \in c.mints : c.pay < m /\ m < c.after

\* A slip: the receipt's status is not looked at
ReceiptPresent == txState # "running"

\* parseCanonicalReceiptProof: only a successful transaction is evidence
ReceiptProved == txState = "succeeded"

\* parseTerminal, parseTierHook: the contracts of the pinned deployment, with
\* the manifest, the adapter revision and the code hash expected of them
TrustedTerminal == "terminal"
TrustedHook == "hook"

\* parsePurchaseCommon, parsePay: the Pay log of the trusted
\* terminal at the claimed index, for the claimed beneficiary
PayBinds(pay, buyer) ==
    /\ ReceiptProved
    /\ events[pay].kind = "Pay"
    /\ events[pay].emitter = TrustedTerminal
    /\ events[pay].buyer = buyer

\* A payment claim; a payment of nothing proves nothing by itself
PaymentAccepted(pay, buyer) ==
    PayBinds(pay, buyer) /\ events[pay].amount # 0

\* The after-pay context repeats the fields of the Pay log
AfterPayBinds(c) ==
    LET a == events[c.after]
        p == events[c.pay]
    IN /\ a.kind = "HookAfterRecordPay"
       /\ a.emitter = TrustedTerminal
       /\ a.buyer = p.buyer /\ a.amount = p.amount /\ a.caller = p.caller

\* parseMints: Mint logs of the trusted hook, called by the terminal, for the
\* same beneficiary, between the two other logs
MintsBind(c) ==
    \A m \in c.mints :
      /\ events[m].kind = "Mint"
      /\ events[m].emitter = TrustedHook
      /\ events[m].caller = TrustedTerminal
      /\ events[m].buyer = events[c.pay].buyer
      /\ c.pay < m /\ m < c.after

\* The inventory of the whole receipt has no other Pay, after-pay or Mint log
\* of the expected emitters
InventoryExclusive(c) ==
    /\ Indices("Pay", TrustedTerminal) = {c.pay}
    /\ Indices("HookAfterRecordPay", TrustedTerminal) = {c.after}
    /\ Indices("Mint", TrustedHook) = c.mints

EmittedBy(f) == {i \in 1..Len(events) : events[i].frame = f /\ events[i].emitter \in {TrustedTerminal, TrustedHook}}

\* One terminal frame emitted Pay and the after-pay log, and its direct child
\* call of the hook emitted every Mint
FramesBind(c, tf, hf) ==
    /\ frames[tf].to = TrustedTerminal
    /\ frames[tf].from = events[c.pay].caller
    /\ EmittedBy(tf) = {c.pay, c.after}
    /\ frames[hf].from = TrustedTerminal
    /\ frames[hf].to = TrustedHook
    /\ EmittedBy(hf) = c.mints
    /\ frames[hf].parent = tf

TraceCorrelates(c, tf, hf) == InventoryExclusive(c) /\ FramesBind(c, tf, hf)

\* parseCanonicalPurchaseEvidence for a tier claim
TierAccepted(c, tf, hf) ==
    /\ ClaimWellFormed(c)
    /\ PayBinds(c.pay, c.buyer)
    /\ AfterPayBinds(c)
    /\ MintsBind(c)
    /\ TraceCorrelates(c, tf, hf)

Supported(c) == \E tf, hf \in 1..Len(frames) : TierAccepted(c, tf, hf)

(***************************************************************************)
(* Properties.                                                             *)
(***************************************************************************)
\* The payment that a Mint belongs to: the terminal call whose call of the
\* hook logged it
PaymentOf(m) ==
    LET hf == events[m].frame
    IN IF frames[hf].from = "terminal" THEN frames[hf].parent ELSE 0

\* A supported tier claim is about items that really were minted, all of them
\* and nothing else, by the payment the claim names and for its beneficiary,
\* in whatever way payments and hook calls are nested
\* (parseTierCorrelationEvidence).
MintsBelongToPayment ==
    txState # "running" =>
      \A c \in TierClaims :
        Supported(c) =>
          /\ txState = "succeeded"
          /\ c.mints = {m \in Indices("Mint", "hook") : PaymentOf(m) = events[c.pay].frame}
          /\ \A m \in c.mints : events[m].buyer = c.buyer

\* No item and no payment supports two different claims, and a payment that
\* supports a tier claim supports a payment claim of nobody else
\* (parseTierCorrelationEvidence, parsePurchaseCommon).
OneClaimPerItem ==
    txState = "succeeded" =>
      \A c, d \in {c \in TierClaims : Supported(c)} :
        /\ c.mints \cap d.mints # {} \/ c.pay = d.pay => c = d
        /\ \A b \in Buyers : PaymentAccepted(c.pay, b) => b = c.buyer

\* A plain purchase is never refused: one payment with items, however it was
\* routed, supports its claim, also when the payment is of nothing
\* (parseCanonicalPurchaseEvidence).
PlainPurchaseAccepted ==
    LET pays  == Indices("Pay", "terminal")
        mints == Indices("Mint", "hook")
    IN txState = "succeeded" /\ Cardinality(pays) = 1 /\ mints # {}
       /\ (\A m \in mints : frames[events[m].frame].from = "terminal")
       => \E c \in TierClaims : Supported(c)

\* Purchase claims and payments match, in both directions and in whatever way the
\* transaction nests them: a supported claim has its payment and exactly its items
\* to itself, and a plain purchase has its claim
\* (parseCanonicalPurchaseEvidence).
ClaimsMatchPayments ==
    /\ OneClaimPerItem
    /\ MintsBelongToPayment
    /\ PlainPurchaseAccepted
=============================================================================
