------------------------------ MODULE MultiSig ------------------------------
(***************************************************************************)
(* The multi-signature wallet, systemContract/multisig/multisig.cpp.       *)
(*                                                                         *)
(* callTransfer pays the destination and, when the destination is a        *)
(* contract, runs its code before executeTransaction stores the            *)
(* transaction; that code may call the wallet again.  The calls that are   *)
(* waiting for their transfer to return are the stack frames.  A frame     *)
(* keeps the states to which a failure returns, since the virtual machine  *)
(* undoes all that a failed call did.  A call whose BCWasmAssert fails     *)
(* changes nothing, and is no step here.                                   *)
(***************************************************************************)
EXTENDS Integers, Sequences, FiniteSets

CONSTANTS
    Accounts,    \* who may send a transaction
    Plain,       \* destinations without code
    Contracts,   \* destinations with code
    Values,      \* amounts
    MaxTx,       \* bound: transactions submitted
    MaxDepth,    \* bound: nested transfers
    Funds        \* bound: what the wallet ever receives

ASSUME AccountsAssumption == IsFiniteSet(Accounts)
ASSUME DestinationsAssumption == Plain \cap Contracts = {}
ASSUME ValuesAssumption == Values \subseteq Nat
ASSUME BoundsAssumption == MaxTx \in Nat /\ MaxDepth \in Nat /\ Funds \in Nat

kMaxOwnerCount == 50

VARIABLES
    wallet,   \* what is stored, with the wallet's balance and what it paid
    frames,   \* the calls of executeTransaction whose transfer is running
    origin    \* the sender of the transaction that is being executed

vars == <<wallet, frames, origin>>

Destinations == Plain \cup Contracts
Ids == 1 .. MaxTx
Transaction == [destination : Destinations, value : Nat,
                executed : BOOLEAN, pending : BOOLEAN]

\* The map of a ConfirmID: who has confirmed, or has revoked the confirmation.
Confirms == UNION {[S -> BOOLEAN] : S \in SUBSET Accounts}
NoConfirms == [o \in {} |-> FALSE]

Wallet == [owners : SUBSET Accounts, required : Nat, txs : Seq(Transaction),
           confirms : [Ids -> Confirms], balance : Int, paid : [Ids -> Nat]]

Running == frames # << >>
Top == frames[Len(frames)]
Pop == SubSeq(frames, 1, Len(frames) - 1)

\* A call comes in a transaction of its own, or from the code that a running
\* transfer has called, and then has the same origin.
Calls(sender) ==
    /\ origin' = sender
    /\ Running => sender = origin

Init ==
    /\ wallet = [owners |-> {}, required |-> 0, txs |-> << >>,
                 confirms |-> [id \in Ids |-> NoConfirms],
                 balance |-> 0, paid |-> [id \in Ids |-> 0]]
    /\ frames = << >>
    /\ origin \in Accounts

-----------------------------------------------------------------------------
ownerExists(w, owner) == owner \in w.owners
transactionExists(w, id) == id \in DOMAIN w.txs
confirmed(w, id, owner) == owner \in DOMAIN w.confirms[id] /\ w.confirms[id][owner]
notExecuted(w, id) == ~w.txs[id].executed

\* The owners whose confirmation counts.
Confirmers(w, id) == {o \in w.owners : confirmed(w, id, o)}

\* Mutant of isConfirmed: one confirmation is enough.
isConfirmedByAny(w, id) == Confirmers(w, id) # {}

\* As many owners as required have confirmed; no owners, no confirmation.
isConfirmed(w, id) == w.required # 0 /\ Cardinality(Confirmers(w, id)) >= w.required

validRequirement(ownerCount, required) ==
    ownerCount <= kMaxOwnerCount /\ required <= ownerCount /\ required # 0 /\ ownerCount >= 2

\* Mutant of initWallet: the wallet may be set up again.
initWalletAgain(sender, owners, required) ==
    /\ Calls(sender)
    /\ validRequirement(Cardinality(owners), required)
    /\ wallet' = [wallet EXCEPT !.owners = owners, !.required = required]
    /\ UNCHANGED frames

\* The wallet can be set up once, by anybody, with owners that do not repeat.
initWallet(sender, owners, required) ==
    /\ Calls(sender)
    /\ wallet.required = 0
    /\ validRequirement(Cardinality(owners), required)
    /\ wallet' = [wallet EXCEPT !.owners = owners, !.required = required]
    /\ UNCHANGED frames

\* addTransaction: anybody submits, and the count is the new transaction's id.
submitTransaction(sender, destination, value) ==
    /\ Calls(sender)
    /\ Len(wallet.txs) < MaxTx
    /\ wallet' = [wallet EXCEPT !.txs = Append(@,
            [destination |-> destination, value |-> value,
             executed |-> FALSE, pending |-> TRUE])]
    /\ UNCHANGED frames

\* Mutant of Stored: the transaction stays pending.
StoredPending(w, id, tx, ok) ==
    [w EXCEPT !.txs[id] = [tx EXCEPT !.executed = ok]]

\* What executeTransaction stores when the transfer has returned: the record
\* that it read before.
Stored(w, id, tx, ok) ==
    [w EXCEPT !.txs[id] = [tx EXCEPT !.executed = ok, !.pending = FALSE]]

Pay(w, id) ==
    [w EXCEPT !.balance = @ - w.txs[id].value,
              !.paid[id] = @ + w.txs[id].value]

\* callTransfer to a destination without code returns at once.
TransferPlain(w, id, ok) ==
    /\ w.txs[id].destination \in Plain
    /\ ok => w.txs[id].value <= w.balance
    /\ wallet' = Stored(IF ok THEN Pay(w, id) ELSE w, id, w.txs[id], ok)
    /\ UNCHANGED frames

\* callTransfer to a contract pays and starts its code, or fails at once.
TransferContract(w, id, ok) ==
    /\ w.txs[id].destination \in Contracts
    /\ IF ok
       THEN /\ w.txs[id].value <= w.balance
            /\ Len(frames) < MaxDepth
            /\ wallet' = Pay(w, id)
            /\ frames' = Append(frames, [id |-> id, tx |-> w.txs[id],
                                         before |-> wallet, called |-> w])
       ELSE wallet' = Stored(w, id, w.txs[id], FALSE) /\ UNCHANGED frames

\* Mutant of Execute: an executed transaction is paid again.
ExecuteAgain(w, id, ok) ==
    IF isConfirmed(w, id)
    THEN TransferPlain(w, id, ok) \/ TransferContract(w, id, ok)
    ELSE wallet' = w /\ UNCHANGED frames

\* executeTransaction in state w of the wallet.
Execute(w, id, ok) ==
    /\ notExecuted(w, id)
    /\ IF isConfirmed(w, id)
       THEN TransferPlain(w, id, ok) \/ TransferContract(w, id, ok)
       ELSE wallet' = w /\ UNCHANGED frames

executeTransaction(sender, id, ok) ==
    /\ Calls(sender)
    /\ transactionExists(wallet, id) /\ isConfirmed(wallet, id)
    /\ Execute(wallet, id, ok)

confirmTransaction(sender, id, ok) ==
    /\ Calls(sender)
    /\ ownerExists(wallet, sender) /\ transactionExists(wallet, id)
    /\ ~confirmed(wallet, id, sender)
    /\ Execute([wallet EXCEPT !.confirms[id] =
                   [o \in DOMAIN @ \cup {sender} |-> o = sender \/ @[o]]], id, ok)

\* A confirmation that was revoked stays in the map, as false.
Revoked(w, id, sender) == [w EXCEPT !.confirms[id][sender] = FALSE]

\* Mutant of MayRevoke: the transaction need not be pending.
MayRevokeUnexecuted(w, id, sender) ==
    /\ ownerExists(w, sender) /\ transactionExists(w, id) /\ notExecuted(w, id)
    /\ sender \in DOMAIN w.confirms[id]

\* Only an owner's entry of a transaction that is pending and not executed.
MayRevoke(w, id, sender) ==
    /\ ownerExists(w, sender) /\ transactionExists(w, id) /\ notExecuted(w, id)
    /\ w.txs[id].pending
    /\ sender \in DOMAIN w.confirms[id]

revokeConfirmation(sender, id) ==
    /\ Calls(sender)
    /\ MayRevoke(wallet, id, sender)
    /\ LET w == Revoked(wallet, id, sender) IN
       wallet' = [w EXCEPT !.txs[id].pending = ~isConfirmed(w, id)]
    /\ UNCHANGED frames

-----------------------------------------------------------------------------
(* The destination's code returns to the wallet.                           *)

\* The transfer succeeded: what the code did to the wallet stays.
TransferReturns ==
    /\ Running
    /\ wallet' = Stored(wallet, Top.id, Top.tx, TRUE)
    /\ frames' = Pop
    /\ UNCHANGED origin

\* The code failed, and what it did to the wallet is undone.
TransferFails ==
    /\ Running
    /\ wallet' = Stored(Top.called, Top.id, Top.tx, FALSE)
    /\ frames' = Pop
    /\ UNCHANGED origin

\* The wallet's own call fails after the transfer, for want of gas: the whole
\* call is undone.
CallFails ==
    /\ Running
    /\ wallet' = Top.before
    /\ frames' = Pop
    /\ UNCHANGED origin

\* Anybody can send value to the wallet.
Deposit(value) ==
    /\ ~Running
    /\ wallet.balance + value <= Funds
    /\ wallet' = [wallet EXCEPT !.balance = @ + value]
    /\ UNCHANGED <<frames, origin>>

Next ==
    \/ \E sender \in Accounts :
        \/ \E owners \in SUBSET Accounts, required \in 1 .. Cardinality(Accounts) :
               initWallet(sender, owners, required)
        \/ \E d \in Destinations, v \in Values : submitTransaction(sender, d, v)
        \/ \E id \in DOMAIN wallet.txs :
               \/ revokeConfirmation(sender, id)
               \/ \E ok \in BOOLEAN : confirmTransaction(sender, id, ok)
               \/ \E ok \in BOOLEAN : executeTransaction(sender, id, ok)
    \/ TransferReturns \/ TransferFails \/ CallFails
    \/ \E v \in Values : Deposit(v)

Spec == Init /\ [][Next]_vars

-----------------------------------------------------------------------------
IsWallet(w) ==
    /\ w \in Wallet /\ Len(w.txs) <= MaxTx
    /\ w.required = 0 => w.owners = {}
    /\ \A id \in Ids : DOMAIN w.confirms[id] \subseteq w.owners

\* Only owners are recorded as confirming, and the states that a failure
\* returns to are states of the wallet too.
TypeOK ==
    /\ IsWallet(wallet) /\ origin \in Accounts
    /\ \A i \in DOMAIN frames : IsWallet(frames[i].before) /\ IsWallet(frames[i].called)

\* The transactions to destinations without code, for which executed is stored
\* before anything else can happen.
PlainTxs(w) == {id \in DOMAIN w.txs : w.txs[id].destination \in Plain}

PaidAsStored(w) == \A id \in PlainTxs(w) :
    w.paid[id] = IF w.txs[id].executed THEN w.txs[id].value ELSE 0
HasQuorum(w, id) == Cardinality(Confirmers(w, id)) >= w.required
ExecutedOnQuorum(w) == \A id \in PlainTxs(w) : w.txs[id].executed => HasQuorum(w, id)
PendingWithoutQuorum(w) == \A id \in PlainTxs(w) :
    w.txs[id].pending /\ w.owners # {} => ~HasQuorum(w, id)

\* A transaction to a destination without code is paid exactly once, and recorded
\* as executed exactly when it has been paid: also when its transfer failed before
\* and was tried again, when it was executed by the code of another transaction's
\* destination, and when a call that contains the payment fails as a whole.
\* Nothing is said of a destination with code, which may call back during its own
\* transfer (multisig.cpp:273-282) and be paid again.
PaidOnce == PaidAsStored(wallet)

\* A transaction to a destination without code that was executed has, then and in
\* every later state, the confirmations of as many owners as required: neither
\* revokeConfirmation nor the code of another transaction's destination, nor the
\* undoing of a failed call, takes one away and leaves it executed.  Nothing is
\* said of a destination with code, in whose own transfer the owner that sent the
\* call can revoke before executed is stored (multisig.cpp:234-252, 273-282).
ExecutedConfirmed == ExecutedOnQuorum(wallet)

\* A transaction to a destination without code that has all its confirmations is
\* not pending: none waits for a confirmation that it already has, so for these
\* the branch of revokeConfirmation that would find one (multisig.cpp:254-258) is
\* dead, and a confirmation that made up the required number cannot be revoked.
PendingUnconfirmed == PendingWithoutQuorum(wallet)

\* "a confirmation can be revoked only when: a) the transaction is pending b)
\* the transaction has not been executed" (multisig.cpp:220): the confirmations
\* of a transaction to a destination without code whose transfer failed, or was
\* made, are final, unless the call that gave them fails as a whole.
ConfirmationsFinal ==
    [][\A id \in PlainTxs(wallet) :
         ~Running /\ ~wallet.txs[id].pending =>
             Confirmers(wallet, id) \subseteq Confirmers(wallet', id)]_vars
=============================================================================
