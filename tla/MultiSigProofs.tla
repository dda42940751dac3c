--------------------------- MODULE MultiSigProofs ---------------------------
(***************************************************************************)
(* The wallet pays what was confirmed and pays it once when the            *)
(* destination has no code, for any accounts and amounts, whatever the     *)
(* code of other destinations does, however deep transfers are nested.     *)
(*                                                                         *)
(* A failed call returns to a state that was stored in a frame, so the     *)
(* inductive invariant says the same of the wallet and of every state that *)
(* the frames keep.                                                        *)
(***************************************************************************)
EXTENDS MultiSig, SequenceTheorems, FiniteSetTheorems, TLAPS

\* The transaction id of the wallet w, when its destination has no code.  A
\* wallet that was not set up has executed none.
TxInv(w, id) ==
    w.txs[id].destination \in Plain =>
        /\ w.paid[id] = IF w.txs[id].executed THEN w.txs[id].value ELSE 0
        /\ w.txs[id].executed => HasQuorum(w, id) /\ w.required # 0
        /\ w.txs[id].pending /\ w.owners # {} => ~HasQuorum(w, id)

\* Nothing was paid for an id, nor confirmed, before its submission.
Unsubmitted(w) ==
    \A id \in Ids : id \notin DOMAIN w.txs =>
        w.paid[id] = 0 /\ DOMAIN w.confirms[id] = {}

WalletInv(w) ==
    /\ IsWallet(w)
    /\ \A id \in DOMAIN w.txs : TxInv(w, id)
    /\ Unsubmitted(w)

\* Only what belongs to the transaction id differs between w and v.
SameBut(v, w, id) ==
    /\ v.owners = w.owners /\ v.required = w.required
    /\ DOMAIN v.txs = DOMAIN w.txs
    /\ \A i \in DOMAIN w.txs : i # id => v.txs[i] = w.txs[i]
    /\ \A i \in Ids : i # id => v.paid[i] = w.paid[i] /\ v.confirms[i] = w.confirms[i]

\* A frame belongs to a transfer to a contract.
Frame == [id : Ids, tx : [destination : Contracts, value : Nat,
                          executed : BOOLEAN, pending : BOOLEAN],
          before : Wallet, called : Wallet]

\* The inductive invariant.
SigInv ==
    /\ WalletInv(wallet) /\ origin \in Accounts
    /\ frames \in Seq(Frame)
    /\ \A i \in DOMAIN frames : WalletInv(frames[i].before) /\ WalletInv(frames[i].called)

-----------------------------------------------------------------------------
(* What the operators on wallets change.                                   *)

LEMMA WalletFields ==
  ASSUME NEW w, IsWallet(w)
  PROVE  /\ w.owners \in SUBSET Accounts /\ w.required \in Nat
         /\ w.txs \in Seq(Transaction) /\ Len(w.txs) \in Nat /\ Len(w.txs) <= MaxTx
         /\ DOMAIN w.txs = 1 .. Len(w.txs) /\ DOMAIN w.txs \subseteq Ids
         /\ \A id \in DOMAIN w.txs : w.txs[id] \in Transaction
         /\ w.confirms \in [Ids -> Confirms] /\ w.balance \in Int
         /\ w.paid \in [Ids -> Nat]
         /\ w.required = 0 => w.owners = {}
         /\ \A id \in Ids : DOMAIN w.confirms[id] \subseteq w.owners
  <1>1. w \in Wallet /\ Len(w.txs) <= MaxTx
    BY DEF IsWallet
  <1>2. w.txs \in Seq(Transaction)
    BY <1>1 DEF Wallet
  <1>3. Len(w.txs) \in Nat /\ DOMAIN w.txs = 1 .. Len(w.txs)
    BY <1>2
  <1>4. DOMAIN w.txs \subseteq Ids
    BY <1>1, <1>3, BoundsAssumption DEF Ids
  <1>5. \A id \in DOMAIN w.txs : w.txs[id] \in Transaction
    BY <1>2, <1>3
  <1>6. /\ w.owners \in SUBSET Accounts /\ w.required \in Nat
        /\ w.confirms \in [Ids -> Confirms] /\ w.balance \in Int
        /\ w.paid \in [Ids -> Nat]
    BY <1>1 DEF Wallet
  <1> QED
    BY <1>1, <1>2, <1>3, <1>4, <1>5, <1>6 DEF IsWallet

\* A ConfirmID's map has truth values.
LEMMA ConfirmsMap ==
  ASSUME NEW w, IsWallet(w), NEW id \in Ids
  PROVE  w.confirms[id] \in [DOMAIN w.confirms[id] -> BOOLEAN]
  <1>1. w.confirms[id] \in Confirms
    BY WalletFields
  <1> DEFINE m == w.confirms[id]
  <1> HIDE DEF m
  <1>2. PICK S \in SUBSET Accounts : m \in [S -> BOOLEAN]
    BY <1>1 DEF Confirms, m
  <1>3. m \in [DOMAIN m -> BOOLEAN]
    BY <1>2
  <1> QED
    BY <1>3 DEF m

\* A change of one element of the sequence of transactions, or of none.
LEMMA TxsExcept ==
  ASSUME NEW s \in Seq(Transaction), NEW id, NEW tx \in Transaction
  PROVE  /\ [s EXCEPT ![id] = tx] \in Seq(Transaction)
         /\ Len([s EXCEPT ![id] = tx]) = Len(s)
         /\ DOMAIN [s EXCEPT ![id] = tx] = DOMAIN s
         /\ \A i \in DOMAIN s : [s EXCEPT ![id] = tx][i] = IF i = id THEN tx ELSE s[i]
  <1>1. CASE id \in 1 .. Len(s)
    BY <1>1, ExceptSeq, LenProperties
  <1>2. CASE id \notin 1 .. Len(s)
    <2>1. s \in [1 .. Len(s) -> Transaction]
      BY LenProperties
    <2>2. [s EXCEPT ![id] = tx] = s
      BY <1>2, <2>1
    <2> QED
      BY <1>2, <2>1, <2>2
  <1> QED
    BY <1>1, <1>2

LEMMA StoredFields ==
  ASSUME NEW w, IsWallet(w), NEW id, NEW tx \in Transaction, NEW ok \in BOOLEAN
  PROVE  LET v == Stored(w, id, tx, ok) IN
         /\ IsWallet(v) /\ SameBut(v, w, id)
         /\ v.confirms = w.confirms /\ v.paid = w.paid
         /\ id \in DOMAIN w.txs =>
               /\ v.txs[id].destination = tx.destination /\ v.txs[id].value = tx.value
               /\ v.txs[id].executed = ok /\ ~v.txs[id].pending
  <1> DEFINE v == Stored(w, id, tx, ok)
             t == [tx EXCEPT !.executed = ok, !.pending = FALSE]
  <1>1. t \in Transaction
    BY DEF Transaction
  <1>2. /\ t.destination = tx.destination /\ t.value = tx.value
        /\ t.executed = ok /\ ~t.pending
    BY DEF Transaction
  <1> HIDE DEF t
  <1>3. w \in Wallet
    BY DEF IsWallet
  <1>4. v = [w EXCEPT !.txs = [w.txs EXCEPT ![id] = t]]
    BY <1>3 DEF Stored, t
  <1> HIDE DEF v
  <1>5. v = [owners |-> w.owners, required |-> w.required,
             txs |-> [w.txs EXCEPT ![id] = t],
             confirms |-> w.confirms, balance |-> w.balance, paid |-> w.paid]
    BY <1>3, <1>4 DEF Wallet
  <1>6. /\ v.txs \in Seq(Transaction) /\ Len(v.txs) = Len(w.txs)
        /\ DOMAIN v.txs = DOMAIN w.txs
        /\ \A i \in DOMAIN w.txs : v.txs[i] = IF i = id THEN t ELSE w.txs[i]
    BY <1>1, <1>5, WalletFields, TxsExcept
  <1>7. v \in Wallet
    BY <1>5, <1>6, WalletFields DEF Wallet
  <1>8. IsWallet(v)
    BY <1>5, <1>6, <1>7 DEF IsWallet
  <1>9. SameBut(v, w, id)
    BY <1>5, <1>6 DEF SameBut
  <1> QED
    BY <1>2, <1>5, <1>6, <1>8, <1>9 DEF v

LEMMA PayFields ==
  ASSUME NEW w, IsWallet(w), NEW id \in DOMAIN w.txs
  PROVE  LET v == Pay(w, id) IN
         /\ IsWallet(v) /\ SameBut(v, w, id)
         /\ v.confirms = w.confirms /\ v.txs = w.txs
         /\ v.paid[id] = w.paid[id] + w.txs[id].value
  <1> DEFINE v == Pay(w, id)
  <1>1. /\ w \in Wallet /\ id \in Ids /\ w.txs[id].value \in Nat
        /\ w.paid \in [Ids -> Nat] /\ w.balance \in Int
    BY WalletFields DEF IsWallet, Transaction
  <1>v. v = [w EXCEPT !.balance = w.balance - w.txs[id].value,
                      !.paid = [w.paid EXCEPT ![id] = w.paid[id] + w.txs[id].value]]
    BY <1>1 DEF Pay, Wallet
  <1> HIDE DEF v
  <1>2. v = [owners |-> w.owners, required |-> w.required, txs |-> w.txs,
             confirms |-> w.confirms, balance |-> w.balance - w.txs[id].value,
             paid |-> [w.paid EXCEPT ![id] = w.paid[id] + w.txs[id].value]]
    BY <1>1, <1>v DEF Wallet
  <1>3. v.paid \in [Ids -> Nat] /\ v.balance \in Int
    BY <1>1, <1>2
  <1>4. v \in Wallet
    BY <1>2, <1>3, WalletFields DEF Wallet
  <1>5. IsWallet(v)
    BY <1>2, <1>4 DEF IsWallet
  <1>6. SameBut(v, w, id) /\ v.paid[id] = w.paid[id] + w.txs[id].value
    BY <1>1, <1>2 DEF SameBut
  <1> QED
    BY <1>2, <1>5, <1>6 DEF v

\* The map of a ConfirmID is replaced by another over the owners.
LEMMA ConfirmsSet ==
  ASSUME NEW w, IsWallet(w), NEW id \in DOMAIN w.txs,
         NEW S \in SUBSET w.owners, NEW c \in [S -> BOOLEAN]
  PROVE  LET v == [w EXCEPT !.confirms[id] = c] IN
         /\ IsWallet(v) /\ SameBut(v, w, id)
         /\ v.txs = w.txs /\ v.paid = w.paid /\ v.confirms[id] = c
  <1> DEFINE v == [w EXCEPT !.confirms[id] = c]
  <1>1. /\ w \in Wallet /\ id \in Ids /\ w.confirms \in [Ids -> Confirms]
        /\ w.owners \in SUBSET Accounts
        /\ \A i \in Ids : DOMAIN w.confirms[i] \subseteq w.owners
    BY WalletFields DEF IsWallet
  <1>v. v = [w EXCEPT !.confirms = [w.confirms EXCEPT ![id] = c]]
    BY <1>1 DEF Wallet
  <1> HIDE DEF v
  <1>2. v = [owners |-> w.owners, required |-> w.required, txs |-> w.txs,
             confirms |-> [w.confirms EXCEPT ![id] = c], balance |-> w.balance,
             paid |-> w.paid]
    BY <1>1, <1>v DEF Wallet
  <1>3. c \in Confirms /\ DOMAIN c \subseteq w.owners
    BY <1>1 DEF Confirms
  <1>4. v.confirms \in [Ids -> Confirms]
    BY <1>1, <1>2, <1>3
  <1>5. v \in Wallet
    BY <1>2, <1>4, WalletFields DEF Wallet
  <1>6. \A i \in Ids : v.confirms[i] = IF i = id THEN c ELSE w.confirms[i]
    BY <1>1, <1>2
  <1>7. IsWallet(v)
    BY <1>1, <1>2, <1>3, <1>5, <1>6 DEF IsWallet
  <1>8. SameBut(v, w, id)
    BY <1>2, <1>6 DEF SameBut
  <1> QED
    BY <1>1, <1>2, <1>6, <1>7, <1>8 DEF v

\* Who has confirmed depends on the owners and the transaction's own map.
LEMMA SameConfirmers ==
  ASSUME NEW w, NEW v, NEW id, v.owners = w.owners, v.required = w.required,
         v.confirms[id] = w.confirms[id]
  PROVE  /\ Confirmers(v, id) = Confirmers(w, id)
         /\ HasQuorum(v, id) <=> HasQuorum(w, id)
         /\ isConfirmed(v, id) <=> isConfirmed(w, id)
  <1>1. Confirmers(v, id) = Confirmers(w, id)
    BY DEF Confirmers, confirmed
  <1> QED
    BY <1>1 DEF HasQuorum, isConfirmed

\* What is done to one transaction leaves the others' invariant alone.
LEMMA OthersKept ==
  ASSUME NEW w, IsWallet(w), Unsubmitted(w), NEW v, NEW id, IsWallet(v),
         SameBut(v, w, id), id \in DOMAIN w.txs => TxInv(v, id),
         id \notin DOMAIN w.txs => v.paid = w.paid /\ v.confirms = w.confirms,
         \A i \in DOMAIN w.txs : i # id => TxInv(w, i)
  PROVE  WalletInv(v)
  <1>1. ASSUME NEW i \in DOMAIN w.txs, i # id PROVE TxInv(v, i)
    <2>1. i \in Ids
      BY WalletFields
    <2>2. /\ v.owners = w.owners /\ v.required = w.required
          /\ v.confirms[i] = w.confirms[i]
          /\ v.txs[i] = w.txs[i] /\ v.paid[i] = w.paid[i]
      BY <1>1, <2>1 DEF SameBut
    <2>3. HasQuorum(v, i) <=> HasQuorum(w, i)
      BY <2>2, SameConfirmers
    <2>4. TxInv(w, i)
      BY <1>1
    <2> QED
      BY <2>2, <2>3, <2>4 DEF TxInv
  <1>2. Unsubmitted(v)
    BY DEF Unsubmitted, SameBut
  <1> QED
    BY <1>1, <1>2 DEF WalletInv, SameBut

-----------------------------------------------------------------------------
(* The invariant of a wallet: one lemma for each thing that is done to it. *)

\* executeTransaction after a transfer to a destination without code.
LEMMA StoredPlainKeeps ==
  ASSUME NEW w, IsWallet(w), Unsubmitted(w), NEW id \in DOMAIN w.txs,
         \A i \in DOMAIN w.txs : i # id => TxInv(w, i),
         w.paid[id] = 0, isConfirmed(w, id), NEW ok \in BOOLEAN
  PROVE  WalletInv(Stored(IF ok THEN Pay(w, id) ELSE w, id, w.txs[id], ok))
  <1> DEFINE tx == w.txs[id]
             u == IF ok THEN Pay(w, id) ELSE w
             v == Stored(u, id, tx, ok)
  <1>0. id \in Ids /\ tx \in Transaction /\ tx.value \in Nat
    BY WalletFields DEF Transaction
  <1>1. /\ IsWallet(u) /\ SameBut(u, w, id)
        /\ u.confirms = w.confirms /\ u.txs = w.txs
        /\ u.paid[id] = IF ok THEN tx.value ELSE 0
    <2>1. CASE ok
      BY <1>0, <2>1, PayFields
    <2>2. CASE ~ok
      BY <2>2 DEF SameBut
    <2> QED
      BY <2>1, <2>2
  <1> HIDE DEF u, tx
  <1>2. /\ IsWallet(v) /\ SameBut(v, u, id)
        /\ v.confirms = u.confirms /\ v.paid = u.paid
        /\ id \in DOMAIN u.txs =>
             /\ v.txs[id].destination = tx.destination
             /\ v.txs[id].value = tx.value
             /\ v.txs[id].executed = ok /\ ~v.txs[id].pending
    BY <1>0, <1>1, StoredFields
  <1> HIDE DEF v
  <1>3. SameBut(v, w, id)
    BY <1>1, <1>2 DEF SameBut
  <1>4. TxInv(v, id)
    <2>1. v.owners = w.owners /\ v.required = w.required /\ v.confirms[id] = w.confirms[id]
      BY <1>1, <1>2, <1>3 DEF SameBut
    <2>2. HasQuorum(v, id) /\ v.required # 0
      BY <2>1, SameConfirmers DEF isConfirmed, HasQuorum
    <2>3. /\ v.paid[id] = IF ok THEN tx.value ELSE 0
          /\ v.txs[id].value = tx.value
          /\ v.txs[id].executed = ok /\ ~v.txs[id].pending
      BY <1>1, <1>2
    <2> QED
      BY <2>2, <2>3 DEF TxInv
  <1>5. WalletInv(v)
    BY <1>2, <1>3, <1>4, OthersKept
  <1> QED
    BY <1>5 DEF tx, u, v

\* executeTransaction after a transfer to a contract, whatever its code did.
LEMMA StoredContractKeeps ==
  ASSUME NEW w, WalletInv(w), NEW id, NEW tx \in Transaction,
         tx.destination \in Contracts, NEW ok \in BOOLEAN
  PROVE  WalletInv(Stored(w, id, tx, ok))
  <1> DEFINE v == Stored(w, id, tx, ok)
  <1>1. IsWallet(w)
    BY DEF WalletInv
  <1>2. /\ IsWallet(v) /\ SameBut(v, w, id)
        /\ v.confirms = w.confirms /\ v.paid = w.paid
        /\ id \in DOMAIN w.txs => v.txs[id].destination = tx.destination
    BY <1>1, StoredFields
  <1> HIDE DEF v
  <1>3. id \in DOMAIN w.txs => TxInv(v, id)
    BY <1>2, DestinationsAssumption DEF TxInv
  <1>4. WalletInv(v)
    BY <1>1, <1>2, <1>3, OthersKept DEF WalletInv
  <1> QED
    BY <1>4 DEF v

LEMMA PayContractKeeps ==
  ASSUME NEW w, WalletInv(w), NEW id \in DOMAIN w.txs, w.txs[id].destination \in Contracts
  PROVE  WalletInv(Pay(w, id))
  <1> DEFINE v == Pay(w, id)
  <1>1. IsWallet(w)
    BY DEF WalletInv
  <1>2. IsWallet(v) /\ SameBut(v, w, id) /\ v.txs = w.txs
    BY <1>1, PayFields
  <1> HIDE DEF v
  <1>3. TxInv(v, id)
    BY <1>2, DestinationsAssumption DEF TxInv
  <1>4. WalletInv(v)
    BY <1>1, <1>2, <1>3, OthersKept DEF WalletInv
  <1> QED
    BY <1>4 DEF v

\* A wallet in which executeTransaction of id may start: nothing is known of
\* the confirmations of id itself, one of which was just given.
Ready(w, id) ==
    /\ IsWallet(w) /\ Unsubmitted(w)
    /\ id \in DOMAIN w.txs /\ notExecuted(w, id)
    /\ w.txs[id].destination \in Plain => w.paid[id] = 0
    /\ \A i \in DOMAIN w.txs : i # id => TxInv(w, i)

LEMMA ReadyAtOnce ==
  ASSUME NEW w, WalletInv(w), NEW id \in DOMAIN w.txs, notExecuted(w, id)
  PROVE  Ready(w, id)
  <1>1. TxInv(w, id)
    BY DEF WalletInv
  <1> QED
    BY <1>1 DEF WalletInv, Ready, TxInv, notExecuted

\* An owner's confirmation, or its withdrawal, of a transaction not executed.
LEMMA ReadyWithConfirms ==
  ASSUME NEW w, WalletInv(w), NEW id \in DOMAIN w.txs, notExecuted(w, id),
         NEW S \in SUBSET w.owners, NEW c \in [S -> BOOLEAN]
  PROVE  Ready([w EXCEPT !.confirms[id] = c], id)
  <1> DEFINE v == [w EXCEPT !.confirms[id] = c]
  <1>1. IsWallet(w) /\ Unsubmitted(w) /\ TxInv(w, id) /\ id \in Ids
    BY WalletFields DEF WalletInv
  <1>2. /\ IsWallet(v) /\ SameBut(v, w, id) /\ v.txs = w.txs /\ v.paid = w.paid
    BY <1>1, ConfirmsSet
  <1> HIDE DEF v
  <1>3. Unsubmitted(v)
    BY <1>1, <1>2 DEF Unsubmitted, SameBut
  <1>4. ASSUME NEW i \in DOMAIN w.txs, i # id PROVE TxInv(v, i)
    <2>1. i \in Ids
      BY <1>1, WalletFields
    <2>2. /\ v.owners = w.owners /\ v.required = w.required
          /\ v.confirms[i] = w.confirms[i]
      BY <1>2, <1>4, <2>1 DEF SameBut
    <2>3. HasQuorum(v, i) <=> HasQuorum(w, i)
      BY <2>2, SameConfirmers
    <2>4. TxInv(w, i)
      BY DEF WalletInv
    <2> QED
      BY <1>2, <2>2, <2>3, <2>4 DEF TxInv
  <1>5. Ready(v, id)
    BY <1>1, <1>2, <1>3, <1>4 DEF Ready, TxInv, notExecuted
  <1> QED
    BY <1>5 DEF v

\* A transaction that is not executed may wait, unless it has all
\* confirmations and still counts as pending.
LEMMA ReadyWaits ==
  ASSUME NEW w, NEW id, Ready(w, id),
         w.txs[id].destination \in Plain /\ w.txs[id].pending => ~isConfirmed(w, id)
  PROVE  WalletInv(w)
  <1>1. w.owners # {} => w.required # 0
    BY WalletFields DEF Ready
  <1>2. TxInv(w, id)
    BY <1>1 DEF Ready, TxInv, notExecuted, isConfirmed, HasQuorum
  <1> QED
    BY <1>2 DEF Ready, WalletInv

LEMMA ExecuteKeeps ==
  ASSUME SigInv, NEW w, NEW id, Ready(w, id), NEW ok \in BOOLEAN, Execute(w, id, ok),
         origin' \in Accounts
  PROVE  SigInv'
  <1>0. id \in DOMAIN w.txs /\ id \in Ids /\ w.txs[id] \in Transaction /\ IsWallet(w)
    BY WalletFields DEF Ready
  <1>1. CASE ~isConfirmed(w, id)
    <2>1. wallet' = w /\ frames' = frames
      BY <1>1 DEF Execute
    <2>2. WalletInv(w)
      BY <1>1, ReadyWaits
    <2> QED
      BY <2>1, <2>2 DEF SigInv
  <1>2. CASE isConfirmed(w, id) /\ TransferPlain(w, id, ok)
    <2>1. /\ w.txs[id].destination \in Plain /\ frames' = frames
          /\ wallet' = Stored(IF ok THEN Pay(w, id) ELSE w, id, w.txs[id], ok)
      BY <1>2 DEF TransferPlain
    <2>2. WalletInv(wallet')
      BY <1>2, <2>1, StoredPlainKeeps DEF Ready
    <2> QED
      BY <2>1, <2>2 DEF SigInv
  <1>3. CASE isConfirmed(w, id) /\ TransferContract(w, id, ok)
    <2>1. w.txs[id].destination \in Contracts
      BY <1>3 DEF TransferContract
    <2>2. WalletInv(w)
      BY <2>1, ReadyWaits, DestinationsAssumption
    <2>3. CASE ok
      <3> DEFINE f == [id |-> id, tx |-> w.txs[id], before |-> wallet, called |-> w]
      <3>1. wallet' = Pay(w, id) /\ frames' = Append(frames, f)
        BY <1>3, <2>3 DEF TransferContract
      <3>2. WalletInv(wallet')
        BY <1>0, <2>1, <2>2, <3>1, PayContractKeeps
      <3>3. f \in Frame
        <4>1. wallet \in Wallet /\ w \in Wallet
          BY <2>2 DEF SigInv, WalletInv, IsWallet
        <4> QED
          BY <1>0, <2>1, <4>1 DEF Frame, Transaction
      <3>4. WalletInv(f.before) /\ WalletInv(f.called)
        BY <2>2 DEF SigInv
      <3> HIDE DEF f
      <3>5. frames \in Seq(Frame)
        BY DEF SigInv
      <3>6. /\ frames' \in Seq(Frame)
            /\ \A i \in DOMAIN frames' : frames'[i] = f \/ \E j \in DOMAIN frames : frames'[i] = frames[j]
        <4>1. /\ frames' \in Seq(Frame) /\ Len(frames') = Len(frames) + 1
              /\ frames'[Len(frames) + 1] = f
              /\ \A i \in 1 .. Len(frames) : frames'[i] = frames[i]
          BY <3>1, <3>3, <3>5
        <4>2. DOMAIN frames' = 1 .. Len(frames) + 1 /\ DOMAIN frames = 1 .. Len(frames)
              /\ Len(frames) \in Nat
          BY <3>5, <4>1
        <4> QED
          BY <4>1, <4>2
      <3> QED
        BY <3>2, <3>4, <3>6 DEF SigInv
    <2>4. CASE ~ok
      <3>1. wallet' = Stored(w, id, w.txs[id], FALSE) /\ frames' = frames
        BY <1>3, <2>4 DEF TransferContract
      <3>2. WalletInv(wallet')
        BY <1>0, <2>1, <2>2, <3>1, StoredContractKeeps
      <3> QED
        BY <3>1, <3>2 DEF SigInv
    <2> QED
      BY <2>3, <2>4
  <1> QED
    BY <1>1, <1>2, <1>3 DEF Execute

-----------------------------------------------------------------------------
(* The invariant is inductive: one lemma for each operation.               *)

LEMMA InitSigInv == Init => SigInv
  <1> SUFFICES ASSUME Init PROVE SigInv
    OBVIOUS
  <1>1. /\ wallet = [owners |-> {}, required |-> 0, txs |-> << >>,
                     confirms |-> [id \in Ids |-> NoConfirms],
                     balance |-> 0, paid |-> [id \in Ids |-> 0]]
        /\ frames = << >> /\ origin \in Accounts
    BY DEF Init
  <1>2. NoConfirms \in Confirms /\ DOMAIN NoConfirms = {}
    <2>1. NoConfirms \in [{} -> BOOLEAN]
      BY DEF NoConfirms
    <2> QED
      BY <2>1 DEF Confirms, NoConfirms
  <1>3. wallet \in Wallet
    BY <1>1, <1>2 DEF Wallet
  <1>4. Len(wallet.txs) = 0 /\ DOMAIN wallet.txs = {}
    BY <1>1
  <1>5. IsWallet(wallet)
    BY <1>1, <1>2, <1>3, <1>4, BoundsAssumption DEF IsWallet
  <1>6. Unsubmitted(wallet)
    BY <1>1, <1>2 DEF Unsubmitted
  <1>7. WalletInv(wallet)
    BY <1>4, <1>5, <1>6 DEF WalletInv
  <1> QED
    BY <1>1, <1>7 DEF SigInv

LEMMA InitWalletKeeps ==
  ASSUME SigInv, NEW sender \in Accounts, NEW owners \in SUBSET Accounts,
         NEW required \in 1 .. Cardinality(Accounts),
         initWallet(sender, owners, required)
  PROVE  SigInv'
  <1> DEFINE v == [wallet EXCEPT !.owners = owners, !.required = required]
  <1>1. /\ wallet' = v /\ frames' = frames /\ origin' = sender /\ wallet.required = 0
    BY DEF initWallet, Calls
  <1>2. /\ IsWallet(wallet) /\ wallet \in Wallet /\ wallet.owners = {}
        /\ Unsubmitted(wallet) /\ \A id \in DOMAIN wallet.txs : TxInv(wallet, id)
        /\ \A id \in Ids : DOMAIN wallet.confirms[id] = {}
    BY <1>1 DEF SigInv, WalletInv, IsWallet
  <1>v. v = [wallet EXCEPT !.owners = owners, !.required = required]
    OBVIOUS
  <1> HIDE DEF v
  <1>3. v = [owners |-> owners, required |-> required, txs |-> wallet.txs,
             confirms |-> wallet.confirms, balance |-> wallet.balance, paid |-> wallet.paid]
    BY <1>2, <1>v DEF Wallet
  <1>4. required \in Nat /\ required # 0
    BY FS_CardinalityType, AccountsAssumption
  <1>5. v \in Wallet
    BY <1>2, <1>3, <1>4, WalletFields DEF Wallet
  <1>6. IsWallet(v)
    BY <1>2, <1>3, <1>4, <1>5 DEF IsWallet
  <1>7. Unsubmitted(v)
    BY <1>2, <1>3 DEF Unsubmitted
  <1>8. ASSUME NEW id \in DOMAIN wallet.txs PROVE TxInv(v, id)
    <2>1. Confirmers(v, id) = {}
      BY <1>2, <1>3, WalletFields DEF Confirmers, confirmed
    <2>2. ~HasQuorum(v, id)
      BY <1>3, <1>4, <2>1, FS_EmptySet DEF HasQuorum
    <2>3. TxInv(wallet, id)
      BY <1>2
    <2> QED
      BY <1>1, <1>3, <2>2, <2>3 DEF TxInv
  <1>9. WalletInv(v)
    BY <1>3, <1>6, <1>7, <1>8 DEF WalletInv
  <1> QED
    BY <1>1, <1>9 DEF SigInv

LEMMA SubmitKeeps ==
  ASSUME SigInv, NEW sender \in Accounts, NEW d \in Destinations, NEW value \in Values,
         submitTransaction(sender, d, value)
  PROVE  SigInv'
  <1> DEFINE n == Len(wallet.txs) + 1
             tx == [destination |-> d, value |-> value, executed |-> FALSE, pending |-> TRUE]
             v == [wallet EXCEPT !.txs = Append(wallet.txs, tx)]
  <1>1. /\ wallet' = v /\ frames' = frames /\ origin' = sender
        /\ Len(wallet.txs) < MaxTx
    BY DEF submitTransaction, Calls
  <1>2. /\ IsWallet(wallet) /\ wallet \in Wallet
        /\ Unsubmitted(wallet) /\ \A id \in DOMAIN wallet.txs : TxInv(wallet, id)
    BY DEF SigInv, WalletInv, IsWallet
  <1>3. tx \in Transaction
    BY ValuesAssumption DEF Transaction
  <1>4. tx.executed = FALSE /\ tx.destination = d
    OBVIOUS
  <1>v. v = [wallet EXCEPT !.txs = Append(wallet.txs, tx)]
    OBVIOUS
  <1> HIDE DEF v, tx
  <1>5. v = [owners |-> wallet.owners, required |-> wallet.required,
             txs |-> Append(wallet.txs, tx),
             confirms |-> wallet.confirms, balance |-> wallet.balance, paid |-> wallet.paid]
    BY <1>2, <1>v DEF Wallet
  <1>6. /\ wallet.txs \in Seq(Transaction) /\ Len(wallet.txs) \in Nat
        /\ DOMAIN wallet.txs = 1 .. Len(wallet.txs)
    BY <1>2, WalletFields
  <1>7. /\ v.txs \in Seq(Transaction) /\ Len(v.txs) = n /\ v.txs[n] = tx
        /\ DOMAIN v.txs = DOMAIN wallet.txs \cup {n}
        /\ \A i \in DOMAIN wallet.txs : v.txs[i] = wallet.txs[i]
    <2>1. v.txs \in Seq(Transaction) /\ Len(v.txs) = n
      BY <1>3, <1>5, <1>6
    <2>2. DOMAIN v.txs = 1 .. n
      BY <2>1
    <2>3. v.txs[n] = tx /\ \A i \in DOMAIN wallet.txs : v.txs[i] = wallet.txs[i]
      BY <1>3, <1>5, <1>6
    <2> QED
      BY <1>6, <2>1, <2>2, <2>3
  <1>8. v \in Wallet
    BY <1>2, <1>5, <1>7, WalletFields DEF Wallet
  <1>9. IsWallet(v)
    <2>1. Len(v.txs) <= MaxTx
      BY <1>1, <1>6, <1>7, BoundsAssumption
    <2> QED
      BY <1>2, <1>5, <1>8, <2>1 DEF IsWallet
  <1>10. Unsubmitted(v)
    BY <1>2, <1>5, <1>7 DEF Unsubmitted
  <1>11. TxInv(v, n)
    <2>1. n \in Ids /\ n \notin DOMAIN wallet.txs
      BY <1>1, <1>6, BoundsAssumption DEF Ids
    <2>2. v.paid[n] = 0 /\ DOMAIN v.confirms[n] = {}
      BY <1>2, <1>5, <2>1 DEF Unsubmitted
    <2> HIDE DEF n
    <2>3. Confirmers(v, n) = {}
      BY <2>2 DEF Confirmers, confirmed
    <2>4. v.owners # {} => v.required # 0 /\ v.required \in Nat
      BY <1>9, WalletFields
    <2>5. v.owners # {} => ~HasQuorum(v, n)
      BY <2>3, <2>4, FS_EmptySet DEF HasQuorum
    <2>6. ~v.txs[n].executed
      BY <1>4, <1>7
    <2> QED
      BY <2>2, <2>5, <2>6 DEF TxInv
  <1>12. ASSUME NEW id \in DOMAIN wallet.txs PROVE TxInv(v, id)
    <2>1. HasQuorum(v, id) <=> HasQuorum(wallet, id)
      BY <1>5, SameConfirmers
    <2>2. TxInv(wallet, id)
      BY <1>2
    <2> QED
      BY <1>5, <1>7, <2>1, <2>2 DEF TxInv
  <1>13. WalletInv(v)
    BY <1>7, <1>9, <1>10, <1>11, <1>12 DEF WalletInv
  <1> QED
    BY <1>1, <1>13 DEF SigInv

LEMMA ConfirmKeeps ==
  ASSUME SigInv, NEW sender \in Accounts, NEW id \in DOMAIN wallet.txs,
         NEW ok \in BOOLEAN, confirmTransaction(sender, id, ok)
  PROVE  SigInv'
  <1> DEFINE m == wallet.confirms[id]
             c == [o \in DOMAIN m \cup {sender} |-> o = sender \/ m[o]]
             v == [wallet EXCEPT !.confirms[id] = c]
  <1>1. sender \in wallet.owners /\ Execute(v, id, ok) /\ origin' = sender
    BY DEF confirmTransaction, ownerExists, Calls
  <1>2. /\ WalletInv(wallet) /\ IsWallet(wallet) /\ id \in Ids
        /\ DOMAIN m \subseteq wallet.owners
    BY WalletFields DEF SigInv, WalletInv
  <1>3. c \in [DOMAIN m \cup {sender} -> BOOLEAN]
    <2>1. m \in [DOMAIN m -> BOOLEAN]
      BY <1>2, ConfirmsMap
    <2> QED
      BY <2>1
  <1> HIDE DEF c, m
  <1>4. v.txs = wallet.txs
    BY <1>1, <1>2, <1>3, ConfirmsSet
  <1>5. notExecuted(wallet, id)
    BY <1>1, <1>4 DEF Execute, notExecuted
  <1>6. Ready(v, id)
    BY <1>1, <1>2, <1>3, <1>5, ReadyWithConfirms
  <1> HIDE DEF v
  <1> QED
    BY <1>1, <1>6, ExecuteKeeps

LEMMA ExecuteTransactionKeeps ==
  ASSUME SigInv, NEW sender \in Accounts, NEW id \in DOMAIN wallet.txs,
         NEW ok \in BOOLEAN, executeTransaction(sender, id, ok)
  PROVE  SigInv'
  <1>1. Execute(wallet, id, ok) /\ origin' = sender /\ WalletInv(wallet)
    BY DEF executeTransaction, Calls, SigInv
  <1>2. Ready(wallet, id)
    BY <1>1, ReadyAtOnce DEF Execute
  <1> QED
    BY <1>1, <1>2, ExecuteKeeps

LEMMA RevokeKeeps ==
  ASSUME SigInv, NEW sender \in Accounts, NEW id \in DOMAIN wallet.txs,
         revokeConfirmation(sender, id)
  PROVE  SigInv'
  <1> DEFINE m == wallet.confirms[id]
             c == [m EXCEPT ![sender] = FALSE]
             w == [wallet EXCEPT !.confirms[id] = c]
             p == ~isConfirmed(w, id)
             t == [wallet.txs[id] EXCEPT !.pending = p]
             v == [w EXCEPT !.txs = [w.txs EXCEPT ![id] = t]]
  <1>1. /\ sender \in wallet.owners /\ sender \in DOMAIN m /\ notExecuted(wallet, id)
        /\ frames' = frames /\ origin' = sender
    BY DEF revokeConfirmation, MayRevoke, ownerExists, Calls
  <1>2. /\ WalletInv(wallet) /\ IsWallet(wallet) /\ wallet \in Wallet /\ id \in Ids
        /\ DOMAIN m \subseteq wallet.owners /\ wallet.txs[id] \in Transaction
    BY WalletFields DEF SigInv, WalletInv, IsWallet
  <1>3. c \in [DOMAIN m -> BOOLEAN]
    <2>1. m \in [DOMAIN m -> BOOLEAN]
      BY <1>2, ConfirmsMap
    <2> QED
      BY <2>1
  <1>4. Ready(w, id) /\ w.txs = wallet.txs
    <2> HIDE DEF c, m
    <2> QED
      BY <1>1, <1>2, <1>3, ReadyWithConfirms, ConfirmsSet
  <1>5. wallet' = v
    BY <1>2, <1>4 DEF revokeConfirmation, Revoked
  <1>6. p \in BOOLEAN
    BY DEF isConfirmed
  <1>v. v = [w EXCEPT !.txs = [w.txs EXCEPT ![id] = t]]
    OBVIOUS
  <1> HIDE DEF w, c, m, p
  <1>7. /\ t \in Transaction /\ t.destination = wallet.txs[id].destination
        /\ t.executed = wallet.txs[id].executed /\ t.pending = p
    BY <1>2, <1>6 DEF Transaction
  <1> HIDE DEF t, v
  <1>8. IsWallet(w) /\ w \in Wallet
    BY <1>4 DEF Ready, IsWallet
  <1>9. v = [owners |-> w.owners, required |-> w.required,
             txs |-> [w.txs EXCEPT ![id] = t],
             confirms |-> w.confirms, balance |-> w.balance, paid |-> w.paid]
    BY <1>8, <1>v DEF Wallet
  <1>10. /\ v.txs \in Seq(Transaction) /\ Len(v.txs) = Len(w.txs)
         /\ DOMAIN v.txs = DOMAIN w.txs
         /\ \A i \in DOMAIN w.txs : v.txs[i] = IF i = id THEN t ELSE w.txs[i]
    <2>1. w.txs \in Seq(Transaction) /\ t \in Transaction
      BY <1>7, <1>8, WalletFields
    <2>2. v.txs = [w.txs EXCEPT ![id] = t]
      BY <1>9
    <2> QED
      BY <2>1, <2>2, TxsExcept
  <1>11. v \in Wallet
    BY <1>8, <1>9, <1>10, WalletFields DEF Wallet
  <1>12. IsWallet(v)
    BY <1>8, <1>9, <1>10, <1>11 DEF IsWallet
  <1>13. SameBut(v, w, id)
    BY <1>9, <1>10 DEF SameBut
  <1>14. TxInv(v, id)
    <2>1. v.txs[id] = t
      BY <1>4, <1>10
    <2>2. ~v.txs[id].executed
      BY <1>1, <1>7, <2>1 DEF notExecuted
    <2>3. v.txs[id].destination \in Plain => v.paid[id] = 0
      BY <1>4, <1>7, <1>9, <2>1 DEF Ready
    <2>4. v.owners # {} => v.required # 0
      BY <1>12, WalletFields
    <2>5. v.txs[id].pending => ~isConfirmed(v, id)
      <3>1. isConfirmed(v, id) <=> isConfirmed(w, id)
        BY <1>9, SameConfirmers
      <3> QED
        BY <1>7, <2>1, <3>1 DEF p
    <2>6. v.txs[id].pending /\ v.owners # {} => ~HasQuorum(v, id)
      BY <2>4, <2>5 DEF isConfirmed, HasQuorum
    <2> QED
      BY <2>2, <2>3, <2>6 DEF TxInv
  <1>15. WalletInv(v)
    BY <1>4, <1>12, <1>13, <1>14, OthersKept DEF Ready
  <1> QED
    BY <1>1, <1>5, <1>15 DEF SigInv

\* The transfer of the top frame returns, or it, or the whole call, fails.
LEMMA ReturnKeeps ==
  ASSUME SigInv, TransferReturns \/ TransferFails \/ CallFails
  PROVE  SigInv'
  <1>1. frames \in Seq(Frame) /\ frames # << >> /\ origin' = origin /\ frames' = Pop
    BY DEF SigInv, TransferReturns, TransferFails, CallFails, Running
  <1>2. Len(frames) \in Nat \ {0} /\ DOMAIN frames = 1 .. Len(frames)
    BY <1>1, EmptySeq, LenProperties
  <1>3. Top \in Frame /\ WalletInv(Top.before) /\ WalletInv(Top.called)
    BY <1>1, <1>2 DEF Top, SigInv
  <1>4. /\ Top.tx \in Transaction /\ Top.tx.destination \in Contracts
    BY <1>3 DEF Frame, Transaction, Destinations
  <1>5. WalletInv(wallet')
    <2>1. CASE TransferReturns
      BY <1>4, <2>1, StoredContractKeeps DEF TransferReturns, SigInv
    <2>2. CASE TransferFails
      BY <1>3, <1>4, <2>2, StoredContractKeeps DEF TransferFails
    <2>3. CASE CallFails
      BY <1>3, <2>3 DEF CallFails
    <2> QED
      BY <2>1, <2>2, <2>3
  <1>6. /\ frames' \in Seq(Frame)
        /\ \A i \in DOMAIN frames' : i \in DOMAIN frames /\ frames'[i] = frames[i]
    <2>1. \A i \in 1 .. Len(frames) - 1 : frames[i] \in Frame
      BY <1>1, <1>2
    <2>2. /\ frames' \in Seq(Frame)
          /\ Len(frames') = Len(frames) - 1
          /\ \A i \in 1 .. Len(frames) - 1 : frames'[i] = frames[i]
      BY <1>1, <1>2, <2>1, SubSeqProperties DEF Pop
    <2>3. DOMAIN frames' = 1 .. Len(frames) - 1
      BY <2>2, LenProperties
    <2> QED
      BY <1>2, <2>2, <2>3
  <1> QED
    BY <1>1, <1>5, <1>6 DEF SigInv

LEMMA DepositKeeps ==
  ASSUME SigInv, NEW value \in Values, Deposit(value)
  PROVE  SigInv'
  <1> DEFINE v == [wallet EXCEPT !.balance = wallet.balance + value]
  <1>1. /\ wallet' = v /\ frames' = frames /\ origin' = origin
    BY DEF Deposit
  <1>2. /\ IsWallet(wallet) /\ wallet \in Wallet /\ wallet.balance \in Int /\ value \in Int
        /\ Unsubmitted(wallet) /\ \A id \in DOMAIN wallet.txs : TxInv(wallet, id)
    BY WalletFields, ValuesAssumption DEF SigInv, WalletInv, IsWallet
  <1>v. v = [wallet EXCEPT !.balance = wallet.balance + value]
    OBVIOUS
  <1> HIDE DEF v
  <1>3. v = [owners |-> wallet.owners, required |-> wallet.required, txs |-> wallet.txs,
             confirms |-> wallet.confirms, balance |-> wallet.balance + value,
             paid |-> wallet.paid]
    BY <1>2, <1>v DEF Wallet
  <1>4. v \in Wallet
    BY <1>2, <1>3, WalletFields DEF Wallet
  <1>5. IsWallet(v) /\ Unsubmitted(v)
    BY <1>2, <1>3, <1>4 DEF IsWallet, Unsubmitted
  <1>6. ASSUME NEW id \in DOMAIN wallet.txs PROVE TxInv(v, id)
    <2>1. HasQuorum(v, id) <=> HasQuorum(wallet, id)
      BY <1>3, SameConfirmers
    <2>2. TxInv(wallet, id)
      BY <1>2
    <2> QED
      BY <1>3, <2>1, <2>2 DEF TxInv
  <1>7. WalletInv(v)
    BY <1>3, <1>5, <1>6 DEF WalletInv
  <1> QED
    BY <1>1, <1>7 DEF SigInv

LEMMA StepSigInv == ASSUME SigInv, [Next]_vars PROVE SigInv'
  <1>1. CASE UNCHANGED vars
    BY <1>1 DEF vars, SigInv
  <1>2. CASE Next
    <2>1. ASSUME NEW sender \in Accounts, NEW id \in DOMAIN wallet.txs,
                 \/ revokeConfirmation(sender, id)
                 \/ \E ok \in BOOLEAN : confirmTransaction(sender, id, ok)
                 \/ \E ok \in BOOLEAN : executeTransaction(sender, id, ok)
          PROVE  SigInv'
      BY <2>1, RevokeKeeps, ConfirmKeeps, ExecuteTransactionKeeps
    <2> QED
      BY <1>2, <2>1, InitWalletKeeps, SubmitKeeps, ReturnKeeps, DepositKeeps DEF Next
  <1> QED
    BY <1>1, <1>2

LEMMA SigInvariance == Spec => []SigInv
  BY InitSigInv, StepSigInv, PTL DEF Spec

-----------------------------------------------------------------------------
(* The properties of MultiSig.                                             *)

\* The wallet, and every state to which a failing call returns, is of its type:
\* only owners are recorded as confirming.
THEOREM WalletTyped == Spec => []TypeOK
  <1>1. SigInv => TypeOK
    BY DEF SigInv, WalletInv, TypeOK
  <1> QED
    BY <1>1, SigInvariance, PTL

\* A transaction to a destination without code is paid once, and exactly when it
\* is recorded as executed, however calls are nested, retried and undone.
THEOREM PaidExactlyOnce == Spec => []PaidOnce
  <1>1. SigInv => PaidOnce
    BY DEF SigInv, WalletInv, PaidOnce, PaidAsStored, PlainTxs, TxInv
  <1> QED
    BY <1>1, SigInvariance, PTL

\* A transaction to a destination without code that was executed has the
\* confirmations of as many owners as required, then and ever after.
THEOREM ExecutedStaysConfirmed == Spec => []ExecutedConfirmed
  <1>1. SigInv => ExecutedConfirmed
    BY DEF SigInv, WalletInv, ExecutedConfirmed, ExecutedOnQuorum, PlainTxs, TxInv
  <1> QED
    BY <1>1, SigInvariance, PTL

\* No transaction to a destination without code is pending with all its
\* confirmations, so for these the branch of revokeConfirmation for that case
\* (multisig.cpp:254-258) is dead code.
THEOREM PendingStaysUnconfirmed == Spec => []PendingUnconfirmed
  <1>1. SigInv => PendingUnconfirmed
    BY DEF SigInv, WalletInv, PendingUnconfirmed, PendingWithoutQuorum, PlainTxs, TxInv
  <1> QED
    BY <1>1, SigInvariance, PTL

\* executeTransaction changes no confirmation.
LEMMA ExecuteConfirms ==
  ASSUME NEW w, IsWallet(w), NEW id \in DOMAIN w.txs, NEW ok \in BOOLEAN, Execute(w, id, ok)
  PROVE  wallet'.owners = w.owners /\ wallet'.confirms = w.confirms
  <1>0. w.txs[id] \in Transaction
    BY WalletFields
  <1>1. /\ IsWallet(Pay(w, id)) /\ Pay(w, id).confirms = w.confirms
        /\ Pay(w, id).owners = w.owners
    BY PayFields DEF SameBut
  <1>2. ASSUME NEW u, IsWallet(u), u.confirms = w.confirms, u.owners = w.owners,
               NEW o \in BOOLEAN, wallet' = Stored(u, id, w.txs[id], o)
        PROVE  wallet'.owners = w.owners /\ wallet'.confirms = w.confirms
    <2> DEFINE tx == w.txs[id]
               v == Stored(u, id, tx, o)
    <2>1. tx \in Transaction
      BY <1>0
    <2> HIDE DEF tx
    <2>2. v.confirms = u.confirms /\ v.owners = u.owners
      <3>1. IsWallet(u)
        BY <1>2
      <3>2. SameBut(v, u, id) /\ v.confirms = u.confirms
        BY ONLY <2>1, <3>1, o \in BOOLEAN, StoredFields
      <3> QED
        BY <3>2 DEF SameBut
    <2>3. wallet' = v
      BY <1>2 DEF tx
    <2> HIDE DEF v
    <2> QED
      BY <1>2, <2>2, <2>3
  <1>3. CASE TransferPlain(w, id, ok)
    <2> DEFINE u == IF ok THEN Pay(w, id) ELSE w
    <2>1. wallet' = Stored(u, id, w.txs[id], ok)
      BY <1>3 DEF TransferPlain
    <2>2. IsWallet(u) /\ u.confirms = w.confirms /\ u.owners = w.owners
      BY <1>1
    <2> HIDE DEF u
    <2> QED
      BY <1>2, <2>1, <2>2
  <1>4. CASE TransferContract(w, id, ok)
    BY <1>1, <1>2, <1>4 DEF TransferContract
  <1> QED
    BY <1>3, <1>4 DEF Execute

LEMMA FinalStep ==
  ASSUME SigInv, Next, ~Running, NEW id \in PlainTxs(wallet), ~wallet.txs[id].pending
  PROVE  Confirmers(wallet, id) \subseteq Confirmers(wallet', id)
  <1>0. IsWallet(wallet) /\ wallet \in Wallet /\ id \in DOMAIN wallet.txs /\ id \in Ids
    BY WalletFields DEF SigInv, WalletInv, IsWallet, PlainTxs
  <1>1. CASE wallet'.owners = wallet.owners /\ wallet'.confirms[id] = wallet.confirms[id]
    BY <1>1 DEF Confirmers, confirmed
  <1>2. CASE \E sender \in Accounts, owners \in SUBSET Accounts,
                required \in 1 .. Cardinality(Accounts) : initWallet(sender, owners, required)
    BY <1>0, <1>2, WalletFields DEF initWallet, Confirmers
  <1>3. CASE \E sender \in Accounts, d \in Destinations, v \in Values :
                submitTransaction(sender, d, v)
    <2>1. wallet'.owners = wallet.owners /\ wallet'.confirms = wallet.confirms
      BY <1>0, <1>3 DEF submitTransaction, Wallet
    <2> QED
      BY <1>1, <2>1
  <1>4. CASE \E v \in Values : Deposit(v)
    <2>1. wallet'.owners = wallet.owners /\ wallet'.confirms = wallet.confirms
      BY <1>0, <1>4 DEF Deposit, Wallet
    <2> QED
      BY <1>1, <2>1
  <1>5. ASSUME NEW sender \in Accounts, NEW j \in DOMAIN wallet.txs,
               revokeConfirmation(sender, j)
        PROVE  Confirmers(wallet, id) \subseteq Confirmers(wallet', id)
    <2> DEFINE c == [wallet.confirms[j] EXCEPT ![sender] = FALSE]
               w == [wallet EXCEPT !.confirms = [wallet.confirms EXCEPT ![j] = c]]
    <2>1. j # id /\ j \in Ids
      BY <1>0, <1>5, WalletFields DEF revokeConfirmation, MayRevoke
    <2>2. w = Revoked(wallet, j, sender)
      BY <1>0, <2>1, WalletFields DEF Revoked, Wallet
    <2>3. w.owners = wallet.owners /\ w.confirms[id] = wallet.confirms[id]
      BY <1>0, <2>1, WalletFields DEF Wallet
    <2>4. DOMAIN w = DOMAIN wallet
      OBVIOUS
    <2>5. wallet' = [Revoked(wallet, j, sender) EXCEPT
                       !.txs[j].pending = ~isConfirmed(Revoked(wallet, j, sender), j)]
      BY <1>5 DEF revokeConfirmation
    <2> HIDE DEF w
    <2>6. wallet' = [w EXCEPT !.txs[j].pending = ~isConfirmed(w, j)]
      BY <2>2, <2>5
    <2>7. DOMAIN w = {"owners", "required", "txs", "confirms", "balance", "paid"}
      BY <1>0, <2>4 DEF Wallet
    <2>8. wallet'.owners = w.owners /\ wallet'.confirms = w.confirms
      BY <2>6, <2>7
    <2> QED
      BY <1>1, <2>3, <2>8
  <1>6. ASSUME NEW sender \in Accounts, NEW j \in DOMAIN wallet.txs, NEW ok \in BOOLEAN,
               executeTransaction(sender, j, ok)
        PROVE  Confirmers(wallet, id) \subseteq Confirmers(wallet', id)
    <2>1. wallet'.owners = wallet.owners /\ wallet'.confirms = wallet.confirms
      BY <1>0, <1>6, ExecuteConfirms DEF executeTransaction
    <2> QED
      BY <1>1, <2>1
  <1>7. ASSUME NEW sender \in Accounts, NEW j \in DOMAIN wallet.txs, NEW ok \in BOOLEAN,
               confirmTransaction(sender, j, ok)
        PROVE  Confirmers(wallet, id) \subseteq Confirmers(wallet', id)
    <2> DEFINE m == wallet.confirms[j]
               c == [o \in DOMAIN m \cup {sender} |-> o = sender \/ m[o]]
               w == [wallet EXCEPT !.confirms[j] = c]
    <2>1. sender \in wallet.owners /\ Execute(w, j, ok)
      BY <1>7 DEF confirmTransaction, ownerExists
    <2>2. /\ j \in Ids /\ DOMAIN m \subseteq wallet.owners
          /\ m \in [DOMAIN m -> BOOLEAN]
      BY <1>0, WalletFields, ConfirmsMap
    <2>3. /\ c \in [DOMAIN m \cup {sender} -> BOOLEAN]
          /\ \A o \in DOMAIN m : o \in DOMAIN c /\ (m[o] => c[o])
      BY <2>2
    <2> HIDE DEF c
    <2>4. IsWallet(w) /\ SameBut(w, wallet, j) /\ w.txs = wallet.txs /\ w.confirms[j] = c
      BY <1>0, <2>1, <2>2, <2>3, ConfirmsSet
    <2> HIDE DEF w
    <2>5. wallet'.owners = w.owners /\ wallet'.confirms = w.confirms
      BY <2>1, <2>4, ExecuteConfirms
    <2>6. Confirmers(wallet, id) \subseteq Confirmers(w, id)
      <3>1. CASE id = j
        BY <2>3, <2>4, <3>1 DEF Confirmers, confirmed, SameBut
      <3>2. CASE id # j
        BY <1>0, <2>4, <3>2 DEF Confirmers, confirmed, SameBut
      <3> QED
        BY <3>1, <3>2
    <2> QED
      BY <2>5, <2>6 DEF Confirmers, confirmed
  <1> QED
    BY <1>2, <1>3, <1>4, <1>5, <1>6, <1>7
    DEF Next, TransferReturns, TransferFails, CallFails

\* Nobody withdraws a confirmation of a transaction to a destination without code
\* that is not pending any more: its transfer was made or failed.
THEOREM ConfirmationsAreFinal == Spec => ConfirmationsFinal
  <1>1. ASSUME SigInv, [Next]_vars
        PROVE  [\A id \in PlainTxs(wallet) :
                  ~Running /\ ~wallet.txs[id].pending =>
                      Confirmers(wallet, id) \subseteq Confirmers(wallet', id)]_vars
    BY <1>1, FinalStep
  <1> QED
    BY <1>1, SigInvariance, PTL DEF Spec, ConfirmationsFinal
=============================================================================
