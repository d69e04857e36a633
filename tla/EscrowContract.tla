--------------------------- MODULE EscrowContract ---------------------------
(***************************************************************************)
(* The Soroban escrow contract of contracts/escrow.  A transaction is      *)
(* atomic: one that returns an error or panics (a missing authorisation, a *)
(* transfer that overdraws, an overflow) changes nothing, so only the      *)
(* transactions that succeed are steps.  An escrow id is the keccak hash   *)
(* of the nonce and of the length of the executor's address, which is the  *)
(* same for every address: it is modelled by the nonce.                    *)
(***************************************************************************)
EXTENDS Integers, Sequences, FiniteSets

CONSTANTS
    Account,        \* addresses that sign transactions
    Contract,       \* the address of the escrow contract
    Payee,          \* addresses named as requester or marketplace
    Token,          \* token contracts
    Amount,         \* collateral_amount arguments
    ShareBp,        \* requester_share_bp arguments
    Supply,         \* what each account holds of each token at first
    MaxI128,        \* the largest i128
    LockDuration,   \* LOCK_DURATION_LEDGERS
    MaxNonce,       \* the largest nonce: create_escrow fails beyond it
    MaxLedger       \* bound: ledgers closed in a behaviour

ASSUME EscrowAssumption ==
    /\ Contract \notin Account
    /\ Payee \subseteq Account \cup {Contract}
    /\ Amount \subseteq Int /\ ShareBp \subseteq Nat
    /\ Supply \in Nat /\ MaxI128 \in Nat /\ LockDuration \in Nat
    /\ MaxNonce \in Nat /\ MaxLedger \in Nat

VARIABLES
    escrows,        \* DataKey::Escrow: the states stored so far, by nonce
    nonce,          \* DataKey::Nonce
    instanceToken,  \* DataKey::Token
    ledger,         \* ledger sequence number
    balance,        \* balances held in each token contract
    deposited       \* history: the token each collateral was paid in

vars == <<escrows, nonce, instanceToken, ledger, balance, deposited>>

-----------------------------------------------------------------------------
Address == Account \cup {Contract}
NoToken == "none"
Status  == {"LOCKED", "RELEASED", "CONFISCATED", "TIMED_OUT"}

EscrowState == [executor : Account, requester : Payee, release_signer : Account,
                collateral : Nat \ {0}, created_at_ledger : Nat, status : Status]

Init ==
    /\ escrows = <<>>
    /\ nonce = 0
    /\ instanceToken = NoToken
    /\ ledger = 0
    /\ balance = [tok \in Token |-> [a \in Address |-> IF a = Contract THEN 0 ELSE Supply]]
    /\ deposited = <<>>

Locked(id) == escrows[id].status = "LOCKED"

\* The balances of a token after a transfer.
Pay(bal, from, to, n) ==
    IF from = to THEN bal ELSE [bal EXCEPT ![from] = @ - n, ![to] = @ + n]

\* The state is saved under its new status first, then the contract pays; the
\* token is the one of the instance, and an overdraft undoes it all.
Settle(id, status, bal) ==
    /\ balance[instanceToken][Contract] >= escrows[id].collateral
    /\ escrows' = [escrows EXCEPT ![id].status = status]
    /\ balance' = [balance EXCEPT ![instanceToken] = bal]
    /\ UNCHANGED <<nonce, instanceToken, ledger, deposited>>

-----------------------------------------------------------------------------
(* The transactions.  signer is the account that authorised the call.  The *)
(* instance's ReleaseSigner is written and never read, and left out.       *)

Store(executor, release_signer, requester, token, amount) ==
    /\ nonce < MaxNonce
    /\ balance[token][executor] >= amount
    /\ nonce' = nonce + 1
    /\ instanceToken' = token
    /\ escrows' = Append(escrows, [executor |-> executor, requester |-> requester,
                     release_signer |-> release_signer, collateral |-> amount,
                     created_at_ledger |-> ledger, status |-> "LOCKED"])
    /\ balance' = [balance EXCEPT ![token] = Pay(@, executor, Contract, amount)]
    /\ deposited' = Append(deposited, token)
    /\ UNCHANGED ledger

create_escrow(signer, executor, release_signer, requester, token, amount) ==
    /\ signer = executor
    /\ amount > 0
    /\ Store(executor, release_signer, requester, token, amount)

release_milestone(signer, id) ==
    /\ Locked(id)
    /\ signer = escrows[id].release_signer
    /\ Settle(id, "RELEASED", Pay(balance[instanceToken], Contract, escrows[id].executor,
                                  escrows[id].collateral))

\* The split of a confiscated collateral: floor of the requester's share, the
\* remainder to the marketplace.  The product must fit an i128.
ShareFits(c, bp) == bp = 10000 \/ c * bp <= MaxI128
requester_share(c, bp) == IF bp = 10000 THEN c ELSE (c * bp) \div 10000

\* Mutant: the marketplace's share is rounded down on its own.
marketplace_share_floor(c, bp) == (c * (10000 - bp)) \div 10000

marketplace_share(c, bp) == c - requester_share(c, bp)

confiscate(signer, id, bp, marketplace) ==
    LET c == escrows[id].collateral
        q == escrows[id].requester
    IN  /\ bp <= 10000
        /\ Locked(id)
        /\ signer = q
        /\ ShareFits(c, bp)
        /\ Settle(id, "CONFISCATED",
                  Pay(Pay(balance[instanceToken], Contract, q, requester_share(c, bp)),
                      Contract, marketplace, marketplace_share(c, bp)))

elapsed(id) == ledger - escrows[id].created_at_ledger

\* Mutant: the status is not looked at.
claim_again(id) ==
    /\ elapsed(id) >= LockDuration
    /\ Settle(id, "TIMED_OUT", Pay(balance[instanceToken], Contract, escrows[id].requester,
                                   escrows[id].collateral))

\* Nobody's authorisation is required.
claim_timeout(id) ==
    /\ Locked(id)
    /\ elapsed(id) >= LockDuration
    /\ Settle(id, "TIMED_OUT", Pay(balance[instanceToken], Contract, escrows[id].requester,
                                   escrows[id].collateral))

\* The network closes a ledger.
CloseLedger ==
    /\ ledger < MaxLedger
    /\ ledger' = ledger + 1
    /\ UNCHANGED <<escrows, nonce, instanceToken, balance, deposited>>

Next ==
    \/ \E s, x, r \in Account, q \in Payee, tok \in Token, n \in Amount :
          create_escrow(s, x, r, q, tok, n)
    \/ \E s \in Account, id \in DOMAIN escrows :
          \/ release_milestone(s, id)
          \/ \E bp \in ShareBp, m \in Payee : confiscate(s, id, bp, m)
    \/ \E id \in DOMAIN escrows : claim_timeout(id)
    \/ CloseLedger

Spec == Init /\ [][Next]_vars

-----------------------------------------------------------------------------
(* Properties.                                                             *)

\* The collateral locked in a token, unit by unit, and its sum.
Units(id)        == {id} \X (1..escrows[id].collateral)
LockedIn(tok)    == {id \in DOMAIN escrows : Locked(id) /\ deposited[id] = tok}
TotalLocked(tok) == Cardinality(UNION {Units(id) : id \in LockedIn(tok)})

\* Type invariant: every variable holds a value of its type; no balance is
\* ever overdrawn and no nonce is skipped or used twice.
TypeOK ==
    /\ nonce \in 0..MaxNonce
    /\ escrows \in Seq(EscrowState) /\ Len(escrows) = nonce
    /\ deposited \in Seq(Token) /\ Len(deposited) = nonce
    /\ instanceToken \in Token \cup {NoToken}
    /\ ledger \in 0..MaxLedger
    /\ balance \in [Token -> [Address -> Nat]]

\* The contract holds, in each token, exactly the collateral locked in that
\* token, as long as nobody names the contract itself as the payee: no call
\* pays one executor with the collateral of another, and the two shares of a
\* confiscation add up, so that nothing is left behind.
Solvency == \A tok \in Token : balance[tok][Contract] = TotalLocked(tok)

\* "permissionless after 14d of ledger -> 100% to the requester" (ADR 0002):
\* once LOCK_DURATION_LEDGERS have passed, the transfer of claim_timeout on a
\* LOCKED escrow is covered.  The contract keeps one token for all escrows,
\* that of the last create_escrow, and pays every escrow out in it.
AlwaysClaimable ==
    \A id \in DOMAIN escrows :
      Locked(id) /\ elapsed(id) >= LockDuration =>
        balance[instanceToken][Contract] >= escrows[id].collateral

\* A stored escrow is never overwritten or removed, and once settled it stays
\* as it was settled: a later call cannot settle it in another way.
SettlementFinal ==
    [][\A id \in DOMAIN escrows :
         /\ id \in DOMAIN escrows'
         /\ ~Locked(id) => escrows'[id] = escrows[id]
         /\ [escrows'[id] EXCEPT !.status = "LOCKED"] = [escrows[id] EXCEPT !.status = "LOCKED"]]_vars

=============================================================================
