----------------------- MODULE EscrowContractProofs -----------------------
(***************************************************************************)
(* Proofs about EscrowContract for every set of accounts and tokens, every *)
(* collateral and share, and every lock duration.                          *)
(***************************************************************************)
EXTENDS EscrowContract, FiniteSetTheorems, TLAPS

\* An escrow is settled in the instance's token, so there must be one.
TokenSet == nonce > 0 => instanceToken \in Token

IndInv == TypeOK /\ TokenSet

\* For every collateral and every share up to 10 000 basis points the two
\* shares of confiscate are natural numbers that add up to the collateral.
THEOREM SplitIsExact ==
    ASSUME NEW c \in Nat, NEW bp \in Nat, bp <= 10000
    PROVE  /\ requester_share(c, bp) \in Nat
           /\ marketplace_share(c, bp) \in Nat
           /\ requester_share(c, bp) + marketplace_share(c, bp) = c
  <1>1. c * bp \in Nat /\ c * bp <= c * 10000
    <2>1. c * bp \in Nat
      OBVIOUS
    <2>2. c * (10000 - bp) >= 0
      OBVIOUS
    <2> QED BY <2>1, <2>2
  <1>2. (c * bp) \div 10000 \in Nat /\ (c * bp) \div 10000 <= c
    <2>1. PICK x \in Nat : x = c * bp
      BY <1>1
    <2>2. x <= c * 10000
      BY <1>1, <2>1
    <2>3. x \div 10000 \in Nat /\ x \div 10000 <= c
      BY <2>2
    <2> QED BY <2>1, <2>3
  <1> QED BY <1>2 DEF requester_share, marketplace_share

\* A transfer that does not overdraw leaves every balance a natural number.
LEMMA PayType ==
    ASSUME NEW bal \in [Address -> Nat], NEW from \in Address, NEW to \in Address, NEW n \in Nat,
           bal[from] >= n
    PROVE  Pay(bal, from, to, n) \in [Address -> Nat]
  BY DEF Pay

\* The two payments of a confiscation never overdraw the contract.
LEMMA SplitType ==
    ASSUME NEW bal \in [Address -> Nat], NEW q \in Address, NEW m \in Address,
           NEW c \in Nat, NEW bp \in Nat, bp <= 10000, bal[Contract] >= c
    PROVE  Pay(Pay(bal, Contract, q, requester_share(c, bp)),
               Contract, m, marketplace_share(c, bp)) \in [Address -> Nat]
  <1> DEFINE rs == requester_share(c, bp)
             ms == marketplace_share(c, bp)
  <1>1. rs \in Nat /\ ms \in Nat /\ rs + ms = c
    BY SplitIsExact
  <1> HIDE DEF rs, ms
  <1>2. Contract \in Address /\ bal[Contract] \in Nat /\ bal[Contract] >= rs
    BY <1>1 DEF Address
  <1>3. PICK b \in [Address -> Nat] : b = Pay(bal, Contract, q, rs)
    BY <1>1, <1>2, PayType
  <1>4. b[Contract] >= ms
    BY <1>1, <1>2, <1>3 DEF Pay
  <1>5. Pay(b, Contract, m, ms) \in [Address -> Nat]
    BY <1>1, <1>2, <1>4, PayType
  <1> QED BY <1>3, <1>5 DEF rs, ms

\* What is stored under an id is an escrow, and it can be settled.
LEMMA StoredType ==
    ASSUME IndInv, NEW id \in DOMAIN escrows
    PROVE  id \in 1..nonce /\ escrows[id] \in EscrowState /\ instanceToken \in Token
  <1>1. escrows \in Seq(EscrowState) /\ Len(escrows) = nonce
    BY DEF IndInv, TypeOK
  <1>2. id \in 1..nonce /\ escrows[id] \in EscrowState
    BY <1>1
  <1> QED BY <1>2 DEF IndInv, TypeOK, TokenSet

\* A settlement by a payment that is well typed keeps the invariant.
LEMMA SettleType ==
    ASSUME IndInv, NEW id \in DOMAIN escrows, NEW s \in Status, NEW bal \in [Address -> Nat],
           Settle(id, s, bal)
    PROVE  IndInv'
  <1>1. id \in 1..nonce /\ instanceToken \in Token /\ escrows[id] \in EscrowState
    BY StoredType
  <1>2. escrows' \in Seq(EscrowState) /\ Len(escrows') = nonce
    <2>1. [escrows[id] EXCEPT !.status = s] \in EscrowState
      BY <1>1 DEF EscrowState
    <2>2. escrows' = [escrows EXCEPT ![id] = [escrows[id] EXCEPT !.status = s]]
      BY DEF Settle
    <2> QED BY <1>1, <2>1, <2>2 DEF IndInv, TypeOK
  <1>3. balance' \in [Token -> [Address -> Nat]]
    BY <1>1 DEF Settle, IndInv, TypeOK
  <1> QED BY <1>1, <1>2, <1>3 DEF Settle, IndInv, TypeOK, TokenSet

\* Every step keeps the invariant.
LEMMA StepInv == IndInv /\ [Next]_vars => IndInv'
  <1> SUFFICES ASSUME IndInv, [Next]_vars PROVE IndInv'
    OBVIOUS
  <1> USE EscrowAssumption
  <1>1. ASSUME NEW s \in Account, NEW x \in Account, NEW r \in Account, NEW q \in Payee,
               NEW tok \in Token, NEW n \in Amount, create_escrow(s, x, r, q, tok, n)
        PROVE  IndInv'
    <2>1. n \in Nat \ {0} /\ Store(x, r, q, tok, n)
      BY <1>1 DEF create_escrow
    <2> DEFINE rec == [executor |-> x, requester |-> q, release_signer |-> r, collateral |-> n,
                       created_at_ledger |-> ledger, status |-> "LOCKED"]
    <2>2. rec \in EscrowState
      BY <2>1 DEF EscrowState, Status, IndInv, TypeOK
    <2>3. escrows' = Append(escrows, rec) /\ deposited' = Append(deposited, tok)
      BY <2>1 DEF Store
    <2> HIDE DEF rec
    <2>4. escrows' \in Seq(EscrowState) /\ Len(escrows') = nonce + 1
      BY <2>2, <2>3 DEF IndInv, TypeOK
    <2>5. deposited' \in Seq(Token) /\ Len(deposited') = nonce + 1
      BY <2>3 DEF IndInv, TypeOK
    <2>6. Pay(balance[tok], x, Contract, n) \in [Address -> Nat]
      BY <2>1, PayType DEF Store, IndInv, TypeOK, Address
    <2>7. balance' \in [Token -> [Address -> Nat]]
      BY <2>1, <2>6 DEF Store, IndInv, TypeOK
    <2> QED BY <2>1, <2>4, <2>5, <2>7 DEF Store, IndInv, TypeOK, TokenSet
  <1>2. ASSUME NEW id \in DOMAIN escrows
        PROVE  /\ instanceToken \in Token
               /\ balance[instanceToken] \in [Address -> Nat]
               /\ escrows[id] \in EscrowState
               /\ escrows[id].executor \in Address /\ escrows[id].requester \in Address
               /\ escrows[id].collateral \in Nat
    <2>1. escrows[id] \in EscrowState /\ instanceToken \in Token
      BY <1>2, StoredType
    <2>2. /\ escrows[id].executor \in Address /\ escrows[id].requester \in Address
          /\ escrows[id].collateral \in Nat
      BY <2>1 DEF EscrowState, Address
    <2> QED BY <2>1, <2>2 DEF IndInv, TypeOK
  <1>3. ASSUME NEW s \in Account, NEW id \in DOMAIN escrows, release_milestone(s, id)
        PROVE  IndInv'
    <2> DEFINE bal == Pay(balance[instanceToken], Contract, escrows[id].executor,
                          escrows[id].collateral)
    <2>1. Settle(id, "RELEASED", bal) /\ balance[instanceToken][Contract] >= escrows[id].collateral
      BY <1>3 DEF release_milestone, Settle
    <2>2. bal \in [Address -> Nat]
      BY <1>2, <2>1, PayType DEF Address
    <2> QED BY <2>1, <2>2, SettleType DEF Status
  <1>4. ASSUME NEW s \in Account, NEW id \in DOMAIN escrows, NEW bp \in ShareBp, NEW m \in Payee,
               confiscate(s, id, bp, m)
        PROVE  IndInv'
    <2>0. bp \in Nat
      BY EscrowAssumption
    <2> DEFINE bal == Pay(Pay(balance[instanceToken], Contract, escrows[id].requester,
                              requester_share(escrows[id].collateral, bp)),
                          Contract, m, marketplace_share(escrows[id].collateral, bp))
    <2>1. Settle(id, "CONFISCATED", bal) /\ bp <= 10000
      BY <1>4 DEF confiscate
    <2>2. bp \in Nat /\ bp <= 10000
      <3> HIDE DEF bal
      <3> QED BY ONLY <2>0, <2>1
    <2>3. balance[instanceToken][Contract] >= escrows[id].collateral
      BY <2>1 DEF Settle
    <2>4. bal \in [Address -> Nat]
      <3>1. m \in Address
        BY DEF Address
      <3>2. /\ balance[instanceToken] \in [Address -> Nat]
            /\ escrows[id].requester \in Address /\ escrows[id].collateral \in Nat
        BY <1>2
      <3> HIDE EscrowAssumption
      <3> QED BY <2>2, <2>3, <3>1, <3>2, SplitType
    <2> QED BY <2>1, <2>4, SettleType DEF Status
  <1>5. ASSUME NEW id \in DOMAIN escrows, claim_timeout(id) PROVE IndInv'
    <2> DEFINE bal == Pay(balance[instanceToken], Contract, escrows[id].requester,
                          escrows[id].collateral)
    <2>1. Settle(id, "TIMED_OUT", bal) /\ balance[instanceToken][Contract] >= escrows[id].collateral
      BY <1>5 DEF claim_timeout, Settle
    <2>2. bal \in [Address -> Nat]
      BY <1>2, <2>1, PayType DEF Address
    <2> QED BY <2>1, <2>2, SettleType DEF Status
  <1>6. CASE CloseLedger
    BY <1>6 DEF CloseLedger, IndInv, TypeOK, TokenSet
  <1>7. CASE UNCHANGED vars
    BY <1>7 DEF vars, IndInv, TypeOK, TokenSet
  <1> QED BY <1>1, <1>3, <1>4, <1>5, <1>6, <1>7 DEF Next

\* The initial state satisfies the invariant.
LEMMA InitInv == Init => IndInv
  BY EscrowAssumption DEF Init, IndInv, TypeOK, TokenSet, Address

\* No settlement and no split ever overdraws the contract or an account, and
\* the stored escrows keep their type, under any sequence of transactions.
THEOREM EscrowTypeCorrect == Spec => []TypeOK
  <1>1. Spec => []IndInv
    BY InitInv, StepInv, PTL DEF Spec
  <1> QED BY <1>1, PTL DEF IndInv

\* A settled escrow stays as it was settled, whatever is called on it later,
\* and no transaction removes an escrow or changes its parties or collateral.
THEOREM EscrowSettlementFinal == Spec => SettlementFinal
  <1> DEFINE Kept == \A id \in DOMAIN escrows :
                       /\ id \in DOMAIN escrows'
                       /\ ~Locked(id) => escrows'[id] = escrows[id]
                       /\ [escrows'[id] EXCEPT !.status = "LOCKED"]
                            = [escrows[id] EXCEPT !.status = "LOCKED"]
  <1>1. ASSUME IndInv, [Next]_vars PROVE Kept
    <2>1. ASSUME NEW id \in DOMAIN escrows, Locked(id), NEW s, NEW bal, Settle(id, s, bal)
          PROVE  Kept
      <3>1. ASSUME NEW k \in DOMAIN escrows
            PROVE  escrows[k] \in EscrowState
        BY <1>1, <3>1, StoredType
      <3>2. escrows' = [escrows EXCEPT ![id] = [escrows[id] EXCEPT !.status = s]]
        BY <2>1 DEF Settle
      <3>3. [[escrows[id] EXCEPT !.status = s] EXCEPT !.status = "LOCKED"]
              = [escrows[id] EXCEPT !.status = "LOCKED"]
        BY <2>1, <3>1 DEF EscrowState
      <3> QED BY <2>1, <3>2, <3>3
    <2>2. ASSUME NEW r, escrows' = Append(escrows, r) PROVE Kept
      <3>1. escrows \in Seq(EscrowState)
        BY <1>1 DEF IndInv, TypeOK
      <3> QED BY <2>2, <3>1
    <2>3. CASE UNCHANGED escrows
      BY <2>3
    <2> HIDE DEF Kept
    <2>4. ASSUME NEW s \in Account, NEW x \in Account, NEW r \in Account, NEW q \in Payee,
                 NEW tok \in Token, NEW n \in Amount, create_escrow(s, x, r, q, tok, n)
          PROVE  Kept
      BY <2>2, <2>4 DEF create_escrow, Store
    <2>5. ASSUME NEW s \in Account, NEW id \in DOMAIN escrows, release_milestone(s, id)
          PROVE  Kept
      BY <2>1, <2>5 DEF release_milestone
    <2>6. ASSUME NEW s \in Account, NEW id \in DOMAIN escrows, NEW bp \in ShareBp,
                 NEW m \in Payee, confiscate(s, id, bp, m)
          PROVE  Kept
      BY <2>1, <2>6 DEF confiscate
    <2>7. ASSUME NEW id \in DOMAIN escrows, claim_timeout(id) PROVE Kept
      BY <2>1, <2>7 DEF claim_timeout
    <2>8. CASE CloseLedger \/ UNCHANGED vars
      BY <2>3, <2>8 DEF CloseLedger, vars
    <2> QED BY <1>1, <2>4, <2>5, <2>6, <2>7, <2>8 DEF Next
  <1>2. Spec => []IndInv
    BY InitInv, StepInv, PTL DEF Spec
  <1>3. IndInv /\ [Next]_vars => [Kept]_vars
    BY <1>1
  <1> QED BY <1>2, <1>3, PTL DEF Spec, SettlementFinal

-----------------------------------------------------------------------------
(* Solvency: with one token, and the contract not named as a payee, what   *)
(* the contract holds is what it has locked.  A collateral is the set of   *)
(* its units, so that creating an escrow adds a set to Held that is        *)
(* disjoint from it and settling one takes such a set away.                *)

Held(tok) == UNION {Units(id) : id \in LockedIn(tok)}

SolvencyInv ==
    \A tok \in Token : IsFiniteSet(Held(tok)) /\ balance[tok][Contract] = Cardinality(Held(tok))

\* A collateral has as many units as it is worth.
LEMMA UnitsCount ==
    ASSUME NEW id, NEW c \in Nat
    PROVE  IsFiniteSet({id} \X (1..c)) /\ Cardinality({id} \X (1..c)) = c
  <1>1. IsFiniteSet({id}) /\ Cardinality({id}) = 1
    BY FS_Singleton
  <1>2. IsFiniteSet(1..c) /\ Cardinality(1..c) = c
    BY FS_Interval
  <1>3. /\ IsFiniteSet({id} \X (1..c))
        /\ Cardinality({id} \X (1..c)) = Cardinality({id}) * Cardinality(1..c)
    BY <1>1, <1>2, FS_Product, Zenon
  <1> QED BY <1>1, <1>2, <1>3

\* A set of units that is added, or taken away, changes the sum by its size.
LEMMA HeldChanges ==
    ASSUME NEW H, IsFiniteSet(H), NEW U, IsFiniteSet(U), NEW c \in Nat, Cardinality(U) = c
    PROVE  /\ Cardinality(H) \in Nat
           /\ H \cap U = {} => IsFiniteSet(H \cup U) /\ Cardinality(H \cup U) = Cardinality(H) + c
           /\ U \subseteq H => IsFiniteSet(H \ U) /\ Cardinality(H \ U) = Cardinality(H) - c
  <1>1. Cardinality(H) \in Nat
    BY FS_CardinalityType
  <1>2. ASSUME H \cap U = {}
        PROVE  IsFiniteSet(H \cup U) /\ Cardinality(H \cup U) = Cardinality(H) + c
    <2>1. IsFiniteSet(H \cup U) /\ Cardinality(H \cup U) = Cardinality(H) + c - Cardinality(H \cap U)
      BY FS_Union
    <2>2. Cardinality(H \cap U) = 0
      BY <1>2, FS_EmptySet
    <2> QED BY <1>1, <2>1, <2>2
  <1>3. ASSUME U \subseteq H
        PROVE  IsFiniteSet(H \ U) /\ Cardinality(H \ U) = Cardinality(H) - c
    <2>1. IsFiniteSet(H \ U) /\ Cardinality(H \ U) = Cardinality(H) - Cardinality(H \cap U)
      BY FS_Difference
    <2>2. H \cap U = U
      BY <1>3
    <2> QED BY <2>1, <2>2
  <1> QED BY <1>1, <1>2, <1>3

\* What it is to be held, before and after a step.
LEMMA HeldUnits ==
    /\ \A tok, u : u \in Held(tok) <=>
         \E id \in DOMAIN escrows : Locked(id) /\ deposited[id] = tok /\ u \in Units(id)
    /\ \A tok, u : u \in Held(tok)' <=>
         \E id \in DOMAIN escrows' : Locked(id)' /\ deposited'[id] = tok /\ u \in Units(id)'
  BY DEF Held, LockedIn

\* A transfer to somebody else takes the amount from the contract.
LEMMA PaidOut ==
    ASSUME NEW bal \in [Address -> Nat], NEW to \in Address, to # Contract, NEW n \in Nat
    PROVE  Pay(bal, Contract, to, n)[Contract] = bal[Contract] - n
  BY DEF Pay, Address

\* A settlement that pays out the collateral keeps the contract solvent.
LEMMA SettleSolvent ==
    ASSUME IndInv, SolvencyInv, NEW tok, Token = {tok}, NEW id \in DOMAIN escrows, Locked(id),
           NEW s \in Status \ {"LOCKED"}, NEW bal \in [Address -> Nat], Settle(id, s, bal),
           bal[Contract] = balance[instanceToken][Contract] - escrows[id].collateral
    PROVE  SolvencyInv'
  <1>1. /\ id \in 1..nonce /\ instanceToken = tok /\ escrows[id] \in EscrowState
        /\ escrows \in Seq(EscrowState) /\ deposited \in Seq(Token)
        /\ DOMAIN escrows = 1..nonce /\ Len(deposited) = nonce
    BY StoredType DEF IndInv, TypeOK
  <1>2. escrows[id].collateral \in Nat
    BY <1>1 DEF EscrowState
  <1>3. deposited[id] = tok
    <2>1. deposited[id] \in Token
      BY <1>1
    <2> QED BY <2>1
  <1>4. IsFiniteSet(Units(id)) /\ Cardinality(Units(id)) = escrows[id].collateral
    BY <1>2, UnitsCount DEF Units
  <1>5. Units(id) \subseteq Held(tok)
    BY <1>1, <1>3, HeldUnits
  <1>6. /\ DOMAIN escrows' = DOMAIN escrows /\ deposited' = deposited
        /\ \A k \in DOMAIN escrows \ {id} : escrows'[k] = escrows[k]
        /\ escrows'[id].status = s
    BY <1>1 DEF Settle, EscrowState
  <1>7. Held(tok)' = Held(tok) \ Units(id)
    <2>1. ~Locked(id)'
      BY <1>6 DEF Locked
    <2>2. \A k \in DOMAIN escrows \ {id} :
            /\ Locked(k)' <=> Locked(k)
            /\ Units(k)' = Units(k)
            /\ \A u \in Units(k) : u \notin Units(id)
      BY <1>6 DEF Locked, Units
    <2>3. ASSUME NEW u PROVE u \in Held(tok)' <=> u \in Held(tok) /\ u \notin Units(id)
      <3>1. u \in Held(tok)' <=>
              \E k \in DOMAIN escrows' : Locked(k)' /\ deposited'[k] = tok /\ u \in Units(k)'
        BY HeldUnits
      <3>2. u \in Held(tok) <=>
              \E k \in DOMAIN escrows : Locked(k) /\ deposited[k] = tok /\ u \in Units(k)
        BY HeldUnits
      <3> QED BY <1>6, <2>1, <2>2, <3>1, <3>2
    <2> QED BY <2>3
  <1>8. /\ IsFiniteSet(Held(tok)')
        /\ Cardinality(Held(tok)') = Cardinality(Held(tok)) - escrows[id].collateral
    BY <1>2, <1>4, <1>5, <1>7, HeldChanges DEF SolvencyInv
  <1>9. balance'[tok] = bal
    BY <1>1 DEF Settle, IndInv, TypeOK
  <1> QED BY <1>1, <1>8, <1>9 DEF SolvencyInv

\* A new escrow brings its collateral.
LEMMA StoreSolvent ==
    ASSUME IndInv, SolvencyInv, NEW tok, Token = {tok}, NEW x \in Account, NEW r \in Account,
           NEW q \in Payee, NEW n \in Nat \ {0}, Store(x, r, q, tok, n)
    PROVE  SolvencyInv'
  <1>0. PICK id : id = nonce + 1
    OBVIOUS
  <1> DEFINE rec == [executor |-> x, requester |-> q, release_signer |-> r, collateral |-> n,
                     created_at_ledger |-> ledger, status |-> "LOCKED"]
  <1>1. /\ escrows \in Seq(EscrowState) /\ deposited \in Seq(Token) /\ nonce \in Nat
        /\ Len(escrows) = nonce /\ Len(deposited) = nonce
    BY DEF IndInv, TypeOK
  <1>2. escrows' = Append(escrows, rec) /\ deposited' = Append(deposited, tok)
    BY DEF Store
  <1>3. rec.status = "LOCKED" /\ rec.collateral = n
    OBVIOUS
  <1> HIDE DEF rec
  <1>4. /\ DOMAIN escrows = 1..nonce /\ DOMAIN escrows' = 1..id
        /\ escrows'[id] = rec /\ deposited'[id] = tok
        /\ \A k \in 1..nonce : escrows'[k] = escrows[k] /\ deposited'[k] = deposited[k]
    BY <1>0, <1>1, <1>2
  <1>5. id \notin 1..nonce /\ 1..id = 1..nonce \cup {id}
    BY <1>0, <1>1
  <1>6. Locked(id)' /\ Units(id)' = {id} \X (1..n)
    BY <1>3, <1>4 DEF Locked, Units
  <1>7. \A k \in 1..nonce :
          /\ Locked(k)' <=> Locked(k)
          /\ Units(k)' = Units(k)
          /\ \A u \in Units(k) : u \notin {id} \X (1..n)
    BY <1>4, <1>5 DEF Locked, Units
  <1>8. /\ Held(tok)' = Held(tok) \cup ({id} \X (1..n))
        /\ Held(tok) \cap ({id} \X (1..n)) = {}
    <2>1. ASSUME NEW u
          PROVE  /\ u \in Held(tok)' <=> u \in Held(tok) \/ u \in {id} \X (1..n)
                 /\ ~(u \in Held(tok) /\ u \in {id} \X (1..n))
      <3>1. u \in Held(tok)' <=>
              \E k \in 1..id : Locked(k)' /\ deposited'[k] = tok /\ u \in Units(k)'
        BY <1>4, HeldUnits
      <3>2. u \in Held(tok) <=>
              \E k \in 1..nonce : Locked(k) /\ deposited[k] = tok /\ u \in Units(k)
        BY <1>4, HeldUnits
      <3> QED BY <1>4, <1>5, <1>6, <1>7, <3>1, <3>2
    <2> QED BY <2>1
  <1>9. /\ IsFiniteSet(Held(tok)')
        /\ Cardinality(Held(tok)') = Cardinality(Held(tok)) + n
    <2>1. PICK U : U = {id} \X (1..n)
      OBVIOUS
    <2>2. IsFiniteSet(U) /\ Cardinality(U) = n
      BY <2>1, UnitsCount
    <2>3. IsFiniteSet(Held(tok))
      BY DEF SolvencyInv
    <2>4. Held(tok)' = Held(tok) \cup U /\ Held(tok) \cap U = {}
      BY <1>8, <2>1
    <2> QED BY <2>2, <2>3, <2>4, HeldChanges
  <1>10. balance'[tok][Contract] = balance[tok][Contract] + n
    <2>1. x # Contract /\ Contract \in Address /\ x \in Address
      BY EscrowAssumption DEF Address
    <2>2. balance' = [balance EXCEPT ![tok] = Pay(balance[tok], x, Contract, n)]
      BY DEF Store
    <2>3. balance[tok] \in [Address -> Nat] /\ balance \in [Token -> [Address -> Nat]]
      BY DEF IndInv, TypeOK
    <2> QED BY <2>1, <2>2, <2>3 DEF Pay
  <1> QED BY <1>9, <1>10 DEF SolvencyInv

\* Every step keeps the contract solvent.
LEMMA StepSolvent ==
    ASSUME NEW tok, Token = {tok}, Contract \notin Payee
    PROVE  IndInv /\ SolvencyInv /\ [Next]_vars => SolvencyInv'
  <1> SUFFICES ASSUME IndInv, SolvencyInv, [Next]_vars PROVE SolvencyInv'
    OBVIOUS
  <1>1. ASSUME NEW s \in Account, NEW x \in Account, NEW r \in Account, NEW q \in Payee,
               NEW n \in Amount, create_escrow(s, x, r, q, tok, n)
        PROVE  SolvencyInv'
    BY <1>1, StoreSolvent, EscrowAssumption DEF create_escrow
  <1>2. ASSUME NEW id \in DOMAIN escrows
        PROVE  /\ balance[instanceToken] \in [Address -> Nat]
               /\ escrows[id].executor \in Address \ {Contract}
               /\ escrows[id].requester \in Address \ {Contract}
               /\ escrows[id].collateral \in Nat
    <2>1. escrows[id] \in EscrowState /\ instanceToken \in Token
      BY <1>2, StoredType
    <2>2. /\ escrows[id].executor \in Account /\ escrows[id].requester \in Payee
          /\ escrows[id].collateral \in Nat
      BY <2>1 DEF EscrowState
    <2> QED BY <2>1, <2>2, EscrowAssumption DEF IndInv, TypeOK, Address
  <1>3. ASSUME NEW id \in DOMAIN escrows, Locked(id), NEW s \in Status \ {"LOCKED"},
               NEW to \in Address \ {Contract},
               Settle(id, s, Pay(balance[instanceToken], Contract, to, escrows[id].collateral))
        PROVE  SolvencyInv'
    <2> DEFINE bal == Pay(balance[instanceToken], Contract, to, escrows[id].collateral)
    <2>1. balance[instanceToken][Contract] >= escrows[id].collateral
      BY <1>3 DEF Settle
    <2>2. bal \in [Address -> Nat]
      BY <1>2, <2>1, PayType DEF Address
    <2>3. bal[Contract] = balance[instanceToken][Contract] - escrows[id].collateral
      BY <1>2, PaidOut
    <2> HIDE DEF bal
    <2>4. Settle(id, s, bal)
      BY <1>3 DEF bal
    <2> QED BY <1>3, <2>2, <2>3, <2>4, SettleSolvent
  <1>4. ASSUME NEW s \in Account, NEW id \in DOMAIN escrows, release_milestone(s, id)
        PROVE  SolvencyInv'
    BY <1>2, <1>3, <1>4 DEF release_milestone, Status
  <1>5. ASSUME NEW id \in DOMAIN escrows, claim_timeout(id) PROVE SolvencyInv'
    BY <1>2, <1>3, <1>5 DEF claim_timeout, Status
  <1>6. ASSUME NEW s \in Account, NEW id \in DOMAIN escrows, NEW bp \in ShareBp, NEW m \in Payee,
               confiscate(s, id, bp, m)
        PROVE  SolvencyInv'
    <2> DEFINE c   == escrows[id].collateral
               q   == escrows[id].requester
               rs  == requester_share(c, bp)
               ms  == marketplace_share(c, bp)
               one == Pay(balance[instanceToken], Contract, q, rs)
               bal == Pay(one, Contract, m, ms)
    <2>1. Settle(id, "CONFISCATED", bal) /\ bp <= 10000 /\ Locked(id)
      BY <1>6 DEF confiscate
    <2>2. balance[instanceToken][Contract] >= c
      BY <2>1 DEF Settle
    <2>3. bp \in Nat /\ m \in Address \ {Contract}
      BY EscrowAssumption DEF Address
    <2>4. c \in Nat /\ q \in Address \ {Contract} /\ balance[instanceToken] \in [Address -> Nat]
      BY <1>2
    <2> HIDE DEF c, q
    <2>5. rs \in Nat /\ ms \in Nat /\ rs + ms = c
      BY <2>1, <2>3, <2>4, SplitIsExact
    <2> HIDE DEF rs, ms
    <2>6. /\ Contract \in Address /\ balance[instanceToken][Contract] \in Nat
          /\ balance[instanceToken][Contract] >= rs
      BY <2>2, <2>4, <2>5 DEF Address
    <2>7. one \in [Address -> Nat] /\ one[Contract] = balance[instanceToken][Contract] - rs
      BY <2>4, <2>5, <2>6, PayType, PaidOut
    <2> HIDE DEF one
    <2>8. one[Contract] >= ms
      BY <2>2, <2>5, <2>6, <2>7
    <2>9. bal \in [Address -> Nat] /\ bal[Contract] = one[Contract] - ms
      BY <2>3, <2>5, <2>6, <2>7, <2>8, PayType, PaidOut
    <2> HIDE DEF bal
    <2>10. bal[Contract] = balance[instanceToken][Contract] - escrows[id].collateral
      BY <2>5, <2>6, <2>7, <2>9 DEF c
    <2> QED BY <2>1, <2>9, <2>10, SettleSolvent DEF Status
  <1>7. CASE CloseLedger \/ UNCHANGED vars
    <2>1. UNCHANGED <<escrows, deposited, balance>>
      BY <1>7 DEF CloseLedger, vars
    <2>2. \A k : Units(k)' = Units(k) /\ (Locked(k)' <=> Locked(k))
      BY <2>1 DEF Units, Locked
    <2>3. Held(tok)' = Held(tok)
      BY <2>1, <2>2, HeldUnits
    <2> QED BY <2>1, <2>3 DEF SolvencyInv
  <1> QED BY <1>1, <1>4, <1>5, <1>6, <1>7 DEF Next

\* The contract that holds nothing has locked nothing.
LEMMA InitSolvent == Init => SolvencyInv
  <1> SUFFICES ASSUME Init, NEW tok \in Token
               PROVE  IsFiniteSet(Held(tok)) /\ balance[tok][Contract] = Cardinality(Held(tok))
    BY DEF SolvencyInv
  <1>1. Held(tok) = {}
    BY HeldUnits DEF Init
  <1>2. balance[tok][Contract] = 0
    BY DEF Init, Address
  <1> QED BY <1>1, <1>2, FS_EmptySet

\* With one token, and nobody naming the contract itself as a payee, the
\* contract holds exactly the collateral of the LOCKED escrows after any
\* sequence of transactions, whatever is confiscated in whatever shares.
THEOREM ContractIsSolvent ==
    ASSUME NEW CONSTANT tok, Token = {tok}, Contract \notin Payee
    PROVE  Spec => []Solvency
  <1>1. Init => IndInv /\ SolvencyInv
    BY InitInv, InitSolvent
  <1>2. IndInv /\ SolvencyInv /\ [Next]_vars => (IndInv /\ SolvencyInv)'
    BY StepInv, StepSolvent
  <1>3. SolvencyInv => Solvency
    BY DEF SolvencyInv, Solvency, TotalLocked, Held
  <1> QED BY <1>1, <1>2, <1>3, PTL DEF Spec

=============================================================================
