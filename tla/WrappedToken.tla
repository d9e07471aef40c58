---------------------------- MODULE WrappedToken ----------------------------
(***************************************************************************)
(* WrappedToken.sol over OpenZeppelin's ERC20, as operators on a token     *)
(* record.  A plain ERC20 is a token whose owner is NoOwner: none of the   *)
(* overrides of WrappedToken applies to it.  An operation that reverts is  *)
(* one whose Can... condition is false.                                    *)
(***************************************************************************)
EXTENDS Integers, FiniteSets, Functions

CONSTANTS
    Accounts,   \* addresses that can hold tokens
    NoOwner     \* owner of a plain ERC20

Token(owner, totalSupply, balance, allowance) ==
    [owner |-> owner, totalSupply |-> totalSupply,
     balance |-> balance, allowance |-> allowance]

NewToken(owner, balance) ==
    Token(owner, SumFunction(balance), balance,
          [a \in Accounts |-> [b \in Accounts |-> 0]])

\* ERC20._update between two accounts.
Move(balance, from, to, value) ==
    LET debited == [balance EXCEPT ![from] = @ - value]
    IN  [debited EXCEPT ![to] = @ + value]

CanTransfer(t, sender, to, value) ==
    /\ to \in Accounts
    /\ sender # t.owner => t.balance[sender] >= value

\* The owner's transfer mints first.
transfer(t, sender, to, value) ==
    IF sender = t.owner
    THEN Token(t.owner, t.totalSupply + value,
               [t.balance EXCEPT ![to] = @ + value], t.allowance)
    ELSE Token(t.owner, t.totalSupply, Move(t.balance, sender, to, value),
               t.allowance)

approve(t, from, spender, value) ==
    Token(t.owner, t.totalSupply, t.balance,
          [t.allowance EXCEPT ![from][spender] = value])

approveByOwner(t, sender, from, spender, value) ==
    IF sender = t.owner THEN approve(t, from, spender, value) ELSE t

\* Mutant: only the allowance is checked.
CanTransferFrom_unchecked(t, spender, from, value) ==
    t.allowance[from][spender] >= value

CanTransferFrom(t, spender, from, value) ==
    /\ t.allowance[from][spender] >= value
    /\ t.balance[from] >= value

\* Mutant: plain tokens are burned like wrapped ones.
transferFrom_burns(t, spender, from, to, value) ==
    Token(t.owner, t.totalSupply - value, [t.balance EXCEPT ![from] = @ - value],
          [t.allowance EXCEPT ![from][spender] = @ - value])

\* The owner's transfer to itself burns what it received.
transferFrom(t, spender, from, to, value) ==
    LET allowance == [t.allowance EXCEPT ![from][spender] = @ - value]
    IN  IF spender = t.owner /\ to = t.owner
        THEN Token(t.owner, t.totalSupply - value,
                   [t.balance EXCEPT ![from] = @ - value], allowance)
        ELSE Token(t.owner, t.totalSupply, Move(t.balance, from, to, value),
                   allowance)

\* A call to a plain ERC20 reverts: it has no such function.
CanSetMetaData(t, sender) == sender = t.owner
=============================================================================
