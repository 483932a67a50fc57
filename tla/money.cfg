\* The calls and requests of the balance are finite in number: its instance stops after them.
SPECIFICATION MoneySpec
CONSTANTS
    u1 = u1  u2 = u2  u3 = u3
    k1 = k1  k2 = k2  k3 = k3
    b1 = b1  b2 = b2
    Call = {u1, u2, u3}
    Clerk = {k1, k2, k3}
    Cost = 2
    Credit = 1
    Minimum = 2
    Amount <- MCAmount
    Thread = {t1}
    Calls = {"trunk", "phone", "trunk to phone"}
    Acct = {b1, b2}
    NoAcct = NoAcct
    Rate = {1, 3}
    StartRate <- MCStartRate
    MaxChanges = 1
    MaxFaults = 1
INVARIANTS
    BalanceIsLedger
    OverdraftBounded
    BilledByItsChain
CHECK_DEADLOCK FALSE
