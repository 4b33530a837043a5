CONSTANTS
    alice = alice
    bob = bob
    t1 = t1
    t2 = t2
    t3 = t3
    key = key
    NoKey = NoKey
    Account <- MCAccount
    Forger = bob
    InitialBalance <- MCInitialBalance
    Tx <- MCTx
    Sender <- MCSender
    Recipient <- MCRecipient
    Amount <- MCAmount
    Fee <- MCFee
    Deposit <- MCDeposit
    DuplicateKey <- MCDuplicateKey
    MaxUnconfirmed = 2
    MaxHeight = 2
SPECIFICATION Spec
INVARIANT CachedIsKept
CHECK_DEADLOCK FALSE
