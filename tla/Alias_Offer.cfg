CONSTANTS
    alice = alice
    bob = bob
    t1 = t1
    t2 = t2
    Account <- MCAccount
    Price <- MCPrice
    TransactionId <- MCTransactionId
    Anyone = Anyone
    None = None
    NoRow = NoRow
    MaxHeight = 4
SPECIFICATION Spec
INVARIANT OfferAsReplayed
CHECK_DEADLOCK FALSE
