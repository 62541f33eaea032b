SPECIFICATION Spec
CONSTANTS
    Accounts = {a1, a2, a3, a4, a5}
    Payer = payer
    MaxProducts = 2
    MaxDepositAccounts = 2
    SizeModulus = 1073741824
SYMMETRY Interchangeable
INVARIANTS
    TypeOK
    LinkedOnce
CHECK_DEADLOCK FALSE
