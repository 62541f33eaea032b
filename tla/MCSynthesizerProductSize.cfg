SPECIFICATION Spec
CONSTANTS
    Accounts = {a1, a2, a3}
    Payer = payer
    MaxProducts = 8
    MaxDepositAccounts = 64
    SizeModulus = 1073741824
SYMMETRY Interchangeable
INVARIANT ProductSizePopulated
CHECK_DEADLOCK FALSE
