----------------------------- MODULE Synthesizer -----------------------------
(***************************************************************************)
(* The on-chain program program/synthesizer: the accounts it initialises   *)
(* and links to each other, a product to a product table and a deposit     *)
(* account to a product.                                                   *)
(*                                                                         *)
(* The runtime runs one instruction at a time on an account, and keeps     *)
(* nothing of one that fails a check: such an instruction is a stuttering  *)
(* step here.  Every account the three handlers look at must be signed     *)
(* for and writable; signed is the set of those that are both.  An         *)
(* account is blank (magic 0) until one of the handlers gives it a type.   *)
(* synthesize and redeem return SUCCESS and change nothing.                *)
(***************************************************************************)
EXTENDS Integers, Sequences, TLC

CONSTANTS
    Accounts,               \* accounts the program may be given
    Payer,                  \* the funding account of every instruction
    MaxProducts,            \* SYNTHFI_MAX_PRODUCTS
    MaxDepositAccounts,     \* SYNTHFI_MAX_DEPOSIT_ACCTS
    SizeModulus             \* values of a uint32_t: 2^32 in the program

ASSUME MaximaAssumption == MaxProducts \in Nat /\ MaxDepositAccounts \in Nat
ASSUME SizeModulusAssumption == SizeModulus \in Nat \ {0}

VARIABLES
    data,       \* what the program keeps in each account
    dataLen     \* environment: the bytes of each account of the program

programVars == <<data, dataLen>>

\* Bytes of a public key, and of the structures of synthesizer.h.
PubKeySize == 32
TableHeader == 24
TableSize == TableHeader + MaxProducts * PubKeySize
ProductHeader == 160
ProductSize == ProductHeader + MaxDepositAccounts * PubKeySize
DepositAccountSize == 96

SizeOf(type) == CASE type = "table" -> TableSize
                  [] type = "product" -> ProductSize
                  [] type = "deposit" -> DepositAccountSize
                  [] type = "blank" -> 0

\* links are the first productCount products of a table, or the first
\* depositAccountCount depositAccounts of a product.
Blank == [type |-> "blank", size |-> 0, links |-> <<>>]
ProgramAccount == [type : {"blank", "table", "product", "deposit"},
            size : 0 .. SizeModulus - 1,
            links : Seq(Accounts)]

\* dataLen of an account the program does not own.
NotOwned == -1

\* valid_funding_account and valid_signable_account.
ValidFunding(signed) == Payer \in signed
ValidSignable(signed, a, len) == a \in signed /\ dataLen[a] # NotOwned /\ dataLen[a] >= len

\* Lists of links, from the type whose accounts keep them.
MaxLinks(type) == IF type = "table" THEN MaxProducts ELSE MaxDepositAccounts

\* sizeof( synthfi_deposit_account_t ) - sizeof( tptr->depositAccounts ) + ...
ProductSizeAfterLink(count) ==
    (DepositAccountSize - MaxDepositAccounts * PubKeySize + count * PubKeySize) % SizeModulus
TableSizeAfterLink(count) == (TableHeader + count * PubKeySize) % SizeModulus

Init ==
    /\ data = [a \in Accounts |-> Blank]
    /\ dataLen = [a \in Accounts |-> NotOwned]

-----------------------------------------------------------------------------
\* Mutants: slips of the code that the properties below are there to catch.
InitProduct_CountNotChecked(signed, table, product) ==
    /\ ValidFunding(signed)
    /\ ValidSignable(signed, table, TableSize)
    /\ ValidSignable(signed, product, ProductSize)
    /\ data[table].type = "table"
    /\ data[product].type = "blank"
    /\ data' = [data EXCEPT
          ![product] = [type |-> "product", size |-> ProductSize % SizeModulus, links |-> <<>>],
          ![table].links = Append(@, product),
          ![table].size = TableSizeAfterLink(Len(data[table].links) + 1)]
    /\ UNCHANGED dataLen

InitDepositAccount_NotBlank(signed, product, deposit) ==
    /\ ValidFunding(signed)
    /\ ValidSignable(signed, product, ProductSize)
    /\ ValidSignable(signed, deposit, DepositAccountSize)
    /\ data[product].type = "product"
    /\ product # deposit
    /\ Len(data[product].links) < MaxDepositAccounts
    /\ data' = [data EXCEPT
          ![deposit] = [type |-> "deposit", size |-> DepositAccountSize % SizeModulus,
                        links |-> <<>>],
          ![product].links = Append(@, deposit),
          ![product].size = ProductSizeAfterLink(Len(data[product].links) + 1)]
    /\ UNCHANGED dataLen

-----------------------------------------------------------------------------
\* The system program creates an account of the program, of any length.
CreateAccount(a, len) ==
    /\ dataLen[a] = NotOwned
    /\ dataLen' = [dataLen EXCEPT ![a] = len]
    /\ UNCHANGED data

\* init_synthfi: a blank account becomes an empty product table.
InitSynthfi(signed, table) ==
    /\ ValidFunding(signed)
    /\ ValidSignable(signed, table, TableSize)
    /\ data[table].type = "blank"
    /\ data' = [data EXCEPT ![table] =
                   [type |-> "table", size |-> TableHeader % SizeModulus, links |-> <<>>]]
    /\ UNCHANGED dataLen

\* init_product: a blank account becomes a product and is added to a table.
InitProduct(signed, table, product) ==
    /\ ValidFunding(signed)
    /\ ValidSignable(signed, table, TableSize)
    /\ ValidSignable(signed, product, ProductSize)
    /\ data[table].type = "table"
    /\ data[product].type = "blank"
    /\ Len(data[table].links) < MaxProducts
    /\ data' = [data EXCEPT
          ![product] = [type |-> "product", size |-> ProductSize % SizeModulus, links |-> <<>>],
          ![table].links = Append(@, product),
          ![table].size = TableSizeAfterLink(Len(data[table].links) + 1)]
    /\ UNCHANGED dataLen

\* init_deposit_account: a blank account becomes a deposit account of a product.
InitDepositAccount(signed, product, deposit) ==
    /\ ValidFunding(signed)
    /\ ValidSignable(signed, product, ProductSize)
    /\ ValidSignable(signed, deposit, DepositAccountSize)
    /\ data[product].type = "product"
    /\ data[deposit].type = "blank"
    /\ Len(data[product].links) < MaxDepositAccounts
    /\ data' = [data EXCEPT
          ![deposit] = [type |-> "deposit", size |-> DepositAccountSize % SizeModulus,
                        links |-> <<>>],
          ![product].links = Append(@, deposit),
          ![product].size = ProductSizeAfterLink(Len(data[product].links) + 1)]
    /\ UNCHANGED dataLen

\* entrypoint and dispatch: one command with its accounts.
Next ==
    \/ \E a \in Accounts, len \in {0, DepositAccountSize, TableSize, ProductSize} :
          CreateAccount(a, len)
    \/ \E signed \in SUBSET (Accounts \cup {Payer}) :
          \/ \E a \in Accounts : InitSynthfi(signed, a)
          \/ \E a, b \in Accounts :
                InitProduct(signed, a, b) \/ InitDepositAccount(signed, a, b)

Spec == Init /\ [][Next]_programVars

\* Symmetry for TLC: no formula names an account, so the accounts are interchangeable.
Interchangeable == Permutations(Accounts)

-----------------------------------------------------------------------------
\* Type invariant, with the arrays never longer than declared and the structures
\* never larger than the accounts that hold them.
TypeOK ==
    /\ data \in [Accounts -> ProgramAccount]
    /\ dataLen \in [Accounts -> Nat \cup {NotOwned}]
    /\ \A a \in Accounts :
          /\ Len(data[a].links) =< MaxLinks(data[a].type)
          /\ data[a].type # "blank" => dataLen[a] >= SizeOf(data[a].type)

\* The type of the accounts that an account of a type links to.
LinkedType(type) == CASE type = "table" -> "product" [] type = "product" -> "deposit"
                      [] OTHER -> "nothing"

\* Whatever accounts the instructions are given, in whatever roles and as often:
\* what a table lists are products and what a product lists are deposit accounts,
\* no account is listed twice, in one list or in two, and every product and deposit
\* account is listed.
LinkedOnce ==
    /\ \A a \in Accounts : \A i \in DOMAIN data[a].links :
          data[data[a].links[i]].type = LinkedType(data[a].type)
    /\ \A a, b \in Accounts : \A i \in DOMAIN data[a].links, j \in DOMAIN data[b].links :
          data[a].links[i] = data[b].links[j] => a = b /\ i = j
    /\ \A b \in Accounts : data[b].type \in {"product", "deposit"} =>
          \E a \in Accounts : \E i \in DOMAIN data[a].links : data[a].links[i] = b

\* An account keeps its type for good, and no link is ever lost or moved.
LinksKept ==
    [][\A a \in Accounts : data[a].type # "blank" =>
          /\ data'[a].type = data[a].type
          /\ \A i \in DOMAIN data[a].links :
                i \in DOMAIN data'[a].links /\ data'[a].links[i] = data[a].links[i]]_programVars

\* "size of populated region of account" (synthesizer.h:74): the size of a product
\* covers its fields before the list and the deposit accounts it lists, and no more
\* than the structure.
ProductSizePopulated ==
    \A a \in Accounts : data[a].type = "product" =>
       /\ data[a].size >= ProductHeader + Len(data[a].links) * PubKeySize
       /\ data[a].size =< ProductSize
===============================================================================
