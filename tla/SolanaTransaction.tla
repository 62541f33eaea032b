--------------------------- MODULE SolanaTransaction ---------------------------
(***************************************************************************)
(* Solana/Transaction: how the accounts, the instructions and the          *)
(* signatures of a transaction are laid out.                               *)
(*                                                                         *)
(* A transaction is kept as the four lists of accounts it is made of, its  *)
(* blockhash, its signers and its instructions, each a program, account    *)
(* indices and the sizes of its items.  Indices are counted from 0.  The   *)
(* header holds three counts; IsSigner and IsWritable are how a validator  *)
(* reads them.                                                             *)
(***************************************************************************)
EXTENDS Integers, Sequences, SequencesExt

MaxTransactionSize == 1232
HashSize == 32
SignatureSize == 64

\* Of 16 bits the two bytes hold 14: a value above is encoded as another.
CompactU16(value) ==
    IF value < 128 THEN <<value>> ELSE <<128 + (value % 128), (value \div 128) % 128>>
SizeofCompactU16(value) == IF value < 128 THEN 1 ELSE 2

\* CompactArray and DynamicCompactArray: the length, then the elements.
CompactArraySize(length, sizeofElement) == SizeofCompactU16(length) + sizeofElement * length

Sum(sizes) == FoldLeft(LAMBDA total, size : total + size, 0, sizes)

\* Instruction and DynamicInstruction: the program, the indices, the items.
Instruction(programId, accountIndices, itemSizes) ==
    [programId |-> programId, accountIndices |-> accountIndices, itemSizes |-> itemSizes]
InstructionSize(i) ==
    1 + CompactArraySize(Len(i.accountIndices), 1) + CompactArraySize(Sum(i.itemSizes), 1)

\* The writable come before the read only, those that sign before the others.
AccountArray(signingWritable, signingReadOnly, writable, readOnly) ==
    signingWritable \o signingReadOnly \o writable \o readOnly

MessageHeader(signingWritable, signingReadOnly, readOnly) ==
    [signatures |-> Len(signingWritable) + Len(signingReadOnly),
     signingReadOnly |-> Len(signingReadOnly), readOnly |-> Len(readOnly)]

\* DynamicTransaction, and Transaction whose counts are known to the compiler.
Transaction(recentBlockhash, signingWritable, signingReadOnly, writable, readOnly, instructions) ==
    [signatures |-> signingWritable \o signingReadOnly,
     header |-> MessageHeader(signingWritable, signingReadOnly, readOnly),
     accounts |-> AccountArray(signingWritable, signingReadOnly, writable, readOnly),
     recentBlockhash |-> recentBlockhash,
     instructions |-> instructions]

\* The bytes written, into an array of MaxTransactionSize whose end is not looked at.
TransactionSize(t) ==
    CompactArraySize(Len(t.signatures), SignatureSize)
      + 3
      + CompactArraySize(Len(t.accounts), HashSize)
      + HashSize
      + SizeofCompactU16(Len(t.instructions))
      + Sum([i \in DOMAIN t.instructions |-> InstructionSize(t.instructions[i])])

-----------------------------------------------------------------------------
\* A validator's reading of an account by its index.
AccountAt(t, index) == t.accounts[index + 1]
IsSigner(t, index) == index < t.header.signatures
IsWritable(t, index) ==
    IF IsSigner(t, index)
    THEN index < t.header.signatures - t.header.signingReadOnly
    ELSE index < Len(t.accounts) - t.header.readOnly

\* The accounts an instruction hands to its program.
AccountsOf(t, i) ==
    [n \in DOMAIN t.instructions[i].accountIndices |-> AccountAt(t, t.instructions[i].accountIndices[n])]
=============================================================================
