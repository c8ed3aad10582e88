----------------------------- MODULE ToolContext -----------------------------
(***************************************************************************)
(* What every command of the test tool is given: its account and the       *)
(* contracts of its configuration (test-tool/src/context.ts), arguments,   *)
(* and the order in which the collection keeps and lists strings.          *)
(***************************************************************************)
EXTENDS Integers, Sequences

CONSTANTS
  Primary,        \* the tool's own address
  Receiver,       \* the address of the receiver contract, "" where none is set
  ToolKey,        \* the tool's signer key
  MinterAccount,  \* the contract that owns the collection
  ByteOrder,      \* the strings that are keys of a map, in the order of their bytes
  DefaultLimit,   \* DEFAULT_LIMIT of cw721-base: 10
  MaxLimit,       \* MAX_LIMIT of cw721-base: 100
  MaxNumeral      \* bound of the numerals explored

ASSUME ContextAssumption ==
  /\ DefaultLimit \in 1 .. MaxLimit /\ MaxLimit \in Nat
  /\ MaxNumeral \in Nat

Given(args, i) == i <= Len(args)

Position(s) == CHOOSE i \in DOMAIN ByteOrder : ByteOrder[i] = s
==============================================================================
