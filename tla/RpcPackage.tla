----------------------------- MODULE RpcPackage ------------------------------
(***************************************************************************)
(* network/rpcpackage.h, rpcpackage.cpp: the arguments of a call as bytes. *)
(*                                                                         *)
(* A byte is <<w, k>>, the k-th of those that memcpy takes from w.  Bytes  *)
(* that are not the bytes of one value of the type that is read make no    *)
(* value: Garbage is whatever the reader gets then, as it is behind the    *)
(* data that was received, where the array is not initialized.             *)
(***************************************************************************)
EXTENDS Integers, Sequences, SequencesExt

CONSTANTS
  MaxRpcDataSize,  \* MAX_RPC_DATA_SIZE, in bytes
  Garbage

(* The length of a string that fits in a package fits in its uint16_t. *)
ASSUME PackageAssumption == MaxRpcDataSize \in 0..65535

(* Argument types: each is pushed with its letter in m_argString.  The     *)
(* signed types and float have the width of one of these.                  *)
Width(type) == CASE type = "c" -> 1 [] type = "s" -> 2 [] type = "i" -> 4 [] type = "d" -> 8

Number(type, val) == [type |-> type, val |-> val]
Text(val, length) == [type |-> "L", val |-> val, length |-> length]
EmptyText == Text("", 0)

IsArgument(w) ==
  \/ w.type \in {"c", "s", "i", "d"}
  \/ w.type = "L" /\ w.length \in Nat /\ (w.length = 0 => w = EmptyText)
TypesOf(args) == [i \in DOMAIN args |-> args[i].type]

Content(w) == [k \in 1..(IF w.type = "L" THEN w.length ELSE Width(w.type)) |-> <<w, k>>]

(* A string is its length, as uint16_t, and then its characters. *)
Bytes(w) ==
  IF w.type = "L" THEN Content(Number("s", w.length)) \o Content(w) ELSE Content(w)

EmptyPackage == [data |-> <<>>, argString |-> <<>>, m_validPackage |-> TRUE]

(* push: an argument that does not fit makes the package invalid and       *)
(* leaves the rest of it as it is.                                         *)
push(p, w) ==
  IF Len(p.data) + Len(Bytes(w)) > MaxRpcDataSize
  THEN [p EXCEPT !.m_validPackage = FALSE]
  ELSE [p EXCEPT !.data = @ \o Bytes(w), !.argString = Append(@, w.type)]

PackageOf(args) == FoldLeft(push, EmptyPackage, args)

(* The value of this type in the n bytes behind offset. *)
IsValue(type, bytes) ==
  LET w == bytes[1][1] IN w.type = type /\ bytes = Content(w)
IsThere(type, data, offset, n) ==
  n > 0 /\ offset + n <= Len(data) /\ IsValue(type, SubSeq(data, offset + 1, offset + n))
Read(type, data, offset, n) ==
  IF IsThere(type, data, offset, n) THEN data[offset + 1][1] ELSE Garbage

ReadNumber(type, data, offset) == Read(type, data, offset, Width(type))

(* Mutant: the characters are read from where the length is. *)
ReadTextAtLength(data, offset) ==
  IF IsThere("s", data, offset, Width("s"))
  THEN Read("L", data, offset, ReadNumber("s", data, offset).val) ELSE Garbage

(* popString: strlen is popped like any value, and the characters are read *)
(* from behind it.                                                         *)
ReadText(data, offset) ==
  LET strlen == ReadNumber("s", data, offset)
  IN  IF ~IsThere("s", data, offset, Width("s")) THEN Garbage
      ELSE IF strlen.val = 0 THEN EmptyText
      ELSE Read("L", data, offset + Width("s"), strlen.val)

(* How far one pop moves m_readOffset: popString moves it behind the       *)
(* length of the string, not behind its characters.                        *)
Advance(type) == IF type = "L" THEN Width("s") ELSE Width(type)

(* m_readOffset before the first pop and after each, as argSpec says. *)
ReadOffsets(argSpec) ==
  LET offset[n \in 0..Len(argSpec)] ==
        IF n = 0 THEN 0 ELSE offset[n - 1] + Advance(argSpec[n])
  IN  offset

(* Popping argument after argument. *)
PopAll(data, argSpec) ==
  [i \in DOMAIN argSpec |->
     LET offset == ReadOffsets(argSpec)[i - 1]
     IN  IF argSpec[i] = "L" THEN ReadText(data, offset)
         ELSE ReadNumber(argSpec[i], data, offset)]
==============================================================================
