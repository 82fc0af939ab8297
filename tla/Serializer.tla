----------------------------- MODULE Serializer -----------------------------
(***************************************************************************)
(* script/serializer.cpp: the properties of a script object as a message,  *)
(* and back.                                                               *)
(*                                                                         *)
(* A class is a sequence of properties with different names, in the order  *)
(* AngelScript knows them; the values of an object are a function of the   *)
(* names.  Declarations are told apart as far as the code does:            *)
(*   "small"    a primitive type of less than eight bytes                  *)
(*   "wide"     a primitive type of eight bytes                            *)
(*   "string"                                                              *)
(*   "small[]", "string[]"   arrays of those                               *)
(*   "object"   what cannot be serialized: objects, handles, enums         *)
(***************************************************************************)
EXTENDS Integers, Sequences, SequencesExt

Singular == {"small", "string"}
Arrays == {"small[]", "string[]"}
Properties == [name : STRING, decl : Singular \cup Arrays \cup {"wide", "object"}]

Names(class) == {p.name : p \in ToSet(class)}
DeclOf(class, name) == (CHOOSE p \in ToSet(class) : p.name = name).decl

(* Mutant: a new object has no arrays yet. *)
InitialWithoutArrays(class) ==
  [n \in {m \in Names(class) : DeclOf(class, m) \notin Arrays} |-> 0]

(* The values of a new object. *)
Initial(class) == [n \in Names(class) |-> IF DeclOf(class, n) \in Arrays THEN <<>> ELSE 0]

(* The assertion that a listed primitive has less than eight bytes. *)
CanSerialize(class, list) == \A p \in ToSet(class) : p.name \in list => p.decl # "wide"

(* GetSizeOfPrimitiveType is asked for the size of the array type, which   *)
(* is 0: no byte of an element is copied.                                  *)
Stored(decl, value) == IF decl = "small[]" THEN [i \in DOMAIN value |-> 0] ELSE value

(* What cannot be serialized is left out. *)
IsSerialized(p, list) == p.name \in list /\ p.decl \in Singular \cup Arrays

Entry(p, values) ==
  [name |-> p.name, decl |-> p.decl, dat |-> Stored(p.decl, values[p.name])]

(* The listed properties, in the order of the class. *)
serializeObject(class, values, list) ==
  LET entries[k \in 0..Len(class)] ==
        IF k = 0 THEN <<>>
        ELSE IF IsSerialized(class[k], list) THEN Append(entries[k - 1], Entry(class[k], values))
        ELSE entries[k - 1]
  IN  entries[Len(class)]

(* deserializeArray empties the array.  It is given the type of the array  *)
(* and compares it with the types of elements: nothing is put in.          *)
Decoded(entry) == IF entry.decl \in Arrays THEN <<>> ELSE entry.dat

(* Mutant: the declarations are not compared. *)
FitsByName(entry, class) == entry.name \in Names(class)

(* The entries that can be deserialized into the class. *)
Fits(entry, class) == [name |-> entry.name, decl |-> entry.decl] \in ToSet(class)

(* Mutant: properties are found by their position, if the types agree. *)
appliedByPosition(source, class, values, k) ==
  [n \in Names(class) |->
     LET at == {i \in 1..k : i <= Len(class) /\ class[i] = [name |-> n, decl |-> source[i].decl]}
     IN  IF at = {} THEN values[n] ELSE Decoded(source[CHOOSE i \in at : TRUE])]

(* The values after the first k entries. *)
applied(source, class, values, k) ==
  [n \in Names(class) |->
     LET at == {i \in 1..k : source[i].name = n}
     IN  IF at = {} THEN values[n] ELSE Decoded(source[CHOOSE i \in at : TRUE])]

(* The loop goes on until an entry does not fit.  A property that has      *)
(* another declaration is an error the loop returns with; one the class    *)
(* does not have is looked up behind the last one, and the null pointer    *)
(* that is its name makes std::string throw an exception.                  *)
deserializeObject(source, class, values) ==
  LET bad == {i \in DOMAIN source : ~Fits(source[i], class)}
      end == IF bad = {} THEN Len(source) + 1 ELSE CHOOSE i \in bad : \A j \in bad : i <= j
  IN  [values |-> applied(source, class, values, end - 1),
       result |-> IF bad = {} THEN "true"
                  ELSE IF source[end].name \in Names(class) THEN "false" ELSE "throws"]
==============================================================================
