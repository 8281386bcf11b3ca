------------------------------ MODULE JsonItem ------------------------------
(***************************************************************************)
(* aJson (aJSON.cpp): the items that the parser makes, and the getters the *)
(* program calls.                                                          *)
(***************************************************************************)
EXTENDS Integers, SequencesExt

NoName == <<"NULL">>

NewItem == [name |-> NoName, type |-> "False", valueint |-> 0, valuestring |-> <<>>, child |-> <<>>]

Typed(type) == [NewItem EXCEPT !.type = type]
IntItem(n) == [Typed("Int") EXCEPT !.valueint = n]
StringItem(s) == [Typed("String") EXCEPT !.valuestring = s]
ArrayItem(items) == [Typed("Array") EXCEPT !.child = items]
ObjectItem(items) == [Typed("Object") EXCEPT !.child = items]
Named(name, item) == [item EXCEPT !.name = name]

-----------------------------------------------------------------------------
(* The getters *)

\* Names are compared without their case.
Fold(name) == [i \in DOMAIN name |-> CASE name[i] = "S" -> "s" [] name[i] = "R" -> "r" [] OTHER -> name[i]]

\* The children of that name, of which the first one counts.
GetObjectItem(item, name) ==
  SelectSeq(item.child, LAMBDA c : c.name # NoName /\ Fold(c.name) = Fold(name))

IsInt(field) == field # <<>> /\ Head(field).type = "Int"
IsString(field) == field # <<>> /\ Head(field).type = "String"

=============================================================================
