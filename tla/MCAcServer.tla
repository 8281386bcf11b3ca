----------------------------- MODULE MCAcServer -----------------------------
(* Answers of each kind: a status that is on, off, beyond its range or not *)
(* there, an error, lists of maintainers with what is not a name, and      *)
(* texts with white space, escapes, nesting and numbers of two digits.     *)
EXTENDS AcServer, Json

Member(name, item) == Named(<<name>>, item)
Status(n) == Member("s", IntItem(n))
Error == ObjectItem(<<Member("error", StringItem(<<"e">>))>>)

Fractional == [Typed("Float") EXCEPT !.valuestring = <<"1", ".", "0", "e", "-", "2">>]

Statuses == {
  ObjectItem(<<Status(1)>>),
  ObjectItem(<<Member("x", ArrayItem(<<Typed("True"), Typed("NULL")>>)), Member("S", IntItem(0))>>),
  ObjectItem(<<Status(10)>>),
  Error }

Cards == {
  ObjectItem(<<Member("x", StringItem(<<"a", Quote, Backslash, "\\n">>)), Status(12)>>),
  ObjectItem(<<Status(-1), Member("x", Typed("False"))>>),
  ObjectItem(<<Member("x", ObjectItem(<<Status(1)>>)), Status(0)>>) }

Posts == {ObjectItem(<<Member("s", Fractional)>>), IntItem(10)}

Lists == {
  ArrayItem(<<StringItem(<<"a">>), IntItem(1), StringItem(<<"b", "c">>)>>),
  ArrayItem(<<>>),
  Error }

ServerAnswers ==
  [k \in {"status", "card", "post", "maintainers"} |->
     CASE k = "status" -> Statuses [] k = "card" -> Cards [] k = "post" -> Posts [] OTHER -> Lists]

=============================================================================
