------------------------------ MODULE Selector ------------------------------
(***************************************************************************)
(* Mango selectors as pkg/model/find.go evaluates them on one document.    *)
(* Matching ends in "yes", "no" or "error"; an error of one document is an *)
(* error of the whole query.                                               *)
(*                                                                         *)
(* A value is its type and a sequence of numbers: one number for a number, *)
(* string or boolean, the elements of an array of numbers, nothing for nil *)
(* (a field that is missing or null).  JSON numbers are floats, so nothing *)
(* has the integer type $mod asks for.                                     *)
(***************************************************************************)
EXTENDS Integers, SequencesExt

CONSTANTS Fields,       \* the fields a selector may name
          RegexMatches  \* pairs <<pattern, string>>

Null == [t |-> "nil", v |-> <<>>]
Number(n) == [t |-> "number", v |-> <<n>>]
Text(n) == [t |-> "string", v |-> <<n>>]
Array(s) == [t |-> "array", v |-> s]

\* The string that names a type in a $type condition.
TypeName(t) ==
  Text(CASE t = "nil" -> 1 [] t = "boolean" -> 2 [] t = "number" -> 3
         [] t = "string" -> 4 [] t = "array" -> 5 [] t = "object" -> 6)

Condition(field, op, value) == [field |-> field, op |-> op, value |-> value]

\* The members of a selector: a condition on a field, or a group of them.
\* The order of an array in the request is kept; that of an object's keys is
\* the order Go's map iteration happened to take.
Is(c) == [op |-> "field", args |-> <<c>>]
Group(op, cs) == [op |-> op, args |-> cs]

-----------------------------------------------------------------------------
Answer(b) == IF b THEN "yes" ELSE "no"

\* SelectorValue.Match, LessThen, GeaterThen, ArrayLen and Values.
Equal(x, y) == x.t = y.t /\ x.v = y.v

Ordered(x, y) == x.t = y.t /\ x.t \in {"number", "string"}

Less(x, y) == Ordered(x, y) /\ x.v[1] < y.v[1]

Greater(x, y) == Less(y, x)

ArrayLen(x) == IF x.t = "array" THEN Len(x.v) ELSE -1

Elements(x) == IF x.t = "array" THEN {Number(n) : n \in ToSet(x.v)} ELSE {}

\* FieldSelector.Match on the value x of the field.
MatchField(x, c) ==
  CASE c.op = "$lt"     -> Answer(Less(x, c.value))
    [] c.op = "$lte"    -> Answer(Equal(x, c.value) \/ Less(x, c.value))
    [] c.op = "$eq"     -> Answer(Equal(x, c.value))
    [] c.op = "$ne"     -> Answer(~Equal(x, c.value))
    [] c.op = "$gte"    -> Answer(Equal(x, c.value) \/ Greater(x, c.value))
    [] c.op = "$gt"     -> Answer(Greater(x, c.value))
    [] c.op = "$exists" -> Answer(x # Null)
    [] c.op = "$type"   -> IF c.value.t = "string"
                           THEN Answer(TypeName(x.t) = c.value) ELSE "error"
    [] c.op = "$in"     -> Answer(x \in Elements(c.value))
    [] c.op = "$nin"    -> Answer(x \notin Elements(c.value))
    [] c.op = "$size"   -> IF c.value.t = "number"
                           THEN Answer(ArrayLen(x) = c.value.v[1]) ELSE "error"
    [] c.op = "$mod"    -> "no"
    [] c.op = "$regex"  -> IF x.t = "string" /\ c.value.t = "string"
                           THEN Answer(<<c.value.v[1], x.v[1]>> \in RegexMatches)
                           ELSE "error"
    [] c.op = "$all"    -> IF ArrayLen(x) > 0 /\ ArrayLen(c.value) > 0
                           THEN Answer(Elements(c.value) \subseteq Elements(x))
                           ELSE "error"
    [] OTHER            -> "error"

\* The first of the members' outcomes that is not skip, if there is one.
FirstOther(outs, skip) ==
  LET others == SelectSeq(outs, LAMBDA r : r # skip)
  IN  IF others = <<>> THEN skip ELSE others[1]

Negate(r) == CASE r = "yes" -> "no" [] r = "no" -> "yes" [] OTHER -> r

\* SelectorGroup.Match: members are tried in order until one decides.
MatchGroup(op, outs) ==
  IF outs = <<>> THEN "no"
  ELSE CASE op = "$and" -> FirstOther(outs, "yes")
         [] op = "$or"  -> FirstOther(outs, "no")
         [] op = "$not" -> Negate(outs[1])
         [] op = "$nor" -> Negate(FirstOther(outs, "no"))

\* doc[f] is the value of field f.
MatchMember(doc, m) ==
  LET outs == [i \in DOMAIN m.args |-> MatchField(doc[m.args[i].field], m.args[i])]
  IN  IF m.op = "field" THEN outs[1] ELSE MatchGroup(m.op, outs)

\* FindQuery.Match: the selector is a conjunction of its members.
Match(doc, selector) ==
  MatchGroup("$and", [i \in DOMAIN selector |-> MatchMember(doc, selector[i])])

\* FindQuery.EqConditions: the equality conditions at the top level.
EqConditions(selector) ==
  {m.args[1] : m \in {m \in ToSet(selector) :
                        m.op = "field" /\ m.args[1].op = "$eq"}}

=============================================================================
