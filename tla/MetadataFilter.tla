---------------------------- MODULE MetadataFilter ----------------------------
(***************************************************************************)
(* The filters a search may carry, and what three stores make of them: an  *)
(* evaluator in Python, a WHERE clause with the three truth values of SQL  *)
(* and a cast that fails, and a payload filter of Qdrant.                  *)
(*                                                                         *)
(* A metadata value is [type, v]. Strings are "digits" if they would cast  *)
(* to a number, v being that number, and "words" if not. Dotted paths are  *)
(* fields; lists, which Qdrant alone looks into, are left out.             *)
(***************************************************************************)
EXTENDS Naturals, SequencesExt

CONSTANTS Deepest, Widest  \* BOUND: how far a filter goes down, and of how many parts

ASSUME BoundAssumption == Deepest \in Nat /\ Widest \in Nat

Value(type, v) == [type |-> type, v |-> v]
Null       == Value("null", 0)
Words(s)   == Value("words", s)
IsNumber(x) == x.type \in {"int", "float"}

Equals(field, value)  == [kind |-> "equals", field |-> field, value |-> value]
In(field, values)     == [kind |-> "in", field |-> field, values |-> values]
Ranges(field, bounds) == [kind |-> "range", field |-> field, bounds |-> bounds]
And(of)               == [kind |-> "and", of |-> of]
Or(of)                == [kind |-> "or", of |-> of]
Not(e)                == [kind |-> "not", of |-> <<e>>]

\* A request of the server has names and values, all of which are to hold.
TypedFilters(pairs) ==
    LET equals == [i \in DOMAIN pairs |-> Equals(pairs[i][1], pairs[i][2])]
    IN  IF Len(equals) = 1 THEN equals[1] ELSE And(equals)

\* Such filters.
Named(e) == e.kind = "equals" /\ e = Equals(e.field, e.value)
OfRequest(e) ==
    \/ Named(e)
    \/ /\ e.kind = "and" /\ e = And(e.of)
       /\ \E n \in 0 .. Widest : DOMAIN e.of = 1 .. n /\ \A i \in 1 .. n : Named(e.of[i])

Within(n, bounds) == \A op \in DOMAIN bounds :
    CASE op = "gt" -> n > bounds[op] [] op = "gte" -> n >= bounds[op]
      [] op = "lt" -> n < bounds[op] [] op = "lte" -> n <= bounds[op]

\* Numbers are equal across their types, and a Boolean is no number.
EqualScalar(x, y) == /\ x.type = y.type \/ (IsNumber(x) /\ IsNumber(y))
                     /\ x.v = y.v

-----------------------------------------------------------------------------
\* A filter is a tree, and what becomes of it a function of the places in it: a place
\* is the way there from the root.
Places == UNION {[1 .. n -> 1 .. Widest] : n \in 0 .. Deepest}
Root   == <<>>

Part(e, p) ==
    LET part[n \in 0 .. Len(p)] == IF n = 0 THEN e ELSE part[n - 1].of[p[n]] IN part[Len(p)]

Compound(e) == "of" \in DOMAIN e
Inside(e) ==
    {p \in Places : \A n \in 1 .. Len(p) :
        LET above == Part(e, SubSeq(p, 1, n - 1)) IN Compound(above) /\ p[n] \in DOMAIN above.of}
Conditions(e) == {p \in Inside(e) : ~Compound(Part(e, p))}

Bounded(e) == \A p \in Inside(e) :
    LET this == Part(e, p)
    IN  IF Compound(this) THEN Len(p) < Deepest /\ Len(this.of) <= Widest
        ELSE this.kind \in {"equals", "in", "range"}

\* In SQL an operator may be left out once the other operand decides.
Truth(b) == IF b THEN "true" ELSE "false"
Decided(s, deciding, other) ==
    IF deciding \in s THEN {deciding} \cup (s \cap {"error"})
    ELSE {IF "error" \in s THEN "error" ELSE IF "null" \in s THEN "null" ELSE other}
Negated(t) == CASE t = "true" -> "false" [] t = "false" -> "true" [] OTHER -> t

\* What follows for a filter from what its conditions come to: one or more of the truth
\* values of SQL. Those of Python and Qdrant are true or false, and so is what follows.
Combined(e, values) ==
    LET combined[p \in Inside(e)] ==
          LET this   == Part(e, p)
              child  == [i \in DOMAIN this.of |-> combined[Append(p, i)]]
              chosen == {{f[i] : i \in DOMAIN child} :
                           f \in {g \in [DOMAIN child -> UNION {child[i] : i \in DOMAIN child}] :
                                    \A i \in DOMAIN child : g[i] \in child[i]}}
          IN  CASE this.kind = "and" -> UNION {Decided(s, "false", "true") : s \in chosen}
                [] this.kind = "or"  -> UNION {Decided(s, "true", "false") : s \in chosen}
                [] this.kind = "not" -> {Negated(t) : t \in child[1]}
                [] OTHER             -> values[p]
    IN  combined[Root]

Holds(e, truth) == "true" \in Combined(e, [p \in DOMAIN truth |-> {Truth(truth[p])}])

Satisfies(meta, e) ==
    /\ e.field \in DOMAIN meta
    /\ CASE e.kind = "equals" -> EqualScalar(meta[e.field], e.value)
         [] e.kind = "in"     -> \E v \in e.values : EqualScalar(meta[e.field], v)
         [] e.kind = "range"  -> IsNumber(meta[e.field]) /\ Within(meta[e.field].v, e.bounds)

Matches(meta, e) == Holds(e, [p \in Conditions(e) |-> Satisfies(meta, Part(e, p))])

CompiledRange(meta, e) ==
    IF e.field \notin DOMAIN meta \/ meta[e.field].type = "null" THEN {"null"}
    ELSE IF IsNumber(meta[e.field]) \/ meta[e.field].type = "digits"
         THEN {Truth(Within(meta[e.field].v, e.bounds))}
         ELSE {"error"}

\* The value of a condition for a row, in PostgreSQL.
CompiledCondition(meta, e) ==
    IF e.kind = "range" THEN CompiledRange(meta, e)
    ELSE {IF e.field \in DOMAIN meta THEN Truth(Satisfies(meta, e)) ELSE "null"}

Compiled(meta, e) == Combined(e, [p \in Conditions(e) |-> CompiledCondition(meta, Part(e, p))])

\* Qdrant matches integers with integers; a fraction is asked for as a range.
Condition(meta, e) ==
    /\ e.field \in DOMAIN meta
    /\ CASE e.kind = "range" -> Satisfies(meta, e)
         [] e.kind = "equals" /\ e.value.type = "float" -> IsNumber(meta[e.field]) /\ meta[e.field].v = e.value.v
         [] OTHER -> meta[e.field].type = e.value.type /\ meta[e.field].v = e.value.v

PayloadSatisfies(meta, e) ==
    IF e.kind = "in" THEN \E v \in e.values : Condition(meta, Equals(e.field, v)) ELSE Condition(meta, e)

PayloadMatches(meta, e) == Holds(e, [p \in Conditions(e) |-> PayloadSatisfies(meta, Part(e, p))])

-----------------------------------------------------------------------------
\* A row that leaves no store in doubt: it has every field, of the type asked for.
Typed(meta, e) ==
    /\ e.field \in DOMAIN meta
    /\ CASE e.kind = "equals" -> meta[e.field].type = e.value.type
         [] e.kind = "in"     -> \A v \in e.values : meta[e.field].type = v.type
         [] e.kind = "range"  -> IsNumber(meta[e.field])

Plain(meta, e) == \A p \in Conditions(e) : Typed(meta, Part(e, p))
=============================================================================
