------------------------------ MODULE Datatype ------------------------------
(***************************************************************************)
(* The datatype model and the integer side of the expression engine.      *)
(* The shapes are those of datatype.h and value.h; the code that loads    *)
(* and evaluates them is not in the repository, so evaluation follows     *)
(* spec.md 4.1 and 4.2.                                                    *)
(*                                                                         *)
(* A type template is a scalar, an array whose sizes, subsizes and starts  *)
(* are values (PDI_value_t), or a struct whose member displacements are    *)
(* values.  Evaluate resolves every value against env, the integer held   *)
(* by each descriptor or None when it holds nothing, giving a concrete    *)
(* type whose values are integers.                                         *)
(***************************************************************************)
EXTENDS Integers, Sequences, SequencesExt

CONSTANTS
    Names,   \* the descriptors a value may reference
    None     \* what env holds for a descriptor with no active frame

\* PDI_value_t: a constant, a reference $name, or a binary expression
Const(k)       == [kind |-> "const", val |-> k]
Ref(n)         == [kind |-> "ref", name |-> n]
Expr(op, l, r) == [kind |-> "expr", op |-> op, left |-> l, right |-> r]

\* PDI_type_t: the kind tag and the scalar, array or struct it selects
Scalar(k, s) == [kind |-> "scalar", scalar |-> k, size |-> s]
Array(sz, sub, st, t) ==
    [kind |-> "array", ndims |-> Len(sz), sizes |-> sz, subsizes |-> sub,
     starts |-> st, type |-> t]
Member(d, t, nm) == [displacement |-> d, type |-> t, name |-> nm]
Struct(ms) == [kind |-> "struct", nb_member |-> Len(ms), members |-> ms]

\* The outcome of an evaluation: a result, or UnavailableReferenceError
Ok(v)       == [ok |-> TRUE, val |-> v]
Unavailable == [ok |-> FALSE, val |-> None]

\* Mutant: the operator table is shifted, '+' computes a difference
ApplyShifted(op, a, b) ==
    CASE op = "+" -> a - b
      [] op = "-" -> a * b
      [] op = "*" -> a * b
      [] op = "=" -> IF a = b THEN 1 ELSE 0
      [] op = "&" -> IF a # 0 /\ b # 0 THEN 1 ELSE 0
      [] op = "|" -> IF a # 0 \/ b # 0 THEN 1 ELSE 0

\* The binary operators of value.h's grammar (OP1..OP5); = & | give 1 or
\* 0.  / and % are left out: no template of the model divides.
Apply(op, a, b) ==
    CASE op = "+" -> a + b
      [] op = "-" -> a - b
      [] op = "*" -> a * b
      [] op = "=" -> IF a = b THEN 1 ELSE 0
      [] op = "&" -> IF a # 0 /\ b # 0 THEN 1 ELSE 0
      [] op = "|" -> IF a # 0 \/ b # 0 THEN 1 ELSE 0

\* PDI_value_int: a reference reads the descriptor's current value
RECURSIVE ValueInt(_, _)
ValueInt(v, env) ==
    CASE v.kind = "const" -> Ok(v.val)
      [] v.kind = "ref"   -> IF env[v.name] = None THEN Unavailable ELSE Ok(env[v.name])
      [] v.kind = "expr"  ->
            LET l == ValueInt(v.left, env)
                r == ValueInt(v.right, env)
            IN  IF l.ok /\ r.ok THEN Ok(Apply(v.op, l.val, r.val)) ELSE Unavailable

\* Every value of a sequence evaluated, or Unavailable if one is
ValuesInt(s, env) ==
    LET rs == [k \in DOMAIN s |-> ValueInt(s[k], env)]
    IN  IF \A k \in DOMAIN rs : rs[k].ok
        THEN Ok([k \in DOMAIN rs |-> rs[k].val]) ELSE Unavailable

\* evaluate(context): the concrete type, every value resolved
RECURSIVE Evaluate(_, _)
Evaluate(t, env) ==
    CASE t.kind = "scalar" -> Ok(t)
      [] t.kind = "array" ->
            LET sz  == ValuesInt(t.sizes, env)
                sub == ValuesInt(t.subsizes, env)
                st  == ValuesInt(t.starts, env)
                el  == Evaluate(t.type, env)
            IN  IF sz.ok /\ sub.ok /\ st.ok /\ el.ok
                THEN Ok(Array(sz.val, sub.val, st.val, el.val)) ELSE Unavailable
      [] t.kind = "struct" ->
            LET ds == ValuesInt([k \in 1..t.nb_member |-> t.members[k].displacement], env)
                ts == [k \in 1..t.nb_member |-> Evaluate(t.members[k].type, env)]
            IN  IF ds.ok /\ \A k \in DOMAIN ts : ts[k].ok
                THEN Ok(Struct([k \in 1..t.nb_member |->
                                  Member(ds.val[k], ts[k].val, t.members[k].name)]))
                ELSE Unavailable
=============================================================================
