------------------------------ MODULE Paraconf ------------------------------
(***************************************************************************)
(* The configuration tree as PDI's wrapper of the paraconf library sees it *)
(* (pdi/src/paraconf_wrapper.cxx).  Paraconf itself is outside the        *)
(* repository: spec.md 1 treats it as an oracle exposing get-by-path,      *)
(* length and to-string, and that is how the PC_ operators below are      *)
(* written.  A node is a mapping (keys and values), a sequence, a scalar   *)
(* (its content and its string length) or the error node that PC_get      *)
(* returns for a path that does not exist.  The wrapper functions keep     *)
(* their C++ names; a call that throws yields Thrown.                      *)
(***************************************************************************)
EXTENDS Naturals, Sequences

\* The node PC_get returns for a missing path
ErrNode == [kind |-> "err"]

Scalar(v, size) == [kind |-> "scalar", val |-> v, size |-> size]
MapNode(ks, vs) == [kind |-> "map", keys |-> ks, vals |-> vs]
SeqNode(items)  == [kind |-> "seq", items |-> items]

\* PC_status: whether the node is in error
PC_status(t) == t.kind = "err"

\* PC_get(t, "{%d}"), PC_get(t, "<%d>"), PC_get(t, "[%d]"), 0-based
PC_key(t, i)  == IF t.kind = "map" /\ i < Len(t.keys) THEN t.keys[i+1] ELSE ErrNode
PC_val(t, i)  == IF t.kind = "map" /\ i < Len(t.vals) THEN t.vals[i+1] ELSE ErrNode
PC_item(t, i) == IF t.kind = "seq" /\ i < Len(t.items) THEN t.items[i+1] ELSE ErrNode

\* PC_get(t, ".name"): the value under a key of a mapping
PC_child(t, k) ==
    IF t.kind = "map" /\ \E i \in 1..Len(t.keys) : t.keys[i].val = k
    THEN t.vals[CHOOSE i \in 1..Len(t.keys) : t.keys[i].val = k]
    ELSE ErrNode

\* PC_len: pairs of a mapping, nodes of a sequence, string length of a scalar
PC_len(t) == CASE t.kind = "map"    -> Len(t.keys)
               [] t.kind = "seq"    -> Len(t.items)
               [] t.kind = "scalar" -> t.size

\* The outcome of a wrapper call: a value, or the Error{PDI_ERR_CONFIG} thrown
Ok(v)  == [thrown |-> FALSE, val |-> v]
Thrown == [thrown |-> TRUE, val |-> "ERR_CONFIG"]

\* do_pc: a failing paraconf status becomes a thrown PDI_ERR_CONFIG
do_pc(success, v) == IF success THEN Ok(v) ELSE Thrown

len(t) == do_pc(~PC_status(t), IF PC_status(t) THEN 0 ELSE PC_len(t))

len_or(t, dflt) == IF PC_status(t) THEN dflt ELSE PC_len(t)

\* PC_string succeeds on scalars only
to_string(t) == do_pc(t.kind = "scalar", IF t.kind = "scalar" THEN t.val ELSE "")

to_string_or(t, dflt) == IF t.kind = "scalar" THEN t.val ELSE dflt

\* each: the nodes the operation is applied to, in order
each(t) ==
    LET n == len(t)
    IN  IF n.thrown THEN n ELSE Ok([i \in 1..n.val |-> PC_item(t, i-1)])

\* opt_each: a sequence is iterated, anything else is one element
opt_each(t) == IF ~PC_status(PC_item(t, 0)) THEN each(t) ELSE Ok(<<t>>)

\* each over pairs: the (key, value) nodes the operation is applied to
each_pair(t) ==
    LET n == len(t)
    IN  IF n.thrown THEN n
        ELSE Ok([i \in 1..n.val |-> <<PC_key(t, i-1), PC_val(t, i-1)>>])
=============================================================================
