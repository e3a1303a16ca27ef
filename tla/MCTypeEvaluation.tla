------------------------- MODULE MCTypeEvaluation -------------------------
(***************************************************************************)
(* Two descriptors, metadata a and data b, and two application buffers    *)
(* u1 and u2 holding 0..2; at most two frames per stack.  The templates:  *)
(* every int array of one or two dimensions built from a few values, and  *)
(* structs that are packed, padded, overlapping, or placed by a value.    *)
(***************************************************************************)
EXTENDS TypeEvaluation

CONSTANTS a, b, none, u1, u2

Int4 == Scalar("SIGNED", 4)

SizeVals  == {Const(2), Ref(a), Expr("+", Ref(a), Const(1))}
SubVals   == {Const(2), Const(1), Ref(b)}
StartVals == {Const(0), Ref(b)}

Dim == SizeVals \X SubVals \X StartVals

ArrayOf(ds, t) ==
    Array([k \in 1..Len(ds) |-> ds[k][1]], [k \in 1..Len(ds) |-> ds[k][2]],
          [k \in 1..Len(ds) |-> ds[k][3]], t)

MCTemplates ==
    {Int4}
    \cup {ArrayOf(<<d>>, Int4) : d \in Dim}
    \cup {ArrayOf(<<d, e>>, Int4) : d \in {<<Const(2), Const(2), Const(0)>>, <<Ref(a), Const(1), Ref(b)>>}, e \in Dim}
    \cup {Struct(<<Member(Const(0), Int4, "x"), Member(d, Int4, "y")>>) :
            d \in {Const(4), Const(8), Const(0), Ref(a)}}
    \cup {Struct(<<Member(Const(0), ArrayOf(<<<<Ref(a), Ref(a), Const(0)>>>>, Int4), "v")>>),
          ArrayOf(<<<<Const(2), Ref(b), Const(0)>>>>,
                  Struct(<<Member(Const(0), Int4, "x"), Member(Const(8), Int4, "y")>>))}
============================================================================
