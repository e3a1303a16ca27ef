--------------------------- MODULE MCConstructor ---------------------------
(***************************************************************************)
(* Configurations for the constructor: each of .metadata, .data and       *)
(* .plugins is absent, a mapping of up to two entries (a name may repeat), *)
(* an empty or one-element sequence, or an empty or non-empty scalar.     *)
(***************************************************************************)
EXTENDS Constructor

CONSTANTS n1, n2, p1, p2

MCNames == {n1, n2}
MCPlugins == {p1, p2}

\* A type declaration or a plug-in's own configuration, opaque here
Decl == Scalar("decl", 4)

\* The forms a section takes; ErrNode stands for an absent section
Sections(ns) ==
    {ErrNode, SeqNode(<<>>), SeqNode(<<Decl>>), Scalar("", 0), Scalar("abc", 3)}
    \cup {MapNode([k \in 1..Len(ks) |-> Scalar(ks[k], 2)], [k \in 1..Len(ks) |-> Decl]) :
            ks \in UNION {[1..m -> ns] : m \in 0..2}}

\* The root mapping, with the absent sections left out
Root(m, d, p) ==
    LET present == SelectSeq(<<<<"metadata", m>>, <<"data", d>>, <<"plugins", p>>>>,
                             LAMBDA e : e[2] # ErrNode)
    IN  MapNode([k \in 1..Len(present) |-> Scalar(present[k][1], 4)],
                [k \in 1..Len(present) |-> present[k][2]])

MCConfigs ==
    {Root(m, d, p) : m \in Sections(MCNames), d \in Sections(MCNames), p \in Sections(MCPlugins)}
====
