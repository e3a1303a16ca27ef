--------------------------- MODULE TypeEvaluation ---------------------------
(***************************************************************************)
(* A declared type evaluated against the live descriptors (spec.md 4.1    *)
(* evaluate, 4.2), composed with their frame stacks: a reference reads    *)
(* value() of its descriptor, the top frame, and the integer stored in    *)
(* the memory that frame refers to.  The application shares its buffers, *)
(* reclaims or releases them, and writes the buffers it owns.  Evaluation *)
(* is a pure function of this state (spec.md 4.2), so the properties     *)
(* evaluate every template in every state.  No plug-in is loaded, so the *)
(* notification loop of share is empty.                                   *)
(***************************************************************************)
EXTENDS DataDescriptor

CONSTANTS
    None,        \* what a reference reads when its descriptor holds nothing
    MetaNames,   \* the metadata descriptors among Names
    Vals,        \* the integers a buffer may hold
    Templates    \* the declared types

INSTANCE Datatype

VARIABLES
    mem,         \* memory token -> the integer stored there
    appShared,   \* n -> the buffers the application shared on n, not taken back
    given,       \* the buffers the application released to PDI
    kept         \* history: n -> the value a metadata reclaim left on n, or None

vars == <<ddVars, mem, appShared, given, kept>>

\* The buffers the application does not own
InUse == UNION {Range(appShared[n]) : n \in Names} \cup given

\* What a reference to n reads: the integer behind value(), or None for an
\* empty Data_ref
Env == [n \in Names |-> IF Value(n) = NullRef THEN None ELSE mem[Mem(Value(n))]]

(* load_data: every name declared, with its metadata flag, nothing shared  *)
Init ==
    /\ values = [n \in Names |-> <<>>]
    /\ metadata = [n \in Names |-> n \in MetaNames]
    /\ freed = {}
    /\ status = "OK"
    /\ mem = [t \in Token |-> 0]
    /\ appShared = [n \in Names |-> <<>>]
    /\ given = {}
    /\ kept = [n \in Names |-> None]

(* share(b, NULL, PDI_OUT) on n: the frame is pushed (a metadata share    *)
(* first retires the current one) and share returns PDI_OK.               *)
AppShare(n, b) ==
    /\ b \notin InUse
    /\ ShareRef(n, b, FALSE, {"OUT"})
    /\ status' = "OK"
    /\ appShared' = [appShared EXCEPT ![n] = IF metadata[n] THEN <<b>> ELSE Append(@, b)]
    /\ UNCHANGED <<mem, given, kept>>

(* reclaim of the buffer the application shared last on n: for metadata, *)
(* copy_release copies the bytes of the top frame into PDI's memory.      *)
AppReclaim(n) ==
    /\ appShared[n] # <<>>
    /\ Reclaim(n)
    /\ mem' = IF metadata[n] THEN [mem EXCEPT ![<<Top(n).buf, TRUE>>] = mem[Mem(Top(n))]]
              ELSE mem
    /\ appShared' = [appShared EXCEPT ![n] = Front(@)]
    /\ kept' = IF metadata[n] THEN [kept EXCEPT ![n] = mem[<<Last(appShared[n]), FALSE>>]]
               ELSE kept
    /\ UNCHANGED <<given>>

(* release of the buffer the application shared last on n: PDI owns it   *)
AppRelease(n) ==
    /\ appShared[n] # <<>>
    /\ Release(n)
    /\ appShared' = [appShared EXCEPT ![n] = Front(@)]
    /\ given' = given \cup {Last(appShared[n])}
    /\ kept' = [kept EXCEPT ![n] = None]
    /\ UNCHANGED <<mem>>

(* The application writes v into a buffer it owns; it does not modify a  *)
(* buffer it shared before releasing or reclaiming it.                     *)
AppWrite(b, v) ==
    /\ b \notin InUse
    /\ mem' = [mem EXCEPT ![<<b, FALSE>>] = v]
    /\ UNCHANGED <<ddVars, appShared, given, kept>>

Next ==
    \/ \E n \in Names, b \in Buffers : AppShare(n, b)
    \/ \E n \in Names : AppReclaim(n) \/ AppRelease(n)
    \/ \E b \in Buffers, v \in Vals : AppWrite(b, v)

Spec == Init /\ [][Next]_vars

-----------------------------------------------------------------------------
\* A concrete type: every size, subsize, start and displacement a natural
RECURSIVE IsConcrete(_)
IsConcrete(t) ==
    CASE t.kind = "scalar" -> TRUE
      [] t.kind = "array"  ->
            /\ \A k \in 1..t.ndims : {t.sizes[k], t.subsizes[k], t.starts[k]} \subseteq Nat
            /\ IsConcrete(t.type)
      [] t.kind = "struct" ->
            \A k \in 1..t.nb_member : t.members[k].displacement \in Nat /\ IsConcrete(t.members[k].type)

TypeOK ==
    /\ mem \in [Token -> Vals]
    /\ appShared \in [Names -> Seq(Buffers)]
    /\ kept \in [Names -> Vals \cup {None}]
    /\ \A t \in Templates : Evaluate(t, Env).ok => IsConcrete(Evaluate(t, Env).val)

(* What the sharer made available on n: the buffer it shared last and     *)
(* still shares, or, for metadata, the value its last reclaim left.        *)
Available(n) ==
    IF appShared[n] # <<>> THEN mem[<<Last(appShared[n]), FALSE>>]
    ELSE IF metadata[n] THEN kept[n] ELSE None

(* spec.md 4.2 and 4.3: an evaluation reads the values the sharers made   *)
(* available, never a write the application makes to a buffer it owns    *)
(* again.  It rests on reclaim copying a metadata frame (copy_release)    *)
(* and on share and reclaim leaving the sharer's frame on top.            *)
EvaluationReadsShared ==
    \A t \in Templates : Evaluate(t, Env) = Evaluate(t, [n \in Names |-> Available(n)])

=============================================================================
