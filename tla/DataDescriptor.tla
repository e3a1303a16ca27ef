--------------------------- MODULE DataDescriptor ---------------------------
(***************************************************************************)
(* The ownership protocol of PDI::Data_descriptor                          *)
(* (src/src/data_descriptor.cxx): every descriptor keeps a stack m_values  *)
(* of Data_ref frames, most recent last.  share pushes a frame owning a    *)
(* buffer (and, for metadata, first retires and pops the current one),     *)
(* access pushes a narrowed copy of the top frame, release pops one frame, *)
(* reclaim retires the top frame (discarding and popping it for data,      *)
(* copying it for metadata).                                               *)
(*                                                                         *)
(* The Data_ref class itself is not in the repository: its constructor,    *)
(* grant, null_release and copy_release are modelled from spec.md 4.3.     *)
(*                                                                         *)
(* Memory is abstracted to tokens <<b, copy>>: <<b, FALSE>> is the         *)
(* application's buffer b, <<b, TRUE>> a PDI-owned copy of b's bytes.      *)
(* freed holds the tokens whose release action (free function) has run.   *)
(***************************************************************************)
EXTENDS Naturals, Sequences, SequencesExt

CONSTANTS
    Names,     \* names of the descriptors
    Buffers,   \* buffers of the application (model values)
    MaxDepth   \* bound on the length of one descriptor's stack

ASSUME MaxDepth \in Nat \ {0}

VARIABLES
    values,    \* values[n]: the stack m_values of descriptor n, top = Last
    metadata,  \* metadata[n]: m_metadata of descriptor n
    freed,     \* memory tokens whose release action has run
    status     \* the PDI_status_t returned by the last completed call

ddVars == <<values, metadata, freed, status>>

\* PDI_inout_t, as the set of its bits PDI_IN and PDI_OUT
Inout == SUBSET {"IN", "OUT"}

Status == {"OK", "ERR_VALUE", "ERR_RIGHT", "ERR_PLUGIN", "ERR_SYSTEM"}

Token == Buffers \X BOOLEAN

\* A Data_ref: the buffer, whether it is a PDI copy, whether it carries a
\* free function (rel), its read and write rights, and whether access
\* pushed it (view; an auxiliary field the code does not keep).
Frame == [buf: Buffers, copy: BOOLEAN, rel: BOOLEAN, r: BOOLEAN, w: BOOLEAN,
          view: BOOLEAN]

Mem(f) == <<f.buf, f.copy>>

Top(n) == Last(values[n])

Shared(n) == values[n] # <<>>

\* Data_descriptor::is_metadata
is_metadata(n) == metadata[n]

\* value(): a Data_ref to the top frame, or an empty Data_ref
NullRef == [null |-> TRUE]

Value(n) == IF Shared(n) THEN Top(n) ELSE NullRef

(* Data_ref(buffer, freefunc, type, access & PDI_OUT, access & PDI_IN):    *)
(* readable when PDI_OUT is set, writable when PDI_IN is set.              *)
NewRef(b, freefunc, acc) ==
    [buf |-> b, copy |-> FALSE, rel |-> freefunc,
     r |-> "OUT" \in acc, w |-> "IN" \in acc, view |-> FALSE]

(* Data_ref::grant(read, write) on a copy of f succeeds only by narrowing; *)
(* the copy then holds exactly the granted rights and no free function.   *)
Grant(f, read, write) == (read => f.r) /\ (write => f.w)

Granted(f, read, write) ==
    [f EXCEPT !.rel = FALSE, !.r = read, !.w = write, !.view = TRUE]

(* null_release: the frame is retired and its free function, if any, runs *)
NullReleased(f) == IF f.rel THEN freed \cup {Mem(f)} ELSE freed

(* copy_release: the bytes are copied to fresh memory that PDI owns       *)
CopyReleased(f) == [f EXCEPT !.copy = TRUE, !.rel = TRUE]

-----------------------------------------------------------------------------
(* Mutant: a metadata share does not retire the current frame            *)
ShareRefNoSupersede(n, b, freefunc, acc) ==
    /\ Len(values[n]) < MaxDepth
    /\ values' = [values EXCEPT ![n] = Append(@, NewRef(b, freefunc, acc))]
    /\ UNCHANGED <<metadata, freed>>

(* Data_descriptor::share, up to the notification of the plug-ins: for     *)
(* metadata the current frame is null-released and popped, then the new   *)
(* frame is pushed.  Returns the index of the pushed frame.                *)
ShareRef(n, b, freefunc, acc) ==
    LET supersede == Shared(n) /\ is_metadata(n)
        kept      == IF supersede THEN Front(values[n]) ELSE values[n]
    IN  /\ Len(kept) < MaxDepth
        /\ values' = [values EXCEPT ![n] = Append(kept, NewRef(b, freefunc, acc))]
        /\ freed' = IF supersede THEN NullReleased(Top(n)) ELSE freed
        /\ UNCHANGED metadata

(* Mutant: the position of the new frame is taken one past the top       *)
SharedIndexPastTop(n) == Len(values'[n]) + 1

SharedIndex(n) == Len(values'[n])

(* Data_descriptor::access(buffer, inout): push a copy of the top frame    *)
(* and grant it (inout & PDI_IN, inout & PDI_OUT); pop it again and report *)
(* PDI_ERR_RIGHT if the grant fails.                                      *)
AccessRead(inout)  == "IN" \in inout
AccessWrite(inout) == "OUT" \in inout

(* Mutant: a successful grant reports PDI_OK but the frame is not kept    *)
AccessOKNoPush(n, inout) ==
    /\ Shared(n)
    /\ Grant(Top(n), AccessRead(inout), AccessWrite(inout))
    /\ status' = "OK"
    /\ UNCHANGED <<values, metadata, freed>>

AccessOK(n, inout) ==
    /\ Shared(n)
    /\ Grant(Top(n), AccessRead(inout), AccessWrite(inout))
    /\ Len(values[n]) < MaxDepth
    /\ values' = [values EXCEPT ![n] =
                    Append(@, Granted(Top(n), AccessRead(inout), AccessWrite(inout)))]
    /\ status' = "OK"
    /\ UNCHANGED <<metadata, freed>>

AccessDenied(n, inout) ==
    /\ Shared(n)
    /\ ~Grant(Top(n), AccessRead(inout), AccessWrite(inout))
    /\ status' = "ERR_RIGHT"
    /\ UNCHANGED <<values, metadata, freed>>

(* access, release and reclaim on a descriptor with an empty stack        *)
EmptyError(n) ==
    /\ ~Shared(n)
    /\ status' = "ERR_VALUE"
    /\ UNCHANGED <<values, metadata, freed>>

(* Mutant: release drops the oldest frame instead of the newest          *)
ReleaseBottom(n) ==
    /\ Shared(n)
    /\ values' = [values EXCEPT ![n] = Tail(@)]
    /\ status' = "OK"
    /\ UNCHANGED <<metadata, freed>>

(* Data_descriptor::release: pop the top frame, running nothing           *)
Release(n) ==
    /\ Shared(n)
    /\ values' = [values EXCEPT ![n] = Front(@)]
    /\ status' = "OK"
    /\ UNCHANGED <<metadata, freed>>

(* Mutant: reclaim of metadata keeps the frame on the sharer's buffer     *)
ReclaimNoCopy(n) ==
    /\ Shared(n)
    /\ IF is_metadata(n)
       THEN UNCHANGED <<values, freed>>
       ELSE /\ values' = [values EXCEPT ![n] = Front(@)]
            /\ freed' = NullReleased(Top(n))
    /\ status' = "OK"
    /\ UNCHANGED metadata

(* Mutant: the copy made for metadata is taken for memory already freed  *)
ReclaimStaleCopy(n) ==
    /\ Shared(n)
    /\ IF is_metadata(n)
       THEN /\ values' = [values EXCEPT ![n] = Front(@) \o <<CopyReleased(Top(n))>>]
            /\ UNCHANGED freed
       ELSE /\ values' = [values EXCEPT ![n] = Front(@)]
            /\ freed' = NullReleased(Top(n))
    /\ status' = "OK"
    /\ UNCHANGED metadata

(* Data_descriptor::reclaim: metadata keeps a copy of its top frame; data *)
(* null-releases and pops it.                                             *)
Reclaim(n) ==
    /\ Shared(n)
    /\ IF is_metadata(n)
       THEN /\ values' = [values EXCEPT ![n] = Front(@) \o <<CopyReleased(Top(n))>>]
            /\ freed' = freed \ {<<Top(n).buf, TRUE>>}
       ELSE /\ values' = [values EXCEPT ![n] = Front(@)]
            /\ freed' = NullReleased(Top(n))
    /\ status' = "OK"
    /\ UNCHANGED metadata

=============================================================================
