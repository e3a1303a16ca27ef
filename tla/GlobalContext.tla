---------------------------- MODULE GlobalContext ----------------------------
(***************************************************************************)
(* PDI::Global_context (src/src/global_context.cxx) composed with the      *)
(* descriptors it owns (DataDescriptor) and with the actors that call      *)
(* them: the application and the loaded plug-ins.                          *)
(*                                                                         *)
(* The constructor loads the descriptors of the .metadata and .data        *)
(* sections, then every plug-in of .plugins; one failure aborts it.  Once  *)
(* built, the application shares, reclaims and releases buffers and fires *)
(* events.  share and event run a synchronous loop over m_plugins; each    *)
(* iteration is a hook of one plug-in, during which that plug-in may       *)
(* access and release views, and which returns or throws.  calls is the    *)
(* stack of these loops; the actor at the head of the innermost loop's     *)
(* todo list is the only one that runs.                                    *)
(***************************************************************************)
EXTENDS DataDescriptor, FiniteSets

CONSTANTS
    App,         \* the application
    Plugins,     \* the plug-ins
    PluginDecl,  \* the .plugins section: plug-ins in declaration order
    ConfigMeta,  \* names declared in the .metadata section
    ConfigData,  \* names declared in the .data section
    Events,      \* names of events the application fires
    Throwing,    \* plug-ins whose hooks may throw
    HoldViews,   \* may a plug-in return from a hook still holding views?
    HookCalls,   \* bound on the PDI_access, share and event calls one hook makes
    HookShares,  \* the descriptors a hook may share
    MaxNest      \* bound on the depth of nested notification loops

ASSUME /\ App \notin Plugins
       /\ IsInjective(PluginDecl) /\ Range(PluginDecl) = Plugins
       /\ ConfigMeta \cup ConfigData \subseteq Names
       /\ Throwing \subseteq Plugins
       /\ HoldViews \in BOOLEAN
       /\ HookCalls \in Nat
       /\ HookShares \subseteq Names
       /\ MaxNest \in Nat \ {0}

VARIABLES
    phase,      \* "loading" while the constructor runs, then "ready" or "failed"
    loaded,     \* plug-ins constructed so far, in declaration order
    order,      \* iteration order of the unordered_map m_plugins
    descs,      \* names present in m_descriptors
    calls,      \* notification loops in progress, innermost last
    held,       \* held[p]: descriptors p holds an access view on, most recent last
    appShared,  \* appShared[n]: buffers the application shared on n and not taken back
    appGiven,   \* buffers the application handed over to PDI with release
    hookShared, \* hookShared[p]: <<name, buffer, views held>> shared by hooks of p
    evSkipped   \* an event loop ended before every hook ran (auxiliary)

ctxVars == <<phase, loaded, order, descs, calls, held, appShared, appGiven,
             hookShared, evSkipped>>
vars == <<ddVars, ctxVars>>

(* A notification loop: share of name, or event name; idx is the position *)
(* of the shared frame (the Data_ref &ref handed to every plug-in); used  *)
(* counts the calls of the hook in progress; heldBase and sharedBase are  *)
(* what its plug-in held and had shared when that hook started, restored  *)
(* as the hook's own frame of the call stack when a nested loop returns.  *)
Call == [kind: {"share", "event"}, name: Names \cup Events, idx: 0..MaxDepth,
         todo: Seq(Plugins), done: Seq(Plugins), used: 0..HookCalls,
         heldBase: Nat, sharedBase: Nat]

HookBuffers == {x[2] : x \in UNION {Range(hookShared[p]) : p \in Plugins}}

InUse == UNION {Range(appShared[n]) : n \in Names} \cup appGiven \cup HookBuffers

\* The bases of the hook about to run first in todo
Bases(todo, hs, ps) ==
    IF todo = <<>> THEN [heldBase |-> 0, sharedBase |-> 0]
    ELSE [heldBase |-> Len(hs[Head(todo)]), sharedBase |-> Len(ps[Head(todo)])]

(* A loop over m_plugins as share and event start it: the whole iteration *)
(* order ahead, no hook called yet.                                        *)
Loop(kind, name, idx, hs, ps) ==
    LET b == Bases(order, hs, ps)
    IN  [kind |-> kind, name |-> name, idx |-> idx, todo |-> order, done |-> <<>>,
         used |-> 0, heldBase |-> b.heldBase, sharedBase |-> b.sharedBase]

-----------------------------------------------------------------------------
(* Global_context(conf, world), after load_data of .metadata then .data:  *)
(* a name declared in both sections ends up non-metadata.                  *)
Init ==
    /\ values = [n \in Names |-> <<>>]
    /\ metadata = [n \in Names |-> n \in ConfigMeta \ ConfigData]
    /\ freed = {}
    /\ status = "OK"
    /\ descs = ConfigMeta \cup ConfigData
    /\ phase = IF PluginDecl = <<>> THEN "ready" ELSE "loading"
    /\ loaded = <<>>
    /\ order \in SetToSeqs(Plugins)
    /\ calls = <<>>
    /\ held = [p \in Plugins |-> <<>>]
    /\ appShared = [n \in Names |-> <<>>]
    /\ appGiven = {}
    /\ hookShared = [p \in Plugins |-> <<>>]
    /\ evSkipped = FALSE

(* One iteration of the constructor's plug-in loop succeeds               *)
LoadPlugin ==
    /\ phase = "loading"
    /\ loaded' = Append(loaded, PluginDecl[Len(loaded) + 1])
    /\ phase' = IF Len(loaded') = Len(PluginDecl) THEN "ready" ELSE "loading"
    /\ UNCHANGED <<ddVars, order, descs, calls, held, appShared, appGiven, hookShared,
                   evSkipped>>

(* get_plugin_ctr or the plug-in's constructor throws: the constructor    *)
(* rethrows PDI_ERR_SYSTEM and the plug-ins loaded so far are destroyed.  *)
LoadFails ==
    /\ phase = "loading"
    /\ phase' = "failed"
    /\ loaded' = <<>>
    /\ status' = "ERR_SYSTEM"
    /\ UNCHANGED <<values, metadata, freed, order, descs, calls, held,
                   appShared, appGiven, hookShared, evSkipped>>

-----------------------------------------------------------------------------
(* The application runs when no notification loop is in progress.         *)
AppIdle == phase = "ready" /\ calls = <<>>

(* share(b, freefunc, acc) on n: push the frame and start the loop over   *)
(* the plug-ins in m_plugins order.                                        *)
AppShare(n, b, freefunc, acc) ==
    /\ AppIdle
    /\ b \notin InUse
    /\ <<b, FALSE>> \notin freed
    /\ ShareRef(n, b, freefunc, acc)
    /\ calls' = <<Loop("share", n, SharedIndex(n), held, hookShared)>>
    /\ appShared' = [appShared EXCEPT ![n] = IF metadata[n] THEN <<b>> ELSE Append(@, b)]
    /\ descs' = descs \cup {n}
    /\ UNCHANGED <<status, phase, loaded, order, held, appGiven, hookShared, evSkipped>>

(* reclaim of the buffer the application shared last on n                 *)
AppReclaim(n) ==
    /\ AppIdle
    /\ appShared[n] # <<>>
    /\ Reclaim(n)
    /\ appShared' = [appShared EXCEPT ![n] = Front(@)]
    /\ UNCHANGED <<phase, loaded, order, descs, calls, held, appGiven, hookShared,
                   evSkipped>>

(* release by the application: the buffer is handed over to PDI           *)
AppRelease(n) ==
    /\ AppIdle
    /\ appShared[n] # <<>>
    /\ Release(n)
    /\ appShared' = [appShared EXCEPT ![n] = Front(@)]
    /\ appGiven' = appGiven \cup {Last(appShared[n])}
    /\ UNCHANGED <<phase, loaded, order, descs, calls, held, hookShared, evSkipped>>

(* access, release or reclaim of a name nothing is shared on: desc()      *)
(* creates the descriptor and the call reports PDI_ERR_VALUE.              *)
AppEmptyCall(n) ==
    /\ AppIdle
    /\ EmptyError(n)
    /\ descs' = descs \cup {n}
    /\ UNCHANGED <<phase, loaded, order, calls, held, appShared, appGiven, hookShared,
                   evSkipped>>

(* Global_context::event(name): start the loop over m_plugins             *)
AppEvent(e) ==
    /\ AppIdle
    /\ calls' = <<Loop("event", e, 0, held, hookShared)>>
    /\ UNCHANGED <<ddVars, phase, loaded, order, descs, held, appShared, appGiven,
                   hookShared, evSkipped>>

-----------------------------------------------------------------------------
(* Plug-in p runs: its hook is the current iteration of the innermost loop *)
Hooked(p) ==
    /\ phase = "ready"
    /\ calls # <<>>
    /\ Last(calls).todo # <<>>
    /\ Head(Last(calls).todo) = p

(* PDI_access from a hook of p                                              *)
PluginAccess(p, n, inout) ==
    /\ Hooked(p)
    /\ Last(calls).used < HookCalls
    /\ calls' = [calls EXCEPT ![Len(calls)].used = @ + 1]
    /\ \/ AccessOK(n, inout) /\ held' = [held EXCEPT ![p] = Append(@, n)]
       \/ (AccessDenied(n, inout) \/ EmptyError(n)) /\ UNCHANGED held
    /\ descs' = descs \cup {n}
    /\ UNCHANGED <<phase, loaded, order, appShared, appGiven, hookShared, evSkipped>>

(* The views p holds that its hook in progress may give back: a hook     *)
(* that keeps no views calls PDI in nested order, so it releases neither  *)
(* a view of an earlier hook nor one taken before a share it has not yet  *)
(* reclaimed.                                                              *)
Mark(p) ==
    IF Len(hookShared[p]) > Last(calls).sharedBase
    THEN Last(hookShared[p])[3] ELSE Last(calls).heldBase

(* PDI_release from a hook of p, of the view p acquired last              *)
PluginRelease(p) ==
    /\ Hooked(p)
    /\ Len(held[p]) > (IF HoldViews THEN 0 ELSE Mark(p))
    /\ Release(Last(held[p]))
    /\ held' = [held EXCEPT ![p] = Front(@)]
    /\ UNCHANGED <<phase, loaded, order, descs, calls, appShared, appGiven, hookShared,
                   evSkipped>>

(* A hook shares data of its own (PDI_share, as user code run by a hook   *)
(* does in PDI_expose): Data_descriptor::share on n, whose loop over the  *)
(* plug-ins runs nested inside this hook.  desc() creates n if it is new; *)
(* spec 5 makes re-entering a share of the same descriptor a caller error. *)
PluginShare(p, n, b, freefunc, acc) ==
    LET hs == [hookShared EXCEPT ![p] = Append(@, <<n, b, Len(held[p])>>)]
    IN  /\ Hooked(p)
        /\ Len(calls) < MaxNest
        /\ Last(calls).used < HookCalls
        /\ \A c \in Range(calls) : c.kind = "share" => c.name # n
        /\ b \notin InUse
        /\ <<b, FALSE>> \notin freed
        /\ ShareRef(n, b, freefunc, acc)
        /\ hookShared' = hs
        /\ calls' = Append([calls EXCEPT ![Len(calls)].used = @ + 1],
                           Loop("share", n, SharedIndex(n), held, hs))
        /\ descs' = descs \cup {n}
        /\ UNCHANGED <<status, phase, loaded, order, held, appShared, appGiven, evSkipped>>

(* The hook reclaims what it shared last (the second half of PDI_expose), *)
(* in nested order: the views it took since that share are given back.   *)
PluginReclaim(p) ==
    /\ Hooked(p)
    /\ Len(hookShared[p]) > Last(calls).sharedBase
    /\ HoldViews \/ Len(held[p]) = Last(hookShared[p])[3]
    /\ Reclaim(Last(hookShared[p])[1])
    /\ hookShared' = [hookShared EXCEPT ![p] = Front(@)]
    /\ UNCHANGED <<phase, loaded, order, descs, calls, held, appShared, appGiven,
                   evSkipped>>

(* A hook fires an event: Global_context::event, nested inside this hook  *)
PluginEvent(p, e) ==
    /\ Hooked(p)
    /\ Len(calls) < MaxNest
    /\ Last(calls).used < HookCalls
    /\ calls' = Append([calls EXCEPT ![Len(calls)].used = @ + 1],
                       Loop("event", e, 0, held, hookShared))
    /\ UNCHANGED <<ddVars, phase, loaded, order, descs, held, appShared, appGiven,
                   hookShared, evSkipped>>

\* The hook has given back what it took: its views, unless it may hold them,
\* and the buffers it shared
HookSettled(p) ==
    /\ HoldViews \/ Len(held[p]) = Last(calls).heldBase
    /\ Len(hookShared[p]) = Last(calls).sharedBase

(* The hook returns: the loop moves on to the next plug-in                 *)
PluginReturn(p) ==
    LET b == Bases(Tail(Last(calls).todo), held, hookShared)
    IN  /\ Hooked(p)
        /\ HookSettled(p)
        /\ calls' = [calls EXCEPT ![Len(calls)].todo = Tail(@),
                                   ![Len(calls)].done = Append(@, p),
                                   ![Len(calls)].used = 0,
                                   ![Len(calls)].heldBase = b.heldBase,
                                   ![Len(calls)].sharedBase = b.sharedBase]
        /\ UNCHANGED <<ddVars, phase, loaded, order, descs, held, appShared, appGiven,
                       hookShared, evSkipped>>

(* The hook throws.  share does not catch; event catches it, and then     *)
(* rethrows at once from inside its loop: either way the remaining hooks  *)
(* of the innermost loop do not run, and the call that started it fails.  *)
(* That call is the application's, or a hook's own call into PDI, which   *)
(* gets the error as its status (spec 6) and goes on.                     *)
PluginThrows(p) ==
    /\ Hooked(p)
    /\ p \in Throwing
    /\ Len(held[p]) = Last(calls).heldBase
    /\ Len(hookShared[p]) = Last(calls).sharedBase
    /\ calls' = Front(calls)
    /\ status' = "ERR_PLUGIN"
    /\ evSkipped' = (evSkipped \/ (Last(calls).kind = "event" /\ Len(Last(calls).todo) > 1))
    /\ UNCHANGED <<values, metadata, freed, phase, loaded, order, descs, held,
                   appShared, appGiven, hookShared>>

(* Every hook of the innermost loop has run: share or event returns       *)
NotifyDone ==
    /\ phase = "ready"
    /\ calls # <<>>
    /\ Last(calls).todo = <<>>
    /\ calls' = Front(calls)
    /\ status' = "OK"
    /\ UNCHANGED <<values, metadata, freed, phase, loaded, order, descs, held,
                   appShared, appGiven, hookShared, evSkipped>>

(* A failed constructor is final: the program stops                       *)
Stopped ==
    /\ phase = "failed"
    /\ UNCHANGED vars

-----------------------------------------------------------------------------
Next ==
    \/ LoadPlugin
    \/ LoadFails
    \/ \E n \in Names, b \in Buffers, ff \in BOOLEAN, acc \in Inout :
          AppShare(n, b, ff, acc)
    \/ \E n \in Names : AppReclaim(n) \/ AppRelease(n) \/ AppEmptyCall(n)
    \/ \E e \in Events : AppEvent(e)
    \/ \E p \in Plugins :
          \/ \E n \in Names, io \in Inout : PluginAccess(p, n, io)
          \/ PluginRelease(p)
          \/ \E n \in HookShares, b \in Buffers, ff \in BOOLEAN, acc \in Inout :
                PluginShare(p, n, b, ff, acc)
          \/ PluginReclaim(p)
          \/ \E e \in Events : PluginEvent(p, e)
          \/ PluginReturn(p)
          \/ PluginThrows(p)
    \/ NotifyDone
    \/ Stopped

Spec == Init /\ [][Next]_vars

-----------------------------------------------------------------------------
TypeOK ==
    /\ values \in [Names -> Seq(Frame)]
    /\ metadata \in [Names -> BOOLEAN]
    /\ freed \subseteq Token
    /\ status \in Status
    /\ phase \in {"loading", "ready", "failed"}
    /\ loaded \in Seq(Plugins)
    /\ order \in SetToSeqs(Plugins)
    /\ descs \subseteq Names
    /\ calls \in Seq(Call)
    /\ held \in [Plugins -> Seq(Names)]
    /\ appShared \in [Names -> Seq(Buffers)]
    /\ appGiven \subseteq Buffers
    /\ hookShared \in [Plugins -> Seq(Names \X Buffers \X Nat)]
    /\ evSkipped \in BOOLEAN

(* No descriptor exposes memory its sharer has taken back: every frame    *)
(* that is not a PDI copy refers to a buffer that the application, or a   *)
(* hook, still has shared on that descriptor, or that the application has *)
(* handed over to PDI.  Broken when reclaim unwinds a frame other than    *)
(* the sharer's.                                                           *)
NoDanglingFrame ==
    \A n \in Names : \A i \in 1..Len(values[n]) :
        ~values[n][i].copy =>
            \/ values[n][i].buf \in Range(appShared[n]) \cup appGiven
            \/ \E p \in Plugins : \E x \in Range(hookShared[p]) :
                  x[1] = n /\ x[2] = values[n][i].buf

(* No frame refers to memory whose free function has already run, so no  *)
(* access can return freed memory and no free function can run twice.    *)
NoUseAfterFree ==
    \A n \in Names : \A i \in 1..Len(values[n]) : Mem(values[n][i]) \notin freed

(* Between two application calls, each stack holds what the sharer        *)
(* believes: a data descriptor holds exactly the buffers the application  *)
(* shared and has not taken back, in order; a metadata descriptor holds   *)
(* at most one frame, the buffer still shared or a PDI copy of the last.  *)
StacksMatchSharer ==
    AppIdle =>
      \A n \in Names :
        IF metadata[n]
        THEN /\ Len(values[n]) <= 1
             /\ \A i \in 1..Len(values[n]) :
                   values[n][i].copy \/ <<values[n][i].buf>> = appShared[n]
        ELSE /\ \A i \in 1..Len(values[n]) : ~values[n][i].copy
             /\ [i \in 1..Len(values[n]) |-> values[n][i].buf] = appShared[n]

(* The Data_ref &ref that share hands to each plug-in is still on the     *)
(* descriptor's stack whenever a hook of that loop runs.                  *)
RefAliveDuringNotify ==
    \A k \in 1..Len(calls) :
        calls[k].kind = "share" => Len(values[calls[k].name]) >= calls[k].idx

(* The descriptors implement Ownership: with the plug-ins' views left    *)
(* out, every stack changes only as a share, reclaim or release of the   *)
(* sharer's value.                                                        *)
AbsShared ==
    [n \in Names |->
        LET own == SelectSeq(values[n], LAMBDA f : ~f.view)
        IN  [i \in 1..Len(own) |-> [buf |-> own[i].buf, copy |-> own[i].copy]]]

Abs == INSTANCE Ownership WITH shared <- AbsShared

OwnershipRefined == Abs!Spec

-----------------------------------------------------------------------------
(* Properties the spec states and the code does not keep.                 *)

(* data_descriptor.h (release): once the sharer releases, PDI is          *)
(* responsible for freeing the buffer.  No frame carrying a free function *)
(* leaves its stack, or is replaced by anything but its own copy, without *)
(* that function having run.                                              *)
FreeFunctionsRun ==
    [][\A n \in Names : \A i \in 1..Len(values[n]) :
          LET f == values[n][i] IN
            /\ f.rel
            /\ i > Len(values'[n]) \/ values'[n][i] \notin {f, CopyReleased(f)}
            => Mem(f) \in freed']_vars

(* spec 4.4 and 7: an event notifies every plug-in; a failing hook is     *)
(* caught and reported after all hooks have run.                          *)
EventNotifiesAll == ~evSkipped

(* spec 3: plug-ins are notified in the order they are declared in the   *)
(* .plugins section.                                                      *)
NotifyInDeclarationOrder ==
    \A k \in 1..Len(calls) : IsPrefix(calls[k].done, PluginDecl)
=============================================================================
