# TLA+ model of PDI's data-sharing core

This directory holds TLA+ models of the PDI core in `src/`. An application
shares in-memory buffers through named descriptors. Plug-ins are notified
and may take narrower views of those buffers. The models cover the ownership
protocol of the descriptors, the broker that runs the plug-ins' hooks, and
what happens when the two interact.

## 1. Inventory

### Components and their state

| Component | Source | State | Operations |
|---|---|---|---|
| Data descriptor | `src/src/data_descriptor.cxx`, `src/include/pdi/data_descriptor.h` | `m_values`: a stack of `Data_ref` frames (top = most recent). `m_metadata`, `m_type`, `m_config`, `m_name` | `share`, `access`, `release`, `reclaim`, `value`, `init` |
| Reference frame `Data_ref` | not in `src/`; used by `data_descriptor.cxx`, described in spec.md 3 and 4.3 | buffer, free function, datatype, read and write rights | constructor, `grant`, `null_release` (runs the free function), `copy_release` (keeps a PDI-owned copy) |
| Global context / broker | `src/src/global_context.cxx` | `m_descriptors` (an unordered_map from name to descriptor) and `m_plugins` (an unordered_map from name to plug-in) | constructor (`load_data` for `.metadata` then `.data`, then the plug-in loading loop), `desc` (lazy creation), `event` |
| Plug-ins and user code | `src/plugins/**/tests/*`; plug-in implementations are not in `src/` | whatever views they hold | `data(name, ref)` hook on every share, `event(name)` hook; inside a hook they may call `PDI_access`, `PDI_release` and `PDI_expose` |
| Datatype model | `src/include/pdi/datatype.h`, `src/tests/PDI_scalar_datatype.cxx` | scalar, array (sizes/subsizes/starts as values), struct (members with displacement) | datasize, buffersize, alignment, dense, clone, evaluate (their code is not in `src/`) |
| Expression engine | `src/include/pdi/value.h` (grammar and API only) | parsed value trees: const, ref, expr, str | parse, evaluate as int or string against live descriptors |
| Paraconf wrapper | `src/pdi/src/paraconf_wrapper.cxx` | none | `len`, `to_long`, `to_double`, `to_string`, `to_bool` (each with an optional default), `each`, `opt_each` |
| Legacy C state | `src/include/pdi/state.h` | `PDI_state` (params, variables, plugins) | none (declarations only) |

### How the components interact

The application calls share, access, release and reclaim on a descriptor,
and fires events through the context. Everything runs on one thread and every
call is synchronous. `share` pushes a frame and then loops over the plug-ins,
calling each one's `data` hook with a reference to the new frame. The hook
runs inside the loop. It can call back into PDI: access or release views of
any descriptor, and share other data. `event` loops over the plug-ins in the
same way. So the concurrency in this system is re-entrancy: while the
application is in `share` or `event`, plug-in code changes the same stacks.

### What is hard

- **Interleaving.** The application and the plug-ins push and pop the same
  LIFO stack, but a pop never checks who pushed the frame. `reclaim` by the
  sharer can unwind a view that a plug-in still holds
  (`data_descriptor.cxx:128-133`). A metadata `share` retires only the top
  frame (`:94-97`).
- **Stale state.** `share` holds `Data_ref &ref = *m_values.top()` while it
  calls every hook (`:101-107`), and a hook can pop that frame.
- **Partial failure.** A hook that throws inside `share` leaves the frame
  pushed and the later plug-ins unnotified. `event` rethrows the first
  failure from inside its loop (`global_context.cxx:162-183`). A plug-in that
  fails to load aborts the constructor.
- **Ordering.** Hooks run in `unordered_map` order, not in the order the
  plug-ins are declared.
- **Resources.** Free functions run on `null_release` but not on `release`.
  Copies made by `copy_release` are later freed by a metadata share, and must
  never stay reachable after that.

### What makes each component correct

- **Descriptor.** No frame refers to memory that the application took back
  or that was freed. Between application calls, the stack holds exactly what
  the sharer shared. Rights only narrow.
- **Broker.** Every hook runs, in declaration order. Failures are aggregated
  for events. The frame handed to the hooks stays alive. Every loop ends.
- **Datatype.** `buffersize >= datasize`, and `dense` holds exactly when no
  dimension is sub-selected. Clones match their source.
- **Expressions.** Evaluation is a pure function of the live descriptors. A
  reference to a descriptor with nothing shared fails.

The hazards, each at the line where it bites, are listed in `PROJECT.json`
under `"hazards"`.

## 2. Modules so far

### `DataDescriptor.tla`

This module models the frame stack of every descriptor.

- **State:**
  - `values[n]` is `m_values`.
  - `metadata[n]` is `m_metadata`.
  - `freed` is the set of memory tokens whose free function has run. A token
    `<<b, FALSE>>` is the application's buffer `b`; `<<b, TRUE>>` is a copy
    that PDI owns.
  - `status` is the status returned by the last completed call.
- **Operations:** they are operators, called by the actions of
  `GlobalContext`.
  - `ShareRef` is `share` up to its notification loop.
  - `AccessOK` and `AccessDenied` are the two outcomes of `access`.
  - `EmptyError` is the `PDI_ERR_VALUE` early return of access, release and
    reclaim.
  - `Release` and `Reclaim` are the other two operations.
  - `Value` is `value()`: the top frame, or an empty `Data_ref`
    (`NullRef`). `is_metadata` is the accessor `share` and `reclaim` call.
- **Faithful details:**
  - A frame is built as `share` builds it: readable from `PDI_OUT`, writable
    from `PDI_IN`.
  - `access` grants `(inout & PDI_IN, inout & PDI_OUT)` exactly as the code
    does.
- **Taken from the spec:** `Data_ref` is not in `src/`. `grant`,
  `null_release` and `copy_release` follow spec.md 4.3 and are marked
  `spec_modelled`:
  - a grant only narrows, and the granted copy carries no free function;
  - null-release runs the free function;
  - copy-release replaces the buffer with fresh memory that PDI owns.

### `GlobalContext.tla` (extends `DataDescriptor`)

This module models the broker and the actors that call it.

- **Constructor.** `Init` is the state after `load_data`: a name declared in
  both sections ends up as non-metadata, as the code does it. `LoadPlugin`
  and `LoadFails` are the iterations of the plug-in loop. A failed
  constructor is final (`Stopped`).
- **Notification loops.** `calls` is the stack of loops in progress.
  - A share loop records the index of the frame whose reference it hands to
    the hooks.
  - `todo` is the list of plug-ins not yet called, in the `m_plugins`
    iteration order `order`. `order` is any permutation of the plug-ins,
    since the hash order is unspecified.
  - `done` lists the plug-ins already called.
- **Application actions.** The application acts only when no loop is in
  progress.
  - `AppShare` pushes a frame and starts a loop.
  - `AppReclaim` and `AppRelease` act on the buffer the application shared
    last.
  - `AppEmptyCall` is an access, release or reclaim on a name where nothing
    is shared. `desc()` creates the descriptor, and the call reports
    `PDI_ERR_VALUE`.
  - `AppEvent` starts an event loop.
  - The application never shares a buffer that is still in use or already
    freed. `appShared` and `appGiven` record what it believes it has shared
    and what it has handed to PDI.
- **Hook actions.** Only the plug-in at the head of the innermost loop runs.
  - `PluginAccess` calls `PDI_access`, as `User_Code_test_01.c` does.
  - `PluginRelease` releases the view that plug-in took last.
  - `PluginReturn` returns from the hook, moving the loop on.
  - `PluginShare`, `PluginReclaim` and `PluginEvent` are a hook's own
    `PDI_share`, `PDI_reclaim` and `PDI_event` (user code calling
    `PDI_expose`). A share or an event starts a loop nested inside the hook,
    up to `MaxNest` loops deep; `desc()` creates a descriptor that is new. A
    hook never re-enters a share of the descriptor being notified (spec 5).
    `hookShared[p]` lists what `p`'s hooks shared and have not reclaimed,
    with the number of views the hook held at that moment.
  - Well-behaved hooks call PDI in nested order (spec 4.3, "nested
    acquire/release usage"). Each loop saves, for the hook it is running,
    how many views and shares that plug-in already had (`heldBase`,
    `sharedBase`, set by `Loop` and `Bases`). A hook releases only views it
    took since its last open share (`Mark`), reclaims a share only once the
    views taken after it are given back, and returns only when it has given
    back everything it took (`HookSettled`).
  - `PluginThrows` throws. The innermost loop ends at once: `share` does not
    catch, and `event` rethrows from inside its loop. The call that started
    the loop fails. When that call is a hook's own, it gets the error as a
    status (spec 6) and the outer hook goes on.
  - `NotifyDone` is the loop ending and the call returning `PDI_OK`.
  - `held[p]` is the list of views `p` holds. The constant `HoldViews` says
    whether a hook may return while still holding views. Well-behaved hooks
    return holding nothing. `User_Code_test_01` returns holding views.

### `Ownership.tla` (abstract specification)

This module states what a descriptor promises its sharer (spec.md 3 and
4.3), with the plug-ins' views left out.

- `shared[n]` is the sequence of values the sharer has shared on `n` and not
  taken back, last on top. A value is a buffer, or a PDI copy of its bytes.
- `Share`, `Reclaim` and `Release` are the sharer's three verbs. A metadata
  share supersedes the single value. A metadata reclaim turns the value into
  a copy and keeps it. A data reclaim or release drops the top value.
- `GlobalContext` maps onto it with `AbsShared`: each stack with the frames
  that `access` pushed (the views, marked by the auxiliary `view` field of a
  frame) filtered out. `OwnershipRefined == Abs!Spec` is checked as a
  `PROPERTY`. Every step of the detailed model, the hooks' included, must
  then be a sharer's verb or leave the filtered stacks unchanged.

`MCGlobalContext.tla` instantiates the model with:

- two plug-ins `p1` and `p2`, declared in that order;
- a metadata descriptor `meta` and a data descriptor `data`;
- two buffers `b1` and `b2`;
- one event `e1`;
- for the nested runs, `MCOnePlugin` and `MCOnePluginDecl`: the plug-in `p1`
  alone.

### `Paraconf.tla` (the configuration wrapper)

The functions of `pdi/src/paraconf_wrapper.cxx`, as operators over a
configuration tree. A node is a mapping (key nodes and value nodes), a
sequence, a scalar (its content and its string length), or the error node
that `PC_get` returns for a path that does not exist. The paraconf accessors
themselves (`PC_get`, `PC_len`, `PC_string`, `PC_status`) are not in the
repository. They are written from spec.md 1 and from the documentation of
`len` in `paraconf_wrapper.h`.

- A wrapper call yields `Ok(v)`, or `Thrown` when `do_pc` turns a failing
  paraconf status into `PDI_ERR_CONFIG`.
- `len`, `len_or`, `to_string` and `to_string_or` are the two overloads of
  `len` and of `to_string`.
- `each`, `opt_each` and `each_pair` give the nodes the operation is
  applied to, in order.

### `Constructor.tla` (the constructor of `Global_context`)

The constructor runs one loop iteration per step, over a configuration tree
chosen in `Init`.

- `LoadDataEntry` is one iteration of `load_data`. It reads a key with
  `to_string`, creates the descriptor with `desc` (an `emplace`, so nothing
  happens if the name exists), and sets its metadata flag.
- `LoadDataDone` moves from `.metadata` to `.data` to `.plugins`, when the
  section is absent or its loop is done.
- For the plug-ins:
  - `PluginNameFails`: the name read throws `PDI_ERR_CONFIG`. This happens
    outside the `try`.
  - `PluginLoadFails`: `get_plugin_ctr` or the plug-in's constructor
    throws, and the `catch` rethrows `PDI_ERR_SYSTEM`.
  - `PluginLoaded`: the plug-in is constructed and then emplaced. A name
    already present keeps its plug-in, and the new one is destroyed.
  - `PluginsDone`: the loop ends.
- `Fail` is the throw out of the constructor. The partly built context is
  destroyed with it.

`GlobalContext` starts from the state this constructor ends in.
`ConstructedAsConfigured` checks that this state is what `GlobalContext`'s
`Init` assumes: every declared name has a descriptor, and a name is metadata
when `.metadata` declares it and `.data` does not.

In this snapshot of the repository, `global_context.cxx` calls
`Data_descriptor::metadata(bool)`, `creation_template` and a
`Data_descriptor{Context&, name}` constructor. None of these is declared in
`data_descriptor.h`, which has `init(config, is_metadata, type)` instead. The
model follows the calls as `global_context.cxx` writes them: a new descriptor
starts as data (`data_descriptor.cxx:46-60`), and the setter overwrites the
flag.

`MCConstructor.tla` builds every configuration from three sections. Each
section is one of:

- absent;
- a mapping of zero to two entries, where a name may repeat;
- an empty or a one-element sequence;
- an empty or a non-empty scalar.

This gives 1728 configurations. The names are `n1` and `n2` for
descriptors, and `p1` and `p2` for plug-ins.

### `Datatype.tla` and `TypeEvaluation.tla` (types and expressions)

`Datatype` gives the shapes of `datatype.h` and `value.h` as records:

- `Scalar`: `PDI_type_s` with a scalar kind and size.
- `Array`: `PDI_array_type_s`, whose `sizes`, `subsizes` and `starts` are
  values.
- `Struct` and `Member`: members with a name, a type and a displacement that
  is a value.
- `Const`, `Ref` and `Expr`: the constant, reference and binary-expression
  cases of `PDI_value_s`. The operators are those of the grammar in
  `value.h`.

Neither the code that parses and evaluates these values nor the code of the
datatype operations is in the repository. So the following are written from
spec.md 4.1 and 4.2 and are marked `spec_modelled`:

- `Evaluate` (`evaluate(context)`) and `ValuesInt`.

The layout operators (`datasize`, `buffersize`, `dense`) are not modelled:
no code under `src/` computes them, and a property over a restatement of
spec.md's own formulas would check the spec against itself.

`ValueInt` is mapped to the declaration of `PDI_value_int` in `value.h`
(a value evaluated to an integer or an error status); its body follows
spec.md 4.2, since the definition is not in the repository.

Choices the spec leaves open:

- `=`, `&` and `|` give 1 or 0.

The grammar in `value.h` lists `*`, `/` and `%` as `OP5`, but no rule uses
`OP5`. The model has `*`, since spec.md 4.2 gives it the highest binary
precedence. It leaves out `/` and `%`, whose behaviour on zero is not
specified.

`TypeEvaluation` composes `Datatype` with `DataDescriptor`: the declared
types are evaluated against the descriptors' real frame stacks. `mem` holds
the integer stored in each memory token (an application buffer, or PDI's
copy of one). `Env` is what a reference reads: `value()` of the descriptor
(`Value`, the top frame or an empty `Data_ref`) and the integer in the
memory that frame refers to. The application's actions are:

- `AppShare`: `share` with no plug-in loaded, so its loop is empty.
- `AppReclaim`: `reclaim`. For metadata, `copy_release` copies the bytes
  of the top frame into PDI's memory.
- `AppRelease`: `release`; the buffer then belongs to PDI.
- `AppWrite`: the application writes a buffer it owns. It never writes a
  buffer it has shared and not taken back, as `data_descriptor.h:92-99`
  requires.

Evaluation is a pure function of this state (spec.md 4.2), so the
properties evaluate every template in every state rather than keeping the
last result in a variable. Deadlock is not checked: once the application
has released both buffers to PDI it has nothing left to do.

`MCTypeEvaluation` has two descriptors, metadata `a` and data `b`, two
application buffers `u1` and `u2` holding a value in 0..2, and at most two
frames per stack. The 61 templates are:

- every one-dimensional int array built from the sizes `2`, `$a` and
  `$a+1`, the subsizes `2`, `1` and `$b`, and the starts `0` and `$b`;
- the two-dimensional arrays made of one fixed dimension and one generated
  dimension;
- four two-member structs, placed at 4 (packed), 8 (padded), 0
  (overlapping) and `$a`;
- a struct holding an array, and an array of padded structs.

Two divergences met in the constructor and the wrapper are recorded here
without a run of their own. A plug-in that cannot be loaded makes the
constructor throw `PDI_ERR_SYSTEM` (`global_context.cxx:124`), where spec.md
7 calls it a PluginError. `opt_each` over an empty sequence applies its
operation once, to the sequence itself (`paraconf_wrapper.cxx:140`); nothing
in `src/` calls `opt_each`.

One inconsistency in the spec is recorded here without a run. `dense()` is
defined over dimensions and members only, so a padded struct is dense, yet
the glossary says a dense type has identical logical and physical layouts.

## 3. Runs

| Run | cfg | Expect | What it shows |
|---|---|---|---|
| `context_safety` | `MCGlobalContext.cfg` | pass | With well-behaved hooks, six properties hold: `TypeOK` and the five below. `NoDanglingFrame`: no frame refers to a buffer the application took back. `NoUseAfterFree`: no frame refers to freed memory, so nothing is freed twice. `StacksMatchSharer`: between application calls, each data stack holds exactly the application's outstanding shares, and each metadata stack holds at most one frame, either the shared buffer or a copy of it. `RefAliveDuringNotify`: the frame handed to the hooks stays on its stack. `OwnershipRefined`: with the views filtered out, the descriptors implement `Ownership`. The run reaches about 1.07M distinct states in about 2 minutes. |
| `held_view_dangles` | `MCGlobalContext_HoldViews.cfg` | violation | A hook keeps its view, as `User_Code_test_01` does. The application's next metadata share (or reclaim) unwinds that view instead of its own frame, and the descriptor keeps exposing the old buffer. |
| `event_aborts` | `MCGlobalContext_Event.cfg` | violation | The first throwing event hook stops the loop (`global_context.cxx:173`), so later plug-ins are not notified. This is a code bug against spec 4.4. |
| `release_leaks` | `MCGlobalContext_Release.cfg` | violation | `FreeFunctionsRun`: the application shares a buffer with a free function and releases it, as `data_descriptor.h:116` invites. `release` pops the only frame without running the free function, and nothing runs it later. |
| `nested_hooks` | `MCGlobalContext_Nested.cfg` | pass | One plug-in whose hooks access, release, share and reclaim `data`, fire `e1` and throw, two loops deep. `data` is not declared, so `desc()` creates it inside a hook while an outer share is notifying. `NoDanglingFrame` (now over every sharer, hooks included), `StacksMatchSharer` (hooks give back what they share before the application's call returns), `RefAliveDuringNotify` (at every level of nesting) and `OwnershipRefined` hold. About 1.33M distinct states in under 2.5 minutes. |
| `nested_metadata_share` | `MCGlobalContext_NestedMeta.cfg` | violation | A hook of an event takes a view of `meta`, then shares `meta` anew, both well-formed calls in nested order. The metadata share pops the top frame, which is the hook's view, not the old value (`data_descriptor.cxx:94-96`). The application's old buffer stays shared under the new one, which `OwnershipRefined` rejects: spec 4.3 says the new share supersedes it outright. |
| `plugin_order` | `MCGlobalContext_Order.cfg` | violation | Hooks run in `unordered_map` order, not declaration order. |
| `constructor` | `MCConstructor.cfg` | pass | `ConstructedAsConfigured`: a constructor that returns has declared exactly the names of `.metadata` and `.data`, as data when `.data` declares them, and holds the first construction of each plug-in name. `ConfigErrorReported`: the constructor throws `PDI_ERR_CONFIG` exactly for the configurations with a malformed section (a non-empty sequence or scalar where a mapping is read), whatever the plug-in loader does; it never returns for them, and a well-formed configuration never gets `PDI_ERR_CONFIG`. This rests on every section being read before any plug-in is loaded, and on the plug-in name being read outside the `try` whose `catch` rewraps as `PDI_ERR_SYSTEM` (`global_context.cxx:120-124`). There are 10736 states. Deadlock is not checked, because the constructor returns and nothing follows it in this module. |
| `type_evaluation` | `MCTypeEvaluation.cfg` | pass | `TypeOK` includes that every successful evaluation is concrete. `EvaluationReadsShared`: every evaluation equals the evaluation against what the sharers made available (the buffer shared last, or for metadata the value its reclaim left), so an application writing a buffer it took back never changes an extent. It fails if a metadata reclaim does not copy. There are 4383 states. |

Every property of the passing runs has a mutant in `PROJECT.json`: a
plausible bug in a mapped definition that TLC then catches. The mutants are:

- a metadata `reclaim` that does not copy;
- a copy taken in memory that is still marked freed;
- a metadata `share` that does not retire the old frame;
- an `access` that reports success without keeping its frame;
- the index of the shared frame taken one past the top;
- a `release` that drops the oldest frame instead of the newest;
- the same four protocol mutants (no copy on reclaim, no supersede on
  share, access without its frame, a release of the oldest frame) caught
  again by `nested_hooks`;
- a plug-in load failure that propagates `PDI_ERR_PLUGIN` unwrapped;
- a plug-in name read moved inside the `try`, so its error is rethrown as
  `PDI_ERR_SYSTEM`;
- a metadata flag set only when the descriptor is created;
- an operator table shifted by one, so that `+` subtracts;
- a metadata `reclaim` that does not copy, caught again by
  `EvaluationReadsShared`.

### Bounds

- `MaxDepth = 2` frames per stack. This is enough for an application frame
  with a view on top of it (every dangling case needs exactly that), and for
  two stacked shares of the data descriptor.
- `HookCalls = 2` access calls per hook. This lets a hook take two views, or
  take a view, release it and take another.
- Two buffers let the application share a second buffer while the first is
  still shared or reclaimed.
- `nested_hooks` and `nested_metadata_share` use one plug-in, `MaxNest = 2`
  and `HookCalls = 2`: a hook can take a view and share, or share and fire
  an event, and the nested loop's hook can do the same. A second plug-in
  makes the state space too large for a run of a few minutes; the orders of
  two plug-ins are covered by the single-level runs.
- Two plug-ins make hook order and "the hooks after the failing one"
  observable. `p2` may throw in the passing run.

### Fairness

No run checks a liveness property, and the specifications carry no
fairness. Every loop of the code is a range-for over a finite container
(`data_descriptor.cxx:104`, `global_context.cxx:117` and `161`), so it ends
once each hook returns; whether a hook returns is up to the plug-in, and
spec 5 says a hook that never returns stalls its caller. A property that
every loop ends would hold by the shape of the model under the assumption
that hooks return, so none is stated; a loop that cannot move on shows up
as a deadlock, which every passing run except `constructor` and
`type_evaluation` checks (those two stop by design, as said above).

## 4. Plan

These are ordered by importance of the behaviour.

1. **Done:** the descriptor protocol and the broker, with hooks that access
   and release. This is the core that the hazards above are about.
2. **Done:** nested hooks that share, reclaim and fire events themselves
   (`nested_hooks`). It found that a well-behaved hook can break the
   metadata protocol (`nested_metadata_share`).
3. **Done:** abstract specification `Ownership.tla`: per descriptor, the
   application's outstanding shares and the current metadata value. The
   detailed model refines it: `GlobalContext` with the filtered stack as the
   refinement mapping, checked with `INSTANCE ... WITH` and the abstract
   `Spec` as a `PROPERTY`.
4. **Done:** free-function accounting: a property that no frame carrying a free
   function leaves a stack without that function running. It covers the
   `release` leak (hazard at `data_descriptor.cxx:117`), and is the
   violation run `release_leaks`.
5. **Done, in part:** `Datatype.tla` has the scalar, array and struct types as
   records, and `Evaluate` as a `RECURSIVE` operator over them. The
   layout operators were dropped: their code is not in the repository.
   Still open: alignment, and the clone laws that
   `PDI_scalar_datatype.cxx` tests.
6. **Done:** `Datatype.tla` and `TypeEvaluation.tla` cover the integer
   value trees of `value.h`, evaluated through `value()` against the frame
   stacks of `DataDescriptor` as the application shares, reclaims, releases
   and rewrites its buffers. Plug-ins' views are left out of this
   composition; `GlobalContext` checks them against the stacks directly.
7. **Done:** Paraconf `each` and `opt_each`, and the constructor driven by a
   small configuration tree (`Paraconf.tla`, `Constructor.tla`).

## 5. Not modelled

- Character-level parsing of expressions and of the YAML configuration.
  They are out of TLC's reach and not in `src/`.
- String values, `$name[index]` subscripts, and `/` and `%` in
  expressions. Their evaluation code is not in the repository, and the spec
  does not define division by zero.
- Alignment, `clone` and `clone_type`, and loading a type from its
  configuration node: their code is not in the repository.
- `to_long`, `to_double` and `to_bool` in the Paraconf wrapper. They repeat
  the `do_pc` pattern of `to_string` around a conversion that nothing in
  `src/` calls.
- The legacy C declarations of `state.h`. They are structs only; the one
  use in `src/` is `share`'s loop over `PDI_state.plugins`
  (`data_descriptor.cxx:104`), modelled as the loop over the plug-ins.
  That loop reads each entry as a (name, plug-in) pair, while `state.h`
  declares `plugins` as a C array of `nb_plugins` entries; `event`
  iterates `Global_context::m_plugins` instead. In this snapshot the two
  registries do not match. The model assumes `share` and `event` notify the
  same plug-ins, in the same `m_plugins` order.
- I/O done by plug-ins: HDF5, FTI and FlowVR. Their test programs are
  application drivers or external-library checks.
- The gmock context. Iteration over `m_descriptors` with `begin`/`end`:
  nothing in `src/` calls it.
- The reference counting inside `Data_ref`.
