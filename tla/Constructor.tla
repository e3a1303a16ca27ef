---------------------------- MODULE Constructor ----------------------------
(***************************************************************************)
(* Global_context::Global_context (src/src/global_context.cxx): the       *)
(* descriptors of .metadata, then of .data, are declared through          *)
(* load_data, then every plug-in of .plugins is loaded, one loop          *)
(* iteration per step.  The configuration is read through the Paraconf     *)
(* wrapper; a plug-in load either returns a plug-in or throws.  The        *)
(* context that GlobalContext starts from is the state this constructor   *)
(* ends in.                                                                *)
(***************************************************************************)
EXTENDS Paraconf, TLC

CONSTANTS
    Names,     \* descriptor names a configuration may declare
    Plugins,   \* plug-in names a configuration may declare
    Configs    \* the configuration trees the program may be started with

VARIABLES
    conf,      \* the configuration tree passed to the constructor
    sec,       \* the loop running: "metadata", "data", "plugins", or the end
    i,         \* the loop index (map_id, plugin_id)
    descs,     \* m_descriptors: name -> is_metadata
    plugins,   \* m_plugins: name -> the construction it holds
    loads,     \* number of plug-in constructions so far
    status     \* the error the constructor throws, "OK" while it runs

vars == <<conf, sec, i, descs, plugins, loads, status>>

\* The section a loop reads, and the loop that follows it
Node(s) == PC_child(conf, s)
NextSec == [metadata |-> "data", data |-> "plugins"]

\* The keys a mapping declares, the reading the spec gives a section
Keys(t) == IF t.kind = "map" THEN {t.keys[k].val : k \in 1..Len(t.keys)} ELSE {}

Init ==
    /\ conf \in Configs
    /\ sec = "metadata"
    /\ i = 0
    /\ descs = <<>>
    /\ plugins = <<>>
    /\ loads = 0
    /\ status = "OK"

\* The constructor throws: the partly built context, plug-ins included, is
\* destroyed with it
Fail(st) ==
    /\ sec' = "failed"
    /\ status' = st
    /\ descs' = <<>>
    /\ plugins' = <<>>
    /\ UNCHANGED <<conf, i, loads>>

\* Mutant: the metadata flag is set only when the descriptor is created
DeclareNoOverwrite(n, isMeta) ==
    IF n \in DOMAIN descs THEN descs ELSE descs @@ (n :> isMeta)

\* Global_context::desc (emplace) then Data_descriptor::metadata
Declare(n, isMeta) ==
    [m \in DOMAIN descs \cup {n} |-> IF m = n THEN isMeta ELSE descs[m]]

(* One iteration of load_data over the current section: the name is read *)
(* with to_string, which throws on anything but a scalar key.             *)
LoadDataEntry ==
    LET node == Node(sec)
        name == to_string(PC_key(node, i))
    IN  /\ sec \in {"metadata", "data"}
        /\ ~PC_status(node)
        /\ i < len(node).val
        /\ \/ /\ name.thrown
              /\ Fail(name.val)
           \/ /\ ~name.thrown
              /\ descs' = Declare(name.val, sec = "metadata")
              /\ i' = i + 1
              /\ UNCHANGED <<conf, sec, plugins, loads, status>>

\* The section is absent (PC_status) or its loop has run to len(node)
LoadDataDone ==
    LET node == Node(sec)
    IN  /\ sec \in {"metadata", "data"}
        /\ ~PC_status(node) => i = len(node).val
        /\ sec' = NextSec[sec]
        /\ i' = 0
        /\ UNCHANGED <<conf, descs, plugins, loads, status>>

PluginCount == len_or(Node("plugins"), 0)
PluginName == to_string(PC_key(Node("plugins"), i))

\* Mutant: the name is read inside the try block, its error rethrown
PluginNameFailsInTry ==
    /\ sec = "plugins"
    /\ i < PluginCount
    /\ PluginName.thrown
    /\ Fail("ERR_SYSTEM")

(* The plug-in name is read outside the try block: a malformed .plugins   *)
(* throws PDI_ERR_CONFIG straight out of the constructor.                 *)
PluginNameFails ==
    /\ sec = "plugins"
    /\ i < PluginCount
    /\ PluginName.thrown
    /\ Fail(PluginName.val)

\* Mutant: the loader's PDI_ERR_PLUGIN propagates unwrapped
PluginLoadFailsUnwrapped ==
    /\ sec = "plugins"
    /\ i < PluginCount
    /\ ~PluginName.thrown
    /\ Fail("ERR_PLUGIN")

(* get_plugin_ctr finds no loader (PDI_ERR_PLUGIN), or the plug-in's      *)
(* constructor throws; the catch rethrows either as PDI_ERR_SYSTEM.       *)
PluginLoadFails ==
    /\ sec = "plugins"
    /\ i < PluginCount
    /\ ~PluginName.thrown
    /\ Fail("ERR_SYSTEM")

(* The plug-in is constructed, then emplaced: a name already in m_plugins *)
(* keeps its plug-in, and the new construction is destroyed.              *)
PluginLoaded ==
    LET p == PluginName.val
    IN  /\ sec = "plugins"
        /\ i < PluginCount
        /\ ~PluginName.thrown
        /\ loads' = loads + 1
        /\ plugins' = IF p \in DOMAIN plugins THEN plugins
                      ELSE plugins @@ (p :> loads + 1)
        /\ i' = i + 1
        /\ UNCHANGED <<conf, sec, descs, status>>

PluginsDone ==
    /\ sec = "plugins"
    /\ i = PluginCount
    /\ sec' = "done"
    /\ UNCHANGED <<conf, i, descs, plugins, loads, status>>

Next ==
    \/ LoadDataEntry
    \/ LoadDataDone
    \/ PluginNameFails
    \/ PluginLoadFails
    \/ PluginLoaded
    \/ PluginsDone

Spec == Init /\ [][Next]_vars

-----------------------------------------------------------------------------
TypeOK ==
    /\ sec \in {"metadata", "data", "plugins", "done", "failed"}
    /\ i \in Nat
    /\ DOMAIN descs \subseteq Names
    /\ \A n \in DOMAIN descs : descs[n] \in BOOLEAN
    /\ DOMAIN plugins \subseteq Plugins
    /\ \A p \in DOMAIN plugins : plugins[p] \in 1..loads
    /\ status \in {"OK", "ERR_CONFIG", "ERR_SYSTEM"}

\* The position, among the declared plug-ins, of the first entry named p
FirstEntry(p) ==
    LET t == Node("plugins")
    IN  CHOOSE k \in 1..Len(t.keys) : t.keys[k].val = p /\ \A j \in 1..k-1 : t.keys[j].val # p

(* A constructor that returns has declared exactly the names of .metadata *)
(* and .data, a name being metadata unless .data declares it too, and     *)
(* holds one plug-in per name of .plugins, the first one constructed      *)
(* under that name (emplace keeps it, the later ones are destroyed).      *)
ConstructedAsConfigured ==
    sec = "done" =>
        /\ DOMAIN descs = Keys(Node("metadata")) \cup Keys(Node("data"))
        /\ \A n \in DOMAIN descs : descs[n] = (n \notin Keys(Node("data")))
        /\ DOMAIN plugins = Keys(Node("plugins"))
        /\ \A p \in DOMAIN plugins : plugins[p] = FirstEntry(p)

(* A section the constructor cannot read: present, neither a mapping nor *)
(* empty, so that the loop over it reads a key that is not there.         *)
Malformed(t) ==
    \/ t.kind = "seq" /\ t.items # <<>>
    \/ t.kind = "scalar" /\ t.size > 0

(* The error the constructor throws depends on the configuration only as *)
(* far as PDI can tell: a configuration with a malformed section always  *)
(* throws PDI_ERR_CONFIG, whatever the plug-in loader does, and one with *)
(* none never does.  It rests on load_data reading every section before  *)
(* any plug-in is loaded, and on the plug-in name being read outside the *)
(* try block whose catch rewraps loader errors as PDI_ERR_SYSTEM.        *)
ConfigErrorReported ==
    sec \in {"done", "failed"} =>
        ((sec = "failed" /\ status = "ERR_CONFIG")
            <=> \E s \in {"metadata", "data", "plugins"} : Malformed(Node(s)))

====
