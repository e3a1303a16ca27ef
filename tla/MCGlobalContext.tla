--------------------------- MODULE MCGlobalContext ---------------------------
(* Instantiation of GlobalContext for TLC: two plug-ins, one metadata and *)
(* one data descriptor, two application buffers, one event.  The nested  *)
(* runs use one plug-in, which its own nested loops notify again.         *)
EXTENDS GlobalContext, TLC

CONSTANTS p1, p2, meta, data, b1, b2, e1

MCPlugins    == {p1, p2}
MCPluginDecl == <<p1, p2>>
MCNames      == {meta, data}
MCBuffers    == {b1, b2}
MCConfigMeta == {meta}
MCConfigData == {data}

MCOnePlugin     == {p1}
MCOnePluginDecl == <<p1>>
=============================================================================
