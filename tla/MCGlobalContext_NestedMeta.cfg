CONSTANTS
    App = App
    p1 = p1
    p2 = p2
    meta = meta
    data = data
    b1 = b1
    b2 = b2
    e1 = e1
    Plugins <- MCOnePlugin
    PluginDecl <- MCOnePluginDecl
    Names <- MCNames
    Buffers <- MCBuffers
    ConfigMeta <- MCConfigMeta
    ConfigData = {}
    Events = {e1}
    Throwing = {}
    HoldViews = FALSE
    MaxDepth = 2
    HookCalls = 2
    MaxNest = 2
    HookShares = {meta, data}
SPECIFICATION Spec
PROPERTY OwnershipRefined
