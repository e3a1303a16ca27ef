CONSTANTS
    App = App
    p1 = p1
    p2 = p2
    meta = meta
    data = data
    b1 = b1
    b2 = b2
    e1 = e1
    Plugins <- MCPlugins
    PluginDecl <- MCPluginDecl
    Names <- MCNames
    Buffers <- MCBuffers
    ConfigMeta <- MCConfigMeta
    ConfigData <- MCConfigData
    Events = {e1}
    Throwing = {p2}
    HoldViews = FALSE
    MaxDepth = 2
    HookCalls = 2
    MaxNest = 1
    HookShares = {}
SPECIFICATION Spec
INVARIANT NotifyInDeclarationOrder
