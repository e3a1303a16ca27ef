CONSTANTS
    n1 = n1
    n2 = n2
    p1 = p1
    p2 = p2
    Names <- MCNames
    Plugins <- MCPlugins
    Configs <- MCConfigs
SPECIFICATION Spec
\* The constructor returns or throws, and nothing follows it in this module
CHECK_DEADLOCK FALSE
INVARIANT TypeOK
INVARIANT ConstructedAsConfigured
INVARIANT ConfigErrorReported
