CONSTANTS
    a = a
    b = b
    c = c
    d = d
    Stack = {a, b, c, d}
    InConfigOrder <- MCOrder
    Configs <- MCConfigs
SPECIFICATION FairSpec
INVARIANTS DependenciesFirst ConfigOrderKept LeftOutIffStuck
PROPERTY Terminates
