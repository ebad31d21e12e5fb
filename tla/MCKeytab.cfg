\* Two processes and four commands: enough to register both servers, to change a
\* password, and to overlap or interrupt an export of what came of it.
SPECIFICATION Spec
CONSTANTS
    demo = demo
    partner = partner
    fileserver = fileserver
    boot = boot
    k1 = k1
    s1 = s1
    s2 = s2
    Principal = {demo, partner}
    Key = {boot, k1}
    ByteRange = 2
    WordRange = 4
    Alias = {fileserver}
    aliasesOf <- AliasesOf
    DefaultServices <- Defaults
    Bootstrap = boot
    Nobody = nobody
    Session = {s1, s2}
    MaxKvno = 3
    MaxCommands = 4
SYMMETRY SessionsAreAlike
INVARIANTS KeytabGenuine ExportedKeyOpens AliasesResolve
CHECK_DEADLOCK FALSE
