SPECIFICATION CoreSpec
CONSTANTS
    Apps = {a1}
    Requests = {t1}
    Hosts = {hq, staging}
    Absolute = {hq, staging}
    Default = hq
    Secrets = {k1, k2}
    Blank = Blank
    None = None
INVARIANT ContractOpensToHQ
CHECK_DEADLOCK FALSE
