SPECIFICATION Spec
CONSTANTS
    MAX_ADDRESS = 4
    States = {"Private", "Aliased"}
    Perms = {{"r"}, {"r", "w"}}
    Memory = {1}
INVARIANTS
    AreasMerged
