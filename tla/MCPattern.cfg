SPECIFICATION Spec
CONSTANT Phases = {0}
INVARIANTS
    TypeOK
    ShowsPattern
