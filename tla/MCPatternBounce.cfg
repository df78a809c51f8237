SPECIFICATION Spec
CONSTANT Phases = {0}
PROPERTIES
    BoxBounces
