SPECIFICATION Spec
INVARIANTS RestoresAllButBl Acknowledged
