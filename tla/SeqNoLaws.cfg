CONSTANT SEQ_MOD = 16
SPECIFICATION Spec
INVARIANTS
    Ordered
PROPERTIES
    SlideKeepsOrder
