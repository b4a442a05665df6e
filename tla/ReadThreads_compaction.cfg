\* A buffer of three bytes, compacted once more than two have been read.
CONSTANTS
    Capacity = 3
    CompactAbove = 2
    MaxLength = 9
SPECIFICATION Spec
INVARIANT UnreadWithinCapacity
