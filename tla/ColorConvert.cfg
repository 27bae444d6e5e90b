\* Every rectangle of every frame of up to six by six pixels.
CONSTANT MaxSide = 6
SPECIFICATION Spec
INVARIANTS StaysInBuffers ImageRight EncoderSeesRect
CHECK_DEADLOCK FALSE
