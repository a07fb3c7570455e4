SPECIFICATION RotateSpec
CONSTANT MaxRotations = 2
INVARIANT RotatedKeyShown
