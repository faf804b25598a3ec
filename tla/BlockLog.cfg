CONSTANT MaxBlocks = 8
SPECIFICATION Spec
INVARIANT IndexComplete
PROPERTIES FlushReachesDisk ImplementsLogStore
