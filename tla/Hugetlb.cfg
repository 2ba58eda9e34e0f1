\* Every recipe on a good kernel and on kernels with one fault.
SPECIFICATION Spec
CONSTANTS
  Recipes <- AllRecipes
  Kernels <- OneFault
INVARIANTS
  TypeOK
  NoFalsePass
  GoodKernelPasses
  LoneWriterIsHeard
PROPERTIES
  RecipeEnds
\* a recipe ends
CHECK_DEADLOCK FALSE
