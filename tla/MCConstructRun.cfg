SPECIFICATION FairSpec
CONSTANTS
  Workers = {w1, w2, w3}
  Main = main
  Sources <- AllSources
  Scripts <- ScriptNames
  Program <- ScriptProgram
  Defines = {"D", "E"}
  Project <- ScriptedProject
  Fresh = {"c"}
  Nil = Nil
INVARIANTS
  NothingForgotten
  OwnDirectory
  DefinesReach
PROPERTIES
  Terminates
  UsesPool
