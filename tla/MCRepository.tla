---------------------------- MODULE MCRepository ----------------------------
(***************************************************************************)
(* The module graph of this repository, from the .esse files under moduli, *)
(* for a project on Linux that names one or two of the modules.            *)
(***************************************************************************)
EXTENDS ModuleLoader, SequencesExt

\* In the order of the dictionaries; the project has no identifier.
Order == <<"", "auxilia", "auxilia-linux", "codices", "codices-linux",
           "communicatio", "communicatio-linux", "compressio", "consolatorium",
           "consolatorium-linux", "cor", "cor-linux", "dbus", "energia",
           "energia-linux", "engineruntime", "fenestrae", "fenestrae-linux-x11",
           "fenestrae-nullae", "formatio-imaginum", "formationes", "graphica",
           "graphica-linux", "imagines", "imprimitio", "imprimitio-linux",
           "minuti-linux">>

RepositoryNames == {Order[i] : i \in DOMAIN Order}
RepositoryRank == FoldLeftDomain(LAMBDA f, i : f @@ (Order[i] :> i), <<>>, Order)
RepositoryLayers == {"auxilia", "communicatio", "consolatorium", "cor", "energia",
                     "fenestrae", "graphica", "imprimitio"}
Project == ""

Needs(n) ==
  IF n = "cor" THEN {}
  ELSE IF n \in {"codices", "codices-linux"} THEN {"imagines"}
  ELSE {"cor"} \cup
    CASE n = "communicatio-linux"  -> {"communicatio"}
      [] n = "consolatorium-linux" -> {"consolatorium"}
      [] n = "energia-linux"       -> {"energia", "dbus"}
      [] n = "engineruntime"       -> {"auxilia", "consolatorium", "imagines", "graphica",
                                       "communicatio", "imprimitio", "energia", "fenestrae"}
      [] n = "fenestrae-linux-x11" -> {"fenestrae", "dbus", "imagines", "auxilia",
                                       "graphica", "minuti-linux"}
      [] n = "fenestrae-nullae"    -> {"fenestrae"}
      [] n = "formatio-imaginum"   -> {"compressio", "imagines"}
      [] n = "formationes"         -> {"compressio"}
      [] n = "graphica-linux"      -> {"graphica", "formationes"}
      [] n = "imprimitio"          -> {"graphica"}
      [] n = "imprimitio-linux"    -> {"imprimitio", "graphica", "graphica-linux"}
      [] n = "minuti-linux"        -> {"graphica", "fenestrae"}
      [] OTHER                     -> {}

Implementation ==
  [n \in RepositoryNames |->
    CASE n \in {"fenestrae-linux-x11", "fenestrae-nullae"} -> "fenestrae"
      [] n = "auxilia-linux"       -> "auxilia"
      [] n = "communicatio-linux"  -> "communicatio"
      [] n = "consolatorium-linux" -> "consolatorium"
      [] n = "cor-linux"           -> "cor"
      [] n = "energia-linux"       -> "energia"
      [] n = "graphica-linux"      -> "graphica"
      [] n = "imprimitio-linux"    -> "imprimitio"
      [] OTHER                     -> None]

Modules == [n \in RepositoryNames |->
  [special      |-> Implementation[n] # None,
   needs        |-> Needs(n),
   needsLayer   |-> IF n \in RepositoryLayers THEN n ELSE None,
   offersLayer  |-> Implementation[n],
   default      |-> Implementation[n] # None /\ n # "fenestrae-nullae",
   suits        |-> TRUE,
   needsCodecs  |-> IF n = "imagines" THEN "imagines" ELSE None,
   offersCodecs |-> IF n \in {"codices", "codices-linux", "formatio-imaginum"}
                    THEN {"imagines"} ELSE {}]]

\* The projects that name one or two modules.
RepositoryProjects ==
  LET modules == RepositoryNames \ {Project} IN
    {[Modules EXCEPT ![Project].needs = {a, b}] : a, b \in modules}

\* The sets of manifests of which those with the modules of this repository
\* differ from it in what the project names and in nothing else.
Repository ==
  /\ Root = Project
  /\ \A f \in Manifests : DOMAIN f = RepositoryNames =>
       f = [Modules EXCEPT ![Project].needs = f[Project].needs]

\* Of two implementations of a layer that are linked, one was required
\* directly; with the modules of this repository, whose implementations define
\* the same functions, load_module links two only of the layer fenestrae and
\* only where the project itself names the second of them.
LinkedOnce ==
  /\ OneImplementation
  /\ Known = RepositoryNames =>
       \A layer \in Layers :
         \/ Cardinality(Offers(layer)) <= 1
         \/ layer = "fenestrae" /\ "fenestrae-nullae" \in manifest[Root].needs
=============================================================================
