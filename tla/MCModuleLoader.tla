--------------------------- MODULE MCModuleLoader ---------------------------
(***************************************************************************)
(* All manifests over a project and three modules with one layer and one   *)
(* codec domain, up to what decides: the project needs any names (one of   *)
(* which does not exist), the modules need each other in any way.  Besides *)
(* them, the manifests of this repository.                                 *)
(***************************************************************************)
EXTENDS MCRepository

Small == {"a", "b", "c"}
Missing == "d"

AllNames == RepositoryNames \cup Small \cup {Missing}
AllRank == RepositoryRank @@ ("a" :> 101 @@ "b" :> 102 @@ "c" :> 103 @@ "d" :> 104)
AllLayers == RepositoryLayers \cup {"L"}

Plain(needs) == [special |-> FALSE, needs |-> needs, needsLayer |-> None,
                 offersLayer |-> None, default |-> FALSE, suits |-> TRUE,
                 needsCodecs |-> None, offersCodecs |-> {}]

\* The kinds of module this repository has.
Kinds == {Plain({}),
          [Plain({}) EXCEPT !.needsLayer = "L"],
          [Plain({}) EXCEPT !.needsCodecs = "D"],
          [Plain({}) EXCEPT !.offersCodecs = {"D"}],
          [Plain({}) EXCEPT !.offersCodecs = {"D"}, !.suits = FALSE],
          [Plain({}) EXCEPT !.special = TRUE, !.offersLayer = "L"],
          [Plain({}) EXCEPT !.special = TRUE, !.offersLayer = "L", !.default = TRUE],
          [Plain({}) EXCEPT !.special = TRUE, !.offersLayer = "L", !.suits = FALSE]}

SmallManifests ==
  {[m \in Small \cup {Project} |-> IF m = Project THEN Plain(needs)
                                 ELSE [kind[m] EXCEPT !.needs = edges[m]]] :
     needs \in {{"a"}, {"a", "c"}, {"a", Missing}},
     kind \in [Small -> Kinds],
     edges \in {e \in [Small -> SUBSET Small] : \A m \in Small : m \notin e[m]}}

AllManifests == SmallManifests \cup RepositoryProjects

ASSUME RepositoryAssumption == Repository
=============================================================================
